------------------------ MODULE CommandExecutorProofs ------------------------
(***************************************************************************)
(* Proofs about the command executor, for every number of chains, jobs,    *)
(* steps, retries, crashes and exceptions.                                 *)
(***************************************************************************)
EXTENDS CommandExecutor, FiniteSetTheorems, TLAPS

USE WorkAssumption, StepsAssumption, RetriesAssumption, BoundsAssumption

-----------------------------------------------------------------------------
(* Types                                                                   *)

\* Every step keeps every variable in its set.
LEMMA TypeStep ==
  ASSUME TypeOK, [Next]_vars
  PROVE  TypeOK'
<1> USE DEF memory, faults, Stages, UnfinalizedStatuses, Goto, SetStatus, Adding
<1>1. CASE Boot \/ ResumeQueue \/ Crash \/ Poll \/ PollEnds \/ PollFails
  BY <1>1 DEF TypeOK, Boot, ResumeQueue, Crash, Poll, PollEnds, PollFails
<1>2. ASSUME NEW b \in Chains, AddListener(b)
      PROVE  TypeOK'
  BY <1>2 DEF TypeOK, AddListener, NewCommand
<1>3. ASSUME NEW j \in Jobs, Submit(j)
      PROVE  TypeOK'
  BY <1>3 DEF TypeOK, Submit, NewCommand
<1>4. ASSUME NEW c \in Commands, InsertChild(c)
      PROVE  TypeOK'
  <2>1. position[c] + 1 \in 0 .. Steps /\ c \in 0 .. MaxCommands
    BY <1>4 DEF InsertChild, TypeOK, Commands
  <2> QED
    BY <1>4, <2>1 DEF TypeOK, InsertChild, NewCommand
<1>5. ASSUME NEW c \in Commands, CheckBlocking(c) \/ InsertAndQueue(c) \/ Clean(c)
      PROVE  TypeOK'
  BY <1>5 DEF TypeOK, CheckBlocking, InsertAndQueue, Clean
<1>6. ASSUME NEW c \in Commands,
             Start(c) \/ Repeat(c) \/ Finish(c) \/ Complete(c) \/ PushChild(c) \/ Recover(c)
      PROVE  TypeOK'
  BY <1>6 DEF TypeOK, Start, Repeat, Finish, Complete, PushChild, Recover
<1>7. ASSUME NEW c \in Commands, Retry(c) \/ Throw(c) \/ HandleError(c)
      PROVE  TypeOK'
  BY <1>7 DEF TypeOK, Retry, Throw, HandleError
<1>9. ASSUME NEW c \in Commands, HandleErrorFails(c) \/ RecoverFails(c) \/ AddFails(c)
      PROVE  TypeOK'
  BY <1>9 DEF TypeOK, HandleErrorFails, RecoverFails, AddFails
<1>8. CASE UNCHANGED vars
  BY <1>8 DEF vars, TypeOK
<1> QED
  BY <1>1, <1>2, <1>3, <1>4, <1>5, <1>6, <1>7, <1>8, <1>9 DEF Next, Execute, Fail

-----------------------------------------------------------------------------
(* Rows and their parents                                                  *)

\* A row that is about to be used is no parent, and was neither deleted nor lost.
LEMMA UnusedRow ==
  ASSUME Lineage, NEW c \in Unused
  PROVE  /\ c \in Commands /\ c \notin removed /\ c \notin lost /\ stage[c] = "none"
         /\ \A d \in Commands : parent[d] # c
<1>1. c \in Commands /\ stage[c] = "none" /\ work[c] \notin Jobs
  BY DEF Unused, IsBlocking
<1>2. c \notin removed
  BY <1>1 DEF Lineage, RowsInUse
<1>3. ASSUME NEW d \in Commands, parent[d] = c
      PROVE  FALSE
  <2>1. c # 0
    BY <1>1 DEF Commands
  <2> QED
    BY <1>1, <1>3, <2>1 DEF Lineage, RowsInUse
<1>4. c \notin lost
  BY <1>1 DEF Lineage, RowsInUse, Unused, Unfinalized, UnfinalizedStatuses
<1> QED
  BY <1>1, <1>2, <1>3, <1>4

\* A command in memory other than a new listener is that of a row in use.
LEMMA RowsStep ==
  ASSUME Lineage, TypeOK', [Next]_vars
  PROVE  RowsInUse'
<1> USE DEF memory, faults, Goto, SetStatus, Adding, IsBlocking, Unfinalized,
            UnfinalizedStatuses
<1>1. CASE Boot
  BY <1>1 DEF Lineage, TypeOK, RowsInUse, Boot, Replayed
<1>2. CASE Crash
  BY <1>2 DEF Lineage, TypeOK, RowsInUse, Crash, Commands
<1>3. CASE ResumeQueue \/ Poll \/ PollEnds \/ PollFails
  BY <1>3 DEF Lineage, TypeOK, RowsInUse, ResumeQueue, Poll, PollEnds, PollFails
<1>4. ASSUME NEW b \in Chains, AddListener(b)
      PROVE  RowsInUse'
  BY <1>4, UnusedRow DEF Lineage, TypeOK, RowsInUse, AddListener, NewCommand
<1>5. ASSUME NEW j \in Jobs, Submit(j)
      PROVE  RowsInUse'
  BY <1>5, UnusedRow DEF Lineage, TypeOK, RowsInUse, Submit, NewCommand
<1>6. ASSUME NEW c \in Commands, InsertChild(c)
      PROVE  RowsInUse'
  BY <1>6, UnusedRow DEF Lineage, TypeOK, RowsInUse, InsertChild, NewCommand
<1>7. ASSUME NEW c \in Commands, CheckBlocking(c)
      PROVE  RowsInUse'
  <2>1. CASE work' = work
    BY <1>7, <2>1 DEF Lineage, TypeOK, RowsInUse, CheckBlocking
  <2>2. CASE work' # work
    <3>1. status[c] = "none" /\ work' = [work EXCEPT ![c] = "free"]
          /\ stage' = [stage EXCEPT ![c] = "none"]
      BY <1>7, <2>2 DEF CheckBlocking
    <3>2. work[c] \notin Jobs
      BY <3>1 DEF Lineage, RowsInUse
    <3>3. \A d \in Commands : d # c => work'[d] = work[d] /\ stage'[d] = stage[d]
      BY <3>1 DEF Lineage, TypeOK
    <3>4. work'[c] = "free" /\ stage'[c] = "none"
      BY <3>1 DEF Lineage, TypeOK
    <3>5. UNCHANGED <<phase, poller, toAdd, lost, position, parent, status, removed, errors>>
      BY <1>7 DEF CheckBlocking
    <3>7. c \notin lost
      BY <3>1 DEF Lineage, RowsInUse
    <3>6. \A d \in Commands : parent[d] # 0 => parent[d] \in Commands
      BY DEF Lineage, TypeOK, Commands
    <3> QED
      BY <3>1, <3>2, <3>3, <3>4, <3>5, <3>6, <3>7 DEF Lineage, RowsInUse
  <2> QED
    BY <2>1, <2>2
<1>8. ASSUME NEW c \in Commands, InsertAndQueue(c) \/ Clean(c)
      PROVE  RowsInUse'
  BY <1>8 DEF Lineage, TypeOK, RowsInUse, InsertAndQueue, Clean
<1>9. ASSUME NEW c \in Commands, Start(c) \/ Repeat(c) \/ Finish(c) \/ Complete(c) \/ Recover(c)
      PROVE  RowsInUse'
  BY <1>9 DEF Lineage, TypeOK, RowsInUse, Start, Repeat, Finish, Complete, Recover
<1>10. ASSUME NEW c \in Commands, PushChild(c)
       PROVE  RowsInUse'
  <2>1. PICK d \in Commands :
          parent[d] = c /\ stage' = [stage EXCEPT ![c] = "none", ![d] = "queued"]
    BY <1>10 DEF PushChild, IsLatestChild
  <2>2. c # 0 /\ c \notin removed /\ stage[c] = "push"
    BY <1>10 DEF PushChild, Commands, Lineage, RowsInUse
  <2>3. work[d] \in Jobs /\ status[d] = "PENDING" /\ d \notin removed /\ d \notin lost
    BY <2>1, <2>2 DEF Lineage, RowsInUse, UntouchedTillPushed
  <2> QED
    BY <1>10, <2>1, <2>2, <2>3 DEF Lineage, TypeOK, RowsInUse, PushChild
<1>11. ASSUME NEW c \in Commands, Retry(c) \/ Throw(c) \/ HandleError(c)
       PROVE  RowsInUse'
  BY <1>11 DEF Lineage, TypeOK, RowsInUse, Retry, Throw, HandleError
<1>13. ASSUME NEW c \in Commands, HandleErrorFails(c) \/ RecoverFails(c)
       PROVE  RowsInUse'
  <2>1. errors >= 1 /\ errors' = errors + 1 /\ errors' >= 2 /\ errors \in Nat
    BY <1>13 DEF Lineage, TypeOK, RowsInUse, HandleErrorFails, RecoverFails
  <2>2. CASE HandleErrorFails(c)
    <3>1. Unfinalized(c)
      BY <2>2 DEF HandleErrorFails, Lineage, CompletedIsLeft
    <3>2. /\ \A d \in Commands : stage'[d] = IF d = c THEN "none" ELSE stage[d]
          /\ stage[c] # "none" /\ lost' = lost \cup {c}
          /\ UNCHANGED <<phase, poller, toAdd, work, position, parent, status, removed>>
      BY <2>2 DEF Lineage, TypeOK, HandleErrorFails
    <3>3. phase # "down"
      BY <3>2 DEF Lineage, RowsInUse
    <3> QED
      BY <2>1, <3>1, <3>2, <3>3 DEF Lineage, RowsInUse
  <2>3. CASE RecoverFails(c)
    BY <2>1, <2>3 DEF Lineage, TypeOK, RowsInUse, RecoverFails
  <2> QED
    BY <1>13, <2>2, <2>3
<1>14. ASSUME NEW c \in Commands, AddFails(c)
       PROVE  RowsInUse'
  BY <1>14 DEF Lineage, TypeOK, RowsInUse, AddFails, BeingAdded
<1>12. CASE UNCHANGED vars
  BY <1>12 DEF vars, Lineage, RowsInUse
<1> QED
  BY <1>1, <1>2, <1>3, <1>4, <1>5, <1>6, <1>7, <1>8, <1>9, <1>10, <1>11, <1>12, <1>13, <1>14
  DEF Next, Execute, Fail

\* No step lets a completed command of a sequence run again.
LEMMA CompletedStep ==
  ASSUME Lineage, TypeOK', [Next]_vars
  PROVE  CompletedIsLeft'
<1> USE DEF memory, faults, Goto, SetStatus, Adding, IsBlocking, Unfinalized,
            UnfinalizedStatuses
<1>1. CASE Boot
  BY <1>1 DEF Lineage, TypeOK, CompletedIsLeft, Boot, Replayed
<1>2. CASE Crash
  BY <1>2 DEF Lineage, TypeOK, RowsInUse, CompletedIsLeft, Crash
<1>3. CASE ResumeQueue \/ Poll \/ PollEnds \/ PollFails
  BY <1>3 DEF Lineage, CompletedIsLeft, ResumeQueue, Poll, PollEnds, PollFails
<1>4. ASSUME NEW b \in Chains, AddListener(b)
      PROVE  CompletedIsLeft'
  BY <1>4 DEF Lineage, TypeOK, CompletedIsLeft, AddListener, NewCommand
<1>5. ASSUME NEW j \in Jobs, Submit(j)
      PROVE  CompletedIsLeft'
  BY <1>5, UnusedRow DEF Lineage, TypeOK, CompletedIsLeft, Submit, NewCommand
<1>6. ASSUME NEW c \in Commands, InsertChild(c)
      PROVE  CompletedIsLeft'
  BY <1>6, UnusedRow DEF Lineage, TypeOK, RowsInUse, CompletedIsLeft, InsertChild, NewCommand
<1>7. ASSUME NEW c \in Commands, CheckBlocking(c)
      PROVE  CompletedIsLeft'
  BY <1>7 DEF Lineage, TypeOK, CompletedIsLeft, CheckBlocking
<1>8. ASSUME NEW c \in Commands, InsertAndQueue(c) \/ Clean(c)
      PROVE  CompletedIsLeft'
  BY <1>8 DEF Lineage, TypeOK, RowsInUse, CompletedIsLeft, InsertAndQueue, Clean
<1>9. ASSUME NEW c \in Commands, Start(c) \/ Repeat(c) \/ Finish(c) \/ Complete(c) \/ Recover(c)
      PROVE  CompletedIsLeft'
  BY <1>9 DEF Lineage, TypeOK, RowsInUse, CompletedIsLeft, Start, Repeat, Finish, Complete, Recover
<1>10. ASSUME NEW c \in Commands, PushChild(c)
       PROVE  CompletedIsLeft'
  <2>1. PICK d \in Commands :
          parent[d] = c /\ stage' = [stage EXCEPT ![c] = "none", ![d] = "queued"]
    BY <1>10 DEF PushChild, IsLatestChild
  <2>2. c # 0 /\ c \notin removed /\ stage[c] = "push"
    BY <1>10 DEF PushChild, Commands, Lineage, RowsInUse
  <2>3. status[d] = "PENDING" /\ d \notin removed
    BY <2>1, <2>2 DEF Lineage, RowsInUse, UntouchedTillPushed
  <2> QED
    BY <1>10, <2>1, <2>2, <2>3 DEF Lineage, TypeOK, CompletedIsLeft, PushChild
<1>11. ASSUME NEW c \in Commands, Retry(c) \/ Throw(c) \/ HandleError(c)
       PROVE  CompletedIsLeft'
  BY <1>11 DEF Lineage, TypeOK, CompletedIsLeft, Retry, Throw, HandleError
<1>13. ASSUME NEW c \in Commands, HandleErrorFails(c) \/ RecoverFails(c)
       PROVE  CompletedIsLeft'
  BY <1>13 DEF Lineage, TypeOK, CompletedIsLeft, HandleErrorFails, RecoverFails
<1>14. ASSUME NEW c \in Commands, AddFails(c)
       PROVE  CompletedIsLeft'
  BY <1>14 DEF Lineage, TypeOK, CompletedIsLeft, AddFails, BeingAdded
<1>12. CASE UNCHANGED vars
  BY <1>12 DEF vars, Lineage, CompletedIsLeft
<1> QED
  BY <1>1, <1>2, <1>3, <1>4, <1>5, <1>6, <1>7, <1>8, <1>9, <1>10, <1>11, <1>12, <1>13, <1>14
  DEF Next, Execute, Fail

\* No step touches the child of a command that may run again.
LEMMA UntouchedStep ==
  ASSUME Lineage, TypeOK', [Next]_vars
  PROVE  UntouchedTillPushed'
<1>0. \A d \in Commands : parent[d] # 0 => parent[d] \in Commands
  <2>1. parent \in [Commands -> 0 .. MaxCommands]
    BY DEF Lineage, TypeOK
  <2> QED
    BY <2>1 DEF Commands
<1> USE DEF memory, faults, Goto, SetStatus, Adding, IsBlocking, Unfinalized,
            UnfinalizedStatuses
<1>1. CASE Boot
  BY <1>0, <1>1 DEF Lineage, TypeOK, RowsInUse, UntouchedTillPushed, Boot, Replayed
<1>2. CASE Crash
  BY <1>0, <1>2 DEF Lineage, TypeOK, UntouchedTillPushed, Crash
<1>3. CASE ResumeQueue \/ Poll \/ PollEnds \/ PollFails
  BY <1>3 DEF Lineage, UntouchedTillPushed, ResumeQueue, Poll, PollEnds, PollFails
<1>4. ASSUME NEW b \in Chains, AddListener(b)
      PROVE  UntouchedTillPushed'
  BY <1>0, <1>4, UnusedRow DEF Lineage, TypeOK, UntouchedTillPushed, AddListener, NewCommand
<1>5. ASSUME NEW j \in Jobs, Submit(j)
      PROVE  UntouchedTillPushed'
  BY <1>0, <1>5, UnusedRow DEF Lineage, TypeOK, UntouchedTillPushed, Submit, NewCommand
<1>6. ASSUME NEW c \in Commands, InsertChild(c)
      PROVE  UntouchedTillPushed'
  <2>1. PICK d \in Unused :
          /\ parent' = [parent EXCEPT ![d] = c] /\ status' = [status EXCEPT ![d] = "PENDING"]
          /\ stage' = [stage EXCEPT ![c] = "inserted"] /\ stage[c] = "executing"
          /\ removed' = removed /\ lost' = lost /\ work[c] \notin Chains
    BY <1>6 DEF InsertChild, NewCommand
  <2>2. /\ d \in Commands /\ d # c /\ stage[d] = "none" /\ d \notin lost
        /\ \A e \in Commands : parent[e] # d
    BY <2>1, UnusedRow
  <2>3. status[c] # "COMPLETED" /\ c \notin removed
    BY <2>1 DEF Lineage, CompletedIsLeft
  <2>4. \A e \in Commands :
          parent[e] = c => status[e] = "PENDING" /\ stage[e] = "none" /\ e \notin lost
    BY <2>3 DEF Lineage, UntouchedTillPushed, Commands
  <2> QED
    BY <1>0, <2>1, <2>2, <2>3, <2>4 DEF Lineage, TypeOK, UntouchedTillPushed
<1>7. ASSUME NEW c \in Commands, CheckBlocking(c)
      PROVE  UntouchedTillPushed'
  BY <1>0, <1>7 DEF Lineage, TypeOK, UntouchedTillPushed, CheckBlocking
<1>8. ASSUME NEW c \in Commands, InsertAndQueue(c) \/ Clean(c)
      PROVE  UntouchedTillPushed'
  BY <1>0, <1>8 DEF Lineage, TypeOK, UntouchedTillPushed, InsertAndQueue, Clean
<1>9. ASSUME NEW c \in Commands, Start(c) \/ Repeat(c) \/ Finish(c) \/ Complete(c) \/ Recover(c)
      PROVE  UntouchedTillPushed'
  BY <1>0, <1>9 DEF Lineage, TypeOK, UntouchedTillPushed, Start, Repeat, Finish, Complete, Recover
<1>10. ASSUME NEW c \in Commands, PushChild(c)
       PROVE  UntouchedTillPushed'
  <2>1. PICK d \in Commands :
          parent[d] = c /\ stage' = [stage EXCEPT ![c] = "none", ![d] = "queued"]
    BY <1>10 DEF PushChild, IsLatestChild
  <2>2. c # 0 /\ stage[c] = "push" /\ status[c] = "COMPLETED" /\ UNCHANGED <<status, parent, removed, lost>>
    BY <1>10 DEF PushChild, Commands, Lineage, CompletedIsLeft
  <2>3. c \notin removed
    BY <2>2 DEF Lineage, RowsInUse
  <2>4. status[d] = "PENDING" /\ stage[d] = "none"
    BY <2>1, <2>2, <2>3 DEF Lineage, UntouchedTillPushed
  <2>5. d # c
    BY <2>2, <2>4
  <2>6. \A e \in Commands : e # c /\ e # d => stage'[e] = stage[e]
    BY <2>1 DEF Lineage, TypeOK
  <2>7. stage'[c] = "none"
    BY <2>1, <2>5 DEF Lineage, TypeOK
  <2> QED
    <3> SUFFICES ASSUME NEW e \in Commands, parent[e] # 0,
                        parent[e] \notin removed,
                        status[e] # "PENDING" \/ stage'[e] # "none" \/ e \in lost
                 PROVE  status[parent[e]] = "COMPLETED" /\ stage'[parent[e]] = "none"
      BY <2>2 DEF UntouchedTillPushed
    <3>1. CASE parent[e] = c
      BY <2>2, <2>7, <3>1
    <3>2. CASE parent[e] # c
      <4>1. status[e] # "PENDING" \/ stage[e] # "none" \/ e \in lost
        BY <2>1, <2>2, <2>6, <3>2
      <4>2. status[parent[e]] = "COMPLETED" /\ stage[parent[e]] = "none"
        BY <4>1 DEF Lineage, UntouchedTillPushed
      <4> QED
        BY <1>0, <2>4, <2>6, <3>2, <4>2
    <3> QED
      BY <3>1, <3>2
<1>11. ASSUME NEW c \in Commands, Retry(c) \/ Throw(c) \/ HandleError(c)
       PROVE  UntouchedTillPushed'
  BY <1>0, <1>11 DEF Lineage, TypeOK, UntouchedTillPushed, Retry, Throw, HandleError
<1>13. ASSUME NEW c \in Commands, HandleErrorFails(c) \/ RecoverFails(c)
       PROVE  UntouchedTillPushed'
  BY <1>0, <1>13 DEF Lineage, TypeOK, UntouchedTillPushed, HandleErrorFails, RecoverFails
<1>14. ASSUME NEW c \in Commands, AddFails(c)
       PROVE  UntouchedTillPushed'
  BY <1>0, <1>14 DEF Lineage, TypeOK, UntouchedTillPushed, AddFails, BeingAdded
<1>12. CASE UNCHANGED vars
  BY <1>12 DEF vars, Lineage, UntouchedTillPushed
<1> QED
  BY <1>1, <1>2, <1>3, <1>4, <1>5, <1>6, <1>7, <1>8, <1>9, <1>10, <1>11, <1>12, <1>13, <1>14
  DEF Next, Execute, Fail

\* The rows of the database and the commands in memory agree on who may run, whatever
\* crashes, exceptions and replays happened.
THEOREM ExecutorLineage == Spec => []Lineage
<1>1. Init => Lineage
  BY DEF Init, Lineage, TypeOK, RowsInUse, CompletedIsLeft, UntouchedTillPushed, Stages, Adding, Unfinalized,
         IsBlocking
<1>2. Lineage /\ [Next]_vars => Lineage'
  <2> SUFFICES ASSUME Lineage, [Next]_vars
               PROVE  Lineage'
    OBVIOUS
  <2>1. TypeOK'
    BY TypeStep DEF Lineage
  <2> QED
    BY <2>1, RowsStep, CompletedStep, UntouchedStep DEF Lineage
<1> QED
  BY <1>1, <1>2, PTL DEF Spec

\* Every row of the database and every command in memory keeps its type.
THEOREM ExecutorTypeCorrect == Spec => []TypeOK
<1>1. Lineage => TypeOK
  BY DEF Lineage
<1> QED
  BY <1>1, ExecutorLineage, PTL

\* A command of a sequence is in memory only after its parent was completed or removed,
\* across crashes (replayOldCommands).
THEOREM ExecutorChildAfterParent == Spec => []ChildAfterParent
<1>1. Lineage => ChildAfterParent
  BY DEF Lineage, UntouchedTillPushed, ChildAfterParent
<1> QED
  BY <1>1, ExecutorLineage, PTL

-----------------------------------------------------------------------------
(* The owner of a chain                                                    *)

\* An exception that leaves enough retries makes no listener fail.
LEMMA RetriesLeftStep ==
  ASSUME Lineage, Lineage', Owned, [Next]_vars, errors' <= ListenerRetries
  PROVE  RetriesLeft'
<1> USE DEF memory, faults, Goto, SetStatus, Adding, IsBlocking, Unfinalized,
            UnfinalizedStatuses, Blocking, Owned
<1>1. CASE Boot
  BY <1>1 DEF Lineage, TypeOK, RowsInUse, RetriesLeft, Boot, Replayed
<1>2. CASE Crash
  BY <1>2 DEF Lineage, TypeOK, RowsInUse, RetriesLeft, Crash
<1>3. CASE ResumeQueue \/ Poll \/ PollEnds \/ PollFails
  BY <1>3 DEF Lineage, TypeOK, RowsInUse, RetriesLeft, ResumeQueue, Poll, PollEnds, PollFails
<1>4. ASSUME NEW b \in Chains, AddListener(b)
     PROVE  RetriesLeft'
  BY <1>4 DEF Lineage, TypeOK, RowsInUse, RetriesLeft, AddListener, NewCommand, Unused
<1>5. ASSUME NEW j \in Jobs, Submit(j)
     PROVE  RetriesLeft'
  BY <1>5 DEF Lineage, TypeOK, RowsInUse, RetriesLeft, Submit, NewCommand, Unused
<1>6. ASSUME NEW c \in Commands, InsertChild(c)
     PROVE  RetriesLeft'
  BY <1>6 DEF Lineage, TypeOK, RowsInUse, RetriesLeft, InsertChild, NewCommand, Unused
<1>7. ASSUME NEW c \in Commands, CheckBlocking(c)
     PROVE  RetriesLeft'
  BY <1>7 DEF Lineage, TypeOK, RowsInUse, RetriesLeft, CheckBlocking, Twin
<1>8. ASSUME NEW c \in Commands, InsertAndQueue(c) \/ Clean(c)
     PROVE  RetriesLeft'
  BY <1>8 DEF Lineage, TypeOK, RowsInUse, RetriesLeft, InsertAndQueue, Clean
<1>9. ASSUME NEW c \in Commands, Start(c) \/ Repeat(c) \/ Finish(c)
     PROVE  RetriesLeft'
  BY <1>9 DEF Lineage, TypeOK, RowsInUse, RetriesLeft, Start, Repeat, Finish
<1>10. ASSUME NEW c \in Commands, Complete(c) \/ PushChild(c) \/ Recover(c)
      PROVE  RetriesLeft'
  BY <1>10 DEF Lineage, TypeOK, RowsInUse, RetriesLeft, Complete, PushChild, IsLatestChild, Recover
<1>11. ASSUME NEW c \in Commands, Retry(c) \/ Throw(c) \/ HandleError(c)
      PROVE  RetriesLeft'
  BY <1>11 DEF Lineage, TypeOK, RowsInUse, RetriesLeft, Retry, Throw, HandleError
<1>13. ASSUME NEW c \in Commands, HandleErrorFails(c) \/ RecoverFails(c)
      PROVE  RetriesLeft'
  BY <1>13 DEF Lineage, TypeOK, RowsInUse, RetriesLeft, HandleErrorFails, RecoverFails
<1>14. ASSUME NEW c \in Commands, AddFails(c)
      PROVE  RetriesLeft'
  BY <1>14 DEF Lineage, TypeOK, RowsInUse, RetriesLeft, AddFails, BeingAdded
<1>12. CASE UNCHANGED vars
  BY <1>12 DEF Lineage, TypeOK, RowsInUse, RetriesLeft, vars
<1> QED
  BY <1>1, <1>2, <1>3, <1>4, <1>5, <1>6, <1>7, <1>8, <1>9, <1>10, <1>11, <1>12, <1>13, <1>14
  DEF Next, Execute, Fail

\* No step brings a second listener of a chain on its way into the database.
LEMMA OneAdderStep ==
  ASSUME Lineage, Lineage', Owned, [Next]_vars, errors' <= ListenerRetries
  PROVE  OneAdder'
<1> USE DEF memory, faults, Goto, SetStatus, Adding, IsBlocking, Unfinalized,
            UnfinalizedStatuses, Blocking, Owned
<1>1. CASE Boot
  BY <1>1 DEF Lineage, TypeOK, RowsInUse, OneAdder, RowIffInMemory, Boot, Replayed
<1>2. CASE Crash
  BY <1>2 DEF Lineage, TypeOK, RowsInUse, OneAdder, RowIffInMemory, Crash
<1>3. CASE ResumeQueue \/ Poll \/ PollEnds \/ PollFails
  BY <1>3 DEF Lineage, TypeOK, RowsInUse, OneAdder, RowIffInMemory, ResumeQueue, Poll, PollEnds, PollFails, BeingAdded
<1>4. ASSUME NEW b \in Chains, AddListener(b)
     PROVE  OneAdder'
  BY <1>4 DEF Lineage, TypeOK, RowsInUse, OneAdder, RowIffInMemory, AddListener, NewCommand, Unused
<1>5. ASSUME NEW j \in Jobs, Submit(j)
     PROVE  OneAdder'
  BY <1>5 DEF Lineage, TypeOK, RowsInUse, OneAdder, RowIffInMemory, Submit, NewCommand, Unused
<1>6. ASSUME NEW c \in Commands, InsertChild(c)
     PROVE  OneAdder'
  BY <1>6 DEF Lineage, TypeOK, RowsInUse, OneAdder, RowIffInMemory, InsertChild, NewCommand, Unused
<1>7. ASSUME NEW c \in Commands, CheckBlocking(c)
     PROVE  OneAdder'
  BY <1>7 DEF Lineage, TypeOK, RowsInUse, OneAdder, RowIffInMemory, CheckBlocking, Twin
<1>8. ASSUME NEW c \in Commands, InsertAndQueue(c) \/ Clean(c)
     PROVE  OneAdder'
  BY <1>8 DEF Lineage, TypeOK, RowsInUse, OneAdder, RowIffInMemory, InsertAndQueue, Clean
<1>9. ASSUME NEW c \in Commands, Start(c) \/ Repeat(c) \/ Finish(c)
     PROVE  OneAdder'
  BY <1>9 DEF Lineage, TypeOK, RowsInUse, OneAdder, RowIffInMemory, Start, Repeat, Finish
<1>10. ASSUME NEW c \in Commands, Complete(c) \/ PushChild(c) \/ Recover(c)
      PROVE  OneAdder'
  <2>1. CASE PushChild(c)
    <3>1. PICK d \in Commands :
            parent[d] = c /\ stage' = [stage EXCEPT ![c] = "none", ![d] = "queued"]
      BY <2>1 DEF PushChild, IsLatestChild
    <3>2. work[c] \in Jobs /\ work[d] \in Jobs
      BY <3>1 DEF Lineage, RowsInUse, Commands
    <3>3. \A e \in Commands : work[e] \in Chains => stage'[e] = stage[e]
      BY <3>1, <3>2 DEF Lineage, TypeOK
    <3> QED
      BY <2>1, <3>3 DEF OneAdder, PushChild
  <2>2. CASE Complete(c) \/ Recover(c)
    BY <2>2 DEF Lineage, TypeOK, RowsInUse, OneAdder, RowIffInMemory, Complete, Recover
  <2> QED
    BY <1>10, <2>1, <2>2
<1>11. ASSUME NEW c \in Commands, Retry(c) \/ Throw(c) \/ HandleError(c)
      PROVE  OneAdder'
  BY <1>11 DEF Lineage, TypeOK, RowsInUse, OneAdder, RowIffInMemory, Retry, Throw, HandleError
<1>13. ASSUME NEW c \in Commands, HandleErrorFails(c) \/ RecoverFails(c)
      PROVE  OneAdder'
  BY <1>13 DEF Lineage, TypeOK, RowsInUse, OneAdder, RowIffInMemory, HandleErrorFails, RecoverFails
<1>14. ASSUME NEW c \in Commands, AddFails(c)
      PROVE  OneAdder'
  BY <1>14 DEF Lineage, TypeOK, RowsInUse, OneAdder, RowIffInMemory, AddFails, BeingAdded
<1>12. CASE UNCHANGED vars
  BY <1>12 DEF Lineage, TypeOK, RowsInUse, OneAdder, RowIffInMemory, vars
<1> QED
  BY <1>1, <1>2, <1>3, <1>4, <1>5, <1>6, <1>7, <1>8, <1>9, <1>10, <1>11, <1>12, <1>13, <1>14
  DEF Next, Execute, Fail

\* No step leaves two unfinalized rows of one chain.
LEMMA OneRowStep ==
  ASSUME Lineage, Lineage', Owned, [Next]_vars, errors' <= ListenerRetries
  PROVE  OneRow'
<1> USE DEF memory, faults, Goto, SetStatus, Adding, IsBlocking, Unfinalized,
            UnfinalizedStatuses, Blocking, Owned
<1>1. CASE Boot
  BY <1>1 DEF Lineage, TypeOK, RowsInUse, OneAdder, OneRow, RowIffInMemory, Boot, Replayed
<1>2. CASE Crash
  BY <1>2 DEF Lineage, TypeOK, RowsInUse, OneAdder, OneRow, RowIffInMemory, Crash
<1>3. CASE ResumeQueue \/ Poll \/ PollEnds \/ PollFails
  BY <1>3 DEF Lineage, TypeOK, RowsInUse, OneAdder, OneRow, RowIffInMemory, ResumeQueue, Poll, PollEnds, PollFails
<1>4. ASSUME NEW b \in Chains, AddListener(b)
     PROVE  OneRow'
  BY <1>4 DEF Lineage, TypeOK, RowsInUse, OneAdder, OneRow, RowIffInMemory, AddListener, NewCommand, Unused
<1>5. ASSUME NEW j \in Jobs, Submit(j)
     PROVE  OneRow'
  BY <1>5 DEF Lineage, TypeOK, RowsInUse, OneAdder, OneRow, RowIffInMemory, Submit, NewCommand, Unused
<1>6. ASSUME NEW c \in Commands, InsertChild(c)
     PROVE  OneRow'
  BY <1>6 DEF Lineage, TypeOK, RowsInUse, OneAdder, OneRow, RowIffInMemory, InsertChild, NewCommand, Unused
<1>7. ASSUME NEW c \in Commands, CheckBlocking(c)
     PROVE  OneRow'
  BY <1>7 DEF Lineage, TypeOK, RowsInUse, OneAdder, OneRow, RowIffInMemory, CheckBlocking, Twin
<1>8. ASSUME NEW c \in Commands, InsertAndQueue(c) \/ Clean(c)
     PROVE  OneRow'
  BY <1>8 DEF Lineage, TypeOK, RowsInUse, OneAdder, OneRow, RowIffInMemory, InsertAndQueue, Clean
<1>9. ASSUME NEW c \in Commands, Start(c) \/ Repeat(c) \/ Finish(c)
     PROVE  OneRow'
  BY <1>9 DEF Lineage, TypeOK, RowsInUse, OneAdder, OneRow, RowIffInMemory, Start, Repeat, Finish
<1>10. ASSUME NEW c \in Commands, Complete(c) \/ PushChild(c) \/ Recover(c)
      PROVE  OneRow'
  BY <1>10 DEF Lineage, TypeOK, RowsInUse, OneAdder, OneRow, RowIffInMemory, Complete, PushChild, IsLatestChild, Recover
<1>11. ASSUME NEW c \in Commands, Retry(c) \/ Throw(c) \/ HandleError(c)
      PROVE  OneRow'
  BY <1>11 DEF Lineage, TypeOK, RowsInUse, OneAdder, OneRow, RowIffInMemory, Retry, Throw, HandleError
<1>13. ASSUME NEW c \in Commands, HandleErrorFails(c) \/ RecoverFails(c)
      PROVE  OneRow'
  BY <1>13 DEF Lineage, TypeOK, RowsInUse, OneAdder, OneRow, RowIffInMemory, HandleErrorFails, RecoverFails
<1>14. ASSUME NEW c \in Commands, AddFails(c)
      PROVE  OneRow'
  BY <1>14 DEF Lineage, TypeOK, RowsInUse, OneAdder, OneRow, RowIffInMemory, AddFails, BeingAdded
<1>12. CASE UNCHANGED vars
  BY <1>12 DEF Lineage, TypeOK, RowsInUse, OneAdder, OneRow, RowIffInMemory, vars
<1> QED
  BY <1>1, <1>2, <1>3, <1>4, <1>5, <1>6, <1>7, <1>8, <1>9, <1>10, <1>11, <1>12, <1>13, <1>14
  DEF Next, Execute, Fail

\* The row of a listener is unfinalized exactly as long as its command is in memory.
LEMMA RowIffInMemoryStep ==
  ASSUME Lineage, Lineage', Owned, [Next]_vars, errors' <= ListenerRetries
  PROVE  RowIffInMemory'
<1> USE DEF memory, faults, Goto, SetStatus, Adding, IsBlocking, Unfinalized,
            UnfinalizedStatuses, Blocking, Owned
<1>1. CASE Boot
  BY <1>1 DEF Lineage, TypeOK, RowsInUse, RetriesLeft, OneAdder, OneRow, RowIffInMemory, Boot, Replayed
<1>2. CASE Crash
  BY <1>2 DEF Lineage, TypeOK, RowsInUse, RetriesLeft, OneAdder, OneRow, RowIffInMemory, Crash
<1>3. CASE ResumeQueue \/ Poll \/ PollEnds \/ PollFails
  BY <1>3 DEF Lineage, TypeOK, RowsInUse, RetriesLeft, OneAdder, OneRow, RowIffInMemory, ResumeQueue, Poll, PollEnds, PollFails
<1>4. ASSUME NEW b \in Chains, AddListener(b)
     PROVE  RowIffInMemory'
  BY <1>4 DEF Lineage, TypeOK, RowsInUse, RetriesLeft, OneAdder, OneRow, RowIffInMemory, AddListener, NewCommand, Unused
<1>5. ASSUME NEW j \in Jobs, Submit(j)
     PROVE  RowIffInMemory'
  BY <1>5 DEF Lineage, TypeOK, RowsInUse, RetriesLeft, OneAdder, OneRow, RowIffInMemory, Submit, NewCommand, Unused
<1>6. ASSUME NEW c \in Commands, InsertChild(c)
     PROVE  RowIffInMemory'
  BY <1>6 DEF Lineage, TypeOK, RowsInUse, RetriesLeft, OneAdder, OneRow, RowIffInMemory, InsertChild, NewCommand, Unused
<1>7. ASSUME NEW c \in Commands, CheckBlocking(c)
     PROVE  RowIffInMemory'
  BY <1>7 DEF Lineage, TypeOK, RowsInUse, RetriesLeft, OneAdder, OneRow, RowIffInMemory, CheckBlocking, Twin
<1>8. ASSUME NEW c \in Commands, InsertAndQueue(c) \/ Clean(c)
     PROVE  RowIffInMemory'
  BY <1>8 DEF Lineage, TypeOK, RowsInUse, RetriesLeft, OneAdder, OneRow, RowIffInMemory, InsertAndQueue, Clean
<1>9. ASSUME NEW c \in Commands, Start(c) \/ Repeat(c) \/ Finish(c)
     PROVE  RowIffInMemory'
  BY <1>9 DEF Lineage, TypeOK, RowsInUse, RetriesLeft, OneAdder, OneRow, RowIffInMemory, Start, Repeat, Finish
<1>10. ASSUME NEW c \in Commands, Complete(c) \/ PushChild(c) \/ Recover(c)
      PROVE  RowIffInMemory'
  <2>1. CASE PushChild(c)
    <3>1. PICK d \in Commands :
            parent[d] = c /\ stage' = [stage EXCEPT ![c] = "none", ![d] = "queued"]
      BY <2>1 DEF PushChild, IsLatestChild
    <3>2. work[c] \in Jobs /\ work[d] \in Jobs
      BY <3>1 DEF Lineage, RowsInUse, Commands
    <3>3. \A e \in Commands : work[e] \in Chains => stage'[e] = stage[e]
      BY <3>1, <3>2 DEF Lineage, TypeOK
    <3> QED
      BY <2>1, <3>3 DEF RowIffInMemory, PushChild
  <2>2. CASE Complete(c) \/ Recover(c)
    BY <2>2 DEF Lineage, TypeOK, RowsInUse, RetriesLeft, OneAdder, OneRow, RowIffInMemory, Complete, Recover
  <2> QED
    BY <1>10, <2>1, <2>2
<1>11. ASSUME NEW c \in Commands, Retry(c) \/ Throw(c) \/ HandleError(c)
      PROVE  RowIffInMemory'
  BY <1>11 DEF Lineage, TypeOK, RowsInUse, RetriesLeft, OneAdder, OneRow, RowIffInMemory, Retry, Throw, HandleError
<1>13. ASSUME NEW c \in Commands, HandleErrorFails(c) \/ RecoverFails(c)
      PROVE  RowIffInMemory'
  BY <1>13 DEF Lineage, TypeOK, RowsInUse, RetriesLeft, OneAdder, OneRow, RowIffInMemory, HandleErrorFails, RecoverFails
<1>14. ASSUME NEW c \in Commands, AddFails(c)
      PROVE  RowIffInMemory'
  BY <1>14 DEF Lineage, TypeOK, RowsInUse, RetriesLeft, OneAdder, OneRow, RowIffInMemory, AddFails, BeingAdded
<1>12. CASE UNCHANGED vars
  BY <1>12 DEF Lineage, TypeOK, RowsInUse, RetriesLeft, OneAdder, OneRow, RowIffInMemory, vars
<1> QED
  BY <1>1, <1>2, <1>3, <1>4, <1>5, <1>6, <1>7, <1>8, <1>9, <1>10, <1>11, <1>12, <1>13, <1>14
  DEF Next, Execute, Fail

\* Until some error uses up the last retry every chain has one owner, which is in memory
\* whenever the process is up, across crashes and replays.
THEOREM ExecutorOneOwner == Spec => []OneOwner
<1>1. Init => OneOwner
  BY DEF Init, OneOwner, Owned, RetriesLeft, OneAdder, OneRow, RowIffInMemory, Blocking,
         IsBlocking
<1>2. Lineage /\ Lineage' /\ OneOwner /\ [Next]_vars => OneOwner'
  <2> SUFFICES ASSUME Lineage, Lineage', OneOwner, [Next]_vars, errors' <= ListenerRetries
               PROVE  Owned'
    BY DEF OneOwner
  <2>1. errors <= errors'
    <3>1. errors' = errors \/ errors' = errors + 1
      BY DEF Next, Execute, Fail, faults, vars, Boot, ResumeQueue, Crash, Poll, PollEnds, PollFails, AddListener,
             Submit, CheckBlocking, InsertAndQueue, Start, Repeat, Finish, InsertChild, Complete,
             PushChild, Retry, Throw, HandleError, HandleErrorFails, Recover, RecoverFails, AddFails,
       Clean
    <3>2. errors \in Nat
      BY DEF Lineage, TypeOK
    <3> QED
      BY <3>1, <3>2
  <2>2. Owned
    <3>1. errors \in Nat /\ errors' \in Nat
      BY DEF Lineage, TypeOK
    <3> QED
      BY <2>1, <3>1 DEF OneOwner
  <2> QED
    BY <2>2, RetriesLeftStep, OneAdderStep, OneRowStep, RowIffInMemoryStep DEF Owned
<1> QED
  BY <1>1, <1>2, ExecutorLineage, PTL DEF Spec

\* "Check the db to see if there are unfinalized instances of the same command": two
\* listeners of one chain are never queued, executed or unfinalized at once.
THEOREM ExecutorOneListener == Spec => []OneListenerWithinRetries
<1>1. Lineage /\ OneOwner => OneListenerWithinRetries
  <2> SUFFICES ASSUME Lineage, Owned, NEW b \in Chains,
                      NEW c \in Listener(b), NEW d \in Listener(b),
                      (Live(c) /\ Live(d)) \/ (Unfinalized(c) /\ Unfinalized(d))
               PROVE  c = d
    BY DEF OneOwner, OneListenerWithinRetries, OneListener
  <2>1. c \in Blocking /\ d \in Blocking /\ work[c] = work[d]
    BY DEF Listener, Blocking, IsBlocking
  <2>2. ASSUME NEW e \in Blocking, Live(e)
        PROVE  Unfinalized(e)
    BY <2>2 DEF Live, Owned, OneAdder, RowIffInMemory
  <2>3. Unfinalized(c) /\ Unfinalized(d)
    BY <2>1, <2>2
  <2> QED
    BY <2>1, <2>3 DEF Owned, OneRow, Blocking
<1> QED
  BY <1>1, ExecutorLineage, ExecutorOneOwner, PTL

\* A row that makes add drop every other listener of its chain is the row of a command
\* in memory, or of one whose failure could not be handled; then there were two failures.
THEOREM ExecutorBlockingRowIsAlive == Spec => []BlockingRowIsAlive
<1>1. Lineage /\ OneOwner => BlockingRowIsAlive
  BY DEF Lineage, RowsInUse, OneOwner, Owned, RowIffInMemory, BlockingRowIsAlive, Blocking,
         Unfinalized, UnfinalizedStatuses
<1> QED
  BY <1>1, ExecutorLineage, ExecutorOneOwner, PTL

-----------------------------------------------------------------------------
(* Sequences that run once                                                 *)

JobRows == {c \in Commands : work[c] \in Jobs}
Faults == crashes + errors

\* A row that is in memory, or is no more what it was inserted as
Touched(c) == c \in JobRows /\ (status[c] # "PENDING" \/ stage[c] # "none")
Done(c) == c \in JobRows /\ status[c] = "COMPLETED" /\ stage[c] = "none"

\* A child is the next command of its parent's sequence
Pedigree ==
  \A c \in JobRows :
    /\ position[c] >= 1 /\ (parent[c] = 0 <=> position[c] = 1)
    /\ parent[c] # 0 => work[parent[c]] = work[c] /\ position[c] = position[parent[c]] + 1

\* Nothing is in memory while the process is down, and before its first start there are
\* no rows
NothingWhileDown ==
  phase = "down" =>
    /\ \A c \in Commands : stage[c] = "none"
    /\ crashes = 0 => errors = 0 /\ JobRows = {}

FailedByError ==
  errors = 0 => \A c \in JobRows : status[c] # "FAILED" /\ stage[c] # "handling"

\* Until something goes wrong a command has one child, and none before it has run; a first
\* crash leaves it at that until the process is started again
OneChild ==
  Faults = 0 \/ (phase = "down" /\ Faults <= 1) =>
    \A c, d \in JobRows : parent[c] = parent[d] /\ parent[c] # 0 => c = d

NoEarlyChild ==
  Faults = 0 =>
    \A c, d \in JobRows : parent[d] = c => stage[c] \in {"inserted", "push"} \/ Done(c)

\* Of the rows for one place of a sequence, of which there are several when an execution
\* was repeated, one is ever used, ...
OneTouched ==
  \A c, d \in JobRows :
    Touched(c) /\ Touched(d) /\ work[c] = work[d] /\ position[c] = position[d] => c = d

\* ... only after those for the places before it are done with, ...
DoneBefore ==
  \A c \in JobRows : Touched(c) =>
    \A k \in Nat : 1 <= k /\ k < position[c] =>
      \E d \in JobRows : Done(d) /\ work[d] = work[c] /\ position[d] = k

\* ... and alone
OneInMemory ==
  \A c, d \in JobRows : work[c] = work[d] /\ stage[c] # "none" /\ stage[d] # "none" => c = d

Sequence == OneTouched /\ DoneBefore /\ OneInMemory
History == Pedigree /\ NothingWhileDown /\ FailedByError /\ OneChild /\ NoEarlyChild

\* What CompletedOnce needs: the first crash or exception leaves at most one row that may
\* be used for each place of a sequence.
OneSequence == History /\ (Faults <= 1 => Sequence)

\* A step after which the rows of sequences are for the same commands as before ...
SameRows ==
  /\ JobRows \subseteq JobRows'
  /\ \A c \in JobRows :
       work'[c] = work[c] /\ position'[c] = position[c] /\ parent'[c] = parent[c]

\* ... and which uses no row that was not in use
Quiet ==
  /\ SameRows
  /\ \A c \in JobRows : Done(c) => Done(c)'
  /\ \A c \in JobRows' :
       /\ Touched(c)' => Touched(c)
       /\ stage'[c] # "none" => c \in JobRows /\ stage[c] # "none"

\* The steps that use a row which was not in use
Using == Boot \/ (\E j \in Jobs : Submit(j)) \/ (\E c \in Commands : PushChild(c))

\* The parent of a row of a sequence is a row of the same sequence.
LEMMA ParentRow ==
  ASSUME Lineage, NEW c \in JobRows, parent[c] # 0
  PROVE  parent[c] \in JobRows
<1>1. c \in Commands /\ parent[c] \in 0 .. MaxCommands
  BY DEF Lineage, TypeOK, JobRows
<1>2. parent[c] \in Commands
  BY <1>1 DEF Commands
<1> QED
  BY <1>1, <1>2 DEF Lineage, RowsInUse, JobRows

\* Crashes and exceptions are never taken back.
LEMMA FaultsStep ==
  ASSUME TypeOK, [Next]_vars
  PROVE  /\ crashes \in Nat /\ errors \in Nat /\ Faults \in Nat /\ Faults' \in Nat
         /\ Faults <= Faults'
         /\ crashes' # crashes => Crash /\ Faults < Faults'
         /\ errors' \in {errors, errors + 1}
         /\ errors' # errors => Faults < Faults'
         /\ \A c \in Commands : Fail(c) => errors' # errors
<1>1. crashes \in Nat /\ errors \in Nat
  BY DEF TypeOK
<1>3. \A c \in Commands : Fail(c) => crashes' = crashes /\ errors' = errors + 1
  BY DEF Fail, Throw, HandleErrorFails, RecoverFails, AddFails
<1>2. \/ /\ crashes' = crashes /\ errors' = errors
      \/ /\ crashes' = crashes + 1 /\ errors' = errors /\ Crash
      \/ /\ crashes' = crashes /\ errors' = errors + 1
  <2>1. CASE Boot \/ ResumeQueue \/ Poll \/ PollEnds \/ (\E b \in Chains : AddListener(b))
             \/ (\E j \in Jobs : Submit(j)) \/ UNCHANGED vars
    BY <2>1 DEF faults, vars, Boot, ResumeQueue, Poll, PollEnds, PollFails, AddListener, Submit
  <2>2. CASE Crash
    BY <2>2 DEF Crash
  <2>3. ASSUME NEW c \in Commands, CheckBlocking(c) \/ InsertAndQueue(c) \/ Clean(c)
        PROVE  UNCHANGED faults
    BY <2>3 DEF faults, CheckBlocking, InsertAndQueue, Clean
  <2>4. ASSUME NEW c \in Commands, Execute(c)
        PROVE  UNCHANGED faults
    BY <2>4 DEF Execute, faults, memory, Start, Repeat, Finish, InsertChild, Complete, PushChild,
         Retry, HandleError, Recover
  <2>5. CASE PollFails
    BY <2>5 DEF PollFails
  <2> QED
    BY <1>3, <2>1, <2>2, <2>3, <2>4, <2>5 DEF Next, faults
<1> QED
  BY <1>1, <1>2, <1>3 DEF Faults

\* The rows of sequences are never used for another command; a new one has no child.
LEMMA SameRowsStep ==
  ASSUME Lineage, TypeOK', [Next]_vars
  PROVE  /\ SameRows
         /\ \A e \in JobRows' \ JobRows : \A d \in Commands : parent[d] # e
<1> USE DEF memory, faults, Goto, SetStatus, Adding, IsBlocking, SameRows, JobRows
<1>1. CASE Boot \/ ResumeQueue \/ Poll \/ PollEnds \/ PollFails
  BY <1>1 DEF Boot, ResumeQueue, Poll, PollEnds, PollFails
<1>2. CASE Crash
  BY <1>2 DEF Lineage, TypeOK, RowsInUse, Crash
<1>3. ASSUME NEW b \in Chains, AddListener(b)
      PROVE  JobRows' = JobRows /\ SameRows
  BY <1>3 DEF Lineage, TypeOK, AddListener, NewCommand, Unused
<1>4. ASSUME NEW c \in Commands, NEW j \in Jobs, NEW pos, NEW par, NEW r, NEW s, NEW st,
             NewCommand(c, j, pos, par, r, s, st)
      PROVE  /\ JobRows' = JobRows \cup {c} /\ SameRows
             /\ \A d \in Commands : parent[d] # c
  BY <1>4, UnusedRow DEF Lineage, TypeOK, NewCommand, Unused
<1>5. ASSUME NEW c \in Commands, CheckBlocking(c)
      PROVE  JobRows' = JobRows /\ SameRows
  BY <1>5 DEF Lineage, TypeOK, RowsInUse, CheckBlocking
<1>6. ASSUME NEW c \in Commands, InsertAndQueue(c) \/ Clean(c) \/ Start(c) \/ Repeat(c)
                                  \/ Finish(c) \/ Complete(c) \/ PushChild(c)
      PROVE  JobRows' = JobRows /\ SameRows
  BY <1>6 DEF InsertAndQueue, Clean, Start, Repeat, Finish, Complete, PushChild
<1>7. ASSUME NEW c \in Commands, Retry(c) \/ Throw(c) \/ HandleError(c) \/ HandleErrorFails(c)
                                  \/ Recover(c) \/ RecoverFails(c)
      PROVE  JobRows' = JobRows /\ SameRows
  BY <1>7 DEF Retry, Throw, HandleError, HandleErrorFails, Recover, RecoverFails
<1>11. ASSUME NEW c \in Commands, AddFails(c)
       PROVE  JobRows' = JobRows /\ SameRows
  BY <1>11 DEF Lineage, TypeOK, RowsInUse, AddFails, BeingAdded
<1>8. ASSUME NEW j \in Jobs, Submit(j)
      PROVE  /\ SameRows
             /\ \A e \in JobRows' \ JobRows : \A d \in Commands : parent[d] # e
  BY <1>4, <1>8 DEF Submit
<1>9. ASSUME NEW c \in Commands, InsertChild(c)
      PROVE  /\ SameRows
             /\ \A e \in JobRows' \ JobRows : \A d \in Commands : parent[d] # e
  <2>1. work[c] \in Jobs
    BY <1>9 DEF InsertChild, Lineage, TypeOK, RowsInUse
  <2> QED
    BY <1>4, <1>9, <2>1 DEF InsertChild
<1>10. CASE UNCHANGED vars
  BY <1>10 DEF vars
<1> QED
  BY <1>1, <1>2, <1>3, <1>5, <1>6, <1>7, <1>8, <1>9, <1>10, <1>11 DEF Next, Execute, Fail

\* All steps but the start of the process, a new sequence and the push of a child only
\* go on with rows that are used already.
LEMMA QuietStep ==
  ASSUME Lineage, TypeOK', [Next]_vars, ~Using
  PROVE  Quiet
<1> USE DEF memory, faults, Goto, SetStatus, Adding, IsBlocking, JobRows, Touched, Done, Quiet
<1>0. SameRows
  BY SameRowsStep
<1>1. CASE ResumeQueue \/ Poll \/ PollEnds \/ PollFails
  BY <1>0, <1>1 DEF ResumeQueue, Poll, PollEnds, PollFails
<1>2. CASE Crash
  BY <1>0, <1>2 DEF Lineage, TypeOK, RowsInUse, Crash
<1>3. ASSUME NEW b \in Chains, AddListener(b)
      PROVE  Quiet
  BY <1>0, <1>3 DEF Lineage, TypeOK, AddListener, NewCommand, Unused
<1>4. ASSUME NEW c \in Commands, CheckBlocking(c)
      PROVE  Quiet
  BY <1>0, <1>4 DEF Lineage, TypeOK, RowsInUse, CheckBlocking
<1>5. ASSUME NEW c \in Commands, InsertAndQueue(c) \/ Clean(c) \/ Start(c) \/ Repeat(c)
                                  \/ Finish(c) \/ Complete(c)
      PROVE  Quiet
  BY <1>0, <1>5 DEF Lineage, TypeOK, InsertAndQueue, Clean, Start, Repeat, Finish, Complete
<1>6. ASSUME NEW c \in Commands, Retry(c) \/ Throw(c) \/ Recover(c)
      PROVE  Quiet
  BY <1>0, <1>6 DEF Lineage, TypeOK, CompletedIsLeft, Unfinalized, UnfinalizedStatuses,
       Retry, Throw, Recover
<1>9. ASSUME NEW c \in Commands, HandleError(c) \/ HandleErrorFails(c) \/ RecoverFails(c)
      PROVE  Quiet
  BY <1>0, <1>9 DEF Lineage, TypeOK, CompletedIsLeft, Unfinalized, UnfinalizedStatuses,
       HandleError, HandleErrorFails, RecoverFails
<1>10. ASSUME NEW c \in Commands, AddFails(c)
       PROVE  Quiet
  BY <1>0, <1>10 DEF Lineage, TypeOK, RowsInUse, AddFails, BeingAdded
<1>7. ASSUME NEW c \in Commands, InsertChild(c)
      PROVE  Quiet
  <2>1. PICK d \in Unused :
          /\ status' = [status EXCEPT ![d] = "PENDING"]
          /\ stage' = [stage EXCEPT ![c] = "inserted"] /\ stage[c] = "executing"
          /\ work' = [work EXCEPT ![d] = work[c]] /\ work[c] \notin Chains
    BY <1>7 DEF InsertChild, NewCommand
  <2>2. d \in Commands /\ d # c /\ d \notin JobRows /\ stage[d] = "none"
    BY <2>1 DEF Unused
  <2>3. work[c] \in Jobs
    BY <2>1 DEF Lineage, TypeOK, RowsInUse
  <2> QED
    BY <1>0, <2>1, <2>2, <2>3 DEF Lineage, TypeOK
<1>8. CASE UNCHANGED vars
  BY <1>0, <1>8 DEF vars
<1> QED
  BY <1>1, <1>2, <1>3, <1>4, <1>5, <1>6, <1>7, <1>8, <1>9, <1>10 DEF Next, Execute, Fail, Using

\* Such a step leaves the use of the rows in order.
LEMMA QuietKeepsSequence ==
  ASSUME Quiet, Sequence
  PROVE  Sequence'
<1> USE DEF Quiet, SameRows
<1>1. \A c \in JobRows' : Touched(c)' => c \in JobRows /\ Touched(c)
  BY DEF Touched
<1>2. OneTouched'
  BY <1>1 DEF Sequence, OneTouched
<1>3. OneInMemory'
  BY <1>1 DEF Sequence, OneInMemory
<1>4. DoneBefore'
  <2> SUFFICES ASSUME NEW c \in JobRows', Touched(c)', NEW k \in Nat, 1 <= k, k < position'[c]
               PROVE  \E d \in JobRows' : Done(d)' /\ work'[d] = work'[c] /\ position'[d] = k
    BY DEF DoneBefore
  <2>1. c \in JobRows /\ Touched(c) /\ position'[c] = position[c] /\ work'[c] = work[c]
    BY <1>1
  <2>2. PICK d \in JobRows : Done(d) /\ work[d] = work[c] /\ position[d] = k
    BY <2>1 DEF Sequence, DoneBefore
  <2> QED
    BY <2>1, <2>2
<1> QED
  BY <1>2, <1>3, <1>4 DEF Sequence

\* The push of a child: its place comes after that of its parent, which is done now.
LEMMA PushSequence ==
  ASSUME Lineage, Lineage', [Next]_vars, Pedigree, Sequence, NEW c \in Commands, PushChild(c)
  PROVE  Sequence'
<1> USE DEF Sequence
<1>1. PICK d \in Commands :
        parent[d] = c /\ stage' = [stage EXCEPT ![c] = "none", ![d] = "queued"]
  BY DEF PushChild, IsLatestChild
<1>2. /\ UNCHANGED <<work, position, parent, status, removed>> /\ JobRows' = JobRows
      /\ c # 0 /\ stage[c] = "push" /\ status[c] = "COMPLETED" /\ c \notin removed
  BY DEF PushChild, Commands, JobRows, Lineage, CompletedIsLeft, RowsInUse
<1>3. d \in JobRows /\ c \in JobRows /\ work[d] = work[c] /\ position[d] = position[c] + 1
  BY <1>1, <1>2 DEF Lineage, RowsInUse, JobRows, Pedigree
<1>4. d # c /\ status[d] = "PENDING" /\ stage[d] = "none"
  BY <1>1, <1>2 DEF Lineage, UntouchedTillPushed
<1>5. /\ stage'[c] = "none" /\ stage'[d] = "queued"
      /\ \A e \in Commands : e # c /\ e # d => stage'[e] = stage[e]
  BY <1>1, <1>4 DEF Lineage, TypeOK
<1>6. Touched(c) /\ Done(c)'
  BY <1>2, <1>3, <1>5 DEF Touched, Done
<1>7. \A e \in JobRows : Touched(e)' => e = d \/ Touched(e)
  <2> SUFFICES ASSUME NEW e \in JobRows, Touched(e)', e # d
               PROVE  Touched(e)
    OBVIOUS
  <2>1. e \in Commands
    BY DEF JobRows
  <2> QED
    BY <1>2, <1>5, <1>6, <2>1 DEF Touched
<1>8. \A e \in JobRows : Done(e) => Done(e)'
  <2> SUFFICES ASSUME NEW e \in JobRows, Done(e)
               PROVE  Done(e)'
    OBVIOUS
  <2>1. e \in Commands /\ e # d
    BY <1>4 DEF JobRows, Done
  <2> QED
    BY <1>2, <1>5, <2>1 DEF Done
<1>9. \A e \in JobRows : position[e] \in Nat
  BY DEF JobRows, Lineage, TypeOK
<1>10. ASSUME NEW e \in JobRows, Touched(e), work[e] = work[d], position[e] = position[d]
       PROVE  FALSE
  <2> DEFINE p == parent[e]
  <2>1. p # 0
    BY <1>3, <1>9, <1>10 DEF Pedigree
  <2>2. p \in JobRows /\ work[p] = work[e] /\ position[e] = position[p] + 1
    BY <2>1, ParentRow DEF Pedigree
  <2>3. p \in removed \/ (status[p] = "COMPLETED" /\ stage[p] = "none")
    BY <1>10, <2>1 DEF Lineage, UntouchedTillPushed, JobRows, Touched
  <2>4. status[p] \in {"COMPLETED", "FAILED"} /\ stage[p] = "none"
    BY <2>2, <2>3 DEF Lineage, RowsInUse, JobRows
  <2>5. Touched(p)
    BY <2>2, <2>4 DEF Touched
  <2>6. position[p] = position[c]
    BY <1>3, <1>9, <1>10, <2>2
  <2>7. p = c
    BY <1>3, <1>6, <1>10, <2>2, <2>5, <2>6 DEF OneTouched
  <2> QED
    BY <1>2, <2>4, <2>7
<1>11. OneTouched'
  BY <1>2, <1>7, <1>10 DEF OneTouched
<1>12. DoneBefore'
  <2> SUFFICES ASSUME NEW e \in JobRows, Touched(e)', NEW k \in Nat, 1 <= k, k < position[e]
               PROVE  \E f \in JobRows : Done(f)' /\ work[f] = work[e] /\ position[f] = k
    BY <1>2 DEF DoneBefore
  <2>1. CASE Touched(e)
    <3>1. PICK f \in JobRows : Done(f) /\ work[f] = work[e] /\ position[f] = k
      BY <2>1 DEF DoneBefore
    <3> QED
      BY <1>8, <3>1
  <2>2. CASE e = d /\ k < position[c]
    <3>1. PICK f \in JobRows : Done(f) /\ work[f] = work[c] /\ position[f] = k
      BY <1>3, <1>6, <2>2 DEF DoneBefore
    <3> QED
      BY <1>3, <1>8, <2>2, <3>1
  <2>3. CASE e = d /\ ~(k < position[c])
    <3>1. k = position[c]
      BY <1>3, <1>9, <2>3
    <3> QED
      BY <1>3, <1>6, <2>3, <3>1
  <2> QED
    BY <1>7, <2>1, <2>2, <2>3
<1>13. OneInMemory'
  BY <1>2, <1>3, <1>5 DEF OneInMemory, JobRows
<1> QED
  BY <1>11, <1>12, <1>13

\* A new sequence has one row, which is that of its first command.
LEMMA SubmitSequence ==
  ASSUME Lineage, [Next]_vars, Lineage', Sequence, NEW j \in Jobs, Submit(j)
  PROVE  Sequence'
<1> USE DEF Sequence
<1>1. PICK d \in Unused :
        /\ work' = [work EXCEPT ![d] = j] /\ position' = [position EXCEPT ![d] = 1]
        /\ status' = [status EXCEPT ![d] = "PENDING"]
        /\ stage' = [stage EXCEPT ![d] = "queued"]
  BY DEF Submit, NewCommand
<1>2. d \in Commands /\ d \notin JobRows /\ \A e \in Commands : work[e] # j
  BY <1>1 DEF Unused, IsBlocking, JobRows, Submit
<1>3. /\ JobRows' = JobRows \cup {d} /\ work'[d] = j /\ position'[d] = 1
      /\ \A e \in JobRows : /\ work'[e] = work[e] /\ position'[e] = position[e] /\ work[e] # j
                            /\ status'[e] = status[e] /\ stage'[e] = stage[e]
  BY <1>1, <1>2 DEF Lineage, TypeOK, JobRows
<1>4. \A e \in JobRows' : e = d \/ (e \in JobRows /\ (Touched(e)' => Touched(e)))
  BY <1>3 DEF Touched
<1>5. \A e \in JobRows : Done(e) => Done(e)'
  BY <1>3 DEF Done
<1>6. OneTouched'
  BY <1>3, <1>4 DEF OneTouched
<1>7. OneInMemory'
  BY <1>3, <1>4 DEF OneInMemory
<1>8. DoneBefore'
  <2> SUFFICES ASSUME NEW e \in JobRows', Touched(e)', NEW k \in Nat, 1 <= k, k < position'[e]
               PROVE  \E f \in JobRows' : Done(f)' /\ work'[f] = work'[e] /\ position'[f] = k
    BY DEF DoneBefore
  <2>1. e # d
    BY <1>3
  <2>2. e \in JobRows /\ Touched(e) /\ k < position[e]
    BY <1>3, <1>4, <2>1
  <2>3. PICK f \in JobRows : Done(f) /\ work[f] = work[e] /\ position[f] = k
    BY <2>2 DEF DoneBefore
  <2> QED
    BY <1>3, <1>5, <2>2, <2>3
<1> QED
  BY <1>6, <1>7, <1>8

\* The start of the process queues, of each sequence, at most the child of the last row
\* that is done with.
LEMMA BootSequence ==
  ASSUME Lineage, [Next]_vars, Lineage', History, Faults <= 1, Sequence, Boot
  PROVE  Sequence'
<1> USE DEF Sequence, History
<1>1. /\ UNCHANGED <<work, position, parent, status, removed>> /\ JobRows' = JobRows
      /\ \A e \in Commands : stage[e] = "none"
      /\ \A e \in JobRows : stage'[e] # "none" => e \in Replayed
  BY DEF Boot, JobRows, NothingWhileDown
<1>2. CASE JobRows = {}
  BY <1>1, <1>2 DEF OneTouched, DoneBefore, OneInMemory
<1>3. CASE JobRows # {}
  <2>1. errors = 0
    BY <1>3, FaultsStep DEF Lineage, NothingWhileDown, Boot, Faults
  <2>2. \A c, d \in JobRows : parent[c] = parent[d] /\ parent[c] # 0 => c = d
    BY DEF OneChild, Boot
  <2>3. \A e \in JobRows : position[e] \in Nat
    BY DEF JobRows, Lineage, TypeOK
  <2>4. \A e \in JobRows : Done(e) => Done(e)' /\ Touched(e)
    BY <1>1 DEF Done, Touched, Replayed, Unfinalized, UnfinalizedStatuses
  <2>5. ASSUME NEW e \in JobRows, Touched(e)'
        PROVE  Touched(e) \/ (e \in Replayed /\ parent[e] # 0)
    <3>1. Touched(e) \/ e \in Replayed
      BY <1>1, <2>5 DEF Touched
    <3>2. work[e] \notin Chains
      BY DEF JobRows
    <3> QED
      BY <3>1, <3>2 DEF Replayed, IsBlocking
  <2>6. ASSUME NEW e \in JobRows, Touched(e)', parent[e] # 0
        PROVE  /\ parent[e] \in JobRows /\ Done(parent[e])
               /\ work[parent[e]] = work[e] /\ position[e] = position[parent[e]] + 1
    <3>1. parent[e] \in JobRows
      BY <2>6, ParentRow
    <3>2. work[e] \notin Chains
      BY DEF JobRows
    <3>3. parent[e] \in removed \/ status[parent[e]] = "COMPLETED"
      BY <2>5, <2>6, <3>2
      DEF Lineage, UntouchedTillPushed, Touched, JobRows, Replayed, IsBlocking
    <3>4. status[parent[e]] = "COMPLETED"
      BY <2>1, <3>1, <3>3 DEF Lineage, RowsInUse, FailedByError, JobRows
    <3>5. Done(parent[e])
      BY <1>1, <3>1, <3>4 DEF Done, JobRows
    <3> QED
      BY <2>6, <3>1, <3>5 DEF Pedigree
  <2>7. OneTouched'
    <3> SUFFICES ASSUME NEW c \in JobRows, NEW d \in JobRows, Touched(c)', Touched(d)',
                        work[c] = work[d], position[c] = position[d]
                 PROVE  c = d
      BY <1>1 DEF OneTouched
    <3>1. parent[c] = 0 <=> parent[d] = 0
      BY DEF Pedigree
    <3>2. CASE parent[c] = 0
      BY <2>5, <3>1, <3>2 DEF OneTouched
    <3>3. CASE parent[c] # 0
      <4> DEFINE p == parent[c]  q == parent[d]
      <4>1. /\ p \in JobRows /\ Done(p) /\ work[p] = work[c] /\ position[c] = position[p] + 1
            /\ q \in JobRows /\ Done(q) /\ work[q] = work[d] /\ position[d] = position[q] + 1
        BY <2>6, <3>1, <3>3
      <4>2. position[p] = position[q]
        <5>1. position[p] \in Nat /\ position[q] \in Nat
          BY <2>3, <4>1
        <5>2. position[p] + 1 = position[q] + 1
          BY <4>1
        <5>3. \A m, n \in Nat : m + 1 = n + 1 => m = n
          OBVIOUS
        <5> QED
          BY <5>1, <5>2, <5>3
      <4>3. p = q
        BY <2>4, <4>1, <4>2 DEF OneTouched
      <4> QED
        BY <2>2, <3>3, <4>3
    <3> QED
      BY <3>2, <3>3
  <2>8. DoneBefore'
    <3> SUFFICES ASSUME NEW c \in JobRows, Touched(c)', NEW k \in Nat, 1 <= k, k < position[c]
                 PROVE  \E d \in JobRows : Done(d)' /\ work[d] = work[c] /\ position[d] = k
      BY <1>1 DEF DoneBefore
    <3> DEFINE p == parent[c]
    <3>1. p # 0
      BY <2>3 DEF Pedigree
    <3>2. p \in JobRows /\ Done(p) /\ work[p] = work[c] /\ position[c] = position[p] + 1
      BY <2>6, <3>1
    <3>3. CASE k = position[p]
      BY <2>4, <3>2, <3>3
    <3>4. CASE k # position[p]
      <4>1. k < position[p]
        BY <2>3, <3>2, <3>4
      <4>2. PICK d \in JobRows : Done(d) /\ work[d] = work[p] /\ position[d] = k
        BY <2>4, <3>2, <4>1 DEF DoneBefore
      <4> QED
        BY <2>4, <3>2, <4>2
    <3> QED
      BY <3>3, <3>4
  <2>9. ASSUME NEW c \in JobRows, NEW d \in JobRows, work[c] = work[d],
               stage'[c] # "none", stage'[d] # "none", position[c] < position[d]
        PROVE  FALSE
    <3>1. Touched(c)' /\ Touched(d)' /\ position[c] >= 1
      BY <1>1, <2>9 DEF Touched, Pedigree
    <3>2. PICK e \in JobRows : Done(e)' /\ work[e] = work[d] /\ position[e] = position[c]
      BY <1>1, <2>3, <2>8, <2>9, <3>1 DEF DoneBefore
    <3>3. Touched(e)' /\ stage'[e] = "none"
      BY <3>2 DEF Done, Touched
    <3>4. e = c
      BY <1>1, <2>7, <2>9, <3>1, <3>2, <3>3 DEF OneTouched
    <3> QED
      BY <2>9, <3>3, <3>4
  <2>10. OneInMemory'
    <3> SUFFICES ASSUME NEW c \in JobRows, NEW d \in JobRows, work[c] = work[d],
                        stage'[c] # "none", stage'[d] # "none"
                 PROVE  c = d
      BY <1>1 DEF OneInMemory
    <3>1. position[c] = position[d]
      BY <2>3, <2>9
    <3>2. Touched(c)' /\ Touched(d)'
      BY <1>1 DEF Touched
    <3> QED
      BY <1>1, <2>7, <3>1, <3>2 DEF OneTouched
  <2> QED
    BY <2>7, <2>8, <2>10
<1> QED
  BY <1>2, <1>3

\* A new row of a sequence is that of its first command, or of the child of a command that
\* is executed.
LEMMA NewRow ==
  ASSUME Lineage, TypeOK', [Next]_vars, NEW e \in JobRows', e \notin JobRows
  PROVE  /\ JobRows' = JobRows \cup {e} /\ status'[e] = "PENDING" /\ stage'[e] # "handling"
         /\ \/ position'[e] = 1 /\ parent'[e] = 0
            \/ \E c \in JobRows :
                 /\ stage[c] = "executing" /\ phase' = phase
                 /\ stage' = [stage EXCEPT ![c] = "inserted"]
                 /\ work'[e] = work[c] /\ parent'[e] = c /\ position'[e] = position[c] + 1
<1> USE DEF memory, faults, Goto, SetStatus, Adding, IsBlocking, JobRows
<1>1. CASE \E j \in Jobs : Submit(j)
  <2>1. PICK j \in Jobs : Submit(j)
    BY <1>1
  <2>2. PICK d \in Unused :
          /\ work' = [work EXCEPT ![d] = j] /\ position' = [position EXCEPT ![d] = 1]
          /\ parent' = [parent EXCEPT ![d] = 0] /\ status' = [status EXCEPT ![d] = "PENDING"]
          /\ stage' = [stage EXCEPT ![d] = "queued"]
    BY <2>1 DEF Submit, NewCommand
  <2>3. d \in Commands
    BY DEF Unused
  <2>4. e = d /\ JobRows' = JobRows \cup {d}
    BY <2>2, <2>3 DEF Lineage, TypeOK
  <2> QED
    BY <2>2, <2>3, <2>4 DEF Lineage, TypeOK
<1>2. CASE \E c \in Commands : InsertChild(c)
  <2>1. PICK c \in Commands : InsertChild(c)
    BY <1>2
  <2>2. PICK d \in Unused :
          /\ work' = [work EXCEPT ![d] = work[c]]
          /\ position' = [position EXCEPT ![d] = position[c] + 1]
          /\ parent' = [parent EXCEPT ![d] = c] /\ status' = [status EXCEPT ![d] = "PENDING"]
          /\ stage' = [stage EXCEPT ![c] = "inserted"]
    BY <2>1 DEF InsertChild, NewCommand
  <2>3. d \in Commands
    BY DEF Unused
  <2>4. c \in JobRows /\ stage[c] = "executing" /\ phase' = phase
    BY <2>1 DEF InsertChild, Lineage, TypeOK, RowsInUse
  <2>5. e = d /\ JobRows' = JobRows \cup {d}
    BY <2>2, <2>3, <2>4 DEF Lineage, TypeOK
  <2>6. /\ work'[e] = work[c] /\ parent'[e] = c /\ position'[e] = position[c] + 1
        /\ status'[e] = "PENDING" /\ stage'[e] # "handling"
    BY <2>2, <2>3, <2>4, <2>5 DEF Lineage, TypeOK, Unused
  <2> QED
    BY <2>2, <2>4, <2>5, <2>6
<1>3. CASE ~(\E j \in Jobs : Submit(j)) /\ ~(\E c \in Commands : InsertChild(c))
  <2>1. CASE Boot \/ ResumeQueue \/ Crash \/ Poll \/ PollEnds \/ PollFails \/ UNCHANGED vars
    BY <2>1 DEF Boot, ResumeQueue, Crash, Poll, PollEnds, PollFails, vars, Lineage, TypeOK, RowsInUse
  <2>2. ASSUME NEW b \in Chains, AddListener(b)
        PROVE  FALSE
    BY <2>2 DEF Lineage, TypeOK, AddListener, NewCommand
  <2>3. ASSUME NEW c \in Commands, CheckBlocking(c)
        PROVE  FALSE
    BY <2>3 DEF Lineage, TypeOK, CheckBlocking
  <2>4. ASSUME NEW c \in Commands, InsertAndQueue(c) \/ Clean(c) \/ Start(c) \/ Repeat(c)
                                    \/ Finish(c) \/ Complete(c) \/ PushChild(c)
        PROVE  FALSE
    BY <2>4 DEF InsertAndQueue, Clean, Start, Repeat, Finish, Complete, PushChild
  <2>5. ASSUME NEW c \in Commands, Retry(c) \/ Throw(c) \/ HandleError(c)
                                    \/ HandleErrorFails(c) \/ Recover(c) \/ RecoverFails(c)
        PROVE  FALSE
    BY <2>5 DEF Retry, Throw, HandleError, HandleErrorFails, Recover, RecoverFails
  <2>6. ASSUME NEW c \in Commands, AddFails(c)
        PROVE  FALSE
    BY <2>6 DEF Lineage, TypeOK, AddFails, BeingAdded
  <2> QED
    BY <1>3, <2>1, <2>2, <2>3, <2>4, <2>5, <2>6 DEF Next, Execute, Fail
<1> QED
  BY <1>1, <1>2, <1>3

\* A child stays the next command of its parent's sequence.
LEMMA PedigreeStep ==
  ASSUME Lineage, TypeOK', [Next]_vars, Pedigree
  PROVE  Pedigree'
<1> SUFFICES ASSUME NEW e \in JobRows'
             PROVE  /\ position'[e] >= 1 /\ (parent'[e] = 0 <=> position'[e] = 1)
                    /\ parent'[e] # 0 => /\ work'[parent'[e]] = work'[e]
                                         /\ position'[e] = position'[parent'[e]] + 1
  BY DEF Pedigree
<1>1. SameRows
  BY SameRowsStep
<1>2. CASE e \in JobRows
  BY <1>1, <1>2, ParentRow DEF Pedigree, SameRows
<1>3. CASE e \notin JobRows
  <2>1. CASE position'[e] = 1 /\ parent'[e] = 0
    BY <2>1
  <2>2. ASSUME NEW c \in JobRows, work'[e] = work[c], parent'[e] = c,
               position'[e] = position[c] + 1
        PROVE  /\ position'[e] >= 1 /\ parent'[e] # 0 /\ position'[e] # 1
               /\ work'[c] = work'[e] /\ position'[e] = position'[c] + 1
    <3>1. c # 0 /\ position[c] \in Nat /\ position[c] >= 1
      BY DEF JobRows, Commands, Lineage, TypeOK, Pedigree
    <3>2. work'[c] = work[c] /\ position'[c] = position[c]
      BY <1>1 DEF SameRows
    <3> QED
      BY <2>2, <3>1, <3>2
  <2> QED
    BY <1>3, <2>1, <2>2, NewRow
<1> QED
  BY <1>2, <1>3

\* A process that is down can only be started.
LEMMA DownStep ==
  ASSUME Lineage, Lineage', [Next]_vars, NothingWhileDown
  PROVE  /\ NothingWhileDown'
         /\ phase = "down" => Boot \/ UNCHANGED vars
         /\ phase' = "down" => phase = "down" \/ Crash
<1> USE DEF memory, faults, Goto, SetStatus, Adding, NewCommand
<1>1. ASSUME phase = "down"
      PROVE  Boot \/ UNCHANGED vars
  <2>1. poller = "off" /\ toAdd = {} /\ \A c \in Commands : stage[c] = "none"
    BY <1>1 DEF Lineage, RowsInUse, NothingWhileDown
  <2> QED
    BY <1>1, <2>1 DEF Next, Execute, Fail, ResumeQueue, Crash, Poll, PollEnds, PollFails, AddListener,
         Submit, CheckBlocking, InsertAndQueue, Start, Repeat, Finish, InsertChild, Complete,
         PushChild, Retry, Throw, HandleError, HandleErrorFails, Recover, RecoverFails, AddFails,
       Clean
<1>2. ASSUME phase' = "down", phase # "down"
      PROVE  Crash
  BY <1>2 DEF Next, Execute, Fail, Boot, ResumeQueue, Poll, PollEnds, PollFails, AddListener, vars,
       Submit, CheckBlocking, InsertAndQueue, Start, Repeat, Finish, InsertChild, Complete,
       PushChild, Retry, Throw, HandleError, HandleErrorFails, Recover, RecoverFails, AddFails,
       Clean
<1>3. CASE Crash
  <2>1. crashes' # 0
    BY <1>3 DEF Crash, Lineage, TypeOK
  <2> QED
    BY <1>2, <1>1, <1>3, <2>1 DEF NothingWhileDown, Crash
<1>4. CASE phase = "down"
  <2>1. Boot \/ UNCHANGED vars
    BY <1>1, <1>4
  <2> QED
    BY <1>4, <2>1 DEF NothingWhileDown, Boot, vars, JobRows
<1>5. CASE phase' # "down"
  BY <1>1, <1>5 DEF NothingWhileDown
<1> QED
  BY <1>2, <1>3, <1>4, <1>5

\* A command fails only by an exception.
LEMMA FailedByErrorStep ==
  ASSUME Lineage, TypeOK', [Next]_vars, FailedByError
  PROVE  FailedByError'
<1> SUFFICES ASSUME errors' = 0, NEW e \in JobRows',
                    status'[e] = "FAILED" \/ stage'[e] = "handling"
             PROVE  FALSE
  BY DEF FailedByError
<1>1. errors = 0 /\ ~(\E c \in Commands : Fail(c))
  <2>1. errors' \in {errors, errors + 1}
    BY FaultsStep DEF Lineage
  <2>2. errors \in Nat
    BY DEF Lineage, TypeOK
  <2>3. \A c \in Commands : Fail(c) => errors' # errors
    BY FaultsStep DEF Lineage
  <2> QED
    BY <2>1, <2>2, <2>3
<1>2. e \in JobRows
  BY NewRow
<1>3. status[e] # "FAILED" /\ stage[e] # "handling" /\ e \in Commands /\ work[e] \notin Chains
  BY <1>1, <1>2 DEF FailedByError, JobRows
<1>4. ASSUME NEW c \in Commands, HandleError(c)
      PROVE  FALSE
  <2>1. c # e
    BY <1>3, <1>4 DEF HandleError
  <2> QED
    BY <1>3, <1>4, <2>1 DEF Lineage, TypeOK, HandleError, Goto, SetStatus
<1> QED
  BY <1>1, <1>3, <1>4 DEF Lineage, TypeOK, Next, Execute, Boot, ResumeQueue, Crash, Poll, PollEnds, PollFails,
       AddListener, Submit, CheckBlocking, InsertAndQueue, Start, Repeat, Finish, InsertChild,
       Complete, PushChild, Retry, Recover, Clean, vars, Goto, SetStatus, NewCommand

\* Until something goes wrong no command is given a second child.
LEMMA OneChildStep ==
  ASSUME Lineage, Lineage', [Next]_vars, History
  PROVE  OneChild'
<1> SUFFICES ASSUME Faults' = 0 \/ (phase' = "down" /\ Faults' <= 1),
                    NEW c \in JobRows', NEW d \in JobRows', parent'[c] = parent'[d],
                    parent'[c] # 0
             PROVE  c = d
  BY DEF OneChild
<1>1. Faults = 0 \/ (phase = "down" /\ Faults <= 1)
  <2>1. Faults \in Nat /\ Faults' \in Nat /\ Faults <= Faults'
    BY FaultsStep DEF Lineage
  <2>2. Crash => Faults < Faults'
    BY FaultsStep DEF Lineage, Crash, TypeOK
  <2>3. phase' = "down" => phase = "down" \/ Crash
    BY DownStep DEF History
  <2> QED
    BY <2>1, <2>2, <2>3
<1>2. \A a, b \in JobRows : parent[a] = parent[b] /\ parent[a] # 0 => a = b
  BY <1>1 DEF History, OneChild
<1>3. SameRows /\ TypeOK'
  BY SameRowsStep DEF Lineage
<1>4. ASSUME NEW e \in JobRows', e \notin JobRows, parent'[e] # 0,
             NEW f \in JobRows', parent'[f] = parent'[e]
      PROVE  f = e
  <2>1. PICK p \in JobRows : parent'[e] = p /\ stage[p] = "executing"
    BY <1>3, <1>4, NewRow
  <2>2. JobRows' = JobRows \cup {e}
    BY <1>3, <1>4, NewRow
  <2>3. phase # "down"
    BY <2>1 DEF History, NothingWhileDown, JobRows
  <2>4. \A x \in JobRows : parent[x] # p
    BY <1>1, <2>1, <2>3 DEF History, NoEarlyChild, Done
  <2>5. f \notin JobRows
    BY <1>3, <1>4, <2>1, <2>4 DEF SameRows
  <2> QED
    BY <2>2, <2>5
<1>5. CASE c \in JobRows /\ d \in JobRows
  BY <1>2, <1>3, <1>5 DEF SameRows
<1>6. CASE c \notin JobRows
  BY <1>4, <1>6
<1>7. CASE d \notin JobRows
  BY <1>4, <1>7
<1> QED
  BY <1>5, <1>6, <1>7

\* A row that is done with stays so.
LEMMA DoneStep ==
  ASSUME Lineage, Lineage', [Next]_vars, NEW c \in JobRows, Done(c)
  PROVE  Done(c)'
<1>0. TypeOK'
  BY DEF Lineage
<1>1. CASE ~Using
  BY <1>0, <1>1, QuietStep DEF Quiet
<1>2. CASE Boot
  BY <1>2 DEF Done, Boot, Replayed, Unfinalized, UnfinalizedStatuses, JobRows
<1>3. ASSUME NEW j \in Jobs, Submit(j)
      PROVE  Done(c)'
  BY <1>3 DEF Lineage, TypeOK, Done, JobRows, Submit, NewCommand, Unused, IsBlocking
<1>4. ASSUME NEW e \in Commands, PushChild(e)
      PROVE  Done(c)'
  <2>1. PICK d \in Commands :
          parent[d] = e /\ stage' = [stage EXCEPT ![e] = "none", ![d] = "queued"]
    BY <1>4 DEF PushChild, IsLatestChild
  <2>2. UNCHANGED <<work, status>> /\ e # 0 /\ stage[e] = "push" /\ e \notin removed
    BY <1>4 DEF PushChild, Commands, Lineage, RowsInUse
  <2>3. status[d] = "PENDING"
    BY <2>1, <2>2 DEF Lineage, UntouchedTillPushed
  <2> QED
    BY <2>1, <2>2, <2>3 DEF Lineage, TypeOK, Done, JobRows
<1> QED
  BY <1>1, <1>2, <1>3, <1>4 DEF Using

\* Until something goes wrong a command that has a child is about to be done with.
LEMMA NoEarlyChildStep ==
  ASSUME Lineage, Lineage', [Next]_vars, History
  PROVE  NoEarlyChild'
<1> SUFFICES ASSUME Faults' = 0, NEW c \in JobRows', NEW d \in JobRows', parent'[d] = c
             PROVE  stage'[c] \in {"inserted", "push"} \/ Done(c)'
  BY DEF NoEarlyChild
<1>0. TypeOK' /\ SameRows /\ c \in Commands /\ d \in Commands /\ c # 0
  BY SameRowsStep DEF Lineage, JobRows, Commands
<1>1. Faults = 0 /\ ~Crash /\ ~(\E e \in Commands : Fail(e))
  <2>1. /\ Faults \in Nat /\ Faults <= Faults'
        /\ crashes' # crashes => Faults < Faults'
        /\ errors' # errors => Faults < Faults'
    BY FaultsStep DEF Lineage
  <2>2. Crash => crashes' # crashes
    BY DEF Crash, Lineage, TypeOK
  <2>3. \A e \in Commands : Fail(e) => errors' # errors
    BY FaultsStep DEF Lineage
  <2> QED
    BY <2>1, <2>2, <2>3
<1>2. CASE d \notin JobRows
  <2>1. PICK p \in JobRows : parent'[d] = p /\ stage' = [stage EXCEPT ![p] = "inserted"]
    BY <1>0, <1>2, NewRow
  <2> QED
    BY <1>0, <2>1 DEF Lineage, TypeOK
<1>3. CASE d \in JobRows
  <2>1. parent[d] = c
    BY <1>0, <1>3 DEF SameRows
  <2>2. c \in JobRows
    BY <1>0, <1>3, <2>1, ParentRow
  <2>3. stage[c] \in {"inserted", "push"} \/ Done(c)
    BY <1>1, <1>3, <2>1, <2>2 DEF History, NoEarlyChild
  <2>4. CASE Done(c)
    BY <2>2, <2>4, DoneStep
  <2>5. CASE stage[c] \in {"inserted", "push"}
    <3>1. phase # "down"
      BY <1>0, <2>5 DEF History, NothingWhileDown
    <3>2. CASE \E e \in Commands : PushChild(e)
      <4>1. PICK e \in Commands : PushChild(e)
        BY <3>2
      <4>2. PICK f \in Commands :
              parent[f] = e /\ stage' = [stage EXCEPT ![e] = "none", ![f] = "queued"]
        BY <4>1 DEF PushChild, IsLatestChild
      <4>3. /\ e # 0 /\ stage[e] = "push" /\ e \notin removed /\ status[e] = "COMPLETED"
            /\ UNCHANGED <<work, status>>
        BY <4>1 DEF PushChild, Commands, Lineage, RowsInUse, CompletedIsLeft
      <4>4. stage[f] = "none"
        BY <4>2, <4>3 DEF Lineage, UntouchedTillPushed
      <4>5. CASE c = e
        BY <1>0, <2>2, <4>2, <4>3, <4>4, <4>5 DEF Lineage, TypeOK, Done, JobRows
      <4>6. CASE c # e
        BY <1>0, <2>5, <4>2, <4>4, <4>6 DEF Lineage, TypeOK
      <4> QED
        BY <4>5, <4>6
    <3>3. CASE ~(\E e \in Commands : PushChild(e))
      BY <1>0, <1>1, <2>2, <2>5, <3>1, <3>3
      DEF Lineage, TypeOK, Next, Execute, Adding, Boot, ResumeQueue, Poll, PollEnds, PollFails, JobRows,
         AddListener, Submit, CheckBlocking, InsertAndQueue, Start, Repeat, Finish, InsertChild,
         Complete, Retry, HandleError, Recover, Clean, vars, Goto, SetStatus, NewCommand, Unused
    <3> QED
      BY <3>2, <3>3
  <2> QED
    BY <2>3, <2>4, <2>5
<1> QED
  BY <1>2, <1>3

\* At most the first crash or exception happened, and each sequence is run in order: the
\* rows left by an execution that was repeated are never used.
THEOREM ExecutorOneSequence == Spec => []OneSequence
<1>1. Init => OneSequence
  <2> SUFFICES ASSUME Init
               PROVE  OneSequence
    OBVIOUS
  <2>1. JobRows = {} /\ errors = 0 /\ \A c \in Commands : stage[c] = "none"
    BY DEF Init, JobRows
  <2> QED
    BY <2>1 DEF OneSequence, History, Sequence, Pedigree, NothingWhileDown, FailedByError,
       OneChild, NoEarlyChild, OneTouched, DoneBefore, OneInMemory
<1>2. Lineage /\ Lineage' /\ OneSequence /\ [Next]_vars => OneSequence'
  <2> SUFFICES ASSUME Lineage, Lineage', OneSequence, [Next]_vars
               PROVE  OneSequence'
    OBVIOUS
  <2>1. TypeOK' /\ History
    BY DEF Lineage, OneSequence
  <2>2. Pedigree'
    BY <2>1, PedigreeStep DEF History
  <2>3. NothingWhileDown'
    BY <2>1, DownStep DEF History
  <2>4. FailedByError'
    BY <2>1, FailedByErrorStep DEF History
  <2>5. OneChild' /\ NoEarlyChild'
    BY <2>1, OneChildStep, NoEarlyChildStep
  <2>6. ASSUME Faults' <= 1
        PROVE  Sequence'
    <3>1. Faults \in Nat /\ Faults' \in Nat /\ Faults <= Faults'
      BY FaultsStep DEF Lineage
    <3>2. Faults <= 1
      BY <2>6, <3>1
    <3>3. Sequence
      BY <3>2 DEF OneSequence
    <3>4. CASE ~Using
      BY <2>1, <3>3, <3>4, QuietStep, QuietKeepsSequence
    <3>5. CASE Boot
      BY <2>1, <3>2, <3>3, <3>5, BootSequence
    <3>6. CASE \E j \in Jobs : Submit(j)
      BY <3>3, <3>6, SubmitSequence
    <3>7. CASE \E c \in Commands : PushChild(c)
      BY <2>1, <3>3, <3>7, PushSequence DEF History
    <3> QED
      BY <3>4, <3>5, <3>6, <3>7 DEF Using
  <2> QED
    BY <2>2, <2>3, <2>4, <2>5, <2>6 DEF OneSequence, History
<1> QED
  BY <1>1, <1>2, ExecutorLineage, PTL DEF Spec

\* A set without two elements has at most one.
LEMMA AtMostOne ==
  ASSUME NEW S, \A x, y \in S : x = y
  PROVE  Cardinality(S) <= 1
<1>1. CASE S = {}
  BY <1>1, FS_EmptySet
<1>2. CASE S # {}
  <2>1. PICK x : S = {x}
    BY <1>2
  <2> QED
    BY <2>1, FS_Singleton
<1> QED
  BY <1>1, <1>2

\* A single crash or exception, wherever it strikes and whatever was queued again after it,
\* makes no command of a sequence complete twice and no two of them run at once.
THEOREM ExecutorCompletedOnce == Spec => []CompletedOnce
<1>1. OneSequence => CompletedOnce
  <2> SUFFICES ASSUME Sequence, NEW j \in Jobs
               PROVE  /\ \A k \in 1 .. Steps :
                           Cardinality({c \in Commands : /\ work[c] = j /\ position[c] = k
                                                         /\ status[c] = "COMPLETED"}) <= 1
                      /\ Cardinality({c \in Commands : work[c] = j /\ stage[c] # "none"}) <= 1
    BY DEF OneSequence, CompletedOnce, Faults
  <2>1. ASSUME NEW k \in 1 .. Steps
        PROVE  Cardinality({c \in Commands : /\ work[c] = j /\ position[c] = k
                                             /\ status[c] = "COMPLETED"}) <= 1
    <3> DEFINE S == {c \in Commands : /\ work[c] = j /\ position[c] = k
                                      /\ status[c] = "COMPLETED"}
    <3>1. \A x, y \in S : x = y
      BY DEF Sequence, OneTouched, Touched, JobRows
    <3> HIDE DEF S
    <3>2. Cardinality(S) <= 1
      BY <3>1, AtMostOne
    <3> QED
      BY <3>2 DEF S
  <2>2. Cardinality({c \in Commands : work[c] = j /\ stage[c] # "none"}) <= 1
    <3> DEFINE S == {c \in Commands : work[c] = j /\ stage[c] # "none"}
    <3>1. \A x, y \in S : x = y
      BY DEF Sequence, OneInMemory, JobRows
    <3> HIDE DEF S
    <3>2. Cardinality(S) <= 1
      BY <3>1, AtMostOne
    <3> QED
      BY <3>2 DEF S
  <2> QED
    BY <2>1, <2>2
<1> QED
  BY <1>1, ExecutorOneSequence, PTL

-----------------------------------------------------------------------------
(* Completed commands                                                      *)

CompletedStays ==
  \A c \in JobRows : status[c] = "COMPLETED" =>
    /\ c \in JobRows' /\ status'[c] = "COMPLETED"
    /\ stage'[c] \notin {"queued", "executing"}

\* A command of a sequence that is COMPLETED is left alone by every step, the replay of
\* the rows after a crash (replayOldCommands) and the retries (_handleError) included.
THEOREM ExecutorCompletedStays == Spec => [][CompletedStays]_vars
<1>1. Lineage /\ Lineage' /\ [Next]_vars => [CompletedStays]_vars
  <2> SUFFICES ASSUME Lineage, Lineage', [Next]_vars, NEW c \in JobRows, status[c] = "COMPLETED"
               PROVE  /\ c \in JobRows' /\ status'[c] = "COMPLETED"
                      /\ stage'[c] \notin {"queued", "executing"}
    BY DEF CompletedStays
  <2>1. c \in Commands /\ c \in JobRows' /\ work'[c] \in Jobs
    BY SameRowsStep DEF SameRows, Lineage, JobRows
  <2>2. stage[c] \in {"none", "push"}
    BY DEF Lineage, CompletedIsLeft, JobRows, Unfinalized, UnfinalizedStatuses
  <2>3. status'[c] = "COMPLETED"
    BY <2>1, <2>2 DEF Lineage, TypeOK, Next, Execute, Fail, Boot, ResumeQueue, Crash, Poll,
       PollEnds, PollFails, AddListener, Submit, CheckBlocking, InsertAndQueue, Start, Repeat, Finish,
       InsertChild, Complete, PushChild, Retry, Throw, HandleError, HandleErrorFails, Recover, RecoverFails, AddFails,
       Clean, vars, Goto, SetStatus,
       NewCommand, Unused, IsBlocking, JobRows
  <2> QED
    BY <2>1, <2>3 DEF Lineage, CompletedIsLeft, Unfinalized, UnfinalizedStatuses
<1> QED
  BY <1>1, ExecutorLineage, PTL DEF Spec

=============================================================================
