------------------------ MODULE PublishOperationProofs ------------------------
(***************************************************************************)
(* Proofs about the publish operation of the current version by a node of  *)
(* the shard, for every shard size, batch size, minimum number of          *)
(* signatures and number of retries.                                       *)
(***************************************************************************)
EXTENDS PublishOperation, FiniteSetTheorems, TLAPS

USE RemoteNodesAssumption, SelfAssumption, BatchAssumption, MinAcksAssumption,
    RetriesAssumption, RequestsAssumption

-----------------------------------------------------------------------------
(* The inductive invariant: one token travels through the operation, as    *)
(* the chain of commands, a queued batch, or the one command whose         *)
(* response ended a round. A command that still sets minAcksReached counts *)
(* as one that is where it will go on.                                     *)

ChainStages == {"validate", "findShard", "local"}
CompleteStages == {"completeCache", "completeStatus", "completeId"}
FailStages == {"failCache", "failStatus", "failId"}
TokenStages == {"schedule"} \cup CompleteStages \cup FailStages
Idle == {"none", "done"}

Doing(i) == IF stage[i] = "minAcks" THEN after[i] ELSE stage[i]

NoJobs == \A p \in Positions : jobs[p] = 0
Issued == 1 .. issued
AnsweredRequests == {i \in Issued : stage[i] \in Answered}
Hopeless == acks + (RemoteNodes - issued) < MinAcks

\* Requests are created in the order of the shard list. Once the node's own response
\* is recorded, every answered request is one response more.
RequestsInOrder ==
  /\ issued <= RemoteNodes
  /\ \A i \in Requests : stage[i] = "none" <=> i > issued
  /\ \A i \in Requests : stage[i] \notin ChainStages \cup {"network", "skipped"}
  /\ \A i \in Issued : node[i] = i
  /\ \/ acks = 0 /\ nacks = 0 /\ issued = 0
     \/ acks + nacks = 1 + Cardinality(AnsweredRequests)

\* What the chain of commands does comes first, and is counted at its end.
ChainFirst ==
  /\ stage[Local] \in ChainStages \cup TokenStages \cup {"minAcks", "done"}
  /\ stage[Local] \in ChainStages => acks = 0 /\ nacks = 0 /\ status = "IN_PROGRESS"
  /\ Doing(Local) # "done" => issued = 0 /\ NoJobs
  /\ left[Local] = 0

\* The requests of the last batch carry the leftover position it ends at.
LastBatch ==
  \E prev \in 0 .. issued :
    /\ prev % BatchSize = 0
    /\ issued <= prev + BatchSize
    /\ \A i \in 1 .. prev : stage[i] \in Answered
    /\ \A i \in prev + 1 .. issued : left[i] = issued

JobIsToken ==
  \A p \in Positions : jobs[p] > 0 =>
    /\ jobs[p] = 1 /\ p = issued /\ p % BatchSize = 0
    /\ status = "IN_PROGRESS" /\ acks + nacks > 0
    /\ \A j \in Commands : Doing(j) \in Idle

TokenIsAlone ==
  \A i \in Commands : Doing(i) \in TokenStages =>
    NoJobs /\ \A j \in Commands \ {i} : Doing(j) \in Idle

ScheduleFits ==
  \A i \in Commands : Doing(i) = "schedule" =>
    left[i] = issued /\ issued % BatchSize = 0 /\ status = "IN_PROGRESS" /\ acks + nacks > 0

FailFits ==
  \A i \in Commands : Doing(i) \in FailStages =>
    /\ status = IF Doing(i) = "failId" THEN "FAILED" ELSE "IN_PROGRESS"
    /\ acks + nacks > 0 => Hopeless

CompleteFits ==
  \A i \in Commands : Doing(i) \in CompleteStages =>
    /\ status = IF Doing(i) = "completeId" THEN "COMPLETED" ELSE "IN_PROGRESS"
    /\ issued = RemoteNodes /\ acks >= MinAcks

DecidedIsFinal ==
  /\ status = "FAILED" =>
       /\ NoJobs /\ (acks + nacks > 0 => Hopeless)
       /\ \A j \in Commands : Doing(j) \in Idle \cup {"failId"}
  /\ status = "COMPLETED" =>
       /\ NoJobs /\ issued = RemoteNodes
       /\ \A j \in Commands : Doing(j) \in Idle \cup {"completeId"}

\* The client is told of the minimum when it is reached, by a command that goes on
\* with something else than a failure.
ReachedIsCounted ==
  /\ minAcksReached => acks >= MinAcks
  /\ \A i \in Commands : stage[i] = "minAcks" =>
       acks >= MinAcks /\ after[i] \in {"schedule", "completeCache", "done"}

Token ==
  /\ RequestsInOrder /\ ChainFirst /\ LastBatch /\ JobIsToken /\ TokenIsAlone
  /\ ScheduleFits /\ FailFits /\ CompleteFits /\ DecidedIsFinal /\ ReachedIsCounted

\* The previous version has no response of its own to start with, and one from outside
\* the shard counts a response of a node that the shard does not have.
Regular == SelfInShard /\ ~isOperationV0

IInv == TypeOK /\ (Regular => Token)

-----------------------------------------------------------------------------
(* Batches and remainders                                                  *)

LEMMA ModZero ==
  ASSUME NEW b \in Nat \ {0}
  PROVE  0 % b = 0
  BY SMT

LEMMA Multiple ==
  ASSUME NEW b \in Nat \ {0}, NEW a \in Nat, a % b = 0
  PROVE  \E q \in Nat : a = b * q
  BY SMT

\* Among the numbers of answers above all the batches before the last one, only the
\* number of requests ends a batch.
LEMMA RoundEnd ==
  ASSUME NEW b \in Nat \ {0}, NEW prev \in Nat, NEW n \in Nat, NEW total \in Nat,
         prev % b = 0, total % b = 0, prev < total, total <= n, n <= prev + b
  PROVE  total = n
<1>1. PICK q \in Nat : prev = b * q
  BY Multiple
<1>2. PICK r \in Nat : total = b * r
  BY Multiple
<1>3. q + 1 <= r
  <2>1. b * q < b * r
    BY <1>1, <1>2
  <2> QED
    BY <2>1, SMT
<1>4. b * (q + 1) <= b * r
  BY <1>3, SMT
<1>5. b * (q + 1) = b * q + b
  BY SMT
<1> QED
  BY <1>1, <1>2, <1>4, <1>5

LEMMA OneMore ==
  ASSUME NEW a \in Nat, NEW b \in Nat, NEW c \in Nat, NEW e \in Nat, a + b = c + e + 1
  PROVE  a + b \in Nat /\ a + b > 0
  OBVIOUS

LEMMA FirstCardinality ==
  ASSUME NEW n \in Nat
  PROVE  IsFiniteSet(1 .. n) /\ Cardinality(1 .. n) = n
<1>1. IsFiniteSet(1 .. n) /\ Cardinality(1 .. n) = IF 1 > n THEN 0 ELSE n - 1 + 1
  BY FS_Interval
<1> QED
  BY <1>1

-----------------------------------------------------------------------------
(* Types                                                                   *)

\* The end of a batch is a position of the shard list.
LEMMA BatchEndType ==
  ASSUME NEW p \in Positions
  PROVE  /\ BatchEnd(p) \in Positions
         /\ p <= BatchEnd(p) /\ BatchEnd(p) <= p + BatchSize
         /\ BatchEnd(p) = p + BatchSize \/ BatchEnd(p) = RemoteNodes
  BY DEF BatchEnd, Positions

\* A recorded response leads to a stage behind its row.
LEMMA ResponseTypes ==
  ASSUME TypeOK, NEW i \in Commands, NEW outcome \in {"COMPLETED", "FAILED"},
         ProcessResponse(i, outcome)
  PROVE  /\ acks' \in Nat /\ nacks' \in Nat
         /\ stage' \in [Commands -> Stages] /\ after' \in [Commands -> Answered]
<1>1. acks' \in Nat /\ nacks' \in Nat
  BY DEF ProcessResponse, RecordResponse, TypeOK, ProtocolTypeOK
<1>2. Decision(acks', acks' + nacks', left[i]) \in {"completeCache", "failCache", "schedule", "done"}
  BY DEF Decision
<1>3. stage' \in [Commands -> Stages]
  BY <1>2 DEF ProcessResponse, Goto, Stages, TypeOK, ProtocolTypeOK
<1>4. after' \in [Commands -> Answered]
  BY <1>2 DEF ProcessResponse, Answered, TypeOK
<1> QED
  BY <1>1, <1>3, <1>4

\* Every step keeps every variable in its set.
LEMMA TypeStep ==
  ASSUME TypeOK, [Next]_vars
  PROVE  TypeOK'
<1> USE DEF TypeOK, ProtocolTypeOK, Goto, Stages, publishVars
<1>0. Local \in Commands /\ Requests \subseteq Commands
  BY DEF Commands
<1>1. CASE FindShard(NextInSequence) /\ UNCHANGED publishVars
  BY <1>0, <1>1 DEF FindShard, NextInSequence
<1>2. CASE Validate("local") /\ UNCHANGED publishVars
  BY <1>0, <1>2 DEF Validate
<1>3. CASE LocalStore
  <2>1. CASE SignAsPublisher
    <3>1. PICK outcome \in {"COMPLETED", "FAILED"} : ProcessResponse(Local, outcome)
      BY <2>1 DEF SignAsPublisher
    <3> QED
      BY <1>0, <1>3, <2>1, <3>1, ResponseTypes DEF LocalStore, SignAsPublisher
  <2>2. CASE LocalStoreFails
    BY <1>0, <1>3, <2>2 DEF LocalStore, LocalStoreFails
  <2> QED
    BY <1>3, <2>1, <2>2 DEF LocalStore
<1>4. CASE StartNetwork /\ UNCHANGED publishVars
  BY <1>0, <1>4 DEF StartNetwork, Positions
<1>5. ASSUME NEW p \in Positions, BatchStep(p)
      PROVE  TypeOK'
  <2>0. ScheduleMessages(p) /\ UNCHANGED publishVars
    BY <1>5 DEF BatchStep
  <2>1. /\ BatchEnd(p) \in 0 .. RemoteNodes /\ p <= BatchEnd(p)
        /\ p \in 0 .. RemoteNodes
    BY BatchEndType DEF Positions
  <2>2. issued' \in 0 .. MaxRequests /\ ending' \in Nat /\ idStatus' = "PENDING"
    BY <2>0, <2>1 DEF ScheduleMessages
  <2>3. stage' \in [Commands -> Stages]
    BY <2>0 DEF ScheduleMessages
  <2>4. node' \in [Commands -> Positions]
    <3>1. ASSUME NEW i \in issued + 1 .. issued + (BatchEnd(p) - p)
          PROVE  p + (i - issued) \in 0 .. RemoteNodes
      BY <2>1
    <3>2. \A i \in Commands : i \in issued + 1 .. issued + (BatchEnd(p) - p)
                               => p + (i - issued) \in Positions
      BY <3>1 DEF Positions
    <3> QED
      BY <2>0, <3>2 DEF ScheduleMessages
  <2>5. left' \in [Commands -> Positions]
    BY <2>0, <2>1 DEF ScheduleMessages, Positions
  <2>6. jobs' \in [Positions -> Nat]
    BY <2>0 DEF ScheduleMessages
  <2> QED
    BY <2>0, <2>2, <2>3, <2>4, <2>5, <2>6 DEF ScheduleMessages
<1>6. CASE EndEventStep
  BY <1>6 DEF EndEventStep, WriteEndEvent
<1>7. ASSUME NEW i \in Requests, Dispatch(i)
      PROVE  TypeOK'
  BY <1>0, <1>7 DEF Dispatch
<1>8. ASSUME NEW i \in Requests, BusyAgain(i), UNCHANGED publishVars
      PROVE  TypeOK'
  BY <1>0, <1>8 DEF BusyAgain
<1>9. ASSUME NEW i \in Requests, DispatchFails(i)
      PROVE  TypeOK'
  <2>1. CASE ProcessResponse(i, "FAILED")
    BY <1>0, <1>9, <2>1, ResponseTypes DEF DispatchFails
  <2>2. CASE /\ retries[i] > 0 /\ retries' = [retries EXCEPT ![i] = @ - 1]
             /\ UNCHANGED <<acks, nacks, stage, after>>
    BY <1>0, <1>9, <2>2 DEF DispatchFails
  <2> QED
    BY <1>9, <2>1, <2>2 DEF DispatchFails
<1>10. ASSUME NEW i \in Requests, NEW outcome \in {"COMPLETED", "FAILED"}, Answer(i, outcome)
       PROVE  TypeOK'
  BY <1>0, <1>10, ResponseTypes DEF Answer
<1>11. ASSUME NEW i \in Commands, SetMinAcksReached(i)
       PROVE  TypeOK'
  <2>1. after[i] \in Stages
    BY DEF Answered
  <2> QED
    BY <1>11, <2>1 DEF SetMinAcksReached
<1>12. ASSUME NEW i \in Commands, AfterDecision(i, "none"), UNCHANGED publishVars
       PROVE  TypeOK'
  BY <1>12 DEF AfterDecision, ScheduleLeftover, CompleteCache, CompleteStatus,
               CompleteId, FailCache, FailStatus, FailId
<1>13. CASE UNCHANGED vars
  BY <1>13 DEF vars, protocolVars
<1> QED
  BY <1>1, <1>2, <1>3, <1>4, <1>5, <1>6, <1>7, <1>8, <1>9, <1>10, <1>11, <1>12, <1>13
  DEF Next, ChainStep, RequestStep, DecisionStep

-----------------------------------------------------------------------------
(* What a state with the token says                                        *)

\* A step that moves one command between stages of the same kind, and leaves what the
\* requests are counted by, keeps the requests in order.
LEMMA CountsKept ==
  ASSUME TypeOK, Token, NEW i \in Commands, NEW s \in Stages,
         Goto(i, s), UNCHANGED <<issued, node, left, acks, nacks>>,
         \/ i = Local
         \/ stage[i] \in Answered /\ s \in Answered
         \/ stage[i] \in {"queued", "sent"} /\ s \in {"queued", "sent"}
  PROVE  /\ RequestsInOrder' /\ LastBatch'
         /\ stage'[i] = s /\ \A j \in Commands \ {i} : stage'[j] = stage[j]
<1> USE DEF TypeOK, ProtocolTypeOK
<1>1. stage'[i] = s /\ \A j \in Commands \ {i} : stage'[j] = stage[j]
  BY DEF Goto
<1>2. ASSUME NEW j \in Requests
      PROVE  /\ stage'[j] \in Answered <=> stage[j] \in Answered
             /\ stage'[j] = "none" <=> stage[j] = "none"
             /\ stage'[j] \notin ChainStages \cup {"network", "skipped"}
  <2>1. stage[j] \notin ChainStages \cup {"network", "skipped"}
    BY DEF Token, RequestsInOrder
  <2>2. j \in Commands /\ j # Local
    BY DEF Commands, Requests, Local
  <2> QED
    BY <1>1, <2>1, <2>2 DEF Answered, ChainStages
<1>3. issued \in Nat /\ issued <= MaxRequests /\ Issued' = Issued /\ Issued \subseteq Requests
  BY DEF Issued, Requests
<1>4. AnsweredRequests' = AnsweredRequests
  BY <1>2, <1>3 DEF AnsweredRequests
<1>5. RequestsInOrder'
  <2>1. /\ issued' <= RemoteNodes
        /\ \A j \in Requests : stage'[j] = "none" <=> j > issued'
        /\ \A j \in Requests : stage'[j] \notin ChainStages \cup {"network", "skipped"}
    BY <1>2 DEF Token, RequestsInOrder
  <2>2. \A j \in Issued' : node'[j] = j
    BY <1>3 DEF Token, RequestsInOrder
  <2>3. \/ acks' = 0 /\ nacks' = 0 /\ issued' = 0
        \/ acks' + nacks' = 1 + Cardinality(AnsweredRequests')
    BY <1>4 DEF Token, RequestsInOrder
  <2> QED
    BY <2>1, <2>2, <2>3 DEF RequestsInOrder
<1>6. LastBatch'
  <2>1. PICK prev \in 0 .. issued :
          /\ prev % BatchSize = 0 /\ issued <= prev + BatchSize
          /\ \A j \in 1 .. prev : stage[j] \in Answered
          /\ \A j \in prev + 1 .. issued : left[j] = issued
    BY DEF Token, LastBatch
  <2>2. 1 .. prev \subseteq Requests
    BY <1>3, <2>1 DEF Requests
  <2>3. \A j \in 1 .. prev : stage'[j] \in Answered
    BY <1>2, <2>1, <2>2
  <2> QED
    BY <2>1, <2>3 DEF LastBatch
<1> QED
  BY <1>1, <1>5, <1>6

\* While the chain of commands is at work there is nothing else.
LEMMA ChainFacts ==
  ASSUME TypeOK, Token, stage[Local] \in ChainStages
  PROVE  /\ issued = 0 /\ acks = 0 /\ nacks = 0 /\ status = "IN_PROGRESS" /\ ~minAcksReached
         /\ NoJobs /\ left[Local] = 0
         /\ \A j \in Commands \ {Local} : stage[j] = "none"
<1>1. acks = 0 /\ nacks = 0 /\ status = "IN_PROGRESS" /\ left[Local] = 0
  BY DEF Token, ChainFirst
<1>2. issued = 0 /\ NoJobs
  BY DEF Token, ChainFirst, Doing, ChainStages
<1>3. ~minAcksReached
  BY <1>1 DEF Token, ReachedIsCounted
<1>4. \A j \in Commands \ {Local} : stage[j] = "none"
  BY <1>2 DEF Token, RequestsInOrder, Commands, Requests
<1> QED
  BY <1>1, <1>2, <1>3, <1>4

\* While a request is unanswered nothing is decided, and no command has a decision to
\* carry out.
LEMMA UnansweredFacts ==
  ASSUME TypeOK, Token, NEW i \in Requests, stage[i] \in {"queued", "sent"}
  PROVE  /\ i \in Commands /\ i # Local /\ i \in Issued /\ issued > 0
         /\ NoJobs /\ status = "IN_PROGRESS" /\ Doing(Local) = "done"
         /\ acks + nacks = 1 + Cardinality(AnsweredRequests)
         /\ \A j \in Commands : Doing(j) \notin TokenStages
<1> USE DEF TypeOK, ProtocolTypeOK
<1>1. /\ i \in Commands /\ i # Local /\ i \in Issued /\ issued > 0
      /\ Doing(i) \notin Idle \cup TokenStages \cup {"failId", "completeId"}
  BY SMTT(30) DEF Token, RequestsInOrder, Commands, Requests, Local, Issued, Idle, Doing, TokenStages,
         CompleteStages, FailStages
<1>2. NoJobs
  BY <1>1 DEF Token, JobIsToken, NoJobs
<1>3. status = "IN_PROGRESS"
  BY <1>1 DEF Token, DecidedIsFinal
<1>4. \A j \in Commands : Doing(j) \notin TokenStages
  BY <1>1 DEF Token, TokenIsAlone
<1>5. Doing(Local) = "done"
  BY <1>1 DEF Token, ChainFirst
<1>6. acks + nacks = 1 + Cardinality(AnsweredRequests)
  BY <1>1 DEF Token, RequestsInOrder
<1> QED
  BY <1>1, <1>2, <1>3, <1>4, <1>5, <1>6

-----------------------------------------------------------------------------
(* Steps outside the decisions                                             *)

\* The chain of commands goes on, fails or ends.
LEMMA ChainKeepsToken ==
  ASSUME TypeOK, Token, NEW s \in {"validate", "local", "failCache", "done"},
         stage[Local] \in ChainStages, Goto(Local, s),
         UNCHANGED <<status, acks, nacks, issued, node, left, jobs, after, minAcksReached>>
  PROVE  Token'
<1>1. /\ issued = 0 /\ acks = 0 /\ nacks = 0 /\ status = "IN_PROGRESS" /\ ~minAcksReached
      /\ NoJobs /\ left[Local] = 0
      /\ \A j \in Commands \ {Local} : stage[j] = "none"
  BY ChainFacts
<1>2. /\ RequestsInOrder' /\ LastBatch' /\ stage'[Local] = s
      /\ \A j \in Commands \ {Local} : stage'[j] = "none"
  BY <1>1, CountsKept DEF Stages, Commands
<1>3. NoJobs'
  BY <1>1 DEF NoJobs
<1>4. \A j \in Commands : Doing(j)' = stage'[j] /\ (j # Local => Doing(j)' = "none")
  BY <1>2 DEF Doing
<1>5. Local \in Commands /\ Doing(Local)' = s
  BY <1>2 DEF Doing, Commands
<1>6. ChainFirst'
  BY <1>1, <1>2, <1>3 DEF ChainFirst, ChainStages, TokenStages, FailStages
<1>7. JobIsToken'
  BY <1>3 DEF JobIsToken, NoJobs
<1>8. TokenIsAlone' /\ ScheduleFits' /\ FailFits' /\ CompleteFits'
  BY <1>1, <1>3, <1>4, <1>5
  DEF TokenIsAlone, ScheduleFits, FailFits, CompleteFits, TokenStages, FailStages, CompleteStages, Idle
<1>9. DecidedIsFinal' /\ ReachedIsCounted'
  BY <1>1, <1>2 DEF DecidedIsFinal, ReachedIsCounted
<1> QED
  BY <1>2, <1>6, <1>7, <1>8, <1>9 DEF Token

\* A request that is sent or queued again is still unanswered.
LEMMA UnansweredKeepsToken ==
  ASSUME TypeOK, Token, NEW i \in Requests, NEW s \in {"queued", "sent"},
         stage[i] \in {"queued", "sent"}, Goto(i, s),
         UNCHANGED <<status, acks, nacks, issued, node, left, jobs, after, minAcksReached>>
  PROVE  Token'
<1>1. /\ i \in Commands /\ i # Local /\ i \in Issued /\ issued > 0
      /\ NoJobs /\ status = "IN_PROGRESS" /\ Doing(Local) = "done"
      /\ \A j \in Commands : Doing(j) \notin TokenStages
  BY UnansweredFacts
<1>2. /\ RequestsInOrder' /\ LastBatch' /\ stage'[i] = s
      /\ \A j \in Commands \ {i} : stage'[j] = stage[j]
  BY <1>1, CountsKept DEF Stages
<1>3. NoJobs' /\ Local \in Commands
  BY <1>1 DEF NoJobs, Commands
<1>4. /\ \A j \in Commands \ {i} : Doing(j)' = Doing(j)
      /\ Doing(i)' = s
  BY <1>2 DEF Doing
<1>5. \A j \in Commands : Doing(j)' \notin TokenStages
  BY <1>1, <1>4 DEF TokenStages, FailStages, CompleteStages
<1>6. ChainFirst'
  BY <1>1, <1>2, <1>3, <1>4 DEF Token, ChainFirst
<1>7. JobIsToken'
  BY <1>3 DEF JobIsToken, NoJobs
<1>8. TokenIsAlone' /\ ScheduleFits' /\ FailFits' /\ CompleteFits'
  BY <1>5 DEF TokenIsAlone, ScheduleFits, FailFits, CompleteFits, TokenStages
<1>9. DecidedIsFinal' /\ ReachedIsCounted'
  BY <1>1, <1>2 DEF Token, DecidedIsFinal, ReachedIsCounted
<1> QED
  BY <1>2, <1>6, <1>7, <1>8, <1>9 DEF Token

\* What is kept when commands do what they did, and neither a response nor a request is
\* added.
LEMMA SetMinKeepsToken ==
  ASSUME TypeOK, Token, NEW i \in Commands, SetMinAcksReached(i)
  PROVE  Token'
<1>1. /\ stage[i] = "minAcks" /\ minAcksReached' = TRUE /\ Goto(i, after[i])
      /\ UNCHANGED <<status, acks, nacks, issued, node, left, jobs, after>>
  BY DEF SetMinAcksReached
<1>2. acks >= MinAcks /\ after[i] \in {"schedule", "completeCache", "done"}
  BY <1>1 DEF Token, ReachedIsCounted
<1>3. /\ RequestsInOrder' /\ LastBatch' /\ stage'[i] = after[i]
      /\ \A j \in Commands \ {i} : stage'[j] = stage[j]
  BY <1>1, <1>2, CountsKept DEF Stages, Answered
<1>4. \A j \in Commands : Doing(j)' = Doing(j)
  BY <1>1, <1>2, <1>3 DEF Doing
<1>5. NoJobs' = NoJobs /\ Hopeless' = Hopeless /\ Local \in Commands
  BY <1>1 DEF NoJobs, Hopeless, Commands
<1>6. ChainFirst'
  <2>1. stage'[Local] \in ChainStages \cup TokenStages \cup {"minAcks", "done"}
    BY <1>2, <1>3, <1>5 DEF Token, ChainFirst, TokenStages, CompleteStages
  <2>2. stage'[Local] \in ChainStages => stage[Local] \in ChainStages
    BY <1>2, <1>3, <1>5 DEF ChainStages
  <2> QED
    BY <1>1, <1>4, <1>5, <2>1, <2>2 DEF Token, ChainFirst
<1>7. JobIsToken'
  BY <1>1, <1>4 DEF Token, JobIsToken
<1>8. TokenIsAlone' /\ ScheduleFits' /\ FailFits' /\ CompleteFits' /\ DecidedIsFinal'
  BY <1>1, <1>4, <1>5
  DEF Token, TokenIsAlone, ScheduleFits, FailFits, CompleteFits, DecidedIsFinal
<1>9. ReachedIsCounted'
  BY <1>1, <1>2, <1>3 DEF Token, ReachedIsCounted
<1> QED
  BY <1>3, <1>6, <1>7, <1>8, <1>9 DEF Token

\* A batch is scheduled by the only token there is: all requests before it are done.
LEMMA BatchKeepsToken ==
  ASSUME TypeOK, Token, NEW p \in Positions, ScheduleMessages(p), UNCHANGED publishVars
  PROVE  Token'
<1> USE DEF TypeOK, ProtocolTypeOK, publishVars
<1> DEFINE new == issued + 1 .. issued'
<1>1. /\ p = issued /\ jobs[p] = 1 /\ p % BatchSize = 0
      /\ status = "IN_PROGRESS" /\ acks + nacks > 0 /\ issued \in Nat
      /\ \A j \in Commands : Doing(j) \in Idle
  BY DEF ScheduleMessages, Token, JobIsToken
<1>2. /\ issued' = BatchEnd(p) /\ issued <= issued' /\ issued' <= RemoteNodes
      /\ issued' <= issued + BatchSize /\ issued' <= MaxRequests /\ issued' \in Nat
      /\ UNCHANGED <<status, acks, nacks, after, minAcksReached>>
  BY <1>1, BatchEndType DEF ScheduleMessages, Positions
<1>3. \A i \in Commands : /\ i \in new => /\ stage'[i] = "queued" /\ left'[i] = issued'
                                           /\ node'[i] = i
                          /\ i \notin new => /\ stage'[i] = stage[i] /\ node'[i] = node[i]
                                             /\ left'[i] = left[i]
  <2>1. \A i \in new : p + (i - issued) = i
    BY <1>1, <1>2
  <2>2. issued + (BatchEnd(p) - p) = issued'
    BY <1>1, <1>2
  <2> QED
    BY <1>1, <1>2, <2>1, <2>2 DEF ScheduleMessages
<1>4. NoJobs'
  <2>1. \A q \in Positions : q # p => jobs[q] = 0
    BY <1>1 DEF Token, JobIsToken, Positions
  <2> QED
    BY <1>1, <2>1 DEF ScheduleMessages, NoJobs, Positions
<1>5. new \subseteq Requests /\ Local \notin new /\ Issued \subseteq Requests
      /\ Issued' = Issued \cup new
  BY <1>1, <1>2 DEF Requests, Local, Issued
<1>6. AnsweredRequests' = AnsweredRequests
  <2>1. \A i \in new : stage'[i] \notin Answered
    BY <1>3, <1>5 DEF Commands, Answered
  <2>2. \A i \in Issued : i \notin new
    BY DEF Issued
  <2>3. \A i \in Issued : stage'[i] = stage[i]
    BY <1>3, <1>5, <2>2 DEF Commands
  <2> QED
    BY <1>5, <2>1, <2>3 DEF AnsweredRequests
<1>7. RequestsInOrder'
  <2>1. \A i \in Issued' : node'[i] = i
    BY <1>3, <1>5 DEF Token, RequestsInOrder, Commands, Issued
  <2>2. \A i \in Requests : stage'[i] = "none" <=> i > issued'
    <3>1. ASSUME NEW i \in Requests, i \in new
          PROVE  stage'[i] # "none" /\ ~(i > issued')
      BY <3>1, <1>2, <1>3 DEF Commands
    <3>2. ASSUME NEW i \in Requests, i \notin new
          PROVE  stage'[i] = "none" <=> i > issued'
      <4>1. i > issued <=> i > issued'
        BY <3>2, <1>2 DEF Requests
      <4> QED
        BY <3>2, <4>1, <1>3 DEF Commands, Token, RequestsInOrder
    <3> QED
      BY <3>1, <3>2
  <2>3. \A i \in Requests : stage'[i] \notin ChainStages \cup {"network", "skipped"}
    BY <1>3 DEF Token, RequestsInOrder, Commands, ChainStages
  <2>4. acks' + nacks' = 1 + Cardinality(AnsweredRequests')
    BY <1>1, <1>2, <1>6 DEF Token, RequestsInOrder
  <2> QED
    BY <1>2, <2>1, <2>2, <2>3, <2>4 DEF RequestsInOrder
<1>8. Local \in Commands /\ stage'[Local] = stage[Local] /\ left'[Local] = left[Local]
  BY <1>3, <1>5 DEF Commands
<1>9. ChainFirst'
  <2>1. Doing(Local)' = Doing(Local)
    BY <1>2, <1>8 DEF Doing
  <2>2. Doing(Local) = "done"
    BY <1>1, <1>8 DEF Token, ChainFirst, Doing, Idle, TokenStages, CompleteStages,
                       FailStages, ChainStages, ReachedIsCounted
  <2> QED
    BY <1>2, <1>8, <2>1, <2>2 DEF Token, ChainFirst
<1>10. LastBatch'
  <2>1. \A i \in 1 .. issued : stage'[i] \in Answered
    <3>1. ASSUME NEW i \in Issued
          PROVE  stage'[i] = stage[i] /\ stage[i] \in Answered
      <4>1. i \in Commands /\ i \in Requests /\ i \notin new /\ ~(i > issued)
        BY <1>5 DEF Commands, Issued
      <4>2. stage[i] # "none" /\ Doing(i) \in Idle
        BY <1>1, <4>1 DEF Token, RequestsInOrder
      <4> QED
        BY <1>3, <4>1, <4>2 DEF Doing, Idle, Answered
    <3> QED
      BY <3>1 DEF Issued
  <2>2. \A i \in issued + 1 .. issued' : left'[i] = issued'
    BY <1>3, <1>5 DEF Commands
  <2>3. issued \in 0 .. issued' /\ issued % BatchSize = 0 /\ issued' <= issued + BatchSize
    BY <1>1, <1>2
  <2> QED
    BY <2>1, <2>2, <2>3 DEF LastBatch
<1>11. ASSUME NEW j \in Commands
       PROVE  Doing(j)' \in Idle \cup {"queued"}
  BY <1>1, <1>2, <1>3 DEF Doing
<1>12. JobIsToken'
  BY <1>4 DEF JobIsToken, NoJobs
<1>13. TokenIsAlone' /\ ScheduleFits' /\ FailFits' /\ CompleteFits'
  BY <1>11 DEF TokenIsAlone, ScheduleFits, FailFits, CompleteFits, Idle, TokenStages, FailStages,
                CompleteStages
<1>14. DecidedIsFinal'
  BY <1>1, <1>2 DEF DecidedIsFinal
<1>15. ReachedIsCounted'
  BY <1>2, <1>3 DEF Token, ReachedIsCounted
<1> QED
  BY <1>7, <1>9, <1>10, <1>12, <1>13, <1>14, <1>15 DEF Token

-----------------------------------------------------------------------------
(* Responses                                                               *)

\* Where a response leads, in the terms of the decision.
LEMMA ResponseStages ==
  ASSUME TypeOK, NEW i \in Commands, NEW outcome \in {"COMPLETED", "FAILED"},
         ProcessResponse(i, outcome), NEW d, d = Decision(acks', acks' + nacks', left[i])
  PROVE  /\ d \in {"completeCache", "failCache", "schedule", "done"}
         /\ d = "failCache" => acks' < MinAcks
         /\ stage'[i] \in {"minAcks", d} /\ Doing(i)' = d
         /\ \A j \in Commands \ {i} : stage'[j] = stage[j] /\ Doing(j)' = Doing(j)
         /\ stage'[i] = "minAcks" => acks' >= MinAcks /\ after'[i] = d /\ d # "failCache"
         /\ \A j \in Commands \ {i} : after'[j] = after[j]
         /\ acks' \in {acks, acks + 1} /\ acks' + nacks' = acks + nacks + 1
         /\ acks \in Nat /\ nacks \in Nat /\ acks' \in Nat /\ nacks' \in Nat
<1> USE DEF TypeOK, ProtocolTypeOK
<1>1. /\ acks \in Nat /\ nacks \in Nat /\ acks' \in Nat /\ nacks' \in Nat
      /\ acks' \in {acks, acks + 1} /\ acks' + nacks' = acks + nacks + 1
  BY DEF ProcessResponse, RecordResponse
<1>2. left[i] \in Nat /\ RemoteNodes - left[i] \in Nat
  BY DEF Positions
<1>3. d \in {"completeCache", "failCache", "schedule", "done"}
  BY DEF Decision
<1>6. ASSUME d = "failCache"
      PROVE  acks' < MinAcks
  <2>1. ~(acks' >= MinAcks) \/ ~(acks' + (RemoteNodes - left[i]) >= MinAcks)
    BY <1>6, Zenon DEF Decision
  <2> QED
    BY <1>1, <1>2, <2>1
<1>4. CASE acks' = MinAcks
  <2>1. stage' = [stage EXCEPT ![i] = "minAcks"] /\ after' = [after EXCEPT ![i] = d]
    BY <1>4 DEF ProcessResponse, Goto
  <2>2. /\ stage'[i] = "minAcks" /\ after'[i] = d
        /\ \A j \in Commands \ {i} : stage'[j] = stage[j] /\ after'[j] = after[j]
    BY <2>1
  <2>3. Doing(i)' = d /\ \A j \in Commands \ {i} : Doing(j)' = Doing(j)
    BY <2>2 DEF Doing
  <2>4. acks' >= MinAcks /\ d # "failCache"
    BY <1>1, <1>4, <1>6
  <2> QED
    BY <1>1, <1>3, <1>6, <2>2, <2>3, <2>4
<1>5. CASE acks' # MinAcks
  <2>1. stage' = [stage EXCEPT ![i] = d] /\ after' = after
    BY <1>5 DEF ProcessResponse, Goto
  <2> QED
    BY <1>1, <1>3, <1>5, <1>6, <2>1 DEF Doing
<1> QED
  BY <1>4, <1>5

\* By the counts, a response that ends a round, or is the last of all, is that of the
\* last request to be answered.
LEMMA RoundOver ==
  ASSUME TypeOK, Token, NEW i \in Requests, stage[i] \in {"queued", "sent"}, issued' = issued,
         NEW s \in Answered, stage'[i] = s, \A j \in Commands \ {i} : stage'[j] = stage[j],
         NEW total \in Nat, total = acks + nacks + 1
  PROVE  /\ left[i] = issued /\ total = 1 + Cardinality(AnsweredRequests')
         /\ (total - 1) % BatchSize = 0 \/ total = RemoteNodes + 1
              => /\ total = issued + 1
                 /\ \A j \in Issued : stage'[j] \in Answered
<1> USE DEF TypeOK, ProtocolTypeOK
<1>0. issued \in Nat /\ issued <= MaxRequests /\ issued <= RemoteNodes
  BY DEF Token, RequestsInOrder
<1>1. /\ i \in Commands /\ i \in Issued /\ Issued' = Issued
      /\ Issued \subseteq Requests /\ Issued \subseteq Commands
      /\ acks + nacks = 1 + Cardinality(AnsweredRequests)
  BY <1>0, UnansweredFacts DEF Issued, Requests, Commands
<1>2. AnsweredRequests' = AnsweredRequests \cup {i} /\ i \notin AnsweredRequests
  BY <1>1 DEF AnsweredRequests, Answered
<1>3. /\ IsFiniteSet(Issued) /\ Cardinality(Issued) = issued
      /\ IsFiniteSet(AnsweredRequests) /\ IsFiniteSet(AnsweredRequests')
      /\ Cardinality(AnsweredRequests') <= issued
      /\ Cardinality(AnsweredRequests') = Cardinality(AnsweredRequests) + 1
      /\ Cardinality(AnsweredRequests) \in Nat
  <2>1. IsFiniteSet(Issued) /\ Cardinality(Issued) = issued
    BY <1>0, FirstCardinality DEF Issued
  <2>2. AnsweredRequests \subseteq Issued /\ AnsweredRequests' \subseteq Issued
    BY <1>1, <1>2 DEF AnsweredRequests
  <2>3. /\ IsFiniteSet(AnsweredRequests) /\ IsFiniteSet(AnsweredRequests')
        /\ Cardinality(AnsweredRequests') <= Cardinality(Issued)
    BY <2>1, <2>2, FS_Subset
  <2> QED
    BY <2>1, <2>3, <1>2, FS_AddElement, FS_CardinalityType
<1>4. total = 1 + Cardinality(AnsweredRequests')
  BY <1>1, <1>3
<1>5. PICK prev \in 0 .. issued :
         /\ prev % BatchSize = 0 /\ issued <= prev + BatchSize
         /\ \A j \in 1 .. prev : stage[j] \in Answered
         /\ \A j \in prev + 1 .. issued : left[j] = issued
  BY DEF Token, LastBatch
<1>6. left[i] = issued
  <2>1. i \notin 1 .. prev
    BY <1>5 DEF Answered
  <2>2. i \in prev + 1 .. issued
    BY <2>1, <1>1, <1>5 DEF Issued
  <2> QED
    BY <2>2, <1>5
<1>7. prev < Cardinality(AnsweredRequests')
  <2>1. 1 .. prev \subseteq AnsweredRequests
    <3>1. 1 .. prev \subseteq Issued
      BY <1>0, <1>5 DEF Issued
    <3> QED
      BY <3>1, <1>5 DEF AnsweredRequests
  <2>2. Cardinality(1 .. prev) = prev
    BY <1>5, FirstCardinality
  <2>3. Cardinality(1 .. prev) <= Cardinality(AnsweredRequests)
    BY <2>1, <1>3, FS_Subset
  <2> QED
    BY <2>2, <2>3, <1>3, <1>5
<1>8. ASSUME (total - 1) % BatchSize = 0 \/ total = RemoteNodes + 1
      PROVE  Cardinality(AnsweredRequests') = issued
  <2>1. PICK n \in Nat : n = Cardinality(AnsweredRequests')
    BY <1>3
  <2>2. total - 1 = n /\ prev < n /\ n <= issued /\ prev \in Nat
    BY <1>3, <1>4, <1>5, <1>7, <2>1
  <2>3. CASE n % BatchSize = 0
    BY <2>1, <2>2, <2>3, <1>0, <1>5, RoundEnd
  <2>4. CASE n = RemoteNodes
    BY <2>1, <2>2, <2>4, <1>0
  <2> QED
    BY <1>8, <2>2, <2>3, <2>4
<1>9. Cardinality(AnsweredRequests') = issued => AnsweredRequests' = Issued
  BY <1>1, <1>3, FS_Subset DEF AnsweredRequests
<1> QED
  BY <1>4, <1>6, <1>8, <1>9 DEF AnsweredRequests

\* What the counts tell about the decision on a remote answer.
LEMMA RoundDecision ==
  ASSUME TypeOK, Regular, NEW a \in Nat, NEW t \in Nat, NEW asked \in Nat, asked <= RemoteNodes,
         (t - 1) % BatchSize = 0 \/ t = RemoteNodes + 1 => t = asked + 1,
         t <= asked + 1, NEW d, d = Decision(a, t, asked)
  PROVE  /\ d \in {"schedule", "failCache", "completeCache"} => t = asked + 1
         /\ d = "schedule" => asked % BatchSize = 0
         /\ d = "failCache" => a + (RemoteNodes - asked) < MinAcks
         /\ d = "completeCache" => asked = RemoteNodes /\ a >= MinAcks
<1>1. NumberOfFoundNodes = RemoteNodes + 1
  BY DEF NumberOfFoundNodes, Regular
<1>2. /\ d \in {"schedule", "failCache", "completeCache"}
           => (t - 1) % BatchSize = 0 \/ t = RemoteNodes + 1
      /\ d = "schedule" => (t - 1) % BatchSize = 0
      /\ d = "completeCache" => t = RemoteNodes + 1 /\ a >= MinAcks
      /\ d = "failCache" => \/ t = RemoteNodes + 1 /\ ~(a >= MinAcks)
                            \/ ~(a + (RemoteNodes - asked) >= MinAcks)
  BY <1>1, Zenon DEF Decision
<1>3. d = "schedule" => asked % BatchSize = 0
  <2>1. t = asked + 1 => t - 1 = asked
    OBVIOUS
  <2> QED
    BY <1>2, <2>1
<1>4. d = "failCache" => a + (RemoteNodes - asked) < MinAcks
  <2>1. t = RemoteNodes + 1 => asked = RemoteNodes
    OBVIOUS
  <2>2. /\ ~(a + (RemoteNodes - asked) >= MinAcks) => a + (RemoteNodes - asked) < MinAcks
        /\ asked = RemoteNodes /\ ~(a >= MinAcks) => a + (RemoteNodes - asked) < MinAcks
    OBVIOUS
  <2> QED
    BY <1>2, <2>1, <2>2
<1> QED
  BY <1>2, <1>3, <1>4

\* An answer that ends a round makes its request the token; any other only adds a row.
LEMMA AnswerKeepsToken ==
  ASSUME TypeOK, Regular, Token, NEW i \in Requests, stage[i] \in {"queued", "sent"},
         NEW outcome \in {"COMPLETED", "FAILED"}, ProcessResponse(i, outcome),
         UNCHANGED <<status, issued, node, left, jobs, minAcksReached>>
  PROVE  Token'
<1>0. PICK d : d = Decision(acks', acks' + nacks', left[i])
  OBVIOUS
<1>1. /\ i \in Commands /\ i # Local /\ i \in Issued /\ issued > 0 /\ Local \in Commands
      /\ NoJobs /\ status = "IN_PROGRESS" /\ Doing(Local) = "done"
      /\ \A j \in Commands : Doing(j) \notin TokenStages
  BY UnansweredFacts DEF Commands
<1>2. /\ d \in {"completeCache", "failCache", "schedule", "done"}
      /\ stage'[i] \in {"minAcks", d} /\ Doing(i)' = d
      /\ \A j \in Commands \ {i} : stage'[j] = stage[j] /\ Doing(j)' = Doing(j)
      /\ stage'[i] = "minAcks" => acks' >= MinAcks /\ after'[i] = d /\ d # "failCache"
      /\ \A j \in Commands \ {i} : after'[j] = after[j]
      /\ acks' \in {acks, acks + 1} /\ acks' + nacks' = acks + nacks + 1
      /\ acks \in Nat /\ nacks \in Nat /\ acks' \in Nat /\ nacks' \in Nat
  BY <1>0, <1>1, ResponseStages
<1>3. /\ issued \in Nat /\ issued <= RemoteNodes /\ issued <= MaxRequests
      /\ Issued' = Issued /\ Issued \subseteq Requests
  BY DEF Token, RequestsInOrder, TypeOK, ProtocolTypeOK, Issued, Requests
<1>4. PICK total \in Nat : total = acks' + nacks' /\ total = acks + nacks + 1 /\ total > 0
  <2>1. /\ acks \in Nat /\ nacks \in Nat /\ acks' \in Nat /\ nacks' \in Nat
        /\ acks' + nacks' = acks + nacks + 1
    BY <1>2
  <2>2. acks' + nacks' \in Nat /\ acks' + nacks' > 0
    BY <2>1, OneMore
  <2> QED
    BY <2>1, <2>2
<1>5. /\ left[i] = issued /\ total = 1 + Cardinality(AnsweredRequests')
      /\ (total - 1) % BatchSize = 0 \/ total = RemoteNodes + 1
           => /\ total = issued + 1
              /\ \A j \in Issued : stage'[j] \in Answered
  BY <1>1, <1>2, <1>4, RoundOver DEF Answered
<1>6. total <= issued + 1 /\ Cardinality(AnsweredRequests') \in Nat
  <2>1. AnsweredRequests' \subseteq 1 .. issued
    BY <1>3 DEF AnsweredRequests, Issued
  <2>2. IsFiniteSet(1 .. issued) /\ Cardinality(1 .. issued) = issued
    BY <1>3, FirstCardinality
  <2>3. Cardinality(AnsweredRequests') <= issued /\ Cardinality(AnsweredRequests') \in Nat
    BY <2>1, <2>2, FS_Subset, FS_CardinalityType
  <2> QED
    BY <1>3, <1>5, <2>3
<1>7. /\ d \in {"schedule", "failCache", "completeCache"} => total = issued + 1
      /\ d = "schedule" => issued % BatchSize = 0
      /\ d = "failCache" => acks' + (RemoteNodes - issued) < MinAcks
      /\ d = "completeCache" => issued = RemoteNodes /\ acks' >= MinAcks
  <2>1. d = Decision(acks', total, issued) /\ acks' \in Nat
    BY <1>0, <1>2, <1>4, <1>5
  <2>2. (total - 1) % BatchSize = 0 \/ total = RemoteNodes + 1 => total = issued + 1
    BY <1>5
  <2> QED
    BY <1>3, <1>4, <1>6, <2>1, <2>2, RoundDecision
<1>8. ASSUME d # "done", NEW j \in Commands \ {i}
      PROVE  Doing(j)' \in Idle
  <2>1. CASE j = Local
    BY <1>1, <1>2, <2>1 DEF Idle
  <2>2. CASE j \in Issued
    <3>1. stage'[j] \in Answered
      <4>1. Cardinality(AnsweredRequests') = issued
        <5>1. total = issued + 1
          BY <1>2, <1>7, <1>8
        <5> QED
          BY <1>3, <1>5, <1>6, <5>1
      <4>2. AnsweredRequests' = Issued
        <5>1. AnsweredRequests' \subseteq Issued
          BY <1>3 DEF AnsweredRequests
        <5>2. IsFiniteSet(Issued) /\ Cardinality(Issued) = issued
          BY <1>3, FirstCardinality DEF Issued
        <5> QED
          BY <4>1, <5>1, <5>2, FS_Subset
      <4> QED
        BY <2>2, <4>2 DEF AnsweredRequests
    <3>2. stage[j] \in Answered /\ Doing(j) \notin TokenStages
      BY <1>1, <1>2, <3>1
    <3>3. stage[j] = "minAcks" => after[j] \in {"schedule", "completeCache", "done"}
      BY DEF Token, ReachedIsCounted
    <3> QED
      BY <1>2, <3>2, <3>3 DEF Doing, Answered, TokenStages, CompleteStages, FailStages, Idle
  <2>3. CASE j # Local /\ j \notin Issued
    <3>1. j \in Requests /\ j > issued
      BY <1>3, <2>3 DEF Issued, Commands, Requests
    <3>2. stage[j] = "none"
      BY <3>1 DEF Token, RequestsInOrder
    <3> QED
      BY <1>2, <3>2 DEF Doing, Idle
  <2> QED
    BY <2>1, <2>2, <2>3
<1>9. RequestsInOrder'
  <2>1. /\ \A j \in Requests : stage'[j] = "none" <=> j > issued'
        /\ \A j \in Requests : stage'[j] \notin ChainStages \cup {"network", "skipped"}
    <3>1. stage'[i] \notin {"none", "network", "skipped"} \cup ChainStages /\ stage[i] # "none"
      BY <1>2 DEF ChainStages
    <3> QED
      BY <1>1, <1>2, <3>1 DEF Token, RequestsInOrder, Commands
  <2> QED
    BY <1>3, <1>4, <1>5, <2>1 DEF Token, RequestsInOrder
<1>10. NoJobs' /\ \A j \in Commands \ {i} : Doing(j)' \notin TokenStages
  BY <1>1, <1>2 DEF NoJobs
<1>11. ChainFirst'
  <2>1. stage'[Local] = stage[Local] /\ Doing(Local)' = "done" /\ stage[Local] \notin ChainStages
    BY <1>1, <1>2 DEF Doing, ChainStages
  <2> QED
    BY <2>1 DEF Token, ChainFirst
<1>12. LastBatch'
  <2>1. PICK prev \in 0 .. issued :
          /\ prev % BatchSize = 0 /\ issued <= prev + BatchSize
          /\ \A j \in 1 .. prev : stage[j] \in Answered
          /\ \A j \in prev + 1 .. issued : left[j] = issued
    BY DEF Token, LastBatch
  <2>2. \A j \in 1 .. prev : stage'[j] = stage[j]
    <3>1. \A j \in 1 .. prev : j # i
      BY <2>1 DEF Answered
    <3>2. \A j \in 1 .. prev : j \in Commands
      BY <1>3, <2>1 DEF Commands, Requests
    <3> QED
      BY <1>2, <3>1, <3>2
  <2> QED
    BY <2>1, <2>2 DEF LastBatch
<1>13. JobIsToken'
  BY <1>10 DEF JobIsToken, NoJobs
<1>14. TokenIsAlone'
  <2>1. ASSUME NEW j \in Commands, Doing(j)' \in TokenStages
        PROVE  j = i /\ d # "done"
    BY <1>2, <1>10, <2>1 DEF TokenStages, CompleteStages, FailStages
  <2> QED
    BY <1>8, <1>10, <2>1 DEF TokenIsAlone
<1>15. ScheduleFits' /\ FailFits' /\ CompleteFits'
  <2>1. ScheduleFits'
    <3>1. ASSUME NEW j \in Commands, Doing(j)' = "schedule"
          PROVE  j = i /\ d = "schedule"
      BY <1>2, <1>10, <3>1 DEF TokenStages
    <3>2. acks' + nacks' > 0 /\ status' = "IN_PROGRESS" /\ left'[i] = issued'
      BY <1>1, <1>4, <1>5
    <3> QED
      BY <1>7, <3>1, <3>2 DEF ScheduleFits
  <2>2. FailFits'
    BY <1>1, <1>2, <1>7, <1>10 DEF FailFits, Hopeless, TokenStages, FailStages
  <2>3. CompleteFits'
    BY <1>1, <1>2, <1>7, <1>10 DEF CompleteFits, TokenStages, CompleteStages
  <2> QED
    BY <2>1, <2>2, <2>3
<1>16. DecidedIsFinal'
  BY <1>1 DEF DecidedIsFinal
<1>17. ReachedIsCounted'
  <2>1. acks >= MinAcks => acks' >= MinAcks
    BY <1>2
  <2> QED
    BY <1>2, <2>1 DEF Token, ReachedIsCounted
<1> QED
  BY <1>9, <1>11, <1>12, <1>13, <1>14, <1>15, <1>16, <1>17 DEF Token

\* The node's own response is the first one; it starts the batches, or ends the
\* operation when there is nobody else, or too few others.
LEMMA SignKeepsToken ==
  ASSUME TypeOK, Regular, Token, stage[Local] = "local", ProcessResponse(Local, "COMPLETED"),
         UNCHANGED <<status, issued, node, left, jobs, minAcksReached>>
  PROVE  Token'
<1>0. PICK d : d = Decision(acks', acks' + nacks', left[Local])
  OBVIOUS
<1>1. /\ issued = 0 /\ acks = 0 /\ nacks = 0 /\ status = "IN_PROGRESS" /\ ~minAcksReached
      /\ NoJobs /\ left[Local] = 0 /\ Local \in Commands
      /\ \A j \in Commands \ {Local} : stage[j] = "none"
  BY ChainFacts DEF ChainStages, Commands
<1>2. /\ d \in {"completeCache", "failCache", "schedule", "done"}
      /\ stage'[Local] \in {"minAcks", d} /\ Doing(Local)' = d
      /\ \A j \in Commands \ {Local} : stage'[j] = "none" /\ Doing(j)' = "none"
      /\ stage'[Local] = "minAcks" => acks' >= MinAcks /\ after'[Local] = d /\ d # "failCache"
  <2>1. \A j \in Commands : j # Local => Doing(j) = "none"
    BY <1>1 DEF Doing
  <2> QED
    BY <1>0, <1>1, <2>1, ResponseStages
<1>3. acks' = 1 /\ nacks' = 0 /\ acks' + nacks' = 1
  BY <1>1 DEF ProcessResponse, RecordResponse
<1>4. NumberOfFoundNodes = RemoteNodes + 1
  BY DEF NumberOfFoundNodes, Regular
<1>5. /\ d # "done"
      /\ d = "failCache" => 1 + (RemoteNodes - 0) < MinAcks
      /\ d = "completeCache" => RemoteNodes = 0 /\ 1 >= MinAcks
  <2>1. d = Decision(1, 1, 0)
    BY <1>0, <1>1, <1>3
  <2>2. (1 - 1) % BatchSize = 0 /\ RemoteNodes - 0 = RemoteNodes
    BY ModZero
  <2>3. RemoteNodes > 0 \/ 1 = RemoteNodes + 1
    OBVIOUS
  <2>4. /\ d # "done"
        /\ d = "failCache" => ~(1 + (RemoteNodes - 0) >= MinAcks) \/ (1 = RemoteNodes + 1 /\ ~(1 >= MinAcks))
        /\ d = "completeCache" => 1 = RemoteNodes + 1 /\ 1 >= MinAcks
    BY <1>4, <2>1, <2>2, <2>3 DEF Decision
  <2> QED
    BY <2>4
<1>6. AnsweredRequests' = {} /\ Cardinality(AnsweredRequests') = 0
  BY <1>1, FS_EmptySet DEF AnsweredRequests, Issued
<1>7. RequestsInOrder'
  <2>1. \A j \in Requests : stage'[j] = "none" /\ j > 0
    BY <1>2 DEF Commands, Requests, Local
  <2> QED
    BY <1>1, <1>3, <1>6, <2>1 DEF RequestsInOrder, ChainStages, Issued
<1>8. NoJobs'
  BY <1>1 DEF NoJobs
<1>9. ChainFirst'
  BY <1>1, <1>2, <1>8 DEF ChainFirst, ChainStages, TokenStages, FailStages, CompleteStages
<1>10. LastBatch'
  BY <1>1, ModZero DEF LastBatch
<1>11. JobIsToken' /\ DecidedIsFinal'
  BY <1>1, <1>8 DEF JobIsToken, NoJobs, DecidedIsFinal
<1>12. TokenIsAlone'
  BY <1>2, <1>8 DEF TokenIsAlone, Idle, TokenStages, CompleteStages, FailStages
<1>13. ScheduleFits' /\ FailFits' /\ CompleteFits'
  BY <1>1, <1>2, <1>3, <1>5, ModZero
  DEF ScheduleFits, FailFits, CompleteFits, Hopeless, CompleteStages, FailStages
<1>14. ReachedIsCounted'
  BY <1>1, <1>2 DEF ReachedIsCounted
<1> QED
  BY <1>7, <1>9, <1>10, <1>11, <1>12, <1>13, <1>14 DEF Token

-----------------------------------------------------------------------------
(* Decisions                                                               *)

\* What every step of a command that holds the token leaves in order.
LEMMA TokenMoves ==
  ASSUME TypeOK, Token, NEW i \in Commands,
         NEW s \in CompleteStages \cup FailStages \cup {"done"},
         stage[i] \in TokenStages, Goto(i, s),
         UNCHANGED <<acks, nacks, issued, node, left, after, minAcksReached>>,
         jobs' = jobs \/ s = "done"
  PROVE  /\ RequestsInOrder' /\ ChainFirst' /\ LastBatch' /\ ReachedIsCounted'
         /\ Doing(i)' = s
         /\ \A j \in Commands \ {i} : Doing(j)' = Doing(j) /\ Doing(j) \in Idle
<1>1. /\ RequestsInOrder' /\ LastBatch' /\ stage'[i] = s
      /\ \A j \in Commands \ {i} : stage'[j] = stage[j]
  BY CountsKept DEF TokenStages, CompleteStages, FailStages, Stages, Answered
<1>2. Doing(i)' = s /\ Doing(i) = stage[i] /\ \A j \in Commands \ {i} : Doing(j)' = Doing(j)
  BY <1>1 DEF Doing, TokenStages, CompleteStages, FailStages
<1>3. NoJobs /\ \A j \in Commands \ {i} : Doing(j) \in Idle
  BY <1>2 DEF Token, TokenIsAlone
<1>4. ReachedIsCounted'
  BY <1>1 DEF Token, ReachedIsCounted, CompleteStages, FailStages
<1>5. ChainFirst'
  <2>1. CASE i = Local
    <3>1. stage'[Local] = s /\ Doing(Local)' = s /\ Doing(Local) # "done" /\ s \notin ChainStages
      BY <1>1, <1>2, <2>1 DEF TokenStages, CompleteStages, FailStages, ChainStages
    <3>2. s # "done" => NoJobs'
      BY <1>3 DEF NoJobs
    <3> QED
      BY <3>1, <3>2 DEF Token, ChainFirst, TokenStages
  <2>2. CASE i # Local
    <3>1. Local \in Commands /\ stage'[Local] = stage[Local] /\ Doing(Local)' = Doing(Local)
      BY <1>1, <1>2, <2>2 DEF Commands
    <3>2. Doing(Local) = "done" /\ stage[Local] \notin ChainStages
      <4>1. Doing(Local) \in Idle /\ stage[Local] # "none"
        BY <1>3, <2>2, <3>1 DEF Token, ChainFirst, ChainStages, TokenStages, CompleteStages,
                                FailStages
      <4>2. Doing(Local) # "none"
        BY <4>1, <3>1 DEF Doing, Token, ReachedIsCounted
      <4> QED
        BY <4>1, <4>2 DEF Idle, Doing, ChainStages
    <3> QED
      BY <3>1, <3>2 DEF Token, ChainFirst
  <2> QED
    BY <2>1, <2>2
<1> QED
  BY <1>1, <1>2, <1>3, <1>4, <1>5

LEMMA ScheduleKeepsToken ==
  ASSUME TypeOK, Token, NEW i \in Commands, ScheduleLeftover(i), UNCHANGED publishVars
  PROVE  Token'
<1>1. /\ stage[i] = "schedule" /\ Goto(i, "done") /\ Doing(i) = "schedule"
      /\ jobs' = [jobs EXCEPT ![left[i]] = @ + 1]
      /\ UNCHANGED <<status, acks, nacks, issued, node, left, after, minAcksReached>>
  BY DEF ScheduleLeftover, Doing, publishVars
<1>2. /\ left[i] = issued /\ issued % BatchSize = 0 /\ NoJobs /\ status = "IN_PROGRESS"
      /\ acks + nacks > 0
  BY <1>1 DEF Token, ScheduleFits, TokenIsAlone, TokenStages
<1>3. /\ RequestsInOrder' /\ ChainFirst' /\ LastBatch' /\ ReachedIsCounted'
      /\ Doing(i)' = "done"
      /\ \A j \in Commands \ {i} : Doing(j)' = Doing(j) /\ Doing(j) \in Idle
  BY <1>1, TokenMoves DEF TokenStages
<1>4. \A j \in Commands : Doing(j)' \in Idle
  BY <1>3 DEF Idle
<1>5. \A p \in Positions : jobs'[p] > 0 => p = issued /\ jobs'[p] = 1
  BY <1>1, <1>2 DEF NoJobs, TypeOK, ProtocolTypeOK
<1>6. JobIsToken'
  BY <1>1, <1>2, <1>4, <1>5 DEF JobIsToken
<1>7. TokenIsAlone' /\ ScheduleFits' /\ FailFits' /\ CompleteFits'
  BY <1>4 DEF TokenIsAlone, ScheduleFits, FailFits, CompleteFits, Idle, TokenStages, FailStages,
               CompleteStages
<1>8. DecidedIsFinal'
  BY <1>1, <1>2 DEF DecidedIsFinal
<1> QED
  BY <1>3, <1>6, <1>7, <1>8 DEF Token

LEMMA FailKeepsToken ==
  ASSUME TypeOK, Token, NEW i \in Commands, FailCache(i) \/ FailStatus(i) \/ FailId(i),
         UNCHANGED publishVars
  PROVE  Token'
<1>1. PICK s \in {"failStatus", "failId", "done"} :
        /\ Goto(i, s)
        /\ \/ stage[i] = "failCache" /\ s = "failStatus" /\ status' = status
           \/ stage[i] = "failStatus" /\ s = "failId" /\ status' = "FAILED"
           \/ stage[i] = "failId" /\ s = "done" /\ status' = status
  BY DEF FailCache, FailStatus, FailId
<1>2. Doing(i) = stage[i] /\ stage[i] \in FailStages /\ stage[i] \in TokenStages
  BY <1>1 DEF Doing, TokenStages, FailStages
<1>3. /\ NoJobs /\ status = IF stage[i] = "failId" THEN "FAILED" ELSE "IN_PROGRESS"
      /\ acks + nacks > 0 => Hopeless
  BY <1>2 DEF Token, FailFits, TokenIsAlone
<1>4. UNCHANGED <<acks, nacks, issued, node, left, jobs, after, minAcksReached>>
  BY DEF FailCache, FailStatus, FailId, publishVars
<1>5. /\ RequestsInOrder' /\ ChainFirst' /\ LastBatch' /\ ReachedIsCounted'
      /\ Doing(i)' = s
      /\ \A j \in Commands \ {i} : Doing(j)' \in Idle
  <2>1. /\ RequestsInOrder' /\ ChainFirst' /\ LastBatch' /\ ReachedIsCounted'
        /\ Doing(i)' = s
        /\ \A j \in Commands \ {i} : Doing(j)' = Doing(j) /\ Doing(j) \in Idle
    BY <1>1, <1>2, <1>4, TokenMoves DEF FailStages
  <2> QED
    BY <2>1
<1>6. NoJobs' /\ Hopeless' = Hopeless
  BY <1>3, <1>4 DEF NoJobs, Hopeless
<1>7. status' = IF s = "failStatus" THEN "IN_PROGRESS" ELSE "FAILED"
  BY <1>1, <1>3
<1>8. JobIsToken' /\ TokenIsAlone' /\ ScheduleFits' /\ CompleteFits'
  BY <1>1, <1>5, <1>6
  DEF JobIsToken, TokenIsAlone, ScheduleFits, CompleteFits, NoJobs, TokenStages, FailStages,
      CompleteStages, Idle
<1>9. FailFits' /\ DecidedIsFinal'
  BY <1>1, <1>3, <1>4, <1>5, <1>6, <1>7 DEF FailFits, DecidedIsFinal, FailStages, Idle
<1> QED
  BY <1>5, <1>8, <1>9 DEF Token

LEMMA CompleteKeepsToken ==
  ASSUME TypeOK, Token, NEW i \in Commands,
         CompleteCache(i, "none") \/ CompleteStatus(i) \/ CompleteId(i),
         UNCHANGED publishVars
  PROVE  Token'
<1>1. PICK s \in {"completeStatus", "completeId", "done"} :
        /\ Goto(i, s)
        /\ \/ stage[i] = "completeCache" /\ s = "completeStatus" /\ status' = status
           \/ stage[i] = "completeStatus" /\ s = "completeId" /\ status' = "COMPLETED"
           \/ stage[i] = "completeId" /\ s = "done" /\ status' = status
  BY DEF CompleteCache, CompleteStatus, CompleteId
<1>2. Doing(i) = stage[i] /\ stage[i] \in CompleteStages /\ stage[i] \in TokenStages
  BY <1>1 DEF Doing, TokenStages, CompleteStages
<1>3. /\ NoJobs /\ status = IF stage[i] = "completeId" THEN "COMPLETED" ELSE "IN_PROGRESS"
      /\ issued = RemoteNodes /\ acks >= MinAcks
  BY <1>2 DEF Token, CompleteFits, TokenIsAlone
<1>4. UNCHANGED <<acks, nacks, issued, node, left, jobs, after, minAcksReached>>
  BY DEF CompleteCache, CompleteStatus, CompleteId, publishVars
<1>5. /\ RequestsInOrder' /\ ChainFirst' /\ LastBatch' /\ ReachedIsCounted'
      /\ Doing(i)' = s
      /\ \A j \in Commands \ {i} : Doing(j)' \in Idle
  <2>1. /\ RequestsInOrder' /\ ChainFirst' /\ LastBatch' /\ ReachedIsCounted'
        /\ Doing(i)' = s
        /\ \A j \in Commands \ {i} : Doing(j)' = Doing(j) /\ Doing(j) \in Idle
    BY <1>1, <1>2, <1>4, TokenMoves DEF CompleteStages
  <2> QED
    BY <2>1
<1>6. NoJobs'
  BY <1>3, <1>4 DEF NoJobs
<1>7. status' = IF s = "completeStatus" THEN "IN_PROGRESS" ELSE "COMPLETED"
  BY <1>1, <1>3
<1>8. JobIsToken' /\ TokenIsAlone' /\ ScheduleFits' /\ FailFits'
  BY <1>1, <1>5, <1>6
  DEF JobIsToken, TokenIsAlone, ScheduleFits, FailFits, NoJobs, TokenStages, FailStages,
      CompleteStages, Idle
<1>9. CompleteFits' /\ DecidedIsFinal'
  BY <1>1, <1>3, <1>4, <1>5, <1>6, <1>7 DEF CompleteFits, DecidedIsFinal, CompleteStages, Idle
<1> QED
  BY <1>5, <1>8, <1>9 DEF Token

\* Every step of a publish of the current version in the shard.
LEMMA TokenStep ==
  ASSUME TypeOK, Regular, Token, [Next]_vars
  PROVE  Token'
<1>1. CASE FindShard(NextInSequence) /\ UNCHANGED publishVars
  <2>1. /\ stage[Local] \in ChainStages /\ \E s \in {"validate", "done"} : Goto(Local, s)
        /\ UNCHANGED <<status, acks, nacks, issued, node, left, jobs, after, minAcksReached>>
    BY <1>1 DEF FindShard, NextInSequence, Regular, ChainStages, publishVars
  <2> QED
    BY <2>1, ChainKeepsToken
<1>2. CASE Validate("local") /\ UNCHANGED publishVars
  <2>1. /\ stage[Local] \in ChainStages /\ \E s \in {"failCache", "local"} : Goto(Local, s)
        /\ UNCHANGED <<status, acks, nacks, issued, node, left, jobs, after, minAcksReached>>
    BY <1>2 DEF Validate, ChainStages, publishVars
  <2> QED
    BY <2>1, ChainKeepsToken
<1>3. CASE LocalStore
  <2>1. CASE SignAsPublisher
    BY <1>3, <2>1, SignKeepsToken DEF LocalStore, SignAsPublisher, Regular
  <2>2. CASE LocalStoreFails
    BY <1>3, <2>2, ChainKeepsToken DEF LocalStore, LocalStoreFails, ChainStages
  <2> QED
    BY <1>3, <2>1, <2>2 DEF LocalStore
<1>4. ~StartNetwork
  BY DEF StartNetwork, Token, ChainFirst, ChainStages, TokenStages, CompleteStages, FailStages
<1>5. ASSUME NEW p \in Positions, BatchStep(p)
      PROVE  Token'
  BY <1>5, BatchKeepsToken DEF BatchStep
<1>6. CASE EndEventStep \/ UNCHANGED vars
  <2>1. UNCHANGED <<status, acks, nacks, issued, stage, node, left, jobs, after, minAcksReached>>
    BY <1>6 DEF EndEventStep, WriteEndEvent, vars, protocolVars, publishVars
  <2>2. /\ NoJobs' = NoJobs /\ Hopeless' = Hopeless /\ AnsweredRequests' = AnsweredRequests
        /\ Issued' = Issued /\ \A i \in Commands : Doing(i)' = Doing(i)
    BY <2>1 DEF NoJobs, Hopeless, AnsweredRequests, Issued, Doing
  <2>3. RequestsInOrder' /\ LastBatch' /\ ReachedIsCounted'
    BY <2>1, <2>2 DEF Token, RequestsInOrder, LastBatch, ReachedIsCounted
  <2>4. ChainFirst' /\ JobIsToken' /\ TokenIsAlone'
    BY <2>1, <2>2 DEF Token, ChainFirst, JobIsToken, TokenIsAlone, Commands
  <2>5. ScheduleFits' /\ FailFits' /\ CompleteFits' /\ DecidedIsFinal'
    BY <2>1, <2>2 DEF Token, ScheduleFits, FailFits, CompleteFits, DecidedIsFinal
  <2> QED
    BY <2>3, <2>4, <2>5 DEF Token
<1>7. ASSUME NEW i \in Requests, RequestStep(i)
      PROVE  Token'
  <2>0. \/ Dispatch(i) \/ DispatchFails(i) \/ (BusyAgain(i) /\ UNCHANGED publishVars)
        \/ \E outcome \in {"COMPLETED", "FAILED"} : Answer(i, outcome)
    BY <1>7 DEF RequestStep
  <2>1. CASE Dispatch(i)
    BY <2>1, UnansweredKeepsToken DEF Dispatch, publishVars
  <2>4. CASE BusyAgain(i) /\ UNCHANGED publishVars
    BY <2>4, UnansweredKeepsToken DEF BusyAgain, publishVars
  <2>2. CASE DispatchFails(i)
    <3>1. CASE ProcessResponse(i, "FAILED")
      BY <2>2, <3>1, AnswerKeepsToken DEF DispatchFails
    <3>2. CASE UNCHANGED <<acks, nacks, stage, after>>
      <4>1. Goto(i, "queued")
        BY <2>2, <3>2 DEF DispatchFails, Goto, TypeOK, ProtocolTypeOK, Commands
      <4> QED
        BY <2>2, <3>2, <4>1, UnansweredKeepsToken DEF DispatchFails
    <3> QED
      BY <2>2, <3>1, <3>2 DEF DispatchFails
  <2>3. ASSUME NEW outcome \in {"COMPLETED", "FAILED"}, Answer(i, outcome)
        PROVE  Token'
    BY <2>3, AnswerKeepsToken DEF Answer, RequestOutcome
  <2> QED
    BY <2>0, <2>1, <2>2, <2>3, <2>4
<1>8. ASSUME NEW i \in Commands, DecisionStep(i)
      PROVE  Token'
  BY <1>8, SetMinKeepsToken, ScheduleKeepsToken, FailKeepsToken, CompleteKeepsToken
  DEF DecisionStep, AfterDecision
<1> QED
  BY <1>1, <1>2, <1>3, <1>4, <1>5, <1>6, <1>7, <1>8 DEF Next, ChainStep

LEMMA PublishInit == Init => IInv
<1> SUFFICES ASSUME Init
             PROVE  IInv
  OBVIOUS
<1>1. TypeOK
  <2>1. isOperationV0 \in BOOLEAN
    BY DEF Init, PublishV0, PublishV1
  <2>2. stage \in [Commands -> Stages] /\ after \in [Commands -> Answered]
    BY DEF Init, ProtocolInit, Stages, Answered
  <2>3. /\ node \in [Commands -> Positions] /\ left \in [Commands -> Positions]
        /\ retries \in [Requests -> Nat] /\ jobs \in [Positions -> Nat]
    BY DEF Init, ProtocolInit, Positions
  <2>4. ProtocolTypeOK
    BY <2>2, <2>3 DEF Init, ProtocolInit, ProtocolTypeOK
  <2>5. minAcksReached \in BOOLEAN
    BY DEF Init
  <2> QED
    BY <2>1, <2>2, <2>4, <2>5, Zenon DEF TypeOK
<1>2. /\ issued = 0 /\ acks = 0 /\ nacks = 0 /\ status = "IN_PROGRESS" /\ NoJobs
      /\ ~minAcksReached /\ stage[Local] = "findShard" /\ left[Local] = 0
      /\ \A i \in Requests : stage[i] = "none"
  BY DEF Init, ProtocolInit, NoJobs, Commands, Requests, Local, Positions
<1>3. \A i \in Commands : stage[i] \in {"findShard", "none"} /\ Doing(i) \in {"findShard", "none"}
  BY <1>2 DEF Commands, Doing
<1>4. RequestsInOrder
  BY <1>2 DEF RequestsInOrder, ChainStages, Requests, Issued
<1>5. ChainFirst /\ LastBatch
  BY <1>2, ModZero DEF ChainFirst, LastBatch, ChainStages
<1>6. JobIsToken /\ TokenIsAlone /\ ScheduleFits /\ FailFits /\ CompleteFits
  BY <1>2, <1>3 DEF JobIsToken, TokenIsAlone, ScheduleFits, FailFits, CompleteFits, NoJobs,
                    TokenStages, FailStages, CompleteStages
<1>7. DecidedIsFinal /\ ReachedIsCounted
  BY <1>2, <1>3 DEF DecidedIsFinal, ReachedIsCounted
<1> QED
  BY <1>1, <1>4, <1>5, <1>6, <1>7 DEF IInv, Token

\* The version of a publish is fixed when it is accepted.
LEMMA RegularStays ==
  ASSUME [Next]_vars
  PROVE  Regular' = Regular
<1>1. UNCHANGED isOperationV0
  BY DEF Next, vars, publishVars, ChainStep, BatchStep, EndEventStep, RequestStep, DecisionStep,
         LocalStore, Dispatch, DispatchFails, Answer, SetMinAcksReached
<1> QED
  BY <1>1 DEF Regular

LEMMA PublishInvariant == Spec => []IInv
<1>1. IInv /\ [Next]_vars => IInv'
  BY TypeStep, TokenStep, RegularStays DEF IInv
<1> QED
  BY PublishInit, <1>1, PTL DEF Spec

-----------------------------------------------------------------------------
(* The theorems                                                            *)

(* The types of the rows, commands and queues of a publish of either       *)
(* version, in the shard and outside.                                      *)
THEOREM PublishTypeCorrect == Spec => []TypeOK
<1>1. IInv => TypeOK
  BY DEF IInv
<1> QED
  BY PublishInvariant, <1>1, PTL

(* A node of the shard writes COMPLETED only after every other node of the *)
(* shard was asked and has answered (publish-service.js:74).               *)
THEOREM PublishCompletedAfterAll == Spec => [](SelfInShard => CompletedAfterAll)
<1>1. IInv => (SelfInShard => CompletedAfterAll)
  <2> SUFFICES ASSUME IInv, SelfInShard, ~isOperationV0, status = "COMPLETED"
               PROVE  issued = RemoteNodes /\ Outstanding = {}
    BY DEF CompletedAfterAll
  <2>1. issued = RemoteNodes /\ \A j \in Commands : Doing(j) \in Idle \cup {"completeId"}
    BY DEF IInv, Regular, Token, DecidedIsFinal
  <2>2. ASSUME NEW i \in Requests, stage[i] \in {"queued", "sent"}
        PROVE  FALSE
    BY <2>1, <2>2 DEF Commands, Doing, Idle
  <2> QED
    BY <2>1, <2>2 DEF Outstanding
<1> QED
  BY PublishInvariant, <1>1, PTL

(* A client that was told of the minimum is not told of a failure by a     *)
(* later response, however the two updates interleave                      *)
(* (publish-service.js:66-95).                                             *)
THEOREM PublishAcksReachedNotFailed == Spec => [](SelfInShard => AcksReachedNotFailed)
<1>1. IInv => (SelfInShard => AcksReachedNotFailed)
  <2> SUFFICES ASSUME IInv, SelfInShard, ~isOperationV0, minAcksReached, status = "FAILED"
               PROVE  FALSE
    BY DEF AcksReachedNotFailed
  <2>1. acks >= MinAcks /\ (acks + nacks > 0 => Hopeless)
    BY DEF IInv, Regular, Token, DecidedIsFinal, ReachedIsCounted
  <2>2. acks \in Nat /\ nacks \in Nat /\ issued \in Nat /\ issued <= RemoteNodes
    BY DEF IInv, Regular, Token, RequestsInOrder, TypeOK, ProtocolTypeOK
  <2> QED
    BY <2>1, <2>2 DEF Hopeless
<1> QED
  BY PublishInvariant, <1>1, PTL

(* A publish that recorded a response fails only when the nodes it did not *)
(* ask cannot make up the missing signatures, and nobody is being asked.   *)
THEOREM PublishFailedOnlyIfHopeless == Spec => [](SelfInShard => FailedOnlyIfHopeless)
<1>1. IInv => (SelfInShard => FailedOnlyIfHopeless)
  <2> SUFFICES ASSUME IInv, SelfInShard, ~isOperationV0, status = "FAILED", acks + nacks > 0
               PROVE  acks + (RemoteNodes - issued) < MinAcks /\ Outstanding = {}
    BY DEF FailedOnlyIfHopeless
  <2>1. Hopeless /\ \A j \in Commands : Doing(j) \in Idle \cup {"failId"}
    BY DEF IInv, Regular, Token, DecidedIsFinal
  <2>2. ASSUME NEW i \in Requests, stage[i] \in {"queued", "sent"}
        PROVE  FALSE
    BY <2>1, <2>2 DEF Commands, Doing, Idle
  <2> QED
    BY <2>1, <2>2 DEF Outstanding, Hopeless
<1> QED
  BY PublishInvariant, <1>1, PTL

(* No node is asked twice for its signature: each request goes to a node   *)
(* of its own, however many batches were scheduled.                        *)
PublishAsksOnce ==
  Regular => \A i, j \in Issued : node[i] = node[j] => i = j

THEOREM PublishAskedOnce == Spec => []PublishAsksOnce
<1>1. IInv => PublishAsksOnce
  BY DEF IInv, Token, RequestsInOrder, PublishAsksOnce
<1> QED
  BY PublishInvariant, <1>1, PTL

(* The status of the operation row is decided once: a late response, a     *)
(* second batch or another command never changes what it says.             *)
StatusIsFinal == Regular /\ status # "IN_PROGRESS" => status' = status

THEOREM PublishDecidedOnce == Spec => [][StatusIsFinal]_vars
<1>1. ASSUME IInv, [Next]_vars, Regular, status # "IN_PROGRESS"
      PROVE  status' = status
  <2>1. ASSUME NEW i \in Commands, DecisionStep(i)
        PROVE  status' = status
    <3>1. Doing(i) \in Idle \cup {"failId", "completeId"}
      BY <1>1 DEF IInv, TypeOK, ProtocolTypeOK, Token, DecidedIsFinal
    <3>2. stage[i] \notin {"completeStatus", "failStatus"}
      BY <3>1 DEF Doing, Idle
    <3> QED
      BY <2>1, <3>2 DEF DecisionStep, SetMinAcksReached, AfterDecision, ScheduleLeftover,
                        CompleteCache, CompleteStatus, CompleteId, FailCache, FailStatus, FailId
  <2>2. CASE ChainStep
    BY <2>2 DEF ChainStep, FindShard, Validate, LocalStore, StartNetwork
  <2>3. ASSUME NEW p \in Positions, BatchStep(p)
        PROVE  status' = status
    BY <2>3 DEF BatchStep, ScheduleMessages
  <2>4. CASE EndEventStep \/ UNCHANGED vars
    BY <2>4 DEF EndEventStep, WriteEndEvent, vars, protocolVars
  <2>5. ASSUME NEW i \in Requests, RequestStep(i)
        PROVE  status' = status
    BY <2>5 DEF RequestStep, Dispatch, DispatchFails, BusyAgain, Answer
  <2> QED
    BY <1>1, <2>1, <2>2, <2>3, <2>4, <2>5 DEF Next
<1>2. IInv /\ [Next]_vars => [StatusIsFinal]_vars
  BY <1>1 DEF StatusIsFinal
<1> QED
  BY PublishInvariant, <1>2, PTL DEF Spec

=============================================================================
