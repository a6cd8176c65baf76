-------------------------- MODULE GetOperationProofs --------------------------
(***************************************************************************)
(* Proofs about the get operation, for every shard size, batch size,       *)
(* minimum number of answers and number of retries.                        *)
(***************************************************************************)
EXTENDS GetOperation, FiniteSetTheorems, TLAPS

USE RemoteNodesAssumption, SelfAssumption, BatchAssumption, MinAcksAssumption,
    RetriesAssumption, RequestsAssumption

-----------------------------------------------------------------------------
(* Batches and remainders                                                  *)

LEMMA NatSum ==
  ASSUME NEW a \in Nat, NEW b \in Nat
  PROVE  a + b \in Nat
  OBVIOUS

LEMMA OutOfReach ==
  ASSUME NEW a \in Nat, NEW r \in Nat, NEW m \in Nat, a < m, r > 0 => ~(a + r >= m)
  PROVE  a + r < m
  OBVIOUS

LEMMA ModZero ==
  ASSUME NEW b \in Nat \ {0}
  PROVE  0 % b = 0
  BY SMT

LEMMA Multiple ==
  ASSUME NEW b \in Nat \ {0}, NEW a \in Nat, a % b = 0
  PROVE  \E q \in Nat : a = b * q
  BY SMT

\* The only multiple of the batch size among the positions of a batch is its end.
LEMMA BlockEnd ==
  ASSUME NEW b \in Nat \ {0}, NEW p \in Nat, NEW t \in Nat,
         p % b = 0, t % b = 0, p < t, t <= p + b
  PROVE  t = p + b
<1>1. PICK q \in Nat : p = b * q
  BY Multiple
<1>2. PICK r \in Nat : t = b * r
  BY Multiple
<1>3. q + 1 <= r
  <2>1. b * q < b * r
    BY <1>1, <1>2
  <2> QED
    BY <2>1, SMT
<1>4. b * (q + 1) <= b * r
  BY <1>3, SMT
<1>5. b * (q + 1) = b * q + b
  BY SMT
<1> QED
  BY <1>1, <1>2, <1>4, <1>5

\* A number of answers that ends a batch, above all the batches before the last one,
\* is the number of requests.
LEMMA RoundEnd ==
  ASSUME NEW b \in Nat \ {0}, NEW prev \in Nat, NEW n \in Nat, NEW total \in Nat,
         prev % b = 0, total % b = 0, prev < total, total <= n, n <= prev + b
  PROVE  total = n
<1>1. total <= prev + b
  OBVIOUS
<1>2. total = prev + b
  BY <1>1, BlockEnd
<1> QED
  BY <1>2

\* The first n requests are n requests.
LEMMA FirstCardinality ==
  ASSUME NEW n \in Nat
  PROVE  IsFiniteSet(1 .. n) /\ Cardinality(1 .. n) = n
<1>1. IsFiniteSet(1 .. n) /\ Cardinality(1 .. n) = IF 1 > n THEN 0 ELSE n - 1 + 1
  BY FS_Interval
<1> QED
  BY <1>1

-----------------------------------------------------------------------------
(* Types                                                                   *)

\* The end of a batch is a position of the shard list.
LEMMA BatchEndType ==
  ASSUME NEW p \in Positions
  PROVE  /\ BatchEnd(p) \in Positions
         /\ p <= BatchEnd(p) /\ BatchEnd(p) <= p + BatchSize
         /\ BatchEnd(p) = p + BatchSize \/ BatchEnd(p) = RemoteNodes
  BY DEF BatchEnd, Positions

\* Every step keeps every variable in its set.
LEMMA TypeStep ==
  ASSUME TypeOK, [Next]_vars
  PROVE  TypeOK'
<1> USE DEF TypeOK, ProtocolTypeOK, Goto, Stages
<1>1. CASE Validate("findShard")
  BY <1>1 DEF Validate, Commands
<1>2. CASE FindShard("local")
  BY <1>2 DEF FindShard, Commands
<1>3. CASE LocalGet
  BY <1>3 DEF LocalGet, Commands
<1>4. CASE StartNetwork
  BY <1>4 DEF StartNetwork, Commands, Positions
<1>5. ASSUME NEW p \in Positions, ScheduleMessages(p)
      PROVE  TypeOK'
  <2>1. /\ BatchEnd(p) \in 0 .. RemoteNodes /\ p <= BatchEnd(p)
        /\ p \in 0 .. RemoteNodes
    BY BatchEndType DEF Positions
  <2>2. issued' \in 0 .. MaxRequests /\ ending' \in Nat /\ idStatus' = "PENDING"
    BY <1>5, <2>1 DEF ScheduleMessages
  <2>3. stage' \in [Commands -> Stages]
    BY <1>5 DEF ScheduleMessages
  <2>4. node' \in [Commands -> Positions]
    <3>1. ASSUME NEW i \in issued + 1 .. issued + (BatchEnd(p) - p)
          PROVE  p + (i - issued) \in 0 .. RemoteNodes
      BY <2>1
    <3>2. \A i \in Commands : i \in issued + 1 .. issued + (BatchEnd(p) - p)
                               => p + (i - issued) \in Positions
      BY <3>1 DEF Positions
    <3> QED
      BY <1>5, <3>2 DEF ScheduleMessages
  <2>5. left' \in [Commands -> Positions]
    BY <1>5, <2>1 DEF ScheduleMessages, Positions
  <2>6. jobs' \in [Positions -> Nat]
    BY <1>5 DEF ScheduleMessages
  <2> QED
    BY <1>5, <2>2, <2>3, <2>4, <2>5, <2>6 DEF ScheduleMessages
<1>6. CASE WriteEndEvent
  BY <1>6 DEF WriteEndEvent
<1>7. ASSUME NEW i \in Requests, Dispatch(i)
      PROVE  TypeOK'
  BY <1>7 DEF Dispatch, Commands
<1>8. ASSUME NEW i \in Requests, BusyAgain(i)
      PROVE  TypeOK'
  BY <1>8 DEF BusyAgain, Commands
<1>9. ASSUME NEW i \in Requests, NEW outcome \in {"COMPLETED", "FAILED"},
             Answer(i, outcome)
      PROVE  TypeOK'
  BY <1>9 DEF Answer, RecordResponse, Decision, Commands
<1>10. ASSUME NEW i \in Commands, AfterDecision(i, "result")
       PROVE  TypeOK'
  BY <1>10 DEF AfterDecision, ScheduleLeftover, CompleteCache, CompleteStatus,
               CompleteId, FailCache, FailStatus, FailId
<1>11. CASE UNCHANGED vars
  BY <1>11 DEF vars, protocolVars
<1> QED
  BY <1>1, <1>2, <1>3, <1>4, <1>5, <1>6, <1>7, <1>8, <1>9, <1>10, <1>11
  DEF Next, RequestStep

\* The rows, counters and commands of a get stay in their sets, whatever the order in
\* which its commands run and its nodes answer.
THEOREM GetTypeCorrect == Spec => []TypeOK
<1>1. Init => TypeOK
  BY DEF Init, ProtocolInit, TypeOK, ProtocolTypeOK, Stages, Commands, Requests,
         Positions, Local
<1>2. TypeOK /\ [Next]_vars => TypeOK'
  BY TypeStep
<1> QED
  BY <1>1, <1>2, PTL DEF Spec

-----------------------------------------------------------------------------
(* One decision at a time                                                  *)

\* While the chain of local commands is at work there is nothing else.
LEMMA ChainFacts ==
  ASSUME OneToken, stage[Local] \in ChainStages
  PROVE  /\ issued = 0 /\ acks = 0 /\ nacks = 0 /\ acks < MinAcks
         /\ NoJobs /\ Undecided
         /\ \A j \in Commands \ {Local} : stage[j] = "none"
  BY DEF OneToken, TypeOK, ProtocolTypeOK, RequestsInOrder, ChainFirst, ChainStages,
         Commands, Requests

\* A step that moves one command between stages of the same kind, and nothing that the
\* requests are counted by, keeps the requests in order.
LEMMA OrderKept ==
  ASSUME OneToken, NEW i \in Commands, NEW s \in Stages,
         Goto(i, s), UNCHANGED <<issued, node, acks, nacks>>,
         cache' # "input", i = Local \/ s \in Answered,
         i = Local \/ stage[i] \in Answered, s \notin ChainStages \cup {"minAcks"} \/ i = Local
  PROVE  RequestsInOrder'
<1> USE DEF OneToken, TypeOK, ProtocolTypeOK, RequestsInOrder, Goto
<1>1. /\ issued' <= RemoteNodes /\ cache' # "input"
      /\ \A j \in Issued' : node'[j] = j
  BY DEF Issued
<1>2. /\ \A j \in Requests : stage'[j] = "none" <=> j > issued'
      /\ \A j \in Requests : stage'[j] \notin ChainStages \cup {"minAcks"}
  BY SMTT(30) DEF Commands, Requests, Local, Answered, ChainStages
<1>3. AnsweredRequests' = AnsweredRequests
  <2>1. Issued' = Issued /\ Issued \subseteq Requests
    BY DEF Issued, Requests
  <2>2. \A j \in Requests : stage'[j] \in Answered <=> stage[j] \in Answered
    BY DEF Commands, Requests, Local, Answered
  <2> QED
    BY <2>1, <2>2 DEF AnsweredRequests
<1> QED
  BY <1>1, <1>2, <1>3

\* The commands of the local chain.
LEMMA ChainKeepsToken ==
  ASSUME OneToken, TypeOK',
         Validate("findShard") \/ FindShard("local") \/ LocalGet \/ StartNetwork
  PROVE  OneToken'
<1>0. stage[Local] \in ChainStages
  BY DEF Validate, FindShard, LocalGet, StartNetwork, ChainStages
<1>1. PICK s \in ChainStages \cup {"completeCache", "failCache", "done"} :
         stage' = [stage EXCEPT ![Local] = s]
  BY DEF Validate, FindShard, LocalGet, StartNetwork, Goto, ChainStages
<1>2. /\ cache' = "none" /\ UNCHANGED <<status, acks, nacks, issued, node, left>>
      /\ \/ jobs' = jobs
         \/ s = "done" /\ jobs' = [jobs EXCEPT ![0] = @ + 1]
  BY <1>0, <1>1, ChainFacts
  DEF Validate, FindShard, LocalGet, StartNetwork, Undecided, Goto, Commands, Local,
      OneToken, TypeOK, ProtocolTypeOK
<1>3. /\ stage'[Local] = s
      /\ \A j \in Commands \ {Local} : stage'[j] = "none"
  BY <1>0, <1>1, ChainFacts DEF OneToken, TypeOK, ProtocolTypeOK, Commands
<1>4. RequestsInOrder'
  BY <1>0, <1>1, <1>2, OrderKept
  DEF Goto, Stages, ChainStages, Commands
<1>5. ChainFirst' /\ LastBatch'
  BY <1>0, <1>1, <1>2, <1>3, ChainFacts
  DEF ChainFirst, LastBatch, NoJobs, Undecided, OneToken, TypeOK, ProtocolTypeOK,
      CompleteStages, FailStages, ChainStages
<1>6. JobIsToken'
  <2>1. \A p \in Positions : jobs'[p] > 0 => p = 0 /\ jobs'[p] = 1 /\ s = "done"
    BY <1>0, <1>2, ChainFacts, SMTT(30) DEF NoJobs, Positions, OneToken, TypeOK, ProtocolTypeOK
  <2>2. s = "done" => \A j \in Commands : stage'[j] \in Idle
    BY <1>3 DEF Idle
  <2> QED
    BY <1>0, <1>2, <2>1, <2>2, ChainFacts, ModZero DEF JobIsToken, Undecided
<1>7. ScheduleIsToken' /\ FailIsToken' /\ CompleteIsToken'
  BY <1>0, <1>1, <1>2, <1>3, ChainFacts
  DEF ScheduleIsToken, FailIsToken, CompleteIsToken, NoJobs, Undecided, Idle, OthersIdle,
      FailStages, CompleteStages, ChainStages
<1>8. DecidedIsFinal'
  BY <1>0, <1>2, ChainFacts DEF DecidedIsFinal, Undecided
<1> QED
  BY <1>4, <1>5, <1>6, <1>7, <1>8 DEF OneToken

\* A batch is scheduled by the only token there is: all requests before it are done.
LEMMA BatchKeepsToken ==
  ASSUME OneToken, TypeOK', NEW p \in Positions, ScheduleMessages(p)
  PROVE  OneToken'
<1> USE DEF OneToken, TypeOK, ProtocolTypeOK
<1> DEFINE new == issued + 1 .. issued'
<1>1. /\ p = issued /\ jobs[p] = 1 /\ p % BatchSize = 0 /\ Undecided /\ acks < MinAcks
      /\ \A j \in Commands : stage[j] \in Idle
  BY DEF ScheduleMessages, JobIsToken
<1>2. /\ issued' = BatchEnd(p) /\ issued <= issued' /\ issued' <= RemoteNodes
      /\ issued' <= issued + BatchSize /\ issued' <= MaxRequests
      /\ UNCHANGED <<status, cache, acks, nacks>>
  BY <1>1, BatchEndType DEF ScheduleMessages, Positions
<1>3. \A i \in Commands : /\ i \in new => /\ stage'[i] = "queued" /\ left'[i] = issued'
                                           /\ node'[i] = i
                          /\ i \notin new => /\ stage'[i] = stage[i] /\ node'[i] = node[i]
  <2>1. \A i \in new : p + (i - issued) = i
    BY <1>1, <1>2
  <2>2. issued + (BatchEnd(p) - p) = issued'
    BY <1>1, <1>2
  <2> QED
    BY <1>1, <1>2, <2>1, <2>2 DEF ScheduleMessages
<1>4. NoJobs'
  <2>1. \A q \in Positions : q # p => jobs[q] = 0
    BY <1>1, SMTT(30) DEF JobIsToken, Positions
  <2> QED
    BY <1>1, <2>1 DEF ScheduleMessages, NoJobs, Positions
<1>5. new \subseteq Requests /\ Local \notin new /\ Issued \subseteq Requests
      /\ Issued' = Issued \cup new
  BY <1>2 DEF Requests, Local, Issued
<1>6. RequestsInOrder'
  <2>1. \A i \in Issued' : node'[i] = i
    BY <1>3, <1>5 DEF RequestsInOrder, Commands, Issued
  <2>2. \A i \in Requests : stage'[i] = "none" <=> i > issued'
    <3>1. ASSUME NEW i \in Requests, i \in new
          PROVE  stage'[i] # "none" /\ ~(i > issued')
      BY <3>1, <1>2, <1>3 DEF Commands
    <3>2. ASSUME NEW i \in Requests, i \notin new
          PROVE  stage'[i] = "none" <=> i > issued'
      <4>1. i > issued <=> i > issued'
        BY <3>2, <1>2 DEF Requests
      <4> QED
        BY <3>2, <4>1, <1>3 DEF Commands, RequestsInOrder
    <3> QED
      BY <3>1, <3>2
  <2>3. \A i \in Requests : stage'[i] \notin ChainStages \cup {"minAcks"}
    BY <1>3 DEF RequestsInOrder, Commands, ChainStages
  <2>4. AnsweredRequests' = AnsweredRequests
    <3>1. \A i \in new : stage'[i] \notin Answered
      BY <1>3, <1>5 DEF Commands, Answered
    <3>2. \A i \in Issued : i \notin new
      BY DEF Issued
    <3>3. \A i \in Issued : stage'[i] = stage[i]
      BY <1>3, <1>5, <3>2 DEF Commands
    <3> QED
      BY <1>5, <3>1, <3>3 DEF AnsweredRequests
  <2> QED
    BY <1>2, <2>1, <2>2, <2>3, <2>4 DEF RequestsInOrder
<1>7. ChainFirst'
  <2>1. stage[Local] = "done" /\ stage'[Local] = "done"
    BY <1>1, <1>3, <1>5
    DEF ChainFirst, Idle, ChainStages, CompleteStages, FailStages, Commands
  <2>2. issued' = 0 => issued = 0
    BY <1>2
  <2> QED
    BY <1>2, <2>1, <2>2 DEF ChainFirst, ChainStages
<1>8. LastBatch'
  <2>1. \A i \in 1 .. issued : stage'[i] \in Answered
    BY <1>1, <1>3, <1>5
    DEF RequestsInOrder, Commands, Requests, Issued, Idle, Answered
  <2>2. \A i \in issued + 1 .. issued' : left'[i] = issued'
    BY <1>3, <1>5 DEF Commands
  <2>3. issued \in 0 .. issued' /\ issued % BatchSize = 0 /\ issued' <= issued + BatchSize
    BY <1>1, <1>2
  <2> QED
    BY <2>1, <2>2, <2>3 DEF LastBatch
<1>9. \A j \in Commands : stage'[j] \in Idle \cup {"queued"}
  BY <1>1, <1>3
<1>10. JobIsToken'
  BY <1>4 DEF JobIsToken, NoJobs
<1>11. ScheduleIsToken' /\ FailIsToken' /\ CompleteIsToken'
  BY <1>9 DEF ScheduleIsToken, FailIsToken, CompleteIsToken, Idle, FailStages, CompleteStages
<1>12. DecidedIsFinal'
  BY <1>1, <1>2 DEF DecidedIsFinal, Undecided
<1> QED
  BY <1>6, <1>7, <1>8, <1>10, <1>11, <1>12

\* A request that is sent, skipped or queued again is still unanswered.
LEMMA UnansweredKeepsToken ==
  ASSUME OneToken, TypeOK', NEW i \in Requests, NEW s \in {"queued", "sent", "skipped"},
         stage[i] \in {"queued", "sent"}, Goto(i, s),
         UNCHANGED <<status, cache, acks, nacks, issued, node, left, jobs>>
  PROVE  OneToken'
<1> USE DEF OneToken, TypeOK, ProtocolTypeOK, Goto
<1>1. i \in Commands /\ i # Local /\ stage'[i] = s
      /\ \A j \in Commands \ {i} : stage'[j] = stage[j]
  BY DEF Commands, Requests, Local
<1>2. RequestsInOrder'
  <2>1. \A j \in Requests : stage'[j] = "none" <=> j > issued'
    BY <1>1 DEF RequestsInOrder, Commands
  <2>2. \A j \in Requests : stage'[j] \notin ChainStages \cup {"minAcks"}
    BY <1>1 DEF RequestsInOrder, Commands, ChainStages
  <2>3. Issued' = Issued /\ Issued \subseteq Requests
    BY DEF Issued, Requests
  <2>4. \A j \in Requests : stage'[j] \in Answered <=> stage[j] \in Answered
    BY <1>1 DEF Commands, Answered
  <2>5. AnsweredRequests' = AnsweredRequests
    BY <2>3, <2>4 DEF AnsweredRequests
  <2> QED
    BY <2>1, <2>2, <2>3, <2>5 DEF RequestsInOrder
<1>3. ChainFirst'
  BY <1>1 DEF ChainFirst, NoJobs, Undecided, Commands
<1>4. LastBatch'
  <2>1. PICK prev \in 0 .. issued :
          /\ prev % BatchSize = 0 /\ issued <= prev + BatchSize
          /\ \A j \in 1 .. prev : stage[j] \in Answered
          /\ \A j \in prev + 1 .. issued : left[j] = issued
    BY DEF LastBatch
  <2>2. \A j \in 1 .. prev : stage'[j] = stage[j]
    <3>1. \A j \in 1 .. prev : j # i
      BY <2>1 DEF Answered
    <3>2. \A j \in 1 .. prev : j \in Commands
      BY <2>1 DEF Commands, Requests
    <3> QED
      BY <3>1, <3>2, <1>1
  <2> QED
    BY <2>1, <2>2 DEF LastBatch
<1>5. JobIsToken' /\ ScheduleIsToken' /\ FailIsToken'
  BY <1>1
  DEF JobIsToken, ScheduleIsToken, FailIsToken, Idle, OthersIdle, NoJobs, Undecided, FailStages
<1>6. CompleteIsToken'
  BY <1>1 DEF CompleteIsToken, CompleteStages, NoJobs, Idle
<1>7. DecidedIsFinal'
  BY <1>1 DEF DecidedIsFinal, NoJobs, Idle
<1> QED
  BY <1>2, <1>3, <1>4, <1>5, <1>6, <1>7

\* A decision taken on a recorded response: by the counts, every request of the last
\* batch and of the batches before it has been answered when a round is over.
LEMMA RoundOver ==
  ASSUME OneToken, TypeOK', NEW i \in Requests, NEW outcome \in {"COMPLETED", "FAILED"},
         Answer(i, outcome)
  PROVE  /\ i <= issued /\ acks' + nacks' <= issued /\ left[i] = issued
         /\ acks' + nacks' = Cardinality(AnsweredRequests')
         /\ AnsweredRequests' = AnsweredRequests \cup {i}
         /\ (acks' + nacks') % BatchSize = 0 \/ acks' + nacks' = NumberOfFoundNodes
              => /\ acks' + nacks' = issued
                 /\ \A j \in Issued : stage'[j] \in Answered
<1> DEFINE total == acks' + nacks'
<1>0. /\ issued \in Nat /\ total \in Nat /\ stage \in [Commands -> Stages]
      /\ issued <= MaxRequests /\ issued <= RemoteNodes
      /\ acks \in Nat /\ nacks \in Nat
  <2>1. /\ issued \in 0 .. MaxRequests /\ stage \in [Commands -> Stages]
        /\ issued <= RemoteNodes /\ acks \in Nat /\ nacks \in Nat
    BY DEF OneToken, TypeOK, ProtocolTypeOK, RequestsInOrder
  <2>2. acks' \in Nat /\ nacks' \in Nat
    BY DEF TypeOK, ProtocolTypeOK
  <2>3. issued \in Nat /\ issued <= MaxRequests
    BY <2>1
  <2>4. total \in Nat
    BY <2>2, NatSum
  <2> QED
    BY <2>1, <2>3, <2>4
<1>1. /\ stage[i] = "sent" /\ i \in Commands /\ i # Local /\ i <= issued /\ i \in Issued
      /\ issued' = issued /\ Issued' = Issued /\ Issued \subseteq Requests
      /\ stage'[i] \in {"schedule", "completeCache", "failCache", "done"}
      /\ \A j \in Commands \ {i} : stage'[j] = stage[j]
  BY <1>0 DEF Answer, RequestOutcome, OneToken, RequestsInOrder, Goto, Decision, Commands, Requests, Local,
         Issued
<1>2. AnsweredRequests' = AnsweredRequests \cup {i} /\ i \notin AnsweredRequests
  BY <1>1 DEF AnsweredRequests, Answered, Commands
<1>3. /\ IsFiniteSet(Issued) /\ Cardinality(Issued) = issued
      /\ IsFiniteSet(AnsweredRequests) /\ IsFiniteSet(AnsweredRequests')
      /\ Cardinality(AnsweredRequests') <= issued
      /\ Cardinality(AnsweredRequests') = Cardinality(AnsweredRequests) + 1
  <2>1. IsFiniteSet(Issued) /\ Cardinality(Issued) = issued
    BY <1>0, FirstCardinality DEF Issued
  <2>2. AnsweredRequests \subseteq Issued /\ AnsweredRequests' \subseteq Issued
    BY <1>1, <1>2 DEF AnsweredRequests
  <2>3. /\ IsFiniteSet(AnsweredRequests) /\ IsFiniteSet(AnsweredRequests')
        /\ Cardinality(AnsweredRequests') <= Cardinality(Issued)
    BY <2>1, <2>2, FS_Subset
  <2> QED
    BY <2>1, <2>3, <1>2, FS_AddElement
<1>4. total = Cardinality(AnsweredRequests')
  <2>1. total = acks + nacks + 1
    BY <1>0 DEF Answer, RecordResponse
  <2>2. acks + nacks = Cardinality(AnsweredRequests)
    BY DEF OneToken, RequestsInOrder
  <2> QED
    BY <2>1, <2>2, <1>3
<1>5. PICK prev \in 0 .. issued :
         /\ prev % BatchSize = 0 /\ issued <= prev + BatchSize
         /\ \A j \in 1 .. prev : stage[j] \in Answered
         /\ \A j \in prev + 1 .. issued : left[j] = issued
  BY DEF OneToken, LastBatch
<1>6. i > prev /\ left[i] = issued
  <2>1. i \notin 1 .. prev
    BY <1>1, <1>5 DEF Answered
  <2>2. i \in prev + 1 .. issued
    BY <2>1, <1>1, <1>5 DEF Issued
  <2> QED
    BY <2>2, <1>5
<1>7. total > prev
  <2>1. 1 .. prev \subseteq AnsweredRequests
    <3>1. 1 .. prev \subseteq Issued
      BY <1>0, <1>5 DEF Issued
    <3> QED
      BY <3>1, <1>5 DEF AnsweredRequests
  <2>2. Cardinality(1 .. prev) = prev
    BY <1>5, FirstCardinality
  <2>3. Cardinality(1 .. prev) <= Cardinality(AnsweredRequests)
    BY <2>1, <1>3, FS_Subset
  <2>4. Cardinality(AnsweredRequests) \in Nat
    BY <1>3, FS_CardinalityType
  <2>5. prev <= Cardinality(AnsweredRequests)
    BY <2>2, <2>3
  <2> QED
    BY <2>4, <2>5, <1>3, <1>4, <1>5
<1>8. ASSUME total % BatchSize = 0 \/ total = NumberOfFoundNodes
      PROVE  total = issued
  <2>1. total <= issued /\ prev \in Nat
    BY <1>3, <1>4, <1>5
  <2>2. CASE total % BatchSize = 0
    <3> HIDE DEF total
    <3> QED
      BY <2>1, <2>2, <1>0, <1>5, <1>7, RoundEnd
  <2>3. CASE total = NumberOfFoundNodes
    BY <2>1, <2>3, <1>0 DEF NumberOfFoundNodes
  <2> QED
    BY <1>8, <2>2, <2>3
<1>9. total = issued => AnsweredRequests' = Issued
  BY <1>1, <1>3, <1>4, FS_Subset DEF AnsweredRequests
<1> QED
  BY <1>1, <1>2, <1>3, <1>4, <1>6, <1>8, <1>9 DEF AnsweredRequests

\* While a message is on its way no other command holds a token, unless the operation
\* has its acknowledgements already.
LEMMA SentFacts ==
  ASSUME OneToken, NEW i \in Requests, stage[i] = "sent"
  PROVE  /\ i \in Commands /\ i # Local /\ i \in Issued /\ issued > 0
         /\ NoJobs /\ status # "FAILED" /\ stage[Local] = "done"
         /\ \A j \in Commands : stage[j] \notin {"schedule"} \cup FailStages \cup ChainStages
         /\ acks < MinAcks => /\ Undecided
                             /\ \A j \in Commands : stage[j] \notin CompleteStages
<1> USE DEF OneToken, TypeOK, ProtocolTypeOK
<1>1. /\ i \in Commands /\ i # Local /\ i \in Issued /\ issued > 0 /\ stage[i] \notin Idle
  BY DEF RequestsInOrder, Commands, Requests, Local, Issued, Idle
<1>2. NoJobs
  BY <1>1 DEF JobIsToken, NoJobs
<1>3. status # "FAILED"
  BY <1>1 DEF DecidedIsFinal
<1>4. \A j \in Commands : stage[j] \notin {"schedule"} \cup FailStages
  BY <1>1 DEF ScheduleIsToken, FailIsToken, OthersIdle, FailStages
<1>5. stage[Local] = "done"
  BY <1>1 DEF ChainFirst
<1>6. \A j \in Commands : stage[j] \notin ChainStages
  BY <1>5 DEF RequestsInOrder, Commands, Local, ChainStages
<1>7. ASSUME acks < MinAcks
      PROVE  /\ Undecided /\ \A j \in Commands : stage[j] \notin CompleteStages
  <2>1. \A j \in Commands : stage[j] \notin CompleteStages
    BY <1>1, <1>7 DEF CompleteIsToken
  <2>2. status # "COMPLETED"
    BY <1>1, <1>7 DEF DecidedIsFinal
  <2>3. cache # "result"
    BY <2>1, <2>2 DEF DecidedIsFinal, CompleteStages
  <2> QED
    BY <1>3, <2>1, <2>2, <2>3 DEF Undecided, RequestsInOrder
<1> QED
  BY <1>1, <1>2, <1>3, <1>4, <1>5, <1>6, <1>7

\* An answer that finishes a round makes its request the token; any other answer only
\* adds a row.
LEMMA AnswerKeepsToken ==
  ASSUME OneToken, TypeOK', NEW i \in Requests, NEW outcome \in {"COMPLETED", "FAILED"},
         Answer(i, outcome)
  PROVE  OneToken'
<1> DEFINE decision == Decision(outcome, acks', acks' + nacks', left[i])
<1>1. /\ stage[i] = "sent" /\ UNCHANGED <<status, cache, issued, node, left, jobs>>
      /\ stage' = [stage EXCEPT ![i] = decision]
  BY DEF Answer, RequestOutcome, Goto
<1>2. /\ i \in Commands /\ i # Local /\ i \in Issued /\ issued > 0
      /\ NoJobs /\ status # "FAILED" /\ stage[Local] = "done"
      /\ \A j \in Commands : stage[j] \notin {"schedule"} \cup FailStages \cup ChainStages
      /\ acks < MinAcks => /\ Undecided
                          /\ \A j \in Commands : stage[j] \notin CompleteStages
  BY <1>1, SentFacts
<1>3. /\ acks \in Nat /\ acks' \in Nat /\ issued \in Nat /\ issued <= RemoteNodes
      /\ acks' = acks \/ acks' = acks + 1
      /\ outcome = "COMPLETED" => acks' = acks + 1
  <2>1. acks \in Nat /\ issued \in 0 .. MaxRequests /\ issued <= RemoteNodes
    BY DEF OneToken, TypeOK, ProtocolTypeOK, RequestsInOrder
  <2>2. acks' \in Nat
    BY DEF TypeOK, ProtocolTypeOK
  <2> QED
    BY <2>1, <2>2 DEF Answer, RecordResponse
<1>4. acks' < MinAcks => acks < MinAcks
  BY <1>3
<1>5. /\ left[i] = issued
      /\ decision = "completeCache" => acks' = MinAcks /\ acks < MinAcks
      /\ decision \in {"schedule", "failCache"} =>
           /\ acks' < MinAcks /\ acks' + nacks' = issued
           /\ \A j \in Issued : stage'[j] \in Answered
      /\ decision = "schedule" => issued % BatchSize = 0
      /\ decision = "failCache" => acks' + (RemoteNodes - issued) < MinAcks
      /\ decision \in {"schedule", "failCache", "completeCache", "done"}
  <2> DEFINE total == acks' + nacks'
             over == total % BatchSize = 0 \/ total = NumberOfFoundNodes
  <2>1. /\ left[i] = issued
        /\ over => total = issued /\ \A j \in Issued : stage'[j] \in Answered
    BY RoundOver
  <2>2. decision \in {"schedule", "failCache"} => over /\ acks' < MinAcks
    BY DEF Decision
  <2>3. decision = "completeCache" => outcome = "COMPLETED" /\ acks' = MinAcks
    BY DEF Decision
  <2>4. decision = "schedule" => RemoteNodes - issued > 0
    BY <2>1 DEF Decision
  <2>5. decision = "failCache" =>
          acks' < MinAcks
          /\ (RemoteNodes - issued > 0 => ~(acks' + (RemoteNodes - issued) >= MinAcks))
    BY <2>1 DEF Decision
  <2>6. decision = "schedule" => total # NumberOfFoundNodes
    BY <2>1, <2>2, <2>4, <1>3 DEF NumberOfFoundNodes
  <2>7. decision = "failCache" => acks' + (RemoteNodes - issued) < MinAcks
    <3>1. RemoteNodes - issued \in Nat
      BY <1>3
    <3> QED
      BY <2>5, <3>1, <1>3, OutOfReach
  <2>8. decision \in {"schedule", "failCache", "completeCache", "done"}
    BY DEF Decision
  <2>9. decision = "schedule" => issued % BatchSize = 0
    BY <2>1, <2>2, <2>6
  <2>10. outcome = "COMPLETED" /\ acks' = MinAcks => acks < MinAcks
    BY <1>3
  <2> QED
    BY <2>1, <2>2, <2>3, <2>7, <2>8, <2>9, <2>10
<1> HIDE DEF decision
<1>6. /\ stage'[i] = decision
      /\ \A j \in Commands \ {i} : stage'[j] = stage[j]
  BY <1>1, <1>2 DEF OneToken, TypeOK, ProtocolTypeOK
<1>7. decision \in {"schedule", "failCache"} => OthersIdle(i)'
  <2>1. ASSUME decision \in {"schedule", "failCache"}, NEW j \in Commands \ {i}
        PROVE  stage'[j] \in Idle
    <3>1. stage[j] \notin {"schedule"} \cup FailStages \cup ChainStages \cup CompleteStages
      BY <2>1, <1>2, <1>4, <1>5
    <3>2. CASE j \in Issued
      <4>1. stage'[j] \in Answered /\ stage'[j] = stage[j]
        BY <2>1, <3>2, <1>5, <1>6
      <4>2. j \in Requests
        BY <3>2, <1>3 DEF Commands, Issued, Local
      <4>3. stage[j] # "minAcks"
        BY <4>2 DEF OneToken, RequestsInOrder
      <4> QED
        BY <3>1, <4>1, <4>3 DEF Answered, FailStages, CompleteStages, Idle
    <3>3. CASE j \notin Issued
      <4>1. j = Local \/ (j \in Requests /\ j > issued)
        BY <3>3, <1>3 DEF Issued, Commands, Requests
      <4>2. stage[j] \in Idle
        BY <4>1, <1>2 DEF OneToken, RequestsInOrder, Idle
      <4> QED
        BY <4>2, <1>6
    <3> QED
      BY <3>2, <3>3
  <2> QED
    BY <2>1 DEF OthersIdle
<1>8. RequestsInOrder'
  <2>1. acks' + nacks' = Cardinality(AnsweredRequests')
    BY RoundOver
  <2>2. /\ \A j \in Requests : stage'[j] = "none" <=> j > issued'
        /\ \A j \in Requests : stage'[j] \notin ChainStages \cup {"minAcks"}
    BY <1>1, <1>2, <1>3, <1>5, <1>6
    DEF OneToken, RequestsInOrder, Commands, ChainStages, Issued
  <2> QED
    BY <2>1, <2>2, <1>1 DEF OneToken, RequestsInOrder, Issued
<1>9. ChainFirst'
  BY <1>1, <1>2, <1>6 DEF ChainFirst, Commands, ChainStages
<1>10. LastBatch'
  <2>1. PICK prev \in 0 .. issued :
          /\ prev % BatchSize = 0 /\ issued <= prev + BatchSize
          /\ \A j \in 1 .. prev : stage[j] \in Answered
          /\ \A j \in prev + 1 .. issued : left[j] = issued
    BY DEF OneToken, LastBatch
  <2>2. \A j \in 1 .. prev : stage'[j] = stage[j]
    <3>1. \A j \in 1 .. prev : j # i
      BY <2>1, <1>1 DEF Answered
    <3>2. issued <= MaxRequests
      BY DEF OneToken, TypeOK, ProtocolTypeOK
    <3>3. \A j \in 1 .. prev : j \in Commands
      BY <2>1, <3>2, <1>3 DEF Commands, Requests
    <3> QED
      BY <3>1, <3>3, <1>6
  <2> QED
    BY <2>1, <2>2, <1>1 DEF LastBatch
<1>11. JobIsToken'
  BY <1>1, <1>2 DEF JobIsToken, NoJobs
<1>12. ScheduleIsToken'
  BY <1>1, <1>2, <1>4, <1>5, <1>6, <1>7 DEF ScheduleIsToken, NoJobs, Undecided
<1>13. FailIsToken'
  BY <1>1, <1>2, <1>4, <1>5, <1>6, <1>7 DEF FailIsToken, FailStages, NoJobs, Undecided
<1>14. CompleteIsToken'
  <2>1. CASE decision = "completeCache"
    <3>1. \A j \in Commands \ {i} : stage'[j] \in Idle \cup {"queued", "sent", "skipped"}
      BY <1>2, <1>5, <1>6, <2>1
      DEF OneToken, TypeOK, ProtocolTypeOK, Stages, RequestsInOrder, Commands, Idle, Local,
          FailStages, ChainStages, CompleteStages
    <3> QED
      BY <2>1, <3>1, <1>1, <1>2, <1>3, <1>5, <1>6
      DEF CompleteIsToken, CompleteStages, NoJobs, Undecided, Idle
  <2>2. CASE decision # "completeCache"
    <3>1. \A j \in Commands : stage'[j] \in CompleteStages =>
             j # i /\ stage[j] \in CompleteStages /\ ~(acks < MinAcks)
      BY <2>2, <1>2, <1>5, <1>6 DEF CompleteStages
    <3>2. ~(acks < MinAcks) => decision = "done" /\ acks' >= MinAcks
      BY <2>2, <1>3, <1>5
    <3> QED
      BY <3>1, <3>2, <1>1, <1>2, <1>6
      DEF OneToken, CompleteIsToken, CompleteStages, NoJobs, Idle
  <2> QED
    BY <2>1, <2>2
<1>15. DecidedIsFinal'
  <2>1. status = "COMPLETED" \/ cache = "result" => ~(acks < MinAcks)
    BY <1>2 DEF Undecided
  <2>2. ~(acks < MinAcks) => decision = "done" /\ acks' >= MinAcks
    BY <1>3, <1>5
  <2> QED
    BY <2>1, <2>2, <1>1, <1>2, <1>6 DEF OneToken, DecidedIsFinal, NoJobs, Idle
<1> QED
  BY <1>8, <1>9, <1>10, <1>11, <1>12, <1>13, <1>14, <1>15 DEF OneToken

\* What every step of a command that holds the token leaves in order.
LEMMA TokenMoves ==
  ASSUME OneToken, TypeOK', NEW i \in Commands,
         NEW s \in CompleteStages \cup FailStages \cup {"done"},
         stage[i] \in CompleteStages \cup FailStages \cup {"schedule"}, Goto(i, s),
         UNCHANGED <<acks, nacks, issued, node, left>>, cache' # "input",
         jobs' = jobs \/ s = "done"
  PROVE  /\ RequestsInOrder' /\ ChainFirst' /\ LastBatch'
         /\ stage'[i] = s /\ \A j \in Commands \ {i} : stage'[j] = stage[j]
<1>1. /\ stage'[i] = s /\ \A j \in Commands \ {i} : stage'[j] = stage[j]
      /\ stage[i] \in Answered /\ s \in Answered /\ s \in Stages
      /\ s \notin ChainStages \cup {"minAcks"}
  BY DEF OneToken, TypeOK, ProtocolTypeOK, Goto, CompleteStages, FailStages, Answered, Stages,
         ChainStages
<1>2. RequestsInOrder'
  BY <1>1, OrderKept
<1>3. ChainFirst'
  <2>1. /\ stage[Local] \in ChainStages \cup CompleteStages \cup FailStages \cup {"done"}
        /\ stage[Local] # "done" => issued = 0 /\ NoJobs
        /\ stage[Local] \in ChainStages => Undecided
        /\ issued = 0 => acks = 0 /\ nacks = 0
    BY DEF OneToken, ChainFirst
  <2>2. CASE i = Local
    <3>1. stage[Local] # "done"
      BY <2>2 DEF CompleteStages, FailStages
    <3>2. stage'[Local] \in CompleteStages \cup FailStages \cup {"done"}
      BY <1>1, <2>2
    <3>3. stage'[Local] # "done" => NoJobs'
      BY <1>1, <2>1, <2>2, <3>1 DEF NoJobs
    <3> QED
      BY <2>1, <3>1, <3>2, <3>3 DEF ChainFirst, ChainStages, CompleteStages, FailStages
  <2>3. CASE i # Local
    <3>1. stage'[Local] = stage[Local] /\ Local \in Commands
      BY <1>1, <2>3 DEF Commands
    <3>2. stage[Local] = "done"
      <4>1. stage[i] \notin {"none", "queued", "sent", "skipped"}
        BY DEF CompleteStages, FailStages
      <4>2. issued > 0
        BY <2>3, <4>1 DEF OneToken, RequestsInOrder, Commands, Requests, TypeOK, ProtocolTypeOK
      <4> QED
        BY <2>1, <4>2
    <3> QED
      BY <2>1, <3>1, <3>2 DEF ChainFirst, ChainStages
  <2> QED
    BY <2>2, <2>3
<1>4. LastBatch'
  <2>1. PICK prev \in 0 .. issued :
          /\ prev % BatchSize = 0 /\ issued <= prev + BatchSize
          /\ \A j \in 1 .. prev : stage[j] \in Answered
          /\ \A j \in prev + 1 .. issued : left[j] = issued
    BY DEF OneToken, LastBatch
  <2>2. issued <= MaxRequests /\ issued \in Nat
    BY DEF OneToken, TypeOK, ProtocolTypeOK
  <2>3. \A j \in 1 .. prev : j \in Commands
    BY <2>1, <2>2 DEF Commands, Requests
  <2>4. \A j \in 1 .. prev : stage'[j] \in Answered
    BY <2>1, <2>3, <1>1
  <2> QED
    BY <2>1, <2>4 DEF LastBatch
<1> QED
  BY <1>1, <1>2, <1>3, <1>4

LEMMA ScheduleKeepsToken ==
  ASSUME OneToken, TypeOK', NEW i \in Commands, ScheduleLeftover(i)
  PROVE  OneToken'
<1>1. /\ stage[i] = "schedule" /\ Goto(i, "done")
      /\ jobs' = [jobs EXCEPT ![left[i]] = @ + 1]
      /\ UNCHANGED <<status, cache, acks, nacks, issued, node, left>>
  BY DEF ScheduleLeftover
<1>2. /\ left[i] = issued /\ issued % BatchSize = 0 /\ NoJobs /\ Undecided /\ acks < MinAcks
      /\ OthersIdle(i)
  BY <1>1 DEF OneToken, ScheduleIsToken
<1>3. /\ RequestsInOrder' /\ ChainFirst' /\ LastBatch'
      /\ stage'[i] = "done" /\ \A j \in Commands \ {i} : stage'[j] = stage[j]
  BY <1>1, <1>2, TokenMoves DEF Undecided
<1>4. \A j \in Commands : stage'[j] \in Idle
  BY <1>2, <1>3 DEF OthersIdle, Idle
<1>5. \A p \in Positions : jobs'[p] > 0 => p = issued /\ jobs'[p] = 1
  BY <1>1, <1>2 DEF NoJobs, OneToken, TypeOK, ProtocolTypeOK
<1>6. JobIsToken'
  BY <1>1, <1>2, <1>4, <1>5 DEF JobIsToken, Undecided
<1>7. ScheduleIsToken' /\ FailIsToken' /\ CompleteIsToken'
  BY <1>4 DEF ScheduleIsToken, FailIsToken, CompleteIsToken, Idle, FailStages, CompleteStages
<1>8. DecidedIsFinal'
  BY <1>1, <1>2 DEF DecidedIsFinal, Undecided
<1> QED
  BY <1>3, <1>6, <1>7, <1>8 DEF OneToken

LEMMA FailKeepsToken ==
  ASSUME OneToken, TypeOK', NEW i \in Commands, FailCache(i) \/ FailStatus(i) \/ FailId(i)
  PROVE  OneToken'
<1>1. PICK s \in {"failStatus", "failId", "done"} :
        /\ Goto(i, s)
        /\ \/ stage[i] = "failCache" /\ s = "failStatus" /\ status' = status
           \/ stage[i] = "failStatus" /\ s = "failId" /\ status' = "FAILED"
           \/ stage[i] = "failId" /\ s = "done" /\ status' = status
  BY DEF FailCache, FailStatus, FailId
<1>2. /\ NoJobs /\ cache = "none" /\ acks < MinAcks
      /\ status = IF stage[i] = "failId" THEN "FAILED" ELSE "IN_PROGRESS"
      /\ issued > 0 => acks + (RemoteNodes - issued) < MinAcks
      /\ OthersIdle(i)
  BY <1>1 DEF OneToken, FailIsToken, FailStages
<1>3. cache' = "none" /\ UNCHANGED <<acks, nacks, issued, node, left, jobs>>
  BY <1>2 DEF FailCache, FailStatus, FailId
<1>4. /\ RequestsInOrder' /\ ChainFirst' /\ LastBatch'
      /\ stage'[i] = s /\ \A j \in Commands \ {i} : stage'[j] = stage[j]
  BY <1>1, <1>3, TokenMoves DEF FailStages
<1>5. OthersIdle(i)' /\ NoJobs'
  BY <1>2, <1>3, <1>4 DEF OthersIdle, NoJobs
<1>6. JobIsToken' /\ ScheduleIsToken' /\ CompleteIsToken'
  BY <1>1, <1>4, <1>5
  DEF JobIsToken, ScheduleIsToken, CompleteIsToken, NoJobs, OthersIdle, Idle, CompleteStages
<1>7. FailIsToken'
  BY <1>1, <1>2, <1>3, <1>4, <1>5 DEF FailIsToken, FailStages, OthersIdle, Idle
<1>8. DecidedIsFinal'
  BY <1>1, <1>2, <1>3, <1>4, <1>5 DEF DecidedIsFinal, OthersIdle, Idle
<1> QED
  BY <1>4, <1>6, <1>7, <1>8 DEF OneToken

LEMMA CompleteKeepsToken ==
  ASSUME OneToken, TypeOK', NEW i \in Commands,
         CompleteCache(i, "result") \/ CompleteStatus(i) \/ CompleteId(i)
  PROVE  OneToken'
<1>1. PICK s \in {"completeStatus", "completeId", "done"} :
        /\ Goto(i, s)
        /\ \/ /\ stage[i] = "completeCache" /\ s = "completeStatus"
              /\ status' = status /\ cache' = "result"
           \/ /\ stage[i] = "completeStatus" /\ s = "completeId"
              /\ status' = "COMPLETED" /\ cache' = cache
           \/ /\ stage[i] = "completeId" /\ s = "done"
              /\ status' = status /\ cache' = cache
  BY DEF CompleteCache, CompleteStatus, CompleteId
<1>2. /\ NoJobs /\ (issued > 0 => acks >= MinAcks)
      /\ status = IF stage[i] = "completeId" THEN "COMPLETED" ELSE "IN_PROGRESS"
      /\ cache = IF stage[i] = "completeCache" THEN "none" ELSE "result"
      /\ \A j \in Commands \ {i} : stage[j] \in Idle \cup {"queued", "sent", "skipped"}
  BY <1>1 DEF OneToken, CompleteIsToken, CompleteStages
<1>3. cache' = "result" /\ UNCHANGED <<acks, nacks, issued, node, left, jobs>>
  BY <1>1, <1>2 DEF CompleteCache, CompleteStatus, CompleteId
<1>4. /\ RequestsInOrder' /\ ChainFirst' /\ LastBatch'
      /\ stage'[i] = s /\ \A j \in Commands \ {i} : stage'[j] = stage[j]
  BY <1>1, <1>3, TokenMoves DEF CompleteStages
<1>5. NoJobs' /\ \A j \in Commands \ {i} : stage'[j] \in Idle \cup {"queued", "sent", "skipped"}
  BY <1>2, <1>3, <1>4 DEF NoJobs
<1>6. JobIsToken' /\ ScheduleIsToken' /\ FailIsToken'
  BY <1>1, <1>4, <1>5 DEF JobIsToken, ScheduleIsToken, FailIsToken, NoJobs, Idle, FailStages
<1>7. CompleteIsToken'
  BY <1>1, <1>2, <1>3, <1>4, <1>5 DEF CompleteIsToken, CompleteStages, Idle
<1>8. DecidedIsFinal'
  BY <1>1, <1>2, <1>3, <1>4, <1>5 DEF DecidedIsFinal, Idle
<1> QED
  BY <1>4, <1>6, <1>7, <1>8 DEF OneToken

\* Every step of the get operation.
LEMMA TokenStep ==
  ASSUME OneToken, [Next]_vars
  PROVE  OneToken'
<1>0. TypeOK'
  BY TypeStep DEF OneToken
<1>1. CASE Validate("findShard") \/ FindShard("local") \/ LocalGet \/ StartNetwork
  BY <1>0, <1>1, ChainKeepsToken
<1>2. ASSUME NEW p \in Positions, ScheduleMessages(p)
      PROVE  OneToken'
  BY <1>0, <1>2, BatchKeepsToken
<1>3. CASE WriteEndEvent \/ UNCHANGED vars
  <2>1. UNCHANGED <<status, cache, acks, nacks, issued, stage, node, left, jobs>>
    BY <1>3 DEF WriteEndEvent, vars, protocolVars
  <2>2. NoJobs' = NoJobs /\ Undecided' = Undecided /\ AnsweredRequests' = AnsweredRequests
        /\ \A i \in Commands : OthersIdle(i)' = OthersIdle(i)
    BY <2>1 DEF NoJobs, Undecided, AnsweredRequests, Issued, OthersIdle
  <2>3. RequestsInOrder' /\ ChainFirst' /\ LastBatch'
    BY <2>1, <2>2 DEF OneToken, RequestsInOrder, ChainFirst, LastBatch, Issued
  <2>4. JobIsToken' /\ ScheduleIsToken' /\ FailIsToken' /\ CompleteIsToken' /\ DecidedIsFinal'
    BY <2>1, <2>2
    DEF OneToken, JobIsToken, ScheduleIsToken, FailIsToken, CompleteIsToken, DecidedIsFinal
  <2> QED
    BY <1>0, <2>3, <2>4 DEF OneToken
<1>4. ASSUME NEW i \in Requests, Dispatch(i) \/ BusyAgain(i)
      PROVE  OneToken'
  BY <1>0, <1>4, UnansweredKeepsToken DEF Dispatch, BusyAgain
<1>5. ASSUME NEW i \in Requests, NEW outcome \in {"COMPLETED", "FAILED"}, Answer(i, outcome)
      PROVE  OneToken'
  BY <1>0, <1>5, AnswerKeepsToken
<1>6. ASSUME NEW i \in Commands, AfterDecision(i, "result")
      PROVE  OneToken'
  BY <1>0, <1>6, ScheduleKeepsToken, FailKeepsToken, CompleteKeepsToken DEF AfterDecision
<1> QED
  BY <1>1, <1>2, <1>3, <1>4, <1>5, <1>6 DEF Next, RequestStep

-----------------------------------------------------------------------------
(* The theorems                                                            *)

\* A get never holds two decisions at once: late answers, retried requests and second
\* batches cannot interfere with an operation another response has decided.
THEOREM GetOneToken == Spec => []OneToken
<1>1. Init => OneToken
  <2> SUFFICES ASSUME Init
               PROVE  OneToken
    OBVIOUS
  <2>1. TypeOK
    BY DEF Init, ProtocolInit, TypeOK, ProtocolTypeOK, Stages, Commands, Requests,
           Positions, Local
  <2>2. /\ issued = 0 /\ acks = 0 /\ nacks = 0 /\ Undecided /\ NoJobs
        /\ stage[Local] = "validate" /\ \A i \in Requests : stage[i] = "none"
    BY DEF Init, ProtocolInit, Undecided, NoJobs, Commands, Requests, Local, Positions
  <2>3. Issued = {} /\ AnsweredRequests = {} /\ Cardinality(AnsweredRequests) = 0
    BY <2>2, FS_EmptySet DEF Issued, AnsweredRequests
  <2>4. RequestsInOrder
    BY <2>2, <2>3 DEF RequestsInOrder, Undecided, ChainStages, Requests
  <2>5. ChainFirst
    BY <2>2 DEF ChainFirst, ChainStages
  <2>6. LastBatch
    BY <2>2, ModZero DEF LastBatch
  <2>7. \A i \in Commands : stage[i] \in {"validate", "none"}
    BY <2>2 DEF Commands
  <2>8. JobIsToken /\ ScheduleIsToken /\ FailIsToken /\ CompleteIsToken /\ DecidedIsFinal
    BY <2>2, <2>7
    DEF JobIsToken, ScheduleIsToken, FailIsToken, CompleteIsToken, DecidedIsFinal, NoJobs,
        Undecided, FailStages, CompleteStages
  <2> QED
    BY <2>1, <2>4, <2>5, <2>6, <2>8 DEF OneToken
<1>2. OneToken /\ [Next]_vars => OneToken'
  BY TokenStep
<1> QED
  BY <1>1, <1>2, PTL DEF Spec

\* No node is asked twice for the same get.
THEOREM GetAskedOnce == Spec => []AskedOnce
<1>1. OneToken => AskedOnce
  BY DEF OneToken, RequestsInOrder, AskedOnce
<1> QED
  BY <1>1, GetOneToken, PTL

\* Never more than one batch of requests is on its way.
THEOREM GetOneBatchAtATime == Spec => []OneBatchAtATime
<1>1. ASSUME OneToken
      PROVE  OneBatchAtATime
  <2>1. /\ issued \in Nat /\ issued <= MaxRequests
        /\ \A i \in Requests : stage[i] = "none" <=> i > issued
    BY <1>1 DEF OneToken, TypeOK, ProtocolTypeOK, RequestsInOrder
  <2>2. PICK prev \in 0 .. issued :
          /\ issued <= prev + BatchSize
          /\ \A j \in 1 .. prev : stage[j] \in Answered
    BY <1>1 DEF OneToken, LastBatch
  <2>3. Outstanding \subseteq prev + 1 .. issued
    <3>1. ASSUME NEW i \in Outstanding
          PROVE  i \in prev + 1 .. issued
      <4>1. i \in Requests /\ stage[i] \in {"queued", "sent"}
        BY DEF Outstanding
      <4>2. ~(i > issued)
        BY <2>1, <4>1
      <4>3. i \notin 1 .. prev
        BY <2>2, <4>1 DEF Answered
      <4> QED
        BY <4>1, <4>2, <4>3, <2>1, <2>2 DEF Requests
    <3> QED
      BY <3>1
  <2>4. IsFiniteSet(prev + 1 .. issued) /\ Cardinality(prev + 1 .. issued) <= BatchSize
    <3>1. /\ IsFiniteSet(prev + 1 .. issued)
          /\ Cardinality(prev + 1 .. issued) =
               IF prev + 1 > issued THEN 0 ELSE issued - (prev + 1) + 1
      BY <2>1, <2>2, FS_Interval
    <3> QED
      BY <3>1, <2>1, <2>2
  <2>5. /\ IsFiniteSet(Outstanding)
        /\ Cardinality(Outstanding) <= Cardinality(prev + 1 .. issued)
    BY <2>3, <2>4, FS_Subset
  <2>6. Cardinality(Outstanding) \in Nat /\ Cardinality(prev + 1 .. issued) \in Nat
    BY <2>4, <2>5, FS_CardinalityType
  <2> QED
    BY <2>4, <2>5, <2>6 DEF OneBatchAtATime
<1> QED
  BY <1>1, GetOneToken, PTL

\* A get that asked the network fails only when the nodes it did not ask cannot make up
\* the missing answers, and nobody is still being asked.
THEOREM GetFailedOnlyIfHopeless == Spec => []FailedOnlyIfHopeless
<1>1. OneToken => FailedOnlyIfHopeless
  BY DEF OneToken, DecidedIsFinal, FailedOnlyIfHopeless, Outstanding, Idle, Commands
<1> QED
  BY <1>1, GetOneToken, PTL

\* A COMPLETED get has its result in the cache.
THEOREM GetCompletedHasResult == Spec => []CompletedHasResult
<1>1. OneToken => CompletedHasResult
  BY DEF OneToken, DecidedIsFinal, CompletedHasResult
<1> QED
  BY <1>1, GetOneToken, PTL

\* Steps that write neither the operation row nor the cache.
LEMMA OnlyDecisionsWrite ==
  ASSUME OneToken, [Next]_vars
  PROVE  \/ UNCHANGED <<status, cache>>
         \/ \E i \in Commands :
              \/ stage[i] = "completeCache" /\ cache' = "result" /\ status' = status
              \/ stage[i] = "completeStatus" /\ cache' = cache /\ status' = "COMPLETED"
              \/ stage[i] = "failStatus" /\ cache' = cache /\ status' = "FAILED"
<1>1. CASE Validate("findShard") \/ LocalGet \/ StartNetwork
  BY <1>1 DEF Validate, LocalGet, StartNetwork
<1>2. CASE FindShard("local")
  <2>1. cache = "none"
    BY <1>2, ChainFacts DEF FindShard, ChainStages, Undecided
  <2> QED
    BY <1>2, <2>1 DEF FindShard
<1>3. ASSUME NEW p \in Positions, ScheduleMessages(p)
      PROVE  UNCHANGED <<status, cache>>
  BY <1>3 DEF ScheduleMessages
<1>4. CASE WriteEndEvent \/ UNCHANGED vars
  BY <1>4 DEF WriteEndEvent, vars, protocolVars
<1>5. ASSUME NEW i \in Requests, RequestStep(i)
      PROVE  UNCHANGED <<status, cache>>
  BY <1>5 DEF RequestStep, Dispatch, BusyAgain, Answer
<1>6. ASSUME NEW i \in Commands, ScheduleLeftover(i) \/ CompleteId(i)
      PROVE  UNCHANGED <<status, cache>>
  BY <1>6 DEF ScheduleLeftover, CompleteId
<1>7. ASSUME NEW i \in Commands, FailCache(i) \/ FailId(i)
      PROVE  UNCHANGED <<status, cache>>
  BY <1>7 DEF FailCache, FailId, OneToken, FailIsToken, FailStages
<1>8. ASSUME NEW i \in Commands,
             CompleteCache(i, "result") \/ CompleteStatus(i) \/ FailStatus(i)
      PROVE  \/ stage[i] = "completeCache" /\ cache' = "result" /\ status' = status
             \/ stage[i] = "completeStatus" /\ cache' = cache /\ status' = "COMPLETED"
             \/ stage[i] = "failStatus" /\ cache' = cache /\ status' = "FAILED"
  BY <1>8 DEF CompleteCache, CompleteStatus, FailStatus
<1> QED
  BY <1>1, <1>2, <1>3, <1>4, <1>5, <1>6, <1>7, <1>8 DEF Next, AfterDecision

\* The get operation implements the promise of OperationOutcome.
THEOREM GetImplementsOutcome == Spec => ImplementsOutcome
<1>1. Init => Outcome!OutcomeInit
  BY DEF Init, ProtocolInit, Outcome!OutcomeInit
<1>2. ASSUME OneToken, [Next]_vars
      PROVE  [Outcome!OutcomeNext]_(Outcome!outcomeVars)
  <2> USE DEF Outcome!OutcomeNext, Outcome!outcomeVars
  <2>1. CASE UNCHANGED <<status, cache>>
    BY <2>1
  <2>2. ASSUME NEW i \in Commands, stage[i] = "completeCache", cache' = "result",
               status' = status
        PROVE  Outcome!StoreResult
    BY <1>2, <2>2 DEF OneToken, CompleteIsToken, CompleteStages, Outcome!StoreResult
  <2>3. ASSUME NEW i \in Commands, stage[i] = "completeStatus", cache' = cache,
               status' = "COMPLETED"
        PROVE  Outcome!Complete
    BY <1>2, <2>3 DEF OneToken, CompleteIsToken, CompleteStages, Outcome!Complete
  <2>4. ASSUME NEW i \in Commands, stage[i] = "failStatus", cache' = cache,
               status' = "FAILED"
        PROVE  Outcome!Fail
    BY <1>2, <2>4 DEF OneToken, FailIsToken, FailStages, Outcome!Fail
  <2> QED
    BY <1>2, <2>1, <2>2, <2>3, <2>4, OnlyDecisionsWrite
<1> QED
  BY <1>1, <1>2, GetOneToken, PTL DEF Spec, ImplementsOutcome, Outcome!OutcomeSpec

\* The operation row is decided once.
THEOREM GetDecidedOnce == Spec => DecidedOnce
<1>1. ASSUME OneToken, [Next]_vars
      PROVE  [status # "IN_PROGRESS" => status' = status]_vars
  <2>1. ASSUME NEW i \in Commands, stage[i] \in {"completeStatus", "failStatus"}
        PROVE  status = "IN_PROGRESS"
    BY <1>1, <2>1
    DEF OneToken, CompleteIsToken, CompleteStages, FailIsToken, FailStages
  <2> QED
    BY <1>1, <2>1, OnlyDecisionsWrite
<1> QED
  BY <1>1, GetOneToken, PTL DEF Spec, DecidedOnce

=============================================================================
