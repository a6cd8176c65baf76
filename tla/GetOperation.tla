---------------------------- MODULE GetOperation ----------------------------
(***************************************************************************)
(* The get operation: try the local triple store first, then ask the shard *)
(* in batches until MinAcks nodes returned the knowledge collection.       *)
(***************************************************************************)
EXTENDS OperationProtocol, FiniteSets

vars == protocolVars

\* The HTTP controller writes GET_INIT_END after it has queued the first command
Init ==
  /\ ProtocolInit("validate")
  /\ cache = "none"
  /\ ending = 1

\* LocalGetCommand.execute: found, not found, or failed (recover marks the operation)
LocalGet ==
  /\ stage[Local] = "local"
  /\ \/ Goto(Local, "completeCache") /\ idStatus' = idStatus
     \/ Goto(Local, "failCache") /\ idStatus' = idStatus
     \/ Goto(Local, "network") /\ idStatus' = "PENDING"
  /\ UNCHANGED <<status, cache, acks, nacks, issued, node, left, retries, jobs, ending>>

\* GetRequestCommand.shouldSendMessage, then the message is sent
Dispatch(i) ==
  /\ stage[i] = "queued"
  /\ Goto(i, IF status = "IN_PROGRESS" THEN "sent" ELSE "skipped")
  /\ UNCHANGED <<status, idStatus, cache, acks, nacks, issued, node, left, retries, jobs, ending>>

\* Mutants of Decision: a round is over at every response, only at the end of a full
\* batch, or only when all nodes have responded; a decision taken despite enough answers.
DecisionAtEveryResponse(outcome, completed, total, taken) ==
  LET leftover == RemoteNodes - taken
  IN IF outcome = "COMPLETED" /\ completed = MinAcks THEN "completeCache"
     ELSE IF completed >= MinAcks THEN "done"
     ELSE IF leftover > 0 /\ completed + leftover >= MinAcks THEN "schedule"
     ELSE "failCache"
DecisionAtFullBatch(outcome, completed, total, taken) ==
  IF total % BatchSize = 0
  THEN DecisionAtEveryResponse(outcome, completed, total, taken)
  ELSE IF outcome = "COMPLETED" /\ completed = MinAcks THEN "completeCache" ELSE "done"
DecisionDespiteAcks(outcome, completed, total, taken) ==
  LET leftover == RemoteNodes - taken
      roundOver == total = NumberOfFoundNodes \/ total % BatchSize = 0
  IN IF outcome = "COMPLETED" /\ completed = MinAcks THEN "completeCache"
     ELSE IF ~roundOver THEN "done"
     ELSE IF leftover > 0 /\ completed + leftover >= MinAcks THEN "schedule"
     ELSE "failCache"

\* GetService.processResponse, from the counts read under the mutex
Decision(outcome, completed, total, taken) ==
  LET leftover == RemoteNodes - taken
      roundOver == total = NumberOfFoundNodes \/ total % BatchSize = 0
  IN IF outcome = "COMPLETED" /\ completed = MinAcks THEN "completeCache"
     ELSE IF completed < MinAcks /\ roundOver
          THEN IF leftover > 0 /\ completed + leftover >= MinAcks
               THEN "schedule" ELSE "failCache"
          ELSE "done"

Answer(i, outcome) ==
  /\ RequestOutcome(i, outcome)
  /\ RecordResponse(outcome)
  /\ Goto(i, Decision(outcome, acks', acks' + nacks', left[i]))
  /\ UNCHANGED <<status, idStatus, cache, issued, node, left, retries, jobs, ending>>

RequestStep(i) ==
  \/ Dispatch(i)
  \/ BusyAgain(i)
  \/ \E outcome \in {"COMPLETED", "FAILED"} : Answer(i, outcome)

Next ==
  \/ Validate("findShard") \/ FindShard("local") \/ LocalGet \/ StartNetwork
  \/ \E p \in Positions : ScheduleMessages(p)
  \/ WriteEndEvent
  \/ \E i \in Requests : RequestStep(i)
  \/ \E i \in Commands : AfterDecision(i, "result")

Spec == Init /\ [][Next]_vars

\* Every queued command is executed and every message is answered or times out
Fairness ==
  /\ WF_vars(Validate("findShard")) /\ WF_vars(FindShard("local"))
  /\ WF_vars(LocalGet) /\ WF_vars(StartNetwork)
  /\ \A p \in Positions : WF_vars(ScheduleMessages(p))
  /\ WF_vars(WriteEndEvent)
  /\ \A i \in Requests : WF_vars(RequestStep(i))
  /\ \A i \in Commands : WF_vars(AfterDecision(i, "result"))

FairSpec == Spec /\ Fairness

-----------------------------------------------------------------------------
(* Properties                                                              *)

Outstanding == {i \in Requests : stage[i] \in {"queued", "sent"}}
Issued == 1 .. issued

TypeOK == ProtocolTypeOK

\* The operation row is decided once: neither a late answer nor a second batch
\* turns a COMPLETED get into a FAILED one or back (get-service.js:67-91).
DecidedOnce == [][status # "IN_PROGRESS" => status' = status]_vars

\* No node is asked twice for the same get, although every request carries its own
\* copy of the leftover list and any of them may schedule it.
AskedOnce == \A i, j \in Issued : node[i] = node[j] => i = j

\* Flow control: never more than one batch of requests is on its way.
OneBatchAtATime == Cardinality(Outstanding) <= BatchSize

\* A get that asked the network fails only when the nodes that could still answer
\* cannot make up the missing acknowledgements.
FailedOnlyIfHopeless ==
  (status = "FAILED" /\ issued > 0) =>
     /\ acks + (RemoteNodes - issued) < MinAcks
     /\ Outstanding = {}

\* When the operation row says COMPLETED the result is in the cache, where the
\* result controller looks for it, and enough nodes returned it (unless it was local).
CompletedHasResult ==
  status = "COMPLETED" => /\ cache = "result"
                          /\ issued > 0 => acks >= MinAcks

\* The operation row and the cache of a get behave as OperationOutcome says: decided
\* once, result first, no result left behind by a failure (operation-service.js:61-101).
Outcome == INSTANCE OperationOutcome WITH outcome <- status, answer <- cache
ImplementsOutcome == Outcome!OutcomeSpec

\* Every get reaches, at some time, a final status for the client.
Answers == <>(idStatus # "PENDING")

-----------------------------------------------------------------------------
(* The inductive invariant behind the safety properties: one token travels *)
(* through the operation, as the chain of commands, a queued batch, or the *)
(* one command whose response finished a round.                            *)

ChainStages == {"validate", "findShard", "local", "network"}
CompleteStages == {"completeCache", "completeStatus", "completeId"}
FailStages == {"failCache", "failStatus", "failId"}
Idle == {"none", "done"}

NoJobs == \A p \in Positions : jobs[p] = 0
OthersIdle(i) == \A j \in Commands \ {i} : stage[j] \in Idle
Undecided == status = "IN_PROGRESS" /\ cache = "none"
AnsweredRequests == {i \in Issued : stage[i] \in Answered}

\* Requests are created in the order of the shard list, and counted once answered
RequestsInOrder ==
  /\ issued <= RemoteNodes
  /\ \A i \in Requests : stage[i] = "none" <=> i > issued
  /\ \A i \in Requests : stage[i] \notin ChainStages \cup {"minAcks"}
  /\ \A i \in Issued : node[i] = i
  /\ acks + nacks = Cardinality(AnsweredRequests)
  /\ cache # "input"

\* While the local chain is at work nothing has been asked of the network
ChainFirst ==
  /\ stage[Local] \in ChainStages \cup CompleteStages \cup FailStages \cup {"done"}
  /\ stage[Local] # "done" => issued = 0 /\ NoJobs
  /\ stage[Local] \in ChainStages => Undecided
  /\ issued = 0 => acks = 0 /\ nacks = 0

\* The requests of the last batch carry the leftover position it ends at
LastBatch ==
  \E prev \in 0 .. issued :
    /\ prev % BatchSize = 0
    /\ issued <= prev + BatchSize
    /\ \A i \in 1 .. prev : stage[i] \in Answered
    /\ \A i \in prev + 1 .. issued : left[i] = issued

JobIsToken ==
  \A p \in Positions : jobs[p] > 0 =>
    /\ jobs[p] = 1 /\ p = issued /\ p % BatchSize = 0
    /\ Undecided /\ acks < MinAcks
    /\ \A j \in Commands : stage[j] \in Idle

ScheduleIsToken ==
  \A i \in Commands : stage[i] = "schedule" =>
    /\ left[i] = issued /\ issued % BatchSize = 0
    /\ NoJobs /\ Undecided /\ acks < MinAcks
    /\ OthersIdle(i)

FailIsToken ==
  \A i \in Commands : stage[i] \in FailStages =>
    /\ NoJobs /\ cache = "none" /\ acks < MinAcks
    /\ status = IF stage[i] = "failId" THEN "FAILED" ELSE "IN_PROGRESS"
    /\ issued > 0 => acks + (RemoteNodes - issued) < MinAcks
    /\ OthersIdle(i)

CompleteIsToken ==
  \A i \in Commands : stage[i] \in CompleteStages =>
    /\ NoJobs /\ (issued > 0 => acks >= MinAcks)
    /\ status = IF stage[i] = "completeId" THEN "COMPLETED" ELSE "IN_PROGRESS"
    /\ cache = IF stage[i] = "completeCache" THEN "none" ELSE "result"
    /\ \A j \in Commands \ {i} : stage[j] \in Idle \cup {"queued", "sent", "skipped"}

DecidedIsFinal ==
  /\ status = "FAILED" =>
       /\ NoJobs /\ cache = "none" /\ acks < MinAcks
       /\ issued > 0 => acks + (RemoteNodes - issued) < MinAcks
       /\ \A j \in Commands : stage[j] \in Idle \cup {"failId"}
  /\ status = "COMPLETED" =>
       /\ NoJobs /\ cache = "result" /\ (issued > 0 => acks >= MinAcks)
       /\ \A j \in Commands :
            stage[j] \in Idle \cup {"queued", "sent", "skipped", "completeId"}
  /\ cache = "result" =>
       status = "COMPLETED" \/ \E i \in Commands : stage[i] = "completeStatus"

\* One decision at a time: what keeps late answers and second batches from
\* interfering with an operation that another response has already decided.
OneToken ==
  /\ TypeOK /\ RequestsInOrder /\ ChainFirst /\ LastBatch
  /\ JobIsToken /\ ScheduleIsToken /\ FailIsToken /\ CompleteIsToken /\ DecidedIsFinal

=============================================================================
