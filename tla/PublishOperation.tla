-------------------------- MODULE PublishOperation --------------------------
(***************************************************************************)
(* The publish operation: the publisher stores nothing remotely itself; it *)
(* signs the data set (LocalStoreCommand), which counts as the first       *)
(* response and starts the batches, and then collects the signatures of    *)
(* the shard's other nodes.  Operations of the previous API version        *)
(* (isOperationV0) skip the local response and start the batches directly. *)
(***************************************************************************)
EXTENDS OperationProtocol, FiniteSets

CONSTANT
  Versions         \* the values of isOperationV0 to consider

ASSUME VersionsAssumption == Versions \subseteq BOOLEAN

VARIABLES
  isOperationV0,   \* published through the v0 HTTP route, part of every command's data
  minAcksReached,  \* field of the operation id row, polled by the client
  after            \* after[i]: what command i does once it has set minAcksReached

publishVars == <<minAcksReached, after, isOperationV0>>
vars == <<protocolVars, publishVars>>

\* The two controllers differ in the mark they leave in the command's data.
PublishV0 == TRUE \in Versions /\ isOperationV0 = TRUE
PublishV1 == FALSE \in Versions /\ isOperationV0 = FALSE

\* The dataset is cached before the first command is queued
Init ==
  /\ ProtocolInit("findShard")
  /\ cache = "input"
  /\ ending = 0
  /\ minAcksReached = FALSE
  /\ after = [i \in Commands |-> "done"]
  /\ PublishV0 \/ PublishV1

\* Mutants of Decision: the last response not awaited, the minimum exceeded instead of
\* reached, and batches scheduled or given up at every response or counted without the
\* node's own response.
DecisionOneShort(completed, total, taken) ==
  IF total >= NumberOfFoundNodes - 1
  THEN IF completed >= MinAcks THEN "completeCache" ELSE "failCache"
  ELSE IF (total - 1) % BatchSize = 0 /\ RemoteNodes > taken THEN "schedule" ELSE "done"
DecisionAboveMinimum(completed, total, taken) ==
  IF total = NumberOfFoundNodes
  THEN IF completed > MinAcks THEN "completeCache" ELSE "failCache"
  ELSE IF (total - 1) % BatchSize = 0 /\ RemoteNodes > taken THEN "schedule" ELSE "done"
DecisionAtEveryResponse(completed, total, taken) ==
  LET canStillReach == completed + (RemoteNodes - taken) >= MinAcks
  IN IF total = NumberOfFoundNodes
     THEN IF completed >= MinAcks THEN "completeCache" ELSE "failCache"
     ELSE IF RemoteNodes > taken /\ canStillReach THEN "schedule"
     ELSE IF ~canStillReach THEN "failCache" ELSE "done"
DecisionWithoutOwnResponse(completed, total, taken) ==
  IF total = NumberOfFoundNodes
  THEN IF completed >= MinAcks THEN "completeCache" ELSE "failCache"
  ELSE IF total % BatchSize = 0 /\ RemoteNodes > taken THEN "schedule" ELSE "done"
\* PublishService.processResponse, steps 2 and 3, from the counts read under the mutex
Decision(completed, total, taken) ==
  LET leftover == RemoteNodes - taken
      canStillReach == completed + leftover >= MinAcks
      canScheduleBatch == (total - 1) % BatchSize = 0
  IN IF total = NumberOfFoundNodes
     THEN IF completed >= MinAcks THEN "completeCache" ELSE "failCache"
     ELSE IF leftover > 0 /\ canStillReach /\ canScheduleBatch THEN "schedule"
     ELSE IF ~canStillReach /\ canScheduleBatch THEN "failCache"
     ELSE "done"

\* Mutant of ProcessResponse: minAcksReached is set one acknowledgement too late
ProcessResponseLate(i, outcome) ==
  LET decision == Decision(acks', acks' + nacks', left[i]) IN
  /\ RecordResponse(outcome)
  /\ IF acks' = MinAcks + 1
     THEN Goto(i, "minAcks") /\ after' = [after EXCEPT ![i] = decision]
     ELSE Goto(i, decision) /\ after' = after

\* PublishService.processResponse up to its first await after the mutex
ProcessResponse(i, outcome) ==
  LET decision == Decision(acks', acks' + nacks', left[i]) IN
  /\ RecordResponse(outcome)
  /\ IF acks' = MinAcks
     THEN Goto(i, "minAcks") /\ after' = [after EXCEPT ![i] = decision]
     ELSE Goto(i, decision) /\ after' = after

\* Step 1 of processResponse: updateMinAcksReached
SetMinAcksReached(i) ==
  /\ stage[i] = "minAcks"
  /\ minAcksReached' = TRUE
  /\ Goto(i, after[i])
  /\ UNCHANGED <<status, idStatus, cache, acks, nacks, issued, node, left, retries,
                 jobs, ending, after, isOperationV0>>

\* The node signs the data set for itself and as the publisher: its own response,
\* carrying the whole shard list. Outside the shard it is a FAILED response.
SignAsPublisher ==
  /\ ProcessResponse(Local, IF SelfInShard THEN "COMPLETED" ELSE "FAILED")
  /\ idStatus' = "PENDING" /\ cache' = cache

\* An exception (signing, storage) only marks the operation id row.
LocalStoreFails ==
  /\ Goto(Local, "done")
  /\ idStatus' = "FAILED" /\ cache' = "none"
  /\ UNCHANGED <<acks, nacks, after>>

LocalStore ==
  /\ stage[Local] = "local"
  /\ SignAsPublisher \/ LocalStoreFails
  /\ UNCHANGED <<status, issued, node, left, retries, jobs, ending, minAcksReached,
                 isOperationV0>>

\* PublishRequestCommand.prepareMessage reads the dataset from the cache and throws
\* when it is gone; the executor retries, and at last records a FAILED response.
Dispatch(i) ==
  /\ stage[i] = "queued" /\ cache # "none"
  /\ Goto(i, "sent")
  /\ UNCHANGED <<status, idStatus, cache, acks, nacks, issued, node, left, retries,
                 jobs, ending, publishVars>>

DispatchFails(i) ==
  /\ stage[i] = "queued" /\ cache = "none"
  /\ \/ /\ retries[i] > 0
        /\ retries' = [retries EXCEPT ![i] = @ - 1]
        /\ UNCHANGED <<acks, nacks, stage, after>>
     \/ /\ retries[i] = 0
        /\ ProcessResponse(i, "FAILED")
        /\ UNCHANGED retries
  /\ UNCHANGED <<status, idStatus, cache, issued, node, left, jobs, ending, minAcksReached,
                 isOperationV0>>

Answer(i, outcome) ==
  /\ RequestOutcome(i, outcome)
  /\ ProcessResponse(i, outcome)
  /\ UNCHANGED <<status, idStatus, cache, issued, node, left, retries, jobs, ending,
                 minAcksReached, isOperationV0>>

RequestStep(i) ==
  \/ Dispatch(i) \/ DispatchFails(i)
  \/ BusyAgain(i) /\ UNCHANGED publishVars
  \/ \E outcome \in {"COMPLETED", "FAILED"} : Answer(i, outcome)

\* responseData is null, so completing removes the cached dataset
DecisionStep(i) ==
  \/ SetMinAcksReached(i)
  \/ AfterDecision(i, "none") /\ UNCHANGED publishVars

\* getOperationCommandSequence: what follows FindShard
NextInSequence == IF isOperationV0 THEN "network" ELSE "validate"

ChainStep ==
  \/ FindShard(NextInSequence) /\ UNCHANGED publishVars
  \/ Validate("local") /\ UNCHANGED publishVars
  \/ LocalStore
  \/ StartNetwork /\ UNCHANGED publishVars

BatchStep(p) == ScheduleMessages(p) /\ UNCHANGED publishVars
EndEventStep == WriteEndEvent /\ UNCHANGED publishVars

Next ==
  \/ ChainStep
  \/ \E p \in Positions : BatchStep(p)
  \/ EndEventStep
  \/ \E i \in Requests : RequestStep(i)
  \/ \E i \in Commands : DecisionStep(i)

Spec == Init /\ [][Next]_vars

\* Every queued command is executed and every message is answered or times out
Fairness ==
  /\ WF_vars(ChainStep)
  /\ \A p \in Positions : WF_vars(BatchStep(p))
  /\ WF_vars(EndEventStep)
  /\ \A i \in Requests : WF_vars(RequestStep(i))
  /\ \A i \in Commands : WF_vars(DecisionStep(i))

FairSpec == Spec /\ Fairness

-----------------------------------------------------------------------------
(* Properties.  Those that count on the node's own response being the first *)
(* are stated for the current version only.                                *)

Outstanding == {i \in Requests : stage[i] \in {"queued", "sent"}}

TypeOK ==
  /\ ProtocolTypeOK
  /\ minAcksReached \in BOOLEAN
  /\ after \in [Commands -> Answered]
  /\ isOperationV0 \in BOOLEAN

\* "Check if all responses have been received" (publish-service.js:74): COMPLETED is
\* written only after every other node of the shard was asked and has answered.
CompletedAfterAll ==
  (~isOperationV0 /\ status = "COMPLETED") => issued = RemoteNodes /\ Outstanding = {}

\* A client that was told minAcksReached, and so got the signatures, is not told
\* that the publish failed (publish-service.js:66-95).
AcksReachedNotFailed == (~isOperationV0 /\ minAcksReached) => status # "FAILED"

\* A publish that failed after its validation means the nodes that were not asked
\* cannot make up the missing acknowledgements, and nobody is still being asked.
FailedOnlyIfHopeless ==
  (~isOperationV0 /\ status = "FAILED" /\ acks + nacks > 0) =>
     /\ acks + (RemoteNodes - issued) < MinAcks
     /\ Outstanding = {}

\* A publish reaches a final status for the client.
Answers == <>(isOperationV0 \/ idStatus # "PENDING")

\* With enough acknowledgements the client is eventually told so.
AcksAreReported == (acks >= MinAcks) ~> minAcksReached

=============================================================================
