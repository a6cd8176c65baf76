-------------------------- MODULE OperationProtocol --------------------------
(***************************************************************************)
(* One network operation of a node: the commands that find the shard, the  *)
(* commands that schedule batches of requests to the shard's other nodes,  *)
(* the request commands themselves, and the bookkeeping of the operation   *)
(* (response rows, operation row, operation id row, cached data).          *)
(*                                                                         *)
(* GetOperation and PublishOperation extend this module with what the two  *)
(* services decide when a response is recorded.  Every await of the code   *)
(* that other commands of the same operation can overtake is a step.       *)
(*                                                                         *)
(* The remote nodes are numbered in the order of the shard list, so a list *)
(* of leftover nodes, always a suffix of the shard list, is the number of  *)
(* nodes already taken from it.                                            *)
(***************************************************************************)
EXTENDS Integers

CONSTANTS
  RemoteNodes,     \* number of shard nodes other than this node
  SelfInShard,     \* this node is part of the shard
  BatchSize,       \* requests per batch
  MinAcks,         \* minAckResponses of this operation
  OtherMinAcks,    \* minAckResponses of operations of the same kind running beside it
  Retries,         \* retries of a request command (3 in the code)
  MaxRequests      \* bound: request commands created for the operation

ASSUME RemoteNodesAssumption == RemoteNodes \in Nat
ASSUME SelfAssumption == SelfInShard \in BOOLEAN
ASSUME BatchAssumption == BatchSize \in Nat \ {0}
ASSUME MinAcksAssumption == MinAcks \in Nat \ {0} /\ OtherMinAcks \subseteq Nat
ASSUME RetriesAssumption == Retries \in Nat
ASSUME RequestsAssumption == MaxRequests \in Nat /\ MaxRequests >= RemoteNodes

VARIABLES
  status,    \* status of the operation row
  idStatus,  \* status of the operation id row, the one the client polls
  cache,     \* data cached for the operation id: "none", "input" or "result"
  acks,      \* response rows with status COMPLETED
  nacks,     \* response rows with status FAILED
  issued,    \* request commands created so far
  stage,     \* where command i is; command 0 is the operation's own chain of commands
  node,      \* the node request i is sent to
  left,      \* nodes taken from the shard list, of the leftover list in i's data
  retries,   \* retries left of request i
  jobs,      \* jobs[p]: queued ScheduleMessages commands with leftover position p
  ending     \* handlers that still have to write an intermediate event

protocolVars == <<status, idStatus, cache, acks, nacks, issued, stage, node,
                  left, retries, jobs, ending>>

Requests == 1 .. MaxRequests
Local == 0
Commands == Requests \cup {Local}
Positions == 0 .. RemoteNodes

\* numberOfFoundNodes counts this node when it is part of the shard
NumberOfFoundNodes == RemoteNodes + (IF SelfInShard THEN 1 ELSE 0)

BatchEnd(p) == IF p + BatchSize < RemoteNodes THEN p + BatchSize ELSE RemoteNodes

Stages == {"none", "validate", "findShard", "local", "network", "queued", "sent", "skipped",
           "minAcks", "schedule", "completeCache", "completeStatus",
           "completeId", "failCache", "failStatus", "failId", "done"}

\* Stages of a command whose response row has been written
Answered == {"minAcks", "schedule", "completeCache", "completeStatus",
             "completeId", "failCache", "failStatus", "failId", "done"}

ProtocolTypeOK ==
  /\ status \in {"IN_PROGRESS", "COMPLETED", "FAILED"}
  /\ idStatus \in {"PENDING", "COMPLETED", "FAILED"}
  /\ cache \in {"none", "input", "result"}
  /\ acks \in Nat /\ nacks \in Nat
  /\ issued \in 0 .. MaxRequests
  /\ stage \in [Commands -> Stages]
  /\ node \in [Commands -> Positions]
  /\ left \in [Commands -> Positions]
  /\ retries \in [Requests -> Nat]
  /\ jobs \in [Positions -> Nat]
  /\ ending \in Nat

\* first: the command the HTTP controller queues
ProtocolInit(first) ==
  /\ status = "IN_PROGRESS"
  /\ idStatus = "PENDING"
  /\ acks = 0 /\ nacks = 0
  /\ issued = 0
  /\ stage = [i \in Commands |-> IF i = Local THEN first ELSE "none"]
  /\ node = [i \in Commands |-> 0]
  /\ left = [i \in Commands |-> 0]
  /\ retries = [i \in Requests |-> Retries]
  /\ jobs = [p \in Positions |-> 0]

Goto(i, s) == stage' = [stage EXCEPT ![i] = s]

-----------------------------------------------------------------------------
(* The operation's own chain of commands                                   *)

\* The commands that validate the request (and their recover): they mark the operation
\* as failed or continue with the next command of the sequence.
Validate(next) ==
  /\ stage[Local] = "validate"
  /\ \/ Goto(Local, "failCache") /\ idStatus' = idStatus
     \/ Goto(Local, next) /\ idStatus' = "PENDING"
  /\ UNCHANGED <<status, cache, acks, nacks, issued, node, left, retries, jobs, ending>>

\* FindShardCommand.execute.  The handler object is shared by every operation of
\* the same kind and keeps minAckResponses in a field that it reads again after
\* the sharding table query, so it compares with the value written last.  On too
\* few nodes only the operation id row is marked (and the cache removed).
FindShard(next) ==
  /\ stage[Local] = "findShard"
  /\ \E m \in {MinAcks} \cup OtherMinAcks :
       IF NumberOfFoundNodes < m
       THEN idStatus' = "FAILED" /\ cache' = "none" /\ Goto(Local, "done")
       ELSE idStatus' = "PENDING" /\ cache' = cache /\ Goto(Local, next)
  /\ UNCHANGED <<status, acks, nacks, issued, node, left, retries, jobs, ending>>

\* NetworkProtocolCommand.execute: queue the first ScheduleMessages command
StartNetwork ==
  /\ stage[Local] = "network"
  /\ jobs' = [jobs EXCEPT ![0] = @ + 1]
  /\ Goto(Local, "done")
  /\ UNCHANGED <<status, idStatus, cache, acks, nacks, issued, node, left, retries, ending>>

-----------------------------------------------------------------------------
(* Batches and requests                                                    *)

\* ProtocolScheduleMessagesCommand.execute, up to its last event: one request
\* command for each node of the batch.  The requests are added one by one in the
\* code; one that is added late behaves as one that stays queued, so they appear
\* here in one step.
ScheduleMessages(p) ==
  LET new == issued + 1 .. issued + (BatchEnd(p) - p) IN
  /\ jobs[p] > 0
  /\ issued + (BatchEnd(p) - p) <= MaxRequests
  /\ jobs' = [jobs EXCEPT ![p] = @ - 1]
  /\ issued' = issued + (BatchEnd(p) - p)
  /\ stage' = [i \in Commands |-> IF i \in new THEN "queued" ELSE stage[i]]
  /\ node' = [i \in Commands |-> IF i \in new THEN p + (i - issued) ELSE node[i]]
  /\ left' = [i \in Commands |-> IF i \in new THEN BatchEnd(p) ELSE left[i]]
  /\ idStatus' = "PENDING"
  /\ ending' = ending + 1
  /\ UNCHANGED <<status, cache, acks, nacks, retries>>

\* The last statement of ScheduleMessages (and of the HTTP controller that created
\* the operation): an intermediate status, written whatever happened meanwhile.
WriteEndEvent ==
  /\ ending > 0
  /\ ending' = ending - 1
  /\ idStatus' = "PENDING"
  /\ UNCHANGED <<status, cache, acks, nacks, issued, stage, node, left, retries, jobs>>

\* A BUSY answer makes the executor queue the request again with one retry less
BusyAgain(i) ==
  /\ stage[i] = "sent"
  /\ retries[i] > 1
  /\ retries' = [retries EXCEPT ![i] = @ - 1]
  /\ Goto(i, "queued")
  /\ UNCHANGED <<status, idStatus, cache, acks, nacks, issued, node, left, jobs, ending>>

\* Answers after which the service processes a response of the given status: a
\* valid ACK; a NACK, which also stands for a failed dial, a time-out, an unreadable
\* or invalid answer; BUSY when no retry is left (retryFinished).
RequestOutcome(i, outcome) ==
  /\ stage[i] = "sent"
  /\ outcome \in {"COMPLETED", "FAILED"}

\* getResponsesStatuses: under the operation mutex, insert the response row and
\* count the rows; the service then decides from the counts it read.
RecordResponse(outcome) ==
  /\ acks' = acks + (IF outcome = "COMPLETED" THEN 1 ELSE 0)
  /\ nacks' = nacks + (IF outcome = "FAILED" THEN 1 ELSE 0)

-----------------------------------------------------------------------------
(* What follows a decision: the awaits of scheduleOperationForLeftoverNodes, *)
(* markOperationAsCompleted and markOperationAsFailed                        *)

ScheduleLeftover(i) ==
  /\ stage[i] = "schedule"
  /\ jobs' = [jobs EXCEPT ![left[i]] = @ + 1]
  /\ Goto(i, "done")
  /\ UNCHANGED <<status, idStatus, cache, acks, nacks, issued, node, left, retries, ending>>

\* The result replaces the cached data, or the cache is removed (result = "none")
CompleteCache(i, result) ==
  /\ stage[i] = "completeCache"
  /\ cache' = result
  /\ Goto(i, "completeStatus")
  /\ UNCHANGED <<status, idStatus, acks, nacks, issued, node, left, retries, jobs, ending>>

CompleteStatus(i) ==
  /\ stage[i] = "completeStatus"
  /\ status' = "COMPLETED"
  /\ Goto(i, "completeId")
  /\ UNCHANGED <<idStatus, cache, acks, nacks, issued, node, left, retries, jobs, ending>>

CompleteId(i) ==
  /\ stage[i] = "completeId"
  /\ idStatus' = "COMPLETED"
  /\ Goto(i, "done")
  /\ UNCHANGED <<status, cache, acks, nacks, issued, node, left, retries, jobs, ending>>

FailCache(i) ==
  /\ stage[i] = "failCache"
  /\ cache' = "none"
  /\ Goto(i, "failStatus")
  /\ UNCHANGED <<status, idStatus, acks, nacks, issued, node, left, retries, jobs, ending>>

FailStatus(i) ==
  /\ stage[i] = "failStatus"
  /\ status' = "FAILED"
  /\ Goto(i, "failId")
  /\ UNCHANGED <<idStatus, cache, acks, nacks, issued, node, left, retries, jobs, ending>>

\* updateOperationIdStatus with an error message also removes the cached data
FailId(i) ==
  /\ stage[i] = "failId"
  /\ idStatus' = "FAILED"
  /\ cache' = "none"
  /\ Goto(i, "done")
  /\ UNCHANGED <<status, acks, nacks, issued, node, left, retries, jobs, ending>>

AfterDecision(i, result) ==
  \/ ScheduleLeftover(i)
  \/ CompleteCache(i, result) \/ CompleteStatus(i) \/ CompleteId(i)
  \/ FailCache(i) \/ FailStatus(i) \/ FailId(i)

=============================================================================
