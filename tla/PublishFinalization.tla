------------------------- MODULE PublishFinalization -------------------------
(***************************************************************************)
(* What follows a publish: every node that holds the data set in its       *)
(* pending storage sees the event of the new knowledge collection, reads   *)
(* the file, compares it with the chain, inserts the collection into its   *)
(* triple store and has the publisher count its finality acknowledgement.  *)
(* A task <<n, k>> is the sequence of commands started by the k-th time    *)
(* node n handled the event.                                               *)
(***************************************************************************)
EXTENDS TripleStore

CONSTANTS
  Publisher,    \* node that accepted the publish and counts acknowledgements
  Listening,    \* sets of nodes whose event listeners may be the ones that run
  ReadRetries   \* MAX_RETRIES_READ_CACHED_PUBLISH_DATA

ASSUME FinalizationAssumption ==
  Publisher \in Nodes /\ ReadRetries \in Nat \ {0} /\ Listening \subseteq SUBSET Nodes

VARIABLES
  listening, \* nodes that see the event
  file,      \* nodes with the data set in pending storage
  matches,   \* root and size of the data set equal those of the event
  pc,        \* command a task is at
  retries,   \* retries left of ReadCachedPublishDataCommand
  status,    \* status of the task's latest operation id
  requests,  \* finality requests on their way or in the publisher's queue
  acks,      \* finality_status rows of the publisher: one per peer
  faults     \* per node, what happened to it (history)

commandVars == <<pc, retries, status>>
networkVars == <<requests, acks>>
vars == <<storeVars, commandVars, networkVars, listening, file, matches, faults>>

Commands == {"unseen", "read", "validate", "store", "insert", "network", "waiting", "nacked",
             "ended", "lost"}

TypeOK ==
  /\ StoreTypeOK
  /\ listening \in Listening /\ file \subseteq Nodes
  /\ matches \in BOOLEAN
  /\ pc \in [Task -> Commands]
  /\ retries \in [Task -> 1..ReadRetries]
  /\ status \in [Task -> {"none", "START", "STORE_START", "STORE_END", "COMPLETED", "FAILED"}]
  /\ requests \subseteq Task
  /\ acks \subseteq Nodes
  /\ faults \in [Nodes -> SUBSET {"gaveUp", "crash", "twice", "cleaned", "unread", "thrown"}]

\* The publisher cached its data set when it accepted the request.
Init ==
  /\ StoreInit
  /\ listening \in Listening
  /\ file = {Publisher}
  /\ matches \in BOOLEAN
  /\ pc = [t \in Task |-> "unseen"]
  /\ retries = [t \in Task |-> ReadRetries]
  /\ status = [t \in Task |-> "none"]
  /\ requests = {} /\ acks = {}
  /\ faults = [n \in Nodes |-> {}]

GoTo(t, c) == pc' = [pc EXCEPT ![t] = c]
SetStatus(t, s) == status' = [status EXCEPT ![t] = s]
Fault(n, f) == faults' = [faults EXCEPT ![n] = @ \cup {f}]

----------------------------------------------------------------------------
(* Pending storage *)

\* A store request that passed validation, before or after the event is seen.
HandleStoreRequest(n) ==
  /\ n \notin file /\ "cleaned" \notin faults[n]
  /\ file' = file \cup {n}
  /\ UNCHANGED <<storeVars, commandVars, networkVars, matches, faults>>

\* The file has become old enough; whether a task still needs it is not asked.
RemoveExpiredFileCache(n) ==
  /\ n \in file /\ errors < MaxErrors
  /\ file' = file \ {n}
  /\ errors' = errors + 1
  /\ Fault(n, "cleaned")
  /\ UNCHANGED <<contents, progress, commandVars, networkVars, matches>>

----------------------------------------------------------------------------
(* The sequence of commands *)

\* A poll whose transaction is rolled back, or that is cut off, handles it again.
HandleEvent(t) ==
  /\ pc[t] = "unseen" /\ NodeOf(t) \in listening
  /\ \A k \in 1..(t[2] - 1) : pc[<<NodeOf(t), k>>] # "unseen"
  /\ GoTo(t, "read")
  /\ faults' = [faults EXCEPT ![NodeOf(t)] = IF t[2] > 1 THEN @ \cup {"twice"} ELSE @]
  /\ UNCHANGED <<storeVars, retries, status, networkVars, file, matches>>

\* Every attempt creates an operation id; the last one is not told of the failure.
ReadCachedPublishData(t) ==
  /\ pc[t] = "read"
  /\ SetStatus(t, "START")
  /\ IF NodeOf(t) \in file
       THEN GoTo(t, "validate") /\ UNCHANGED <<retries, faults>>
       ELSE IF retries[t] > 1
       THEN retries' = [retries EXCEPT ![t] = @ - 1] /\ UNCHANGED <<pc, faults>>
       ELSE GoTo(t, "ended") /\ Fault(NodeOf(t), "unread") /\ UNCHANGED retries
  /\ UNCHANGED <<storeVars, networkVars, file, matches>>

\* A wrong root or size fails the operation id and the sequence goes on.
ValidateAssertionMetadata(t) ==
  /\ pc[t] = "validate"
  /\ IF matches THEN UNCHANGED status ELSE SetStatus(t, "FAILED")
  /\ GoTo(t, "store")
  /\ UNCHANGED <<storeVars, retries, networkVars, file, matches, faults>>

StoreAssertion(t) ==
  /\ pc[t] = "store"
  /\ SetStatus(t, "STORE_START")
  /\ AskExists(t) \/ AskExistsFails(t)
  /\ GoTo(t, "insert")
  /\ UNCHANGED <<retries, networkVars, file, matches, faults>>

\* The publisher counts itself; the others append the finality request.
AfterInsert(t) ==
  /\ pc[t] = "insert" /\ insertion[t] = "stored"
  /\ SetStatus(t, "STORE_END")
  /\ IF NodeOf(t) = Publisher
       THEN acks' = acks \cup {Publisher} /\ GoTo(t, "ended")
       ELSE GoTo(t, "network") /\ UNCHANGED acks
  /\ UNCHANGED <<storeVars, retries, requests, file, matches, faults>>

\* Mutant: the error of the insertion is swallowed.
InsertFailedSilently(t) ==
  /\ pc[t] = "insert" /\ insertion[t] \in {"failed", "unasked"}
  /\ GoTo(t, "ended")
  /\ UNCHANGED <<storeVars, retries, status, networkVars, file, matches, faults>>

InsertFailed(t) ==
  /\ pc[t] = "insert" /\ insertion[t] \in {"failed", "unasked"}
  /\ SetStatus(t, "FAILED") /\ GoTo(t, "ended")
  /\ UNCHANGED <<storeVars, retries, networkVars, file, matches, faults>>

\* What else may throw: the validation, an update of the status, the row of the publisher's
\* own acknowledgement.  The catch of the command, or else its recover, ends the sequence.
CommandThrows(t) ==
  /\ pc[t] \in {"validate", "store"} \/ (pc[t] = "insert" /\ insertion[t] = "stored")
  /\ errors < MaxErrors
  /\ errors' = errors + 1
  /\ SetStatus(t, "FAILED") /\ GoTo(t, "ended") /\ Fault(NodeOf(t), "thrown")
  /\ UNCHANGED <<contents, progress, retries, networkVars, file, matches>>

----------------------------------------------------------------------------
(* Finality *)

\* One node, found without a shard lookup; the message arrives or is lost.
RequestFinality(t) ==
  /\ pc[t] = "network"
  /\ GoTo(t, "waiting")
  /\ requests' \in {requests, requests \cup {t}}
  /\ UNCHANGED <<storeVars, retries, status, acks, file, matches, faults>>

\* Whether or not the row was written, no answer is sent: the command was added
\* with an empty sequence.
PublishFinalitySaveAck(t) ==
  /\ t \in requests
  /\ requests' = requests \ {t}
  /\ acks' \in {acks, acks \cup {NodeOf(t)}}
  /\ UNCHANGED <<storeVars, commandVars, file, matches, faults>>

\* The request times out, which is a NACK.
HandleNack(t) ==
  /\ pc[t] = "waiting"
  /\ SetStatus(t, "COMPLETED") /\ GoTo(t, "nacked")
  /\ UNCHANGED <<storeVars, retries, networkVars, file, matches, faults>>

\* FinalityService.processResponse of a failed response.
ProcessResponse(t) ==
  /\ pc[t] = "nacked"
  /\ SetStatus(t, "FAILED") /\ GoTo(t, "ended")
  /\ UNCHANGED <<storeVars, retries, networkVars, file, matches, faults>>

----------------------------------------------------------------------------
(* Crash and restart of a node: children of completed commands start again, *)
(* commands that were added on their own are gone. A request in the queue   *)
(* of the publisher is lost, as one that is never handled.                  *)

Replayed(c) ==
  IF c = "insert" THEN "store"
  ELSE IF c \in {"read", "waiting", "nacked"} THEN "lost"
  ELSE c

Crash(n) ==
  /\ errors < MaxErrors
  /\ errors' = errors + 1
  /\ Fault(n, "crash")
  /\ StopInsertions(n)
  /\ pc' = [t \in Task |-> IF NodeOf(t) = n THEN Replayed(pc[t]) ELSE pc[t]]
  /\ UNCHANGED <<retries, status, networkVars, file, matches>>

----------------------------------------------------------------------------
GaveUp(t) == \E v \in Visibility : GraphFails(t, v) /\ next'[t][v] # next[t][v]

InsertStep(t) ==
  /\ StoreStep(t) \/ StoreFault(t)
  /\ IF GaveUp(t) THEN Fault(NodeOf(t), "gaveUp") ELSE UNCHANGED faults
  /\ UNCHANGED <<commandVars, networkVars, file, matches>>

\* Steps the code takes by itself.
CommandStep(t) ==
  \/ ReadCachedPublishData(t) \/ ValidateAssertionMetadata(t) \/ StoreAssertion(t)
  \/ AfterInsert(t) \/ InsertFailed(t) \/ RequestFinality(t) \/ HandleNack(t)
  \/ ProcessResponse(t)

Work(t) == CommandStep(t) \/ (StoreStep(t) /\ InsertStep(t))

Step ==
  \/ \E n \in listening : HandleStoreRequest(n) \/ RemoveExpiredFileCache(n) \/ Crash(n)
  \/ \E t \in Task :
       \/ HandleEvent(t) \/ CommandStep(t) \/ CommandThrows(t) \/ InsertStep(t)
       \/ PublishFinalitySaveAck(t)

Next == Step /\ UNCHANGED listening

Spec == Init /\ [][Next]_vars

\* The command queue runs what it holds and the queries of an insertion return;
\* nothing is assumed of events, requests of other nodes, cleaners and faults.
FairSpec == Spec /\ \A t \in Task : WF_vars(Work(t) /\ UNCHANGED listening)

----------------------------------------------------------------------------
Writing(n) == \E k \in 1..RoundsOf(n) : next[<<n, k>>] # Finished

(* A node whose acknowledgement the publisher counted holds the whole       *)
(* collection with its metadata, unless it crashed or gave a graph up; one  *)
(* that handles the event twice may still be inserting, since the second    *)
(* insertion takes the first graph for the collection.                      *)
AckMeansStored ==
  \A n \in acks :
    /\ metadata[n] = 1..Assets
    /\ faults[n] \cap {"gaveUp", "crash"} = {} =>
         Whole(n) \/ ("twice" \in faults[n] /\ Writing(n))

(* A sequence ends with the collection stored, or because its metadata was  *)
(* not inserted, the query for its graphs failed or a command threw, all    *)
(* of which leave a failed operation id, or after all attempts to read the  *)
(* file.                                                                    *)
EndsForAReason ==
  \A t \in Task :
    pc[t] = "ended" =>
      \/ insertion[t] = "stored"
      \/ /\ status[t] = "FAILED"
         /\ meta[t] = "failed" \/ insertion[t] = "unasked" \/ "thrown" \in faults[NodeOf(t)]
      \/ retries[t] = 1 /\ "unread" \in faults[NodeOf(t)]

(* A node that reads the file and meets none of these faults stores the     *)
(* collection, and the publisher counts itself.                             *)
StoredInTheEnd ==
  \A t \in Task :
    (pc[t] = "validate") ~>
      \/ faults[NodeOf(t)] \cap {"gaveUp", "crash", "twice", "thrown"} # {}
      \/ meta[t] = "failed" \/ insertion[t] = "unasked"
      \/ Whole(NodeOf(t)) /\ (NodeOf(t) = Publisher => Publisher \in acks)

=============================================================================
