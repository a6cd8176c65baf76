----------------------------- MODULE ParanetSync -----------------------------
(***************************************************************************)
(* The collections of a paranet are brought to the node: paranetSync-      *)
(* Command records the collections of the contract that it does not know,  *)
(* takes a batch of those that are not synced, gets every state of each of *)
(* them with a get operation that it polls, and inserts it.                *)
(***************************************************************************)
EXTENDS Integers, FiniteSets

CONSTANTS
  Collections,  \* collections that the paranet may have, in the order of the contract
  Unavailable,  \* those that no get operation finds
  States,       \* merkle roots of a collection
  BatchSize,    \* PARANET_SYNC_KA_COUNT
  MaxErrors     \* failing calls and queries, timeouts and crashes (bound)

ParanetAssumption ==
  /\ Collections \in Nat \ {0} /\ States \in Nat \ {0} /\ BatchSize \in Nat \ {0}
  /\ Unavailable \subseteq 1..Collections /\ MaxErrors \in Nat

Collection == 1..Collections

VARIABLES
  contract,   \* number of collections in the contract
  row,        \* paranet_kc rows: none, unsynced or synced
  stored,     \* state whose insertion made the graphs of a collection, 0 for none
  sync,       \* where paranetSyncCommand is; down when the node is
  offset, limit, \* countDatabase, countContract
  stage,      \* of every collection of the batch
  state,      \* stateIndex
  answer,     \* operation id status of its get operation
  stray,      \* collections of an earlier batch that go on although its command failed
  errors

batch == <<stage, state, answer, stray>>
paranetVars == <<contract, row, stored, sync, offset, limit, batch>>
vars == <<paranetVars, errors>>

ParanetTypeOK ==
  /\ contract \in 0..Collections
  /\ row \in [Collection -> {"none", "unsynced", "synced"}]
  /\ stored \in [Collection -> 0..States]
  /\ sync \in {"down", "wait", "locators", "batch", "sync"}
  /\ offset \in 0..Collections /\ limit \in 0..Collections
  /\ stage \in [Collection -> {"idle", "get", "poll", "insert", "mark", "failed", "end"}]
  /\ state \in [Collection -> 0..States]
  /\ answer \in [Collection -> {"none", "completed", "failed"}]
  /\ stray \subseteq Collection
  /\ errors \in 0..MaxErrors

NoBatch ==
  /\ stage' = [k \in Collection |-> "idle"]
  /\ state' = [k \in Collection |-> 0]
  /\ answer' = [k \in Collection |-> "none"]

ParanetInit ==
  /\ contract = 0 /\ sync = "down" /\ offset = 0 /\ limit = 0
  /\ row = [k \in Collection |-> "none"] /\ stored = [k \in Collection |-> 0]
  /\ stage = [k \in Collection |-> "idle"]
  /\ state = [k \in Collection |-> 0]
  /\ answer = [k \in Collection |-> "none"]
  /\ stray = {}

Fails == errors < MaxErrors /\ errors' = errors + 1
Works == UNCHANGED errors

Rows == {k \in Collection : row[k] # "none"}
Unsynced == {k \in Collection : row[k] = "unsynced"}

----------------------------------------------------------------------------

\* A collection is submitted to the paranet.
Submit ==
  /\ contract < Collections /\ contract' = contract + 1
  /\ UNCHANGED <<row, stored, sync, offset, limit, batch, errors>>

\* initializeParanets, then startParanetSyncCommands removes the commands that
\* the last run of the node left and adds new ones.
StartParanetSync ==
  /\ sync = "down" /\ Works
  /\ sync' = "wait"
  /\ UNCHANGED <<contract, row, stored, offset, limit, batch>>

\* A crash; also an error of the metadata call, which nobody awaits.
Crash ==
  /\ sync # "down" /\ Fails
  /\ sync' = "down" /\ offset' = 0 /\ limit' = 0 /\ NoBatch /\ stray' = {}
  /\ UNCHANGED <<contract, row, stored>>

\* Both counts, before the locators are asked for.
CountCollections ==
  /\ sync = "wait" /\ Works
  /\ sync' = "locators" /\ limit' = contract /\ offset' = Cardinality(Rows)
  /\ UNCHANGED <<contract, row, stored, batch>>

\* The page of locators from countDatabase on becomes rows, all or none.
CreateParanetKcRecords ==
  /\ sync = "locators" /\ Works
  /\ row' = [k \in Collection |->
               IF k > offset /\ k <= offset + limit /\ k <= contract THEN "unsynced" ELSE row[k]]
  /\ sync' = "batch" /\ offset' = 0 /\ limit' = 0
  /\ UNCHANGED <<contract, stored, batch>>

\* Mutant: the first rows, synced or not.
SyncBatchOfAll == {k \in Unsynced : Cardinality({j \in Rows : j < k}) < BatchSize}

\* The first rows that are not synced: the retries of a row stay 0, since
\* incrementRetries looks for rows that have the message already.
SyncBatch == {k \in Unsynced : Cardinality({j \in Unsynced : j < k}) < BatchSize}

StartBatch ==
  /\ sync = "batch" /\ Works
  /\ IF Unsynced = {}
       THEN sync' = "wait" /\ UNCHANGED stage
       ELSE sync' = "sync" /\ stage' = [k \in Collection |-> IF k \in SyncBatch THEN "get" ELSE "idle"]
  /\ UNCHANGED <<contract, row, stored, offset, limit, state, answer, stray>>

\* An error before the batch: the command is recovered and repeats.
CommandFails ==
  /\ sync \in {"locators", "batch"} /\ Fails
  /\ sync' = "wait" /\ offset' = 0 /\ limit' = 0
  /\ UNCHANGED <<contract, row, stored, batch>>

Goes(k, p) == stage' = [stage EXCEPT ![k] = p]

\* syncKcState makes a get operation for the next state and adds its command.
StartGet(k) ==
  /\ stage[k] = "get" /\ Works
  /\ Goes(k, "poll") /\ state' = [state EXCEPT ![k] = @ + 1] /\ answer' = [answer EXCEPT ![k] = "none"]
  /\ UNCHANGED <<contract, row, stored, sync, offset, limit, stray>>

\* The get operation ends; it fails for a collection that nobody has.
Answered(k) ==
  /\ stage[k] = "poll" /\ answer[k] = "none"
  /\ \/ k \notin Unavailable /\ answer' = [answer EXCEPT ![k] = "completed"] /\ Works
     \/ answer' = [answer EXCEPT ![k] = "failed"] /\ IF k \in Unavailable THEN Works ELSE Fails
  /\ UNCHANGED <<contract, row, stored, sync, offset, limit, stage, state, stray>>

\* The status is polled; after GET_RESULT_POLLING_MAX_ATTEMPTS the collection
\* has failed, whatever the operation does later.
Poll(k) ==
  /\ stage[k] = "poll"
  /\ \/ answer[k] = "completed" /\ Goes(k, "insert") /\ Works
     \/ answer[k] = "failed" /\ Goes(k, "failed") /\ Works
     \/ answer[k] = "none" /\ Goes(k, "failed") /\ IF k \in Unavailable THEN Works ELSE Fails
  /\ UNCHANGED <<contract, row, stored, sync, offset, limit, state, answer, stray>>

\* Once the collection has graphs, insertKnowledgeCollection inserts only metadata.
InsertKnowledgeCollection(k) ==
  /\ stage[k] = "insert" /\ Works
  /\ stored' = [stored EXCEPT ![k] = IF @ = 0 THEN state[k] ELSE @]
  /\ Goes(k, IF state[k] < States THEN "get" ELSE "mark")
  /\ UNCHANGED <<contract, row, sync, offset, limit, state, answer, stray>>

\* An insertion that fails may leave some of its graphs.
InsertFails(k) ==
  /\ stage[k] = "insert" /\ Fails
  /\ stored' \in {stored, [stored EXCEPT ![k] = IF @ = 0 THEN state[k] ELSE @]}
  /\ Goes(k, "failed")
  /\ UNCHANGED <<contract, row, sync, offset, limit, state, answer, stray>>

ParanetKcMarkAsSynced(k) ==
  /\ stage[k] = "mark"
  /\ \/ row' = [row EXCEPT ![k] = "synced"] /\ Goes(k, "end") /\ Works
     \/ UNCHANGED row /\ Goes(k, "failed") /\ Fails
  /\ UNCHANGED <<contract, stored, sync, offset, limit, state, answer, stray>>

\* No row has the message yet: the retries of a failed collection stay 0.
ParanetKcIncrementRetries(k) ==
  /\ stage[k] = "failed" /\ Works
  /\ Goes(k, "end")
  /\ UNCHANGED <<contract, row, stored, sync, offset, limit, state, answer, stray>>

\* When that query fails the command fails and is repeated, and the other
\* collections of the batch go on beside those of the next.
IncrementRetriesFails(k) ==
  /\ stage[k] = "failed" /\ Fails
  /\ sync' = "wait" /\ NoBatch
  /\ stray' = stray \cup {j \in Collection \ {k} : stage[j] \notin {"idle", "end"}}
  /\ UNCHANGED <<contract, row, stored, offset, limit>>

\* What such a collection may do at any time: insert a state, and be marked as
\* synced after that, or fail.
StraySyncs(k) ==
  /\ k \in stray /\ Works
  /\ \/ /\ k \notin Unavailable /\ stored[k] = 0
        /\ \E s \in 1..States : stored' = [stored EXCEPT ![k] = s]
        /\ UNCHANGED <<row, stray>>
     \/ /\ stored[k] # 0 /\ row' \in {row, [row EXCEPT ![k] = "synced"]}
        /\ stray' = stray \ {k} /\ UNCHANGED stored
     \/ stray' = stray \ {k} /\ UNCHANGED <<row, stored>>
  /\ UNCHANGED <<contract, sync, offset, limit, stage, state, answer>>

EndBatch ==
  /\ sync = "sync" /\ \A k \in Collection : stage[k] \in {"idle", "end"}
  /\ sync' = "wait" /\ NoBatch /\ Works
  /\ UNCHANGED <<contract, row, stored, offset, limit, stray>>

SyncKc(k) ==
  \/ StartGet(k) \/ Answered(k) \/ Poll(k) \/ InsertKnowledgeCollection(k)
  \/ ParanetKcMarkAsSynced(k) \/ ParanetKcIncrementRetries(k)

ParanetStep ==
  StartParanetSync \/ CountCollections \/ CreateParanetKcRecords \/ StartBatch \/ EndBatch

ParanetNext ==
  \/ Submit \/ ParanetStep \/ Crash \/ CommandFails
  \/ \E k \in Collection : SyncKc(k) \/ InsertFails(k) \/ IncrementRetriesFails(k) \/ StraySyncs(k)

\* The executor repeats the command; every polling loop ends, and an answer
\* that comes at all comes before the last poll unless errors lets it not.
ParanetFairness ==
  /\ WF_vars(ParanetStep)
  /\ \A k \in Collection : WF_vars(SyncKc(k))

Spec == ParanetInit /\ errors = 0 /\ [][ParanetNext]_vars /\ ParanetFairness

----------------------------------------------------------------------------
(* Properties *)

\* Every collection that can be found is synced in the end, as long as those that
\* cannot are fewer than a batch: they are tried again in every period, since
\* their retries are never counted (incrementRetries).
CollectionsAreSynced ==
  Cardinality(Unavailable) < BatchSize =>
    \A k \in Collection \ Unavailable : contract >= k ~> row[k] = "synced"

=============================================================================
