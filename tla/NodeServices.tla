---------------------------- MODULE NodeServices -----------------------------
(***************************************************************************)
(* What the node does beside its operations: it replaces its code, finds   *)
(* its profile, keeps the sharding table, synchronizes paranets, reads         *)
(* collections and serves results.  The six share no state, so a behaviour *)
(* is one of any of them; what goes wrong is bounded by the same number.   *)
(***************************************************************************)
EXTENDS Integers

CONSTANTS
  Nodes, PageSize, Concurrency, Initial, MaxChanges,  \* ShardingTable
  Collections, Unavailable, States, BatchSize,        \* ParanetSync
  Versions,                                           \* AutoUpdate
  Wallets, Tries,                                     \* BlockchainProfile
  Lifetime, MaxClock,                                 \* OperationResults
  Assets,                                             \* CollectionReads
  MaxErrors

VARIABLES
  service,  \* the one that is observed
  chain, changes, departed, rows, pull, length, start, pulled, dials, dialed, cached, seen,
  contract, row, stored, sync, offset, limit, stage, state, answer, stray,
  remote, content, modules, current, running, step, target, archive,
  owner, pending, wallets, queues, identity, phase, existed, retries, unseen,
  clock, record, memory, file, query, cleaner, request, reply,
  get, burned, old, graphs, migrated, at, flag, known, range, found, outcome, begun,
  errors

Sharding == INSTANCE ShardingTable
Paranet == INSTANCE ParanetSync
Updater == INSTANCE AutoUpdate
Profile == INSTANCE BlockchainProfile
Results == INSTANCE OperationResults
Reads == INSTANCE CollectionReads

ASSUME ServicesAssumption ==
  /\ Sharding!ShardingAssumption /\ Paranet!ParanetAssumption
  /\ Updater!UpdateAssumption /\ Profile!ProfileAssumption
  /\ Results!ResultsAssumption /\ Reads!ReadsAssumption

shardVars == <<chain, changes, departed, rows, pull, length, start, pulled, dials, dialed, cached, seen>>
paranetVars == <<contract, row, stored, sync, offset, limit, stage, state, answer, stray>>
updateVars == <<remote, content, modules, current, running, step, target, archive>>
profileVars == <<owner, pending, wallets, queues, identity, phase, existed, retries, unseen>>
resultVars == <<clock, record, memory, file, query, cleaner, request, reply>>
readVars == <<get, burned, old, graphs, migrated, at, flag, known, range, found, outcome, begun>>
vars == <<service, shardVars, paranetVars, updateVars, profileVars, resultVars, readVars, errors>>

Init ==
  /\ service \in {"sharding", "paranet", "updater", "profile", "results", "reads"}
  /\ Sharding!ShardInit /\ Paranet!ParanetInit /\ Updater!UpdateInit
  /\ Profile!ProfileInit /\ Results!ResultsInit /\ Reads!ReadsInit
  /\ service # "profile" => \A w \in Profile!Wallet : owner[w] = "none"
  /\ service # "reads" => get = CHOOSE g \in Reads!Gets : ~g.v6
  /\ service # "reads" => burned = {}
  /\ errors = 0

\* What the one service does, while the others rest.
ShardingOnly(A) ==
  /\ service = "sharding" /\ A
  /\ UNCHANGED <<service, paranetVars, updateVars, profileVars, resultVars, readVars>>
ParanetOnly(A) ==
  /\ service = "paranet" /\ A
  /\ UNCHANGED <<service, shardVars, updateVars, profileVars, resultVars, readVars>>
UpdaterOnly(A) ==
  /\ service = "updater" /\ A
  /\ UNCHANGED <<service, shardVars, paranetVars, profileVars, resultVars, readVars>>
ProfileOnly(A) ==
  /\ service = "profile" /\ A
  /\ UNCHANGED <<service, shardVars, paranetVars, updateVars, resultVars, readVars>>
ResultsOnly(A) ==
  /\ service = "results" /\ A
  /\ UNCHANGED <<service, shardVars, paranetVars, updateVars, profileVars, readVars>>
ReadsOnly(A) ==
  /\ service = "reads" /\ A
  /\ UNCHANGED <<service, shardVars, paranetVars, updateVars, profileVars, resultVars>>

Next ==
  \/ ShardingOnly(Sharding!ShardNext)
  \/ ParanetOnly(Paranet!ParanetNext)
  \/ UpdaterOnly(Updater!UpdateNext)
  \/ ProfileOnly(Profile!ProfileNext)
  \/ ResultsOnly(Results!ResultsNext)
  \/ ReadsOnly(Reads!ReadsNext)

\* The fairness of the services with liveness properties.
Fairness ==
  /\ WF_vars(ShardingOnly(Sharding!Check))
  /\ WF_vars(ShardingOnly(Sharding!Dial))
  /\ \A n \in 1..Nodes : WF_vars(ShardingOnly(Sharding!DialIsDue(n) \/ Sharding!CacheIsOld(n)))
  /\ WF_vars(ParanetOnly(Paranet!ParanetStep))
  /\ \A k \in 1..Collections : WF_vars(ParanetOnly(Paranet!SyncKc(k)))
  /\ WF_vars(UpdaterOnly(Updater!StartNode))
  /\ WF_vars(UpdaterOnly(Updater!UpdateStep))
  /\ WF_vars(ProfileOnly(Profile!ProfileStep))
  /\ WF_vars(ProfileOnly(Profile!ExecuteLate))
  /\ WF_vars(ResultsOnly(Results!QueryStep))
  /\ WF_vars(ResultsOnly(Results!RequestStep))

Spec == Init /\ [][Next]_vars /\ Fairness

----------------------------------------------------------------------------
(* The properties of the services, stated where they are defined *)

TypeOK ==
  Sharding!ShardTypeOK /\ Paranet!ParanetTypeOK /\ Updater!UpdateTypeOK /\ Profile!ProfileTypeOK
  /\ Results!ResultsTypeOK /\ Reads!ReadsTypeOK

\* The local table becomes that of the blockchain (shardingTableCheckCommand).
TableConverges == service = "sharding" => Sharding!TableConverges

\* Every peer in the table is dialed again and again (dialPeersCommand).
PeersAreDialed == service = "sharding" => Sharding!PeersAreDialed

\* Every collection that can be found is synced (paranetSyncCommand).
CollectionsAreSynced == service = "paranet" => Paranet!CollectionsAreSynced

\* The linked code is removed only to be put there anew after a failed update (update).
LinkedCodeIsKept == Updater!LinkedCodeIsKept

\* The node runs the version of the branch in the end (otnodeUpdateCommand).
NodeIsUpdated == service = "updater" => Updater!NodeIsUpdated

\* The node works with its own identity only (createProfiles).
OnlyOwnIdentity == Profile!OnlyOwnIdentity

\* The node gets a profile and starts (createProfile, createProfiles).
NodeGetsProfile == service = "profile" => Profile!NodeGetsProfile

\* A day long a completed operation has its data (queryCommand, operationIdCleanerCommand).
CompletedHasData == Results!CompletedHasData

\* A client that asks is told the result or the failure (result controllers).
ResultIsServed == service = "results" => Results!ResultIsServed

\* A get reads all that is held of what it asks for (localGetCommand).
HeldIsServed == service = "reads" => Reads!HeldIsServed

=============================================================================
