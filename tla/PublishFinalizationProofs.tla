----------------------- MODULE PublishFinalizationProofs -----------------------
(***************************************************************************)
(* Proofs about the finalization of a publish, for any nodes and rounds of *)
(* the event, size of the collection, number of attempts and faults.       *)
(***************************************************************************)
EXTENDS PublishFinalization, TLAPS

USE StoreAssumption, FinalizationAssumption

-----------------------------------------------------------------------------
(* The inductive invariant                                                 *)

Started == {"writing", "stored", "failed"}
Asking == {"network", "waiting", "nacked"}
Sound(n) == faults[n] \cap {"gaveUp", "crash"} = {}
HasMetadata(n) == metadata[n] = 1..Assets
NodeTasks(n) == {t \in Task : NodeOf(t) = n}

\* Where an insertion is follows where its task is.
CommandsAgree ==
  \A t \in Task :
    /\ pc[t] = "unseen" => insertion[t] = "none"
    /\ insertion[t] \in {"asked", "writing"} => pc[t] = "insert"
    /\ pc[t] \in Asking => insertion[t] = "stored"
    /\ pc[t] # "unseen" /\ t[2] > 1 => "twice" \in faults[NodeOf(t)]
    /\ Sound(NodeOf(t)) /\ pc[t] \in {"read", "validate", "store"} => insertion[t] = "none"

\* What the queries of an insertion have come to.
QueriesAgree ==
  \A t \in Task :
    /\ \A v \in Visibility : next[t][v] <= Assets =>
         insertion[t] \in Started /\ ~exists[t] /\ pc[t] \in {"insert", "ended"}
    /\ insertion[t] = "stored" => next[t] = Finished /\ meta[t] = "done"
    /\ insertion[t] = "failed" => meta[t] = "failed"
    /\ insertion[t] = "writing" => attempts[t] < InsertRetries
    /\ meta[t] = "done" => HasMetadata(NodeOf(t))

\* The insertion that found no graphs is the one that inserts them.
Inserting(t) == insertion[t] \in Started /\ ~exists[t]

GraphsOfOne ==
  \A n \in Nodes : Sound(n) =>
    /\ \A t \in NodeTasks(n) : Inserting(t) =>
         \A v \in Visibility, a \in 1..Assets :
           a <= LastAsset(n, v) /\ a < next[t][v] => Graph(a, v) \in graphs[n]
    /\ NamedGraphsExist(n) \/ (\E t \in NodeTasks(n) : exists[t]) =>
         \E t \in NodeTasks(n) : Inserting(t)

\* A node asks to be counted, and is counted, for an insertion that was stored.
CountedIsStored ==
  /\ \A t \in requests : HasMetadata(NodeOf(t))
  /\ \A n \in acks : HasMetadata(n)
  /\ \A n \in Nodes : Sound(n) /\ (n \in acks \/ \E t \in requests : NodeOf(t) = n) =>
       \E t \in NodeTasks(n) : insertion[t] = "stored"

IInv == TypeOK /\ CommandsAgree /\ QueriesAgree /\ GraphsOfOne /\ CountedIsStored /\ EndsForAReason

-----------------------------------------------------------------------------
(* Tasks and graphs                                                        *)

LEMMA TaskFacts ==
  /\ \A t \in Task : NodeOf(t) \in Nodes /\ t = <<NodeOf(t), t[2]>> /\ t[2] \in 1..RoundsOf(NodeOf(t))
  /\ \A n \in Nodes : \A k \in 1..RoundsOf(n) : <<n, k>> \in Task /\ NodeOf(<<n, k>>) = n
<1>1. ASSUME NEW n \in Nodes, NEW k \in 1..RoundsOf(n)
      PROVE  <<n, k>> \in Task /\ NodeOf(<<n, k>>) = n
  BY DEF Task, NodeOf
<1>2. ASSUME NEW t \in Task
      PROVE  NodeOf(t) \in Nodes /\ t = <<NodeOf(t), t[2]>> /\ t[2] \in 1..RoundsOf(NodeOf(t))
  <2>1. PICK n \in Nodes : t \in {<<n, k>> : k \in 1..RoundsOf(n)}
    BY DEF Task
  <2>2. PICK k \in 1..RoundsOf(n) : t = <<n, k>>
    BY <2>1
  <2> QED
    BY <2>2 DEF NodeOf
<1> QED
  BY <1>1, <1>2

\* One more fault stays within the bound.
LEMMA MaxErrorsType ==
  ASSUME NEW e \in 0..MaxErrors, e < MaxErrors
  PROVE  e + 1 \in 0..MaxErrors
  BY DEF StoreAssumption

\* Of two tasks of a node one is for a second handling of the event.
LEMMA SecondTask ==
  ASSUME NEW t \in Task, NEW u \in Task, t # u, NodeOf(t) = NodeOf(u)
  PROVE  t[2] > 1 \/ u[2] > 1
<1>1. /\ t = <<NodeOf(t), t[2]>> /\ t[2] \in 1..RoundsOf(NodeOf(t))
      /\ u = <<NodeOf(u), u[2]>> /\ u[2] \in 1..RoundsOf(NodeOf(u))
  BY TaskFacts
<1>2. t[2] # u[2]
  BY <1>1
<1>3. RoundsOf(NodeOf(t)) \in Nat
  BY DEF RoundsOf, StoreAssumption
<1> QED
  BY <1>1, <1>2, <1>3

\* The rollback drops graphs of other names than those inserted.
LEMMA DropMissesGraphs ==
  ASSUME NEW n \in Nodes, NEW m \in Nodes, NEW a \in 1..Assets, NEW v \in Visibility, TypeOK,
         Graph(a, v) \in graphs[m]
  PROVE  Graph(a, v) \in DeleteNamedGraphs(n)[m]
<1>1. Graph(a, v) \notin {<<b>> : b \in 1..Assets}
  BY DEF Graph
<1> QED
  BY <1>1 DEF DeleteNamedGraphs, TypeOK, StoreTypeOK

LEMMA LastAssetType ==
  ASSUME NEW n, NEW v
  PROVE  LastAsset(n, v) \in Nat /\ LastAsset(n, v) <= Assets
  BY DEF LastAsset, StoreAssumption

\* After an asset comes the next one, or the end.
LEMMA AfterType ==
  ASSUME NEW t \in Task, NEW v \in Visibility, NEW a \in 1..Assets
  PROVE  /\ After(t, v, a) \in 1..(Assets + 1) /\ After(t, v, a) # a
         /\ \A b \in 1..Assets : b <= LastAsset(NodeOf(t), v) /\ b < After(t, v, a) => b < a \/ b = a
<1>1. /\ LastAsset(NodeOf(t), v) \in Nat /\ LastAsset(NodeOf(t), v) <= Assets
      /\ a \in Nat /\ a >= 1 /\ a <= Assets /\ Assets \in Nat
  BY LastAssetType DEF StoreAssumption
<1> QED
  BY <1>1 DEF After

-----------------------------------------------------------------------------
(* Steps of one task, and types                                            *)

\* Faults are not forgotten.
LEMMA FaultsGrow ==
  ASSUME TypeOK, [Next]_vars, NEW n \in Nodes
  PROVE  faults[n] \subseteq faults'[n] /\ (Sound(n)' => Sound(n))
<1>1. faults[n] \subseteq faults'[n]
  BY DEF Next, Step, vars, TypeOK, Fault, HandleStoreRequest, RemoveExpiredFileCache, Crash, HandleEvent,
         CommandStep, CommandThrows, InsertStep, PublishFinalitySaveAck, ReadCachedPublishData,
         ValidateAssertionMetadata, StoreAssertion, AfterInsert, InsertFailed, RequestFinality,
         HandleNack, ProcessResponse
<1> QED
  BY <1>1 DEF Sound

\* The store of a node and the insertions into it keep their types.
LEMMA StoreTypes ==
  ASSUME TypeOK, QueriesAgree, NEW t \in Task, StoreStep(t) \/ StoreFault(t)
  PROVE  StoreTypeOK'
<1> USE DEF TypeOK, StoreTypeOK
<1>0. NodeOf(t) \in Nodes /\ Assets \in Nat \ {0} /\ GraphRetries \in Nat \ {0} /\ MaxErrors \in Nat
      /\ InsertRetries \in Nat \ {0}
  BY TaskFacts DEF StoreAssumption
<1>1. CASE StartQueries(t)
  <2>1. next' \in [Task -> [Visibility -> 1..(Assets + 1)]]
    BY <1>0, <1>1 DEF StartQueries
  <2>2. tries' \in [Task -> [Visibility -> 0..(GraphRetries - 1)]]
    BY <1>0, <1>1 DEF StartQueries
  <2> QED
    BY <1>0, <1>1, <2>1, <2>2 DEF StartQueries, contents
<1>2. ASSUME NEW v \in Visibility, InsertGraph(t, v)
      PROVE  StoreTypeOK'
  <2>1. next[t][v] \in 1..Assets
    BY <1>0, <1>2 DEF InsertGraph
  <2>2. After(t, v, next[t][v]) \in 1..(Assets + 1)
    BY <2>1, AfterType
  <2>3. next' \in [Task -> [Visibility -> 1..(Assets + 1)]]
    BY <1>2, <2>2 DEF InsertGraph
  <2>4. tries' \in [Task -> [Visibility -> 0..(GraphRetries - 1)]]
    BY <1>0, <1>2 DEF InsertGraph
  <2>5. graphs' \in [Nodes -> SUBSET AllGraphs]
    BY <1>0, <1>2, <2>1 DEF InsertGraph, AllGraphs
  <2> QED
    BY <1>2, <2>3, <2>4, <2>5 DEF InsertGraph
<1>3. ASSUME NEW v \in Visibility, GraphFails(t, v)
      PROVE  StoreTypeOK'
  <2>1. next[t][v] \in 1..Assets
    BY <1>0, <1>3 DEF GraphFails
  <2>2. After(t, v, next[t][v]) \in 1..(Assets + 1)
    BY <2>1, AfterType
  <2>3. /\ next' \in [Task -> [Visibility -> 1..(Assets + 1)]]
        /\ tries' \in [Task -> [Visibility -> 0..(GraphRetries - 1)]]
    <3>1. CASE tries[t][v] + 1 < GraphRetries
      <4>1. tries[t][v] \in 0..(GraphRetries - 1)
        OBVIOUS
      <4>2. tries[t][v] + 1 \in 0..(GraphRetries - 1)
        BY <1>0, <3>1, <4>1
      <4>3. next' = next /\ tries' = [tries EXCEPT ![t] = [tries[t] EXCEPT ![v] = tries[t][v] + 1]]
        BY <1>3, <3>1 DEF GraphFails
      <4> QED
        BY <4>2, <4>3
    <3>2. CASE ~(tries[t][v] + 1 < GraphRetries)
      <4>1. /\ next' = [next EXCEPT ![t] = [next[t] EXCEPT ![v] = After(t, v, next[t][v])]]
            /\ tries' = [tries EXCEPT ![t] = [tries[t] EXCEPT ![v] = 0]]
        BY <1>3, <3>2 DEF GraphFails
      <4>2. 0 \in 0..(GraphRetries - 1)
        BY <1>0
      <4> QED
        BY <4>1, <4>2, <2>2
    <3> QED
      BY <3>1, <3>2
  <2>5. errors' \in 0..MaxErrors
    BY <1>0, <1>3 DEF GraphFails
  <2> QED
    BY <1>3, <2>3, <2>5 DEF GraphFails, contents
<1>4. CASE InsertMetadata(t)
  BY <1>0, <1>4 DEF InsertMetadata
<1>5. CASE Inserted(t)
  BY <1>0, <1>5 DEF Inserted, contents
<1>6. CASE Rejected(t)
  <2>1. attempts[t] + 1 \in 0..InsertRetries
    BY <1>0, <1>6 DEF Rejected, QueriesAgree
  <2>2. attempts' \in [Task -> 0..InsertRetries]
    BY <1>6, <2>1 DEF Rejected
  <2>3. graphs' \in [Nodes -> SUBSET AllGraphs]
    <3>1. DeleteNamedGraphs(NodeOf(t)) \in [Nodes -> SUBSET AllGraphs]
      BY <1>0 DEF DeleteNamedGraphs
    <3> QED
      BY <1>6, <3>1 DEF Rejected
  <2> QED
    BY <1>6, <2>2, <2>3 DEF Rejected
<1>7. CASE MetadataFails(t)
  BY <1>0, <1>7 DEF MetadataFails, contents
<1> QED
  BY <1>1, <1>2, <1>3, <1>4, <1>5, <1>6, <1>7 DEF StoreStep, StoreFault

\* Every variable keeps its type.
LEMMA TypeStep ==
  ASSUME TypeOK, QueriesAgree, [Next]_vars
  PROVE  TypeOK'
<1> USE DEF TypeOK
<1>0. Publisher \in Nodes /\ listening \subseteq Nodes /\ ReadRetries \in Nat \ {0}
      /\ \A t \in Task : NodeOf(t) \in Nodes
  BY TaskFacts DEF FinalizationAssumption
<1>s. ASSUME UNCHANGED storeVars
      PROVE  StoreTypeOK'
  BY <1>s DEF StoreTypeOK, storeVars, contents, progress
<1>1. ASSUME NEW n \in listening, HandleStoreRequest(n) \/ RemoveExpiredFileCache(n), UNCHANGED listening
      PROVE  TypeOK'
  <2>1. StoreTypeOK'
    BY <1>s, <1>1, MaxErrorsType
       DEF HandleStoreRequest, RemoveExpiredFileCache, StoreTypeOK, contents, progress
  <2>2. faults' \in [Nodes -> SUBSET {"gaveUp", "crash", "twice", "cleaned", "unread", "thrown"}]
    BY <1>0, <1>1 DEF HandleStoreRequest, RemoveExpiredFileCache, Fault
  <2> QED
    BY <1>0, <1>1, <2>1, <2>2 DEF HandleStoreRequest, RemoveExpiredFileCache, commandVars, networkVars
<1>2. ASSUME NEW n \in listening, Crash(n), UNCHANGED listening
      PROVE  TypeOK'
  <2>1. StoreTypeOK'
    BY <1>0, <1>2, MaxErrorsType DEF Crash, StopInsertions, StoreTypeOK, contents, Finished
  <2>2. faults' \in [Nodes -> SUBSET {"gaveUp", "crash", "twice", "cleaned", "unread", "thrown"}]
    BY <1>0, <1>2 DEF Crash, Fault
  <2>3. pc' \in [Task -> Commands]
    BY <1>2 DEF Crash, Replayed, Commands
  <2> QED
    BY <1>0, <1>2, <2>1, <2>2, <2>3 DEF Crash, networkVars
<1>3. ASSUME NEW t \in Task, HandleEvent(t), UNCHANGED listening
      PROVE  TypeOK'
  BY <1>0, <1>s, <1>3 DEF HandleEvent, GoTo, Commands, networkVars
<1>4. ASSUME NEW t \in Task, ReadCachedPublishData(t), UNCHANGED listening
      PROVE  TypeOK'
  <2>1. faults' \in [Nodes -> SUBSET {"gaveUp", "crash", "twice", "cleaned", "unread", "thrown"}]
    BY <1>0, <1>4 DEF ReadCachedPublishData, Fault
  <2>2. retries' \in [Task -> 1..ReadRetries]
    BY <1>0, <1>4 DEF ReadCachedPublishData
  <2>3. pc' \in [Task -> Commands]
    BY <1>4 DEF ReadCachedPublishData, GoTo, Commands
  <2> QED
    BY <1>s, <1>4, <2>1, <2>2, <2>3 DEF ReadCachedPublishData, SetStatus, networkVars
<1>5. ASSUME NEW t \in Task, StoreAssertion(t), UNCHANGED listening
      PROVE  TypeOK'
  <2>1. StoreTypeOK'
    <3>1. CASE AskExists(t)
      BY <3>1 DEF AskExists, StoreTypeOK, contents, NamedGraphsExist
    <3>2. CASE AskExistsFails(t)
      BY <3>2, MaxErrorsType DEF AskExistsFails, StoreTypeOK, contents
    <3> QED
      BY <1>5, <3>1, <3>2 DEF StoreAssertion
  <2> QED
    BY <1>5, <2>1 DEF StoreAssertion, GoTo, SetStatus, Commands, networkVars
<1>6. ASSUME NEW t \in Task, UNCHANGED listening,
             ValidateAssertionMetadata(t) \/ AfterInsert(t) \/ InsertFailed(t)
      PROVE  TypeOK'
  BY <1>0, <1>s, <1>6
     DEF ValidateAssertionMetadata, AfterInsert, InsertFailed, GoTo, SetStatus, Commands, networkVars
<1>7. ASSUME NEW t \in Task, UNCHANGED listening,
             RequestFinality(t) \/ HandleNack(t) \/ ProcessResponse(t)
      PROVE  TypeOK'
  BY <1>0, <1>s, <1>7
     DEF RequestFinality, HandleNack, ProcessResponse, GoTo, SetStatus, Commands, networkVars
<1>8. ASSUME NEW t \in Task, PublishFinalitySaveAck(t), UNCHANGED listening
      PROVE  TypeOK'
  BY <1>0, <1>s, <1>8 DEF PublishFinalitySaveAck, commandVars
<1>9. ASSUME NEW t \in Task, InsertStep(t), UNCHANGED listening
      PROVE  TypeOK'
  <2>1. StoreTypeOK'
    BY <1>9, StoreTypes DEF InsertStep
  <2>2. faults' \in [Nodes -> SUBSET {"gaveUp", "crash", "twice", "cleaned", "unread", "thrown"}]
    BY <1>0, <1>9 DEF InsertStep, Fault
  <2> QED
    BY <1>9, <2>1, <2>2 DEF InsertStep, commandVars, networkVars
<1>10. CASE UNCHANGED vars
  BY <1>s, <1>10 DEF vars, commandVars, networkVars
<1>11. ASSUME NEW t \in Task, CommandThrows(t), UNCHANGED listening
       PROVE  TypeOK'
  <2>1. StoreTypeOK'
    BY <1>11, MaxErrorsType DEF CommandThrows, StoreTypeOK, contents, progress
  <2>2. faults' \in [Nodes -> SUBSET {"gaveUp", "crash", "twice", "cleaned", "unread", "thrown"}]
    BY <1>0, <1>11 DEF CommandThrows, Fault
  <2> QED
    BY <1>11, <2>1, <2>2 DEF CommandThrows, GoTo, SetStatus, Commands, networkVars
<1> QED
  BY <1>1, <1>2, <1>3, <1>4, <1>5, <1>6, <1>7, <1>8, <1>9, <1>10, <1>11 DEF Next, Step, CommandStep

-----------------------------------------------------------------------------
(* What the steps of an insertion change                                   *)

\* An insertion goes from asking to writing to its end, and does not ask again.
LEMMA InsertionMoves ==
  ASSUME TypeOK, NEW t \in Task, StoreStep(t) \/ StoreFault(t)
  PROVE  /\ exists' = exists
         /\ \A u \in Task :
              \/ insertion'[u] = insertion[u]
              \/ u = t /\ insertion[t] = "asked" /\ insertion'[t] = "writing"
              \/ u = t /\ insertion[t] = "writing" /\ insertion'[t] \in {"stored", "failed"}
  BY DEF StoreStep, StoreFault, StartQueries, InsertGraph, GraphFails, InsertMetadata, MetadataFails,
         Inserted, Rejected, TypeOK, StoreTypeOK

\* Metadata is inserted for the whole collection, and stays.
LEMMA MetadataStays ==
  ASSUME TypeOK, [Next]_vars, NEW n \in Nodes, HasMetadata(n)
  PROVE  HasMetadata(n)'
  BY DEF Next, Step, vars, storeVars, contents, TypeOK, StoreTypeOK, HasMetadata, HandleStoreRequest,
         RemoveExpiredFileCache, Crash, StopInsertions, HandleEvent, CommandStep, CommandThrows,
         InsertStep, PublishFinalitySaveAck, ReadCachedPublishData, ValidateAssertionMetadata,
         StoreAssertion, AskExists, AskExistsFails, AfterInsert, InsertFailed, RequestFinality,
         HandleNack, ProcessResponse, StoreStep, StoreFault, StartQueries, InsertGraph, GraphFails,
         InsertMetadata, MetadataFails, Inserted, Rejected

-----------------------------------------------------------------------------
(* Where commands and insertions are                                       *)

LEMMA CommandsStep ==
  ASSUME TypeOK, CommandsAgree, [Next]_vars
  PROVE  CommandsAgree'
<1> SUFFICES ASSUME NEW u \in Task
             PROVE  /\ pc'[u] = "unseen" => insertion'[u] = "none"
                    /\ insertion'[u] \in {"asked", "writing"} => pc'[u] = "insert"
                    /\ pc'[u] \in Asking => insertion'[u] = "stored"
                    /\ pc'[u] # "unseen" /\ u[2] > 1 => "twice" \in faults'[NodeOf(u)]
                    /\ Sound(NodeOf(u))' /\ pc'[u] \in {"read", "validate", "store"} =>
                         insertion'[u] = "none"
  BY DEF CommandsAgree
<1> DEFINE Grown == /\ faults[NodeOf(u)] \subseteq faults'[NodeOf(u)]
                    /\ Sound(NodeOf(u))' => Sound(NodeOf(u))
<1>0. Grown
  BY TaskFacts, FaultsGrow
<1>i. /\ pc[u] = "unseen" => insertion[u] = "none"
      /\ insertion[u] \in {"asked", "writing"} => pc[u] = "insert"
      /\ pc[u] \in Asking => insertion[u] = "stored"
      /\ pc[u] # "unseen" /\ u[2] > 1 => "twice" \in faults[NodeOf(u)]
      /\ Sound(NodeOf(u)) /\ pc[u] \in {"read", "validate", "store"} => insertion[u] = "none"
  BY DEF CommandsAgree
<1>u. ASSUME pc'[u] = pc[u], insertion'[u] = insertion[u]
      PROVE  /\ pc'[u] = "unseen" => insertion'[u] = "none"
             /\ insertion'[u] \in {"asked", "writing"} => pc'[u] = "insert"
             /\ pc'[u] \in Asking => insertion'[u] = "stored"
             /\ pc'[u] # "unseen" /\ u[2] > 1 => "twice" \in faults'[NodeOf(u)]
             /\ Sound(NodeOf(u))' /\ pc'[u] \in {"read", "validate", "store"} =>
                  insertion'[u] = "none"
  BY <1>0, <1>i, <1>u
<1> USE DEF TypeOK, Asking
<1>1. ASSUME NEW n \in listening, HandleStoreRequest(n) \/ RemoveExpiredFileCache(n)
      PROVE  pc'[u] = pc[u] /\ insertion'[u] = insertion[u]
  BY <1>1 DEF HandleStoreRequest, RemoveExpiredFileCache, commandVars, storeVars, progress
<1>2. ASSUME NEW n \in listening, Crash(n)
      PROVE  \/ pc'[u] = pc[u] /\ insertion'[u] = insertion[u]
             \/ /\ ~Sound(NodeOf(u))'
                /\ pc'[u] = Replayed(pc[u])
                /\ insertion'[u] = IF insertion[u] \in {"asked", "writing"} THEN "none" ELSE insertion[u]
  <2>1. n \in Nodes
    BY DEF FinalizationAssumption
  <2>2. CASE NodeOf(u) = n
    <3>1. "crash" \in faults'[n]
      BY <1>2, <2>1 DEF Crash, Fault
    <3> QED
      BY <1>2, <2>2, <3>1 DEF Crash, StopInsertions, Sound
  <2>3. CASE NodeOf(u) # n
    BY <1>2, <2>3 DEF Crash, StopInsertions
  <2> QED
    BY <2>2, <2>3
<1>3. ASSUME NEW t \in Task, HandleEvent(t)
      PROVE  /\ insertion'[u] = insertion[u]
             /\ \/ pc'[u] = pc[u]
                \/ /\ pc[u] = "unseen" /\ pc'[u] = "read"
                   /\ u[2] > 1 => "twice" \in faults'[NodeOf(u)]
  <2>1. NodeOf(t) \in Nodes
    BY TaskFacts
  <2> QED
    BY <1>3, <2>1 DEF HandleEvent, GoTo, storeVars, progress
<1>4. ASSUME NEW t \in Task, CommandStep(t) \/ CommandThrows(t), ~StoreAssertion(t)
      PROVE  /\ insertion'[u] = insertion[u]
             /\ \/ pc'[u] = pc[u]
                \/ /\ pc'[u] \in {"validate", "store"}
                   /\ pc[u] \in {"read", "validate"}
                \/ /\ pc'[u] = "ended"
                   /\ pc[u] = "insert" => insertion[u] \in {"stored", "failed", "unasked"}
                   /\ pc[u] # "unseen"
                \/ /\ pc'[u] = "network"
                   /\ insertion[u] = "stored" /\ pc[u] = "insert"
                \/ /\ pc'[u] \in Asking
                   /\ pc[u] \in Asking
  BY <1>4 DEF CommandStep, CommandThrows, ReadCachedPublishData, ValidateAssertionMetadata,
              AfterInsert, InsertFailed,
              RequestFinality, HandleNack, ProcessResponse, GoTo, storeVars, progress
<1>5. ASSUME NEW t \in Task, StoreAssertion(t)
      PROVE  \/ pc'[u] = pc[u] /\ insertion'[u] = insertion[u]
             \/ pc'[u] = "insert" /\ insertion'[u] \in {"asked", "unasked"} /\ pc[u] = "store"
  BY <1>5 DEF StoreAssertion, GoTo, AskExists, AskExistsFails, StoreTypeOK
<1>6. ASSUME NEW t \in Task, PublishFinalitySaveAck(t)
      PROVE  pc'[u] = pc[u] /\ insertion'[u] = insertion[u]
  BY <1>6 DEF PublishFinalitySaveAck, commandVars, storeVars, progress
<1>7. ASSUME NEW t \in Task, InsertStep(t)
      PROVE  /\ pc'[u] = pc[u]
             /\ \/ insertion'[u] = insertion[u]
                \/ /\ insertion[u] \in {"asked", "writing"}
                   /\ insertion'[u] \in Started
                   /\ insertion'[u] = "writing" => insertion[u] = "asked"
  BY <1>7, InsertionMoves DEF InsertStep, commandVars, Started
<1>8. CASE UNCHANGED vars
  BY <1>u, <1>8 DEF vars, commandVars, storeVars, progress
<1>c1. CASE \E n \in listening : HandleStoreRequest(n) \/ RemoveExpiredFileCache(n)
  BY <1>c1, <1>1, <1>u
<1>c2. CASE \E n \in listening : Crash(n)
  BY <1>c2, <1>2, <1>u, <1>0, <1>i DEF Replayed
<1>c3. CASE \E t \in Task : HandleEvent(t)
  BY <1>c3, <1>3, <1>0, <1>i
<1>c4. CASE \E t \in Task : (CommandStep(t) \/ CommandThrows(t)) /\ ~StoreAssertion(t)
  BY <1>c4, <1>4, <1>0, <1>i
<1>c5. CASE \E t \in Task : StoreAssertion(t)
  BY <1>c5, <1>5, <1>0, <1>i
<1>c6. CASE \E t \in Task : PublishFinalitySaveAck(t)
  BY <1>c6, <1>6, <1>u
<1>c7. CASE \E t \in Task : InsertStep(t)
  BY <1>c7, <1>7, <1>0, <1>i DEF Started
<1> QED
  BY <1>8, <1>c1, <1>c2, <1>c3, <1>c4, <1>c5, <1>c6, <1>c7 DEF Next, Step

\* What an insertion step does to the queries of its task, and to no other.
LEMMA QueriesMove ==
  ASSUME TypeOK, CommandsAgree, QueriesAgree, NEW t \in Task, StoreStep(t) \/ StoreFault(t),
         NEW u \in Task
  PROVE  /\ u # t => next'[u] = next[u] /\ meta'[u] = meta[u] /\ attempts'[u] = attempts[u]
         /\ \A v \in Visibility : next'[u][v] <= Assets =>
              \/ next[u][v] <= Assets
              \/ insertion[u] = "asked" /\ insertion'[u] = "writing" /\ ~exists[u]
         /\ insertion[u] \in {"stored", "failed"} => insertion'[u] = insertion[u] /\ meta'[u] = meta[u]
         /\ insertion[u] = "stored" => next'[u] = next[u]
         /\ insertion'[u] = "stored" /\ insertion[u] # "stored" => next'[u] = Finished /\ meta'[u] = "done"
         /\ insertion'[u] = "failed" /\ insertion[u] # "failed" => meta'[u] = "failed"
         /\ insertion'[u] = "writing" => attempts'[u] < InsertRetries
         /\ meta'[u] = "done" => meta[u] = "done" \/ HasMetadata(NodeOf(u))'
<1> USE DEF TypeOK, StoreTypeOK
<1>0. NodeOf(t) \in Nodes /\ Assets \in Nat \ {0} /\ InsertRetries \in Nat \ {0}
  BY TaskFacts DEF StoreAssumption
<1>i. /\ \A v \in Visibility : next[t][v] <= Assets => insertion[t] \in Started /\ ~exists[t]
      /\ insertion[t] = "stored" => next[t] = Finished /\ meta[t] = "done"
      /\ insertion[t] = "failed" => meta[t] = "failed"
      /\ insertion[t] = "writing" => attempts[t] < InsertRetries
      /\ insertion[u] = "writing" => attempts[u] < InsertRetries
      /\ insertion[u] = "stored" => next[u] = Finished /\ meta[u] = "done"
  BY DEF QueriesAgree
<1>1. CASE StartQueries(t)
  <2>1. next'[t] = [v \in Visibility |-> IF exists[t] \/ LastAsset(NodeOf(t), v) = 0 THEN Assets + 1 ELSE 1]
    BY <1>1 DEF StartQueries
  <2>2. \A v \in Visibility : next'[t][v] <= Assets => ~exists[t]
    BY <2>1, <1>0
  <2>3. /\ insertion[t] = "asked" /\ insertion'[t] = "writing" /\ meta'[t] = "sent" /\ attempts'[t] = 0
        /\ \A w \in Task \ {t} : UNCHANGED <<next[w], meta[w], attempts[w], insertion[w]>>
    BY <1>1 DEF StartQueries
  <2>4. 0 < InsertRetries
    BY <1>0
  <2> QED
    BY <2>2, <2>3, <2>4, <1>i
<1>2. ASSUME NEW v \in Visibility, InsertGraph(t, v) \/ GraphFails(t, v)
      PROVE  /\ next[t][v] <= Assets
             /\ \A w \in Visibility : next'[t][w] = next[t][w] \/ w = v
             /\ \A w \in Task : w # t => next'[w] = next[w]
             /\ UNCHANGED <<exists, meta, attempts, insertion, metadata>>
  BY <1>2 DEF InsertGraph, GraphFails, contents
<1>3. ASSUME NEW v \in Visibility, InsertGraph(t, v) \/ GraphFails(t, v)
      PROVE  insertion[t] # "stored"
  BY <1>0, <1>2, <1>3, <1>i DEF Finished
<1>4. CASE InsertMetadata(t)
  <2>1. HasMetadata(NodeOf(t))'
    BY <1>0, <1>4 DEF InsertMetadata, HasMetadata
  <2> QED
    BY <1>4, <2>1, <1>i DEF InsertMetadata
<1>5. CASE Inserted(t)
  BY <1>5, <1>i DEF Inserted
<1>6. CASE Rejected(t)
  BY <1>0, <1>6, <1>i DEF Rejected
<1>7. CASE MetadataFails(t)
  BY <1>7, <1>i DEF MetadataFails
<1>8. CASE \E v \in Visibility : InsertGraph(t, v) \/ GraphFails(t, v)
  BY <1>2, <1>3, <1>8, <1>i
<1> QED
  BY <1>1, <1>4, <1>5, <1>6, <1>7, <1>8 DEF StoreStep, StoreFault

LEMMA QueriesStep ==
  ASSUME TypeOK, CommandsAgree, QueriesAgree, [Next]_vars
  PROVE  QueriesAgree'
<1> DEFINE Q(x) ==
      /\ \A v \in Visibility : next[x][v] <= Assets =>
           insertion[x] \in Started /\ ~exists[x] /\ pc[x] \in {"insert", "ended"}
      /\ insertion[x] = "stored" => next[x] = Finished /\ meta[x] = "done"
      /\ insertion[x] = "failed" => meta[x] = "failed"
      /\ insertion[x] = "writing" => attempts[x] < InsertRetries
      /\ meta[x] = "done" => HasMetadata(NodeOf(x))
<1> SUFFICES ASSUME NEW u \in Task
             PROVE  Q(u)'
  BY DEF QueriesAgree
<1>i. Q(u)
  BY DEF QueriesAgree
<1>m. HasMetadata(NodeOf(u)) => HasMetadata(NodeOf(u))'
  BY TaskFacts, MetadataStays
<1>a. Assets \in Nat
  BY DEF StoreAssumption
<1>u. ASSUME pc'[u] = pc[u], UNCHANGED <<next[u], insertion[u], exists[u], meta[u], attempts[u]>>
      PROVE  Q(u)'
  BY <1>i, <1>m, <1>u
<1> USE DEF TypeOK
<1>1. ASSUME NEW n \in listening, HandleStoreRequest(n) \/ RemoveExpiredFileCache(n)
      PROVE  Q(u)'
  BY <1>1, <1>u DEF HandleStoreRequest, RemoveExpiredFileCache, commandVars, storeVars, progress
<1>2. ASSUME NEW n \in listening, Crash(n)
      PROVE  Q(u)'
  <2>1. CASE NodeOf(u) = n
    <3>1. /\ next'[u] = Finished /\ insertion'[u] \notin {"asked", "writing"}
          /\ insertion'[u] = "none" \/ insertion'[u] = insertion[u]
          /\ meta[u] # "sent" => meta'[u] = meta[u]
          /\ meta'[u] = "done" => meta[u] = "done"
      BY <1>2, <2>1 DEF Crash, StopInsertions
    <3>2. \A v \in Visibility : ~(next'[u][v] <= Assets)
      BY <3>1, <1>a DEF Finished
    <3> QED
      BY <1>i, <1>m, <3>1, <3>2
  <2>2. CASE NodeOf(u) # n
    BY <1>2, <1>u, <2>2 DEF Crash, StopInsertions
  <2> QED
    BY <2>1, <2>2
<1>3. ASSUME NEW t \in Task, HandleEvent(t)
      PROVE  Q(u)'
  <2>1. UNCHANGED <<next[u], insertion[u], exists[u], meta[u], attempts[u]>>
    BY <1>3 DEF HandleEvent, storeVars, progress
  <2>2. pc'[u] = pc[u] \/ pc[u] = "unseen"
    BY <1>3 DEF HandleEvent, GoTo
  <2> QED
    BY <2>1, <2>2, <1>i, <1>m
<1>4. ASSUME NEW t \in Task, CommandStep(t) \/ CommandThrows(t), ~StoreAssertion(t)
      PROVE  Q(u)'
  <2>1. UNCHANGED <<next[u], insertion[u], exists[u], meta[u], attempts[u]>>
    BY <1>4 DEF CommandStep, CommandThrows, ReadCachedPublishData, ValidateAssertionMetadata,
                AfterInsert, InsertFailed,
                RequestFinality, HandleNack, ProcessResponse, storeVars, progress
  <2>2. pc'[u] = pc[u] \/ pc'[u] = "ended" \/ pc[u] \notin {"insert", "ended"}
        \/ insertion[u] = "stored"
    BY <1>4 DEF CommandStep, CommandThrows, ReadCachedPublishData, ValidateAssertionMetadata,
                AfterInsert, InsertFailed, RequestFinality, HandleNack, ProcessResponse, GoTo
  <2>3. insertion[u] = "stored" => \A v \in Visibility : ~(next[u][v] <= Assets)
    BY <1>i, <1>a DEF Finished
  <2> QED
    BY <2>1, <2>2, <2>3, <1>i, <1>m
<1>5. ASSUME NEW t \in Task, StoreAssertion(t)
      PROVE  Q(u)'
  <2>1. UNCHANGED <<next[u], meta[u], attempts[u]>>
    BY <1>5 DEF StoreAssertion, AskExists, AskExistsFails
  <2>2. \/ pc'[u] = pc[u] /\ UNCHANGED <<insertion[u], exists[u]>>
        \/ pc[u] = "store" /\ insertion'[u] \in {"asked", "unasked"}
    BY <1>5 DEF StoreAssertion, GoTo, AskExists, AskExistsFails, StoreTypeOK
  <2> QED
    BY <2>1, <2>2, <1>i, <1>m
<1>6. ASSUME NEW t \in Task, PublishFinalitySaveAck(t)
      PROVE  Q(u)'
  BY <1>6, <1>u DEF PublishFinalitySaveAck, commandVars, storeVars, progress
<1>7. ASSUME NEW t \in Task, InsertStep(t)
      PROVE  Q(u)'
  <2>0. pc' = pc /\ (StoreStep(t) \/ StoreFault(t))
    BY <1>7 DEF InsertStep, commandVars
  <2>1. /\ exists' = exists
        /\ \/ insertion'[u] = insertion[u]
           \/ insertion[u] = "asked" /\ insertion'[u] = "writing"
           \/ insertion[u] = "writing" /\ insertion'[u] \in {"stored", "failed"}
    BY <2>0, InsertionMoves
  <2>2. insertion[u] = "asked" => pc[u] = "insert"
    BY DEF CommandsAgree
  <2>3. /\ \A v \in Visibility : next'[u][v] <= Assets =>
              \/ next[u][v] <= Assets
              \/ insertion[u] = "asked" /\ insertion'[u] = "writing" /\ ~exists[u]
        /\ insertion[u] \in {"stored", "failed"} => insertion'[u] = insertion[u] /\ meta'[u] = meta[u]
        /\ insertion[u] = "stored" => next'[u] = next[u]
        /\ insertion'[u] = "stored" /\ insertion[u] # "stored" => next'[u] = Finished /\ meta'[u] = "done"
        /\ insertion'[u] = "failed" /\ insertion[u] # "failed" => meta'[u] = "failed"
        /\ insertion'[u] = "writing" => attempts'[u] < InsertRetries
        /\ meta'[u] = "done" => meta[u] = "done" \/ HasMetadata(NodeOf(u))'
    BY <2>0, QueriesMove
  <2> QED
    BY <2>0, <2>1, <2>2, <2>3, <1>i, <1>m DEF Started
<1>8. CASE UNCHANGED vars
  BY <1>u, <1>8 DEF vars, commandVars, storeVars, progress
<1> QED
  BY <1>1, <1>2, <1>3, <1>4, <1>5, <1>6, <1>7, <1>8 DEF Next, Step, CommandStep

-----------------------------------------------------------------------------
(* One insertion inserts the graphs of a node                              *)

\* A query of a graph moves on to the next asset with the graph in the store,
\* or fails; when it moves on without the graph, the node has given it up.
LEMMA GraphQuery ==
  ASSUME TypeOK, QueriesAgree, NEW t \in Task, NEW v \in Visibility, InsertStep(t),
         InsertGraph(t, v) \/ GraphFails(t, v)
  PROVE  \/ graphs' = graphs /\ next' = next
         \/ ~Sound(NodeOf(t))' /\ graphs' = graphs /\ \A u \in Task \ {t} : next'[u] = next[u]
         \/ /\ graphs' = [graphs EXCEPT ![NodeOf(t)] = @ \cup {Graph(next[t][v], v)}]
            /\ next' = [next EXCEPT ![t][v] = After(t, v, @)]
            /\ next[t][v] \in 1..Assets
<1> USE DEF TypeOK, StoreTypeOK
<1>0. NodeOf(t) \in Nodes /\ Assets \in Nat \ {0} /\ next[t][v] \in 1..(Assets + 1) /\ next[t][v] <= Assets
  BY TaskFacts DEF StoreAssumption, InsertGraph, GraphFails
<1>1. next[t][v] \in 1..Assets
  BY <1>0
<1>2. CASE InsertGraph(t, v)
  BY <1>1, <1>2 DEF InsertGraph
<1>3. CASE GraphFails(t, v) /\ next' # next
  <2>1. next' = [next EXCEPT ![t] = [next[t] EXCEPT ![v] = After(t, v, next[t][v])]]
    BY <1>3 DEF GraphFails
  <2>2. next'[t][v] # next[t][v]
    BY <1>1, <2>1, AfterType
  <2>3. Fault(NodeOf(t), "gaveUp")
    BY <1>3, <2>2, <1>0 DEF InsertStep, GaveUp
  <2>4. ~Sound(NodeOf(t))'
    BY <1>0, <2>3 DEF Fault, Sound
  <2> QED
    BY <1>3, <2>1, <2>4 DEF GraphFails, contents
<1>4. CASE GraphFails(t, v) /\ next' = next
  BY <1>4 DEF GraphFails, contents
<1> QED
  BY <1>2, <1>3, <1>4

LEMMA GraphsStep ==
  ASSUME TypeOK, CommandsAgree, QueriesAgree, GraphsOfOne, [Next]_vars
  PROVE  GraphsOfOne'
<1> DEFINE
      A(n) == \A t \in NodeTasks(n) : Inserting(t) =>
                \A v \in Visibility, a \in 1..Assets :
                  a <= LastAsset(n, v) /\ a < next[t][v] => Graph(a, v) \in graphs[n]
      B(n) == NamedGraphsExist(n) \/ (\E t \in NodeTasks(n) : exists[t]) =>
                \E t \in NodeTasks(n) : Inserting(t)
<1> SUFFICES ASSUME NEW n \in Nodes, Sound(n)'
             PROVE  A(n)' /\ B(n)'
  BY DEF GraphsOfOne
<1>0. Sound(n)
  BY FaultsGrow
<1>i. A(n) /\ B(n)
  BY <1>0 DEF GraphsOfOne
<1>n. \A t \in NodeTasks(n) : t \in Task /\ NodeOf(t) = n
  BY DEF NodeTasks
<1>g. Graph(1, "public") = Graph(1, "public") /\ "public" \in Visibility /\ 1 \in 1..Assets
  BY DEF Visibility, StoreAssumption
<1> USE DEF TypeOK, StoreTypeOK
\* Nothing of the node's insertions changes.
<1>k. ASSUME graphs'[n] = graphs[n],
             \A t \in NodeTasks(n) : UNCHANGED <<next[t], insertion[t], exists[t]>>
      PROVE  A(n)' /\ B(n)'
  <2>1. \A t \in NodeTasks(n) : Inserting(t)' <=> Inserting(t)
    BY <1>k DEF Inserting
  <2>2. A(n)'
    BY <1>k, <1>i, <2>1
  <2>3. B(n)'
    <3> SUFFICES ASSUME NamedGraphsExist(n)' \/ (\E t \in NodeTasks(n) : exists'[t])
                 PROVE  \E t \in NodeTasks(n) : Inserting(t)'
      BY DEF NodeTasks
    <3>1. NamedGraphsExist(n) \/ (\E t \in NodeTasks(n) : exists[t])
      BY <1>k DEF NamedGraphsExist
    <3> QED
      BY <3>1, <1>i, <2>1
  <2> QED
    BY <2>2, <2>3
<1>1. CASE UNCHANGED <<graphs, next, insertion, exists>>
  BY <1>k, <1>1
<1>2. ASSUME NEW m \in listening, Crash(m)
      PROVE  A(n)' /\ B(n)'
  <2>1. m \in Nodes
    BY DEF FinalizationAssumption
  <2>2. m # n
    <3>1. "crash" \in faults'[m]
      BY <1>2, <2>1 DEF Crash, Fault
    <3> QED
      BY <3>1 DEF Sound
  <2> QED
    BY <1>2, <1>k, <1>n, <2>2 DEF Crash, StopInsertions, contents
<1>3. ASSUME NEW t \in Task, StoreAssertion(t)
      PROVE  A(n)' /\ B(n)'
  <2>1. graphs' = graphs /\ next' = next /\ pc[t] = "store"
        /\ \A u \in Task \ {t} : UNCHANGED <<insertion[u], exists[u]>>
    BY <1>3 DEF StoreAssertion, AskExists, AskExistsFails, contents
  <2>2. CASE NodeOf(t) # n
    BY <1>k, <1>n, <2>1, <2>2
  <2>3. CASE NodeOf(t) = n
    <3>1. /\ insertion[t] = "none" /\ insertion'[t] \in {"asked", "unasked"}
          /\ exists'[t] => NamedGraphsExist(n) \/ exists[t]
      BY <1>0, <1>3, <2>1, <2>3 DEF StoreAssertion, AskExists, AskExistsFails, CommandsAgree
    <3>2. /\ ~Inserting(t) /\ ~Inserting(t)'
          /\ \A u \in NodeTasks(n) \ {t} : Inserting(u)' <=> Inserting(u)
      BY <1>n, <2>1, <3>1 DEF Inserting, Started
    <3>3. A(n)'
      BY <1>i, <2>1, <3>2
    <3>4. NamedGraphsExist(n)' <=> NamedGraphsExist(n)
      BY <2>1 DEF NamedGraphsExist
    <3>5. B(n)'
      <4> SUFFICES ASSUME NamedGraphsExist(n)' \/ (\E u \in NodeTasks(n) : exists'[u])
                   PROVE  \E u \in NodeTasks(n) : Inserting(u)'
        BY DEF NodeTasks
      <4>1. NamedGraphsExist(n) \/ (\E u \in NodeTasks(n) : exists[u])
        <5>1. CASE NamedGraphsExist(n)'
          BY <3>4, <5>1
        <5>2. ASSUME NEW u \in NodeTasks(n), exists'[u]
              PROVE  NamedGraphsExist(n) \/ (\E w \in NodeTasks(n) : exists[w])
          <6>1. CASE u = t
            BY <5>2, <6>1, <3>1
          <6>2. CASE u # t
            BY <5>2, <6>2, <2>1, <1>n
          <6> QED
            BY <6>1, <6>2
        <5> QED
          BY <5>1, <5>2
      <4> QED
        BY <4>1, <1>i, <3>2
    <3> QED
      BY <3>3, <3>5
  <2> QED
    BY <2>2, <2>3
<1>4. ASSUME NEW t \in Task, InsertStep(t)
      PROVE  A(n)' /\ B(n)'
  <2>0. NodeOf(t) \in Nodes /\ (StoreStep(t) \/ StoreFault(t))
    BY <1>4, TaskFacts DEF InsertStep
  <2>1. exists' = exists /\ \A u \in Task :
          \/ insertion'[u] = insertion[u]
          \/ u = t /\ insertion[t] = "asked" /\ insertion'[t] = "writing"
          \/ u = t /\ insertion[t] = "writing" /\ insertion'[t] \in {"stored", "failed"}
    BY <2>0, InsertionMoves
  \* An insertion that inserts goes on being one, and the first graph has its inserter.
  <2>b. ASSUME NamedGraphsExist(n)' => NamedGraphsExist(n) \/ \E u \in NodeTasks(n) : Inserting(u)
        PROVE  B(n)'
    <3>1. \A u \in NodeTasks(n) : Inserting(u) => Inserting(u)'
      BY <1>n, <2>1 DEF Inserting, Started
    <3> SUFFICES ASSUME NamedGraphsExist(n)' \/ (\E u \in NodeTasks(n) : exists'[u])
                 PROVE  \E u \in NodeTasks(n) : Inserting(u)'
      BY DEF NodeTasks
    <3>2. \E u \in NodeTasks(n) : Inserting(u)
      BY <1>i, <2>1, <2>b
    <3> QED
      BY <3>1, <3>2
  <2>2. CASE StartQueries(t)
    <3>1. graphs' = graphs /\ \A u \in Task \ {t} : next'[u] = next[u] /\ insertion'[u] = insertion[u]
      BY <2>2 DEF StartQueries, contents
    <3>2. \A v \in Visibility, a \in 1..Assets :
            ~exists[t] /\ a <= LastAsset(NodeOf(t), v) => ~(a < next'[t][v])
      <4>1. next'[t] = [v \in Visibility |->
                          IF exists[t] \/ LastAsset(NodeOf(t), v) = 0 THEN Assets + 1 ELSE 1]
        BY <2>2 DEF StartQueries
      <4> TAKE v \in Visibility, a \in 1..Assets
      <4> HAVE ~exists[t] /\ a <= LastAsset(NodeOf(t), v)
      <4>2. next'[t][v] = IF LastAsset(NodeOf(t), v) = 0 THEN Assets + 1 ELSE 1
        BY <4>1
      <4>3. LastAsset(NodeOf(t), v) # 0
        BY LastAssetType
      <4> QED
        BY <4>2, <4>3
    <3>3. A(n)'
      <4> SUFFICES ASSUME NEW u \in NodeTasks(n), Inserting(u)', NEW v \in Visibility, NEW a \in 1..Assets,
                          a <= LastAsset(n, v), a < next'[u][v]
                   PROVE  Graph(a, v) \in graphs'[n]
        BY DEF NodeTasks
      <4>1. CASE u = t
        BY <1>n, <2>1, <3>2, <4>1 DEF Inserting
      <4>2. CASE u # t
        <5>1. Inserting(u) /\ a < next[u][v]
          BY <1>n, <2>1, <3>1, <4>2 DEF Inserting
        <5> QED
          BY <5>1, <1>i, <3>1
      <4> QED
        BY <4>1, <4>2
    <3>4. B(n)'
      BY <2>b, <3>1 DEF NamedGraphsExist
    <3> QED
      BY <3>3, <3>4
  <2>3. CASE InsertMetadata(t) \/ MetadataFails(t)
    BY <1>1, <2>3 DEF InsertMetadata, MetadataFails, contents
  <2>4. CASE Inserted(t) \/ Rejected(t)
    <3>1. next' = next /\ insertion[t] = "writing" /\ insertion'[t] \in Started
          /\ \A u \in Task \ {t} : insertion'[u] = insertion[u]
      BY <2>4 DEF Inserted, Rejected, Started
    <3>2. \A u \in NodeTasks(n) : Inserting(u)' <=> Inserting(u)
      BY <1>n, <2>1, <3>1 DEF Inserting, Started
    <3>3. graphs' = graphs \/ graphs' = DeleteNamedGraphs(NodeOf(t))
      BY <2>4 DEF Inserted, Rejected, contents
    <3>4. \A a \in 1..Assets, v \in Visibility : Graph(a, v) \in graphs[n] => Graph(a, v) \in graphs'[n]
      BY <2>0, <3>3, DropMissesGraphs
    <3>5. graphs'[n] \subseteq graphs[n]
      <4>1. DeleteNamedGraphs(NodeOf(t))[n] \subseteq graphs[n]
        BY <2>0 DEF DeleteNamedGraphs
      <4>2. graphs'[n] = graphs[n] \/ graphs'[n] = DeleteNamedGraphs(NodeOf(t))[n]
        BY <3>3
      <4> QED
        BY <4>1, <4>2
    <3>6. A(n)'
      BY <1>i, <3>1, <3>2, <3>4
    <3>7. B(n)'
      BY <2>b, <3>5 DEF NamedGraphsExist
    <3> QED
      BY <3>6, <3>7
  <2>5. ASSUME NEW v \in Visibility, InsertGraph(t, v) \/ GraphFails(t, v)
        PROVE  A(n)' /\ B(n)'
    <3>0. insertion' = insertion
      BY <2>5 DEF InsertGraph, GraphFails
    <3>1. CASE NodeOf(t) # n
      <4>1. graphs'[n] = graphs[n] /\ \A u \in NodeTasks(n) : next'[u] = next[u]
        BY <1>n, <2>0, <2>5, <3>1 DEF InsertGraph, GraphFails, contents
      <4> QED
        BY <1>k, <2>1, <3>0, <4>1
    <3>2. CASE NodeOf(t) = n /\ graphs' = graphs /\ next' = next
      BY <1>1, <2>1, <3>0, <3>2
    <3>3. CASE /\ NodeOf(t) = n
               /\ graphs' = [graphs EXCEPT ![NodeOf(t)] = @ \cup {Graph(next[t][v], v)}]
               /\ next' = [next EXCEPT ![t][v] = After(t, v, @)]
               /\ next[t][v] \in 1..Assets
      <4>1. Inserting(t) /\ t \in NodeTasks(n)
        BY <3>3, StoreAssumption DEF QueriesAgree, Inserting, NodeTasks
      <4>2. \A u \in NodeTasks(n) : Inserting(u)' <=> Inserting(u)
        BY <2>1, <3>0 DEF Inserting
      <4>3. graphs'[n] = graphs[n] \cup {Graph(next[t][v], v)}
        BY <3>3
      <4>4. A(n)'
        <5> SUFFICES ASSUME NEW u \in NodeTasks(n), Inserting(u)', NEW w \in Visibility,
                            NEW a \in 1..Assets, a <= LastAsset(n, w), a < next'[u][w]
                     PROVE  Graph(a, w) \in graphs'[n]
          BY DEF NodeTasks
        <5>1. CASE u = t /\ w = v
          <6>1. a < next[t][v] \/ a = next[t][v]
            BY <3>3, <5>1, AfterType, <1>n
          <6> QED
            BY <1>i, <4>1, <4>3, <5>1, <6>1
        <5>2. CASE ~(u = t /\ w = v)
          <6>1. next'[u][w] = next[u][w]
            BY <1>n, <3>3, <5>2
          <6> QED
            BY <1>i, <4>2, <4>3, <6>1
        <5> QED
          BY <5>1, <5>2
      <4>5. B(n)'
        BY <2>b, <4>1
      <4> QED
        BY <4>4, <4>5
    <3> QED
      BY <1>4, <2>5, <3>1, <3>2, <3>3, GraphQuery
  <2> QED
    BY <2>0, <2>2, <2>3, <2>4, <2>5 DEF StoreStep, StoreFault
<1>5. ASSUME NEW t \in Task, CommandStep(t) \/ CommandThrows(t), ~StoreAssertion(t)
      PROVE  UNCHANGED <<graphs, next, insertion, exists>>
  BY <1>5 DEF CommandStep, CommandThrows, ReadCachedPublishData, ValidateAssertionMetadata,
              AfterInsert, InsertFailed,
              RequestFinality, HandleNack, ProcessResponse, storeVars, progress, contents
<1>6. ASSUME NEW t \in Task, HandleEvent(t) \/ PublishFinalitySaveAck(t)
      PROVE  UNCHANGED <<graphs, next, insertion, exists>>
  BY <1>6 DEF HandleEvent, PublishFinalitySaveAck, storeVars, progress, contents
<1>7. ASSUME NEW m \in listening, HandleStoreRequest(m) \/ RemoveExpiredFileCache(m)
      PROVE  UNCHANGED <<graphs, next, insertion, exists>>
  BY <1>7 DEF HandleStoreRequest, RemoveExpiredFileCache, storeVars, progress, contents
<1>8. CASE UNCHANGED vars
  BY <1>1, <1>8 DEF vars, storeVars, progress, contents
<1> QED
  BY <1>1, <1>2, <1>3, <1>4, <1>5, <1>6, <1>7, <1>8 DEF Next, Step, CommandStep

-----------------------------------------------------------------------------
(* What is counted was stored, and why a task ends                         *)

\* A task that asks the publisher to count its node has stored the collection.
LEMMA AskingHasStored ==
  ASSUME TypeOK, CommandsAgree, QueriesAgree, NEW t \in Task,
         pc[t] \in Asking \/ insertion[t] = "stored"
  PROVE  insertion[t] = "stored" /\ HasMetadata(NodeOf(t))
  BY DEF CommandsAgree, QueriesAgree

\* In a node that neither crashes nor gives up, stored stays stored.
LEMMA StoredStays ==
  ASSUME TypeOK, CommandsAgree, [Next]_vars, NEW t \in Task, insertion[t] = "stored",
         Sound(NodeOf(t)) \/ pc[t] # "store"
  PROVE  insertion'[t] = "stored"
<1> USE DEF TypeOK, StoreTypeOK
<1>0. pc[t] # "store"
  BY DEF CommandsAgree
<1>1. ASSUME NEW u \in Task, InsertStep(u)
      PROVE  insertion'[t] = "stored"
  BY <1>1, InsertionMoves DEF InsertStep
<1>2. ASSUME NEW u \in Task, StoreAssertion(u)
      PROVE  insertion'[t] = "stored"
  BY <1>0, <1>2 DEF StoreAssertion, AskExists, AskExistsFails
<1>3. ASSUME NEW n \in listening, Crash(n)
      PROVE  insertion'[t] = "stored"
  BY <1>3 DEF Crash, StopInsertions
<1>4. ASSUME NEW u \in Task, CommandStep(u) \/ CommandThrows(u), ~StoreAssertion(u)
      PROVE  insertion' = insertion
  BY <1>4 DEF CommandStep, CommandThrows, ReadCachedPublishData, ValidateAssertionMetadata,
              AfterInsert, InsertFailed,
              RequestFinality, HandleNack, ProcessResponse, storeVars, progress
<1>5. ASSUME NEW u \in Task, HandleEvent(u) \/ PublishFinalitySaveAck(u)
      PROVE  insertion' = insertion
  BY <1>5 DEF HandleEvent, PublishFinalitySaveAck, storeVars, progress
<1>6. ASSUME NEW n \in listening, HandleStoreRequest(n) \/ RemoveExpiredFileCache(n)
      PROVE  insertion' = insertion
  BY <1>6 DEF HandleStoreRequest, RemoveExpiredFileCache, storeVars, progress
<1>7. CASE UNCHANGED vars
  BY <1>7 DEF vars, storeVars, progress
<1> QED
  BY <1>1, <1>2, <1>3, <1>4, <1>5, <1>6, <1>7 DEF Next, Step

\* Requests come from tasks that stored, acknowledgements from such or from requests.
LEMMA CountedFrom ==
  ASSUME TypeOK, CommandsAgree, QueriesAgree, [Next]_vars
  PROVE  /\ \A t \in requests' : t \in requests \/ insertion[t] = "stored"
         /\ \A n \in acks' : \/ n \in acks
                             \/ \E t \in requests : NodeOf(t) = n
                             \/ \E t \in Task : NodeOf(t) = n /\ insertion[t] = "stored"
<1> USE DEF TypeOK
<1>1. ASSUME NEW t \in Task, AfterInsert(t)
      PROVE  /\ requests' = requests
             /\ \A n \in acks' : n \in acks \/ (NodeOf(t) = n /\ insertion[t] = "stored")
  BY <1>1 DEF AfterInsert
<1>2. ASSUME NEW t \in Task, RequestFinality(t)
      PROVE  acks' = acks /\ \A u \in requests' : u \in requests \/ insertion[u] = "stored"
  BY <1>2 DEF RequestFinality, CommandsAgree, Asking
<1>3. ASSUME NEW t \in Task, PublishFinalitySaveAck(t)
      PROVE  /\ requests' \subseteq requests
             /\ \A n \in acks' : n \in acks \/ \E u \in requests : NodeOf(u) = n
  BY <1>3 DEF PublishFinalitySaveAck
<1>4. ASSUME NEW t \in Task, CommandStep(t) \/ CommandThrows(t), ~AfterInsert(t), ~RequestFinality(t)
      PROVE  requests' = requests /\ acks' = acks
  BY <1>4 DEF CommandStep, CommandThrows, ReadCachedPublishData, ValidateAssertionMetadata,
              StoreAssertion, InsertFailed, HandleNack, ProcessResponse, networkVars
<1>5. ASSUME NEW t \in Task, HandleEvent(t) \/ InsertStep(t)
      PROVE  requests' = requests /\ acks' = acks
  BY <1>5 DEF HandleEvent, InsertStep, networkVars
<1>6. ASSUME NEW n \in listening, HandleStoreRequest(n) \/ RemoveExpiredFileCache(n) \/ Crash(n)
      PROVE  requests' = requests /\ acks' = acks
  BY <1>6 DEF HandleStoreRequest, RemoveExpiredFileCache, Crash, networkVars
<1>7. CASE UNCHANGED vars
  BY <1>7 DEF vars, networkVars
<1>8. CASE \E t \in Task : AfterInsert(t)
  BY <1>1, <1>8
<1>9. CASE \E t \in Task : RequestFinality(t)
  BY <1>2, <1>9
<1>10. CASE \E t \in Task : PublishFinalitySaveAck(t)
  BY <1>3, <1>10
<1>11. CASE requests' = requests /\ acks' = acks
  BY <1>11
<1> QED
  BY <1>4, <1>5, <1>6, <1>7, <1>8, <1>9, <1>10, <1>11 DEF Next, Step

LEMMA CountedStep ==
  ASSUME TypeOK, CommandsAgree, QueriesAgree, CountedIsStored, [Next]_vars
  PROVE  CountedIsStored'
<1>0. requests \subseteq Task /\ acks \subseteq Nodes /\ \A t \in Task : NodeOf(t) \in Nodes
  BY TaskFacts DEF TypeOK
<1>1. /\ \A t \in requests' : t \in requests \/ insertion[t] = "stored"
      /\ \A n \in acks' : \/ n \in acks
                          \/ \E t \in requests : NodeOf(t) = n
                          \/ \E t \in Task : NodeOf(t) = n /\ insertion[t] = "stored"
  BY CountedFrom
<1>2. requests' \subseteq Task /\ acks' \subseteq Nodes
  BY TypeStep DEF TypeOK
<1>3. \A t \in requests' : HasMetadata(NodeOf(t))
  BY <1>1, <1>2, AskingHasStored DEF CountedIsStored
<1>4. \A n \in acks' : HasMetadata(n)
  BY <1>1, <1>0, AskingHasStored DEF CountedIsStored
<1>5. (\A t \in requests' : HasMetadata(NodeOf(t))') /\ (\A n \in acks' : HasMetadata(n)')
  BY <1>0, <1>2, <1>3, <1>4, MetadataStays
<1>6. ASSUME NEW n \in Nodes, Sound(n)', n \in acks' \/ \E t \in requests' : NodeOf(t) = n
      PROVE  \E t \in NodeTasks(n) : insertion'[t] = "stored"
  <2>1. Sound(n)
    BY <1>6, FaultsGrow
  <2>2. \E t \in NodeTasks(n) : insertion[t] = "stored"
    <3>1. \/ n \in acks \/ \E t \in requests : NodeOf(t) = n
          \/ \E t \in Task : NodeOf(t) = n /\ insertion[t] = "stored"
      BY <1>1, <1>2, <1>6
    <3> QED
      BY <2>1, <3>1 DEF CountedIsStored, NodeTasks
  <2>3. PICK t \in NodeTasks(n) : insertion[t] = "stored"
    BY <2>2
  <2>4. t \in Task /\ NodeOf(t) = n
    BY DEF NodeTasks
  <2>5. insertion'[t] = "stored"
    BY <2>1, <2>3, <2>4, StoredStays
  <2> QED
    BY <2>5
<1> QED
  BY <1>5, <1>6 DEF CountedIsStored, NodeTasks

LEMMA EndsStep ==
  ASSUME TypeOK, CommandsAgree, QueriesAgree, EndsForAReason, [Next]_vars
  PROVE  EndsForAReason'
<1>m. ASSUME NEW t \in Task, InsertStep(t), NEW w \in Task, insertion[w] = "unasked"
      PROVE  insertion'[w] = "unasked"
  <2>1. \/ insertion'[w] = insertion[w]
        \/ w = t /\ insertion[t] \in {"asked", "writing"}
    BY <1>m, InsertionMoves DEF InsertStep
  <2> QED
    BY <1>m, <2>1
<1> USE DEF TypeOK, StoreTypeOK
<1> SUFFICES ASSUME NEW u \in Task, pc'[u] = "ended"
             PROVE  \/ insertion'[u] = "stored"
                    \/ /\ status'[u] = "FAILED"
                       /\ \/ meta'[u] = "failed" \/ insertion'[u] = "unasked"
                          \/ "thrown" \in faults'[NodeOf(u)]
                    \/ retries'[u] = 1 /\ "unread" \in faults'[NodeOf(u)]
  BY DEF EndsForAReason
<1> DEFINE Excused == meta'[u] = "failed" \/ insertion'[u] = "unasked" \/ "thrown" \in faults'[NodeOf(u)]
           Reason == \/ insertion'[u] = "stored"
                     \/ status'[u] = "FAILED" /\ Excused
                     \/ retries'[u] = 1 /\ "unread" \in faults'[NodeOf(u)]
<1>0. NodeOf(u) \in Nodes /\ faults[NodeOf(u)] \subseteq faults'[NodeOf(u)]
  BY TaskFacts, FaultsGrow
<1>i. pc[u] = "ended" => \/ insertion[u] = "stored"
                         \/ /\ status[u] = "FAILED"
                            /\ \/ meta[u] = "failed" \/ insertion[u] = "unasked"
                               \/ "thrown" \in faults[NodeOf(u)]
                         \/ retries[u] = 1 /\ "unread" \in faults[NodeOf(u)]
  BY DEF EndsForAReason
<1>s. insertion[u] = "stored" /\ pc[u] # "store" => insertion'[u] = "stored"
  BY StoredStays
<1>k. ASSUME pc[u] = "ended", status'[u] = status[u], retries'[u] = retries[u],
             meta[u] = "failed" => meta'[u] = "failed",
             insertion[u] = "unasked" => insertion'[u] = "unasked"
      PROVE  Reason
  BY <1>0, <1>i, <1>k, <1>s
<1>1. ASSUME NEW n \in listening, HandleStoreRequest(n) \/ RemoveExpiredFileCache(n)
      PROVE  Reason
  BY <1>1, <1>k DEF HandleStoreRequest, RemoveExpiredFileCache, commandVars, storeVars, progress
<1>2. ASSUME NEW n \in listening, Crash(n)
      PROVE  Reason
  <2>1. pc[u] = "ended" /\ (meta[u] = "failed" => meta'[u] = "failed")
        /\ (insertion[u] = "unasked" => insertion'[u] = "unasked")
    BY <1>2 DEF Crash, Replayed, StopInsertions
  <2> QED
    BY <1>2, <1>k, <2>1 DEF Crash
<1>3. ASSUME NEW t \in Task, HandleEvent(t)
      PROVE  Reason
  BY <1>3, <1>k DEF HandleEvent, GoTo, storeVars, progress
<1>4. ASSUME NEW t \in Task, ReadCachedPublishData(t)
      PROVE  Reason
  <2>1. CASE u = t
    <3>1. UNCHANGED retries /\ Fault(NodeOf(t), "unread") /\ ~(retries[t] > 1)
      BY <1>4, <2>1 DEF ReadCachedPublishData, GoTo
    <3>2. "unread" \in faults'[NodeOf(t)]
      BY <1>0, <2>1, <3>1 DEF Fault
    <3>3. retries[t] = 1
      <4>1. retries[t] \in 1..ReadRetries
        OBVIOUS
      <4> QED
        BY <3>1, <4>1
    <3> QED
      BY <2>1, <3>1, <3>2, <3>3
  <2>2. CASE u # t
    BY <1>4, <1>k, <2>2 DEF ReadCachedPublishData, GoTo, SetStatus, storeVars, progress
  <2> QED
    BY <2>1, <2>2
<1>5. ASSUME NEW t \in Task, ValidateAssertionMetadata(t) \/ RequestFinality(t) \/ HandleNack(t)
      PROVE  Reason
  BY <1>5, <1>k DEF ValidateAssertionMetadata, RequestFinality, HandleNack, GoTo, SetStatus, storeVars,
                    progress
<1>6. ASSUME NEW t \in Task, StoreAssertion(t)
      PROVE  Reason
  BY <1>6, <1>k DEF StoreAssertion, GoTo, SetStatus, AskExists, AskExistsFails
<1>7. ASSUME NEW t \in Task, AfterInsert(t) \/ InsertFailed(t) \/ ProcessResponse(t)
      PROVE  Reason
  <2>1. CASE u = t
    <3>1. insertion' = insertion /\ meta' = meta
      BY <1>7 DEF AfterInsert, InsertFailed, ProcessResponse, storeVars, progress
    <3>2. CASE AfterInsert(t)
      BY <2>1, <3>1, <3>2 DEF AfterInsert
    <3>3. CASE ProcessResponse(t)
      BY <2>1, <3>1, <3>3 DEF ProcessResponse, CommandsAgree, Asking
    <3>4. CASE InsertFailed(t)
      BY <2>1, <3>1, <3>4 DEF InsertFailed, SetStatus, QueriesAgree
    <3> QED
      BY <1>7, <3>2, <3>3, <3>4
  <2>2. CASE u # t
    BY <1>7, <1>k, <2>2 DEF AfterInsert, InsertFailed, ProcessResponse, GoTo, SetStatus, storeVars, progress
  <2> QED
    BY <2>1, <2>2
<1>8. ASSUME NEW t \in Task, PublishFinalitySaveAck(t)
      PROVE  Reason
  BY <1>8, <1>k DEF PublishFinalitySaveAck, commandVars, storeVars, progress
<1>9. ASSUME NEW t \in Task, InsertStep(t)
      PROVE  Reason
  <2>1. pc' = pc /\ status' = status /\ retries' = retries /\ (StoreStep(t) \/ StoreFault(t))
    BY <1>9 DEF InsertStep, commandVars
  <2>2. meta[u] = "failed" => meta'[u] = "failed"
    <3>1. insertion[u] = "asked" => pc[u] = "insert"
      BY DEF CommandsAgree
    <3>2. ~(u = t /\ StartQueries(t))
      BY <2>1, <3>1 DEF StartQueries
    <3>3. CASE StartQueries(t)
      BY <3>2, <3>3 DEF StartQueries
    <3>4. CASE InsertMetadata(t) \/ MetadataFails(t)
      BY <3>4 DEF InsertMetadata, MetadataFails
    <3>5. CASE Inserted(t) \/ Rejected(t) \/ \E v \in Visibility : InsertGraph(t, v) \/ GraphFails(t, v)
      BY <3>5 DEF Inserted, Rejected, InsertGraph, GraphFails
    <3> QED
      BY <2>1, <3>3, <3>4, <3>5 DEF StoreStep, StoreFault
  <2>3. insertion[u] = "unasked" => insertion'[u] = "unasked"
    BY <1>9, <1>m
  <2> QED
    BY <1>k, <2>1, <2>2, <2>3
<1>10. CASE UNCHANGED vars
  BY <1>10, <1>k DEF vars, commandVars, storeVars, progress
<1>11. ASSUME NEW t \in Task, CommandThrows(t)
       PROVE  Reason
  <2>1. insertion' = insertion /\ meta' = meta /\ retries' = retries
    BY <1>11 DEF CommandThrows, progress
  <2>2. CASE u = t
    <3>1. status'[u] = "FAILED" /\ "thrown" \in faults'[NodeOf(u)]
      BY <1>0, <1>11, <2>2 DEF CommandThrows, SetStatus, Fault
    <3> QED
      BY <3>1
  <2>3. CASE u # t
    BY <1>11, <1>k, <2>1, <2>3 DEF CommandThrows, GoTo, SetStatus
  <2> QED
    BY <2>2, <2>3
<1> QED
  BY <1>1, <1>2, <1>3, <1>4, <1>5, <1>6, <1>7, <1>8, <1>9, <1>10, <1>11 DEF Next, Step, CommandStep

-----------------------------------------------------------------------------
(* The theorems                                                            *)

LEMMA InitInv ==
  ASSUME Init
  PROVE  IInv
<1> USE DEF Init, StoreInit
<1>0. Assets \in Nat \ {0} /\ Publisher \in Nodes /\ \A t \in Task : NodeOf(t) \in Nodes
  BY TaskFacts DEF StoreAssumption, FinalizationAssumption
<1>1. TypeOK
  <2>1. StoreTypeOK
    BY DEF StoreTypeOK, Finished, StoreAssumption
  <2> QED
    BY <1>0, <2>1 DEF TypeOK, Commands, FinalizationAssumption
<1>2. CommandsAgree
  BY DEF CommandsAgree, Asking
<1>3. \A t \in Task, v \in Visibility : ~(next[t][v] <= Assets)
  BY <1>0 DEF Finished
<1>4. QueriesAgree
  BY <1>3 DEF QueriesAgree
<1>5. GraphsOfOne
  BY DEF GraphsOfOne, Inserting, Started, NamedGraphsExist, NodeTasks
<1>6. CountedIsStored
  BY DEF CountedIsStored
<1>7. EndsForAReason
  BY DEF EndsForAReason
<1> QED
  BY <1>1, <1>2, <1>4, <1>5, <1>6, <1>7 DEF IInv

LEMMA InvStep ==
  ASSUME IInv, [Next]_vars
  PROVE  IInv'
  BY TypeStep, CommandsStep, QueriesStep, GraphsStep, CountedStep, EndsStep DEF IInv

THEOREM FinalizationInvariant == Spec => []IInv
<1>1. Init => IInv
  BY InitInv
<1>2. IInv /\ [Next]_vars => IInv'
  BY InvStep
<1> QED
  BY <1>1, <1>2, PTL DEF Spec

(* Every variable of the finalization and of the triple stores keeps its    *)
(* type: the asset a query is at, its tries and the attempts of an          *)
(* insertion stay within the loops of OtTripleStore and TripleStoreService. *)
THEOREM FinalizationTypeCorrect == Spec => []TypeOK
<1>1. IInv => TypeOK
  BY DEF IInv
<1> QED
  BY <1>1, FinalizationInvariant, PTL

\* A node with an insertion stored holds the collection, or is inserting it once more.
LEMMA StoredIsWhole ==
  ASSUME IInv, NEW n \in Nodes, Sound(n), NEW t \in NodeTasks(n), insertion[t] = "stored"
  PROVE  Whole(n) \/ ("twice" \in faults[n] /\ Writing(n))
<1> USE DEF IInv, TypeOK, StoreTypeOK
<1>0. t \in Task /\ NodeOf(t) = n /\ Assets \in Nat \ {0}
  BY DEF NodeTasks, StoreAssumption
<1>1. ASSUME NEW u \in NodeTasks(n), Inserting(u), next[u] = Finished
      PROVE  Whole(n)
  <2>1. ASSUME NEW v \in Visibility, NEW a \in 1..LastAsset(n, v)
        PROVE  a \in GetAssertion(n, v)
    <3>1. a \in 1..Assets /\ a <= LastAsset(n, v) /\ a < Assets + 1
      <4>1. LastAsset(n, v) \in Nat /\ LastAsset(n, v) <= Assets
        BY LastAssetType
      <4> QED
        BY <1>0, <4>1
    <3>2. a < next[u][v]
      BY <1>1, <3>1 DEF Finished
    <3> QED
      BY <1>1, <3>1, <3>2 DEF GraphsOfOne, GetAssertion
  <2> QED
    BY <2>1 DEF Whole
<1>2. next[t] = Finished
  BY <1>0 DEF QueriesAgree
<1>3. CASE ~exists[t]
  BY <1>1, <1>2, <1>3 DEF Inserting, Started
<1>4. CASE exists[t]
  <2>1. PICK u \in NodeTasks(n) : Inserting(u)
    BY <1>4 DEF GraphsOfOne
  <2>2. u \in Task /\ NodeOf(u) = n /\ u # t
    BY <1>4, <2>1 DEF NodeTasks, Inserting
  <2>3. CASE next[u] = Finished
    BY <1>1, <2>1, <2>3
  <2>4. CASE next[u] # Finished
    <3>1. Writing(n)
      <4>1. u = <<n, u[2]>> /\ u[2] \in 1..RoundsOf(n)
        BY <2>2, TaskFacts
      <4> QED
        BY <2>4, <4>1 DEF Writing
    <3>2. pc[t] # "unseen" /\ pc[u] # "unseen"
      BY <1>0, <2>1, <2>2 DEF CommandsAgree, Inserting, Started
    <3>3. t[2] > 1 \/ u[2] > 1
      BY <1>0, <2>2, SecondTask
    <3>4. "twice" \in faults[n]
      BY <1>0, <2>2, <3>2, <3>3 DEF CommandsAgree
    <3> QED
      BY <3>1, <3>4
  <2> QED
    BY <2>3, <2>4
<1> QED
  BY <1>3, <1>4

(* A node whose acknowledgement the publisher counted has the metadata of   *)
(* the collection, and unless it crashed or gave a graph up it has all its  *)
(* graphs, or is a node that handled the event twice and whose first        *)
(* insertion is still at work.                                              *)
THEOREM AckMeansStoredCorrect == Spec => []AckMeansStored
<1>1. IInv => AckMeansStored
  <2> SUFFICES ASSUME IInv, NEW n \in acks
               PROVE  /\ metadata[n] = 1..Assets
                      /\ faults[n] \cap {"gaveUp", "crash"} = {} =>
                           Whole(n) \/ ("twice" \in faults[n] /\ Writing(n))
    BY DEF AckMeansStored
  <2>1. n \in Nodes /\ HasMetadata(n)
    BY DEF IInv, TypeOK, CountedIsStored
  <2>2. Sound(n) => \E t \in NodeTasks(n) : insertion[t] = "stored"
    BY <2>1 DEF IInv, CountedIsStored
  <2> QED
    BY <2>1, <2>2, StoredIsWhole DEF HasMetadata, Sound
<1> QED
  BY <1>1, FinalizationInvariant, PTL

(* The sequence of commands of a task ends only with the collection stored, *)
(* or with its operation id failed after the metadata was not inserted, the *)
(* query for the graphs failed or a command threw, or after all attempts to *)
(* read the file.                                                           *)
THEOREM EndsForAReasonCorrect == Spec => []EndsForAReason
<1>1. IInv => EndsForAReason
  BY DEF IInv
<1> QED
  BY <1>1, FinalizationInvariant, PTL

=============================================================================
