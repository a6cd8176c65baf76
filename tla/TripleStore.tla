---------------------------- MODULE TripleStore ----------------------------
(***************************************************************************)
(* Insertion of a knowledge collection into the triple store of a node     *)
(* (TripleStoreService.insertKnowledgeCollection over OtTripleStore).  A   *)
(* collection is a number of assets, each with a named graph of its public *)
(* triples and perhaps one of its private triples, and a line of metadata  *)
(* per asset.  The queries of an insertion run concurrently, and those of  *)
(* different insertions into one store interleave.                         *)
(***************************************************************************)
EXTENDS Integers, FiniteSets

CONSTANTS
  Nodes,          \* nodes, each with its triple store
  Repeating,      \* nodes that may handle the event of the collection again
  Rounds,         \* insertions such a node may start for it (bound)
  Assets,         \* number of knowledge assets of the collection
  PrivateAt,      \* node whose data set has the private triples too
  PrivateAssets,  \* how many assets have private triples, the first ones
  GraphRetries,   \* attempts per named graph
  InsertRetries,  \* attempts per insertion
  MaxErrors       \* failing queries and other faults (bound)

ASSUME StoreAssumption ==
  /\ Assets \in Nat \ {0} /\ PrivateAssets \in 0..Assets
  /\ Rounds \in Nat \ {0} /\ Repeating \subseteq Nodes
  /\ GraphRetries \in Nat \ {0} /\ InsertRetries \in Nat \ {0}
  /\ MaxErrors \in Nat

VARIABLES
  graphs,     \* named graphs in the store of a node
  metadata,   \* assets with a line in its metadata graph
  exists,     \* existsInNamedGraphs, as read by an insertion
  next,       \* per visibility, the asset whose graph is inserted next
  tries,      \* per visibility, failed attempts for that graph
  meta,       \* the query that inserts the metadata
  attempts,   \* failed attempts of the insertion
  insertion,  \* where insertKnowledgeCollection is
  errors      \* faults so far

contents == <<graphs, metadata>>
progress == <<exists, next, tries, meta, attempts, insertion>>
storeVars == <<contents, progress, errors>>

Visibility == {"public", "private"}
RoundsOf(n) == IF n \in Repeating THEN Rounds ELSE 1
Task == UNION {{<<n, k>> : k \in 1..RoundsOf(n)} : n \in Nodes}
NodeOf(t) == t[1]

\* Names of graphs: asset UAL and visibility.
Graph(a, v) == <<a, v>>
AllGraphs == {Graph(a, v) : a \in 1..Assets, v \in Visibility}

\* Assets for which the node's data set has triples of the visibility.
LastAsset(n, v) ==
  IF v = "public" THEN Assets ELSE IF n = PrivateAt THEN PrivateAssets ELSE 0

Finished == [v \in Visibility |-> Assets + 1]

\* knowledgeCollectionNamedGraphsExist asks for the first public graph only.
NamedGraphsExist(n) == Graph(1, "public") \in graphs[n]

\* DROP GRAPH of the asset UALs, without the visibility that createKnowledge-
\* CollectionNamedGraphs adds to them.
DeleteNamedGraphs(n) == [graphs EXCEPT ![n] = @ \ {<<a>> : a \in 1..Assets}]

\* What getAssertion finds: the assets with a graph of the visibility asked for.
GetAssertion(n, v) == {a \in 1..Assets : Graph(a, v) \in graphs[n]}

Whole(n) == \A v \in Visibility : 1..LastAsset(n, v) \subseteq GetAssertion(n, v)

StoreTypeOK ==
  /\ graphs \in [Nodes -> SUBSET AllGraphs]
  /\ metadata \in [Nodes -> SUBSET (1..Assets)]
  /\ exists \in [Task -> BOOLEAN]
  /\ next \in [Task -> [Visibility -> 1..(Assets + 1)]]
  /\ tries \in [Task -> [Visibility -> 0..(GraphRetries - 1)]]
  /\ meta \in [Task -> {"none", "sent", "done", "failed"}]
  /\ attempts \in [Task -> 0..InsertRetries]
  /\ insertion \in [Task -> {"none", "asked", "unasked", "writing", "stored", "failed"}]
  /\ errors \in 0..MaxErrors

StoreInit ==
  /\ graphs = [n \in Nodes |-> {}]
  /\ metadata = [n \in Nodes |-> {}]
  /\ exists = [t \in Task |-> FALSE]
  /\ next = [t \in Task |-> Finished]
  /\ tries = [t \in Task |-> [v \in Visibility |-> 0]]
  /\ meta = [t \in Task |-> "none"]
  /\ attempts = [t \in Task |-> 0]
  /\ insertion = [t \in Task |-> "none"]
  /\ errors = 0

\* The start of insertKnowledgeCollection.
AskExists(t) ==
  /\ exists' = [exists EXCEPT ![t] = NamedGraphsExist(NodeOf(t))]
  /\ insertion' = [insertion EXCEPT ![t] = "asked"]
  /\ UNCHANGED <<contents, next, tries, meta, attempts, errors>>

\* Its first query is outside of the loop of attempts: when it fails nothing is inserted.
AskExistsFails(t) ==
  /\ errors < MaxErrors
  /\ errors' = errors + 1
  /\ insertion' = [insertion EXCEPT ![t] = "unasked"]
  /\ UNCHANGED <<contents, exists, next, tries, meta, attempts>>

\* All queries are started together; the graphs only when the first was absent.
StartQueries(t) ==
  /\ insertion[t] = "asked"
  /\ next' = [next EXCEPT ![t] =
       [v \in Visibility |-> IF exists[t] \/ LastAsset(NodeOf(t), v) = 0 THEN Assets + 1 ELSE 1]]
  /\ tries' = [tries EXCEPT ![t] = [v \in Visibility |-> 0]]
  /\ meta' = [meta EXCEPT ![t] = "sent"]
  /\ attempts' = [attempts EXCEPT ![t] = 0]
  /\ insertion' = [insertion EXCEPT ![t] = "writing"]
  /\ UNCHANGED <<contents, exists, errors>>

\* Mutant: the loop leaves the last asset out.
AfterButLast(t, v, a) == IF a + 1 < LastAsset(NodeOf(t), v) THEN a + 1 ELSE Assets + 1

\* The asset after a, or the end of the loop over the assets of the visibility.
After(t, v, a) == IF a < LastAsset(NodeOf(t), v) THEN a + 1 ELSE Assets + 1

InsertGraph(t, v) ==
  /\ next[t][v] <= Assets
  /\ graphs' = [graphs EXCEPT ![NodeOf(t)] = @ \cup {Graph(next[t][v], v)}]
  /\ next' = [next EXCEPT ![t][v] = After(t, v, @)]
  /\ tries' = [tries EXCEPT ![t][v] = 0]
  /\ UNCHANGED <<metadata, exists, meta, attempts, insertion, errors>>

\* The loop ends after the last attempt without an error: its test for throwing
\* (attempts above retries) cannot hold.
GraphFails(t, v) ==
  /\ next[t][v] <= Assets /\ errors < MaxErrors
  /\ errors' = errors + 1
  /\ IF tries[t][v] + 1 < GraphRetries
       THEN /\ tries' = [tries EXCEPT ![t][v] = @ + 1]
            /\ next' = next
       ELSE /\ tries' = [tries EXCEPT ![t][v] = 0]
            /\ next' = [next EXCEPT ![t][v] = After(t, v, @)]
  /\ UNCHANGED <<contents, exists, meta, attempts, insertion>>

InsertMetadata(t) ==
  /\ meta[t] = "sent"
  /\ meta' = [meta EXCEPT ![t] = "done"]
  /\ metadata' = [metadata EXCEPT ![NodeOf(t)] = 1..Assets]
  /\ UNCHANGED <<graphs, exists, next, tries, attempts, insertion, errors>>

MetadataFails(t) ==
  /\ meta[t] = "sent" /\ errors < MaxErrors
  /\ errors' = errors + 1
  /\ meta' = [meta EXCEPT ![t] = "failed"]
  /\ UNCHANGED <<contents, exists, next, tries, attempts, insertion>>

\* Mutant: the promises of the graphs are not awaited.
InsertedEarly(t) ==
  /\ insertion[t] = "writing" /\ meta[t] = "done"
  /\ insertion' = [insertion EXCEPT ![t] = "stored"]
  /\ UNCHANGED <<contents, exists, next, tries, meta, attempts, errors>>

\* Promise.all over the queries is fulfilled.
Inserted(t) ==
  /\ insertion[t] = "writing"
  /\ next[t] = Finished /\ meta[t] = "done"
  /\ insertion' = [insertion EXCEPT ![t] = "stored"]
  /\ UNCHANGED <<contents, exists, next, tries, meta, attempts, errors>>

\* Promise.all is rejected as soon as one query is, while the others go on. A
\* further attempt awaits the same promises; after the last one the graphs are
\* dropped, if they were not there before.
Rejected(t) ==
  /\ insertion[t] = "writing" /\ meta[t] = "failed"
  /\ attempts' = [attempts EXCEPT ![t] = @ + 1]
  /\ IF attempts[t] + 1 < InsertRetries
       THEN UNCHANGED <<graphs, insertion>>
       ELSE /\ insertion' = [insertion EXCEPT ![t] = "failed"]
            /\ graphs' = IF exists[t] THEN graphs ELSE DeleteNamedGraphs(NodeOf(t))
  /\ UNCHANGED <<metadata, exists, next, tries, meta, errors>>

\* A crash ends the queries that were not sent; the contents of the store stay.
StopInsertions(n) ==
  LET Mine(t) == NodeOf(t) = n
  IN  /\ next' = [t \in Task |-> IF Mine(t) THEN Finished ELSE next[t]]
      /\ tries' = [t \in Task |-> IF Mine(t) THEN [v \in Visibility |-> 0] ELSE tries[t]]
      /\ meta' = [t \in Task |-> IF Mine(t) /\ meta[t] = "sent" THEN "none" ELSE meta[t]]
      /\ insertion' = [t \in Task |->
           IF Mine(t) /\ insertion[t] \in {"asked", "writing"} THEN "none"
           ELSE insertion[t]]
      /\ UNCHANGED <<contents, exists, attempts>>

StoreStep(t) ==
  \/ StartQueries(t)
  \/ \E v \in Visibility : InsertGraph(t, v)
  \/ InsertMetadata(t) \/ Inserted(t) \/ Rejected(t)

StoreFault(t) == MetadataFails(t) \/ \E v \in Visibility : GraphFails(t, v)

=============================================================================
