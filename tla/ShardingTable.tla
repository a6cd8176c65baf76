---------------------------- MODULE ShardingTable ----------------------------
(***************************************************************************)
(* The local copy of a blockchain's sharding table. shardingTableCheck-    *)
(* Command compares the lengths of the two and pulls the table again, page *)
(* by page, in one transaction; dialPeersCommand dials the peers that were *)
(* not dialed for long. Nodes join and leave the table at any time, also   *)
(* between two pages.                                                      *)
(***************************************************************************)
EXTENDS Integers, FiniteSets, Sequences, SequencesExt

CONSTANTS
  Nodes,        \* number of nodes that may be in the table, by identity id
  PageSize,     \* pageSize
  Concurrency,  \* DIAL_PEERS_CONCURRENCY
  Initial,      \* nodes that are in the table at the start
  MaxChanges,   \* nodes that join or leave (bound)
  MaxErrors     \* failing calls, queries and crashes (bound)

ShardingAssumption ==
  /\ Nodes \in Nat \ {0} /\ PageSize \in Nat \ {0, 1} /\ Concurrency \in Nat \ {0}
  /\ Initial \in 0..Nodes
  /\ MaxChanges \in Nat /\ MaxErrors \in Nat

Node == 1..Nodes

VARIABLES
  chain,      \* nodes of the table on the blockchain, linked by identity id
  changes,    \* nodes that joined or left
  departed,   \* whether one left (history)
  rows,       \* peer records that others read
  pull,       \* where shardingTableCheckCommand is
  length, start, pulled, \* shardingTableLength, startingIdentityId, shardingTable
  dials,      \* peers in the order of their last_dialed
  dialed,     \* records whose last_dialed is recent
  cached,     \* peers whose lastDialed in memory is recent
  seen,       \* peers whose lastSeen in memory is recent
  errors

table == <<rows, dials, dialed>>
pulling == <<pull, length, start, pulled>>
memory == <<cached, seen>>
shardVars == <<chain, changes, departed, table, pulling, memory>>
vars == <<shardVars, errors>>

ShardTypeOK ==
  /\ chain \subseteq Node /\ changes \in 0..MaxChanges /\ departed \in BOOLEAN
  /\ rows \subseteq Node /\ ToSet(dials) = rows /\ Len(dials) = Cardinality(rows)
  /\ pull \in {"wait", "check", "length", "head", "page", "create"}
  /\ length \in 0..Nodes /\ start \in 0..Nodes /\ pulled \subseteq Node
  /\ dialed \subseteq rows /\ seen \subseteq cached /\ cached \subseteq Node
  /\ errors \in 0..MaxErrors

ShardInit ==
  /\ chain = 1..Initial /\ changes = 0 /\ departed = FALSE
  /\ rows = {} /\ dials = <<>> /\ dialed = {} /\ cached = {} /\ seen = {}
  /\ pull = "wait" /\ length = 0 /\ start = 0 /\ pulled = {}

Fails == errors < MaxErrors /\ errors' = errors + 1
Works == UNCHANGED errors

\* The identity ids of a page, from the first one on; 0 pads a page that is not full.
Following(n) == {m \in chain : m >= n}
Page(n) == {m \in Following(n) : Cardinality({k \in Following(n) : k < m}) < PageSize}
\* Mutant: the next page starts where this one did.
FirstOf(page) == CHOOSE m \in page : \A k \in page : k >= m

LastOf(page) == IF Cardinality(page) < PageSize THEN 0 ELSE CHOOSE m \in page : \A k \in page : k <= m
First == IF chain = {} THEN 0 ELSE CHOOSE n \in chain : \A m \in chain : n <= m

----------------------------------------------------------------------------
(* The blockchain *)

Join(n) ==
  /\ changes < MaxChanges /\ n \notin chain
  /\ chain' = chain \cup {n} /\ changes' = changes + 1
  /\ UNCHANGED <<departed, table, pulling, memory, errors>>

Leave(n) ==
  /\ changes < MaxChanges /\ n \in chain
  /\ chain' = chain \ {n} /\ changes' = changes + 1 /\ departed' = TRUE
  /\ UNCHANGED <<table, pulling, memory, errors>>

----------------------------------------------------------------------------
(* shardingTableCheckCommand *)

Repeat == pull' = "wait" /\ length' = 0 /\ start' = 0 /\ pulled' = {}

\* The first half of the check; the rows are counted outside the transaction.
GetShardingTableLength ==
  /\ pull = "wait" /\ Works
  /\ pull' = "check" /\ length' = Cardinality(chain)
  /\ UNCHANGED <<chain, changes, departed, table, start, pulled, memory>>

CompareLengths ==
  /\ pull = "check" /\ Works
  /\ IF length # Cardinality(rows) THEN pull' = "length" /\ UNCHANGED <<length, start, pulled>> ELSE Repeat
  /\ UNCHANGED <<chain, changes, departed, table, memory>>

\* The rows are removed in the transaction, which nobody else sees yet, and
\* the length is asked for again.
StartPull ==
  /\ pull = "length" /\ Works
  /\ pull' = "head" /\ length' = Cardinality(chain)
  /\ UNCHANGED <<chain, changes, departed, table, start, pulled, memory>>

GetShardingTableHead ==
  /\ pull = "head" /\ Works
  /\ pull' = "page" /\ start' = First
  /\ UNCHANGED <<chain, changes, departed, table, length, pulled, memory>>

\* Pages overlap by one. The page that starts at a node that is gone, or at 0,
\* may hold nothing, and the loop goes round.
GetShardingTablePage ==
  /\ pull = "page" /\ Cardinality(pulled) < length
  /\ start \in chain /\ Works
  /\ pulled' = pulled \cup Page(start)
  /\ start' = LastOf(Page(start))
  /\ UNCHANGED <<chain, changes, departed, table, pull, length, memory>>

\* Rows in order, for those that never were dialed.
ByNode(S) == SetToSortSeq(S, <)

\* Commit: the new records have never been dialed, whatever the old ones said;
\* the memory cache stays.
CreateManyPeerRecords ==
  /\ pull = "page" /\ Cardinality(pulled) >= length /\ Works
  /\ rows' = pulled /\ dials' = ByNode(pulled) /\ dialed' = {}
  /\ Repeat
  /\ UNCHANGED <<chain, changes, departed, memory>>

\* Rollback, and the command is repeated; the contract may refuse a page that
\* starts at a node that is gone.
Rollback ==
  /\ pull # "wait"
  /\ IF pull = "page" /\ Cardinality(pulled) < length /\ start \notin chain THEN Works ELSE Fails
  /\ Repeat
  /\ UNCHANGED <<chain, changes, departed, table, memory>>

----------------------------------------------------------------------------
(* dialPeersCommand *)

\* Mutant: those that were dialed last come first.
GetLatestDialed ==
  LET due == SelectSeq(dials, LAMBDA n : n \notin dialed)
  IN  {due[i] : i \in (IF Len(due) > Concurrency THEN Len(due) - Concurrency + 1 ELSE 1)..Len(due)}

\* The peers not dialed lately, the oldest first.
GetPeersToDial ==
  LET due == SelectSeq(dials, LAMBDA n : n \notin dialed)
  IN  {due[i] : i \in 1..(IF Len(due) < Concurrency THEN Len(due) ELSE Concurrency)}

\* An update of a row that a pull has removed waits for the transaction.
Locked == pull \in {"head", "page"}

WriteLastDialed(n) ==
  /\ n \in rows /\ ~Locked
  /\ cached' = cached \cup {n}
  /\ dialed' = dialed \cup {n}
  /\ dials' = Append(SelectSeq(dials, LAMBDA m : m # n), n)
  /\ UNCHANGED <<rows, chain, changes, departed, pulling, errors>>

\* Nothing is written when memory says that it was written lately.
UpdatePeerRecordLastSeenAndLastDialed(n) ==
  /\ n \notin seen \/ n \notin cached
  /\ WriteLastDialed(n) /\ seen' = seen \cup {n}

UpdatePeerRecordLastDialed(n) ==
  /\ n \notin cached
  /\ WriteLastDialed(n) /\ UNCHANGED seen

\* A dial that fails, or a peer without addresses, writes the time of the dial only.
Dial ==
  \E n \in GetPeersToDial :
    UpdatePeerRecordLastSeenAndLastDialed(n) \/ UpdatePeerRecordLastDialed(n)

\* The peer connects by itself.
PeerConnected(n) == UpdatePeerRecordLastSeenAndLastDialed(n)

\* MIN_DIAL_FREQUENCY_MILLIS have passed, twice PEER_RECORD_UPDATE_DELAY.
DialIsDue(n) ==
  /\ n \in dialed /\ n \notin cached
  /\ dialed' = dialed \ {n}
  /\ UNCHANGED <<chain, changes, departed, rows, dials, pulling, memory, errors>>

\* PEER_RECORD_UPDATE_DELAY has passed.
CacheIsOld(n) ==
  /\ n \in cached
  /\ cached' = cached \ {n} /\ seen' = seen \ {n}
  /\ UNCHANGED <<chain, changes, departed, table, pulling, errors>>

\* The transaction of a pull is rolled back; the cache is lost.
ShardCrash ==
  /\ Fails
  /\ Repeat /\ cached' = {} /\ seen' = {}
  /\ UNCHANGED <<chain, changes, departed, table>>

LastSeenIsOld(n) ==
  /\ n \in seen
  /\ seen' = seen \ {n}
  /\ UNCHANGED <<chain, changes, departed, table, pulling, cached, errors>>

Check ==
  \/ GetShardingTableLength \/ CompareLengths \/ StartPull \/ GetShardingTableHead
  \/ GetShardingTablePage \/ CreateManyPeerRecords

ShardNext ==
  \/ Check \/ Rollback \/ ShardCrash \/ Dial
  \/ \E n \in Node : Join(n) \/ Leave(n) \/ PeerConnected(n) \/ DialIsDue(n) \/ CacheIsOld(n) \/ LastSeenIsOld(n)

\* The executor repeats both commands; time passes.
ShardFairness ==
  /\ WF_vars(Check)
  /\ WF_vars(Dial)
  /\ \A n \in Node : WF_vars(DialIsDue(n) \/ CacheIsOld(n))

Spec == ShardInit /\ errors = 0 /\ [][ShardNext]_vars /\ ShardFairness

----------------------------------------------------------------------------
(* Properties *)

\* When no node leaves, the check finds every node that joined, also between two
\* pages: in the end the rows are the table.
TableConverges == []~departed => <>[](rows = chain)

\* A pull forgets when its peers were dialed while the memory cache does not, so a
\* dial of such a peer writes nothing and the peer comes first again.  All the same
\* no record is passed over: a peer that stays in the table is dialed again and again,
\* unless a pull goes round for ever with the rows locked.
PeersAreDialed ==
  <>[]Locked \/ \A n \in Node : []<>(n \notin rows \/ n \in dialed)

=============================================================================
