------------------------- MODULE EventListenerProofs -------------------------
(***************************************************************************)
(* Proofs about the event listener of one chain, for every ledger, every   *)
(* size of the ranges, and any number of failures and crashes.             *)
(***************************************************************************)
EXTENDS EventListener, TLAPS

USE SizesAssumption, RangesAssumption, OtherBlocksAssumption

-----------------------------------------------------------------------------
(* Types                                                                   *)

\* The rest of a list, the logs of a range and the next list are sets of logs.
LEMMA SetsOfLogs ==
  /\ \A S \in SUBSET Logs : RestOf(S) \subseteq Logs
  /\ \A contracts, from, upto : Past(contracts, from, upto) \subseteq Logs
  /\ \A S, N \in SUBSET Logs : NextEvent(S, N) =>
       /\ pc' \in {"process", "commit"}
       /\ current' \in IF pc' = "process" THEN Logs ELSE {0}
       /\ ahead' \in SUBSET Logs /\ newEvents' \in SUBSET Logs
BY DEF RestOf, Past, NextEvent, IsFirst

\* Counting a handled log keeps the counters natural numbers.
LEMMA Counting ==
  ASSUME TypeOK, handled' = [handled EXCEPT ![current] = @ + 1]
  PROVE  /\ handled' \in [Logs -> Nat]
         /\ \A l \in Logs : handled'[l] = IF l = current THEN handled[l] + 1 ELSE handled[l]
<1>1. handled \in [Logs -> Nat]
  BY DEF TypeOK
<1>2. \A l \in Logs : handled'[l] = IF l = current THEN handled[l] + 1 ELSE handled[l]
  BY <1>1
<1>3. \A l \in Logs : handled'[l] \in Nat
  BY <1>1, <1>2
<1> QED
  BY <1>1, <1>2, <1>3

\* Every step keeps every variable in its set.
LEMMA TypeStep ==
  ASSUME TypeOK, [Next]_vars
  PROVE  TypeOK'
<1> USE DEF chain, database, transaction, fields, history, Fault, FaultKinds
<1>1. CASE NewBlock
  BY <1>1 DEF TypeOK, Places, NewBlock
<1>2. CASE GetBlock
  BY <1>2 DEF TypeOK, Places, GetBlock
<1>3. CASE GetLastChecked
  BY <1>3 DEF TypeOK, Places, GetLastChecked
<1>4. CASE Fetch
  <2>1. fetched' \in SUBSET Logs
    BY <1>4, SetsOfLogs DEF Fetch
  <2>2. faults' \subseteq FaultKinds
    BY <1>4 DEF Fetch, TypeOK
  <2> QED
    BY <1>4, <2>1, <2>2 DEF TypeOK, Places, Fetch
<1>5. CASE FetchFails
  BY <1>5, SetsOfLogs DEF TypeOK, Places, FetchFails
<1>6. CASE Store
  BY <1>6 DEF TypeOK, Places, Store
<1>7. CASE Collect
  BY <1>7, SetsOfLogs DEF TypeOK, Places, Collect
<1>8. CASE HandleEvent
  <2>1. handled' \in [Logs -> Nat]
    BY <1>8, Counting DEF HandleEvent
  <2> QED
    BY <1>8, <2>1, SetsOfLogs DEF TypeOK, Places, HandleEvent
<1>9. CASE HandlerFails
  BY <1>9, SetsOfLogs DEF TypeOK, Places, HandlerFails
<1>10. CASE HandleKnownChange
  <2>1. handled' \in [Logs -> Nat]
    BY <1>10, Counting DEF HandleKnownChange
  <2> QED
    BY <1>10, <2>1, SetsOfLogs DEF TypeOK, Places, HandleKnownChange
<1>11. CASE HandleChange
  BY <1>11 DEF TypeOK, Places, HandleChange
<1>12. CASE Commit
  BY <1>12 DEF TypeOK, Places, Commit
<1>13. CASE Mark
  BY <1>13 DEF TypeOK, Places, Mark
<1>14. CASE Rollback
  BY <1>14 DEF TypeOK, Places, Rollback, ForgetPoll
<1>15. CASE Crash
  BY <1>15 DEF TypeOK, Places, Crash, ForgetPoll
<1>16. CASE Start
  BY <1>16 DEF TypeOK, Places, Start
<1>17. CASE OtherListener
  <2>1. currentBlock' \in Nat /\ ahead' \subseteq Logs /\ newEvents' \subseteq Logs
    BY <1>17 DEF TypeOK, OtherListener
  <2> QED
    BY <1>17, <2>1 DEF TypeOK, OtherListener
<1>20. ASSUME NEW found \in SUBSET Logs, Adopt(found), faults' \subseteq FaultKinds,
              failures' \in 0 .. MaxFailures,
              UNCHANGED <<chain, database, newLast, address, currentBlock, to, fetched>>
       PROVE  TypeOK'
  <2>1. handled' \in [Logs -> Nat]
    BY <1>20, Counting DEF Adopt
  <2>2. /\ inserted' \in SUBSET Logs /\ current' \in IF pc' = "process" THEN Logs ELSE {0}
        /\ pc' \in {"process", "commit"}
        /\ ahead' \in SUBSET Logs /\ newEvents' \in SUBSET Logs
    <3>1. /\ (IF found = {} THEN newEvents ELSE found) \in SUBSET Logs
          /\ RestOf(ahead) \in SUBSET Logs
      BY <1>20, SetsOfLogs DEF TypeOK
    <3> QED
      BY <1>20, <3>1, SetsOfLogs DEF TypeOK, Adopt
  <2> QED
    BY <1>20, <2>1, <2>2 DEF TypeOK, Places
<1>21. CASE Refetch
  BY <1>21, <1>20, SetsOfLogs DEF Refetch, TypeOK
<1>22. CASE RefetchFails
  BY <1>22, <1>20, SetsOfLogs DEF RefetchFails, TypeOK
<1>23. CASE UNCHANGED vars
  BY <1>23 DEF vars, TypeOK
<1> QED
  BY <1>1, <1>2, <1>3, <1>4, <1>5, <1>6, <1>7, <1>8, <1>9, <1>10, <1>11, <1>12, <1>13, <1>14, <1>15,
     <1>16, <1>17,
     <1>21, <1>22, <1>23 DEF Next

\* The database, the transaction and the memory of the listener keep their types.
THEOREM EventsTypeCorrect == Spec => []TypeOK
<1>1. Init => TypeOK
  BY DEF Init, TypeOK, Ledgers, Places
<1> QED
  BY <1>1, TypeStep, PTL DEF Spec

-----------------------------------------------------------------------------
(* The ledger                                                              *)

\* No step changes a log, and faults are not forgotten.
LEMMA LedgerFixed ==
  ASSUME [Next]_vars
  PROVE  /\ ledger' = ledger /\ faults \subseteq faults'
         /\ Changed' = Changed
         /\ \A l : Due(l)' = Due(l) /\ Change(l)' = Change(l)
         /\ \A l : Block(l)' = Block(l) /\ Kind(l)' = Kind(l)
<1>1. ledger' = ledger
  BY DEF Next, chain, vars, NewBlock, GetBlock, GetLastChecked, Fetch, FetchFails, Store,
         Collect, HandleEvent, HandlerFails, HandleKnownChange, HandleChange, Refetch,
         RefetchFails, Commit, Mark, Rollback, Crash, Start, OtherListener
<1>2. faults \subseteq faults'
  BY DEF Next, history, Fault, vars, NewBlock, GetBlock, GetLastChecked, Fetch, FetchFails,
         Store, Collect, HandleEvent, HandlerFails, HandleKnownChange, HandleChange, Refetch,
         RefetchFails, Commit, Mark, Rollback, Crash, Start, OtherListener
<1>3. \A l : Block(l)' = Block(l) /\ Kind(l)' = Kind(l)
  BY <1>1 DEF Block, Kind
<1>4. Changed' = Changed
  BY <1>1 DEF Changed, Kind
<1>5. \A l : Due(l)' = Due(l) /\ Change(l)' = Change(l)
  BY <1>1 DEF Due, Change, Block, Kind
<1> QED
  BY <1>1, <1>2, <1>3, <1>4, <1>5

\* Logs are in block order, at most one of them replaces the contract, and a new contract
\* has been put in place by one.
THEOREM EventsLedger == Spec => []LedgerOK
<1>1. ASSUME Init
      PROVE  LedgerOK
  <2>1. ledger \in Ledgers
    BY <1>1 DEF Init
  <2>2. \A k, l \in Logs : k < l => Block(k) <= Block(l) /\ ~(Change(k) /\ Change(l))
    BY <2>1 DEF Ledgers, Block, Change, Kind
  <2>3. \A c, d \in Logs : Change(c) /\ Change(d) => c = d
    <3>1. \A c, d \in Logs : c < d \/ d < c \/ c = d
      BY DEF Logs
    <3> QED
      BY <2>2, <3>1
  <2>4. \A l \in Logs : Kind(l) = "new" => \E c \in Logs : Change(c)
    BY <2>1 DEF Ledgers, Change, Kind
  <2> QED
    BY <2>2, <2>3, <2>4 DEF LedgerOK
<1>2. LedgerOK /\ [Next]_vars => LedgerOK'
  BY LedgerFixed DEF LedgerOK, Change, Block, Kind
<1> QED
  BY <1>1, <1>2, PTL DEF Spec

-----------------------------------------------------------------------------
(* Block numbers                                                           *)

LEMMA NextPlace ==
  \A S, N : NextEvent(S, N) => pc' = "commit" \/ pc' = "process"
BY DEF NextEvent

\* Without the listeners of other chains a poll works with blocks between the last checked
\* and the last one, and every row is of a block that was checked.
LEMMA PollingStep ==
  ASSUME TypeOK, TypeOK', Polling, [Next]_vars
  PROVE  Polling'
<1> SUFFICES ASSUME "chains" \notin faults'
             PROVE  BlocksOK' /\ CheckedOK'
  BY DEF Polling
<1> USE DEF chain, database, transaction, fields, history, Fault, InPoll, Rows, Block
<1>1. ledger' = ledger /\ BlocksOK /\ CheckedOK
  BY LedgerFixed DEF Polling
<1>2. /\ \A l \in Logs : Block(l) \in Nat
      /\ lastChecked \in Nat /\ newLast \in Nat /\ currentBlock \in Nat /\ to \in Nat
      /\ head \in Nat
      /\ unprocessed \subseteq Logs /\ processed \subseteq Logs /\ inserted \subseteq Logs
      /\ fetched \subseteq Logs
  BY DEF TypeOK, Blocks
<1> DEFINE Keeps == BlocksOK' /\ CheckedOK'
<1>3. CASE NewBlock
  BY <1>1, <1>2, <1>3 DEF BlocksOK, CheckedOK, NewBlock
<1>4. CASE GetBlock
  BY <1>1, <1>2, <1>4 DEF BlocksOK, CheckedOK, GetBlock
<1>5. CASE GetLastChecked
  BY <1>1, <1>2, <1>5 DEF BlocksOK, CheckedOK, GetLastChecked
<1>6. ASSUME Fetch \/ FetchFails
      PROVE  Keeps
  <2>1. \A l \in fetched' : lastChecked < Block(l) /\ Block(l) <= currentBlock
    <3>1. CASE Fetch
      BY <1>1, <1>2, <3>1 DEF Fetch, Past, BlocksOK
    <3>2. CASE FetchFails
      <4>1. PICK read \in Read(lastChecked, to) :
              fetched' = Past(Monitored, lastChecked + 1, read)
        BY <3>2 DEF FetchFails
      <4>2. read \in Nat /\ read <= to
        BY <1>2, <4>1 DEF Read
      <4> QED
        BY <1>1, <1>2, <3>2, <4>1, <4>2 DEF FetchFails, Past, BlocksOK
    <3> QED
      BY <1>6, <3>1, <3>2
  <2> QED
    BY <1>1, <1>2, <1>6, <2>1 DEF BlocksOK, CheckedOK, Fetch, FetchFails
<1>7. CASE Store
  BY <1>1, <1>2, <1>7 DEF BlocksOK, CheckedOK, Store
<1>8. CASE Collect \/ HandleEvent \/ HandlerFails \/ HandleKnownChange
  BY <1>1, <1>2, <1>8, NextPlace
  DEF BlocksOK, CheckedOK, Collect, HandleEvent, HandlerFails, HandleKnownChange
<1>9. CASE HandleChange
  BY <1>1, <1>2, <1>9 DEF BlocksOK, CheckedOK, HandleChange
<1>10. ASSUME NEW found \in SUBSET Logs, Adopt(found), pc = "refetch",
              \A l \in found : Block(l) <= currentBlock,
              UNCHANGED <<chain, database, newLast, address, currentBlock, to, fetched>>
       PROVE  Keeps
  BY <1>1, <1>2, <1>10, NextPlace DEF BlocksOK, CheckedOK, Adopt
<1>11. CASE Refetch
  <2>1. \A l \in Past({"new"}, Block(current) + 1, currentBlock) : Block(l) <= currentBlock
    BY DEF Past
  <2> QED
    BY <1>10, <1>11, <2>1, SetsOfLogs DEF Refetch
<1>12. CASE RefetchFails
  <2>1. PICK read \in Read(Block(current), currentBlock) :
          Adopt(Past({"new"}, Block(current) + 1, read))
    BY <1>12 DEF RefetchFails
  <2>2. read \in Nat /\ read <= currentBlock
    <3>1. current \in Logs
      BY <1>12 DEF RefetchFails, TypeOK
    <3> QED
      BY <1>2, <2>1, <3>1 DEF Read
  <2>3. \A l \in Past({"new"}, Block(current) + 1, read) : Block(l) <= currentBlock
    BY <1>2, <2>2 DEF Past
  <2> QED
    BY <1>10, <1>12, <2>1, <2>3, SetsOfLogs DEF RefetchFails
<1>13. CASE Commit
  BY <1>1, <1>2, <1>13 DEF BlocksOK, CheckedOK, Commit
<1>14. CASE Mark
  BY <1>1, <1>2, <1>14 DEF BlocksOK, CheckedOK, Mark
<1>15. CASE Rollback \/ Crash
  BY <1>1, <1>2, <1>15 DEF BlocksOK, CheckedOK, Rollback, Crash, ForgetPoll
<1>16. CASE Start
  BY <1>1, <1>2, <1>16 DEF BlocksOK, CheckedOK, Start
<1>17. CASE OtherListener
  BY <1>17 DEF OtherListener
<1>18. CASE UNCHANGED vars
  BY <1>1, <1>18 DEF BlocksOK, CheckedOK, vars
<1> QED
  BY <1>3, <1>4, <1>5, <1>6, <1>7, <1>8, <1>9, <1>11, <1>12, <1>13, <1>14, <1>15, <1>16,
     <1>17, <1>18 DEF Next

\* A poll without other chains never works outside the blocks still to be checked.
THEOREM EventsPolling == Spec => []Polling
<1>1. Init => Polling
  BY DEF Init, Polling, BlocksOK, CheckedOK, Rows, InPoll
<1>2. TypeOK /\ TypeOK' /\ Polling /\ [Next]_vars => Polling'
  BY PollingStep
<1> QED
  BY <1>1, <1>2, EventsTypeCorrect, PTL DEF Spec

-----------------------------------------------------------------------------
(* No log is passed over                                                   *)

\* After a step that a listener survives there were no faults, except crashes and
\* rollbacks without a change of contract.
LEMMA Survives ==
  ASSUME [Next]_vars, Survivable'
  PROVE  /\ Survivable /\ "chains" \notin faults
         /\ "gap" \notin faults' /\ "late" \notin faults'
         /\ ~FetchFails /\ ~RefetchFails /\ ~HandlerFails /\ ~OtherListener
         /\ Changed => ~Rollback /\ ~Crash
<1>1. faults \subseteq faults' /\ Changed' = Changed
  BY LedgerFixed
<1>2. faults' \subseteq {"rollback", "crash"} /\ (Changed => faults' = {})
  BY <1>1 DEF Survivable
<1> QED
  BY <1>1, <1>2 DEF Survivable, Fault, FetchFails, RefetchFails, HandlerFails, OtherListener,
                    Rollback, Crash

\* The state of a listener that follows the Hub, and how it changes.
LEMMA FollowingContext ==
  ASSUME TypeOK, LedgerOK, Polling, Following, [Next]_vars, Survivable'
  PROVE  /\ BlocksOK /\ CheckedOK /\ AddressOK /\ RowsOK /\ ListOK
         /\ \A l \in Logs : Block(l) \in Nat /\ Kind(l) \in Kinds
         /\ lastChecked \in Nat /\ newLast \in Nat /\ currentBlock \in Nat /\ to \in Nat
         /\ head \in Nat
         /\ unprocessed \subseteq Logs /\ processed \subseteq Logs /\ inserted \subseteq Logs
         /\ fetched \subseteq Logs /\ ahead \subseteq Logs
         /\ address \in {"old", "new"}
BY Survives DEF Polling, Following, TypeOK, Blocks, Block, Kind

\* The first event of a list is alone in being so, and the rest lacks nothing else.
LEMMA FirstOfList ==
  ASSUME NEW S \in SUBSET Logs, NEW k, IsFirst(k, S)
  PROVE  RestOf(S) = S \ {k}
<1>1. \A l \in S : l \in Nat
  BY DEF Logs
<1>2. \A l \in S : IsFirst(l, S) => l = k
  BY <1>1 DEF IsFirst
<1> QED
  BY <1>2 DEF RestOf

\* The listener keeps following the Hub: the address of the storage contract.
LEMMA AddressStep ==
  ASSUME TypeOK, LedgerOK, Polling, Following, [Next]_vars, Survivable'
  PROVE  AddressOK'
<1> USE DEF chain, database, transaction, fields, history, InPoll
<1>1. /\ BlocksOK /\ CheckedOK /\ AddressOK /\ RowsOK /\ ListOK
      /\ \A l \in Logs : Block(l) \in Nat /\ Kind(l) \in Kinds
      /\ lastChecked \in Nat /\ newLast \in Nat /\ currentBlock \in Nat /\ head \in Nat
      /\ unprocessed \subseteq Logs /\ inserted \subseteq Logs /\ ahead \subseteq Logs
      /\ address \in {"old", "new"}
  BY FollowingContext
<1>2. /\ ledger' = ledger /\ Changed' = Changed
      /\ \A l : /\ Block(l)' = Block(l) /\ Kind(l)' = Kind(l)
                /\ Due(l)' = Due(l) /\ Change(l)' = Change(l)
  BY LedgerFixed
<1>3. /\ ~FetchFails /\ ~RefetchFails /\ ~HandlerFails /\ ~OtherListener
      /\ Changed => ~Rollback /\ ~Crash
      /\ "gap" \notin faults' /\ "late" \notin faults'
  BY Survives
<1>4. \A c \in Logs : Change(c) => Changed
  BY DEF Change, Changed
<1>5. CASE NewBlock \/ GetBlock \/ GetLastChecked \/ Fetch \/ Store
  BY <1>1, <1>2, <1>5 DEF AddressOK, NewBlock, GetBlock, GetLastChecked, Fetch, Store
<1>6. CASE Collect
  <2>1. ASSUME NEW c \in Logs, Change(c), address = "old", Block(c) <= newLast
        PROVE  c \in unprocessed \cup inserted
    <3>1. Due(c) /\ Kind(c) # "new"
      BY <2>1 DEF Due, Change
    <3>2. c \in Rows \cup inserted
      BY <1>1, <1>6, <2>1, <3>1 DEF RowsOK, Collect
    <3>3. c \notin Rows
      BY <1>1, <2>1 DEF CheckedOK, AddressOK
    <3> QED
      BY <3>2, <3>3 DEF Rows
  <2>2. /\ pc' = "commit" => unprocessed \cup inserted = {}
        /\ pc' = "process" => unprocessed \cup inserted \subseteq ahead'
        /\ pc' \in {"commit", "process"}
    BY <1>6 DEF Collect, NextEvent
  <2>3. /\ pc = "collect" /\ address' = address /\ lastChecked' = lastChecked
        /\ newLast' = newLast
    BY <1>6 DEF Collect
  <2> QED
    BY <1>1, <1>2, <2>1, <2>2, <2>3 DEF AddressOK
<1>7. CASE HandleEvent
  <2>1. ASSUME NEW c \in Logs, Change(c), address = "old", Block(c) <= newLast
        PROVE  c \in RestOf(ahead)
    <3>1. c \in ahead /\ IsFirst(current, ahead)
      BY <1>1, <1>7, <2>1 DEF AddressOK, ListOK, HandleEvent
    <3>2. c # current
      BY <1>7, <2>1 DEF Change, HandleEvent
    <3> QED
      BY <1>1, <3>1, <3>2, FirstOfList
  <2>2. /\ pc' = "commit" => RestOf(ahead) = {}
        /\ pc' = "process" => RestOf(ahead) \subseteq ahead'
        /\ pc' \in {"commit", "process"}
    BY <1>7 DEF HandleEvent, NextEvent
  <2>3. /\ pc = "process" /\ address' = address /\ lastChecked' = lastChecked
        /\ newLast' = newLast
    BY <1>7 DEF HandleEvent
  <2> QED
    BY <1>1, <1>2, <2>1, <2>2, <2>3 DEF AddressOK
<1>8. ASSUME HandleKnownChange \/ Refetch
      PROVE  AddressOK'
  <2>1. /\ pc \in {"process", "refetch"} /\ address = "new" /\ address' = address
        /\ lastChecked' = lastChecked /\ newLast' = newLast
    BY <1>1, <1>8 DEF HandleKnownChange, Refetch, ListOK, Adopt
  <2>2. pc' \in {"commit", "process"}
    BY <1>8, NextPlace DEF HandleKnownChange, Refetch, Adopt
  <2> QED
    BY <1>1, <1>2, <2>1, <2>2 DEF AddressOK
<1>9. CASE HandleChange
  <2>1. current \in Logs /\ Change(current) /\ current \in ahead
    BY <1>1, <1>9 DEF HandleChange, Change, ListOK, IsFirst, TypeOK
  <2>2. Block(current) <= newLast
    BY <1>1, <1>9, <2>1 DEF HandleChange, ListOK, CheckedOK, BlocksOK, Rows
  <2>3. \A c \in Logs : Change(c) => c = current
    BY <2>1 DEF LedgerOK
  <2> QED
    BY <1>2, <1>4, <1>9, <2>1, <2>2, <2>3 DEF AddressOK, HandleChange
<1>10. CASE Commit
  BY <1>1, <1>2, <1>10 DEF AddressOK, BlocksOK, Commit
<1>11. CASE Mark
  BY <1>1, <1>2, <1>11 DEF AddressOK, Mark
<1>12. CASE Rollback \/ Crash
  BY <1>1, <1>2, <1>3, <1>4, <1>12 DEF AddressOK, Rollback, Crash
<1>13. CASE Start
  <2>1. \A c \in Logs : Change(c) /\ Block(c) <= head => Block(c) <= lastChecked
    BY <1>1, <1>3, <1>13 DEF Start, Change
  <2>2. address' = "new" <=> \E c \in Logs : Change(c) /\ Block(c) <= head
    BY <1>13 DEF Start, Change
  <2>3. address' \in {"old", "new"} /\ lastChecked' = lastChecked /\ pc' = "idle"
    BY <1>13 DEF Start
  <2>4. CASE address' = "new"
    <3>1. PICK c \in Logs : Change(c) /\ Block(c) <= head
      BY <2>2, <2>4
    <3>2. \A d \in Logs : Change(d) => d = c
      BY <3>1 DEF LedgerOK
    <3> QED
      BY <1>2, <1>4, <2>1, <2>3, <2>4, <3>1, <3>2 DEF AddressOK
  <2>5. CASE address' = "old"
    BY <1>1, <1>2, <2>2, <2>3, <2>5 DEF AddressOK, BlocksOK
  <2> QED
    BY <2>3, <2>4, <2>5
<1>14. CASE UNCHANGED vars
  BY <1>1, <1>2, <1>14 DEF AddressOK, vars
<1> QED
  BY <1>3, <1>5, <1>6, <1>7, <1>8, <1>9, <1>10, <1>11, <1>12, <1>13, <1>14 DEF Next

\* The listener keeps following the Hub: rows.
LEMMA RowsStep ==
  ASSUME TypeOK, LedgerOK, Polling, Following, [Next]_vars, Survivable'
  PROVE  RowsOK'
<1> USE DEF chain, database, transaction, fields, history, InPoll, Rows
<1>1. /\ BlocksOK /\ CheckedOK /\ AddressOK /\ RowsOK /\ ListOK
      /\ \A l \in Logs : Block(l) \in Nat /\ Kind(l) \in Kinds
      /\ lastChecked \in Nat /\ newLast \in Nat /\ currentBlock \in Nat /\ head \in Nat
      /\ to \in Nat /\ address \in {"old", "new"}
  BY FollowingContext
<1>2. /\ ledger' = ledger /\ Changed' = Changed
      /\ \A l : /\ Block(l)' = Block(l) /\ Kind(l)' = Kind(l)
                /\ Due(l)' = Due(l) /\ Change(l)' = Change(l)
  BY LedgerFixed
<1>3. /\ ~FetchFails /\ ~RefetchFails /\ ~HandlerFails /\ ~OtherListener
      /\ Changed => ~Rollback /\ ~Crash
      /\ "gap" \notin faults'
  BY Survives
<1>4. CASE NewBlock \/ GetBlock \/ GetLastChecked \/ Start
  BY <1>1, <1>2, <1>4 DEF RowsOK, NewBlock, GetBlock, GetLastChecked, Start
<1>5. CASE Fetch
  <2>1. /\ pc = "fetch" /\ pc' = "store" /\ to = currentBlock
        /\ fetched' = Past(Monitored, lastChecked + 1, to)
        /\ UNCHANGED <<chain, database, address, currentBlock>>
    BY <1>1, <1>3, <1>5 DEF Fetch, BlocksOK
  <2>2. ASSUME NEW l \in Logs, Due(l), Block(l) <= currentBlock,
               Kind(l) = "new" => address = "new", l \notin Rows
        PROVE  l \in fetched'
    <3>1. lastChecked < Block(l)
      BY <1>1, <2>2 DEF RowsOK
    <3>2. Kind(l) \in Monitored
      <4>1. CASE Kind(l) = "old" /\ address = "new"
        <5>1. PICK c \in Logs : Change(c)
          BY <1>1, <4>1 DEF AddressOK, Changed, Change
        <5>2. l < c /\ Block(c) <= lastChecked
          BY <1>1, <2>1, <2>2, <4>1, <5>1 DEF Due, Change, AddressOK
        <5>3. Block(l) <= Block(c)
          BY <5>2 DEF LedgerOK
        <5> QED
          BY <1>1, <3>1, <5>2, <5>3
      <4> QED
        BY <1>1, <2>2, <4>1 DEF Monitored, Kinds
    <3> QED
      BY <1>1, <2>1, <2>2, <3>1, <3>2 DEF Past, BlocksOK
  <2> QED
    BY <1>1, <1>2, <2>1, <2>2 DEF RowsOK
<1>6. CASE Store
  BY <1>1, <1>2, <1>6 DEF RowsOK, Store
<1>7. ASSUME Collect \/ HandleEvent \/ HandleKnownChange
      PROVE  RowsOK'
  <2>1. /\ pc \in {"collect", "process"}
        /\ UNCHANGED <<database, inserted, newLast, address>>
    BY <1>7 DEF Collect, HandleEvent, HandleKnownChange
  <2>2. pc' \in {"commit", "process"}
    BY <1>7, NextPlace DEF Collect, HandleEvent, HandleKnownChange
  <2> QED
    BY <1>1, <1>2, <2>1, <2>2 DEF RowsOK
<1>8. CASE HandleChange
  <2>1. /\ pc = "process" /\ pc' = "refetch" /\ address = "old"
        /\ UNCHANGED <<database, inserted, newLast>>
    BY <1>8 DEF HandleChange
  <2> QED
    BY <1>1, <1>2, <2>1 DEF RowsOK
<1>9. CASE Refetch
  <2>1. /\ pc = "refetch" /\ address = "new" /\ Change(current)
        /\ inserted' = inserted \cup Past({"new"}, Block(current) + 1, currentBlock)
        /\ UNCHANGED <<database, newLast, address>>
    BY <1>1, <1>3, <1>9 DEF Refetch, Adopt, ListOK
  <2>2. pc' \in {"commit", "process"}
    BY <1>9, NextPlace DEF Refetch, Adopt
  <2>3. ASSUME NEW l \in Logs, Due(l), Kind(l) = "new", Block(l) <= newLast
        PROVE  l \in Past({"new"}, Block(current) + 1, currentBlock)
    <3>1. Block(current) < Block(l)
      BY <2>1, <2>3 DEF Due, Change
    <3> QED
      BY <1>1, <2>1, <2>3, <3>1 DEF Past, BlocksOK, Change
  <2> QED
    BY <1>1, <1>2, <2>1, <2>2, <2>3 DEF RowsOK
<1>10. CASE Commit
  <2>1. /\ pc = "commit" /\ pc' = "mark" /\ lastChecked' = newLast
        /\ Rows' = Rows \cup inserted
    BY <1>10 DEF Commit
  <2>2. ASSUME NEW l \in Logs, Due(l), Block(l) <= newLast
        PROVE  l \in Rows \cup inserted
    <3>1. CASE Kind(l) = "new" /\ address = "old"
      <4>1. PICK c \in Logs : Change(c)
        BY <3>1 DEF LedgerOK
      <4>2. newLast < Block(c) /\ Block(c) < Block(l)
        BY <1>1, <2>1, <2>2, <3>1, <4>1 DEF AddressOK, Due, Change
      <4> QED
        BY <1>1, <2>2, <4>1, <4>2
    <3> QED
      BY <1>1, <2>1, <2>2, <3>1 DEF RowsOK
  <2> QED
    BY <1>2, <2>1, <2>2 DEF RowsOK
<1>11. CASE Mark
  BY <1>1, <1>2, <1>11 DEF RowsOK, Mark
<1>12. CASE Rollback \/ Crash
  BY <1>1, <1>2, <1>12 DEF RowsOK, Rollback, Crash
<1>13. CASE UNCHANGED vars
  BY <1>1, <1>2, <1>13 DEF RowsOK, vars
<1> QED
  BY <1>3, <1>4, <1>5, <1>6, <1>7, <1>8, <1>9, <1>10, <1>11, <1>12, <1>13 DEF Next

\* The listener keeps following the Hub: the list of the loop.
LEMMA ListStep ==
  ASSUME TypeOK, LedgerOK, Polling, Following, [Next]_vars, Survivable'
  PROVE  ListOK'
<1> USE DEF chain, database, transaction, fields, history
<1>1. /\ CheckedOK /\ AddressOK /\ ListOK
      /\ unprocessed \subseteq Logs /\ inserted \subseteq Logs /\ ahead \subseteq Logs
      /\ address \in {"old", "new"}
  BY FollowingContext
<1>2. ledger' = ledger /\ \A l : Change(l)' = Change(l)
  BY LedgerFixed
<1>3. /\ ~FetchFails /\ ~RefetchFails /\ ~HandlerFails /\ ~OtherListener
      /\ Changed => ~Rollback /\ ~Crash
      /\ "late" \notin faults'
  BY Survives
<1>4. CASE \/ NewBlock \/ GetBlock \/ GetLastChecked \/ Fetch \/ Store
           \/ Commit \/ Mark \/ Rollback \/ Crash
  BY <1>1, <1>2, <1>4 DEF ListOK, NewBlock, GetBlock, GetLastChecked, Fetch, Store, Commit,
                          Mark, Rollback, Crash
<1>5. CASE Collect
  BY <1>1, <1>2, <1>5 DEF ListOK, Collect, NextEvent
<1>6. CASE HandleEvent
  <2>1. RestOf(ahead) \subseteq ahead
    BY DEF RestOf
  <2> QED
    BY <1>1, <1>2, <1>6, <2>1 DEF ListOK, HandleEvent, NextEvent
<1>7. ASSUME HandleKnownChange \/ Refetch
      PROVE  ListOK'
  <2>1. address' = "new"
    BY <1>1, <1>7 DEF HandleKnownChange, Refetch, ListOK
  <2>2. pc' \in {"commit", "process"}
    BY <1>7, NextPlace DEF HandleKnownChange, Refetch, Adopt
  <2> QED
    BY <2>1, <2>2 DEF ListOK
<1>8. CASE HandleChange
  <2>1. Change(current)
    BY <1>8 DEF HandleChange, Change, TypeOK
  <2> QED
    BY <1>2, <1>8, <2>1 DEF ListOK, HandleChange
<1>9. CASE Start
  <2>1. address = "new" => address' = "new"
    <3>1. ASSUME address = "new"
          PROVE  \E c \in Logs : Kind(c) = "change" /\ Block(c) <= head
      <4>1. PICK c \in Logs : Change(c)
        BY <1>1, <3>1 DEF AddressOK, Changed, Change
      <4>2. Block(c) <= lastChecked
        BY <1>1, <1>9, <3>1, <4>1 DEF AddressOK, Start
      <4>3. lastChecked <= head /\ Block(c) \in Nat /\ lastChecked \in Nat /\ head \in Nat
        BY FollowingContext DEF BlocksOK
      <4> QED
        BY <4>1, <4>2, <4>3 DEF Change
    <3> QED
      BY <1>9, <3>1 DEF Start
  <2> QED
    BY <1>1, <1>2, <1>9, <2>1 DEF ListOK, Start
<1>10. CASE UNCHANGED vars
  BY <1>1, <1>2, <1>10 DEF ListOK, vars
<1> QED
  BY <1>3, <1>4, <1>5, <1>6, <1>7, <1>8, <1>9, <1>10 DEF Next

\* While the listener is only disturbed by what it survives, it knows the storage contract
\* of the Hub as of the block it has come to, and has a row for every log up to there.
THEOREM EventsFollowing == Spec => []Following
<1>1. Init => Following
  <2> SUFFICES ASSUME Init, Survivable
               PROVE  AddressOK /\ RowsOK /\ ListOK
    BY DEF Following
  <2>1. \A l \in Logs : Block(l) \in Nat \ {0}
    BY DEF Init, Ledgers, Block, Blocks
  <2>2. RowsOK
    BY <2>1 DEF Init, RowsOK, InPoll
  <2> QED
    BY <2>1, <2>2 DEF Init, AddressOK, ListOK
<1>2. TypeOK /\ LedgerOK /\ Polling /\ Following /\ [Next]_vars => Following'
  BY AddressStep, RowsStep, ListStep DEF Following
<1> QED
  BY <1>1, <1>2, EventsTypeCorrect, EventsLedger, EventsPolling, PTL DEF Spec

\* lastCheckedBlock passes no log without a row, across crashes and rollbacks
\* (blockchain-event-listener-command.js:84).
THEOREM EventsNothingPassedOver == Spec => []NothingPassedOver
<1>1. Following => NothingPassedOver
  BY DEF Following, RowsOK, NothingPassedOver, Rows
<1> QED
  BY <1>1, EventsFollowing, PTL

-----------------------------------------------------------------------------
(* Rows marked as processed, and the order of the events                   *)

\* Without a change of contract the old one is followed for ever.
LEMMA Unchanged ==
  ASSUME LedgerOK, ~Changed
  PROVE  \A l \in Logs : Kind(l) # "change" /\ Kind(l) # "new"
BY DEF LedgerOK, Change, Changed

\* A poll handles everything before the rest of its list, also after a crash.
LEMMA SettledStep ==
  ASSUME TypeOK, TypeOK', LedgerOK, Polling, Following, Settled, [Next]_vars
  PROVE  Settled'
<1> SUFFICES ASSUME Survivable', ~Changed'
             PROVE  SettledOK'
  BY DEF Settled
<1> USE DEF chain, database, transaction, fields, history, InPoll, Rows
<1>1. /\ SettledOK /\ AddressOK /\ ListOK /\ ~Changed
      /\ unprocessed \subseteq Logs /\ processed \subseteq Logs /\ inserted \subseteq Logs
      /\ ahead \subseteq Logs
      /\ address = "old" /\ newEvents = {}
  <2>1. Survivable /\ ~Changed
    BY Survives, LedgerFixed
  <2> QED
    BY <2>1, FollowingContext DEF Settled, AddressOK, ListOK
<1>2. \A l \in Logs : Kind(l) # "change" /\ handled[l] \in Nat
  BY <1>1, Unchanged DEF TypeOK
<1>3. ~FetchFails /\ ~RefetchFails /\ ~HandlerFails /\ ~OtherListener
  BY Survives
<1>4. CASE \/ NewBlock \/ GetBlock \/ GetLastChecked \/ Fetch \/ Store
           \/ Commit \/ Mark \/ Start
  BY <1>1, <1>4 DEF SettledOK, NewBlock, GetBlock, GetLastChecked, Fetch, Store, Commit,
                    Mark, Start
<1>5. CASE Rollback \/ Crash
  BY <1>1, <1>5 DEF SettledOK, Rollback, Crash
<1>6. CASE Collect
  BY <1>1, <1>6 DEF SettledOK, Collect, NextEvent
<1>7. CASE HandleEvent
  <2>1. \A l \in Logs : handled'[l] = IF l = current THEN handled[l] + 1 ELSE handled[l]
    BY <1>7, Counting DEF HandleEvent
  <2>2. RestOf(ahead) = ahead \ {current}
    BY <1>1, <1>7, FirstOfList DEF ListOK, HandleEvent
  <2>3. \A l \in Logs : (handled[l] > 0 \/ l = current) => handled'[l] > 0
    BY <1>2, <2>1
  <2>4. /\ pc = "process"
        /\ UNCHANGED <<unprocessed, processed, inserted>>
        /\ pc' = "commit" => RestOf(ahead) = {}
        /\ pc' = "process" => RestOf(ahead) \subseteq ahead'
        /\ pc' \in {"process", "commit"}
    BY <1>7 DEF HandleEvent, NextEvent
  <2>5. \A l \in (unprocessed \cup inserted) \ RestOf(ahead) : handled'[l] > 0
    BY <1>1, <2>2, <2>3, <2>4 DEF SettledOK
  <2> QED
    BY <1>1, <2>3, <2>4, <2>5 DEF SettledOK
<1>8. CASE HandleKnownChange \/ HandleChange \/ Refetch
  BY <1>1, <1>2, <1>8 DEF HandleKnownChange, HandleChange, Refetch, ListOK, TypeOK
<1>9. CASE UNCHANGED vars
  BY <1>1, <1>9 DEF SettledOK, vars
<1> QED
  BY <1>3, <1>4, <1>5, <1>6, <1>7, <1>8, <1>9 DEF Next

\* While the listener is only disturbed by crashes and rollbacks and the contracts stay,
\* every row in the database outside a poll is that of a handled event.
THEOREM EventsSettled == Spec => []Settled
<1>1. Init => Settled
  BY DEF Init, Settled, SettledOK, Rows
<1>2. TypeOK /\ TypeOK' /\ LedgerOK /\ Polling /\ Following /\ Settled /\ [Next]_vars => Settled'
  BY SettledStep
<1> QED
  BY <1>1, <1>2, EventsTypeCorrect, EventsLedger, EventsPolling, EventsFollowing, PTL DEF Spec

\* A row marked as processed is that of an event that was handled
\* (markAllBlockchainEventsAsProcessed).
THEOREM EventsProcessedWasHandled == Spec => []ProcessedWasHandled
<1>1. Settled => ProcessedWasHandled
  BY DEF Settled, SettledOK, ProcessedWasHandled, Rows
<1> QED
  BY <1>1, EventsSettled, PTL

\* The event a step handles comes after nothing that was not handled.
LEMMA OrderStep ==
  ASSUME TypeOK, LedgerOK, Polling, Following, Settled, [Next]_vars
  PROVE  \A k, l \in Logs :
           (Survivable /\ ~Changed /\ k < l /\ Due(k) /\ handled'[l] > handled[l])
             => handled[k] > 0
<1> SUFFICES ASSUME NEW k \in Logs, NEW l \in Logs, Survivable, ~Changed, k < l, Due(k),
                    handled'[l] > handled[l]
             PROVE  handled[k] > 0
  OBVIOUS
<1> USE DEF history, database, transaction, fields, chain, InPoll, Rows
<1>1. /\ AddressOK /\ RowsOK /\ ListOK /\ SettledOK /\ BlocksOK /\ CheckedOK
  BY DEF Following, Settled, Polling, Survivable
<1>2. \A e \in Logs : Kind(e) # "change" /\ Kind(e) # "new" /\ Block(e) \in Nat
  BY Unchanged DEF TypeOK, Block, Blocks
<1>3. handled[l] \in Nat /\ pc # "refetch" /\ address = "old"
  BY <1>1, <1>2 DEF TypeOK, ListOK, AddressOK, Change
<1>4. HandleEvent
  <2>1. ~HandleKnownChange /\ ~Refetch /\ ~RefetchFails
    BY <1>3 DEF HandleKnownChange, Refetch, RefetchFails
  <2>2. handled' # handled
    BY <1>3
  <2> QED
    BY <2>1, <2>2 DEF Next, vars, NewBlock, GetBlock, GetLastChecked, Fetch, FetchFails, Store,
                      Collect, HandlerFails, HandleChange, Commit, Mark, Rollback, Crash,
                      Start, OtherListener
<1>5. l = current
  BY <1>3, <1>4, Counting DEF HandleEvent
<1>6. pc = "process" /\ IsFirst(l, ahead) /\ l \in Rows \cup inserted
  BY <1>1, <1>3, <1>4, <1>5 DEF HandleEvent, ListOK, IsFirst
<1>7. Block(k) <= newLast
  <2>1. Block(k) <= Block(l) /\ Block(l) <= newLast
    BY <1>1, <1>2, <1>6 DEF LedgerOK, CheckedOK, BlocksOK, TypeOK
  <2> QED
    BY <1>2, <2>1 DEF TypeOK
<1>8. k \in Rows \cup inserted
  BY <1>1, <1>2, <1>6, <1>7 DEF RowsOK
<1>9. k \notin ahead
  BY <1>6 DEF IsFirst, Logs
<1> QED
  BY <1>1, <1>6, <1>8, <1>9 DEF SettledOK

\* An event is handled when all events before it were (processDependentEvents).
THEOREM EventsHandledInOrder == Spec => HandledInOrder
BY OrderStep, EventsTypeCorrect, EventsLedger, EventsPolling, EventsFollowing, EventsSettled, PTL
DEF Spec, HandledInOrder

-----------------------------------------------------------------------------
(* How often an event is handled                                           *)

\* Only a fault lets a log that was handled be handled again.
LEMMA OnceStep ==
  ASSUME TypeOK, TypeOK', LedgerOK, Polling, Once, [Next]_vars
  PROVE  Once'
<1> SUFFICES ASSUME "chains" \notin faults', ~Changed'
             PROVE  OnceOK'
  BY DEF Once
<1> USE DEF chain, database, transaction, fields, history, InPoll, Rows
<1>1. /\ OnceOK /\ BlocksOK /\ CheckedOK /\ ~Changed /\ ledger' = ledger
      /\ \A l : Block(l)' = Block(l)
  BY LedgerFixed DEF Once, Polling
<1>2. /\ \A l \in Logs : Kind(l) # "change" /\ handled[l] \in Nat /\ Block(l) \in Nat
      /\ failures \in Nat /\ failures' \in Nat /\ lastChecked \in Nat /\ newLast \in Nat
      /\ unprocessed \subseteq Logs /\ processed \subseteq Logs /\ inserted \subseteq Logs
      /\ fetched \subseteq Logs /\ ahead \subseteq Logs
  BY <1>1, Unchanged DEF TypeOK, Block, Blocks
<1>3. CASE NewBlock \/ GetBlock \/ GetLastChecked \/ Fetch
  BY <1>1, <1>2, <1>3 DEF OnceOK, NewBlock, GetBlock, GetLastChecked, Fetch
<1>4. CASE FetchFails
  BY <1>1, <1>2, <1>4 DEF OnceOK, FetchFails, Fault
<1>5. CASE Store
  BY <1>1, <1>2, <1>5 DEF OnceOK, CheckedOK, Store
<1>6. CASE Collect
  <2>1. \A l \in inserted : l \notin processed
    BY <1>1, <1>2, <1>6 DEF OnceOK, CheckedOK, Collect
  <2> QED
    BY <1>1, <1>2, <1>6, <2>1 DEF OnceOK, Collect, NextEvent
<1>7. ASSUME pc = "process", NextEvent(RestOf(ahead), newEvents), failures <= failures',
             UNCHANGED <<chain, database, transaction, address>>,
             \A l \in Logs : handled'[l] <= 1 + failures',
             \A l \in Logs : l # current /\ handled[l] <= failures => handled'[l] <= failures'
      PROVE  OnceOK'
  <2>1. RestOf(ahead) = ahead \ {current}
    BY <1>1, <1>2, <1>7, FirstOfList DEF OnceOK
  <2>2. /\ pc' \in {"process", "commit"} /\ newEvents' = {} /\ ahead' = RestOf(ahead)
        /\ pc' = "process" => IsFirst(current', ahead')
    BY <1>1, <1>7 DEF OnceOK, NextEvent
  <2>3. current \in unprocessed \cup inserted
    BY <1>1, <1>7 DEF OnceOK, IsFirst
  <2> QED
    BY <1>1, <1>2, <1>7, <2>1, <2>2, <2>3 DEF OnceOK
<1>8. CASE HandleEvent
  <2>1. \A l \in Logs : handled'[l] = IF l = current THEN handled[l] + 1 ELSE handled[l]
    BY <1>8, Counting DEF HandleEvent
  <2>2. current \in ahead
    BY <1>1, <1>8 DEF OnceOK, IsFirst, HandleEvent
  <2>3. \A l \in Logs : handled'[l] <= 1 + failures
    BY <1>1, <1>2, <1>8, <2>1, <2>2 DEF OnceOK, HandleEvent
  <2> QED
    BY <1>2, <1>7, <1>8, <2>1, <2>3 DEF HandleEvent
<1>9. CASE HandlerFails
  BY <1>1, <1>2, <1>7, <1>9 DEF HandlerFails, Fault, OnceOK
<1>10. CASE HandleKnownChange \/ HandleChange \/ Refetch \/ RefetchFails
  BY <1>1, <1>2, <1>10
  DEF OnceOK, HandleKnownChange, HandleChange, Refetch, RefetchFails, TypeOK
<1>11. CASE Commit
  <2>1. \A l \in inserted : l \notin processed
    BY <1>1, <1>2, <1>11 DEF OnceOK, CheckedOK, Commit
  <2> QED
    BY <1>1, <1>2, <1>11, <2>1 DEF OnceOK, Commit
<1>12. CASE Mark
  BY <1>1, <1>2, <1>12 DEF OnceOK, Mark
<1>13. CASE Rollback \/ Crash
  <2>1. /\ failures' = failures + 1 /\ handled' = handled
        /\ pc' \in {"idle", "down"} /\ newEvents' = {} /\ address' = address
        /\ unprocessed' = unprocessed /\ processed' = processed /\ inserted' = {}
    BY <1>1, <1>13 DEF OnceOK, Rollback, Crash, Fault, ForgetPoll
  <2> QED
    BY <1>1, <1>2, <2>1 DEF OnceOK
<1>14. CASE Start
  <2>1. address' = "old"
    BY <1>2, <1>14 DEF Start
  <2> QED
    BY <1>1, <1>2, <1>14, <2>1 DEF OnceOK, Start
<1>15. CASE OtherListener
  BY <1>15 DEF OtherListener, Fault
<1>16. CASE UNCHANGED vars
  BY <1>1, <1>2, <1>16 DEF OnceOK, vars
<1> QED
  BY <1>3, <1>4, <1>5, <1>6, <1>8, <1>9, <1>10, <1>11, <1>12, <1>13, <1>14, <1>15, <1>16
  DEF Next

\* An event is handled at most once more than there were faults, whatever they were, other
\* chains excepted (commit and markAllBlockchainEventsAsProcessed are separate).
THEOREM EventsHandledOncePerFault == Spec => []HandledOncePerFault
<1>1. Init => Once
  <2> SUFFICES ASSUME Init
               PROVE  OnceOK
    BY DEF Once
  <2>1. \A l \in Logs : handled[l] = 0
    BY DEF Init
  <2> QED
    BY <2>1 DEF Init, OnceOK, Rows, InPoll
<1>2. TypeOK /\ TypeOK' /\ LedgerOK /\ Polling /\ Once /\ [Next]_vars => Once'
  BY OnceStep
<1>3. Once => HandledOncePerFault
  BY DEF Once, OnceOK, HandledOncePerFault
<1> QED
  BY <1>1, <1>2, <1>3, EventsTypeCorrect, EventsLedger, EventsPolling, PTL DEF Spec

=============================================================================
