---------------------------- MODULE EventListener ----------------------------
(***************************************************************************)
(* The blockchain event listener of one chain: a poll fetches the logs of  *)
(* the monitored contracts since the last checked block, stores them and   *)
(* handles the unprocessed ones in block order, in one database            *)
(* transaction, and marks them as processed after the commit.              *)
(*                                                                         *)
(* The chain has a Hub and a storage contract that the Hub may replace     *)
(* once.  A log is a position in the order of the chain (block, then       *)
(* transaction, then index in it).                                         *)
(*                                                                         *)
(* The handler object is shared by the listeners of all chains and keeps   *)
(* the current block and the lists of events in its fields: the other      *)
(* chains are an environment that overwrites these fields.                 *)
(*                                                                         *)
(* Two reactions of the code to a replaced contract have no effect and so  *)
(* no counterpart here.  removeContractEventsAfterBlock asks for rows of   *)
(* the contract with the address of the Hub, and no row has both.  The     *)
(* addresses in invalidatedContracts are checksummed, those of the events  *)
(* are not (ot-ethers.js looks their names up by the lower case address),  *)
(* so no event is found invalidated.                                       *)
(***************************************************************************)
EXTENDS Integers

CONSTANTS
  MaxLogs,          \* bound: logs of the chain
  MaxBlock,         \* bound: height of the chain
  BlocksPerRange,   \* MAXIMUM_NUMBERS_OF_BLOCKS_TO_FETCH
  MaxBlocksToSync,  \* maxNumberOfHistoricalBlocksForSync
  OtherBlocks,      \* heights of the other chains the node listens to
  MaxFailures       \* bound: failures, crashes and overlaps with other chains

ASSUME SizesAssumption == MaxLogs \in Nat /\ MaxBlock \in Nat /\ MaxFailures \in Nat
ASSUME RangesAssumption == BlocksPerRange \in Nat \ {0} /\ MaxBlocksToSync \in Nat
ASSUME OtherBlocksAssumption == OtherBlocks \subseteq Nat

VARIABLES
  ledger,       \* ledger[l]: block and kind of log l, fixed
  head,         \* height of the chain, two blocks of confirmation deducted
  (* the database: *)
  lastChecked,  \* lastCheckedBlock of the chain
  unprocessed,  \* logs with an unprocessed row
  processed,    \* logs with a processed row
  (* the transaction of the poll: *)
  inserted,     \* logs inserted
  newLast,      \* lastCheckedBlock as updated
  (* memory: *)
  pc,           \* where the listener is, "down" when the process is
  address,      \* the storage contract the events service knows: "old" or "new"
  currentBlock, \* handler field
  to,           \* last block of the range being fetched
  fetched,      \* logs fetched
  ahead,        \* dependentEvents from the current index on
  newEvents,    \* newDependentEvents
  current,      \* the event being processed
  (* history: *)
  handled,      \* how often the handler of a log was carried out
  faults,       \* kinds of faults that happened
  failures      \* how many of them

chain == <<ledger, head>>
database == <<lastChecked, unprocessed, processed>>
transaction == <<inserted, newLast>>
fields == <<currentBlock, ahead, newEvents>>
history == <<handled, faults, failures>>
vars == <<chain, database, transaction, pc, address, fields, to, fetched, current, history>>

Logs == 1 .. MaxLogs
Blocks == 1 .. MaxBlock
\* KnowledgeCollectionCreated of the old or the new storage contract, ContractChanged
\* (or NewContract and their siblings for asset storages), ParameterChanged
Kinds == {"old", "new", "change", "parameter"}
FaultKinds == {"gap", "rpc", "handler", "rollback", "crash", "chains", "late"}

Block(l) == ledger[l].block
Kind(l) == ledger[l].kind

Places == {"down", "idle", "last", "fetch", "store", "collect", "process", "refetch",
           "commit", "mark"}

TypeOK ==
  /\ ledger \in [Logs -> [block : Blocks, kind : Kinds]]
  /\ head \in 0 .. MaxBlock
  /\ lastChecked \in Nat /\ newLast \in Nat /\ currentBlock \in Nat /\ to \in Nat
  /\ unprocessed \subseteq Logs /\ processed \subseteq Logs /\ inserted \subseteq Logs
  /\ fetched \subseteq Logs /\ ahead \subseteq Logs /\ newEvents \subseteq Logs
  /\ pc \in Places
  /\ address \in {"old", "new"}
  /\ current \in IF pc \in {"process", "refetch"} THEN Logs ELSE {0}
  /\ handled \in [Logs -> Nat]
  /\ faults \subseteq FaultKinds
  /\ failures \in 0 .. MaxFailures

\* Logs are in block order; the storage contract is replaced at most once, and the new
\* one has no logs before that
Ledgers ==
  {led \in [Logs -> [block : Blocks, kind : Kinds]] :
     /\ \A k, l \in Logs : k < l =>
          /\ led[k].block <= led[l].block
          /\ ~(led[k].kind = "change" /\ led[l].kind = "change")
     /\ \A l \in Logs : led[l].kind = "new" =>
          \E c \in Logs : c < l /\ led[c].kind = "change"}

Init ==
  /\ ledger \in Ledgers
  /\ head = 0
  /\ lastChecked = 0 /\ unprocessed = {} /\ processed = {}
  /\ inserted = {} /\ newLast = 0
  /\ pc = "down" /\ address = "old"
  /\ currentBlock = 0 /\ to = 0
  /\ fetched = {} /\ ahead = {} /\ newEvents = {}
  /\ current = 0
  /\ handled = [l \in Logs |-> 0]
  /\ faults = {} /\ failures = 0

NewBlock ==
  /\ head < MaxBlock
  /\ head' = head + 1
  /\ UNCHANGED <<ledger, database, transaction, pc, address, fields, to, fetched,
                 current, history>>

Fault(kind) ==
  /\ failures < MaxFailures
  /\ failures' = failures + 1
  /\ faults' = faults \cup {kind}

-----------------------------------------------------------------------------
(* Fetching                                                                *)

\* Logs of the given contracts that eth_getLogs returns for the blocks from .. upto
Past(contracts, from, upto) ==
  {l \in Logs : Kind(l) \in contracts /\ Block(l) \in from .. upto /\ Block(l) <= head}

Monitored == {"change", "parameter", address}

\* fetchAndHandleBlockchainEvents: this.currentBlock
GetBlock ==
  /\ pc = "idle"
  /\ pc' = "last"
  /\ currentBlock' = head
  /\ UNCHANGED <<chain, database, transaction, address, to, fetched, ahead, newEvents,
                 current, history>>

\* getLastCheckedBlock, and the call of getPastEvents with this.currentBlock
GetLastChecked ==
  /\ pc = "last"
  /\ pc' = "fetch"
  /\ to' = currentBlock
  /\ UNCHANGED <<chain, database, transaction, address, fields, fetched, current, history>>

TooFar(from, upto) == upto - from > MaxBlocksToSync

\* Mutant of Fetch: the range starts one block too late
FetchLate ==
  /\ pc = "fetch"
  /\ pc' = "store"
  /\ IF TooFar(lastChecked, to)
     THEN fetched' = {} /\ faults' = faults \cup {"gap"}
     ELSE fetched' = Past(Monitored, lastChecked + 2, to) /\ faults' = faults
  /\ UNCHANGED <<chain, database, transaction, address, fields, to, current, handled,
                 failures>>

\* getPastEvents; a range that is too long is given up altogether (eventsMissed)
Fetch ==
  /\ pc = "fetch"
  /\ pc' = "store"
  /\ IF TooFar(lastChecked, to)
     THEN fetched' = {} /\ faults' = faults \cup {"gap"}
     ELSE fetched' = Past(Monitored, lastChecked + 1, to) /\ faults' = faults
  /\ UNCHANGED <<chain, database, transaction, address, fields, to, current, handled,
                 failures>>

\* Ends of the ranges read before one could not be: the error is logged and forgotten
Read(from, upto) ==
  {from + k * BlocksPerRange : k \in {i \in 0 .. upto : from + i * BlocksPerRange < upto}}

FetchFails ==
  /\ pc = "fetch" /\ ~TooFar(lastChecked, to)
  /\ Fault("rpc")
  /\ pc' = "store"
  /\ \E read \in Read(lastChecked, to) : fetched' = Past(Monitored, lastChecked + 1, read)
  /\ UNCHANGED <<chain, database, transaction, address, fields, to, current, handled>>

\* insertBlockchainEvents and updateLastCheckedBlock, with this.currentBlock
Store ==
  /\ pc = "store"
  /\ pc' = "collect"
  /\ inserted' = fetched /\ newLast' = currentBlock
  /\ to' = 0 /\ fetched' = {}
  /\ UNCHANGED <<chain, database, address, fields, current, history>>

-----------------------------------------------------------------------------
(* processDependentEvents                                                  *)

\* Mutant of IsFirst: the list is sorted the other way round
IsLast(l, S) == l \in S /\ \A k \in S : k <= l

IsFirst(l, S) == l \in S /\ \A k \in S : l <= k

\* The head of the loop with the given unprocessed part of the list: the next event is
\* picked, then the new dependent events are merged in
NextEvent(list, new) ==
  \/ /\ list = {}
     /\ pc' = "commit" /\ current' = 0
     /\ ahead' = {} /\ newEvents' = new
  \/ /\ pc' = "process" /\ IsFirst(current', list)
     /\ ahead' = list \cup new /\ newEvents' = {}

\* Mutant of RestOf: the index is advanced twice
RestAfterTwo(list) == {l \in list : \E j, k \in list : j < k /\ k < l}

\* index += 1: the first event of the unprocessed part counts as processed
RestOf(list) == {l \in list : ~IsFirst(l, list)}

\* getAllUnprocessedBlockchainEvents, sort and the head of the loop
Collect ==
  /\ pc = "collect"
  /\ current' \in Logs \cup {0}
  /\ NextEvent(unprocessed \cup inserted, newEvents)
  /\ UNCHANGED <<chain, database, transaction, address, currentBlock, to, fetched, history>>

\* handleKnowledgeCollectionCreatedEvent adds the commands of the publish finalization,
\* handleParameterChangedEvent caches the parameter
HandleEvent ==
  /\ pc = "process" /\ Kind(current) # "change"
  /\ handled' = [handled EXCEPT ![current] = @ + 1]
  /\ current' \in Logs \cup {0}
  /\ NextEvent(RestOf(ahead), newEvents)
  /\ UNCHANGED <<chain, database, transaction, address, currentBlock, to, fetched,
                 faults, failures>>

\* processEvent catches and logs what a handler throws
HandlerFails ==
  /\ pc \in {"process", "refetch"}
  /\ Fault("handler")
  /\ current' \in Logs \cup {0}
  /\ NextEvent(RestOf(ahead), newEvents)
  /\ UNCHANGED <<chain, database, transaction, address, currentBlock, to, fetched, handled>>

\* handleContractChangedEvent and its siblings, when the contract is known already
HandleKnownChange ==
  /\ pc = "process" /\ Kind(current) = "change" /\ address = "new"
  /\ handled' = [handled EXCEPT ![current] = @ + 1]
  /\ current' \in Logs \cup {0}
  /\ NextEvent(RestOf(ahead), newEvents)
  /\ UNCHANGED <<chain, database, transaction, address, currentBlock, to, fetched,
                 faults, failures>>

\* ... and when it is not: the address is replaced first, ...
HandleChange ==
  /\ pc = "process" /\ Kind(current) = "change" /\ address = "old"
  /\ pc' = "refetch"
  /\ address' = "new"
  /\ UNCHANGED <<chain, database, transaction, fields, to, fetched, current, history>>

\* ... then the logs of the new contract up to this.currentBlock are fetched, stored and
\* left to the loop
Adopt(found) ==
  /\ inserted' = inserted \cup found
  /\ handled' = [handled EXCEPT ![current] = @ + 1]
  /\ current' \in Logs \cup {0}
  /\ NextEvent(RestOf(ahead), IF found = {} THEN newEvents ELSE found)

Refetch ==
  /\ pc = "refetch"
  /\ IF TooFar(Block(current), currentBlock)
     THEN Adopt({}) /\ faults' = faults \cup {"gap"}
     ELSE Adopt(Past({"new"}, Block(current) + 1, currentBlock)) /\ faults' = faults
  /\ UNCHANGED <<chain, database, newLast, address, currentBlock, to, fetched, failures>>

RefetchFails ==
  /\ pc = "refetch" /\ ~TooFar(Block(current), currentBlock)
  /\ Fault("rpc")
  /\ \E read \in Read(Block(current), currentBlock) :
       Adopt(Past({"new"}, Block(current) + 1, read))
  /\ UNCHANGED <<chain, database, newLast, address, currentBlock, to, fetched>>

-----------------------------------------------------------------------------
(* End of a poll                                                           *)

Commit ==
  /\ pc = "commit"
  /\ pc' = "mark"
  /\ unprocessed' = unprocessed \cup inserted /\ inserted' = {}
  /\ lastChecked' = newLast /\ newLast' = 0
  /\ UNCHANGED <<chain, processed, address, fields, to, fetched, current, history>>

\* Mutant of Mark: the rows stay unprocessed
MarkNothing ==
  /\ pc = "mark"
  /\ pc' = "idle"
  /\ UNCHANGED <<chain, database, transaction, address, fields, to, fetched, current,
                 history>>

\* markAllBlockchainEventsAsProcessed
Mark ==
  /\ pc = "mark"
  /\ pc' = "idle"
  /\ processed' = processed \cup unprocessed /\ unprocessed' = {}
  /\ UNCHANGED <<chain, lastChecked, transaction, address, fields, to, fetched, current,
                 history>>

\* The transaction and the local variables of a poll that does not end
ForgetPoll == inserted' = {} /\ newLast' = 0 /\ to' = 0 /\ fetched' = {}

\* The database or the provider fails outside the handlers: the transaction is rolled
\* back, or the events are left unmarked, and the command is repeated.  What the handlers
\* did stays done.
Rollback ==
  /\ pc \in {"idle", "last", "fetch", "store", "collect", "commit", "mark"}
  /\ Fault("rollback")
  /\ pc' = "idle"
  /\ ForgetPoll
  /\ UNCHANGED <<chain, database, address, fields, current, handled>>

Crash ==
  /\ pc # "down"
  /\ Fault("crash")
  /\ pc' = "down"
  /\ ForgetPoll
  /\ currentBlock' = 0 /\ ahead' = {} /\ newEvents' = {} /\ current' = 0
  /\ UNCHANGED <<chain, database, address, handled>>

\* _initializeContracts asks the Hub for its present contracts, which may have been
\* replaced in a block that is still to be fetched
Start ==
  /\ pc = "down"
  /\ pc' = "idle"
  /\ LET changes == {l \in Logs : Kind(l) = "change" /\ Block(l) <= head} IN
       /\ address' = IF changes # {} THEN "new" ELSE "old"
       /\ faults' = IF \E l \in changes : lastChecked < Block(l)
                    THEN faults \cup {"late"} ELSE faults
  /\ UNCHANGED <<chain, database, transaction, fields, to, fetched, current, handled,
                 failures>>

\* The listeners of other chains use the fields of the same handler: its block, its list
\* and its new events are theirs now
OtherListener ==
  /\ pc # "down"
  /\ Fault("chains")
  /\ \/ currentBlock' \in OtherBlocks /\ UNCHANGED <<ahead, newEvents>>
     \/ ahead' = {} /\ UNCHANGED <<currentBlock, newEvents>>
     \/ newEvents' = {} /\ UNCHANGED <<currentBlock, ahead>>
  /\ OtherBlocks # {}
  /\ UNCHANGED <<chain, database, transaction, pc, address, to, fetched, current, handled>>

Next ==
  \/ NewBlock
  \/ GetBlock \/ GetLastChecked \/ Fetch \/ FetchFails \/ Store
  \/ Collect \/ HandleEvent \/ HandlerFails
  \/ HandleKnownChange \/ HandleChange \/ Refetch \/ RefetchFails
  \/ Commit \/ Mark \/ Rollback \/ Crash \/ Start \/ OtherListener

Spec == Init /\ [][Next]_vars

\* What the listener and the process that runs it do by themselves
Listen ==
  \/ GetBlock \/ GetLastChecked \/ Fetch \/ Store
  \/ Collect \/ HandleEvent \/ HandleKnownChange \/ HandleChange \/ Refetch
  \/ Commit \/ Mark \/ Start

FairSpec == Spec /\ WF_vars(Listen)

-----------------------------------------------------------------------------
(* Properties                                                              *)

Changed == \E l \in Logs : Kind(l) = "change"

\* A log the node has to handle: of a contract that stays, or of the storage contract
\* while it is that of the Hub.  A log of the new contract in the very block of the
\* change counts as too early: the code asks for the blocks after it.
Due(l) ==
  \/ Kind(l) \in {"change", "parameter"}
  \/ Kind(l) = "old" /\ \A c \in Logs : Kind(c) = "change" => l < c
  \/ Kind(l) = "new" /\ \A c \in Logs : Kind(c) = "change" => Block(c) < Block(l)

\* Faults the listener is meant to survive
Survivable == faults \subseteq (IF Changed THEN {} ELSE {"rollback", "crash"})

\* lastCheckedBlock passes no log that has no row (updateLastCheckedBlock,
\* blockchain-event-listener-command.js:84), across crashes and rollbacks.
NothingPassedOver ==
  Survivable => \A l \in Logs :
    Due(l) /\ Block(l) <= lastChecked => l \in unprocessed \cup processed

\* A row marked as processed is that of an event that was handled
\* (markAllBlockchainEventsAsProcessed, blockchain-event-listener-command.js:47).
ProcessedWasHandled ==
  (Survivable /\ ~Changed) => \A l \in processed : handled[l] > 0

\* An event is handled once, and once more for every fault.
HandledOncePerFault ==
  ("chains" \notin faults /\ ~Changed) => \A l \in Logs : handled[l] <= 1 + failures

\* "Process the current event": an event is handled when all events before it were.
HandledInOrder ==
  [][\A k, l \in Logs :
       (Survivable /\ ~Changed /\ k < l /\ Due(k) /\ handled'[l] > handled[l])
         => handled[k] > 0]_vars

\* Every event of the chain is handled in the end.
EventsAreHandled ==
  \A l \in Logs :
    (Block(l) <= head) ~> (handled[l] > 0 \/ ~Survivable \/ Changed)

-----------------------------------------------------------------------------
(* The inductive invariants behind the safety properties                    *)

Change(c) == c \in Logs /\ Kind(c) = "change"
Rows == unprocessed \cup processed
InPoll == {"collect", "process", "refetch", "commit"}

\* What the ledger looks like: see Ledgers
LedgerOK ==
  /\ \A k, l \in Logs : k < l => Block(k) <= Block(l)
  /\ \A c, d \in Logs : Change(c) /\ Change(d) => c = d
  /\ \A l \in Logs : Kind(l) = "new" => \E c \in Logs : Change(c)

\* Block numbers of the poll
BlocksOK ==
  /\ lastChecked <= head
  /\ pc \in {"last", "fetch", "store"} =>
       lastChecked <= currentBlock /\ currentBlock <= head
  /\ pc = "fetch" => to = currentBlock
  /\ pc \in InPoll => lastChecked <= newLast /\ newLast <= head /\ currentBlock = newLast

\* Every row is of a block that was checked, or will be with this poll
CheckedOK ==
  /\ \A l \in Rows : Block(l) <= lastChecked
  /\ pc = "store" => \A l \in fetched : lastChecked < Block(l) /\ Block(l) <= currentBlock
  /\ pc \in InPoll => \A l \in inserted : Block(l) <= newLast

Polling == "chains" \notin faults => BlocksOK /\ CheckedOK

\* The events service follows the Hub exactly as far as the poll has come
AddressOK ==
  /\ address = "new" => Changed
  /\ \A c \in Logs : Change(c) =>
       IF address = "new"
       THEN \/ Block(c) <= lastChecked
            \/ pc \in {"process", "refetch", "commit"} /\ Block(c) <= newLast
       ELSE /\ lastChecked < Block(c)
            /\ pc = "commit" => newLast < Block(c)
            /\ pc = "process" /\ Block(c) <= newLast => c \in ahead

\* Every due log up to the last checked block has a row; so will every one up to the
\* current block, those of a new contract once the change was handled
RowsOK ==
  /\ \A l \in Logs : Due(l) /\ Block(l) <= lastChecked => l \in Rows
  /\ pc = "store" => \A l \in Logs :
       Due(l) /\ Block(l) <= currentBlock /\ (Kind(l) = "new" => address = "new")
         => l \in Rows \cup fetched
  /\ pc \in InPoll => \A l \in Logs :
       /\ Due(l) /\ Block(l) <= newLast
       /\ (Kind(l) = "new" => address = "new" /\ pc # "refetch")
       => l \in Rows \cup inserted

\* While the old contract is followed the event being processed is the first of the list
ListOK ==
  /\ address = "old" => newEvents = {}
  /\ pc = "process" /\ address = "old" =>
       IsFirst(current, ahead) /\ ahead \subseteq unprocessed \cup inserted
  /\ pc = "refetch" => Change(current) /\ address = "new"

Following == Survivable => AddressOK /\ RowsOK /\ ListOK

\* Without a change of contract: everything but the rest of the list was handled
SettledOK ==
  /\ \A l \in Rows : handled[l] > 0
  /\ pc = "process" => \A l \in (unprocessed \cup inserted) \ ahead : handled[l] > 0
  /\ pc = "commit" => \A l \in inserted : handled[l] > 0

Settled == Survivable /\ ~Changed => SettledOK

\* Without a change of contract: the logs that may still be handled were handled no more
\* often than there were faults
OnceOK ==
  /\ newEvents = {} /\ address = "old" /\ pc # "refetch"
  /\ unprocessed \cap processed = {}
  /\ pc \in InPoll => \A l \in inserted : lastChecked < Block(l)
  /\ pc \notin InPoll => inserted = {}
  /\ pc = "process" => IsFirst(current, ahead) /\ ahead \subseteq unprocessed \cup inserted
  /\ \A l \in Logs : handled[l] <= 1 + failures
  /\ \A l \in Logs :
       \/ l \notin Rows \cup inserted
       \/ pc \notin {"process", "commit", "mark"} /\ l \notin processed
       \/ pc = "process" /\ l \in ahead
       => handled[l] <= failures

Once == ("chains" \notin faults /\ ~Changed) => OnceOK

=============================================================================
