---------------------------- MODULE DataMigration ----------------------------
(***************************************************************************)
(* The migration of the triple stores to version 8 (v8-data-migration). A  *)
(* database file, downloaded first, lists the tokens of each chain. Their  *)
(* assertions are copied in batches from the repositories of version 6     *)
(* into the unified one; tokens minted after the list was made follow one  *)
(* by one. The process may end anywhere, and is then started again.        *)
(***************************************************************************)
EXTENDS Integers, FiniteSets

CONSTANTS
  Chains,            \* number of enabled chains, in the order of their names
  Listed,            \* tokens of each chain in the database file
  Tokens,            \* tokens that may be minted per chain (bound)
  Kinds,             \* what version 6 may hold for a token of a chain, see KindsKnown
  BatchSize,         \* BATCH_SIZE
  DownloadAttempts, IntegrityAttempts, ConnectRetries,
  MaxErrors          \* failing queries, downloads and crashes (bound)

KindsKnown == {
  "absent",   \* no public triples
  "illegal",  \* public triples with characters that are illegal in an IRI
  "public",   \* public triples
  "private",  \* public and private triples, in the private repository
  "lost",     \* a reference to private triples that are not there
  "badId",    \* a reference that cannot be read
  "poison"}   \* private triples with illegal characters

ASSUME MigrationAssumption ==
  /\ Chains \in Nat \ {0} /\ Listed \in Nat \ {0} /\ Tokens \in Nat /\ Listed <= Tokens
  /\ Kinds \in [1..Chains -> SUBSET KindsKnown] /\ BatchSize \in Nat \ {0}
  /\ DownloadAttempts \in Nat \ {0} /\ IntegrityAttempts \in Nat \ {0}
  /\ ConnectRetries \in Nat \ {0} /\ MaxErrors \in Nat

Chain == 1..Chains
Token == 1..Tokens

VARIABLES
  kind,       \* what version 6 holds
  minted,     \* highest token of a chain
  file,       \* the database file
  row,        \* rows of the last file that was complete: absent, to do or processed
  v8,         \* named graphs of the tokens in the unified repository
  progress,   \* the migration progress file
  pc, chain, newToken,  \* where the process is, and the last token of the newer ones
  tries,      \* attempts of the step the process is at
  checks,     \* integrity checks that failed in this process
  batch,      \* tokens whose assertions are being copied
  fetched, done,        \* those read from version 6, those successfully processed
  passed,     \* highest token of a chain when the process left it (history)
  errors

stores == <<row, v8, progress>>
process == <<pc, chain, newToken, tries, checks, batch, fetched, done>>
vars == <<kind, minted, file, stores, process, passed, errors>>

Graphs == {"public", "private", "metadata"}
Phases == {"down", "connect", "file", "open", "chain", "batch", "fetch", "insert", "check", "mark",
           "newer", "newFetch", "newInsert", "newCheck", "newMark", "finish", "truncated", "exited"}

TypeOK ==
  /\ kind \in [Chain -> [Token -> KindsKnown]] /\ \A c \in Chain, t \in Token : kind[c][t] \in Kinds[c]
  /\ minted \in [Chain -> Listed..Tokens]
  /\ file \in {"absent", "empty", "corrupt", "good"}
  /\ row \in [Chain -> [Token -> {"none", "todo", "processed"}]]
  /\ v8 \in [Chain -> [Token -> SUBSET Graphs]]
  /\ progress \in {"none", "empty", "MIGRATED"}
  /\ pc \in Phases /\ chain \in Chain /\ newToken \in 0..Tokens
  /\ tries \in 0..(IF pc = "connect" THEN ConnectRetries ELSE DownloadAttempts) /\ checks \in 0..IntegrityAttempts
  /\ batch \subseteq Token /\ fetched \subseteq batch /\ done \subseteq fetched
  /\ passed \in [Chain -> 0..Tokens]
  /\ errors \in 0..MaxErrors

Listing == [c \in Chain |-> [t \in Token |-> IF t <= Listed THEN "todo" ELSE "none"]]

Init ==
  /\ kind \in [Chain -> [Token -> KindsKnown]] /\ \A c \in Chain, t \in Token : kind[c][t] \in Kinds[c]
  /\ minted = [c \in Chain |-> Listed]
  /\ file = "absent"
  /\ row = Listing
  /\ v8 = [c \in Chain |-> [t \in Token |-> {}]]
  /\ progress = "none"
  /\ pc = "down" /\ chain = 1 /\ newToken = 0 /\ tries = 0 /\ checks = 0
  /\ batch = {} /\ fetched = {} /\ done = {}
  /\ passed = [c \in Chain |-> 0]
  /\ errors = 0

Faulty == errors < MaxErrors /\ errors' = errors + 1
Ok == UNCHANGED errors
Rows(s) == {t \in Token : row[chain][t] = s}

\* Mutant: newer tokens start one too far.
AfterHighest == 1 + CHOOSE t \in Token : row[chain][t] # "none" /\ \A u \in Token : row[chain][u] # "none" => u <= t

Highest == CHOOSE t \in Token : row[chain][t] # "none" /\ \A u \in Token : row[chain][u] # "none" => u <= t

\* The process ends, or is killed; what it had in memory is gone.
Exit(to) ==
  /\ pc' = to /\ chain' = 1 /\ newToken' = 0 /\ tries' = 0 /\ checks' = 0
  /\ batch' = {} /\ fetched' = {} /\ done' = {}

\* To another phase, with the tokens of a batch or without.
GoTo(to) == pc' = to /\ UNCHANGED <<chain, newToken, tries, checks, batch, fetched, done>>

Drop(to) ==
  /\ pc' = to /\ batch' = {} /\ fetched' = {} /\ done' = {}
  /\ UNCHANGED <<chain, newToken, tries, checks>>

\* Mutant: the file stays.
KeepFile == UNCHANGED file

DeleteFile == file' = "absent"

----------------------------------------------------------------------------
(* Start *)

EnsureMigrationProgressFileExists ==
  /\ pc = "down"
  /\ progress' = IF progress = "none" THEN "empty" ELSE progress
  /\ GoTo(IF progress = "MIGRATED" THEN "exited" ELSE "connect")
  /\ UNCHANGED <<kind, minted, file, row, v8, passed, errors>>

\* A repository that is ready at the last retry ends the process as one that is
\* not: only the number of retries is looked at.
EnsureConnections ==
  /\ pc = "connect"
  /\ \/ /\ Ok /\ pc' = "file" /\ tries' = 0
        /\ UNCHANGED <<chain, newToken, checks, batch, fetched, done>>
     \/ /\ Faulty
        /\ IF tries + 1 < ConnectRetries
             THEN tries' = tries + 1 /\ UNCHANGED <<pc, chain, newToken, checks, batch, fetched, done>>
             ELSE Exit("down")
  /\ UNCHANGED <<kind, minted, file, stores, passed>>

\* An existing file is taken as it is. In a new one nothing is marked as processed.
\* A download that fails is deleted; one that is cut off by the end of the process
\* stays.
DownloadDb ==
  /\ pc = "file"
  /\ \/ /\ file # "absent" /\ Ok
        /\ GoTo("open") /\ UNCHANGED <<file, row>>
     \/ /\ file = "absent" /\ Ok
        /\ file' = "good" /\ row' = Listing /\ GoTo("open")
     \/ /\ file = "absent" /\ Faulty
        /\ file' = "corrupt" /\ GoTo("open") /\ UNCHANGED row
     \/ /\ file = "absent" /\ Faulty /\ UNCHANGED <<file, row>>
        /\ IF tries + 1 < DownloadAttempts
             THEN tries' = tries + 1 /\ UNCHANGED <<pc, chain, newToken, checks, batch, fetched, done>>
             ELSE Exit("down")
     \/ /\ file = "absent" /\ Faulty
        /\ file' \in {"empty", "corrupt"} /\ Exit("down") /\ UNCHANGED row
  /\ UNCHANGED <<kind, minted, v8, progress, passed>>

\* An empty file is a database without faults and without tables. The rows of a
\* good one are those listed, or what earlier processes made of them. A check that
\* fails itself deletes whatever file is there, with its rows.
CheckIntegrity ==
  /\ pc = "open"
  /\ \/ file = "good" /\ Ok /\ GoTo("chain") /\ UNCHANGED file
     \/ file = "empty" /\ Ok /\ Exit("down") /\ UNCHANGED file
     \/ /\ IF file = "corrupt" THEN Ok ELSE Faulty
        /\ DeleteFile
        /\ IF checks + 1 < IntegrityAttempts
             THEN /\ pc' = "file" /\ tries' = 0 /\ checks' = checks + 1
                  /\ UNCHANGED <<chain, newToken, batch, fetched, done>>
             ELSE Exit("down")
  /\ UNCHANGED <<kind, minted, stores, passed>>

----------------------------------------------------------------------------
(* Batches of the listed tokens *)

\* The newer tokens start after the highest one in the table at this point.
OpenChain ==
  /\ pc = "chain" /\ Ok
  /\ newToken' = Highest
  /\ pc' = "batch"
  /\ UNCHANGED <<kind, minted, file, stores, passed, chain, tries, checks, batch, fetched, done>>

\* In the order of the table.
GetBatchOfUnprocessedTokenIds ==
  /\ pc = "batch" /\ Ok
  /\ IF Rows("todo") = {}
       THEN GoTo("newer")
       ELSE /\ batch' = {t \in Rows("todo") :
                           Cardinality({u \in Rows("todo") : u < t}) < BatchSize}
            /\ pc' = "fetch" /\ fetched' = {} /\ done' = {}
            /\ UNCHANGED <<chain, newToken, tries, checks>>
  /\ UNCHANGED <<kind, minted, file, stores, passed>>

\* Tokens whose assertion is returned with success: absence is one.
Readable(t) == kind[chain][t] # "badId"

\* The assertions of a batch; those that fail are left for a later batch.
GetAssertionsInBatch ==
  /\ pc = "fetch"
  /\ \E failing \in SUBSET batch :
       /\ IF failing = {} THEN Ok ELSE Faulty
       /\ fetched' = {t \in batch \ failing : Readable(t)}
  /\ pc' = IF fetched' = {} THEN "batch" ELSE "insert"
  /\ UNCHANGED <<kind, minted, file, stores, passed, chain, newToken, tries, checks, batch, done>>

\* Nothing to insert: skipped as processed.
Skipped(t) == kind[chain][t] \in {"absent", "illegal"}

GraphsOf(k) ==
  CASE k \in {"public", "lost"} -> {"public", "metadata"}
    [] k = "private" -> Graphs
    [] OTHER -> {}

\* One update for all: it is accepted as a whole or not at all.
Copy(c, ts) ==
  v8' = [v8 EXCEPT ![c] = [t \in Token |-> IF t \in ts THEN @[t] \cup GraphsOf(kind[c][t]) ELSE @[t]]]

Accepted == \A t \in fetched : kind[chain][t] # "poison"

\* An error may come before the update or after it; without anything to insert
\* there is no update.
InsertAssertions(failed, next) ==
  \/ /\ Accepted /\ Ok
     /\ Copy(chain, fetched)
     /\ done' = {t \in fetched : Skipped(t)}
     /\ pc' = next /\ UNCHANGED <<chain, newToken, tries, checks, batch, fetched>>
  \/ /\ ~Accepted /\ Ok
     /\ UNCHANGED v8 /\ failed
  \/ /\ Accepted /\ Faulty /\ \E t \in fetched : ~Skipped(t)
     /\ UNCHANGED v8 \/ Copy(chain, fetched)
     /\ failed

InsertBatch ==
  /\ pc = "insert"
  /\ InsertAssertions(Drop("batch"), "check")
  /\ UNCHANGED <<kind, minted, file, row, progress, passed>>

\* The graphs that should be there after the insertion, private ones included;
\* an error of the query is taken for their absence.
NamedGraphsExist(t) == GraphsOf(kind[chain][t]) \subseteq v8[chain][t]

CheckBatch ==
  /\ pc = "check"
  /\ \E failing \in SUBSET (fetched \ done) :
       /\ IF failing = {} THEN Ok ELSE Faulty
       /\ done' = done \cup {t \in fetched \ (done \cup failing) : NamedGraphsExist(t)}
  /\ pc' = IF done' = {} THEN "batch" ELSE "mark"
  /\ UNCHANGED <<kind, minted, file, stores, passed, chain, newToken, tries, checks, batch, fetched>>

\* Mutant: the rows of the batch, whether they were copied or not.
MarkBatchAsProcessed ==
  /\ pc = "mark"
  /\ \/ Ok /\ row' = [row EXCEPT ![chain] = [t \in Token |-> IF t \in batch THEN "processed" ELSE @[t]]]
     \/ Faulty /\ UNCHANGED row
  /\ Drop("batch")
  /\ UNCHANGED <<kind, minted, file, v8, progress, passed>>

MarkRowsAsProcessed ==
  /\ pc = "mark"
  /\ \/ Ok /\ row' = [row EXCEPT ![chain] = [t \in Token |-> IF t \in done THEN "processed" ELSE @[t]]]
     \/ Faulty /\ UNCHANGED row
  /\ Drop("batch")
  /\ UNCHANGED <<kind, minted, file, v8, progress, passed>>

----------------------------------------------------------------------------
(* Newer tokens *)

Mint(c) ==
  /\ minted[c] < Tokens
  /\ minted' = [minted EXCEPT ![c] = @ + 1]
  /\ UNCHANGED <<kind, file, stores, process, passed, errors>>

\* A token without assertion ids ends the chain. An error ends the process.
GetAssertionIds ==
  /\ pc = "newer"
  /\ \/ /\ newToken >= minted[chain] /\ Ok
        /\ passed' = [passed EXCEPT ![chain] = minted[chain]]
        /\ IF chain < Chains
             THEN /\ chain' = chain + 1 /\ pc' = "chain"
                  /\ UNCHANGED <<newToken, tries, checks, batch, fetched, done>>
             ELSE GoTo("finish")
     \/ /\ newToken < minted[chain] /\ Ok /\ UNCHANGED passed
        /\ batch' = {newToken + 1} /\ pc' = "newFetch" /\ fetched' = {} /\ done' = {}
        /\ UNCHANGED <<chain, newToken, tries, checks>>
     \/ Faulty /\ Exit("down") /\ UNCHANGED passed
  /\ UNCHANGED <<kind, minted, file, stores>>

\* The token is tried again until it can be read.
GetNewAssertion ==
  /\ pc = "newFetch"
  /\ \/ /\ \A t \in batch : Readable(t)
        /\ fetched' = batch /\ pc' = "newInsert" /\ Ok
        /\ UNCHANGED <<chain, newToken, tries, checks, batch, done>>
     \/ (IF \A t \in batch : Readable(t) THEN Faulty ELSE Ok) /\ Drop("newer")
  /\ UNCHANGED <<kind, minted, file, stores, passed>>

\* Here an error of the update ends the process.
InsertNewAssertion ==
  /\ pc = "newInsert"
  /\ InsertAssertions(Exit("down"), "newCheck")
  /\ UNCHANGED <<kind, minted, file, row, progress, passed>>

CheckNewAssertion ==
  /\ pc = "newCheck"
  /\ \/ /\ done = fetched \/ \A t \in fetched : NamedGraphsExist(t)
        /\ Ok /\ GoTo("newMark")
     \/ done # fetched /\ Faulty /\ Drop("newer")
  /\ UNCHANGED <<kind, minted, file, stores, passed>>

\* INSERT OR IGNORE of a processed row.
InsertAssertion ==
  /\ pc = "newMark"
  /\ \/ /\ Ok
        /\ row' = [row EXCEPT ![chain] =
             [t \in Token |-> IF t \in batch /\ @[t] = "none" THEN "processed" ELSE @[t]]]
        /\ newToken' = newToken + 1
     \/ Faulty /\ UNCHANGED <<row, newToken>>
  /\ pc' = "newer" /\ batch' = {} /\ fetched' = {} /\ done' = {}
  /\ UNCHANGED <<kind, minted, file, v8, progress, passed, chain, tries, checks>>

----------------------------------------------------------------------------
(* The end *)

\* The file is truncated, then written.
MarkMigrationAsSuccessful ==
  /\ \/ pc = "finish" /\ progress' = "empty" /\ GoTo("truncated")
     \/ pc = "truncated" /\ progress' = "MIGRATED" /\ Exit("exited")
  /\ Ok
  /\ UNCHANGED <<kind, minted, file, row, v8, passed>>

Crash ==
  /\ pc \notin {"down", "exited"} /\ Faulty
  /\ Exit("down")
  /\ UNCHANGED <<kind, minted, file, stores, passed>>

Process ==
  \/ EnsureMigrationProgressFileExists \/ EnsureConnections \/ DownloadDb \/ CheckIntegrity
  \/ OpenChain \/ GetBatchOfUnprocessedTokenIds \/ GetAssertionsInBatch \/ InsertBatch
  \/ CheckBatch \/ MarkRowsAsProcessed
  \/ GetAssertionIds \/ GetNewAssertion \/ InsertNewAssertion \/ CheckNewAssertion \/ InsertAssertion
  \/ MarkMigrationAsSuccessful

Next == Process \/ Crash \/ \E c \in Chain : Mint(c)

Spec == Init /\ [][Next]_vars

\* The process runs while it can and is started again when it ended.
FairSpec == Spec /\ WF_vars(Process)

----------------------------------------------------------------------------
(* A row is marked as processed only when what version 6 held of the token  *)
(* and can be stored is in the unified repository, whichever query failed   *)
(* and wherever a process ended.                                            *)
ProcessedIsCopied ==
  \A c \in Chain, t \in Token :
    row[c][t] = "processed" =>
      \/ kind[c][t] \in {"absent", "illegal"}
      \/ GraphsOf(kind[c][t]) # {} /\ GraphsOf(kind[c][t]) \subseteq v8[c][t]

(* When the progress file says MIGRATED, every token that was minted when   *)
(* the process left its chain has a processed row.                          *)
MigratedMeansAll ==
  progress = "MIGRATED" =>
    \A c \in Chain, t \in Token :
      (t <= Listed \/ t <= passed[c]) => row[c][t] = "processed"

(* The tokens that stop the migration: a batch with nothing but unreadable  *)
(* references, or with one illegal private assertion, is tried for ever;    *)
(* so is a newer token.                                                     *)
Stuck == \E c \in Chain : \E t \in 1..minted[c] : kind[c][t] \in {"badId", "poison"}

(* The migration ends, unless a token stops it or a download was cut off    *)
(* while the file was empty.                                                *)
MigrationEnds == <>(progress = "MIGRATED" \/ Stuck \/ file = "empty")

=============================================================================
