------------------------- MODULE DataMigrationProofs -------------------------
(***************************************************************************)
(* Proofs about the migration of the triple stores, for every number of    *)
(* chains and tokens, whatever version 6 holds, size of the batches and    *)
(* number of failures and restarts.                                        *)
(***************************************************************************)
EXTENDS DataMigration, FiniteSetTheorems, WellFoundedInduction, TLAPS

USE MigrationAssumption

-----------------------------------------------------------------------------
(* The inductive invariant                                                 *)

Batching == {"batch", "fetch", "insert", "check", "mark"}
Minting == {"newer", "newFetch", "newInsert", "newCheck", "newMark"}

\* What version 6 held of a token is in the unified repository, or is nothing.
Copied(c, t) ==
  \/ kind[c][t] \in {"absent", "illegal"}
  \/ GraphsOf(kind[c][t]) # {} /\ GraphsOf(kind[c][t]) \subseteq v8[c][t]

\* The process opens a file that is there. The tokens in memory: those fetched are readable, and copied once the update was
\* accepted; those of a batch are in the table, and a newer one is next to it.
BatchIsSound ==
  /\ pc = "down" => tries = 0
  /\ pc = "open" => file # "absent"
  /\ pc \in {"fetch", "newFetch"} => done = {}
  /\ pc \in {"insert", "newInsert"} => \A t \in fetched : Readable(t)
  /\ pc \in {"check", "mark", "newCheck", "newMark"} => \A t \in fetched : Copied(chain, t)
  /\ pc \in {"fetch", "insert", "check", "mark"} => \A t \in batch : t <= newToken
  /\ pc \in {"newFetch", "newInsert", "newCheck", "newMark"} =>
       batch = {newToken + 1} /\ newToken < minted[chain]
  /\ pc \in {"newInsert", "newCheck", "newMark"} => fetched = batch

\* The table has the tokens up to a highest one, listed ones among them. That is
\* newToken in the chain the process is at, and behind the batches all are processed.
RowsAreSound ==
  /\ \A c \in Chain, t \in Token : t <= Listed => row[c][t] # "none"
  /\ \A c \in Chain, t, u \in Token : u <= t /\ row[c][t] # "none" => row[c][u] # "none"
  /\ pc \in Batching \cup Minting => \A t \in Token : row[chain][t] # "none" <=> t <= newToken
  /\ pc \in Minting => \A t \in Token : t <= newToken => row[chain][t] = "processed"

ChainDone(c) == \A t \in Token : t <= Listed \/ t <= passed[c] => row[c][t] = "processed"

\* The chains before that of the process are done, and all of them at the end. A
\* process that may still replace the file is at none of them.
ChainsAreSound ==
  /\ pc \in {"down", "connect", "file", "open"} => chain = 1
  /\ progress = "MIGRATED" => pc = "exited"
  /\ \A c \in Chain : c < chain => ChainDone(c)
  /\ pc \in {"finish", "truncated"} \/ progress = "MIGRATED" => \A c \in Chain : ChainDone(c)

IInv == TypeOK /\ BatchIsSound /\ ProcessedIsCopied /\ RowsAreSound /\ ChainsAreSound

\* Version 6 has something to copy of any token but the absent and illegal ones, and
\* those that are never accepted.
LEMMA GraphsOfReadable ==
  ASSUME NEW k \in KindsKnown, k \notin {"absent", "illegal", "badId", "poison"}
  PROVE  GraphsOf(k) # {} /\ GraphsOf(k) \subseteq Graphs
BY DEF GraphsOf, KindsKnown, Graphs

LEMMA GraphsOfAny ==
  ASSUME NEW k \in KindsKnown
  PROVE  GraphsOf(k) \subseteq Graphs
BY DEF GraphsOf, KindsKnown, Graphs

\* A set of tokens that is not empty has a highest one.
LEMMA Largest ==
  ASSUME NEW S \in SUBSET Token, S # {}
  PROVE  \E m \in S : \A n \in S : n <= m
<1> DEFINE D == {Tokens - n : n \in S}
<1>1. D \in SUBSET Nat /\ D # {}
  <2>1. \A n \in S : Tokens - n \in Nat
    BY DEF Token, MigrationAssumption
  <2> QED
    BY <2>1
<1>2. PICK x \in D : \A y \in D : ~ (<<y, x>> \in OpToRel(<, Nat))
  <2> HIDE DEF D
  <2> QED
    BY <1>1, NatLessThanWellFounded, WFMin
<1>3. \A y \in D : ~ (y < x)
  BY <1>1, <1>2 DEF OpToRel
<1>4. PICK m \in S : x = Tokens - m
  OBVIOUS
<1>5. \A n \in S : ~ (Tokens - n < Tokens - m)
  BY <1>3, <1>4
<1>6. \A n \in S : n \in Int
  BY DEF Token
<1> QED
  BY <1>5, <1>6 DEF MigrationAssumption

\* The newer tokens of a chain start after the highest one in its table.
LEMMA HighestInTable ==
  ASSUME TypeOK, RowsAreSound
  PROVE  /\ Highest \in Token
         /\ \A t \in Token : row[chain][t] # "none" <=> t <= Highest
<1> DEFINE S == {t \in Token : row[chain][t] # "none"}
<1>1. 1 \in S
  BY DEF TypeOK, RowsAreSound, Token, MigrationAssumption
<1>2. PICK m \in S : \A n \in S : n <= m
  BY <1>1, Largest
<1>3. Highest \in S /\ \A n \in S : n <= Highest
  BY <1>2 DEF Highest
<1>4. \A t \in Token : t <= Highest => row[chain][t] # "none"
  BY <1>3 DEF RowsAreSound, TypeOK
<1> QED
  BY <1>3, <1>4

-----------------------------------------------------------------------------
(* Types                                                                   *)

\* The variables of the process.
ProcessTypeOK ==
  /\ pc \in Phases /\ chain \in Chain /\ newToken \in 0..Tokens
  /\ tries \in 0..(IF pc = "connect" THEN ConnectRetries ELSE DownloadAttempts)
  /\ checks \in 0..IntegrityAttempts
  /\ batch \subseteq Token /\ fetched \subseteq batch /\ done \subseteq fetched

\* An end of the process, and what leaves its counters, keeps them in their sets.
LEMMA ProcessTypes ==
  ASSUME ProcessTypeOK, NEW to \in Phases
  PROVE  /\ Exit(to) => ProcessTypeOK'
         /\ (pc = "connect" <=> to = "connect") /\ (GoTo(to) \/ Drop(to)) => ProcessTypeOK'
<1> USE DEF ProcessTypeOK, MigrationAssumption
<1>1. ASSUME Exit(to)
      PROVE  ProcessTypeOK'
  BY <1>1 DEF Exit, Chain
<1>2. ASSUME pc = "connect" <=> to = "connect", GoTo(to)
      PROVE  ProcessTypeOK'
  BY <1>2 DEF GoTo
<1>3. ASSUME pc = "connect" <=> to = "connect", Drop(to)
      PROVE  ProcessTypeOK'
  BY <1>3 DEF Drop
<1> QED
  BY <1>1, <1>2, <1>3

\* Every step keeps the variables of the process in their sets.
LEMMA ProcessTypeStep ==
  ASSUME IInv, [Next]_vars
  PROVE  ProcessTypeOK'
<1> USE DEF process
<1>0. /\ ProcessTypeOK /\ DownloadAttempts \in Nat \ {0} /\ ConnectRetries \in Nat \ {0}
      /\ IntegrityAttempts \in Nat \ {0} /\ Tokens \in Nat /\ Chains \in Nat \ {0}
  BY DEF IInv, TypeOK, ProcessTypeOK, MigrationAssumption
<1>1. /\ \A to \in Phases : Exit(to) => ProcessTypeOK'
      /\ \A to \in Phases : (pc = "connect" <=> to = "connect") /\ (GoTo(to) \/ Drop(to)) => ProcessTypeOK'
  BY <1>0, ProcessTypes
<1> USE <1>0, <1>1 DEF Phases
<1>2. CASE EnsureMigrationProgressFileExists
  BY <1>2 DEF EnsureMigrationProgressFileExists, IInv, BatchIsSound, GoTo, ProcessTypeOK
<1>3. CASE EnsureConnections
  <2>1. CASE Exit("down")
    BY <2>1
  <2>2. CASE ~Exit("down")
    BY <1>3, <2>2 DEF EnsureConnections, ProcessTypeOK
  <2> QED
    BY <2>1, <2>2
<1>4. CASE DownloadDb
  <2>1. CASE Exit("down") \/ GoTo("open")
    BY <1>4, <2>1 DEF DownloadDb
  <2>2. CASE ~(Exit("down") \/ GoTo("open"))
    BY <1>4, <2>2 DEF DownloadDb, ProcessTypeOK
  <2> QED
    BY <2>1, <2>2
<1>5. CASE CheckIntegrity
  <2>1. CASE Exit("down") \/ GoTo("chain")
    BY <1>5, <2>1 DEF CheckIntegrity
  <2>2. CASE ~(Exit("down") \/ GoTo("chain"))
    <3>1. file \in {"absent", "empty", "corrupt", "good"} /\ pc = "open"
      BY <1>5 DEF IInv, TypeOK, CheckIntegrity
    <3>2. file # "absent"
      BY <3>1 DEF IInv, BatchIsSound
    <3>3. pc' = "file" /\ tries' = 0 /\ checks' = checks + 1 /\ checks + 1 < IntegrityAttempts
          /\ UNCHANGED <<chain, newToken, batch, fetched, done>>
      BY <1>5, <2>2, <3>1, <3>2 DEF CheckIntegrity
    <3> QED
      BY <3>3 DEF ProcessTypeOK
  <2> QED
    BY <2>1, <2>2
<1>6. CASE OpenChain
  BY <1>6, HighestInTable DEF OpenChain, IInv, Token, ProcessTypeOK
<1>7. CASE GetBatchOfUnprocessedTokenIds
  BY <1>7 DEF GetBatchOfUnprocessedTokenIds, Rows, ProcessTypeOK, GoTo
<1>8. CASE GetAssertionsInBatch
  BY <1>8 DEF GetAssertionsInBatch, IInv, BatchIsSound, ProcessTypeOK
<1>9. CASE InsertBatch
  BY <1>9 DEF InsertBatch, InsertAssertions, ProcessTypeOK
<1>10. CASE CheckBatch
  BY <1>10 DEF CheckBatch, ProcessTypeOK
<1>11. CASE MarkRowsAsProcessed
  BY <1>11 DEF MarkRowsAsProcessed
<1>12. CASE GetAssertionIds
  <2>1. minted[chain] \in Nat /\ minted[chain] <= Tokens
    BY DEF IInv, TypeOK, ProcessTypeOK, MigrationAssumption
  <2>2. CASE Exit("down")
    BY <2>2
  <2>3. CASE pc' = "newFetch"
    BY <1>12, <2>1, <2>3 DEF GetAssertionIds, ProcessTypeOK, Token, GoTo, Exit
  <2>4. CASE pc' \in {"chain", "finish"}
    BY <1>12, <2>1, <2>4, SMTT(30) DEF GetAssertionIds, ProcessTypeOK, Chain, GoTo, Exit
  <2> QED
    BY <1>12, <2>2, <2>3, <2>4 DEF GetAssertionIds, GoTo
<1>13. CASE GetNewAssertion
  BY <1>13 DEF GetNewAssertion, IInv, BatchIsSound, ProcessTypeOK
<1>14. CASE InsertNewAssertion
  BY <1>14 DEF InsertNewAssertion, InsertAssertions, ProcessTypeOK
<1>15. CASE CheckNewAssertion
  BY <1>15 DEF CheckNewAssertion
<1>16. CASE InsertAssertion
  BY <1>16 DEF InsertAssertion, IInv, BatchIsSound, ProcessTypeOK, Token
<1>17. CASE MarkMigrationAsSuccessful \/ Crash
  BY <1>17 DEF MarkMigrationAsSuccessful, Crash
<1>18. CASE UNCHANGED process
  BY <1>18 DEF ProcessTypeOK
<1> QED
  BY <1>2, <1>3, <1>4, <1>5, <1>6, <1>7, <1>8, <1>9, <1>10, <1>11, <1>12, <1>13, <1>14, <1>15, <1>16,
     <1>17, <1>18 DEF Next, Process, Mint, vars

\* The graphs of a token are inserted for tokens only, and rows become processed only.
LEMMA StoresTypeStep ==
  ASSUME IInv, [Next]_vars
  PROVE  /\ row' \in [Chain -> [Token -> {"none", "todo", "processed"}]]
         /\ v8' \in [Chain -> [Token -> SUBSET Graphs]]
<1>0. /\ row \in [Chain -> [Token -> {"none", "todo", "processed"}]]
      /\ v8 \in [Chain -> [Token -> SUBSET Graphs]]
      /\ \A c \in Chain, t \in Token : kind[c][t] \in KindsKnown
      /\ chain \in Chain
  BY DEF IInv, TypeOK
<1>1. ASSUME NEW c \in Chain, NEW ts, Copy(c, ts)
      PROVE  v8' \in [Chain -> [Token -> SUBSET Graphs]]
  <2>1. \A t \in Token : GraphsOf(kind[c][t]) \subseteq Graphs
    BY <1>0, GraphsOfAny
  <2> QED
    BY <1>0, <1>1, <2>1 DEF Copy
<1>2. CASE InsertBatch
  BY <1>0, <1>1, <1>2 DEF InsertBatch, InsertAssertions
<1>3. CASE InsertNewAssertion
  BY <1>0, <1>1, <1>3 DEF InsertNewAssertion, InsertAssertions
<1>4. CASE MarkRowsAsProcessed
  BY <1>0, <1>4 DEF MarkRowsAsProcessed
<1>5. CASE InsertAssertion
  BY <1>0, <1>5 DEF InsertAssertion
<1>7. CASE DownloadDb
  BY <1>0, <1>7 DEF DownloadDb, Listing
<1>6. CASE UNCHANGED <<row, v8>>
  BY <1>0, <1>6
<1> QED
  BY <1>2, <1>3, <1>4, <1>5, <1>6, <1>7 DEF Next, Process, vars, stores, EnsureMigrationProgressFileExists,
     EnsureConnections, CheckIntegrity, OpenChain, GetBatchOfUnprocessedTokenIds,
     GetAssertionsInBatch, CheckBatch, GetAssertionIds, GetNewAssertion, CheckNewAssertion,
     MarkMigrationAsSuccessful, Crash, Mint

\* Every step keeps the rest in its sets: what version 6 holds does not change, and
\* tokens are minted one after another.
LEMMA TypeStep ==
  ASSUME IInv, [Next]_vars
  PROVE  TypeOK'
<1>1. ProcessTypeOK'
  BY ProcessTypeStep
<1>2. /\ row' \in [Chain -> [Token -> {"none", "todo", "processed"}]]
      /\ v8' \in [Chain -> [Token -> SUBSET Graphs]]
  BY StoresTypeStep
<1>3. kind' = kind /\ minted' \in [Chain -> Listed..Tokens]
  <2>1. minted \in [Chain -> Listed..Tokens] /\ Listed \in Nat /\ Tokens \in Nat
    BY DEF IInv, TypeOK, MigrationAssumption
  <2>2. ASSUME NEW c \in Chain, Mint(c)
        PROVE  kind' = kind /\ minted' \in [Chain -> Listed..Tokens]
    BY <2>1, <2>2 DEF Mint
  <2> QED
    BY <2>1, <2>2 DEF Next, Process, vars, EnsureMigrationProgressFileExists, EnsureConnections,
       DownloadDb, CheckIntegrity, OpenChain, GetBatchOfUnprocessedTokenIds, GetAssertionsInBatch,
       InsertBatch, CheckBatch, MarkRowsAsProcessed, GetAssertionIds, GetNewAssertion,
       InsertNewAssertion, CheckNewAssertion, InsertAssertion, MarkMigrationAsSuccessful, Crash
<1>4. /\ file' \in {"absent", "empty", "corrupt", "good"}
      /\ progress' \in {"none", "empty", "MIGRATED"}
  <2>1. /\ file \in {"absent", "empty", "corrupt", "good"}
        /\ progress \in {"none", "empty", "MIGRATED"}
    BY DEF IInv, TypeOK
  <2>2. CASE DownloadDb
    BY <2>1, <2>2 DEF DownloadDb, stores
  <2>3. CASE CheckIntegrity
    <3>1. pc = "open" /\ file # "absent" /\ UNCHANGED progress
      BY <2>3 DEF CheckIntegrity, stores, IInv, BatchIsSound
    <3>2. file' = "absent" \/ UNCHANGED file
      BY <2>1, <2>3, <3>1 DEF CheckIntegrity, DeleteFile
    <3> QED
      BY <2>1, <3>1, <3>2
  <2>4. CASE EnsureMigrationProgressFileExists \/ MarkMigrationAsSuccessful
    BY <2>1, <2>4 DEF EnsureMigrationProgressFileExists, MarkMigrationAsSuccessful
  <2>5. CASE UNCHANGED <<file, progress>>
    BY <2>1, <2>5
  <2> QED
    BY <2>2, <2>3, <2>4, <2>5 DEF Next, Process, vars, stores, EnsureConnections, OpenChain,
       GetBatchOfUnprocessedTokenIds, GetAssertionsInBatch, InsertBatch, CheckBatch,
       MarkRowsAsProcessed, GetAssertionIds, GetNewAssertion, InsertNewAssertion,
       CheckNewAssertion, InsertAssertion, Crash, Mint
<1>5. passed' \in [Chain -> 0..Tokens]
  <2>1. passed \in [Chain -> 0..Tokens] /\ chain \in Chain /\ minted[chain] \in 0..Tokens
    BY DEF IInv, TypeOK, MigrationAssumption
  <2>2. passed' = passed \/ passed' = [passed EXCEPT ![chain] = minted[chain]]
    BY DEF Next, Process, vars, EnsureMigrationProgressFileExists, EnsureConnections,
       DownloadDb, CheckIntegrity, OpenChain, GetBatchOfUnprocessedTokenIds, GetAssertionsInBatch,
       InsertBatch, CheckBatch, MarkRowsAsProcessed, GetAssertionIds, GetNewAssertion,
       InsertNewAssertion, CheckNewAssertion, InsertAssertion, MarkMigrationAsSuccessful, Crash, Mint
  <2> QED
    BY <2>1, <2>2
<1>6. errors' \in 0..MaxErrors
  <2>1. errors \in 0..MaxErrors /\ MaxErrors \in Nat
    BY DEF IInv, TypeOK, MigrationAssumption
  <2>2. errors' = errors \/ Faulty
    BY DEF Next, Process, vars, EnsureMigrationProgressFileExists, EnsureConnections,
       DownloadDb, CheckIntegrity, OpenChain, GetBatchOfUnprocessedTokenIds, GetAssertionsInBatch,
       InsertBatch, InsertAssertions, CheckBatch, MarkRowsAsProcessed, GetAssertionIds,
       GetNewAssertion, InsertNewAssertion, CheckNewAssertion, InsertAssertion,
       MarkMigrationAsSuccessful, Crash, Mint, Ok
  <2> QED
    BY <2>1, <2>2 DEF Faulty
<1> QED
  BY <1>1, <1>2, <1>3, <1>4, <1>5, <1>6 DEF IInv, TypeOK, ProcessTypeOK

-----------------------------------------------------------------------------
(* Copies                                                                  *)

\* Nothing is removed from the unified repository.
LEMMA CopiedStays ==
  ASSUME IInv, [Next]_vars
  PROVE  kind' = kind /\ \A c \in Chain, t \in Token : Copied(c, t) => Copied(c, t)'
<1>1. kind' = kind
  BY DEF Next, Process, vars, EnsureMigrationProgressFileExists, EnsureConnections,
     DownloadDb, CheckIntegrity, OpenChain, GetBatchOfUnprocessedTokenIds, GetAssertionsInBatch,
     InsertBatch, CheckBatch, MarkRowsAsProcessed, GetAssertionIds, GetNewAssertion,
     InsertNewAssertion, CheckNewAssertion, InsertAssertion, MarkMigrationAsSuccessful, Crash, Mint
<1>2. v8' = v8 \/ Copy(chain, fetched)
  BY DEF Next, Process, vars, stores, EnsureMigrationProgressFileExists, EnsureConnections,
     DownloadDb, CheckIntegrity, OpenChain, GetBatchOfUnprocessedTokenIds, GetAssertionsInBatch,
     InsertBatch, CheckBatch, MarkRowsAsProcessed, GetAssertionIds, GetNewAssertion,
     InsertNewAssertion, CheckNewAssertion, InsertAssertion, MarkMigrationAsSuccessful, Crash, Mint,
     InsertAssertions
<1>3. v8 \in [Chain -> [Token -> SUBSET Graphs]]
  BY DEF IInv, TypeOK
<1>4. \A c \in Chain, t \in Token : v8[c][t] \subseteq v8'[c][t]
  <2>1. CASE v8' = v8
    BY <2>1
  <2>2. CASE Copy(chain, fetched)
    BY <1>3, <2>2 DEF Copy
  <2> QED
    BY <1>2, <2>1, <2>2
<1> QED
  BY <1>1, <1>4 DEF Copied

\* An accepted update copies all that was fetched.
LEMMA InsertedIsCopied ==
  ASSUME IInv, pc \in {"insert", "newInsert"}, Accepted, Copy(chain, fetched),
         UNCHANGED <<kind, chain>>, NEW t \in fetched
  PROVE  Copied(chain, t)'
<1>1. /\ t \in Token /\ chain \in Chain /\ kind[chain][t] \in KindsKnown
      /\ v8 \in [Chain -> [Token -> SUBSET Graphs]]
  BY DEF IInv, TypeOK
<1>2. kind[chain][t] \notin {"badId", "poison"}
  BY DEF IInv, BatchIsSound, Readable, Accepted
<1>3. GraphsOf(kind[chain][t]) \subseteq v8'[chain][t]
  BY <1>1 DEF Copy
<1> QED
  BY <1>1, <1>2, <1>3, GraphsOfReadable DEF Copied

\* The tokens in memory stay those the invariant says, from one phase to the next.
LEMMA BatchStep ==
  ASSUME IInv, TypeOK', [Next]_vars
  PROVE  BatchIsSound'
<1>0. /\ BatchIsSound /\ chain \in Chain /\ newToken \in Nat /\ minted \in [Chain -> Nat]
      /\ fetched \subseteq batch /\ done \subseteq fetched /\ batch \subseteq Token
  <2>1. minted \in [Chain -> Listed..Tokens] /\ Listed \in Nat /\ Tokens \in Nat
    BY DEF IInv, TypeOK, MigrationAssumption
  <2>2. minted \in [Chain -> Nat]
    BY <2>1
  <2> QED
    BY <2>1, <2>2, SMTT(30) DEF IInv, TypeOK
<1>1. kind' = kind /\ \A c \in Chain, t \in Token : Copied(c, t) => Copied(c, t)'
  BY CopiedStays
<1>2. ASSUME pc' = "down", tries' = 0
      PROVE  BatchIsSound'
  BY <1>2 DEF BatchIsSound
<1>3. ASSUME pc' \in {"connect", "file", "chain", "batch", "newer", "finish", "truncated", "exited"}
      PROVE  BatchIsSound'
  BY <1>3 DEF BatchIsSound
<1>4. CASE EnsureMigrationProgressFileExists \/ EnsureConnections \/ MarkMigrationAsSuccessful \/ Crash
  BY <1>2, <1>3, <1>4 DEF EnsureMigrationProgressFileExists, EnsureConnections,
     MarkMigrationAsSuccessful, Crash, GoTo, Exit
<1>5. CASE DownloadDb
  <2>1. CASE Exit("down")
    BY <2>1, <1>2 DEF Exit
  <2>2. CASE ~Exit("down")
    <3>1. CASE tries' = tries + 1 /\ UNCHANGED <<pc, chain, newToken, checks, batch, fetched, done>>
      <4>1. pc' = "file"
        BY <1>5, <3>1 DEF DownloadDb
      <4> QED
        BY <4>1, <1>3
    <3>2. CASE GoTo("open")
      <4>1. pc' = "open" /\ file' # "absent"
        BY <1>5, <2>2, <3>2 DEF DownloadDb, GoTo
      <4> QED
        BY <4>1 DEF BatchIsSound
    <3> QED
      BY <1>5, <2>2, <3>1, <3>2 DEF DownloadDb
  <2> QED
    BY <2>1, <2>2
<1>6. CASE CheckIntegrity
  <2>1. file \in {"empty", "corrupt", "good"}
    BY <1>0, <1>6 DEF CheckIntegrity, IInv, TypeOK, BatchIsSound
  <2>2. (pc' = "down" /\ tries' = 0) \/ pc' \in {"file", "chain"}
    BY <1>6, <2>1 DEF CheckIntegrity, GoTo, Exit
  <2> QED
    BY <2>2, <1>2, <1>3
<1>7. CASE OpenChain
  BY <1>3, <1>7 DEF OpenChain
<1>8. CASE GetBatchOfUnprocessedTokenIds
  <2>1. CASE pc' = "newer"
    BY <2>1, <1>3
  <2>2. CASE pc' # "newer"
    <3>1. /\ pc = "batch" /\ pc' = "fetch" /\ done' = {} /\ UNCHANGED newToken
          /\ batch' \subseteq {t \in Token : row[chain][t] = "todo"}
      BY <1>8, <2>2 DEF GetBatchOfUnprocessedTokenIds, GoTo, Rows
    <3>2. \A t \in batch' : t <= newToken
      BY <3>1 DEF IInv, RowsAreSound, Batching
    <3> QED
      BY <3>1, <3>2 DEF BatchIsSound
  <2> QED
    BY <2>1, <2>2
<1>9. CASE GetAssertionsInBatch
  <2>1. /\ pc = "fetch" /\ pc' \in {"batch", "insert"} /\ UNCHANGED <<kind, chain, newToken, batch>>
        /\ \A t \in fetched' : Readable(t)
    BY <1>9 DEF GetAssertionsInBatch
  <2> QED
    BY <1>0, <2>1 DEF BatchIsSound, Readable
<1>10. CASE InsertBatch
  <2>1. CASE Drop("batch")
    BY <2>1, <1>3 DEF Drop
  <2>2. CASE ~Drop("batch")
    <3>1. /\ pc = "insert" /\ pc' = "check" /\ Accepted /\ Copy(chain, fetched)
          /\ UNCHANGED <<kind, chain, newToken, batch, fetched>>
      BY <1>10, <2>2 DEF InsertBatch, InsertAssertions
    <3>2. \A t \in fetched : Copied(chain, t)'
      BY <3>1, InsertedIsCopied
    <3> QED
      BY <1>0, <3>1, <3>2 DEF BatchIsSound
  <2> QED
    BY <2>1, <2>2
<1>11. CASE CheckBatch
  <2>1. /\ pc = "check" /\ pc' \in {"batch", "mark"} /\ UNCHANGED <<chain, newToken, batch, fetched>>
    BY <1>11 DEF CheckBatch
  <2> QED
    BY <1>0, <1>1, <2>1 DEF BatchIsSound
<1>12. CASE MarkRowsAsProcessed
  BY <1>3, <1>12 DEF MarkRowsAsProcessed, Drop
<1>13. CASE GetAssertionIds
  <2>1. \/ (pc' = "down" /\ tries' = 0) \/ pc' \in {"chain", "finish"}
        \/ /\ pc' = "newFetch" /\ batch' = {newToken + 1} /\ newToken < minted[chain] /\ done' = {}
           /\ UNCHANGED <<chain, newToken, minted>>
    BY <1>13 DEF GetAssertionIds, Exit, GoTo
  <2> QED
    BY <2>1, <1>2, <1>3 DEF BatchIsSound
<1>14. CASE GetNewAssertion
  <2>1. \/ pc' = "newer"
        \/ /\ pc = "newFetch" /\ pc' = "newInsert" /\ fetched' = batch
           /\ \A t \in batch : Readable(t)
           /\ UNCHANGED <<kind, chain, newToken, minted, batch>>
    BY <1>14 DEF GetNewAssertion, Drop
  <2> QED
    BY <1>0, <2>1, <1>3 DEF BatchIsSound, Readable
<1>15. CASE InsertNewAssertion
  <2>1. CASE Exit("down")
    BY <2>1, <1>2 DEF Exit
  <2>2. CASE ~Exit("down")
    <3>1. /\ pc = "newInsert" /\ pc' = "newCheck" /\ Accepted /\ Copy(chain, fetched)
          /\ UNCHANGED <<kind, chain, newToken, minted, batch, fetched>>
      BY <1>15, <2>2 DEF InsertNewAssertion, InsertAssertions
    <3>2. \A t \in fetched : Copied(chain, t)'
      BY <3>1, InsertedIsCopied
    <3> QED
      BY <1>0, <3>1, <3>2 DEF BatchIsSound
  <2> QED
    BY <2>1, <2>2
<1>16. CASE CheckNewAssertion
  <2>1. \/ pc' = "newer"
        \/ pc = "newCheck" /\ pc' = "newMark" /\ UNCHANGED <<chain, newToken, minted, batch, fetched>>
    BY <1>16 DEF CheckNewAssertion, Drop, GoTo
  <2> QED
    BY <1>0, <1>1, <2>1, <1>3 DEF BatchIsSound
<1>17. CASE InsertAssertion
  BY <1>3, <1>17 DEF InsertAssertion
<1>18. ASSUME NEW c \in Chain, Mint(c)
       PROVE  BatchIsSound'
  <2>1. minted'[chain] >= minted[chain] /\ minted'[chain] \in Nat
    BY <1>0, <1>18 DEF Mint
  <2>2. UNCHANGED <<kind, file, pc, chain, newToken, tries, batch, fetched, done>>
    BY <1>18 DEF Mint, process
  <2>3. \A t \in fetched : Copied(chain, t) => Copied(chain, t)'
    BY <1>0, <1>1, <2>2
  <2> QED
    BY <1>0, <2>1, <2>2, <2>3 DEF BatchIsSound, Readable
<1>19. CASE UNCHANGED vars
  BY <1>0, <1>1, <1>19 DEF vars, process, BatchIsSound, Readable
<1> QED
  BY <1>4, <1>5, <1>6, <1>7, <1>8, <1>9, <1>10, <1>11, <1>12, <1>13, <1>14, <1>15, <1>16,
     <1>17, <1>18, <1>19 DEF Next, Process

-----------------------------------------------------------------------------
(* Rows                                                                    *)

\* A new file takes the place of one that was deleted.
NewFile ==
  /\ pc = "file" /\ pc' = "open" /\ file = "absent" /\ file' = "good" /\ row' = Listing
  /\ UNCHANGED <<chain, progress, passed>>

\* Rows of a file change at two places only: for what was copied of a batch, and for
\* the newer token next to the highest one.
LEMMA RowChanges ==
  ASSUME IInv, [Next]_vars
  PROVE  \/ NewFile
         \/ UNCHANGED row /\ (pc = "newMark" /\ pc' = "newer" => UNCHANGED newToken)
         \/ /\ pc = "mark" /\ pc' = "batch" /\ UNCHANGED <<chain, newToken>>
            /\ \A c \in Chain, t \in Token :
                 row'[c][t] = IF c = chain /\ t \in done THEN "processed" ELSE row[c][t]
         \/ /\ pc = "newMark" /\ pc' = "newer" /\ chain' = chain /\ newToken' = newToken + 1
            /\ \A c \in Chain, t \in Token :
                 row'[c][t] = IF c = chain /\ t = newToken + 1 THEN "processed" ELSE row[c][t]
<1>0. /\ row \in [Chain -> [Token -> {"none", "todo", "processed"}]]
      /\ chain \in Chain /\ newToken \in Nat /\ done \subseteq Token
  BY DEF IInv, TypeOK, MigrationAssumption
<1>1. CASE MarkRowsAsProcessed
  BY <1>0, <1>1 DEF MarkRowsAsProcessed, Drop
<1>3. CASE UNCHANGED <<row, newToken>>
  BY <1>3
<1>4. CASE UNCHANGED row /\ (pc # "newMark" \/ pc' # "newer")
  BY <1>4
<1>2. CASE InsertAssertion
  <2>1. CASE UNCHANGED <<row, newToken>>
    BY <2>1
  <2>2. CASE ~UNCHANGED <<row, newToken>>
    <3>1. /\ pc = "newMark" /\ pc' = "newer" /\ chain' = chain /\ newToken' = newToken + 1
          /\ row' = [row EXCEPT ![chain] =
               [t \in Token |-> IF t \in batch /\ @[t] = "none" THEN "processed" ELSE @[t]]]
      BY <1>2, <2>2 DEF InsertAssertion
    <3>2. batch = {newToken + 1} /\ \A t \in Token : t = newToken + 1 => row[chain][t] = "none"
      BY <1>0, <3>1 DEF IInv, BatchIsSound, RowsAreSound, Minting, Token
    <3>3. \A c \in Chain, t \in Token :
            row'[c][t] = IF c = chain /\ t \in batch /\ row[c][t] = "none" THEN "processed" ELSE row[c][t]
      BY <1>0, <3>1
    <3>4. \A c \in Chain, t \in Token :
            row'[c][t] = IF c = chain /\ t = newToken + 1 THEN "processed" ELSE row[c][t]
      BY <3>2, <3>3
    <3> QED
      BY <3>1, <3>4
  <2> QED
    BY <2>1, <2>2
<1>5. CASE Crash \/ (\E c \in Chain : Mint(c)) \/ UNCHANGED vars
  <2>1. UNCHANGED row /\ (pc' = "down" \/ UNCHANGED newToken)
    BY <1>5 DEF Crash, Exit, Mint, vars, stores, process
  <2> QED
    BY <2>1, <1>3, <1>4
<1>7. CASE DownloadDb
  BY <1>4, <1>7 DEF DownloadDb, NewFile, GoTo
<1>6. CASE /\ Process /\ ~MarkRowsAsProcessed /\ ~InsertAssertion /\ ~DownloadDb
  <2>1. UNCHANGED row /\ pc # "newMark"
    BY <1>6 DEF Process, stores, EnsureMigrationProgressFileExists,
       EnsureConnections, CheckIntegrity, OpenChain, GetBatchOfUnprocessedTokenIds,
       GetAssertionsInBatch, InsertBatch, CheckBatch, GetAssertionIds, GetNewAssertion,
       InsertNewAssertion, CheckNewAssertion, MarkMigrationAsSuccessful
  <2> QED
    BY <2>1, <1>4
<1> QED
  BY <1>1, <1>2, <1>5, <1>6, <1>7 DEF Next

\* A processed row stays processed as long as its file is kept.
LEMMA ProcessedStays ==
  ASSUME IInv, [Next]_vars, ~NewFile, NEW c \in Chain, NEW t \in Token, row[c][t] = "processed"
  PROVE  row'[c][t] = "processed"
BY RowChanges

\* What is marked was fetched, and copied before the mark.
LEMMA ProcessedStep ==
  ASSUME IInv, [Next]_vars
  PROVE  ProcessedIsCopied'
<1>1. /\ done \subseteq fetched /\ chain \in Chain /\ newToken \in Nat
      /\ \A c \in Chain, t \in Token : row[c][t] = "processed" => Copied(c, t)
  BY DEF IInv, TypeOK, ProcessedIsCopied, Copied, MigrationAssumption
<1>2. \A t \in Token : pc = "mark" /\ t \in done => Copied(chain, t)
  BY <1>1 DEF IInv, BatchIsSound
<1>3. \A t \in Token : pc = "newMark" /\ t = newToken + 1 => Copied(chain, t)
  BY <1>1 DEF IInv, BatchIsSound
<1>6. NewFile => \A c \in Chain, t \in Token : row'[c][t] # "processed"
  BY DEF NewFile, Listing
<1>4. \A c \in Chain, t \in Token : row'[c][t] = "processed" => Copied(c, t)
  BY <1>1, <1>2, <1>3, <1>6, RowChanges
<1>5. \A c \in Chain, t \in Token : Copied(c, t) => Copied(c, t)'
  BY CopiedStays
<1> QED
  BY <1>4, <1>5 DEF ProcessedIsCopied, Copied

\* How the process comes to, and stays at, the tokens of a chain.
LEMMA ChainPhases ==
  ASSUME IInv, [Next]_vars, pc' \in Batching \cup Minting
  PROVE  \/ /\ pc = "chain" /\ pc' = "batch" /\ UNCHANGED <<chain, row>> /\ newToken' = Highest
         \/ pc = "newMark" /\ pc' = "newer" /\ newToken' = newToken + 1
         \/ /\ pc \in Batching \cup Minting /\ UNCHANGED <<chain, newToken>>
            /\ pc' \in Minting /\ pc \notin Minting => pc = "batch" /\ Rows("todo") = {} /\ row' = row
<1> USE DEF Batching, Minting, stores, process, GoTo, Drop, Exit
<1>1. CASE EnsureMigrationProgressFileExists \/ EnsureConnections \/ MarkMigrationAsSuccessful \/ Crash
  BY <1>1 DEF EnsureMigrationProgressFileExists, EnsureConnections, MarkMigrationAsSuccessful, Crash
<1>2. CASE DownloadDb
  <2>1. pc' \in {"down", "open", "file"}
    BY <1>2 DEF DownloadDb
  <2> QED
    BY <2>1
<1>3. CASE CheckIntegrity
  <2>1. file \in {"empty", "corrupt", "good"}
    BY <1>3 DEF CheckIntegrity, IInv, TypeOK, BatchIsSound
  <2>2. pc' \in {"down", "file", "chain"}
    BY <1>3, <2>1 DEF CheckIntegrity
  <2> QED
    BY <2>2
<1>4. CASE OpenChain
  BY <1>4 DEF OpenChain
<1>5. CASE GetBatchOfUnprocessedTokenIds
  BY <1>5 DEF GetBatchOfUnprocessedTokenIds
<1>6. CASE GetAssertionsInBatch \/ CheckBatch
  BY <1>6 DEF GetAssertionsInBatch, CheckBatch
<1>7. CASE InsertBatch \/ InsertNewAssertion
  BY <1>7 DEF InsertBatch, InsertNewAssertion, InsertAssertions
<1>8. CASE MarkRowsAsProcessed
  BY <1>8 DEF MarkRowsAsProcessed
<1>9. CASE GetAssertionIds
  BY <1>9 DEF GetAssertionIds
<1>10. CASE GetNewAssertion \/ CheckNewAssertion
  BY <1>10 DEF GetNewAssertion, CheckNewAssertion
<1>11. CASE InsertAssertion
  BY <1>11 DEF InsertAssertion
<1>12. CASE UNCHANGED <<process, row>>
  BY <1>12
<1> QED
  BY <1>1, <1>2, <1>3, <1>4, <1>5, <1>6, <1>7, <1>8, <1>9, <1>10, <1>11, <1>12
  DEF Next, Process, Mint, vars

\* Tokens enter the table one by one, next to the highest one; a batch that finds
\* no row to do leaves only processed ones.
LEMMA RowsStep ==
  ASSUME IInv, [Next]_vars
  PROVE  RowsAreSound'
<1>0. /\ row \in [Chain -> [Token -> {"none", "todo", "processed"}]]
      /\ chain \in Chain /\ newToken \in 0..Tokens /\ done \subseteq batch /\ batch \subseteq Token
      /\ Listed \in Nat /\ Tokens \in Nat
  BY DEF IInv, TypeOK, MigrationAssumption
<1>8. CASE NewFile
  <2>1. \A c \in Chain, t \in Token : row'[c][t] = IF t <= Listed THEN "todo" ELSE "none"
    BY <1>8 DEF NewFile, Listing
  <2> QED
    BY <1>0, <1>8, <2>1 DEF NewFile, RowsAreSound, Batching, Minting, Token
<1>9. SUFFICES ASSUME ~NewFile
               PROVE  RowsAreSound'
  BY <1>8
<1>1. pc = "mark" => \A t \in Token : t \in done => row[chain][t] # "none"
  BY <1>0 DEF IInv, BatchIsSound, RowsAreSound, Batching
<1>2. pc = "newMark" => \A t \in Token : row[chain][t] # "none" <=> t <= newToken
  BY DEF IInv, RowsAreSound, Minting
<1>3. ASSUME NEW c \in Chain, NEW t \in Token
      PROVE  row[c][t] # "none" => row'[c][t] # "none"
  BY <1>3, <1>9, RowChanges
<1>4. ASSUME NEW c \in Chain, NEW t \in Token, row[c][t] = "none", row'[c][t] # "none"
      PROVE  /\ pc = "newMark" /\ pc' = "newer" /\ newToken' = newToken + 1
             /\ c = chain /\ t = newToken + 1
  BY <1>4, <1>1, <1>9, RowChanges
<1>5. \A c \in Chain, t \in Token : t <= Listed => row'[c][t] # "none"
  BY <1>3 DEF IInv, RowsAreSound
<1>6. ASSUME NEW c \in Chain, NEW t \in Token, NEW u \in Token, u <= t, row'[c][t] # "none"
      PROVE  row'[c][u] # "none"
  <2>1. CASE row[c][t] # "none"
    BY <1>6, <2>1, <1>3 DEF IInv, RowsAreSound
  <2>2. CASE row[c][t] = "none"
    <3>1. pc = "newMark" /\ newToken' = newToken + 1 /\ c = chain /\ t = newToken + 1
          /\ pc' = "newer"
      BY <1>6, <2>2, <1>4
    <3>2. CASE u <= newToken
      BY <3>1, <3>2, <1>2, <1>3
    <3>3. CASE u = t
      BY <3>3, <1>6
    <3> QED
      BY <1>0, <1>6, <3>1, <3>2, <3>3 DEF Token
  <2> QED
    BY <2>1, <2>2
<1>7. ASSUME pc' \in Batching \cup Minting
      PROVE  /\ \A t \in Token : row'[chain'][t] # "none" <=> t <= newToken'
             /\ pc' \in Minting => \A t \in Token : t <= newToken' => row'[chain'][t] = "processed"
  <2>1. CASE /\ pc = "chain" /\ pc' = "batch" /\ UNCHANGED <<chain, row>> /\ newToken' = Highest
    BY <2>1, HighestInTable DEF IInv, Minting
  <2>2. CASE pc = "newMark" /\ pc' = "newer" /\ newToken' = newToken + 1
    <3>1. /\ chain' = chain
          /\ \A c \in Chain, t \in Token :
                 row'[c][t] = IF c = chain /\ t = newToken + 1 THEN "processed" ELSE row[c][t]
      BY <1>0, <1>9, <2>2, RowChanges
    <3>2. \A t \in Token : t <= newToken => row[chain][t] = "processed"
      BY <2>2 DEF IInv, RowsAreSound, Minting
    <3> QED
      BY <1>0, <1>2, <2>2, <3>1, <3>2, SMTT(30) DEF Token
  <2>3. CASE /\ pc \in Batching \cup Minting /\ UNCHANGED <<chain, newToken>>
             /\ pc' \in Minting /\ pc \notin Minting => pc = "batch" /\ Rows("todo") = {} /\ row' = row
    <3>1. \A t \in Token : row[chain][t] # "none" <=> t <= newToken
      BY <2>3 DEF IInv, RowsAreSound
    <3>2. \A t \in Token : row'[chain][t] # "none" <=> t <= newToken
      BY <1>0, <1>3, <1>4, <2>3, <3>1
    <3>3. ASSUME pc' \in Minting, NEW t \in Token, t <= newToken
          PROVE  row'[chain][t] = "processed"
      <4>1. CASE pc \in Minting
        BY <1>0, <1>9, <3>3, <4>1, ProcessedStays DEF IInv, RowsAreSound
      <4>2. CASE pc \notin Minting
        BY <1>0, <2>3, <3>1, <3>3, <4>2 DEF Rows
      <4> QED
        BY <4>1, <4>2
    <3> QED
      BY <2>3, <3>2, <3>3
  <2> QED
    BY <1>7, <2>1, <2>2, <2>3, ChainPhases
<1> QED
  BY <1>5, <1>6, <1>7 DEF RowsAreSound

-----------------------------------------------------------------------------
(* Chains                                                                  *)

\* A chain that was left stays done as long as the file is kept.
LEMMA ChainStays ==
  ASSUME IInv, [Next]_vars, ~NewFile, NEW c \in Chain, ChainDone(c), passed'[c] = passed[c]
  PROVE  ChainDone(c)'
BY ProcessedStays DEF ChainDone

\* Where a chain is left, or the migration is said to be done.
LEMMA ChainMoves ==
  ASSUME IInv, [Next]_vars
  PROVE  \/ /\ pc = "newer" /\ newToken >= minted[chain]
            /\ passed' = [passed EXCEPT ![chain] = minted[chain]]
            /\ UNCHANGED <<row, progress>>
            /\ \/ chain < Chains /\ chain' = chain + 1 /\ pc' = "chain"
               \/ chain = Chains /\ chain' = chain /\ pc' = "finish"
         \/ /\ UNCHANGED passed /\ chain' \in {1, chain}
            /\ pc' \in {"finish", "truncated"} => pc \in {"finish", "truncated"}
            /\ progress' = "MIGRATED" => progress = "MIGRATED" \/ pc = "truncated"
<1> USE DEF stores, process, GoTo, Drop, Exit
<1>0. chain \in 1..Chains /\ Chains \in Nat
  BY DEF IInv, TypeOK, Chain, MigrationAssumption
<1>1. CASE EnsureMigrationProgressFileExists \/ EnsureConnections
  BY <1>1 DEF EnsureMigrationProgressFileExists, EnsureConnections
<1>2. CASE DownloadDb
  <2>1. pc' \in {"down", "open", "file"} /\ UNCHANGED <<passed, progress>> /\ chain' \in {1, chain}
    BY <1>2 DEF DownloadDb
  <2> QED
    BY <2>1
<1>3. CASE CheckIntegrity
  <2>1. file \in {"empty", "corrupt", "good"}
    BY <1>3 DEF CheckIntegrity, IInv, TypeOK, BatchIsSound
  <2>2. pc' \in {"down", "file", "chain"} /\ UNCHANGED <<passed, progress>> /\ chain' \in {1, chain}
    BY <1>3, <2>1 DEF CheckIntegrity
  <2> QED
    BY <2>2
<1>4. CASE OpenChain \/ GetBatchOfUnprocessedTokenIds
  BY <1>4 DEF OpenChain, GetBatchOfUnprocessedTokenIds
<1>5. CASE GetAssertionsInBatch \/ CheckBatch
  BY <1>5 DEF GetAssertionsInBatch, CheckBatch
<1>6. CASE InsertBatch \/ InsertNewAssertion
  BY <1>6 DEF InsertBatch, InsertNewAssertion, InsertAssertions
<1>7. CASE MarkRowsAsProcessed \/ InsertAssertion
  BY <1>7 DEF MarkRowsAsProcessed, InsertAssertion
<1>8. CASE GetAssertionIds
  BY <1>0, <1>8 DEF GetAssertionIds
<1>9. CASE GetNewAssertion \/ CheckNewAssertion
  BY <1>9 DEF GetNewAssertion, CheckNewAssertion
<1>10. CASE MarkMigrationAsSuccessful
  BY <1>10 DEF MarkMigrationAsSuccessful
<1>11. CASE Crash
  BY <1>11 DEF Crash
<1>12. CASE UNCHANGED <<process, stores, passed>>
  BY <1>12
<1> QED
  BY <1>1, <1>2, <1>3, <1>4, <1>5, <1>6, <1>7, <1>8, <1>9, <1>10, <1>11, <1>12
  DEF Next, Process, Mint, vars

\* A process that started is at the first chain, and ends when it wrote MIGRATED.
LEMMA StartStep ==
  ASSUME IInv, [Next]_vars
  PROVE  /\ pc' \in {"down", "connect", "file", "open"} => chain' = 1
         /\ progress' = "MIGRATED" => pc' = "exited"
<1> USE DEF stores, process, GoTo, Drop, Exit
<1>0. /\ pc \in {"down", "connect", "file", "open"} => chain = 1
      /\ progress = "MIGRATED" => pc = "exited"
  BY DEF IInv, ChainsAreSound
<1>1. CASE EnsureMigrationProgressFileExists \/ EnsureConnections
  BY <1>0, <1>1 DEF EnsureMigrationProgressFileExists, EnsureConnections
<1>2. CASE DownloadDb
  BY <1>0, <1>2 DEF DownloadDb
<1>3. CASE CheckIntegrity
  <2>1. pc = "open" /\ UNCHANGED progress
    BY <1>3 DEF CheckIntegrity
  <2>2. pc' \in {"down", "file"} => chain' = 1
    BY <1>0, <1>3 DEF CheckIntegrity
  <2>3. pc' \in {"down", "file", "chain"}
    BY <1>3 DEF CheckIntegrity
  <2> QED
    BY <1>0, <2>1, <2>2, <2>3
<1>4. CASE OpenChain \/ GetBatchOfUnprocessedTokenIds
  BY <1>0, <1>4 DEF OpenChain, GetBatchOfUnprocessedTokenIds
<1>5. CASE GetAssertionsInBatch \/ CheckBatch
  BY <1>0, <1>5 DEF GetAssertionsInBatch, CheckBatch
<1>6. CASE InsertBatch \/ InsertNewAssertion
  BY <1>0, <1>6 DEF InsertBatch, InsertNewAssertion, InsertAssertions
<1>7. CASE MarkRowsAsProcessed \/ InsertAssertion
  BY <1>0, <1>7 DEF MarkRowsAsProcessed, InsertAssertion
<1>8. CASE GetAssertionIds
  BY <1>0, <1>8 DEF GetAssertionIds
<1>9. CASE GetNewAssertion \/ CheckNewAssertion
  BY <1>0, <1>9 DEF GetNewAssertion, CheckNewAssertion
<1>10. CASE MarkMigrationAsSuccessful
  BY <1>0, <1>10 DEF MarkMigrationAsSuccessful
<1>11. CASE Crash
  BY <1>0, <1>11 DEF Crash
<1>12. CASE UNCHANGED <<process, stores>>
  BY <1>0, <1>12
<1> QED
  BY <1>1, <1>2, <1>3, <1>4, <1>5, <1>6, <1>7, <1>8, <1>9, <1>10, <1>11, <1>12
  DEF Next, Process, Mint, vars

\* A chain is left when every token of it up to the highest one minted is
\* processed, and the listed ones are among those.
LEMMA ChainsStep ==
  ASSUME IInv, [Next]_vars
  PROVE  ChainsAreSound'
<1>0. /\ chain \in 1..Chains /\ Chains \in Nat \ {0} /\ Chain = 1..Chains
      /\ passed \in [Chain -> 0..Tokens] /\ minted \in [Chain -> Listed..Tokens]
      /\ newToken \in 0..Tokens /\ Listed \in Nat /\ Tokens \in Nat
  BY SMTT(30) DEF IInv, TypeOK, Chain, MigrationAssumption
<1>1. /\ pc' \in {"down", "connect", "file", "open"} => chain' = 1
      /\ progress' = "MIGRATED" => pc' = "exited"
  BY StartStep
<1>2. CASE NewFile
  <2>1. chain = 1 /\ chain' = 1 /\ pc' = "open" /\ progress' # "MIGRATED"
    BY <1>1, <1>2 DEF NewFile, IInv, ChainsAreSound
  <2>2. \A c \in Chain : ~(c < chain')
    BY <1>0, <2>1
  <2> QED
    BY <1>1, <2>1, <2>2 DEF ChainsAreSound
<1>3. CASE /\ ~NewFile
           /\ pc = "newer" /\ newToken >= minted[chain]
           /\ passed' = [passed EXCEPT ![chain] = minted[chain]]
           /\ UNCHANGED <<row, progress>>
           /\ \/ chain < Chains /\ chain' = chain + 1 /\ pc' = "chain"
              \/ chain = Chains /\ chain' = chain /\ pc' = "finish"
  <2>1. \A c \in Chain : c = chain => ChainDone(c)'
    <3>1. \A t \in Token : t <= newToken => row'[chain][t] = "processed"
      BY <1>3 DEF IInv, RowsAreSound, Minting
    <3>2. \A t \in Token : t <= Listed \/ t <= passed'[chain] => t <= newToken
      BY <1>0, <1>3, SMTT(30) DEF Token
    <3>3. \A t \in Token : t <= Listed \/ t <= passed'[chain] => row'[chain][t] = "processed"
      BY <3>1, <3>2
    <3> QED
      BY <3>3 DEF ChainDone
  <2>2. ASSUME NEW c \in Chain, c <= chain
        PROVE  ChainDone(c)'
    <3>1. CASE c = chain
      BY <2>1, <3>1
    <3>2. CASE c < chain
      <4>1. passed'[c] = passed[c] /\ ChainDone(c)
        BY <1>0, <1>3, <3>2 DEF IInv, ChainsAreSound
      <4> QED
        BY <1>3, <4>1, ChainStays
    <3> QED
      BY <1>0, <2>2, <3>1, <3>2
  <2>3. \A c \in Chain : c < chain' => ChainDone(c)'
    BY <1>0, <1>3, <2>2
  <2>4. pc' \in {"finish", "truncated"} => \A c \in Chain : ChainDone(c)'
    BY <1>0, <1>3, <2>2
  <2>5. progress' # "MIGRATED"
    BY <1>1, <1>3
  <2> QED
    BY <1>1, <2>3, <2>4, <2>5 DEF ChainsAreSound
<1>4. CASE /\ ~NewFile
           /\ UNCHANGED passed /\ chain' \in {1, chain}
           /\ pc' \in {"finish", "truncated"} => pc \in {"finish", "truncated"}
           /\ progress' = "MIGRATED" => progress = "MIGRATED" \/ pc = "truncated"
  <2>1. \A c \in Chain : ChainDone(c) => ChainDone(c)'
    BY <1>4, ChainStays
  <2>2. \A c \in Chain : c < chain' => c < chain
    BY <1>0, <1>4
  <2> QED
    BY <1>1, <1>4, <2>1, <2>2 DEF IInv, ChainsAreSound
<1> QED
  BY <1>2, <1>3, <1>4, ChainMoves

-----------------------------------------------------------------------------
(* Theorems                                                                *)

LEMMA MigrationInit == Init => IInv
<1> SUFFICES ASSUME Init
             PROVE  IInv
  OBVIOUS
<1>0. /\ Chains \in Nat \ {0} /\ Listed \in Nat \ {0} /\ Tokens \in Nat /\ Listed <= Tokens
      /\ ConnectRetries \in Nat /\ DownloadAttempts \in Nat /\ IntegrityAttempts \in Nat
      /\ MaxErrors \in Nat
  BY DEF MigrationAssumption
<1>1. \A c \in Chain, t \in Token : row[c][t] = IF t <= Listed THEN "todo" ELSE "none"
  BY DEF Init, Listing
<1>2. row \in [Chain -> [Token -> {"none", "todo", "processed"}]]
  BY DEF Init, Listing
<1>3. TypeOK
  BY <1>0, <1>2 DEF Init, TypeOK, Chain, Token, Phases, Graphs
<1>4. BatchIsSound /\ ProcessedIsCopied
  BY <1>1 DEF Init, BatchIsSound, ProcessedIsCopied
<1>5. RowsAreSound
  BY <1>0, <1>1 DEF Init, RowsAreSound, Batching, Minting, Token
<1>6. ChainsAreSound
  BY <1>0 DEF Init, ChainsAreSound, Chain, Token
<1> QED
  BY <1>3, <1>4, <1>5, <1>6 DEF IInv

LEMMA MigrationInvariant == Spec => []IInv
<1>1. IInv /\ [Next]_vars => IInv'
  BY TypeStep, BatchStep, ProcessedStep, RowsStep, ChainsStep DEF IInv
<1> QED
  BY MigrationInit, <1>1, PTL DEF Spec

(* TypeOK: the counters of the migration stay within their limits, what is *)
(* fetched is part of the batch and what is marked was fetched, wherever   *)
(* the process ended and was started again.                                *)
THEOREM MigrationTypeCorrect == Spec => []TypeOK
<1>1. IInv => TypeOK
  BY DEF IInv
<1> QED
  BY MigrationInvariant, <1>1, PTL

(* ProcessedIsCopied: the row of a token says processed only when what     *)
(* version 6 held of it is in the unified repository, whichever query      *)
(* failed (markRowsAsProcessed, insertAssertion of blockchain-utils.js).   *)
THEOREM ProcessedIsCopiedCorrect == Spec => []ProcessedIsCopied
<1>1. IInv => ProcessedIsCopied
  BY DEF IInv
<1> QED
  BY MigrationInvariant, <1>1, PTL

(* MigratedMeansAll: the progress file says MIGRATED only when each listed *)
(* token, and each one that was minted when the process left its chain, is *)
(* processed (markMigrationAsSuccessfull after the last chain).            *)
THEOREM MigratedMeansAllCorrect == Spec => []MigratedMeansAll
<1>1. IInv => MigratedMeansAll
  BY DEF IInv, ChainsAreSound, ChainDone, MigratedMeansAll
<1> QED
  BY MigrationInvariant, <1>1, PTL

(* What was copied is never taken back, wherever a process ends and starts *)
(* again. A token that is processed is taken up again only from a new      *)
(* file, and a complete one is given up only by an integrity check, which  *)
(* a process makes before it is at any chain (updates are INSERT DATA,     *)
(* INSERT OR IGNORE and SET processed = 1; main of v8-data-migration.js    *)
(* deletes the file when the check fails or cannot be made).               *)
RowsOnlyGrow ==
  /\ \A c \in Chain, t \in Token : v8[c][t] \subseteq v8'[c][t]
  /\ \A c \in Chain, t \in Token :
       row[c][t] = "processed" /\ row'[c][t] # "processed" => file = "absent" /\ file' = "good"
  /\ file = "good" /\ file' # "good" =>
       pc = "open" /\ chain = 1 /\ file' = "absent" /\ progress # "MIGRATED"

LEMMA GraphsStay ==
  ASSUME IInv, [Next]_vars, NEW c \in Chain, NEW t \in Token
  PROVE  v8[c][t] \subseteq v8'[c][t]
<1>1. v8 \in [Chain -> [Token -> SUBSET Graphs]]
  BY DEF IInv, TypeOK
<1>2. v8' = v8 \/ Copy(chain, fetched)
  BY DEF Next, Process, vars, stores, EnsureMigrationProgressFileExists, EnsureConnections,
     DownloadDb, CheckIntegrity, OpenChain, GetBatchOfUnprocessedTokenIds, GetAssertionsInBatch,
     InsertBatch, CheckBatch, MarkRowsAsProcessed, GetAssertionIds, GetNewAssertion,
     InsertNewAssertion, CheckNewAssertion, InsertAssertion, MarkMigrationAsSuccessful, Crash, Mint,
     InsertAssertions
<1>3. CASE Copy(chain, fetched)
  BY <1>1, <1>3 DEF Copy
<1> QED
  BY <1>2, <1>3

\* A complete file goes by a failing check only.
LEMMA FileStays ==
  ASSUME IInv, [Next]_vars, file = "good", file' # "good"
  PROVE  pc = "open" /\ chain = 1 /\ file' = "absent" /\ progress # "MIGRATED"
<1>1. CheckIntegrity
  BY DEF Next, Process, vars, EnsureMigrationProgressFileExists, EnsureConnections, DownloadDb,
     OpenChain, GetBatchOfUnprocessedTokenIds, GetAssertionsInBatch, InsertBatch, CheckBatch,
     MarkRowsAsProcessed, GetAssertionIds, GetNewAssertion, InsertNewAssertion, CheckNewAssertion,
     InsertAssertion, MarkMigrationAsSuccessful, Crash, Mint
<1>2. pc = "open" /\ file' = "absent"
  BY <1>1 DEF CheckIntegrity, DeleteFile
<1> QED
  BY <1>2 DEF IInv, ChainsAreSound

(* Each step keeps the copied graphs, and the processed rows of a file.    *)
THEOREM RowsOnlyGrowCorrect == Spec => [][RowsOnlyGrow]_vars
<1>1. ASSUME IInv, [Next]_vars
      PROVE  RowsOnlyGrow
  <2>1. \A c \in Chain, t \in Token : v8[c][t] \subseteq v8'[c][t]
    BY <1>1, GraphsStay
  <2>2. ASSUME NEW c \in Chain, NEW t \in Token, row[c][t] = "processed", row'[c][t] # "processed"
        PROVE  file = "absent" /\ file' = "good"
    BY <1>1, <2>2, ProcessedStays DEF NewFile
  <2>3. file = "good" /\ file' # "good" =>
          pc = "open" /\ chain = 1 /\ file' = "absent" /\ progress # "MIGRATED"
    BY <1>1, FileStays
  <2> QED
    BY <2>1, <2>2, <2>3 DEF RowsOnlyGrow
<1>2. IInv /\ [Next]_vars => [RowsOnlyGrow]_vars
  BY <1>1
<1> QED
  BY MigrationInvariant, <1>2, PTL DEF Spec

=============================================================================
