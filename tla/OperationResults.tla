--------------------------- MODULE OperationResults ---------------------------
(***************************************************************************)
(* The result of an operation and the client that polls for it, shown on   *)
(* a query and a local store.  The HTTP controller creates the operation   *)
(* id record; the query command stores its result in memory and in a file  *)
(* and then marks the record, a local store finds its input there, cached  *)
(* by the controller; the cleaner removes what is a day old, and the       *)
(* result controller reads record, memory and file in steps of its own.    *)
(*                                                                         *)
(* The operation is accepted at time 0, the timestamp of its record.  A    *)
(* crash loses the memory, and the query that was running: the replay of   *)
(* the executor leaves out commands without a parent.                      *)
(***************************************************************************)
EXTENDS Integers

CONSTANTS
  Lifetime,   \* OPERATION_ID_COMMAND_CLEANUP_TIME_MILLS, in ticks
  MaxClock,   \* bound: ticks that are observed
  MaxErrors   \* bound: crashes and failed writes and queries

ResultsAssumption == Lifetime \in Nat /\ MaxClock \in Nat /\ MaxErrors \in Nat

VARIABLES
  clock,
  record,   \* status of the operation id record
  memory,   \* when the data was cached in memory, or None
  file,     \* when the file of the data was written, Torn while it is written, or None
  query,    \* where the query or local store is
  cleaner,  \* what the cleaner removes next
  request,  \* where the client's request for the result is
  reply,    \* the last answer the client got
  errors

resultVars == <<clock, record, memory, file, query, cleaner, request, reply>>

None == -1
Torn == -2

ResultsInit ==
  /\ clock = 0 /\ record = "none" /\ memory = None /\ file = None
  /\ query = "none" /\ cleaner = "records" /\ request = "none" /\ reply = "none"

Goto(stage) == query' = stage
OneError == errors < MaxErrors /\ errors' = errors + 1

----------------------------------------------------------------------------
(* The query *)

\* The record is created and the client told its operation id; then the command is added.
HandleQuery ==
  /\ query = "none" /\ Goto("accepted")
  /\ record' = "PENDING"
  /\ UNCHANGED <<clock, memory, file, cleaner, request, reply, errors>>

AddQuery ==
  /\ query = "accepted" /\ Goto("queued")
  /\ UNCHANGED <<clock, record, memory, file, cleaner, request, reply, errors>>

\* An update of a record that was removed updates nothing.
Update(status) == record' = IF record = "removed" THEN record ELSE status

\* The status QUERY_START and the endpoints of a federated query: both are outside the
\* try block, so that an error is the executor's to handle.
StartQuery ==
  /\ query = "queued"
  /\ \/ Goto("select") /\ Update("PENDING") /\ UNCHANGED errors
     \/ OneError /\ Goto("recover") /\ UNCHANGED record
  /\ UNCHANGED <<clock, memory, file, cleaner, request, reply>>

\* The query is asked of one repository, or of the old and the new one.
RunQuery ==
  /\ query = "select"
  /\ \/ Goto("memory") /\ UNCHANGED errors
     \/ OneError /\ Goto("error")
  /\ UNCHANGED <<clock, record, memory, file, cleaner, request, reply>>

\* Mutant of CacheToMemory: the data is not written to the file
CacheToMemoryOnly ==
  /\ query = "memory" /\ Goto("end")
  /\ memory' = clock
  /\ UNCHANGED <<clock, record, file, cleaner, request, reply, errors>>

CacheToMemory ==
  /\ query = "memory" /\ Goto("file")
  /\ memory' = clock
  /\ UNCHANGED <<clock, record, file, cleaner, request, reply, errors>>

\* The file is truncated when it is opened, and whole when the last block is written.
CacheToFile ==
  /\ query = "file"
  /\ file' = Torn
  /\ \/ Goto("writing") /\ UNCHANGED errors
     \/ OneError /\ Goto("error")
  /\ UNCHANGED <<clock, record, memory, cleaner, request, reply>>

WriteFile ==
  /\ query = "writing" /\ Goto("end")
  /\ file' = clock
  /\ UNCHANGED <<clock, record, memory, cleaner, request, reply, errors>>

CompleteQuery ==
  /\ query = "end"
  /\ \/ Goto("completed") /\ Update("COMPLETED") /\ UNCHANGED errors
     \/ OneError /\ Goto("error") /\ UNCHANGED record
  /\ UNCHANGED <<clock, memory, file, cleaner, request, reply>>

\* handleError of the command, and of its recover: the file and the cached data are
\* removed before the record is marked.
RemoveCache ==
  /\ query \in {"error", "recover"}
  /\ file' = None /\ memory' = None
  /\ Goto(IF query = "error" THEN "fail" ELSE "failAgain")
  /\ UNCHANGED <<clock, record, cleaner, request, reply, errors>>

\* Mutant of FailQuery: the record is not marked
FailQuerySilently ==
  /\ query \in {"fail", "failAgain"} /\ Goto("completed")
  /\ UNCHANGED <<clock, record, memory, file, cleaner, request, reply, errors>>

\* A failed update is an error of the command; one of its recover is only logged.
FailQuery ==
  /\ query \in {"fail", "failAgain"}
  /\ \/ Goto("completed") /\ Update("FAILED") /\ UNCHANGED errors
     \/ OneError /\ Goto(IF query = "fail" THEN "recover" ELSE "stuck") /\ UNCHANGED record
  /\ UNCHANGED <<clock, memory, file, cleaner, request, reply>>

\* The executor marks the command row as completed.
EndQuery ==
  /\ query = "completed" /\ Goto("done")
  /\ UNCHANGED <<clock, record, memory, file, cleaner, request, reply, errors>>

----------------------------------------------------------------------------
(* The local store of version 0 *)

\* An error of the controller is caught by nobody and ends the process (CrashNode).
HandleLocalStore ==
  /\ query = "none" /\ Goto("inputMemory")
  /\ record' = "PENDING"
  /\ UNCHANGED <<clock, memory, file, cleaner, request, reply, errors>>

CacheInputToMemory ==
  /\ query = "inputMemory" /\ Goto("inputFile")
  /\ memory' = clock
  /\ UNCHANGED <<clock, record, file, cleaner, request, reply, errors>>

CacheInputToFile ==
  /\ \/ query = "inputFile" /\ Goto("inputWriting") /\ file' = Torn
     \/ query = "inputWriting" /\ Goto("store") /\ file' = clock
  /\ UNCHANGED <<clock, record, memory, cleaner, request, reply, errors>>

\* The status is updated and the input read, from the file when it is not in memory.
StartLocalStore ==
  /\ query = "store"
  /\ \/ Goto(IF memory # None \/ file >= 0 THEN "insert" ELSE "error") /\ UNCHANGED errors
     \/ OneError /\ Goto("error")
  /\ UNCHANGED <<clock, record, memory, file, cleaner, request, reply>>

\* The graph of the public triples, that of the private ones and the metadata
CreateV6KnowledgeCollection ==
  /\ query = "insert"
  /\ \/ Goto("end") /\ UNCHANGED errors
     \/ OneError /\ Goto("error")
  /\ UNCHANGED <<clock, record, memory, file, cleaner, request, reply>>

LocalStoreStep ==
  CacheInputToMemory \/ CacheInputToFile \/ StartLocalStore \/ CreateV6KnowledgeCollection

----------------------------------------------------------------------------
QueryStep ==
  \/ AddQuery \/ StartQuery \/ RunQuery \/ CacheToMemory \/ CacheToFile \/ WriteFile
  \/ CompleteQuery \/ RemoveCache \/ FailQuery \/ EndQuery \/ LocalStoreStep

\* The row of a command without a parent is not replayed after the restart, and the
\* cleaner keeps a record that is neither completed nor failed.
CrashNode ==
  /\ query \notin {"none", "lost"} /\ OneError
  /\ Goto("lost")
  /\ memory' = None /\ cleaner' = "records" /\ request' = "none"
  /\ UNCHANGED <<clock, record, file, reply>>

----------------------------------------------------------------------------
(* The cleaner, once a day *)

IsOld(time) == time + Lifetime < clock

CleanRecords ==
  /\ cleaner = "records" /\ IsOld(0) /\ cleaner' = "memory"
  /\ record' = IF record \in {"COMPLETED", "FAILED"} THEN "removed" ELSE record
  /\ UNCHANGED <<clock, memory, file, query, request, reply, errors>>

\* A run of the cleaner that began when the record was not old yet
SkipRecords ==
  /\ cleaner = "records" /\ cleaner' = "memory"
  /\ ~IsOld(0)
  /\ UNCHANGED <<clock, record, memory, file, query, request, reply, errors>>

CleanMemory ==
  /\ cleaner = "memory" /\ cleaner' = "files"
  /\ memory' = IF memory # None /\ IsOld(memory) THEN None ELSE memory
  /\ UNCHANGED <<clock, record, file, query, request, reply, errors>>

CleanFiles ==
  /\ cleaner = "files" /\ cleaner' = "records"
  /\ file' = IF file >= 0 /\ IsOld(file) THEN None ELSE file
  /\ UNCHANGED <<clock, record, memory, query, request, reply, errors>>

CleanerStep == CleanRecords \/ SkipRecords \/ CleanMemory \/ CleanFiles

Tick ==
  /\ clock < MaxClock /\ clock' = clock + 1
  /\ UNCHANGED <<record, memory, file, query, cleaner, request, reply, errors>>

----------------------------------------------------------------------------
(* The client's request for the result *)

Respond(answered) == reply' = answered /\ request' = "none"

\* The record is read; a failed one carries its error, a completed one needs the data.
HandleRequest ==
  /\ request = "none" /\ record # "none"
  /\ CASE record = "removed" -> Respond("unknown")
       [] record = "COMPLETED" -> request' = "data" /\ UNCHANGED reply
       [] OTHER -> Respond(record)
  /\ UNCHANGED <<clock, record, memory, file, query, cleaner, errors>>

\* The data in memory, or the path of the file; without both the answer has no data.
GetCachedData ==
  /\ request = "data"
  /\ IF memory # None THEN Respond("data")
     ELSE IF file = None THEN Respond("empty")
     ELSE request' = "file" /\ UNCHANGED reply
  /\ UNCHANGED <<clock, record, memory, file, query, cleaner, errors>>

\* A file that is gone or not whole is an error (status 400).
ReadFile ==
  /\ request = "file"
  /\ Respond(IF file >= 0 THEN "data" ELSE "error")
  /\ UNCHANGED <<clock, record, memory, file, query, cleaner, errors>>

RequestStep == HandleRequest \/ GetCachedData \/ ReadFile

ResultsNext ==
  \/ HandleQuery \/ HandleLocalStore \/ QueryStep \/ CrashNode \/ CleanerStep \/ Tick \/ RequestStep

----------------------------------------------------------------------------
(* Properties *)

ResultsTypeOK ==
  /\ clock \in 0..MaxClock
  /\ record \in {"none", "PENDING", "COMPLETED", "FAILED", "removed"}
  /\ memory \in {None} \cup 0..MaxClock
  /\ file \in {None, Torn} \cup 0..MaxClock
  /\ cleaner \in {"records", "memory", "files"}
  /\ request \in {"none", "data", "file"}

\* A day long a completed operation has its data, also after a restart
\* (query-command.js:120-145, operation-id-cleaner-command.js:27-54).
CompletedHasData ==
  (record = "COMPLETED" /\ clock <= Lifetime) => (memory # None \/ file >= 0)

\* A client that keeps asking gets the data or the failure within the day, unless the
\* node crashed during the query or could not even write the failure
\* (result-http-api-controller-v1.js:16-100).
ResultIsServed ==
  query \in {"queued", "store"} ~>
    (reply \in {"data", "FAILED"} \/ clock > Lifetime \/ query = "stuck"
      \/ (query = "lost" /\ record = "PENDING"))

=============================================================================
