--------------------------- MODULE CommandExecutor ---------------------------
(***************************************************************************)
(* The command executor of a node: commands kept as rows of the database   *)
(* and queued in memory, their results (children, repeat, retry, error),   *)
(* blocking commands, and what is left of them after a crash.              *)
(*                                                                         *)
(* Two kinds of work go through it.  The permanent event listener command  *)
(* adds, again and again, one blocking command per blockchain.  A job is a *)
(* sequence of commands, each the child of the one before it; its first    *)
(* command, added by a controller, has no parent.                          *)
(*                                                                         *)
(* A command is dispatched as soon as it is queued or later: delays,       *)
(* periods and priorities only choose between behaviours of this module.   *)
(* No command sets a deadline, so none expires.                            *)
(***************************************************************************)
EXTENDS Integers, FiniteSets

CONSTANTS
  Chains,           \* blockchains, one blocking listener each
  Jobs,             \* sequences added by controllers
  Steps,            \* commands of a sequence
  ListenerRetries,  \* retries of the blocking command (1000 in the code)
  JobRetries,       \* retries of the first command of a sequence
  MaxCommands,      \* bound: command rows
  MaxCrashes,       \* bound: crashes of the process
  MaxErrors         \* bound: exceptions thrown and database statements that fail

ASSUME WorkAssumption == Chains \cap Jobs = {} /\ "free" \notin Chains \cup Jobs
ASSUME StepsAssumption == Steps \in Nat \ {0}
ASSUME RetriesAssumption == ListenerRetries \in Nat /\ JobRetries \in Nat
ASSUME BoundsAssumption == MaxCommands \in Nat /\ MaxCrashes \in Nat /\ MaxErrors \in Nat

VARIABLES
  phase,     \* of the process: "down", "paused" (queue not resumed yet) or "running"
  poller,    \* the permanent command: "off", "queued", "polling" or "failed"
  toAdd,     \* blockchains whose command the poller has still to add
  work,      \* the chain or job command c is for, or "free"
  position,  \* place of command c in its job's sequence, 0 for a listener
  parent,    \* parentId of row c, 0 when it has none
  status,    \* status of row c, "none" before it is inserted
  retries,   \* retries of row c
  stage,     \* where the copy of command c in memory is, "none" when there is none
  removed,   \* rows the commands cleaner has deleted
  lost,      \* commands this run of the process dropped with their rows unfinalized
  crashes, errors

vars == <<phase, poller, toAdd, work, position, parent, status, retries, stage,
          removed, lost, crashes, errors>>
memory == <<phase, poller, toAdd, lost>>
faults == <<crashes, errors>>

Commands == 1 .. MaxCommands

\* A blocking command looks for its twins when it is added, when it repeats itself, and
\* when _handleError adds it again
Adding == {"add", "repeat", "readd"}
Stages == Adding \cup
  {"none", "insert", "queued", "executing", "inserted", "push", "handling", "recover"}
UnfinalizedStatuses == {"PENDING", "STARTED", "REPEATING"}

TypeOK ==
  /\ phase \in {"down", "paused", "running"}
  /\ poller \in {"off", "queued", "polling", "failed"}
  /\ toAdd \subseteq Chains
  /\ work \in [Commands -> Chains \cup Jobs \cup {"free"}]
  /\ position \in [Commands -> 0 .. Steps]
  /\ parent \in [Commands -> 0 .. MaxCommands]
  /\ status \in [Commands -> UnfinalizedStatuses \cup {"none", "COMPLETED", "FAILED"}]
  /\ retries \in [Commands -> Nat]
  /\ stage \in [Commands -> Stages]
  /\ removed \subseteq Commands /\ lost \subseteq Commands
  /\ crashes \in 0 .. MaxCrashes /\ errors \in 0 .. MaxErrors

Init ==
  /\ phase = "down" /\ poller = "off" /\ toAdd = {}
  /\ work = [c \in Commands |-> "free"]
  /\ position = [c \in Commands |-> 0]
  /\ parent = [c \in Commands |-> 0]
  /\ status = [c \in Commands |-> "none"]
  /\ retries = [c \in Commands |-> 0]
  /\ stage = [c \in Commands |-> "none"]
  /\ removed = {} /\ lost = {}
  /\ crashes = 0 /\ errors = 0

IsBlocking(c) == work[c] \in Chains
Unfinalized(c) == status[c] \in UnfinalizedStatuses /\ c \notin removed
Goto(c, s) == stage' = [stage EXCEPT ![c] = s]
SetStatus(c, s) == status' = [status EXCEPT ![c] = s]

\* A row number is new, or that of a finalized listener command, to which nothing refers
Unused == {c \in Commands : /\ stage[c] = "none"
                            /\ \/ work[c] = "free"
                               \/ IsBlocking(c) /\ ~Unfinalized(c)}

\* add(command) for a command that is not in the database yet.  A blocking one first
\* looks for unfinalized rows.
NewCommand(c, w, pos, par, r, s, st) ==
  /\ c \in Unused /\ \A d \in Unused : c <= d
  /\ work' = [work EXCEPT ![c] = w]
  /\ position' = [position EXCEPT ![c] = pos]
  /\ parent' = [parent EXCEPT ![c] = par]
  /\ retries' = [retries EXCEPT ![c] = r]
  /\ status' = [status EXCEPT ![c] = s]
  /\ stage' = st

-----------------------------------------------------------------------------
(* Start and crash of the process                                          *)

\* Mutants of Replayed: a child is replayed whatever became of its parent, or only the
\* commands that had been started are
ReplayedOrphans ==
  {c \in Commands : Unfinalized(c) /\ (IsBlocking(c) \/ parent[c] # 0)}
ReplayedStarted ==
  {c \in Commands : c \notin removed /\ status[c] = "STARTED"
                     /\ (IsBlocking(c) \/ parent[c] # 0)}

\* The rows replayOldCommands adds to the queue
Replayed ==
  {c \in Commands :
     /\ Unfinalized(c)
     /\ \/ IsBlocking(c)
        \/ /\ parent[c] # 0
           /\ parent[c] \in removed \/ status[parent[c]] = "COMPLETED"}

\* addDefaultCommands replaces the rows of the permanent commands; replayOldCommands
\* reads the database while the queue is paused
Boot ==
  /\ phase = "down"
  /\ phase' = "paused" /\ poller' = "queued"
  /\ stage' = [c \in Commands |->
                 IF c \notin Replayed THEN "none"
                 ELSE IF IsBlocking(c) THEN "add" ELSE "queued"]
  /\ UNCHANGED <<toAdd, lost, work, position, parent, status, retries, removed, faults>>

ResumeQueue ==
  /\ phase = "paused"
  /\ phase' = "running"
  /\ UNCHANGED <<poller, toAdd, lost, work, position, parent, status, retries, stage, removed,
                 faults>>

\* Everything in memory is gone, the commands that were not inserted yet included.  The
\* process also exits when the update of startedAt or a replayed add fails.
Crash ==
  /\ phase # "down" /\ crashes < MaxCrashes
  /\ crashes' = crashes + 1
  /\ phase' = "down" /\ poller' = "off" /\ toAdd' = {} /\ lost' = {}
  /\ stage' = [c \in Commands |-> "none"]
  /\ work' = [c \in Commands |-> IF status[c] = "none" THEN "free" ELSE work[c]]
  /\ UNCHANGED <<position, parent, status, retries, removed, errors>>

-----------------------------------------------------------------------------
(* Adding commands                                                         *)

\* EventListenerCommand.execute: one blocking command per chain, all added at once
Poll ==
  /\ phase = "running" /\ poller = "queued"
  /\ poller' = "polling" /\ toAdd' = Chains
  /\ UNCHANGED <<phase, lost, work, position, parent, status, retries, stage, removed, faults>>

AddListener(b) ==
  /\ b \in toAdd
  /\ toAdd' = toAdd \ {b}
  /\ \E c \in Commands :
       NewCommand(c, b, 0, 0, ListenerRetries, "none", [stage EXCEPT ![c] = "add"])
  /\ UNCHANGED <<phase, poller, lost, removed, faults>>

\* Commands of which add has not returned to the poller
BeingAdded == {c \in Commands : IsBlocking(c) /\ status[c] = "none"}

\* The permanent command repeats once all its commands were added or skipped.  After a
\* failure it repeats as well (recover), a period later: by then the other commands it
\* was adding are through with the database.
PollEnds ==
  /\ poller \in {"polling", "failed"} /\ toAdd = {} /\ BeingAdded = {}
  /\ poller' = "queued"
  /\ UNCHANGED <<phase, toAdd, lost, work, position, parent, status, retries, stage, removed,
                 faults>>

\* The query or the insertion of one of its commands fails, and with it the permanent
\* command; the other commands are added all the same
AddFails(c) ==
  /\ c \in BeingAdded /\ stage[c] \in {"add", "insert"} /\ errors < MaxErrors
  /\ errors' = errors + 1
  /\ Goto(c, "none") /\ work' = [work EXCEPT ![c] = "free"]
  /\ poller' = IF poller = "polling" THEN "failed" ELSE poller
  /\ UNCHANGED <<phase, toAdd, lost, position, parent, status, retries, removed, crashes>>

\* The row of the permanent command cannot be marked STARTED or REPEATING; when what
\* follows an exception fails too the permanent command is gone
PollFails ==
  /\ errors < MaxErrors
  /\ errors' = errors + 1
  /\ \/ phase = "running" /\ poller = "queued" /\ poller' = "failed"
     \/ poller = "polling" /\ toAdd = {} /\ BeingAdded = {} /\ poller' = "failed"
     \/ poller = "failed" /\ poller' = "off"
  /\ UNCHANGED <<phase, toAdd, lost, work, position, parent, status, retries, stage, removed,
                 crashes>>

Twin(c, d) == d # c /\ work[d] = work[c] /\ Unfinalized(d)

\* Mutant of CheckBlocking: the row of the command itself is not excepted
CheckBlockingSelf(c) ==
  /\ stage[c] \in Adding
  /\ IF \E d \in Commands : work[d] = work[c] /\ Unfinalized(d)
     THEN /\ Goto(c, "none")
          /\ work' = IF status[c] = "none" THEN [work EXCEPT ![c] = "free"] ELSE work
     ELSE Goto(c, "insert") /\ work' = work
  /\ UNCHANGED <<memory, position, parent, status, retries, removed, faults>>

\* Mutant of CheckBlocking: the unfinalized rows are not looked for
CheckNothing(c) ==
  /\ stage[c] \in Adding
  /\ Goto(c, "insert")
  /\ UNCHANGED <<memory, work, position, parent, status, retries, removed, faults>>

\* The first half of add: a blocking command with an unfinalized twin is dropped
CheckBlocking(c) ==
  /\ stage[c] \in Adding
  /\ IF \E d \in Commands : Twin(c, d)
     THEN /\ Goto(c, "none")
          /\ work' = IF status[c] = "none" THEN [work EXCEPT ![c] = "free"] ELSE work
     ELSE Goto(c, "insert") /\ work' = work
  /\ UNCHANGED <<memory, position, parent, status, retries, removed, faults>>

\* The second half: insert the row if there is none, and queue the command
InsertAndQueue(c) ==
  /\ stage[c] = "insert"
  /\ IF status[c] = "none" THEN SetStatus(c, "PENDING") ELSE status' = status
  /\ Goto(c, "queued")
  /\ UNCHANGED <<memory, work, position, parent, retries, removed, faults>>

\* A controller adds the first command of a job
Submit(j) ==
  /\ phase # "down"
  /\ \A c \in Commands : work[c] # j
  /\ \E c \in Commands :
       NewCommand(c, j, 1, 0, JobRetries, "PENDING", [stage EXCEPT ![c] = "queued"])
  /\ UNCHANGED <<memory, removed, faults>>

-----------------------------------------------------------------------------
(* Executing a command                                                     *)

Start(c) ==
  /\ phase = "running" /\ stage[c] = "queued"
  /\ SetStatus(c, "STARTED") /\ Goto(c, "executing")
  /\ UNCHANGED <<memory, work, position, parent, retries, removed, faults>>

\* A listener whose database transaction was rolled back
Repeat(c) ==
  /\ stage[c] = "executing" /\ IsBlocking(c)
  /\ SetStatus(c, "REPEATING") /\ Goto(c, "repeat")
  /\ UNCHANGED <<memory, work, position, parent, retries, removed, faults>>

\* A result without commands: the end of a sequence, or of one poll
Finish(c) ==
  /\ stage[c] = "executing" /\ (IsBlocking(c) \/ position[c] = Steps)
  /\ SetStatus(c, "COMPLETED") /\ Goto(c, "none")
  /\ UNCHANGED <<memory, work, position, parent, retries, removed, faults>>

\* A result with the next command of the sequence: its row is inserted first, ...
InsertChild(c) ==
  /\ stage[c] = "executing" /\ ~IsBlocking(c) /\ position[c] < Steps
  /\ \E d \in Commands :
       NewCommand(d, work[c], position[c] + 1, c, 0, "PENDING",
                  [stage EXCEPT ![c] = "inserted"])
  /\ UNCHANGED <<memory, removed, faults>>

\* ... then the command itself is marked, ...
Complete(c) ==
  /\ stage[c] = "inserted"
  /\ SetStatus(c, "COMPLETED") /\ Goto(c, "push")
  /\ UNCHANGED <<memory, work, position, parent, retries, removed, faults>>

\* The child inserted by this execution of command c
IsLatestChild(d, c) == parent[d] = c /\ \A e \in Commands : parent[e] = c => e <= d

\* ... and the child is queued
PushChild(c) ==
  /\ stage[c] = "push"
  /\ \E d \in Commands :
       IsLatestChild(d, c) /\ stage' = [stage EXCEPT ![c] = "none", ![d] = "queued"]
  /\ UNCHANGED <<memory, work, position, parent, status, retries, removed, faults>>

\* _handleRetry; without retries left the command is completed and has no children.
\* The commands that ask for it come first in their sequence.
Retry(c) ==
  /\ stage[c] = "executing" /\ position[c] = 1
  /\ IF retries[c] > 1
     THEN /\ retries' = [retries EXCEPT ![c] = @ - 1]
          /\ SetStatus(c, "PENDING") /\ Goto(c, "queued")
     ELSE SetStatus(c, "COMPLETED") /\ Goto(c, "none") /\ retries' = retries
  /\ UNCHANGED <<memory, work, position, parent, removed, faults>>

\* An exception: of the handler, of the database when the command is marked STARTED,
\* between inserting the children and marking the command, or when a listener that
\* repeats itself looks for its twins
Throw(c) ==
  /\ \/ stage[c] \in {"executing", "inserted", "repeat"}
     \/ stage[c] = "queued" /\ phase = "running"
  /\ errors < MaxErrors
  /\ errors' = errors + 1 /\ Goto(c, "handling")
  /\ UNCHANGED <<memory, work, position, parent, status, retries, removed, crashes>>

\* _handleError requeues the command, whose row stays as it is, or marks it FAILED
HandleError(c) ==
  /\ stage[c] = "handling"
  /\ IF retries[c] > 0
     THEN /\ retries' = [retries EXCEPT ![c] = @ - 1]
          /\ Goto(c, IF IsBlocking(c) THEN "readd" ELSE "queued") /\ status' = status
     ELSE SetStatus(c, "FAILED") /\ Goto(c, "recover") /\ retries' = retries
  /\ UNCHANGED <<memory, work, position, parent, removed, faults>>

\* A statement of _handleError fails, or the query of the add that ends it: a warning is
\* logged, the command is gone and its row stays unfinalized
HandleErrorFails(c) ==
  /\ stage[c] \in {"handling", "readd"} /\ errors < MaxErrors
  /\ errors' = errors + 1
  /\ Goto(c, "none") /\ lost' = lost \cup {c}
  /\ UNCHANGED <<phase, poller, toAdd, work, position, parent, status, retries, removed, crashes>>

\* handler.recover: a listener asks to be repeated, other commands end
Recover(c) ==
  /\ stage[c] = "recover"
  /\ IF IsBlocking(c)
     THEN SetStatus(c, "REPEATING") /\ Goto(c, "readd")
     ELSE Goto(c, "none") /\ status' = status
  /\ UNCHANGED <<memory, work, position, parent, retries, removed, faults>>

\* A failing recover, or a failing update to REPEATING, is only logged
RecoverFails(c) ==
  /\ stage[c] = "recover" /\ errors < MaxErrors
  /\ errors' = errors + 1 /\ Goto(c, "none")
  /\ UNCHANGED <<memory, work, position, parent, status, retries, removed, crashes>>

\* CommandsCleanerCommand deletes the rows of finalized commands
Clean(c) ==
  /\ phase = "running"
  /\ work[c] \in Jobs /\ status[c] \in {"COMPLETED", "FAILED"} /\ stage[c] = "none"
  /\ removed' = removed \cup {c}
  /\ UNCHANGED <<memory, work, position, parent, status, retries, stage, faults>>

Execute(c) ==
  \/ Start(c)
  \/ Repeat(c) \/ Finish(c)
  \/ InsertChild(c) \/ Complete(c) \/ PushChild(c)
  \/ Retry(c) \/ HandleError(c) \/ Recover(c)

Fail(c) == Throw(c) \/ HandleErrorFails(c) \/ RecoverFails(c) \/ AddFails(c)

Next ==
  \/ Boot \/ ResumeQueue \/ Crash
  \/ Poll \/ PollEnds \/ PollFails
  \/ \E b \in Chains : AddListener(b)
  \/ \E j \in Jobs : Submit(j)
  \/ \E c \in Commands :
       CheckBlocking(c) \/ InsertAndQueue(c) \/ Execute(c) \/ Fail(c) \/ Clean(c)

Spec == Init /\ [][Next]_vars

\* The process is restarted, and everything queued is executed
Fairness ==
  /\ WF_vars(Boot) /\ WF_vars(ResumeQueue) /\ WF_vars(Poll) /\ WF_vars(PollEnds)
  /\ \A b \in Chains : WF_vars(AddListener(b))
  /\ \A c \in Commands :
       WF_vars(CheckBlocking(c)) /\ WF_vars(InsertAndQueue(c)) /\ WF_vars(Execute(c))

FairSpec == Spec /\ Fairness

-----------------------------------------------------------------------------
(* Properties                                                              *)

Live(c) == stage[c] \in {"queued", "executing"}
Listener(b) == {c \in Commands : work[c] = b}

\* "Check the db to see if there are unfinalized instances of the same command"
\* (command-executor.js:290): never two listeners of one chain.
OneListener ==
  \A b \in Chains : \A c, d \in Listener(b) :
    (Live(c) /\ Live(d)) \/ (Unfinalized(c) /\ Unfinalized(d)) => c = d

\* The same while the retries of a listener cannot be used up.
OneListenerWithinRetries == errors <= ListenerRetries => OneListener

\* An unfinalized blocking row keeps every other instance away (command-executor.js:302-307),
\* so it must be the row of a command that is still in memory.  It is, unless the process
\* met two failures: one of the command, and one while that was handled.
BlockingRowIsAlive ==
  (phase # "down" /\ errors <= ListenerRetries) =>
     \A c \in Commands : IsBlocking(c) /\ Unfinalized(c) =>
       stage[c] # "none" \/ (c \in lost /\ errors >= 2)

\* Until the next restart chain b is polled no more: the permanent command is gone, or a
\* row that keeps other listeners away is
Abandoned(b) == phase # "down" /\ (poller = "off" \/ \E c \in Listener(b) : c \in lost)

\* Every chain is polled again and again, whatever crashes and failures happened ("Recover
\* system from failure", blockchain-event-listener-command.js:534), unless handling a
\* failure failed itself and the process was not restarted since.
ListenersKeepRunning ==
  \A b \in Chains : []<>(Abandoned(b) \/ \E c \in Listener(b) : stage[c] = "executing")

\* A command in memory has no parent, or one that is COMPLETED or gone: a child whose
\* parent will be executed again is left alone (command-executor.js:489-491).
ChildAfterParent ==
  \A c \in Commands :
    (stage[c] # "none" /\ parent[c] # 0) =>
      parent[c] \in removed \/ status[parent[c]] = "COMPLETED"

\* A single crash or exception makes no command of a sequence run twice to its end, and
\* no two commands of a sequence run at once.
CompletedOnce ==
  crashes + errors <= 1 =>
    \A j \in Jobs :
      /\ \A k \in 1 .. Steps :
           Cardinality({c \in Commands : /\ work[c] = j /\ position[c] = k
                                         /\ status[c] = "COMPLETED"}) <= 1
      /\ Cardinality({c \in Commands : work[c] = j /\ stage[c] # "none"}) <= 1

\* Job j has come to its end: a command failed, or completed with nothing after it
Ended(j) ==
  \E c \in Commands :
    /\ work[c] = j
    /\ \/ status[c] = "FAILED"
       \/ /\ status[c] = "COMPLETED"
          /\ position[c] = Steps \/ \A d \in Commands : parent[d] # c

\* Job j got past its first command: the row of that command says COMPLETED, so that its
\* child has a row, or a later command was started
Begun(j) ==
  \E c \in Commands :
    /\ work[c] = j
    /\ IF position[c] = 1 THEN stage[c] = "push" ELSE status[c] # "PENDING"

\* A sequence that got past its first command reaches its end in spite of crashes, unless
\* handling a failure of one of its commands failed itself and the process was not
\* restarted since: the replay takes up what was lost.
StartedJobsEnd ==
  \A j \in Jobs : Begun(j) ~> Ended(j) \/ \E c \in lost : work[c] = j

-----------------------------------------------------------------------------
(* The inductive invariants behind ChildAfterParent, and behind            *)
(* OneListenerWithinRetries and BlockingRowIsAlive                         *)

Blocking == {c \in Commands : IsBlocking(c)}

\* What is common to both kinds of work
RowsInUse ==
  /\ phase = "down" => poller = "off" /\ lost = {} /\ \A c \in Commands : stage[c] = "none"
  /\ toAdd # {} => phase # "down" /\ poller # "queued"
  /\ \A c \in Commands :
       /\ work[c] = "free" => stage[c] = "none" /\ status[c] = "none"
       /\ work[c] \in Jobs => status[c] # "none"
       /\ parent[c] # 0 => work[c] \in Jobs /\ work[parent[c]] \in Jobs
       /\ c \in removed => /\ work[c] \in Jobs /\ stage[c] = "none"
                            /\ status[c] \in {"COMPLETED", "FAILED"}
       /\ IsBlocking(c) => stage[c] \notin {"inserted", "push"} /\ position[c] = 0
       /\ stage[c] \in Adding => IsBlocking(c)
       /\ stage[c] \in {"handling", "readd", "recover"} => errors >= 1
       /\ c \in lost => errors >= 2 /\ stage[c] = "none" /\ Unfinalized(c)

\* A command on its way to an end has an unfinalized row: a completed one is not executed
\* again, and only a completed one pushes a child
CompletedIsLeft ==
  \A c \in Commands :
    /\ stage[c] = "push" => status[c] = "COMPLETED"
    /\ stage[c] = "recover" => status[c] = "FAILED"
    /\ stage[c] \in {"add", "insert"} => status[c] = "none" \/ Unfinalized(c)
    /\ stage[c] \notin {"none", "push", "recover", "add", "insert"} => Unfinalized(c)

\* A child is a row nobody has touched until its parent is through with it
UntouchedTillPushed ==
  \A c \in Commands : parent[c] # 0 =>
    \/ parent[c] \in removed
    \/ status[parent[c]] = "COMPLETED" /\ stage[parent[c]] = "none"
    \/ status[c] = "PENDING" /\ stage[c] = "none" /\ c \notin lost

\* What ChildAfterParent needs to survive crashes and replays: a command that may run
\* again has only untouched children, and one that is through never runs again.
Lineage == TypeOK /\ RowsInUse /\ CompletedIsLeft /\ UntouchedTillPushed

\* While an error never uses up the last retry no listener is FAILED
RetriesLeft ==
  \A c \in Blocking :
    /\ retries[c] >= ListenerRetries - errors
    /\ stage[c] = "handling" => retries[c] > ListenerRetries - errors
    /\ status[c] # "FAILED" /\ stage[c] # "recover"

\* At most one listener of a chain is on its way into the database, and none while
\* there is one that is not finalized
OneAdder ==
  \A c \in Blocking : status[c] = "none" =>
    /\ phase # "down" /\ poller # "queued" /\ work[c] \notin toAdd
    /\ stage[c] \in {"add", "insert"}
    /\ \A d \in Commands : work[d] = work[c] =>
         /\ status[d] = "none" => c = d
         /\ stage[c] = "insert" => ~Unfinalized(d)

OneRow ==
  \A c \in Blocking : \A d \in Commands :
    work[d] = work[c] /\ Unfinalized(c) /\ Unfinalized(d) => c = d

\* A row of a listener is unfinalized exactly as long as its command is in memory, but
\* for those whose failure could not be handled
RowIffInMemory ==
  \A c \in Blocking : status[c] # "none" =>
    /\ stage[c] # "none" => Unfinalized(c)
    /\ phase # "down" /\ Unfinalized(c) => stage[c] # "none" \/ c \in lost

\* A chain has one owner, the row that keeps other listeners away, and the owner is in
\* memory or lost: what BlockingRowIsAlive needs to survive crashes and replays.
Owned == RetriesLeft /\ OneAdder /\ OneRow /\ RowIffInMemory
OneOwner == errors <= ListenerRetries => Owned

=============================================================================
