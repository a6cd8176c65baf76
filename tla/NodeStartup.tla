----------------------------- MODULE NodeStartup ------------------------------
(***************************************************************************)
(* The start of the node, from the constructor of OTNode to "Node is up    *)
(* and running": the user's configuration is migrated, the modules are     *)
(* initialized concurrently (the database with its migrations, the triple  *)
(* store with its repositories, the network with its key, the two that     *)
(* need an RPC endpoint), and then one service after the other.            *)
(*                                                                         *)
(* A failure ends the process with an exit code that makes the supervisor  *)
(* start it again, at whatever the other modules are doing; what was       *)
(* written stays.  External: umzug, which runs a migration and then writes *)
(* its row, and the supervisor.                                            *)
(***************************************************************************)
EXTENDS FiniteSets, Integers

CONSTANTS
  LastMigration,  \* the migrations are 1..LastMigration
  Bare,           \* those that fail when what they change is changed already
  MaxConnects,    \* TRIPLE_STORE_CONNECT_MAX_RETRIES
  MaxFailures     \* bound: crashes and failed calls

VARIABLES
  boot,          \* the stage that start has reached, or "down"
  module,        \* where the initialization of each module is
  config, marked,  \* the user's configuration file; its migration is marked as done
  loaded,        \* the configuration the process has read
  applied, logged, \* migrations: changed the schema, have their row
  unlogged,      \* history: reverted by a process that died before it removed the row
  implementation,  \* of the triple store
  attempts,      \* failed connections to the triple store
  repositories,  \* of the triple store
  paranet,       \* the paranet has its row
  key,           \* the file with the private key of the network
  paused,        \* the queue of the command executor
  waiting,       \* a request was accepted and its command is not run yet
  failures

startupVars == <<boot, module, config, marked, loaded, applied, logged, unlogged, implementation,
                 attempts, repositories, paranet, key, paused, waiting, failures>>
fileVars == <<config, marked, loaded>>
databaseVars == <<applied, logged>>
storeVars == <<implementation, attempts, repositories>>
laterVars == <<paranet, paused>>

Migrations == 1..LastMigration

ASSUME StartupAssumption ==
  LastMigration \in Nat /\ Bare \subseteq Migrations /\ MaxConnects \in Nat /\ MaxFailures \in Nat

\* OtFuseki does what OtBlazegraph does.
Implementations == {"OtBlazegraph", "GraphDB"}

Modules == {"repository", "tripleStore", "network", "blockchain", "blockchainEvents"}

\* The modules whose failure ends the node.  The list has "blockchainEventsService", which
\* is not the name of a module.
RequiredModules == Modules \ {"blockchainEvents"}

\* A new node, or one that is updated
StartupInit ==
  /\ boot = "down" /\ module = [m \in Modules |-> "start"]
  /\ config \in {"old", "new"} /\ marked = FALSE /\ loaded = config
  /\ logged \in {1..k : k \in 0..LastMigration} /\ applied = logged /\ unlogged = {}
  /\ implementation \in Implementations
  /\ attempts = 0 /\ repositories = {} /\ paranet = FALSE /\ key = "none"
  /\ paused = FALSE /\ waiting = FALSE /\ failures = 0

Fails == failures < MaxFailures /\ failures' = failures + 1
Works == UNCHANGED failures

LastLogged == CHOOSE k \in logged \cup {0} : \A j \in logged : j <= k
FirstPending == CHOOSE k \in Migrations \ logged : \A j \in Migrations \ logged : k <= j

\* The process ends; the commands of accepted requests are not replayed.
Die ==
  /\ boot' = "down" /\ waiting' = FALSE
  /\ unlogged' = IF module["repository"] = "reverted" THEN unlogged \cup {LastLogged} ELSE unlogged
Stop == Die /\ UNCHANGED module
GoesOn == UNCHANGED <<boot, waiting, unlogged>>

----------------------------------------------------------------------------
(* The configuration *)

\* A file that is not whole cannot be parsed.
LoadConfiguration ==
  /\ boot = "down" /\ config # "torn"
  /\ boot' = IF marked THEN "modules" ELSE "configuration"
  /\ loaded' = config
  /\ module' = [m \in Modules |-> "start"] /\ attempts' = 0 /\ paused' = FALSE
  /\ UNCHANGED <<config, marked, databaseVars, unlogged, implementation, repositories, paranet,
                 key, waiting, failures>>

\* The triple store repository dkg is added to the file of the user; the configuration
\* that was read stays as it is.  An error is logged and the start goes on.
MigrateConfiguration ==
  /\ boot = "configuration"
  /\ \/ boot' = "rewriting" /\ config' = "torn" /\ Works
     \/ boot' = "modules" /\ UNCHANGED config /\ Fails
  /\ UNCHANGED <<module, marked, loaded, databaseVars, unlogged, storeVars, laterVars, key, waiting>>

WriteConfiguration ==
  /\ boot = "rewriting"
  /\ \/ boot' = "marking" /\ config' = "new" /\ Works
     \/ boot' = "modules" /\ UNCHANGED config /\ Fails
  /\ UNCHANGED <<module, marked, loaded, databaseVars, unlogged, storeVars, laterVars, key, waiting>>

MarkMigration ==
  /\ boot = "marking" /\ boot' = "modules"
  /\ \/ marked' = TRUE /\ Works
     \/ UNCHANGED marked /\ Fails
  /\ UNCHANGED <<module, config, loaded, databaseVars, unlogged, storeVars, laterVars, key, waiting>>

----------------------------------------------------------------------------
(* The modules *)

At(m, place) == boot = "modules" /\ module[m] = place
Goto(m, place) == module' = [module EXCEPT ![m] = place] /\ GoesOn

CreateDatabase ==
  /\ At("repository", "start")
  /\ \/ Goto("repository", "migrate") /\ Works
     \/ Stop /\ Fails
  /\ UNCHANGED <<fileVars, databaseVars, storeVars, laterVars, key>>

\* The pending migrations, each followed by its row.
MigrateUp ==
  /\ At("repository", "migrate")
  /\ \/ logged = Migrations /\ Goto("repository", "ready") /\ UNCHANGED applied /\ Works
     \/ /\ logged # Migrations /\ FirstPending \notin applied \cap Bare
        /\ Goto("repository", "log") /\ applied' = applied \cup {FirstPending} /\ Works
     \/ /\ logged # Migrations /\ FirstPending \in applied \cap Bare
        /\ Goto("repository", "revert") /\ UNCHANGED applied /\ Works
     \/ Goto("repository", "revert") /\ UNCHANGED applied /\ Fails
  /\ UNCHANGED <<fileVars, logged, storeVars, laterVars, key>>

LogMigration ==
  /\ At("repository", "log")
  /\ \/ Goto("repository", "migrate") /\ logged' = logged \cup {FirstPending} /\ Works
     \/ Goto("repository", "revert") /\ UNCHANGED logged /\ Fails
  /\ UNCHANGED <<fileVars, applied, storeVars, laterVars, key>>

\* After a failure the last migration that has a row is reverted, and then its row removed.
MigrateDown ==
  /\ At("repository", "revert")
  /\ \/ LastLogged \in {0} \cup (Bare \ applied) /\ Stop /\ UNCHANGED applied /\ Works
     \/ /\ logged # {} /\ LastLogged \notin Bare \ applied
        /\ Goto("repository", "reverted") /\ applied' = applied \ {LastLogged} /\ Works
     \/ Stop /\ UNCHANGED applied /\ Fails
  /\ UNCHANGED <<fileVars, logged, storeVars, laterVars, key>>

\* Mutant of RemoveLog: the error is not thrown again
RemoveLogOnly ==
  /\ At("repository", "reverted")
  /\ Goto("repository", "ready") /\ logged' = logged \ {LastLogged}
  /\ UNCHANGED <<fileVars, applied, storeVars, laterVars, key, failures>>

RemoveLog ==
  /\ At("repository", "reverted")
  /\ \/ /\ boot' = "down" /\ waiting' = FALSE /\ UNCHANGED unlogged
        /\ logged' = logged \ {LastLogged} /\ Works
     \/ Die /\ UNCHANGED logged /\ Fails
  /\ UNCHANGED <<module, fileVars, applied, storeVars, laterVars, key>>

\* The configuration of an old node has no repository dkg.
ValidateTripleStore ==
  /\ At("tripleStore", "start")
  /\ IF loaded = "old" THEN Stop ELSE Goto("tripleStore", "connect")
  /\ UNCHANGED <<fileVars, databaseVars, storeVars, laterVars, key, failures>>

\* With the last retry the process ends, whatever came of it.
EnsureConnections ==
  /\ At("tripleStore", "connect")
  /\ \/ attempts = MaxConnects /\ Stop /\ UNCHANGED attempts /\ Works
     \/ attempts < MaxConnects /\ Goto("tripleStore", "create") /\ UNCHANGED attempts /\ Works
     \/ attempts < MaxConnects /\ attempts' = attempts + 1 /\ UNCHANGED module /\ GoesOn /\ Fails
  /\ UNCHANGED <<fileVars, databaseVars, implementation, repositories, laterVars, key>>

\* Mutant of RepositoryExists: it is not asked
NeverExists(answer) == answer = FALSE /\ Works

\* Blazegraph and Fuseki take a failed query for a missing repository.
RepositoryExists(answer) ==
  \/ answer = ("dkg" \in repositories) /\ Works
  \/ answer = FALSE /\ implementation # "GraphDB" /\ Fails

LookForRepository ==
  /\ At("tripleStore", "create")
  /\ \/ \E exists \in BOOLEAN :
          RepositoryExists(exists) /\ Goto("tripleStore", IF exists THEN "ready" ELSE "post")
     \/ implementation = "GraphDB" /\ Stop /\ Fails
  /\ UNCHANGED <<fileVars, databaseVars, storeVars, laterVars, key>>

\* What exists cannot be created; the answer to a creation may be lost.
Post(succeeds, otherwise) ==
  \/ "dkg" \notin repositories /\ succeeds /\ repositories' = repositories \cup {"dkg"} /\ Works
  \/ "dkg" \in repositories /\ otherwise /\ UNCHANGED repositories /\ Works
  \/ otherwise /\ repositories' \in {repositories, repositories \cup {"dkg"}} /\ Fails

CreateRepository ==
  /\ implementation # "GraphDB" /\ At("tripleStore", "post")
  /\ Post(Goto("tripleStore", "ready"), Stop)
  /\ UNCHANGED <<fileVars, databaseVars, implementation, attempts, laterVars, key>>

\* With GraphDB a failed creation is tried once more, with another configuration.
CreateGraphdbRepository ==
  /\ implementation = "GraphDB"
  /\ \/ /\ At("tripleStore", "post")
        /\ Post(Goto("tripleStore", "ready"), Goto("tripleStore", "postAgain"))
     \/ At("tripleStore", "postAgain") /\ Post(Goto("tripleStore", "ready"), Stop)
  /\ UNCHANGED <<fileVars, databaseVars, implementation, attempts, laterVars, key>>

\* Without a key, or with an empty file, a new one is made; the file is first empty.
ReadPrivateKey ==
  /\ At("network", "start")
  /\ \/ key = "whole" /\ Goto("network", "ready") /\ UNCHANGED key /\ Works
     \/ key # "whole" /\ Goto("network", "save") /\ key' = "empty" /\ Works
     \/ Stop /\ UNCHANGED key /\ Fails
  /\ UNCHANGED <<fileVars, databaseVars, storeVars, laterVars>>

SavePrivateKey ==
  /\ At("network", "save")
  /\ \/ Goto("network", "ready") /\ key' = "whole" /\ Works
     \/ Stop /\ UNCHANGED key /\ Fails
  /\ UNCHANGED <<fileVars, databaseVars, storeVars, laterVars>>

\* A module that needs an RPC endpoint
InitializeChain(m) ==
  /\ At(m, "start")
  /\ \/ Goto(m, "ready") /\ Works
     \/ Fails /\ IF m \in RequiredModules THEN Stop ELSE Goto(m, "failed")
  /\ UNCHANGED <<fileVars, databaseVars, storeVars, laterVars, key>>

ModuleStep(m) ==
  CASE m = "repository" -> CreateDatabase \/ MigrateUp \/ LogMigration \/ MigrateDown \/ RemoveLog
    [] m = "tripleStore" -> ValidateTripleStore \/ EnsureConnections \/ LookForRepository
                            \/ CreateRepository \/ CreateGraphdbRepository
    [] m = "network" -> ReadPrivateKey \/ SavePrivateKey
    [] OTHER -> InitializeChain(m)

----------------------------------------------------------------------------
(* The services, one after the other *)

\* The next stage, or the end of the process
Stage(here, next) ==
  /\ boot = here
  /\ \/ boot' = next /\ UNCHANGED <<waiting, unlogged>> /\ Works
     \/ Die /\ Fails
  /\ UNCHANGED <<module, fileVars, databaseVars, implementation, attempts, key>>

ModulesInitialized ==
  /\ boot = "modules" /\ boot' = "sharding"
  /\ \A m \in Modules : module[m] \in {"ready", "failed"}
  /\ UNCHANGED <<module, fileVars, databaseVars, unlogged, storeVars, laterVars, key, waiting,
                 failures>>

InitializeShardingTable ==
  Stage("sharding", "paranets") /\ UNCHANGED <<repositories, laterVars>>

InitializeParanetRepository ==
  /\ Stage("paranets", "paranetRecord")
  /\ repositories' = IF boot' = "down" THEN repositories ELSE repositories \cup {"paranet"}
  /\ UNCHANGED laterVars

InitializeParanetRecord ==
  /\ Stage("paranetRecord", "profiles")
  /\ paranet' = (paranet \/ boot' # "down")
  /\ UNCHANGED <<repositories, paused>>

CreateProfiles ==
  Stage("profiles", "executor") /\ UNCHANGED <<repositories, laterVars>>

\* The queue is paused, and takes the default commands.
InitializeCommandExecutor ==
  Stage("executor", "routers") /\ paused' = TRUE /\ UNCHANGED <<repositories, paranet>>

\* From here on the node accepts requests.
InitializeRouters ==
  Stage("routers", "network") /\ UNCHANGED <<repositories, laterVars>>

StartNetworkModule ==
  Stage("network", "resume") /\ UNCHANGED <<repositories, laterVars>>

ResumeCommandExecutor ==
  Stage("resume", "up") /\ paused' = FALSE /\ UNCHANGED <<repositories, paranet>>

AcceptRequest ==
  /\ boot \in {"network", "resume", "up"} /\ ~waiting /\ waiting' = TRUE
  /\ UNCHANGED <<boot, module, fileVars, databaseVars, unlogged, storeVars, laterVars, key, failures>>

RunCommand ==
  /\ boot # "down" /\ waiting /\ ~paused /\ waiting' = FALSE
  /\ UNCHANGED <<boot, module, fileVars, databaseVars, unlogged, storeVars, laterVars, key, failures>>

Crash ==
  /\ boot # "down" /\ Stop /\ Fails
  /\ UNCHANGED <<fileVars, databaseVars, storeVars, laterVars, key>>

BootStep ==
  \/ LoadConfiguration \/ MigrateConfiguration \/ WriteConfiguration \/ MarkMigration
  \/ ModulesInitialized \/ InitializeShardingTable \/ InitializeParanetRepository
  \/ InitializeParanetRecord \/ CreateProfiles \/ InitializeCommandExecutor
  \/ InitializeRouters \/ StartNetworkModule \/ ResumeCommandExecutor

StartupNext ==
  BootStep \/ (\E m \in Modules : ModuleStep(m)) \/ AcceptRequest \/ RunCommand \/ Crash

StartupSpec ==
  /\ StartupInit
  /\ [][StartupNext]_startupVars
  /\ WF_startupVars(BootStep) /\ WF_startupVars(RunCommand)
  /\ \A m \in Modules : WF_startupVars(ModuleStep(m))

----------------------------------------------------------------------------
(* Properties *)

StartupTypeOK ==
  /\ module \in [Modules -> {"start", "migrate", "log", "revert", "reverted", "connect",
                             "create", "post", "postAgain", "save", "ready", "failed"}]
  /\ config \in {"old", "torn", "new"} /\ marked \in BOOLEAN /\ loaded \in {"old", "new"}
  /\ applied \subseteq Migrations /\ logged \subseteq Migrations /\ unlogged \subseteq Migrations
  /\ implementation \in Implementations /\ attempts \in 0..MaxConnects
  /\ repositories \subseteq {"dkg", "paranet"}
  /\ key \in {"none", "empty", "whole"}
  /\ {paranet, paused, waiting} \subseteq BOOLEAN

\* A node that accepts requests has its whole schema, its repositories and its key,
\* however often its start was interrupted; a migration is missing only when a process
\* died between reverting it and removing its row (sequelize-repository.js:88-97,
\* ot-blazegraph.js:5-43, libp2p-service.js:86-105).
UpMeansWhole ==
  boot \in {"network", "resume", "up"} =>
    /\ logged = Migrations /\ Migrations \subseteq applied \cup unlogged
    /\ {"dkg", "paranet"} \subseteq repositories /\ paranet /\ key = "whole"

\* What no restart repairs: a configuration file that was being written, and a migration
\* that was interrupted before its row and cannot be repeated
Unstartable == config = "torn" \/ \E k \in Bare : k \in applied \ logged

\* The node comes up and stays up, and runs what it has accepted
\* (ot-node.js:28-65).
NodeComesUp ==
  /\ <>[](boot = "up" \/ Unstartable)
  /\ waiting ~> ~waiting

\* A node is up only when its events module is: base-module-manager.js:50-56 ends the
\* start when a required module fails, and constants.js:155-163 requires the events service.
EventsModuleIsRequired == boot = "up" => module["blockchainEvents"] = "ready"

=============================================================================
