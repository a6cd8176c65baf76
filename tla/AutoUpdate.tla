----------------------------- MODULE AutoUpdate ------------------------------
(***************************************************************************)
(* The node replaces its own code: otnodeUpdateCommand compares the        *)
(* version of the running code with that of the branch, downloads the      *)
(* branch into a directory named after the version, links it as current    *)
(* and exits; a supervisor starts the code that current points at.         *)
(***************************************************************************)
EXTENDS Integers

CONSTANTS
  Versions,   \* versions that the branch may reach; the node starts with 1
  MaxErrors   \* failing downloads, files and installations, and crashes (bound)

UpdateAssumption == Versions \in Nat \ {0} /\ MaxErrors \in Nat

Version == 1..Versions

VARIABLES
  remote,   \* version in the package.json of the branch
  content,  \* version in the package.json of the directory of a version, 0 without one
  modules,  \* directories with their dependencies
  current,  \* directory that the link points at, 0 without a link
  running,  \* directory the running code is in, 0 when the node is down
  step,     \* where otnodeUpdateCommand is
  target,   \* newVersion
  archive,  \* version in the archive, or in its extraction, 0 without one
  errors

disk == <<content, modules, current>>
updating == <<step, target, archive>>
updateVars == <<remote, disk, running, updating>>
vars == <<updateVars, errors>>

UpdateTypeOK ==
  /\ remote \in Version /\ content \in [Version -> 0..Versions] /\ modules \subseteq Version
  /\ current \in 0..Versions /\ running \in 0..Versions
  /\ step \in {"wait", "compared", "download", "hung", "unzip", "move", "moving", "moved", "install",
               "unlink", "link", "clean", "exit"}
  /\ target \in 0..Versions /\ archive \in 0..Versions /\ errors \in 0..MaxErrors

UpdateInit ==
  /\ remote = 1 /\ content = [v \in Version |-> IF v = 1 THEN 1 ELSE 0] /\ modules = {1}
  /\ current = 1 /\ running = 0 /\ step = "wait" /\ target = 0 /\ archive = 0

Fails == errors < MaxErrors /\ errors' = errors + 1
Works == UNCHANGED errors

Wait == step' = "wait" /\ target' = 0 /\ archive' = 0

\* What the supervisor can start is in the directory that current points at.
Startable == current # 0 /\ content[current] # 0 /\ current \in modules

Remove(D) ==
  /\ content' = [v \in Version |-> IF v \in D THEN 0 ELSE content[v]]
  /\ modules' = modules \ D

----------------------------------------------------------------------------

\* The branch moves on, at any time.
Release ==
  /\ remote < Versions /\ remote' = remote + 1
  /\ UNCHANGED <<disk, running, updating, errors>>

\* The supervisor starts the code that current points at, if there is one.
StartNode ==
  /\ running = 0 /\ Startable
  /\ running' = current
  /\ UNCHANGED <<remote, disk, updating, errors>>

Crash ==
  /\ running # 0 /\ Fails
  /\ running' = 0 /\ Wait
  /\ UNCHANGED <<remote, disk>>

\* Mutant: the versions are compared the other way round.
CompareVersionsSwapped ==
  /\ running # 0 /\ step = "wait" /\ remote < content[running] /\ Works
  /\ step' = "compared"
  /\ UNCHANGED <<remote, disk, running, target, archive>>

\* compareVersions; a branch that is behind is not taken, nor is anything when the
\* directory of the running code is gone: an error of it is one of the comparison too.
CompareVersions ==
  /\ running # 0 /\ step = "wait" /\ content[running] # 0 /\ remote > content[running] /\ Works
  /\ step' = "compared"
  /\ UNCHANGED <<remote, disk, running, target, archive>>

\* update asks for the version again.
ReadRemoteVersion ==
  /\ step = "compared" /\ Works
  /\ step' = "download" /\ target' = remote
  /\ UNCHANGED <<remote, disk, running, archive>>

\* The archive holds what the branch is then.
DownloadUpdate ==
  /\ step = "download" /\ Works
  /\ step' = "unzip" /\ archive' = remote
  /\ UNCHANGED <<remote, disk, running, target>>

\* A response that breaks off, of a version or of the archive, has no listener: the
\* promise is never settled, and the command neither fails nor repeats.
ResponseBreaks ==
  /\ running # 0 /\ step \in {"wait", "compared", "download"} /\ Fails
  /\ step' = "hung"
  /\ UNCHANGED <<remote, disk, running, target, archive>>

UnzipFile ==
  /\ step = "unzip" /\ Works
  /\ step' = "move"
  /\ UNCHANGED <<remote, disk, running, target, archive>>

\* moveAndCleanExtractedData removes the destination, which may be there already,
RemoveDestination ==
  /\ step = "move" /\ Works
  /\ Remove({target}) /\ step' = "moving"
  /\ UNCHANGED <<remote, current, running, target, archive>>

\* moves the extracted directory there,
MoveExtractedData ==
  /\ step = "moving" /\ Works
  /\ content' = [content EXCEPT ![target] = archive] /\ step' = "moved"
  /\ UNCHANGED <<remote, modules, current, running, target, archive>>

\* and removes what was extracted; copyConfigFiles follows.
CleanExtractedData ==
  /\ step = "moved" /\ Works
  /\ step' = "install" /\ archive' = 0
  /\ UNCHANGED <<remote, disk, running, target>>

\* npm ci; a failure is seen only when it writes ERROR.
InstallDependencies ==
  /\ step = "install"
  /\ \/ modules' = modules \cup {target} /\ Works
     \/ UNCHANGED modules /\ Fails
  /\ step' = "unlink"
  /\ UNCHANGED <<remote, content, current, running, target, archive>>

\* pathExists follows the link: one that points at nothing stays.
RemoveLink ==
  /\ step = "unlink" /\ Works
  /\ current' = IF current # 0 /\ content[current] # 0 THEN 0 ELSE current
  /\ step' = "link"
  /\ UNCHANGED <<remote, content, modules, running, target, archive>>

EnsureLink ==
  /\ step = "link" /\ current = 0 /\ Works
  /\ current' = target /\ step' = "clean"
  /\ UNCHANGED <<remote, content, modules, running, target, archive>>

\* ensureSymlink does not replace a link to nothing: it rejects, and whether
\* anything handles that is a matter of the library.
LinkDangles ==
  /\ step = "link" /\ current # 0 /\ Works
  /\ Wait /\ running' \in {0, running}
  /\ UNCHANGED <<remote, disk>>

\* Mutant: only the old version is kept.
OldVersionsAndNew == {v \in Version : content[v] # 0 /\ v # content[running]}

\* The directories of other versions than the new and the old one, by name and by
\* the version that the old code says it is.
OldVersions == {v \in Version : content[v] # 0 /\ v # target /\ v # content[running]}

RemoveOldVersions ==
  /\ step = "clean" /\ Works
  /\ Remove(OldVersions) /\ step' = "exit"
  /\ UNCHANGED <<remote, current, running, target, archive>>

\* UPDATED is written and the process exits.
Exit ==
  /\ step = "exit" /\ Works
  /\ running' = 0 /\ Wait
  /\ UNCHANGED <<remote, disk>>

\* An error that update or the command sees: the command is repeated, wherever the
\* link points by then.
UpdateFails ==
  /\ step \notin {"wait", "hung"} /\ Fails
  /\ Wait /\ UNCHANGED <<remote, disk, running>>

\* A removal that fails has removed some of the directories.
RemoveFails ==
  /\ Fails /\ Wait
  /\ \/ step = "move" /\ Remove({target})
     \/ step = "clean" /\ \E D \in SUBSET OldVersions : Remove(D)
  /\ UNCHANGED <<remote, current, running>>

UpdateStep ==
  \/ CompareVersions \/ ReadRemoteVersion \/ DownloadUpdate \/ UnzipFile
  \/ RemoveDestination \/ MoveExtractedData \/ CleanExtractedData
  \/ InstallDependencies \/ RemoveLink \/ EnsureLink \/ LinkDangles \/ RemoveOldVersions \/ Exit

UpdateNext ==
  Release \/ StartNode \/ Crash \/ ResponseBreaks \/ UpdateFails \/ RemoveFails \/ UpdateStep

UpdateFairness == WF_vars(StartNode) /\ WF_vars(UpdateStep)

Spec == UpdateInit /\ errors = 0 /\ [][UpdateNext]_vars /\ UpdateFairness

----------------------------------------------------------------------------
(* Properties *)

\* removeOldVersions goes by the names of the directories and by the version that
\* the running code gives, which differ when the branch moved during the
\* download.  The directory that current points at loses its code only when the
\* same version is put there anew, because an update failed after it moved the link.
LinkedCodeIsKept ==
  [][current' = current /\ current # 0 /\ content[current] # 0 /\ content'[current] = 0
       => step = "move" /\ target = current /\ errors > 0]_vars

\* What a repeated command cannot get over: a promise that is never settled, a
\* link to a directory that was removed, the running code's own directory removed.
Stalled ==
  \/ step = "hung"
  \/ current # 0 /\ content[current] = 0
  \/ running # 0 /\ content[running] = 0

\* A version of the branch runs in the end; or updates are stalled for good; or the
\* process ended when the link was gone, or the linked code or its dependencies.
NodeIsUpdated ==
  \/ <>[]Stalled
  \/ \A v \in Version :
       remote >= v ~> (running = 0 /\ ~Startable) \/ (running # 0 /\ content[running] >= v)

=============================================================================
