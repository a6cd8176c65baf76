---------------------------- MODULE CollectionReads ----------------------------
(***************************************************************************)
(* How a get reads one collection from the triple stores of a node: by the *)
(* node that was asked (LocalGetCommand) or by a node of the shard         *)
(* (HandleGetRequestCommand).  The collection belongs to a contract of     *)
(* version 6, whose assertions may still be in the old repositories, or to *)
(* a newer one, and is being inserted or migrated meanwhile.               *)
(*                                                                         *)
(* Metadata is left out: it is asked for under the UAL followed by the     *)
(* range, an object, and so never found.  So are gets of a paranet, which  *)
(* read the repository of that paranet: it is registered when a node that  *)
(* syncs the paranet starts, and filled by its sync alone.                 *)
(***************************************************************************)
EXTENDS Integers

CONSTANTS
  Assets,     \* assets of a newer collection; a collection of version 6 has one
  MaxErrors   \* bound: failed queries and calls

ReadsAssumption == Assets \in Nat \ {0} /\ MaxErrors \in Nat

VARIABLES
  get,       \* the request
  burned,    \* assets the contract reports as burned
  old,       \* what the old repositories have of the collection
  graphs,    \* its named graphs in the current repository
  migrated,  \* the progress file of the migration says MIGRATED
  at,        \* where the get is
  flag,      \* migrated, as read by the controller
  known,     \* the id of the old assertion has been found
  range,     \* assets to be read
  found,     \* named graphs whose triples have been read
  outcome,
  begun,     \* the named graphs when the get began (history)
  errors

readVars == <<get, burned, old, graphs, migrated, at, flag, known, range, found, outcome, begun>>

OldRepositories == {"public", "private"}
Visibility == {"public", "private"}
Asset == 1..Assets
Graph == Asset \X Visibility

\* v6: the contract is of version 6; asset: the one the UAL names, or 0; given: the
\* sender of the request knew the old assertion's id. The shard reads public triples.
Gets ==
  {g \in [side : {"sender", "receiver"}, version : {"v0", "v1"}, v6 : BOOLEAN, asset : 0..Assets,
          visibility : SUBSET Visibility, given : BOOLEAN] :
     /\ g.visibility # {} /\ (g.side = "receiver" => g.visibility = {"public"})
     /\ g.given => g.side = "receiver" /\ g.version = "v0" /\ g.v6}

ReadsInit ==
  /\ get \in Gets
  /\ burned \in {{}, {1}} /\ (get.v6 => burned = {})
  /\ old \in [OldRepositories -> {"none", "reference", "assertion"}]
  /\ ~get.v6 => old = [r \in OldRepositories |-> "none"]
  /\ graphs = {} /\ migrated = FALSE
  /\ at = "start" /\ flag = FALSE /\ known = FALSE /\ range = {} /\ found = {}
  /\ outcome = "none" /\ begun = {}

request == <<get, burned, old>>
OneError == errors < MaxErrors /\ errors' = errors + 1
Goto(stage) == at' = stage /\ UNCHANGED outcome
End(result) == at' = "done" /\ outcome' = result

----------------------------------------------------------------------------
(* The controllers *)

\* A UAL that names an asset is not in the old graph of assets; the controller of
\* version 0 looks for the collection whatever the UAL names.
NamesCollection == get.version = "v0" \/ get.asset = 0

Begin == begun' = graphs /\ flag' = migrated

\* The old assertion's id is looked for only as long as the migration is not over.
HandleGetV0 ==
  /\ at = "start" /\ get.side = "sender" /\ get.version = "v0"
  /\ Begin
  /\ Goto(IF get.v6 /\ ~migrated THEN "id" ELSE "read")
  /\ UNCHANGED <<request, graphs, migrated, known, range, found, errors>>

\* Collections of newer contracts are validated first.
HandleGetV1 ==
  /\ at = "start" /\ get.side = "sender" /\ get.version = "v1"
  /\ Begin
  /\ Goto(IF ~get.v6 THEN "validate" ELSE IF migrated THEN "read" ELSE "id")
  /\ UNCHANGED <<request, graphs, migrated, known, range, found, errors>>

HandleGetRequest ==
  /\ at = "start" /\ get.side = "receiver"
  /\ Begin
  /\ known' = get.given
  /\ Goto(IF get.v6 /\ ~get.given THEN "id" ELSE "read")
  /\ UNCHANGED <<request, graphs, migrated, range, found, errors>>

\* A call that fails makes the UAL invalid.
ValidateUal ==
  /\ at = "validate"
  /\ \/ Goto("read") /\ UNCHANGED errors
     \/ OneError /\ End("failed")
  /\ UNCHANGED <<request, graphs, migrated, flag, known, range, found, begun>>

LatestAssertionId(repository) == NamesCollection /\ old[repository] # "none"

GetAssertionMerkleRoot ==
  /\ at = "id" /\ get.side = "sender"
  /\ \/ known' = (\E r \in OldRepositories : LatestAssertionId(r)) /\ Goto("read") /\ UNCHANGED errors
     \/ OneError /\ End("failed") /\ UNCHANGED known
  /\ UNCHANGED <<request, graphs, migrated, flag, range, found, begun>>

FindAssertionId ==
  /\ at = "id" /\ get.side = "receiver"
  /\ \/ known' = LatestAssertionId("public") /\ Goto("read") /\ UNCHANGED errors
     \/ OneError /\ End("failed") /\ UNCHANGED known
  /\ UNCHANGED <<request, graphs, migrated, flag, range, found, begun>>

----------------------------------------------------------------------------
(* With the id of an old assertion *)

\* The current repository is asked with what the UAL names: for a collection that is
\* no range, which is an error; with an asset's number no graph is asked for.
WithoutRange == IF get.asset = 0 THEN "failed" ELSE "absent"

\* Version 1 asks the current repository first, and only ever for a collection.
GetUnranged ==
  /\ at = "read" /\ known /\ get.version = "v1"
  /\ End(WithoutRange)
  /\ UNCHANGED <<request, graphs, migrated, flag, known, range, found, begun, errors>>

V6Assertion(repository) == old[repository] = "assertion"

\* What is found is an array of triples, and the answer is made of its fields public
\* and private: an empty assertion, with which the get is completed or acknowledged.
GetV6Assertion ==
  /\ at = "read" /\ known /\ get.version = "v0" /\ get.side = "sender"
  /\ \/ UNCHANGED errors
        /\ End(IF \E r \in OldRepositories : V6Assertion(r) THEN "empty" ELSE WithoutRange)
     \/ OneError /\ End("failed")
  /\ UNCHANGED <<request, graphs, migrated, flag, known, range, found, begun>>

GetRemoteV6Assertion ==
  /\ at = "read" /\ known /\ get.version = "v0" /\ get.side = "receiver"
  /\ \/ End(IF V6Assertion("public") THEN "empty" ELSE WithoutRange) /\ UNCHANGED errors
     \/ OneError /\ End("failed")
  /\ UNCHANGED <<request, graphs, migrated, flag, known, range, found, begun>>

----------------------------------------------------------------------------
(* Without it: the named graphs of a range of assets *)

\* Old contracts do not know ranges.
KnowledgeAssetsRange == IF get.v6 THEN {1} ELSE Asset \ burned

AssetsAsked == IF get.asset = 0 THEN KnowledgeAssetsRange ELSE {get.asset}

\* Mutant of GetAssetsRange: the last asset is left out
GetAssetsRangeShort ==
  /\ at = "read" /\ ~known
  /\ range' = AssetsAsked \ {Assets}
  /\ Goto("public")
  /\ UNCHANGED <<request, graphs, migrated, flag, known, found, begun, errors>>

\* Any failure of the call is taken for a contract that does not know ranges.
GetAssetsRange ==
  /\ at = "read" /\ ~known
  /\ \/ range' = AssetsAsked /\ UNCHANGED errors
     \/ get.asset = 0 /\ OneError /\ range' = {1}
  /\ Goto("public")
  /\ UNCHANGED <<request, graphs, migrated, flag, known, found, begun>>

Triples(visibility) ==
  IF visibility \in get.visibility THEN {g \in graphs : g[1] \in range /\ g[2] = visibility} ELSE {}

\* Two queries, between which the repository may change
GetAssertion(visibility, next) ==
  /\ at = visibility
  /\ \/ found' = found \cup Triples(visibility) /\ Goto(next) /\ UNCHANGED errors
     \/ OneError /\ End("failed") /\ UNCHANGED found
  /\ UNCHANGED <<request, graphs, migrated, flag, known, range, begun>>

\* A get that found nothing goes on to the network.
EndLocalGet ==
  /\ at = "answer" /\ get.side = "sender"
  /\ End(IF found = {} THEN "absent" ELSE "data")
  /\ UNCHANGED <<request, graphs, migrated, flag, known, range, found, begun, errors>>

AnswerGetRequest ==
  /\ at = "answer" /\ get.side = "receiver"
  /\ End(IF found = {} THEN "absent" ELSE "data")
  /\ UNCHANGED <<request, graphs, migrated, flag, known, range, found, begun, errors>>

GetStep ==
  \/ HandleGetV0 \/ HandleGetV1 \/ HandleGetRequest
  \/ ValidateUal \/ GetAssertionMerkleRoot \/ FindAssertionId
  \/ GetUnranged \/ GetV6Assertion \/ GetRemoteV6Assertion
  \/ GetAssetsRange \/ GetAssertion("public", "private") \/ GetAssertion("private", "answer")
  \/ EndLocalGet \/ AnswerGetRequest

----------------------------------------------------------------------------
(* Meanwhile *)

getVars == <<at, flag, known, range, found, outcome, begun>>

\* createKnowledgeCollectionNamedGraphs, which inserts graph by graph
InsertGraph(g) ==
  /\ ~get.v6 /\ at # "done" /\ g \notin graphs
  /\ graphs' = graphs \cup {g}
  /\ UNCHANGED <<request, migrated, getVars, errors>>

\* The migration inserts the graphs of an old assertion with one query.
MigrateAssertion ==
  /\ get.v6 /\ at # "done" /\ graphs = {}
  /\ \/ V6Assertion("public") /\ graphs' = {<<1, "public">>}
     \/ V6Assertion("private") /\ graphs' \in {{<<1, "public">>}, {<<1, "public">>, <<1, "private">>}}
  /\ UNCHANGED <<request, migrated, getVars, errors>>

MarkMigrated ==
  /\ get.v6 /\ at # "done" /\ ~migrated
  /\ (\E r \in OldRepositories : V6Assertion(r)) => graphs # {}
  /\ migrated' = TRUE
  /\ UNCHANGED <<request, graphs, getVars, errors>>

ReadsNext == GetStep \/ (\E g \in Graph : InsertGraph(g)) \/ MigrateAssertion \/ MarkMigrated

----------------------------------------------------------------------------
(* Properties *)

ReadsTypeOK ==
  /\ get \in Gets /\ burned \subseteq Asset /\ graphs \subseteq Graph /\ found \subseteq graphs
  /\ at \in {"start", "validate", "id", "read", "public", "private", "answer", "done"}
  /\ outcome \in {"none", "data", "empty", "absent", "failed"}

Wanted == {g \in Graph : g[1] \in AssetsAsked /\ g[2] \in get.visibility}

\* A get that ended has everything it asked for that was in the named graphs when it
\* began, unless the range or the repositories could not be read, or the migration was
\* not over and the get went by the id of an old assertion; a node of the shard does so
\* after the migration too (local-get-command.js:130-270, v1-0-0-handle-get-request-command.js:96-265).
HeldIsServed ==
  at = "done" =>
    \/ Wanted \cap begun \subseteq found
    \/ known /\ (get.side = "receiver" \/ ~flag)
    \/ errors > 0 /\ (outcome = "failed" \/ range # AssetsAsked)

=============================================================================
