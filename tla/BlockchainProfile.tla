-------------------------- MODULE BlockchainProfile --------------------------
(***************************************************************************)
(* How the node finds its identity on a blockchain when it starts          *)
(* (createProfiles, web3-service): the identity of its wallets is read,    *)
(* a profile is created when there is none, and the implementation is      *)
(* removed, which stops a node without another one, when the profile is of *)
(* another node or cannot be created.                                      *)
(***************************************************************************)
EXTENDS Integers, FiniteSets, Sequences

CONSTANTS
  Wallets,    \* number of valid operational wallets of the configuration
  Tries,      \* maxNumberOfRetries
  MaxErrors   \* failing calls, unseen transactions and crashes (bound)

ProfileAssumption ==
  /\ Wallets \in Nat \ {0}
  /\ Tries \in Nat \ {0} /\ MaxErrors \in Nat

Wallet == 1..Wallets
Identity == {"none", "own", "other"}

VARIABLES
  owner,     \* identity of each wallet in IdentityStorage
  pending,   \* createProfile transactions not mined yet
  wallets,   \* operationalWallets
  queues,    \* wallets with a transaction queue
  identity,  \* this.identityId, none for 0
  phase,     \* where createProfiles is; down when the node is
  existed,   \* identityExists
  retries,   \* retryCount
  unseen,    \* whether a reverted transaction was taken for a profile (history)
  errors

blockchain == <<owner, pending>>
service == <<wallets, queues, identity>>
creation == <<phase, existed, retries>>
profileVars == <<blockchain, service, creation, unseen>>
vars == <<profileVars, errors>>

ProfileTypeOK ==
  /\ owner \in [Wallet -> Identity] /\ pending \in 0..MaxErrors + 1
  /\ wallets \in Seq(Wallet) /\ queues \subseteq Wallet
  /\ identity \in Identity
  /\ phase \in {"down", "exists", "create", "sent", "identity", "node", "up"}
  /\ existed \in BOOLEAN /\ retries \in 0..Tries - 1 /\ unseen \in BOOLEAN
  /\ errors \in 0..MaxErrors

ProfileInit ==
  /\ owner \in [Wallet -> Identity] /\ pending = 0
  /\ wallets = <<>> /\ queues = {} /\ identity = "none"
  /\ phase = "down" /\ existed = FALSE /\ retries = 0 /\ unseen = FALSE

Fails == errors < MaxErrors /\ errors' = errors + 1
Works == UNCHANGED errors

Down ==
  /\ phase' = "down" /\ existed' = FALSE /\ retries' = 0
  /\ wallets' = <<>> /\ queues' = {} /\ identity' = "none"

----------------------------------------------------------------------------

\* The private keys of the configuration that make a wallet.
ValidOperationalWallets == [i \in Wallet |-> i]

\* The module connects to the blockchain, with a queue for each wallet.
InitializeWeb3 ==
  /\ phase = "down" /\ Works
  /\ wallets' = ValidOperationalWallets /\ queues' = Wallet
  /\ phase' = "exists"
  /\ UNCHANGED <<blockchain, identity, existed, retries, unseen>>

Crash ==
  /\ phase # "down" /\ Fails /\ Down
  /\ UNCHANGED <<blockchain, unseen>>

\* The first identity that a wallet has.
FoundIdentity ==
  LET known == {i \in DOMAIN wallets : owner[wallets[i]] # "none"}
  IN  IF known = {} THEN "none"
      ELSE owner[wallets[CHOOSE i \in known : \A j \in known : i <= j]]

Mismatched == {i \in DOMAIN wallets : owner[wallets[i]] \notin {"none", FoundIdentity}}
Unconnected == {i \in DOMAIN wallets : FoundIdentity # "none" /\ owner[wallets[i]] = "none"}

\* Each of them is to be removed; what is spliced is the first wallet of the list
\* every time, as find gives a wallet and splice takes an index.
Kept == SubSeq(wallets, Cardinality(Mismatched \cup Unconnected) + 1, Len(wallets))

\* A known identity is not asked for again.
GetIdentityId ==
  IF identity # "none"
    THEN UNCHANGED service
    ELSE /\ identity' = FoundIdentity /\ wallets' = Kept
         /\ queues' = queues \ {wallets[i] : i \in Mismatched}

IdentityIdExists ==
  /\ phase = "exists" /\ Works
  /\ GetIdentityId
  /\ existed' = (FoundIdentity # "none")
  /\ phase' = IF FoundIdentity = "none" THEN "create" ELSE "identity"
  /\ UNCHANGED <<blockchain, retries, unseen>>

Created == phase' = "identity" /\ UNCHANGED <<existed, retries, service>>

\* Mutant: the loop ends after the last try and the error is forgotten.
RetryWithoutError ==
  IF retries + 1 < Tries
    THEN phase' = "create" /\ retries' = retries + 1 /\ UNCHANGED <<existed, service>>
    ELSE Created

\* An error of createProfile, when it is not read as Profile already exists:
\* after the last try the implementation is removed and the node stops.
Retry ==
  IF retries + 1 < Tries
    THEN phase' = "create" /\ retries' = retries + 1 /\ UNCHANGED <<existed, service>>
    ELSE Down

\* A reverted call is read as Profile already exists when the message of the error,
\* which the decoding leaves as it was, says so.
Reverted == Created \/ Retry

\* createProfile with the first wallet; the estimate fails when it has an identity.
SendCreateProfile ==
  /\ phase = "create"
  /\ IF owner[wallets[1]] = "none"
       THEN \/ /\ phase' = "sent" /\ pending' = pending + 1 /\ Works
               /\ UNCHANGED <<existed, retries, service>>
            \/ Retry /\ Fails /\ UNCHANGED pending
       ELSE Reverted /\ Works /\ UNCHANGED pending
  /\ UNCHANGED <<owner, unseen>>

\* The blockchain executes a transaction: the profile of a free wallet, for it
\* and all the others.
Execute ==
  /\ pending > 0 /\ pending' = pending - 1
  /\ owner' = IF owner[1] = "none"
                THEN [w \in Wallet |-> IF owner[w] = "none" THEN "own" ELSE owner[w]]
                ELSE owner

WaitForTransaction ==
  /\ phase = "sent"
  /\ \/ Execute /\ Works /\ UNCHANGED unseen
        /\ IF owner[1] = "none" THEN Created ELSE Reverted
     \* it runs out of gas: the call that looks for the reason may succeed
     \/ /\ pending' = pending - 1 /\ UNCHANGED owner /\ Fails
        /\ \/ Retry /\ UNCHANGED unseen
           \/ Created /\ unseen' = TRUE
     \* TRANSACTION_POLLING_TIMEOUT_MILLIS
     \/ Retry /\ Fails /\ UNCHANGED <<blockchain, unseen>>

\* A transaction that nobody waits for is executed.
ExecuteLate ==
  /\ phase # "sent" /\ Execute
  /\ UNCHANGED <<service, creation, unseen, errors>>

GetIdentity ==
  /\ phase = "identity" /\ Works
  /\ GetIdentityId
  /\ phase' = IF existed THEN "node" ELSE "up"
  /\ UNCHANGED <<blockchain, existed, retries, unseen>>

\* Mutant: any identity will do.
CompareNothing ==
  /\ phase = "node" /\ Works
  /\ phase' = "up" /\ UNCHANGED <<service, existed, retries, blockchain, unseen>>

\* The node id of the identity is compared with the peer id.
CompareNodeId ==
  /\ phase = "node" /\ Works
  /\ IF identity = "own" THEN phase' = "up" /\ UNCHANGED <<service, existed, retries>> ELSE Down
  /\ UNCHANGED <<blockchain, unseen>>

ProfileStep ==
  InitializeWeb3 \/ IdentityIdExists \/ SendCreateProfile \/ WaitForTransaction
  \/ GetIdentity \/ CompareNodeId

ProfileNext == ProfileStep \/ ExecuteLate \/ Crash

\* The supervisor starts a node that stopped again.
ProfileFairness == WF_vars(ProfileStep) /\ WF_vars(ExecuteLate)

Spec == ProfileInit /\ errors = 0 /\ [][ProfileNext]_vars /\ ProfileFairness

----------------------------------------------------------------------------
(* Properties *)

\* Whatever of its wallets belongs to others, and whether the profile was created
\* by this run of the node, an earlier one or a transaction that timed out, the
\* node works with its own identity, or with none after a transaction whose
\* failure it did not see (createProfiles).
OnlyOwnIdentity == phase = "up" => identity = "own" \/ (identity = "none" /\ unseen)

\* A node whose wallets nobody else uses gets a profile and starts: a creation that
\* timed out and is executed later does not keep it from starting.
NodeGetsProfile ==
  (\A w \in Wallet : owner[w] # "other") ~> (phase = "up" /\ identity = "own") \/ unseen

=============================================================================
