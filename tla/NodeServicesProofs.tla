-------------------------- MODULE NodeServicesProofs --------------------------
(***************************************************************************)
(* Proofs about the services beside the operations, for every size of the  *)
(* table, number of versions, wallets and assets, lifetime of a result, and *)
(* number of errors.  A service that is not observed stays as it started,  *)
(* so each argument needs the steps of one service only.  The last section *)
(* is about the start of the node that runs them, for any migrations,      *)
(* number of connection attempts and number of errors.                     *)
(***************************************************************************)
EXTENDS NodeServices, NodeStartup, Sequences, FiniteSets, SequenceTheorems, FiniteSetTheorems,
        WellFoundedInduction, TLAPS

USE ServicesAssumption

\* A service other than the one observed does nothing.
LEMMA OneService ==
  ASSUME [Next]_vars
  PROVE  /\ service' = service
         /\ service # "updater" => UNCHANGED updateVars
         /\ service # "profile" => UNCHANGED profileVars
         /\ service # "results" => UNCHANGED resultVars
         /\ service # "reads" => UNCHANGED readVars
         /\ service = "updater" => [Updater!UpdateNext]_<<updateVars, errors>>
         /\ service = "profile" => [Profile!ProfileNext]_<<profileVars, errors>>
         /\ service = "results" => [Results!ResultsNext]_<<resultVars, errors>>
         /\ service = "reads" => [Reads!ReadsNext]_<<readVars, errors>>
BY DEF Next, ShardingOnly, ParanetOnly, UpdaterOnly, ProfileOnly, ResultsOnly, ReadsOnly, vars

-----------------------------------------------------------------------------
(* The auto updater                                                        *)

Loaded == {"unzip", "move", "moving", "moved"}
Relinking == {"link", "clean", "exit"}
Targeting == {"download", "install", "unlink"} \cup Loaded \cup Relinking

\* What the update knows between two steps: a directory holds no older version than
\* its name, the version that is made is newer than the running one, and until
\* something fails the process runs what is linked, or is about to link the new one.
LinkInv ==
  /\ remote \in Updater!Version /\ archive \in 0..Versions /\ errors \in Nat
  /\ content \in [Updater!Version -> 0..Versions]
  /\ current \in 0..Versions /\ running \in 0..Versions /\ target \in 0..Versions
  /\ \A v \in Updater!Version : content[v] = 0 \/ content[v] >= v
  /\ target <= remote
  /\ step \in Loaded => archive >= target
  /\ running = 0 => step = "wait"
  /\ step = "compared" => remote > running
  /\ step \in Targeting => target > running
  /\ step \in {"clean", "exit"} => current = target
  /\ errors = 0 /\ step = "link" => current = 0
  /\ errors = 0 /\ running # 0 /\ step \notin Relinking => current = running /\ content[running] # 0

LinkedInv == service = "updater" => LinkInv

\* A directory is removed, or filled with what was downloaded for it, and nothing of
\* the rest is disturbed.
LEMMA DirectoriesStay ==
  ASSUME NEW D \in SUBSET Updater!Version, LinkInv, Updater!Remove(D)
  PROVE  /\ content' \in [Updater!Version -> 0..Versions]
         /\ \A v \in Updater!Version : content'[v] = 0 \/ content'[v] >= v
         /\ \A v \in Updater!Version : v \notin D => content'[v] = content[v]
BY DEF LinkInv, Updater!Remove, ServicesAssumption, Updater!UpdateAssumption

\* Each step of update knows what the next one needs; a step that fails leaves
\* the link where it is, and is counted.
LEMMA LinkedStep ==
  ASSUME LinkedInv, [Next]_vars
  PROVE  LinkedInv'
<1> USE DEF LinkInv
<1>0. Versions \in Nat \ {0} /\ MaxErrors \in Nat
  BY DEF ServicesAssumption, Updater!UpdateAssumption
<1>1. CASE service # "updater"
  BY <1>1, OneService DEF LinkedInv
<1> SUFFICES ASSUME service = "updater", LinkInv, [Updater!UpdateNext]_<<updateVars, errors>>
             PROVE  LinkInv'
  BY <1>1, OneService DEF LinkedInv
<1> USE DEF Updater!disk, Updater!updating, Loaded, Relinking, Targeting
<1>2. CASE Updater!Release
  BY <1>0, <1>2 DEF Updater!Release, Updater!Version
<1>3. CASE Updater!StartNode
  BY <1>0, <1>3 DEF Updater!StartNode, Updater!Startable
<1>4. CASE Updater!Crash \/ Updater!Exit
  BY <1>0, <1>4 DEF Updater!Crash, Updater!Exit, Updater!Wait, Updater!Fails, Updater!Works, Updater!Version
<1>5. CASE Updater!UpdateFails
  BY <1>0, <1>5 DEF Updater!UpdateFails, Updater!Wait, Updater!Fails, Updater!Version
<1>6. CASE Updater!ResponseBreaks
  BY <1>0, <1>6 DEF Updater!ResponseBreaks, Updater!Fails
<1>7. CASE Updater!RemoveFails
  <2>1. ASSUME NEW D \in SUBSET Updater!Version, Updater!Remove(D), Updater!RemoveFails
        PROVE  LinkInv'
    BY <1>0, <2>1, DirectoriesStay DEF Updater!RemoveFails, Updater!Wait, Updater!Fails, Updater!Version
  <2>2. \E D \in SUBSET Updater!Version : Updater!Remove(D)
    <3>1. step = "move" => {target} \in SUBSET Updater!Version
      BY DEF Updater!Version
    <3> QED
      BY <1>7, <3>1 DEF Updater!RemoveFails, Updater!OldVersions
  <2> QED
    BY <1>7, <2>1, <2>2
<1>8. CASE Updater!CompareVersions
  <2>1. content[running] >= running
    BY <1>8 DEF Updater!CompareVersions, Updater!Version
  <2> QED
    BY <1>0, <1>8, <2>1 DEF Updater!CompareVersions, Updater!Works, Updater!Version
<1>9. CASE Updater!ReadRemoteVersion
  BY <1>0, <1>9 DEF Updater!ReadRemoteVersion, Updater!Works, Updater!Version
<1>10. CASE Updater!DownloadUpdate
  BY <1>0, <1>10 DEF Updater!DownloadUpdate, Updater!Works, Updater!Version
<1>11. CASE Updater!UnzipFile
  BY <1>0, <1>11 DEF Updater!UnzipFile, Updater!Works
<1>12. CASE Updater!RemoveDestination
  <2>1. target \in Updater!Version /\ target # running
    BY <1>12 DEF Updater!RemoveDestination, Updater!Version
  <2>2. Updater!Remove({target})
    BY <1>12 DEF Updater!RemoveDestination
  <2> QED
    BY <1>0, <1>12, <2>1, <2>2, DirectoriesStay DEF Updater!RemoveDestination, Updater!Works, Updater!Version
<1>13. CASE Updater!MoveExtractedData
  BY <1>0, <1>13 DEF Updater!MoveExtractedData, Updater!Works, Updater!Version
<1>14. CASE Updater!CleanExtractedData
  BY <1>0, <1>14 DEF Updater!CleanExtractedData, Updater!Works
<1>15. CASE Updater!InstallDependencies
  <2>1. errors' \in Nat /\ (errors' = 0 => errors = 0)
    BY <1>15 DEF Updater!InstallDependencies, Updater!Works, Updater!Fails
  <2> QED
    BY <1>15, <2>1 DEF Updater!InstallDependencies
<1>16. CASE Updater!RemoveLink
  BY <1>0, <1>16 DEF Updater!RemoveLink, Updater!Works
<1>17. CASE Updater!EnsureLink
  BY <1>0, <1>17 DEF Updater!EnsureLink, Updater!Works
<1>18. CASE Updater!LinkDangles
  BY <1>0, <1>18 DEF Updater!LinkDangles, Updater!Wait, Updater!Works, Updater!Version
<1>19. CASE Updater!RemoveOldVersions
  <2>1. Updater!OldVersions \in SUBSET Updater!Version
    BY DEF Updater!OldVersions
  <2> QED
    BY <1>0, <1>19, <2>1, DirectoriesStay DEF Updater!RemoveOldVersions, Updater!Works, Updater!Version
<1>20. CASE UNCHANGED <<updateVars, errors>>
  BY <1>20 DEF updateVars
<1> QED
  BY <1>2, <1>3, <1>4, <1>5, <1>6, <1>7, <1>8, <1>9, <1>10, <1>11,
     <1>12, <1>13, <1>14, <1>15, <1>16, <1>17, <1>18, <1>19, <1>20
  DEF Updater!UpdateNext, Updater!UpdateStep

\* removeOldVersions never removes the directory that current points at, and update
\* removes it only to make the same version again, which takes an earlier failure: a
\* process that met none runs what is linked, and makes a newer version.
THEOREM LinkedCodeCorrect == Spec => LinkedCodeIsKept
<1>1. Init => LinkedInv
  BY DEF Init, LinkedInv, LinkInv, Updater!UpdateInit, Updater!Version, Loaded, Relinking, Targeting,
         ServicesAssumption, Updater!UpdateAssumption
<1>2. LinkedInv /\ [Next]_vars => LinkedInv'
  BY LinkedStep
<1>3. ASSUME LinkedInv, [Next]_vars
      PROVE  [current' = current /\ current # 0 /\ content[current] # 0 /\ content'[current] = 0
                => step = "move" /\ target = current /\ errors > 0]_Updater!vars
  <2> SUFFICES ASSUME current' = current, current # 0, content[current] # 0, content'[current] = 0
               PROVE  step = "move" /\ target = current /\ errors > 0
    OBVIOUS
  <2>1. service = "updater" /\ LinkInv
    BY <1>3, OneService DEF updateVars, LinkedInv
  <2>2. current \in Updater!Version
    BY <2>1 DEF LinkInv, Updater!Version
  <2>3. ASSUME step = "move", Updater!Remove({target})
        PROVE  target = current /\ errors > 0
    <3>1. target = current
      BY <2>1, <2>2, <2>3 DEF Updater!Remove, LinkInv
    <3>2. target > running /\ running # 0
      BY <2>1, <2>3 DEF LinkInv, Targeting, Loaded
    <3> QED
      BY <2>1, <2>3, <3>1, <3>2 DEF LinkInv, Relinking
  <2>4. ASSUME step = "clean", NEW D \in SUBSET Updater!OldVersions, Updater!Remove(D)
        PROVE  FALSE
    BY <2>1, <2>2, <2>4 DEF Updater!Remove, Updater!OldVersions, LinkInv
  <2>5. ASSUME Updater!MoveExtractedData
        PROVE  FALSE
    <3>1. target > running /\ archive >= target /\ content' = [content EXCEPT ![target] = archive]
      BY <2>1, <2>5 DEF Updater!MoveExtractedData, LinkInv, Targeting, Loaded
    <3>2. archive # 0
      BY <2>1, <3>1 DEF LinkInv
    <3> QED
      BY <2>1, <2>2, <3>1, <3>2 DEF LinkInv
  <2>6. CASE Updater!RemoveDestination
    BY <2>3, <2>6 DEF Updater!RemoveDestination
  <2>7. CASE Updater!RemoveFails
    BY <2>3, <2>4, <2>7 DEF Updater!RemoveFails
  <2>8. CASE Updater!RemoveOldVersions
    BY <2>4, <2>8 DEF Updater!RemoveOldVersions
  <2> QED
    BY <1>3, <2>1, <2>5, <2>6, <2>7, <2>8, OneService
    DEF Updater!UpdateNext, Updater!UpdateStep, Updater!Release, Updater!StartNode, Updater!Crash,
        Updater!ResponseBreaks, Updater!UpdateFails, Updater!CompareVersions, Updater!ReadRemoteVersion,
        Updater!DownloadUpdate, Updater!UnzipFile, Updater!CleanExtractedData, Updater!InstallDependencies,
        Updater!RemoveLink, Updater!EnsureLink, Updater!LinkDangles, Updater!Exit, Updater!disk, updateVars
<1> QED
  BY <1>1, <1>2, <1>3, PTL DEF Spec, LinkedCodeIsKept, Updater!LinkedCodeIsKept

-----------------------------------------------------------------------------
(* The profile                                                             *)

\* A set of natural numbers that is not empty has a smallest.
LEMMA Smallest ==
  ASSUME NEW S \in SUBSET Nat, S # {}
  PROVE  \E m \in S : \A n \in S : m <= n
<1>1. PICK x \in S : \A y \in S : ~ (<<y, x>> \in OpToRel(<, Nat))
  BY NatLessThanWellFounded, WFMin
<1>2. \A y \in S : ~ (y < x)
  BY <1>1 DEF OpToRel
<1>3. \A y \in S : x <= y
  BY <1>2
<1> QED
  BY <1>3

\* createProfiles starts from the wallets of the configuration and no identity.
FreshList == wallets = Profile!ValidOperationalWallets /\ identity = "none"

NoOtherOwner == \A w \in Profile!Wallet : owner[w] # "other"

\* What createProfiles knows on its way. That no wallet has an identity is seen
\* once and stays true of the identities of others; what may change meanwhile is
\* that an earlier transaction makes the node's own profile.
CreationInv ==
  /\ owner \in [Profile!Wallet -> Profile!Identity]
  /\ existed \in BOOLEAN /\ unseen \in BOOLEAN
  /\ phase \in {"down", "exists", "create", "sent", "identity", "node", "up"}
  /\ phase \in {"down", "exists"} => identity = "none"
  /\ phase = "exists" => FreshList
  /\ phase \in {"create", "sent"} => ~existed
  /\ phase \in {"create", "sent", "identity"} /\ ~existed => FreshList /\ NoOtherOwner
  /\ phase = "identity" /\ ~existed => owner[1] = "own" \/ unseen
  /\ Profile!OnlyOwnIdentity

ProfileInv ==
  /\ service = "profile" => CreationInv
  /\ service # "profile" => phase = "down"

\* What is found for the wallets of the configuration: no identity only when no
\* wallet has one, and then no wallet is taken off the list.
LEMMA FoundIdentityOfFresh ==
  ASSUME owner \in [Profile!Wallet -> Profile!Identity], wallets = Profile!ValidOperationalWallets
  PROVE  /\ Profile!FoundIdentity \in Profile!Identity
         /\ Profile!FoundIdentity = "none" => NoOtherOwner /\ Profile!Kept = wallets
         /\ NoOtherOwner => Profile!FoundIdentity # "other"
         /\ NoOtherOwner /\ owner[1] = "own" => Profile!FoundIdentity = "own"
<1> DEFINE having == {i \in DOMAIN wallets : owner[wallets[i]] # "none"}
           first == CHOOSE i \in having : \A j \in having : i <= j
<1>1. Wallets \in Nat \ {0}
  BY DEF ServicesAssumption, Profile!ProfileAssumption
<1>2. wallets \in Seq(Profile!Wallet) /\ Len(wallets) = Wallets /\ DOMAIN wallets = Profile!Wallet
      /\ \A i \in Profile!Wallet : wallets[i] = i
  BY <1>1 DEF Profile!ValidOperationalWallets, Profile!Wallet
<1>3. having = {i \in Profile!Wallet : owner[i] # "none"}
  BY <1>2
<1>4. having # {} => first \in having
  <2>1. having \in SUBSET Nat
    BY <1>3 DEF Profile!Wallet
  <2> HIDE DEF having
  <2> QED
    BY <2>1, Smallest
<1>5. Profile!FoundIdentity = IF having = {} THEN "none" ELSE owner[first]
  <2>1. Profile!FoundIdentity = IF having = {} THEN "none" ELSE owner[wallets[first]]
    BY DEF Profile!FoundIdentity
  <2> HIDE DEF first
  <2> QED
    BY <2>1, <1>2, <1>3, <1>4
<1> HIDE DEF having, first
<1>6. ASSUME Profile!FoundIdentity = "none"
      PROVE  NoOtherOwner /\ Profile!Kept = wallets
  <2>1. having = {}
    BY <1>3, <1>4, <1>5, <1>6
  <2>2. \A w \in Profile!Wallet : owner[w] = "none"
    BY <2>1, <1>3
  <2>3. Profile!Mismatched \cup Profile!Unconnected = {}
    BY <1>6, <2>2, <1>2 DEF Profile!Mismatched, Profile!Unconnected
  <2>4. Profile!Cardinality({}) = 0
    BY FS_EmptySet DEF Profile!Cardinality, Cardinality
  <2>5. Profile!Cardinality(Profile!Mismatched \cup Profile!Unconnected) + 1 = 1
    BY <2>3, <2>4
  <2>6. Profile!Kept = SubSeq(wallets, 1, Len(wallets))
    BY <2>5 DEF Profile!Kept
  <2> QED
    BY <2>2, <2>6, <1>2, SubSeqFull DEF NoOtherOwner
<1>7. Profile!FoundIdentity \in Profile!Identity
  BY <1>3, <1>4, <1>5 DEF Profile!Identity
<1>8. NoOtherOwner => Profile!FoundIdentity # "other"
  BY <1>3, <1>4, <1>5 DEF NoOtherOwner
<1>9. NoOtherOwner /\ owner[1] = "own" => Profile!FoundIdentity = "own"
  <2>1. 1 \in Profile!Wallet
    BY <1>1 DEF Profile!Wallet
  <2> QED
    BY <2>1, <1>3, <1>4, <1>5 DEF NoOtherOwner, Profile!Identity
<1> QED
  BY <1>6, <1>7, <1>8, <1>9

\* The steps of createProfiles keep what it knows. Those that end a creation are the
\* reverted call, which wallet 1 has an identity for, the profile just made, and the
\* failure that was not seen.
LEMMA CreationStep ==
  ASSUME CreationInv, Profile!ProfileNext
  PROVE  CreationInv'
<1> USE DEF CreationInv, Profile!OnlyOwnIdentity, Profile!blockchain, Profile!service, Profile!creation
<1> DEFINE Lists == UNCHANGED <<wallets, identity>>
<1>0. 1 \in Profile!Wallet
  BY DEF ServicesAssumption, Profile!ProfileAssumption, Profile!Wallet
<1>1. CASE Profile!InitializeWeb3
  BY <1>1 DEF Profile!InitializeWeb3, FreshList, Profile!ValidOperationalWallets
<1>2. CASE Profile!Crash
  BY <1>2 DEF Profile!Crash, Profile!Down
<1>3. CASE Profile!IdentityIdExists
  <2>1. /\ phase = "exists" /\ identity = "none" /\ UNCHANGED <<owner, unseen>>
        /\ existed' = (Profile!FoundIdentity # "none")
        /\ phase' = IF Profile!FoundIdentity = "none" THEN "create" ELSE "identity"
        /\ identity' = Profile!FoundIdentity /\ wallets' = Profile!Kept
    BY <1>3 DEF Profile!IdentityIdExists, Profile!GetIdentityId, FreshList
  <2>2. CASE Profile!FoundIdentity = "none"
    <3>1. NoOtherOwner /\ wallets' = wallets
      BY <2>1, <2>2, FoundIdentityOfFresh DEF FreshList
    <3>2. FreshList' /\ NoOtherOwner'
      BY <2>1, <2>2, <3>1 DEF FreshList, NoOtherOwner, Profile!ValidOperationalWallets
    <3> QED
      BY <2>1, <2>2, <3>2
  <2>3. CASE Profile!FoundIdentity # "none"
    BY <2>1, <2>3
  <2> QED
    BY <2>2, <2>3
<1>4. ASSUME UNCHANGED <<owner, wallets, identity, existed>>, unseen' \in BOOLEAN, unseen => unseen',
             phase \in {"create", "sent"}, phase' \in {"create", "sent"}
      PROVE  CreationInv'
  BY <1>4 DEF FreshList, NoOtherOwner, Profile!ValidOperationalWallets
<1>5. ASSUME UNCHANGED <<wallets, identity, existed>>, unseen' \in BOOLEAN, unseen => unseen',
             phase \in {"create", "sent"}, phase' = "identity",
             owner' \in [Profile!Wallet -> Profile!Identity],
             NoOtherOwner', owner'[1] = "own" \/ unseen'
      PROVE  CreationInv'
  BY <1>5 DEF FreshList, Profile!ValidOperationalWallets
<1>6. ASSUME Profile!Down, UNCHANGED owner, unseen' \in BOOLEAN
      PROVE  CreationInv'
  BY <1>6 DEF Profile!Down
<1>7. CASE Profile!SendCreateProfile
  <2>1. phase = "create" /\ UNCHANGED <<owner, unseen>> /\ wallets[1] = 1 /\ NoOtherOwner
    BY <1>0, <1>7 DEF Profile!SendCreateProfile, FreshList, Profile!ValidOperationalWallets
  <2>2. \/ phase' = "sent" /\ UNCHANGED <<wallets, identity, existed>>
        \/ Profile!Retry
        \/ owner[1] # "none" /\ Profile!Created
    BY <1>7, <2>1 DEF Profile!SendCreateProfile, Profile!Reverted
  <2>3. CASE owner[1] # "none" /\ Profile!Created
    <3>1. owner[1] = "own" /\ NoOtherOwner'
      BY <1>0, <2>1, <2>3 DEF NoOtherOwner, Profile!Identity
    <3> QED
      BY <2>1, <2>3, <3>1, <1>5 DEF Profile!Created
  <2>4. CASE Profile!Retry
    BY <2>1, <2>4, <1>4, <1>6 DEF Profile!Retry
  <2> QED
    BY <2>1, <2>2, <2>3, <2>4, <1>4
<1>8. ASSUME Profile!Execute
      PROVE  /\ owner' \in [Profile!Wallet -> Profile!Identity]
             /\ NoOtherOwner => NoOtherOwner'
             /\ NoOtherOwner => owner'[1] = "own"
  BY <1>0, <1>8 DEF Profile!Execute, NoOtherOwner, Profile!Identity
<1>9. CASE Profile!WaitForTransaction
  <2>1. phase = "sent" /\ NoOtherOwner
    BY <1>9 DEF Profile!WaitForTransaction
  <2>2. CASE Profile!Execute /\ UNCHANGED unseen /\ Profile!Created
    BY <2>1, <2>2, <1>5, <1>8 DEF Profile!Created
  <2>3. CASE Profile!Execute /\ UNCHANGED <<owner, unseen>> /\ Profile!Retry
    BY <2>1, <2>3, <1>4, <1>6 DEF Profile!Retry
  <2>4. CASE UNCHANGED <<owner, unseen>> /\ Profile!Retry
    BY <2>1, <2>4, <1>4, <1>6 DEF Profile!Retry
  <2>5. CASE UNCHANGED owner /\ Profile!Created /\ unseen' = TRUE
    <3>1. NoOtherOwner'
      BY <2>1, <2>5 DEF NoOtherOwner
    <3> QED
      BY <2>1, <2>5, <3>1, <1>5 DEF Profile!Created
  <2>6. \/ Profile!Execute /\ UNCHANGED unseen /\ Profile!Created
        \/ Profile!Execute /\ UNCHANGED <<owner, unseen>> /\ Profile!Retry
        \/ UNCHANGED <<owner, unseen>> /\ Profile!Retry
        \/ UNCHANGED owner /\ Profile!Created /\ unseen' = TRUE
    BY <1>9 DEF Profile!WaitForTransaction, Profile!Reverted, Profile!Execute
  <2> QED
    BY <2>2, <2>3, <2>4, <2>5, <2>6
<1>10. CASE Profile!ExecuteLate
  <2>1. UNCHANGED <<wallets, identity, phase, existed, unseen>> /\ Profile!Execute
    BY <1>10 DEF Profile!ExecuteLate
  <2>2. owner'[1] = "own" \/ owner'[1] = owner[1]
    BY <1>0, <2>1 DEF Profile!Execute
  <2>3. (FreshList => FreshList') /\ (NoOtherOwner => NoOtherOwner')
    BY <2>1, <1>8 DEF FreshList, Profile!ValidOperationalWallets
  <2> QED
    BY <2>1, <2>2, <2>3, <1>8
<1>11. CASE Profile!GetIdentity
  <2>1. phase = "identity" /\ UNCHANGED <<owner, existed, unseen>> /\ phase' = (IF existed THEN "node" ELSE "up")
    BY <1>11 DEF Profile!GetIdentity
  <2>2. ~existed => identity' = Profile!FoundIdentity
    BY <1>11, <2>1 DEF Profile!GetIdentity, Profile!GetIdentityId, FreshList
  <2>3. ~existed => \/ Profile!FoundIdentity = "own"
                    \/ Profile!FoundIdentity = "none" /\ unseen
    BY <2>1, FoundIdentityOfFresh DEF FreshList, Profile!Identity
  <2> QED
    BY <2>1, <2>2, <2>3
<1>12. CASE Profile!CompareNodeId
  BY <1>12 DEF Profile!CompareNodeId, Profile!Down
<1> QED
  BY <1>1, <1>2, <1>3, <1>7, <1>9, <1>10, <1>11, <1>12 DEF Profile!ProfileNext, Profile!ProfileStep

\* A node that is up works with its own identity, whoever its wallets belong to,
\* however its profile came to be and whatever timed out; or without one, when the
\* transaction whose failure it did not see was the reason to go on.
THEOREM OwnIdentityCorrect == Spec => []OnlyOwnIdentity
<1>1. Init => ProfileInv
  BY DEF Init, ProfileInv, CreationInv, Profile!ProfileInit, Profile!OnlyOwnIdentity
<1>2. ProfileInv /\ [Next]_vars => ProfileInv'
  <2> SUFFICES ASSUME ProfileInv, [Next]_vars
               PROVE  ProfileInv'
    OBVIOUS
  <2>1. CASE service # "profile"
    BY <2>1, OneService DEF ProfileInv, profileVars
  <2>2. CASE service = "profile" /\ Profile!ProfileNext
    BY <2>2, OneService, CreationStep DEF ProfileInv
  <2>3. CASE service = "profile" /\ UNCHANGED profileVars
    BY <2>3, OneService DEF ProfileInv, CreationInv, profileVars, FreshList, NoOtherOwner,
       Profile!OnlyOwnIdentity, Profile!ValidOperationalWallets
  <2> QED
    BY <2>1, <2>2, <2>3, OneService
<1>3. ProfileInv => OnlyOwnIdentity
  BY DEF ProfileInv, CreationInv, OnlyOwnIdentity, Profile!OnlyOwnIdentity
<1> QED
  BY <1>1, <1>2, <1>3, PTL DEF Spec

-----------------------------------------------------------------------------
(* Results                                                                 *)

\* In the first day: the file is there before the record is completed, when the
\* store finds its input too, and only an operation that is not completed takes
\* it away again. The memory is no help, as it does not survive a restart.
DataInv ==
  /\ clock \in Nat /\ file \in Int
  /\ clock <= Lifetime /\ query \in {"store", "insert", "end"} => file >= 0
  /\ record = "COMPLETED" => query \in {"completed", "done", "lost"}
  /\ clock <= Lifetime /\ record = "COMPLETED" => file >= 0

ResultsInv ==
  /\ service = "results" => DataInv
  /\ service # "results" => record = "none"

\* A step of the operation, of the cleaner, of the client or of time keeps what is known
\* of the data: the cleaner finds nothing old in the first day.
LEMMA DataStep ==
  ASSUME DataInv, Results!ResultsNext
  PROVE  DataInv'
<1> USE DEF DataInv, Results!Goto, Results!None, Results!Torn
<1>0. Lifetime \in Nat
  BY DEF ServicesAssumption, Results!ResultsAssumption
<1>1. CASE Results!HandleQuery \/ Results!HandleLocalStore
  BY <1>1 DEF Results!HandleQuery, Results!HandleLocalStore
<1>2. CASE Results!AddQuery \/ Results!StartQuery \/ Results!RunQuery \/ Results!CacheToMemory
  BY <1>2 DEF Results!AddQuery, Results!StartQuery, Results!RunQuery, Results!CacheToMemory,
              Results!Update
<1>3. CASE Results!CacheToFile \/ Results!WriteFile
  BY <1>3 DEF Results!CacheToFile, Results!WriteFile
<1>4. CASE Results!CompleteQuery \/ Results!RemoveCache \/ Results!FailQuery \/ Results!EndQuery
  BY <1>4 DEF Results!CompleteQuery, Results!RemoveCache, Results!FailQuery, Results!EndQuery,
              Results!Update
<1>5. CASE Results!LocalStoreStep
  BY <1>5 DEF Results!LocalStoreStep, Results!CacheInputToMemory, Results!CacheInputToFile,
              Results!StartLocalStore, Results!CreateV6KnowledgeCollection
<1>6. CASE Results!CrashNode
  BY <1>6 DEF Results!CrashNode
<1>7. CASE Results!CleanRecords \/ Results!SkipRecords \/ Results!CleanMemory
  BY <1>7 DEF Results!CleanRecords, Results!SkipRecords, Results!CleanMemory
<1>8. CASE Results!CleanFiles
  <2>1. clock <= Lifetime /\ file >= 0 => ~Results!IsOld(file)
    BY <1>0 DEF Results!IsOld
  <2> QED
    BY <1>8, <2>1 DEF Results!CleanFiles
<1>9. CASE Results!Tick
  BY <1>0, <1>9 DEF Results!Tick
<1>10. CASE Results!RequestStep
  BY <1>10 DEF Results!RequestStep, Results!HandleRequest, Results!GetCachedData, Results!ReadFile,
               Results!Respond
<1> QED
  BY <1>1, <1>2, <1>3, <1>4, <1>5, <1>6, <1>7, <1>8, <1>9, <1>10
  DEF Results!ResultsNext, Results!QueryStep, Results!CleanerStep

\* For a day the data of a completed operation is there for whoever asks, whenever the
\* cleaner runs and the node restarts.
THEOREM CompletedDataCorrect == Spec => []CompletedHasData
<1>1. Init => ResultsInv
  BY DEF Init, ResultsInv, DataInv, Results!ResultsInit, Results!None
<1>2. ResultsInv /\ [Next]_vars => ResultsInv'
  <2> SUFFICES ASSUME ResultsInv, [Next]_vars
               PROVE  ResultsInv'
    OBVIOUS
  <2>1. CASE service # "results"
    BY <2>1, OneService DEF ResultsInv, resultVars
  <2>2. CASE service = "results" /\ Results!ResultsNext
    BY <2>2, OneService, DataStep DEF ResultsInv
  <2>3. CASE service = "results" /\ UNCHANGED resultVars
    BY <2>3, OneService DEF ResultsInv, DataInv, resultVars
  <2> QED
    BY <2>1, <2>2, <2>3, OneService
<1>3. ResultsInv => CompletedHasData
  BY DEF ResultsInv, DataInv, CompletedHasData, Results!CompletedHasData
<1> QED
  BY <1>1, <1>2, <1>3, PTL DEF Spec

-----------------------------------------------------------------------------
(* Reads of a collection                                                   *)

\* The named graphs of one visibility that were there and are asked for.
HeldBegun(visibility) ==
  {g \in begun : g[1] \in Reads!AssetsAsked /\ g[2] = visibility /\ g[2] \in get.visibility}

\* A range other than the one asked for comes of a failed call.
RangeIsAsked == range = Reads!AssetsAsked \/ errors > 0

\* A get looks for an old assertion when it began before the end of the migration, or
\* at a node of the shard; otherwise it reads the public graphs of the range, then
\* the private ones, while more may be inserted.
ReadInv ==
  /\ errors \in Nat
  /\ begun \subseteq graphs /\ graphs \subseteq Reads!Graph
  /\ at = "start" => ~known
  /\ get.side = "sender" /\ (at = "id" \/ known) => ~flag
  /\ get.side \in {"sender", "receiver"}
  /\ at \in {"public", "private", "answer"} => ~known /\ RangeIsAsked
  /\ at \in {"private", "answer"} /\ range = Reads!AssetsAsked => HeldBegun("public") \subseteq found
  /\ at = "answer" /\ range = Reads!AssetsAsked => HeldBegun("private") \subseteq found
  /\ Reads!HeldIsServed

ReadsInv ==
  /\ service = "reads" => ReadInv
  /\ service # "reads" => at = "start"

\* The triples read of one visibility are those of the graphs there were at the
\* beginning, and of others inserted meanwhile.
LEMMA TriplesOfBegun ==
  ASSUME NEW visibility, begun \subseteq graphs, range = Reads!AssetsAsked
  PROVE  HeldBegun(visibility) \subseteq Reads!Triples(visibility)
BY DEF HeldBegun, Reads!Triples

\* What is wanted is public or private.
LEMMA WantedIsHeld ==
  ASSUME begun \subseteq graphs
  PROVE  Reads!Wanted \cap begun \subseteq HeldBegun("public") \cup HeldBegun("private")
BY DEF HeldBegun, Reads!Wanted, Reads!Graph, Reads!Visibility

\* The steps of a get, and what is inserted meanwhile, keep what it has read.
LEMMA ReadStep ==
  ASSUME ReadInv, Reads!ReadsNext
  PROVE  ReadInv'
<1> USE DEF Reads!request, Reads!getVars, Reads!Goto, Reads!End, Reads!OneError
<1>0. MaxErrors \in Nat
  BY DEF ServicesAssumption, Reads!ReadsAssumption
<1>1. ASSUME UNCHANGED <<get, burned>>
      PROVE  /\ Reads!AssetsAsked' = Reads!AssetsAsked
             /\ Reads!Wanted' = Reads!Wanted
             /\ begun' = begun => /\ HeldBegun("public")' = HeldBegun("public")
                                  /\ HeldBegun("private")' = HeldBegun("private")
  BY <1>1 DEF Reads!AssetsAsked, Reads!KnowledgeAssetsRange, Reads!Wanted, HeldBegun
<1>2. CASE Reads!HandleGetV0 \/ Reads!HandleGetV1 \/ Reads!HandleGetRequest
  <2>1. /\ at = "start" /\ at' \in {"id", "read", "validate"} /\ begun' = graphs /\ flag' = migrated
        /\ UNCHANGED <<get, graphs, found, errors>>
    BY <1>2 DEF Reads!HandleGetV0, Reads!HandleGetV1, Reads!HandleGetRequest, Reads!Begin
  <2>2. get.side = "sender" => ~known' /\ (at' = "id" => ~flag')
    BY <1>2 DEF ReadInv, Reads!HandleGetV0, Reads!HandleGetV1, Reads!HandleGetRequest, Reads!Begin
  <2> QED
    BY <2>1, <2>2 DEF ReadInv, Reads!HeldIsServed
<1>3. ASSUME UNCHANGED <<get, burned, graphs, flag, begun>>,
             \/ at' = "read" /\ errors' = errors
             \/ at' = "done" /\ outcome' = "failed" /\ errors' = errors + 1,
             at = "id" \/ (at = "validate" /\ known' = known)
      PROVE  ReadInv'
  BY <1>3 DEF ReadInv, Reads!HeldIsServed
<1>4. CASE Reads!ValidateUal \/ Reads!GetAssertionMerkleRoot \/ Reads!FindAssertionId
  BY <1>3, <1>4 DEF Reads!ValidateUal, Reads!GetAssertionMerkleRoot, Reads!FindAssertionId
<1>5. CASE Reads!GetUnranged \/ Reads!GetV6Assertion \/ Reads!GetRemoteV6Assertion
  <2>1. /\ known' /\ known /\ at' = "done" /\ errors' \in Nat /\ UNCHANGED <<get, burned, graphs, flag, begun>>
    BY <1>5 DEF Reads!GetUnranged, Reads!GetV6Assertion, Reads!GetRemoteV6Assertion, ReadInv
  <2> QED
    BY <2>1 DEF ReadInv, Reads!HeldIsServed
<1>6. CASE Reads!GetAssetsRange
  <2>1. /\ at' = "public" /\ ~known' /\ errors' \in Nat
        /\ range' = Reads!AssetsAsked \/ errors' > 0
        /\ UNCHANGED <<get, burned, graphs, flag, begun>>
    BY <1>6 DEF Reads!GetAssetsRange, ReadInv
  <2> QED
    BY <1>1, <2>1 DEF ReadInv, RangeIsAsked, Reads!HeldIsServed
<1>7. CASE Reads!GetAssertion("public", "private") \/ Reads!GetAssertion("private", "answer")
  <2>1. PICK visibility \in {"public", "private"} :
          /\ at = visibility
          /\ Reads!GetAssertion(visibility, IF visibility = "public" THEN "private" ELSE "answer")
    BY <1>7 DEF Reads!GetAssertion
  <2>2. /\ UNCHANGED <<get, burned, graphs, flag, known, range, begun>> /\ errors' \in Nat
        /\ \/ /\ found' = found \cup Reads!Triples(visibility) /\ errors' = errors
              /\ at' = IF visibility = "public" THEN "private" ELSE "answer"
           \/ found' = found /\ at' = "done" /\ outcome' = "failed" /\ errors' > 0
    BY <2>1 DEF Reads!GetAssertion, ReadInv
  <2>3. range = Reads!AssetsAsked => HeldBegun(visibility) \subseteq Reads!Triples(visibility)
    BY TriplesOfBegun DEF ReadInv
  <2>4. CASE at' = "done"
    BY <2>1, <2>2, <2>4 DEF ReadInv, Reads!HeldIsServed
  <2>5. CASE at' # "done"
    BY <1>1, <2>1, <2>2, <2>3, <2>5 DEF ReadInv, RangeIsAsked, Reads!HeldIsServed
  <2> QED
    BY <2>4, <2>5
<1>8. CASE Reads!EndLocalGet \/ Reads!AnswerGetRequest
  <2>1. at = "answer" /\ at' = "done" /\ UNCHANGED <<get, burned, graphs, flag, known, range, found, begun, errors>>
    BY <1>8 DEF Reads!EndLocalGet, Reads!AnswerGetRequest
  <2>2. range = Reads!AssetsAsked => Reads!Wanted \cap begun \subseteq found
    BY <2>1, WantedIsHeld DEF ReadInv
  <2>3. Reads!HeldIsServed'
    <3>1. CASE range = Reads!AssetsAsked
      BY <1>1, <2>1, <2>2, <3>1 DEF Reads!HeldIsServed
    <3>2. CASE range # Reads!AssetsAsked
      BY <1>1, <2>1, <3>2 DEF Reads!HeldIsServed, ReadInv, RangeIsAsked
    <3> QED
      BY <3>1, <3>2
  <2> QED
    BY <2>1, <2>3 DEF ReadInv
<1>9. CASE (\E g \in Reads!Graph : Reads!InsertGraph(g)) \/ Reads!MigrateAssertion \/ Reads!MarkMigrated
  <2>1. /\ at # "done" /\ UNCHANGED <<get, burned, at, flag, known, range, found, begun, errors>>
        /\ graphs \subseteq graphs'
    BY <1>9 DEF Reads!InsertGraph, Reads!MigrateAssertion, Reads!MarkMigrated
  <2>2. graphs' \subseteq Reads!Graph
    <3>1. <<1, "public">> \in Reads!Graph /\ <<1, "private">> \in Reads!Graph
      BY DEF Reads!Graph, Reads!Asset, Reads!Visibility, ServicesAssumption, Reads!ReadsAssumption
    <3> QED
      BY <1>9, <3>1 DEF ReadInv, Reads!InsertGraph, Reads!MigrateAssertion, Reads!MarkMigrated
  <2> QED
    BY <1>1, <2>1, <2>2 DEF ReadInv, RangeIsAsked, Reads!HeldIsServed
<1> QED
  BY <1>2, <1>4, <1>5, <1>6, <1>7, <1>8, <1>9 DEF Reads!ReadsNext, Reads!GetStep

\* A get that ended has what it asked for of the graphs there were when it began,
\* however many are inserted meanwhile, or went by the id of an old assertion during
\* the migration, or met a failing call.
THEOREM HeldIsServedCorrect == Spec => []HeldIsServed
<1>1. Init => ReadsInv
  <2>1. Init => get.side \in {"sender", "receiver"}
    BY DEF Init, Reads!ReadsInit, Reads!Gets
  <2> QED
    BY <2>1 DEF Init, ReadsInv, ReadInv, Reads!ReadsInit, Reads!HeldIsServed
<1>2. ReadsInv /\ [Next]_vars => ReadsInv'
  <2> SUFFICES ASSUME ReadsInv, [Next]_vars
               PROVE  ReadsInv'
    OBVIOUS
  <2>1. CASE service # "reads"
    BY <2>1, OneService DEF ReadsInv, readVars
  <2>2. CASE service = "reads" /\ Reads!ReadsNext
    BY <2>2, OneService, ReadStep DEF ReadsInv
  <2>3. CASE service = "reads" /\ UNCHANGED <<readVars, errors>>
    BY <2>3, OneService DEF ReadsInv, ReadInv, readVars, RangeIsAsked, HeldBegun, Reads!HeldIsServed,
       Reads!AssetsAsked, Reads!KnowledgeAssetsRange, Reads!Wanted
  <2> QED
    BY <2>1, <2>2, <2>3, OneService
<1>3. ReadsInv => HeldIsServed
  BY DEF ReadsInv, ReadInv, HeldIsServed
<1> QED
  BY <1>1, <1>2, <1>3, PTL DEF Spec
-----------------------------------------------------------------------------
(* The start                                                               *)

\* Stages of the start behind the modules, and behind each part of the paranets.
Services == {"sharding", "paranets", "paranetRecord", "profiles", "executor", "routers", "network",
             "resume", "up"}
BehindRepository == Services \ {"sharding", "paranets"}
BehindRecord == BehindRepository \ {"paranetRecord"}

Places == {"start", "migrate", "log", "revert", "reverted", "connect", "create", "post", "postAgain",
           "save", "ready", "failed"}

\* What a module has done when it is ready, however it got there: a migration has its
\* row only once it ran, a module that failed is one that is not required.
ModulesInv ==
  /\ module \in [Modules -> Places]
  /\ paranet \in BOOLEAN
  /\ \A m \in Modules : module[m] = "failed" => m = "blockchainEvents"
  /\ module["repository"] = "ready" => logged = Migrations
  /\ module["tripleStore"] = "ready" => "dkg" \in repositories
  /\ module["network"] = "ready" => key = "whole"

\* Between the migration and its row, and between reverting it and removing the row,
\* the two differ; a process that ends there leaves the first unlogged and is recorded
\* for the second.
MigrationsInv ==
  /\ logged \subseteq applied \cup unlogged \cup
       (IF boot # "down" /\ module["repository"] = "reverted" THEN {LastLogged} ELSE {})
  /\ module["repository"] = "log" => FirstPending \in applied

\* What was initialized in order stays.
ServicesInv ==
  /\ boot \in Services => \A m \in Modules : module[m] \in {"ready", "failed"}
  /\ boot \in BehindRepository => "paranet" \in repositories
  /\ boot \in BehindRecord => paranet

StartupInv == ModulesInv /\ MigrationsInv /\ ServicesInv

\* A step that leaves the database alone keeps what is known of the migrations, unless
\* it ends the process without recording the migration that is reverted.
LEMMA MigrationsKept ==
  ASSUME MigrationsInv, UNCHANGED <<applied, logged>>,
         module'["repository"] \in {"log", "reverted"} => module'["repository"] = module["repository"],
         \/ Die
         \/ unlogged' = unlogged /\ boot' # "down" /\ module'["repository"] = module["repository"]
         \/ unlogged' = unlogged /\ module["repository"] # "reverted"
         \/ unlogged' = unlogged /\ boot = "down"
  PROVE  MigrationsInv'
<1>1. LastLogged' = LastLogged /\ FirstPending' = FirstPending
  BY DEF LastLogged, FirstPending
<1>2. module'["repository"] = "log" => FirstPending' \in applied'
  BY <1>1 DEF MigrationsInv
<1>3. logged' \subseteq applied' \cup unlogged' \cup
        (IF boot' # "down" /\ module'["repository"] = "reverted" THEN {LastLogged'} ELSE {})
  BY <1>1 DEF MigrationsInv, Die
<1> QED
  BY <1>2, <1>3 DEF MigrationsInv

\* The steps of the modules beside the repository, and the crash.
LEMMA ModuleKeepsStartup ==
  ASSUME StartupInv,
         \/ \E m \in Modules \ {"repository"} : ModuleStep(m)
         \/ Crash
  PROVE  StartupInv'
<1> USE DEF StartupInv, fileVars, databaseVars, storeVars, laterVars,
            Stop, Goto, At, GoesOn, Works, Fails
<1>m. Modules = {"repository", "tripleStore", "network", "blockchain", "blockchainEvents"}
  BY DEF Modules
<1>i. /\ module \in [Modules -> Places]
      /\ boot \in Services => \A m \in Modules : module[m] \in {"ready", "failed"}
  BY DEF ModulesInv, ServicesInv
<1>1. ASSUME UNCHANGED <<applied, logged, repositories, key, paranet>>,
             \/ Die /\ UNCHANGED module
             \/ /\ UNCHANGED <<boot, waiting, unlogged>> /\ boot = "modules"
                /\ \E m \in Modules \ {"repository"} :
                     \/ \E place \in Places \ {"ready", "failed"} : module' = [module EXCEPT ![m] = place]
                     \/ /\ module' = [module EXCEPT ![m] = "ready"]
                        /\ m = "tripleStore" => "dkg" \in repositories
                        /\ m = "network" => key = "whole"
                     \/ module' = [module EXCEPT ![m] = "failed"] /\ m = "blockchainEvents"
             \/ UNCHANGED <<boot, waiting, unlogged, module>>
      PROVE  StartupInv'
  <2>1. ModulesInv'
    BY <1>1, <1>i, <1>m DEF ModulesInv, Places
  <2>2. MigrationsInv'
    BY <1>1, <1>i, <1>m, MigrationsKept
  <2>3. ServicesInv'
    BY <1>1, <1>i DEF ServicesInv, Die, Services, BehindRepository, BehindRecord
  <2> QED
    BY <2>1, <2>2, <2>3
<1>2. CASE Crash
  BY <1>1, <1>2 DEF Crash
<1>3. CASE ValidateTripleStore \/ EnsureConnections
  BY <1>1, <1>3, <1>m DEF ValidateTripleStore, EnsureConnections, Places
<1>4. CASE LookForRepository
  BY <1>1, <1>4, <1>m DEF LookForRepository, RepositoryExists, Places
<1>5. CASE CreateRepository \/ CreateGraphdbRepository
  <2>1. UNCHANGED <<applied, logged, key, paranet>> /\ repositories \subseteq repositories'
    BY <1>5 DEF CreateRepository, CreateGraphdbRepository, Post
  <2>2. \/ Die /\ UNCHANGED module
        \/ /\ UNCHANGED <<boot, waiting, unlogged>> /\ boot = "modules"
           /\ \/ module' = [module EXCEPT !["tripleStore"] = "ready"] /\ "dkg" \in repositories'
              \/ module' = [module EXCEPT !["tripleStore"] = "postAgain"]
    BY <1>5 DEF CreateRepository, CreateGraphdbRepository, Post
  <2>3. ModulesInv'
    BY <2>1, <2>2, <1>i, <1>m DEF ModulesInv, Places
  <2>4. MigrationsInv'
    BY <2>1, <2>2, <1>i, <1>m, MigrationsKept
  <2>5. ServicesInv'
    BY <2>1, <2>2, <1>i DEF ServicesInv, Die, Services, BehindRepository, BehindRecord
  <2> QED
    BY <2>3, <2>4, <2>5
<1>6. CASE ReadPrivateKey \/ SavePrivateKey
  <2>1. UNCHANGED <<applied, logged, repositories, paranet>> /\ module["network"] # "ready"
    BY <1>6 DEF ReadPrivateKey, SavePrivateKey
  <2>2. \/ Die /\ UNCHANGED <<module, key>>
        \/ /\ UNCHANGED <<boot, waiting, unlogged>> /\ boot = "modules"
           /\ \/ module' = [module EXCEPT !["network"] = "ready"] /\ key' = "whole"
              \/ module' = [module EXCEPT !["network"] = "save"]
    BY <1>6 DEF ReadPrivateKey, SavePrivateKey
  <2>3. ModulesInv'
    BY <2>1, <2>2, <1>i, <1>m DEF ModulesInv, Places
  <2>4. MigrationsInv'
    BY <2>1, <2>2, <1>i, <1>m, MigrationsKept
  <2>5. ServicesInv'
    BY <2>1, <2>2, <1>i DEF ServicesInv, Die, Services, BehindRepository, BehindRecord
  <2> QED
    BY <2>3, <2>4, <2>5
<1>7. ASSUME NEW m \in {"blockchain", "blockchainEvents"}, InitializeChain(m)
      PROVE  StartupInv'
  BY <1>1, <1>7, <1>m DEF InitializeChain, RequiredModules, Places
<1> QED
  BY <1>2, <1>3, <1>4, <1>5, <1>6, <1>7, <1>m DEF ModuleStep

\* The steps of the migrations.
LEMMA RepositoryKeepsStartup ==
  ASSUME StartupInv, ModuleStep("repository")
  PROVE  StartupInv'
<1> USE DEF StartupInv, fileVars, databaseVars, storeVars, laterVars,
            Stop, Goto, At, GoesOn, Works, Fails
<1>m. Modules = {"repository", "tripleStore", "network", "blockchain", "blockchainEvents"}
  BY DEF Modules
<1>i. /\ module \in [Modules -> Places]
      /\ boot \in Services => \A m \in Modules : module[m] \in {"ready", "failed"}
  BY DEF ModulesInv, ServicesInv
<1>a. boot = "modules" /\ module["repository"] \in Places \ {"ready", "failed"}
  BY DEF ModuleStep, CreateDatabase, MigrateUp, LogMigration,
         MigrateDown, RemoveLog, Places
\* What does not concern the repository stays, and a process that goes on is still at its modules.
<1>1. ASSUME UNCHANGED <<repositories, key, paranet>>,
             \/ boot' = "down" /\ module' = module
             \/ /\ boot' = boot
                /\ \/ \E place \in Places \ {"ready", "failed"} :
                        module' = [module EXCEPT !["repository"] = place]
                   \/ module' = [module EXCEPT !["repository"] = "ready"] /\ logged' = Migrations
      PROVE  ModulesInv' /\ ServicesInv'
  BY <1>1, <1>a, <1>i, <1>m
     DEF ModulesInv, ServicesInv, Services, BehindRepository, BehindRecord, Places
<1>f. logged' = logged => LastLogged' = LastLogged
                          /\ FirstPending' = FirstPending
  BY DEF LastLogged, FirstPending
<1>l. /\ logged \subseteq applied \cup unlogged \cup
           (IF module["repository"] = "reverted" THEN {LastLogged} ELSE {})
      /\ module["repository"] = "log" => FirstPending \in applied
  BY <1>a DEF MigrationsInv
<1>2. CASE CreateDatabase
  <2>1. ModulesInv' /\ ServicesInv'
    BY <1>1, <1>2 DEF CreateDatabase, Die, Places
  <2>2. MigrationsInv'
    BY <1>2, <1>i, <1>m, MigrationsKept DEF CreateDatabase
  <2> QED
    BY <2>1, <2>2
<1>3. CASE MigrateUp
  <2>1. ModulesInv' /\ ServicesInv'
    BY <1>1, <1>3 DEF MigrateUp, Places
  <2>2. /\ UNCHANGED <<logged, unlogged, boot>> /\ module["repository"] = "migrate"
        /\ module' \in [Modules -> Places] /\ applied \subseteq applied'
        /\ module'["repository"] # "reverted"
        /\ module'["repository"] = "log" => FirstPending \in applied'
    <3>1. UNCHANGED <<logged, unlogged, boot>> /\ module["repository"] = "migrate"
          /\ applied \subseteq applied'
      BY <1>3 DEF MigrateUp
    <3>2. \/ module' = [module EXCEPT !["repository"] = "ready"]
          \/ module' = [module EXCEPT !["repository"] = "revert"]
          \/ /\ module' = [module EXCEPT !["repository"] = "log"]
             /\ applied' = applied \cup {FirstPending}
      BY <1>3 DEF MigrateUp
    <3> QED
      BY <3>1, <3>2, <1>i, <1>m DEF Places
  <2>3. MigrationsInv'
    <3>1. logged \subseteq applied \cup unlogged
      BY <1>l, <2>2
    <3>2. logged' \subseteq applied' \cup unlogged'
      BY <2>2, <3>1
    <3> QED
      BY <2>2, <3>2, <1>f DEF MigrationsInv
  <2> QED
    BY <2>1, <2>3
<1>4. CASE LogMigration
  <2>1. ModulesInv' /\ ServicesInv'
    BY <1>1, <1>4 DEF LogMigration, Places
  <2>2. UNCHANGED <<applied, unlogged, boot>> /\ module["repository"] = "log"
        /\ module'["repository"] \in {"migrate", "revert"}
        /\ logged' \subseteq logged \cup {FirstPending}
    BY <1>4, <1>i, <1>m DEF LogMigration
  <2>3. MigrationsInv'
    BY <2>2, <1>l DEF MigrationsInv
  <2> QED
    BY <2>1, <2>3
<1>5. CASE MigrateDown
  <2>1. ModulesInv' /\ ServicesInv'
    BY <1>1, <1>5 DEF MigrateDown, Die, Places
  <2>2. CASE UNCHANGED <<applied, module>> /\ Die
    <3>1. logged' = logged
      BY <1>5 DEF MigrateDown
    <3>2. MigrationsInv'
      BY <2>2, <3>1, MigrationsKept
    <3> QED
      BY <2>1, <3>2
  <2>3. CASE Goto("repository", "reverted") /\ applied' = applied \ {LastLogged}
    <3>1. UNCHANGED <<logged, unlogged, boot>> /\ module["repository"] = "revert"
          /\ module'["repository"] = "reverted" /\ boot # "down"
      BY <1>5, <1>a, <1>i, <1>m, <2>3 DEF MigrateDown
    <3> QED
      BY <1>f, <1>l, <2>1, <2>3, <3>1 DEF MigrationsInv
  <2> QED
    BY <1>5, <2>1, <2>2, <2>3 DEF MigrateDown
<1>6. CASE RemoveLog
  <2>1. ModulesInv' /\ ServicesInv'
    BY <1>1, <1>6 DEF RemoveLog, Die
  <2>2. boot' = "down" /\ module["repository"] = "reverted" /\ UNCHANGED <<module, applied>>
    BY <1>6 DEF RemoveLog, Die
  <2>3. \/ logged' = logged \ {LastLogged} /\ unlogged' = unlogged
        \/ logged' = logged /\ unlogged' = unlogged \cup {LastLogged}
    BY <1>6 DEF RemoveLog, Die
  <2>4. MigrationsInv'
    BY <1>l, <2>2, <2>3 DEF MigrationsInv
  <2> QED
    BY <2>1, <2>4
<1> QED
  BY <1>2, <1>3, <1>4, <1>5, <1>6 DEF ModuleStep

\* The stages in order, and the requests.
LEMMA StageKeepsStartup ==
  ASSUME StartupInv, BootStep \/ AcceptRequest \/ RunCommand
  PROVE  StartupInv'
<1> USE DEF StartupInv, fileVars, databaseVars, storeVars, laterVars,
            Works, Fails
<1>m. Modules = {"repository", "tripleStore", "network", "blockchain", "blockchainEvents"}
  BY DEF Modules
<1>i. /\ module \in [Modules -> Places]
      /\ boot \in Services => \A m \in Modules : module[m] \in {"ready", "failed"}
      /\ boot \in BehindRepository => "paranet" \in repositories
      /\ boot \in BehindRecord => paranet
  BY DEF ModulesInv, ServicesInv
\* A stage that comes after this one, or the end of the process.
<1>1. ASSUME UNCHANGED <<applied, logged, key, module>>, repositories \subseteq repositories',
             paranet' \in BOOLEAN, paranet => paranet', boot # "down",
             Die \/ (unlogged' = unlogged /\ boot' # "down"),
             boot' \in Services => \A m \in Modules : module[m] \in {"ready", "failed"},
             boot' \in BehindRepository => "paranet" \in repositories',
             boot' \in BehindRecord => paranet'
      PROVE  StartupInv'
  <2>1. ModulesInv'
    BY <1>1 DEF ModulesInv
  <2>2. MigrationsInv'
    BY <1>1, MigrationsKept
  <2>3. ServicesInv'
    BY <1>1 DEF ServicesInv
  <2> QED
    BY <2>1, <2>2, <2>3
<1>p. paranet \in BOOLEAN
  BY DEF ModulesInv
<1>2. CASE LoadConfiguration
  <2>1. /\ UNCHANGED <<applied, logged, unlogged, repositories, key, paranet>>
        /\ boot = "down" /\ boot' \in {"configuration", "modules"}
        /\ module' = [m \in Modules |-> "start"]
    BY <1>2 DEF LoadConfiguration
  <2>2. ModulesInv'
    BY <2>1, <1>m DEF ModulesInv, Places
  <2>3. MigrationsInv'
    BY <2>1, <1>m, MigrationsKept
  <2>4. ServicesInv'
    BY <2>1 DEF ServicesInv, Services, BehindRepository, BehindRecord
  <2> QED
    BY <2>2, <2>3, <2>4
<1>3. CASE MigrateConfiguration \/ WriteConfiguration \/ MarkMigration
  BY <1>1, <1>3, <1>p DEF MigrateConfiguration, WriteConfiguration, MarkMigration,
     Services, BehindRepository, BehindRecord
<1>4. CASE ModulesInitialized
  BY <1>1, <1>4, <1>p DEF ModulesInitialized, Services, BehindRepository, BehindRecord
<1>s. ASSUME NEW here \in Services, NEW next \in Services, Stage(here, next),
             repositories \subseteq repositories', paranet' \in BOOLEAN, paranet => paranet',
             boot' = next /\ next \in BehindRepository => "paranet" \in repositories',
             boot' = next /\ next \in BehindRecord => paranet'
      PROVE  StartupInv'
  <2>1. UNCHANGED <<applied, logged, key, module>> /\ boot = here /\ boot # "down"
        /\ (Die \/ (unlogged' = unlogged /\ boot' = next))
    <3>1. here # "down"
      BY DEF Services
    <3>2. UNCHANGED <<applied, logged, key, module>> /\ boot = here
      BY <1>s DEF Stage
    <3>3. Die \/ (unlogged' = unlogged /\ boot' = next)
      BY <1>s DEF Stage
    <3> QED
      BY <3>1, <3>2, <3>3
  <2>2. CASE unlogged' = unlogged /\ boot' = next
    <3>1. boot' # "down"
      BY <2>2 DEF Services
    <3> QED
      BY <1>1, <1>i, <1>s, <2>1, <2>2, <3>1
  <2>3. CASE Die
    <3>1. boot' \notin Services /\ boot' \notin BehindRepository /\ boot' \notin BehindRecord
      BY <2>3 DEF Die, Services, BehindRepository, BehindRecord
    <3> QED
      BY <1>1, <1>s, <2>1, <2>3, <3>1
  <2> QED
    BY <2>1, <2>2, <2>3
<1> USE DEF Services, BehindRepository, BehindRecord
<1>5. CASE InitializeShardingTable
  BY <1>s, <1>5, <1>p DEF InitializeShardingTable
<1>6. CASE InitializeParanetRepository
  BY <1>s, <1>6, <1>p DEF InitializeParanetRepository
<1>7. CASE InitializeParanetRecord
  <2>1. Stage("paranetRecord", "profiles") /\ repositories' = repositories
    BY <1>7 DEF InitializeParanetRecord
  <2>2. paranet' = (paranet \/ boot' # "down")
    BY <1>7 DEF InitializeParanetRecord
  <2>3. paranet' \in BOOLEAN /\ (paranet => paranet') /\ (boot' = "profiles" => paranet')
    BY <2>2
  <2>4. boot' = "profiles" => "paranet" \in repositories'
    BY <1>i, <2>1 DEF Stage
  <2> QED
    BY <1>s, <2>1, <2>3, <2>4
<1>8. ASSUME NEW here \in BehindRecord, NEW next \in BehindRecord, Stage(here, next),
             UNCHANGED <<repositories, paranet>>
      PROVE  StartupInv'
  <2>1. "paranet" \in repositories /\ paranet
    BY <1>8, <1>i DEF Stage
  <2> QED
    BY <1>s, <1>8, <1>p, <2>1
<1>9. CASE \/ CreateProfiles \/ InitializeCommandExecutor \/ InitializeRouters
           \/ StartNetworkModule \/ ResumeCommandExecutor
  BY <1>8, <1>9
     DEF CreateProfiles, InitializeCommandExecutor, InitializeRouters,
         StartNetworkModule, ResumeCommandExecutor
<1>10. CASE AcceptRequest \/ RunCommand
  BY <1>1, <1>10, <1>i, <1>p DEF AcceptRequest, RunCommand
<1> QED
  BY <1>2, <1>3, <1>4, <1>5, <1>6, <1>7, <1>9, <1>10 DEF BootStep

\* A node that accepts requests has its whole schema, its repositories and its key, after
\* any failures and crashes of this start and of earlier ones; a migration can be missing
\* from the schema only when a process died between reverting it and removing its row.
THEOREM UpMeansWholeCorrect == StartupSpec => []UpMeansWhole
<1> USE DEF StartupInv
<1>m. Modules = {"repository", "tripleStore", "network", "blockchain", "blockchainEvents"}
  BY DEF Modules
<1>1. StartupInit => StartupInv
  BY <1>m DEF StartupInit, ModulesInv, MigrationsInv, ServicesInv, Services, BehindRepository,
     BehindRecord, Places
<1>2. ASSUME StartupInv, [StartupNext]_startupVars
      PROVE  StartupInv'
  <2>1. CASE StartupNext
    BY <1>2, <2>1, ModuleKeepsStartup, RepositoryKeepsStartup, StageKeepsStartup DEF StartupNext
  <2>2. CASE UNCHANGED startupVars
    BY <1>2, <2>2 DEF ModulesInv, MigrationsInv, ServicesInv, startupVars,
       LastLogged, FirstPending
  <2> QED
    BY <1>2, <2>1, <2>2
<1>3. StartupInv => UpMeansWhole
  <2> SUFFICES ASSUME StartupInv, boot \in {"network", "resume", "up"}
               PROVE  /\ logged = Migrations /\ Migrations \subseteq applied \cup unlogged
                      /\ {"dkg", "paranet"} \subseteq repositories /\ paranet /\ key = "whole"
    BY DEF UpMeansWhole
  <2>1. \A m \in {"repository", "tripleStore", "network"} : module[m] = "ready"
    BY <1>m DEF ModulesInv, ServicesInv, Services
  <2>2. boot \in BehindRepository /\ boot \in BehindRecord
    BY DEF BehindRepository, BehindRecord, Services
  <2>3. "paranet" \in repositories /\ paranet
    BY <2>2 DEF ServicesInv
  <2> QED
    BY <2>1, <2>3 DEF ModulesInv, MigrationsInv
<1> QED
  BY <1>1, <1>2, <1>3, PTL DEF StartupSpec

=============================================================================
