---------------------------- MODULE AppKeysProofs ----------------------------
(***************************************************************************)
(* Proofs about AppKeys, for any apps, spellings and releases: when an     *)
(* app keeps its addresses and its disk, and that case is never an issue.  *)
(*                                                                         *)
(* The invariant says of each record the model keeps what it was computed  *)
(* from, which the release of the moment no longer tells; the theorems     *)
(* follow from it by comparing two such computations.                      *)
(***************************************************************************)
EXTENDS AppKeys, TLAPS

Mnemonic(id, r) == CombineEnvironments(DeriveMnemonic(id), r)

PlanInv(a) ==
    planned[a].asked # Absent =>
        /\ planned[a].asked \in ID /\ planned[a].asked.address = a
        /\ \E count \in Nat :
              planned[a].addresses = DeriveAddressesFromRequest(planned[a].asked, count)

DiskInv(a) ==
    disk[a].key # Absent =>
        /\ disk[a].id \in InstanceNames /\ disk[a].id.address = a
        /\ disk[a].key = DeriveStorageKey(Mnemonic(disk[a].id, disk[a].release))

BootInv(a) ==
    /\ boot[a].outcome # "none" =>
          /\ boot[a].id \in InstanceNames /\ boot[a].id.address = a
          /\ boot[a].release \in Releases /\ boot[a].release.sealedFor.address = a
    /\ boot[a].outcome = "refused" => ~EqualFold(boot[a].release.sealedFor, boot[a].id)
    /\ Served(a) =>
          boot[a].addresses = DeriveAddressesFromMnemonic(
                                 Mnemonic(boot[a].id, boot[a].release), AddressesToLog)
    /\ boot[a].outcome = "locked" =>
          /\ disk[a].key # Absent
          /\ disk[a].key # DeriveStorageKey(Mnemonic(boot[a].id, boot[a].release))

KeyInv ==
    /\ DOMAIN release = Apps /\ DOMAIN planned = Apps /\ DOMAIN boot = Apps /\ DOMAIN disk = Apps
    /\ \A a \in Apps :
          /\ release[a] # NoRelease => release[a] \in Releases /\ release[a].sealedFor.address = a
          /\ PlanInv(a) /\ DiskInv(a) /\ BootInv(a)
-----------------------------------------------------------------------------
(* An ID is lower case when an env is served for it. *)
LEMMA ServedIDs == InstanceNames \subseteq {id \in ID : ~id.checksummed}
BY IDAssumption

(* Spellings in lower case differ in the 0x alone. *)
LEMMA LowerCaseIDs ==
    ASSUME NEW x \in ID, NEW y \in ID, x.address = y.address, x.prefixed = y.prefixed
    PROVE  /\ EqualFold(x, y)
           /\ ~x.checksummed /\ ~y.checksummed => x = y
           /\ ~y.checksummed => QueryID(x) = y
<1> DEFINE lower(p) == [address |-> x.address, checksummed |-> FALSE, prefixed |-> p]
<1>1. x = [address |-> x.address, checksummed |-> x.checksummed, prefixed |-> x.prefixed]
  BY DEF ID
<1>2. y = [address |-> y.address, checksummed |-> y.checksummed, prefixed |-> y.prefixed]
  BY DEF ID
<1>3. ToLower(x) = lower(x.prefixed)
  BY DEF ToLower
<1>4. ToLower(y) = lower(y.prefixed)
  BY DEF ToLower
<1>5. ~x.checksummed => x = lower(x.prefixed)
  BY <1>1 DEF ID
<1>6. ~y.checksummed => y = lower(y.prefixed)
  BY <1>2 DEF ID
<1> HIDE DEF lower
<1> QED BY <1>3, <1>4, <1>5, <1>6 DEF EqualFold, QueryID

(* What a release brings along takes the place of the derived mnemonic. *)
LEMMA BroughtAlongWins ==
    ASSUME NEW id, NEW r
    PROVE  Mnemonic(id, r) = IF BroughtAlong(r) # Absent THEN BroughtAlong(r)
                                                         ELSE DeriveMnemonic(id)
BY DEF Mnemonic, CombineEnvironments, BroughtAlong

-----------------------------------------------------------------------------
LEMMA KeyInitEstablishes == KeyInit => KeyInv
BY DEF KeyInit, KeyInv, NoRelease, NotPlanned, NotBooted, Blank, PlanInv, DiskInv, BootInv, Served

LEMMA UpgradePreserves ==
    ASSUME KeyInv, NEW a \in Apps, NEW r \in Releases, Upgrade(a, r)
    PROVE  KeyInv'
BY DEF KeyInv, Upgrade, HexToAddress, PlanInv, DiskInv, BootInv, Served

LEMMA HandleAddressesPreserves ==
    ASSUME KeyInv, NEW q \in Queries, NEW count \in Nat, HandleAddresses(q, count)
    PROVE  KeyInv'
<1>1. q \in ID
  BY IDAssumption
<1>2. planned' = [planned EXCEPT ![q.address] =
         [asked |-> q, addresses |-> DeriveAddressesFromRequest(q, count)]]
  BY DEF HandleAddresses, HexToAddress
<1>3. ASSUME NEW a \in Apps
      PROVE  PlanInv(a)'
  <2>1. CASE a = q.address
    <3>1. planned'[a] = [asked |-> q, addresses |-> DeriveAddressesFromRequest(q, count)]
      BY <1>2, <2>1 DEF KeyInv
    <3> QED BY <1>1, <2>1, <3>1 DEF PlanInv
  <2>2. CASE a # q.address
    BY <1>2, <2>2 DEF KeyInv, PlanInv
  <2> QED BY <2>1, <2>2
<1>4. UNCHANGED <<release, boot, disk>> /\ DOMAIN planned' = Apps
  BY <1>2 DEF HandleAddresses, KeyInv
<1> QED BY <1>3, <1>4 DEF KeyInv, DiskInv, BootInv, Served

LEMMA BootPreserves ==
    ASSUME KeyInv, NEW id \in InstanceNames, Boot(id)
    PROVE  KeyInv'
<1> DEFINE a        == id.address
           mnemonic == Mnemonic(id, release[a])
           key      == DeriveStorageKey(mnemonic)
           accounts == DeriveAddressesFromMnemonic(mnemonic, AddressesToLog)
<1>1. id \in ID /\ a \in Apps
  BY ServedIDs DEF ID
<1>2. release[a] \in Releases /\ release[a].sealedFor.address = a
  BY <1>1 DEF Boot, HexToAddress, KeyInv
<1>3. \E outcome \in {"refused", "failed", "opened", "locked"}, addresses \in {<<>>, accounts} :
         /\ boot' = [boot EXCEPT ![a] = [outcome |-> outcome, id |-> id,
                                         release |-> release[a], addresses |-> addresses]]
         /\ outcome = "refused" => ~EqualFold(release[a].sealedFor, id)
         /\ outcome \in {"opened", "locked"} => addresses = accounts
         /\ outcome = "locked" => disk[a].key # Absent /\ disk[a].key # key
         /\ \/ UNCHANGED disk
            \/ /\ disk[a].key = Absent /\ outcome = "opened"
               /\ disk' = [disk EXCEPT ![a] = [key |-> key, id |-> id, release |-> release[a]]]
  BY DEF Boot, Booted, HexToAddress, Mnemonic
<1>4. PICK outcome \in {"refused", "failed", "opened", "locked"}, addresses \in {<<>>, accounts} :
         /\ boot' = [boot EXCEPT ![a] = [outcome |-> outcome, id |-> id,
                                         release |-> release[a], addresses |-> addresses]]
         /\ outcome = "refused" => ~EqualFold(release[a].sealedFor, id)
         /\ outcome \in {"opened", "locked"} => addresses = accounts
         /\ outcome = "locked" => disk[a].key # Absent /\ disk[a].key # key
         /\ \/ UNCHANGED disk
            \/ /\ disk[a].key = Absent /\ outcome = "opened"
               /\ disk' = [disk EXCEPT ![a] = [key |-> key, id |-> id, release |-> release[a]]]
  BY <1>3
<1>5. UNCHANGED <<release, planned>> /\ DOMAIN boot' = Apps /\ DOMAIN disk' = Apps
  BY <1>4 DEF Boot, KeyInv
<1>6. ASSUME NEW b \in Apps
      PROVE  DiskInv(b)'
  <2>1. CASE disk'[b] = disk[b]
    BY <2>1 DEF KeyInv, DiskInv
  <2>2. CASE b = a /\ disk'[a] = [key |-> key, id |-> id, release |-> release[a]]
    BY <2>2 DEF DiskInv
  <2> QED BY <1>1, <1>4, <2>1, <2>2 DEF KeyInv
<1>7. ASSUME NEW b \in Apps
      PROVE  BootInv(b)'
  <2>1. CASE b # a
    BY <1>4, <2>1 DEF KeyInv, BootInv, Served
  <2>2. CASE b = a
    <3>1. boot'[a] = [outcome |-> outcome, id |-> id,
                      release |-> release[a], addresses |-> addresses]
      BY <1>1, <1>4 DEF KeyInv
    <3>2. outcome = "locked" => disk'[a].key = disk[a].key
      BY <1>4
    <3> HIDE DEF accounts, key
    <3> QED BY <1>2, <1>4, <2>2, <3>1, <3>2 DEF BootInv, Served, accounts, key
  <2> QED BY <2>1, <2>2
<1> QED BY <1>5, <1>6, <1>7 DEF KeyInv, PlanInv

(* KeyInv is inductive. *)
THEOREM KeyInvariance == KeySpec => []KeyInv
<1>1. KeyInv /\ [KeyNext]_keyVars => KeyInv'
  <2> SUFFICES ASSUME KeyInv, [KeyNext]_keyVars PROVE KeyInv'
    OBVIOUS
  <2>1. ASSUME NEW a \in Apps, NEW r \in Releases, Upgrade(a, r)
        PROVE  KeyInv'
    BY <2>1, UpgradePreserves
  <2>2. ASSUME NEW q \in Queries, NEW count \in 0..(MaxAddresses + 1), HandleAddresses(q, count)
        PROVE  KeyInv'
    <3>1. count \in Nat
      BY <2>2 DEF HandleAddresses
    <3> QED BY <2>2, <3>1, HandleAddressesPreserves
  <2>3. ASSUME NEW id \in InstanceNames, Boot(id)
        PROVE  KeyInv'
    BY <2>3, BootPreserves
  <2>4. CASE UNCHANGED keyVars
    BY <2>4 DEF keyVars, KeyInv, PlanInv, DiskInv, BootInv, Served
  <2> QED BY <2>1, <2>2, <2>3, <2>4 DEF KeyNext
<1> QED BY KeyInitEstablishes, <1>1, PTL DEF KeySpec

-----------------------------------------------------------------------------
(* An instance is refused its env over the 0x of an ID at most (env.go:373).*)
THEOREM CaseAlwaysIgnored == KeySpec => []CaseNeverRefuses
<1>1. KeyInv => CaseNeverRefuses
  <2> SUFFICES ASSUME KeyInv, NEW a \in Apps, boot[a].outcome = "refused"
               PROVE  boot[a].id.prefixed # boot[a].release.sealedFor.prefixed
    BY DEF CaseNeverRefuses
  <2>1. /\ boot[a].id \in ID /\ boot[a].release.sealedFor \in ID
        /\ boot[a].id.address = a /\ boot[a].release.sealedFor.address = a
        /\ ~EqualFold(boot[a].release.sealedFor, boot[a].id)
    BY ServedIDs, IDAssumption DEF KeyInv, BootInv
  <2> QED BY <2>1, LowerCaseIDs
<1> QED BY <1>1, KeyInvariance, PTL

(* Addresses planned with stay the app's (addresses.go:19-58). *)
THEOREM PlansAlwaysHold == KeySpec => []PlansHold
<1>1. KeyInv => PlansHold
  <2> SUFFICES ASSUME KeyInv, NEW a \in Apps, Served(a), planned[a].asked # Absent,
                      BroughtAlong(boot[a].release) = Absent,
                      planned[a].asked.prefixed = boot[a].id.prefixed,
                      NEW i \in DOMAIN planned[a].addresses \cap DOMAIN boot[a].addresses
               PROVE  planned[a].addresses[i] = boot[a].addresses[i]
    BY DEF PlansHold
  <2>1. PICK count \in Nat :
           planned[a].addresses = DeriveAddressesFromRequest(planned[a].asked, count)
    BY DEF KeyInv, PlanInv
  <2>2. boot[a].addresses = DeriveAddressesFromMnemonic(DeriveMnemonic(boot[a].id), AddressesToLog)
    BY BroughtAlongWins DEF KeyInv, BootInv
  <2>3. QueryID(planned[a].asked) = boot[a].id
    <3>1. /\ planned[a].asked \in ID /\ planned[a].asked.address = a
          /\ boot[a].id \in ID /\ boot[a].id.address = a /\ ~boot[a].id.checksummed
      BY ServedIDs DEF KeyInv, PlanInv, BootInv, Served
    <3> QED BY <3>1, LowerCaseIDs
  <2> QED BY <2>1, <2>2, <2>3 DEF DeriveAddressesFromRequest, DeriveAddressesFromMnemonic
<1> QED BY <1>1, KeyInvariance, PTL

(* No upgrade locks an app out of its disk but by its MNEMONIC, or a 0x    *)
(* (storage_key.go:13-56).                                                 *)
THEOREM DiskAlwaysReadable == KeySpec => []DiskStaysReadable
<1>1. KeyInv => DiskStaysReadable
  <2> SUFFICES ASSUME KeyInv, NEW a \in Apps, boot[a].outcome = "locked",
                      BroughtAlong(disk[a].release) = BroughtAlong(boot[a].release),
                      disk[a].id.prefixed = boot[a].id.prefixed
               PROVE  FALSE
    BY DEF DiskStaysReadable
  <2>1. /\ disk[a].key # DeriveStorageKey(Mnemonic(boot[a].id, boot[a].release))
        /\ disk[a].key = DeriveStorageKey(Mnemonic(disk[a].id, disk[a].release))
    BY DEF KeyInv, BootInv, DiskInv
  <2>2. disk[a].id = boot[a].id
    <3>1. /\ disk[a].id \in ID /\ disk[a].id.address = a /\ ~disk[a].id.checksummed
          /\ boot[a].id \in ID /\ boot[a].id.address = a /\ ~boot[a].id.checksummed
      BY ServedIDs DEF KeyInv, BootInv, DiskInv
    <3> QED BY <3>1, LowerCaseIDs
  <2>3. Mnemonic(disk[a].id, disk[a].release) = Mnemonic(boot[a].id, boot[a].release)
    BY <2>2, BroughtAlongWins
  <2> QED BY <2>1, <2>3
<1> QED BY <1>1, KeyInvariance, PTL
=============================================================================
