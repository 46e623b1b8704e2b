------------------------------- MODULE AppKeys -------------------------------
(***************************************************************************)
(* The keys of an app.  Its mnemonic is derived from the spelling of the   *)
(* app's ID; a release may put a MNEMONIC of the developer's in its place. *)
(* The mnemonic reaches the world on three paths:                          *)
(*   /addresses and /addresses/v2, asked before the app is deployed        *)
(*     (internal/handlers/addresses.go);                                   *)
(*   the env a booting instance gets, whose addresses are the app's        *)
(*     accounts (internal/handlers/env.go);                                *)
(*   the storage key of the app's persistent disk, which outlives releases *)
(*     and instances (kms-client derive-storage-key).                      *)
(*                                                                         *)
(* An app is an address; an ID is a spelling of it.  The code compares IDs *)
(* in three ways: as addresses on chain, without regard to case in the     *)
(* JWE header of the sealed env, and byte by byte in the derivation.  Who  *)
(* may have an env at all is EnvServer's subject; here every boot may.     *)
(***************************************************************************)
EXTENDS Integers

CONSTANTS
    Apps,           \* addresses
    Queries,        \* the spellings given to the API and to encrypting tools
    InstanceNames,  \* the spellings in instance names (lower case)
    Releases,       \* what a release may say of keys
    Absent,         \* no value
    Invalid,        \* a MNEMONIC that is no BIP39 mnemonic
    MaxAddresses,   \* maxAddresses
    AddressesToLog  \* types.NumAddressesToDerive

VARIABLES
    release,        \* the latest release of each app
    planned,        \* the last answer /addresses gave for each app
    boot,           \* the last boot of an instance of each app
    disk            \* what each app's persistent disk was formatted with

keyVars == <<release, planned, boot, disk>>

-----------------------------------------------------------------------------
(* An ID is [address, checksummed, prefixed]: an address, its letters in   *)
(* checksum case or lower case, with or without 0x.                        *)
ToLower(id) == [address |-> id.address, checksummed |-> FALSE, prefixed |-> id.prefixed]

HexToAddress(id) == id.address

(* Mutant: the header is compared byte by byte. *)
EqualBytes(id1, id2) == id1 = id2

EqualFold(id1, id2) == ToLower(id1) = ToLower(id2)

(* Mutant: the parameter is taken as it is written. *)
QueryVerbatim(query) == query

(* The appID query parameter, as the handlers take it. *)
QueryID(query) == ToLower(query)

(* The spellings.  Nothing but lower case is an instance's name. *)
ID == [address : Apps, checksummed : BOOLEAN, prefixed : BOOLEAN]

ASSUME IDAssumption ==
    /\ Queries \subseteq ID /\ InstanceNames \subseteq ID
    /\ \A id \in InstanceNames : ~id.checksummed
    /\ \A r \in Releases : r.sealedFor \in ID

(* The MAC of the ID's bytes, as words. *)
DeriveMnemonic(id) == <<"derived", id>>

(* Mutant: the mnemonic is that of the ID in the JWE header. *)
CombineForHeader(mnemonic, r) ==
    IF r.public # Absent THEN r.public
    ELSE IF r.private # Absent THEN r.private
    ELSE DeriveMnemonic(r.sealedFor)

(* A release is [sealedFor, private, public]: the ID its secrets were      *)
(* sealed for, and what its envs have under MNEMONIC.                      *)
(* Precedence: the private env overrides the mnemonic, the public env both.*)
CombineEnvironments(mnemonic, r) ==
    IF r.public # Absent THEN r.public
    ELSE IF r.private # Absent THEN r.private
    ELSE mnemonic

(* Wallets, by mnemonic and derivation path. *)
GenerateSolanaWalletFromMnemonicSeed(mnemonic, index) == <<mnemonic, <<44, 501, index, 0>>>>

DeriveAddressesFromMnemonic(mnemonic, count) ==
    [i \in 0..(count - 1) |->
        [evm    |-> <<mnemonic, <<44, 60, 0, 0, i>>>>,
         solana |-> GenerateSolanaWalletFromMnemonicSeed(mnemonic, i)]]

DeriveStorageKey(mnemonic) == <<"EIGENX_STORAGE_KEY_DERIVATION_V1", mnemonic>>

-----------------------------------------------------------------------------
NoRelease == [sealedFor |-> Absent, private |-> Absent, public |-> Absent]

NotPlanned == [asked |-> Absent, addresses |-> <<>>]

NotBooted == [outcome |-> "none", id |-> Absent, release |-> NoRelease, addresses |-> <<>>]

Blank == [key |-> Absent, id |-> Absent, release |-> NoRelease]

KeyInit ==
    /\ release = [a \in Apps |-> NoRelease]
    /\ planned = [a \in Apps |-> NotPlanned]
    /\ boot = [a \in Apps |-> NotBooted]
    /\ disk = [a \in Apps |-> Blank]

(* The developer seals secrets for the app and upgrades it. *)
Upgrade(a, r) ==
    /\ HexToAddress(r.sealedFor) = a
    /\ release' = [release EXCEPT ![a] = r]
    /\ UNCHANGED <<planned, boot, disk>>

(* What both /addresses endpoints answer; another count is answered 400.   *)
DeriveAddressesFromRequest(query, count) ==
    DeriveAddressesFromMnemonic(DeriveMnemonic(QueryID(query)), count)

HandleAddresses(query, count) ==
    /\ count \in 1..MaxAddresses
    /\ planned' = [planned EXCEPT ![HexToAddress(query)] =
          [asked |-> query, addresses |-> DeriveAddressesFromRequest(query, count)]]
    /\ UNCHANGED <<release, boot, disk>>

Booted(id, outcome, addresses) ==
    boot' = [boot EXCEPT ![HexToAddress(id)] =
        [outcome |-> outcome, id |-> id, release |-> release[HexToAddress(id)],
         addresses |-> addresses]]

(* An instance runs derive-storage-key, which asks in the name of the      *)
(* instance only, then opens the app's disk, or formats it if it is new.   *)
(* GetEnv fails on words no address derives from.                          *)
Boot(id) ==
    LET a        == HexToAddress(id)
        mnemonic == CombineEnvironments(DeriveMnemonic(id), release[a])
        key      == DeriveStorageKey(mnemonic)
        accounts == DeriveAddressesFromMnemonic(mnemonic, AddressesToLog)
    IN  /\ release[a] # NoRelease
        /\ \/ /\ ~EqualFold(release[a].sealedFor, id)
              /\ Booted(id, "refused", <<>>) /\ UNCHANGED disk
           \/ /\ EqualFold(release[a].sealedFor, id) /\ mnemonic = Invalid
              /\ Booted(id, "failed", <<>>) /\ UNCHANGED disk
           \/ /\ EqualFold(release[a].sealedFor, id) /\ mnemonic # Invalid
              /\ disk[a].key = Absent
              /\ Booted(id, "opened", accounts)
              /\ disk' = [disk EXCEPT ![a] = [key |-> key, id |-> id, release |-> release[a]]]
           \/ /\ EqualFold(release[a].sealedFor, id) /\ mnemonic # Invalid
              /\ disk[a].key # Absent
              /\ Booted(id, IF disk[a].key = key THEN "opened" ELSE "locked", accounts)
              /\ UNCHANGED disk
        /\ UNCHANGED <<release, planned>>

KeyNext ==
    \/ \E a \in Apps, r \in Releases : Upgrade(a, r)
    \/ \E q \in Queries, count \in 0..(MaxAddresses + 1) : HandleAddresses(q, count)
    \/ \E id \in InstanceNames : Boot(id)

KeySpec == KeyInit /\ [][KeyNext]_keyVars

-----------------------------------------------------------------------------
Served(a) == boot[a].outcome \in {"opened", "locked"}

(* The MNEMONIC a release brings along, if any. *)
BroughtAlong(r) == IF r.public # Absent THEN r.public ELSE r.private

(* No two parts of the system disagree over the case of an ID: an instance *)
(* is refused the env of its app's release only if the ID the developer    *)
(* sealed it for differs in more than case (env.go:373).                   *)
CaseNeverRefuses ==
    \A a \in Apps : boot[a].outcome = "refused" =>
        boot[a].id.prefixed # boot[a].release.sealedFor.prefixed

(* The addresses planned with are the accounts the app has: at every index *)
(* both name, unless its release brought its own MNEMONIC or the planner   *)
(* left out (or added) the 0x (addresses.go:19-58, env.go:395-407).        *)
PlansHold ==
    \A a \in Apps :
        /\ Served(a) /\ planned[a].asked # Absent
        /\ BroughtAlong(boot[a].release) = Absent
        /\ planned[a].asked.prefixed = boot[a].id.prefixed
        => \A i \in DOMAIN planned[a].addresses \cap DOMAIN boot[a].addresses :
               planned[a].addresses[i] = boot[a].addresses[i]

(* No upgrade locks an app out of its disk: whatever happened in between,  *)
(* an instance fails to open a disk that another formatted only if the two *)
(* releases differ in the MNEMONIC they bring along, or the instances in   *)
(* the 0x of their IDs (storage_key.go:13-56, env.go:395-407).             *)
DiskStaysReadable ==
    \A a \in Apps : boot[a].outcome = "locked" =>
        \/ BroughtAlong(disk[a].release) # BroughtAlong(boot[a].release)
        \/ disk[a].id.prefixed # boot[a].id.prefixed

=============================================================================
