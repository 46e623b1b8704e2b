------------------------------ MODULE AppChain ------------------------------
(***************************************************************************)
(* The chain the KMS reads through its RPC provider: the AppController     *)
(* contract, which records every AppUpgraded event and the block of the    *)
(* latest one per app, and the ImageAllowlist contract, whose policy is    *)
(* the set of base images and the minimum TCB versions in force.           *)
(*                                                                         *)
(* The contracts are not in this repository.  They are modelled from the   *)
(* calls pkg/chainclient makes: GetAppLatestReleaseBlockNumber,            *)
(* FilterAppUpgraded, IsImageAllowed and IsTCBValid.  A provider answers a *)
(* call from one of several nodes; a node may be up to MaxLag blocks       *)
(* behind the head.  Blocks are final: reorganisations are not modelled.   *)
(***************************************************************************)
EXTENDS Integers, Sequences

CONSTANTS
    Apps,         \* app contract addresses
    Releases,     \* the release payloads a developer may publish
    Policies,     \* the allowlist states governance may set
    MaxLag,       \* how many blocks a node of the provider may lag
    MaxBlocks,    \* bound: the height mining stops at
    MaxPerBlock   \* bound: upgrades of one app in one block

ASSUME ChainAssumption == MaxLag \in Nat /\ MaxBlocks \in Nat /\ MaxPerBlock \in Nat

VARIABLE chain    \* the blocks mined so far, oldest first

-----------------------------------------------------------------------------
Height == Len(chain)

(* A block: the contract's latest-release table after it, its AppUpgraded  *)
(* events per app in log order, and the allowlist policy after it.         *)
Block == [latest   : [Apps -> Nat],
          upgrades : [Apps -> Seq(Releases)],
          policy   : Policies]

(* An AppUpgraded event is named by its place on the chain. *)
Position == [block : Nat, logIndex : Nat]

NoRelease == [block |-> 0, logIndex |-> 0]

ReleaseAt(app, pos) == chain[pos.block].upgrades[app][pos.logIndex]

(* The order in which the contract accepted the upgrades of an app. *)
Before(p, q) == \/ p.block < q.block
                \/ p.block = q.block /\ p.logIndex < q.logIndex

(* The heights of the nodes that may answer a call now. *)
Views == {h \in 1..Height : Height - h <= MaxLag}

-----------------------------------------------------------------------------
(* Contract view call: the block of the app's latest upgrade, 0 for none. *)
GetAppLatestReleaseBlockNumber(app, h) == chain[h].latest[app]

(* Mutant: the filter's Start is not set, so it matches every block to b.  *)
FilterWithoutStart(app, b, h) ==
    {p \in [block : 1..b, logIndex : 1..MaxPerBlock] :
        b \in 1..h /\ p.logIndex \in DOMAIN chain[p.block].upgrades[app]}

(* The app's AppUpgraded events in block b alone (Start = End = b), as a   *)
(* node at height h knows them.                                            *)
FilterAppUpgraded(app, b, h) ==
    {p \in [block : {b}, logIndex : 1..MaxPerBlock] :
        b \in 1..h /\ p.logIndex \in DOMAIN chain[b].upgrades[app]}

-----------------------------------------------------------------------------
(* The lists of upgrades of one app that one block may hold. *)
UpgradeLists == UNION {[1..n -> Releases] : n \in 0..MaxPerBlock}

GenesisBlock(policy) == [latest   |-> [a \in Apps |-> 0],
                         upgrades |-> [a \in Apps |-> <<>>],
                         policy   |-> policy]

ChainInit == \E policy \in Policies : chain = <<GenesisBlock(policy)>>

(* Developers upgrade apps and governance moves the policy; all take       *)
(* effect together when the block is mined.                                *)
MineBlock ==
    /\ Height < MaxBlocks
    /\ \E ups \in [Apps -> UpgradeLists], policy \in Policies :
          chain' = Append(chain,
            [latest   |-> [a \in Apps |-> IF ups[a] = <<>>
                                            THEN chain[Height].latest[a]
                                            ELSE Height + 1],
             upgrades |-> ups,
             policy   |-> policy])

=============================================================================
