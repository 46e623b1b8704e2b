---------------------------- MODULE ReleaseFetch ----------------------------
(***************************************************************************)
(* chainClientImpl.GetLatestRelease (pkg/chainclient/chainclient.go), run  *)
(* by concurrent request handlers while blocks are mined.  The latest      *)
(* release is read with two RPC calls that no lock and no block number     *)
(* ties together: the block of the latest upgrade, then that block's       *)
(* AppUpgraded events.  Upgrades may land before, between and after them,  *)
(* and the two calls may be answered by nodes at different heights.        *)
(***************************************************************************)
EXTENDS AppChain

CONSTANT Callers      \* concurrent invocations of GetLatestRelease

VARIABLES
    fetch,            \* the local state of each invocation
    newest            \* history: the newest release returned so far, per app

fetchVars == <<fetch, newest>>

-----------------------------------------------------------------------------
FetchPhase == {"idle", "blockNumber", "filter", "done", "failed", "error"}

(* app, block and release are the Go locals appID,                         *)
(* latestReleaseBlockNumber and lastAppUpgrade.  since and floor are       *)
(* history: the head, and the newest release of the app any invocation had *)
(* returned, when this one began.                                          *)
FetchState == [pc : FetchPhase, app : Apps \cup {"none"}, block : Nat,
               release : Position, since : Nat, floor : Position]

NotFetching == [pc |-> "idle", app |-> "none", block |-> 0,
                release |-> NoRelease, since |-> 0, floor |-> NoRelease]

(* The type invariant. *)
FetchTypeOK ==
    /\ chain \in Seq(Block)
    /\ Height >= 1
    /\ fetch \in [Callers -> FetchState]
    /\ newest \in [Apps -> Position]

FetchInit ==
    /\ fetch = [c \in Callers |-> NotFetching]
    /\ newest = [a \in Apps |-> NoRelease]

-----------------------------------------------------------------------------
(* Mutant: the comparison is the other way round. *)
EarliestByLogIndex(events) ==
    CHOOSE p \in events : \A q \in events : p.logIndex <= q.logIndex

(* The loop over the iterator: keep the event with the highest log index.  *)
LatestByLogIndex(events) ==
    CHOOSE p \in events : \A q \in events : q.logIndex <= p.logIndex

(* What the caller can use: one artifact and a public env that is JSON. *)
Usable(release) == Len(release.digests) = 1 /\ release.publicEnv # "malformed"

(* The call begins. *)
GetLatestRelease(c, app) ==
    /\ fetch[c].pc = "idle"
    /\ fetch' = [fetch EXCEPT ![c] =
          [NotFetching EXCEPT !.pc = "blockNumber", !.app = app,
                              !.since = Height, !.floor = newest[app]]]
    /\ UNCHANGED <<chain, newest>>

(* Mutant: the block is taken for an exclusive bound. *)
FetchBlockNumberOffByOne(c) ==
    /\ fetch[c].pc = "blockNumber"
    /\ \E h \in Views :
          fetch' = [fetch EXCEPT ![c].pc = "filter",
                      ![c].block = GetAppLatestReleaseBlockNumber(fetch[c].app, h) - 1]
    /\ UNCHANGED <<chain, newest>>

(* Mutant: the block number comes from a cache that does not expire. *)
FetchBlockNumberCached(c) ==
    /\ fetch[c].pc = "blockNumber"
    /\ \E h \in 1..Height :
          fetch' = [fetch EXCEPT ![c].pc = "filter",
                      ![c].block = GetAppLatestReleaseBlockNumber(fetch[c].app, h)]
    /\ UNCHANGED <<chain, newest>>

(* First RPC call. *)
FetchBlockNumber(c) ==
    /\ fetch[c].pc = "blockNumber"
    /\ \E h \in Views :
          fetch' = [fetch EXCEPT ![c].pc = "filter",
                      ![c].block = GetAppLatestReleaseBlockNumber(fetch[c].app, h)]
    /\ UNCHANGED <<chain, newest>>

(* Second RPC call and everything after it: no event in the block, or an   *)
(* unusable release, is an error.                                          *)
FetchEvents(c) ==
    /\ fetch[c].pc = "filter"
    /\ \E h \in Views :
          LET app    == fetch[c].app
              events == FilterAppUpgraded(app, fetch[c].block, h)
              last   == LatestByLogIndex(events)
          IN  IF events # {} /\ Usable(ReleaseAt(app, last))
                THEN fetch' = [fetch EXCEPT ![c].pc = "done", ![c].release = last]
                ELSE fetch' = [fetch EXCEPT ![c].pc = "failed"]
    /\ UNCHANGED <<chain, newest>>

(* Either call fails: a provider error, or the request's 10 s deadline. *)
FetchError(c) ==
    /\ fetch[c].pc \in {"blockNumber", "filter"}
    /\ fetch' = [fetch EXCEPT ![c].pc = "error"]
    /\ UNCHANGED <<chain, newest>>

(* The call returns to its handler. *)
FetchReturn(c) ==
    /\ fetch[c].pc \in {"done", "failed", "error"}
    /\ fetch' = [fetch EXCEPT ![c] = NotFetching]
    /\ newest' = IF fetch[c].pc = "done" /\ Before(newest[fetch[c].app], fetch[c].release)
                   THEN [newest EXCEPT ![fetch[c].app] = fetch[c].release]
                   ELSE newest
    /\ UNCHANGED chain

FetchStep(c) == FetchBlockNumber(c) \/ FetchEvents(c) \/ FetchError(c)

-----------------------------------------------------------------------------
(* The component on its own: callers come and go, blocks are mined. *)
Init == ChainInit /\ FetchInit

vars == <<chain, fetch, newest>>

Next ==
    \/ MineBlock /\ UNCHANGED fetchVars
    \/ \E c \in Callers :
          \/ \E app \in Apps : GetLatestRelease(c, app)
          \/ FetchStep(c)
          \/ FetchReturn(c)

Spec == Init /\ [][Next]_vars

-----------------------------------------------------------------------------
(* Release pos of app was the newest accepted upgrade at height h: it was  *)
(* on the chain and no other upgrade of the app came after it.             *)
IsLatestAt(pos, app, h) ==
    /\ pos.block \in 1..h
    /\ pos.logIndex \in DOMAIN chain[pos.block].upgrades[app]
    /\ \A b \in 1..h : \A i \in DOMAIN chain[b].upgrades[app] :
          ~Before(pos, [block |-> b, logIndex |-> i])

(* The heights whose release a call begun at height since may return now.  *)
Window(since) == {h \in 1..Height : since - h <= MaxLag}

(* A returned release was the app's latest at one height no older than the *)
(* call (less the provider's lag): the two unsynchronised calls of         *)
(* chainclient.go:64-73 never combine a block number with events that make *)
(* an upgrade nobody had as its latest, whatever is mined between them.    *)
ReleaseWasLatest ==
    \A c \in Callers : fetch[c].pc = "done" =>
        \E h \in Window(fetch[c].since) : IsLatestAt(fetch[c].release, fetch[c].app, h)

(* When every node is at the head, a call that begins after another one    *)
(* returned never gets an older release (GetLatestRelease,                 *)
(* chainclient.go:59-106): a rollout seen once stays seen.                 *)
ReadsNeverGoBack ==
    MaxLag = 0 =>
        \A c \in Callers : fetch[c].pc = "done" =>
            ~Before(fetch[c].release, fetch[c].floor)

-----------------------------------------------------------------------------
(* The refinement of BoundedStaleRead: the read happens at the first RPC   *)
(* call; what the second one will return is settled from then on.          *)
LastUpgrade(app, b) ==
    IF b = 0 THEN NoRelease
             ELSE [block |-> b, logIndex |-> Len(chain[b].upgrades[app])]

Published == [h \in 1..Height |-> [a \in Apps |-> LastUpgrade(a, chain[h].latest[a])]]

AbstractPhase == [idle |-> "idle", blockNumber |-> "invoked", filter |-> "read",
                  done |-> "done", failed |-> "failed", error |-> "failed"]

AbstractRead == [c \in Callers |->
    [pc    |-> AbstractPhase[fetch[c].pc],
     app   |-> fetch[c].app,
     value |-> CASE fetch[c].pc = "filter" -> LastUpgrade(fetch[c].app, fetch[c].block)
                 [] fetch[c].pc = "done"   -> fetch[c].release
                 [] OTHER                  -> NoRelease]]

Atomic == INSTANCE BoundedStaleRead WITH published <- Published, read <- AbstractRead

(* GetLatestRelease (chainclient.go:59-106) implements the one-instant     *)
(* read: every behaviour of its two calls is one of BoundedStaleRead.      *)
ReadIsAtomic == Atomic!Spec

=============================================================================
