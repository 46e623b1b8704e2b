-------------------------- MODULE ReleaseFetchProofs --------------------------
(***************************************************************************)
(* Proofs about ReleaseFetch, for any apps, releases, callers, lag and     *)
(* chain length: its type invariant, ReleaseWasLatest, ReadsNeverGoBack,   *)
(* and that it implements BoundedStaleRead.                                *)
(*                                                                         *)
(* The inductive invariant says what the contract's storage means (the     *)
(* recorded block holds the app's last events) and what an invocation's    *)
(* locals mean while the chain grows under it.                             *)
(***************************************************************************)
EXTENDS ReleaseFetch, TLAPS

(* The latest-release table agrees with the events, at every height. *)
StorageInv ==
    \A h \in 1..Height, a \in Apps :
        /\ chain[h].latest[a] \in 0..h
        /\ chain[h].latest[a] # 0 => chain[chain[h].latest[a]].upgrades[a] # <<>>
        /\ \A b \in 1..h : b > chain[h].latest[a] => chain[b].upgrades[a] = <<>>
        /\ Len(chain[h].upgrades[a]) <= MaxPerBlock

(* p is no newer than what the contract had recorded for a at height h. *)
KnownAt(p, a, h) ==
    p = NoRelease \/ (/\ p.block \in 1..chain[h].latest[a]
                      /\ p.logIndex <= Len(chain[p.block].upgrades[a]))

(* The block number an invocation holds was the contract's answer at some  *)
(* height of its window.                                                   *)
ReadInWindow(f, block) ==
    \E h \in Window(f.since) : chain[h].latest[f.app] = block

FetchInv(f) ==
    f.pc # "idle" =>
        /\ f.app \in Apps
        /\ f.since \in 1..Height
        /\ KnownAt(f.floor, f.app, f.since)
        /\ f.pc = "filter" => ReadInWindow(f, f.block)
        /\ f.pc = "done" => /\ f.release.block # 0
                            /\ ReadInWindow(f, f.release.block)
                            /\ f.release = LastUpgrade(f.app, f.release.block)

IInv ==
    /\ FetchTypeOK
    /\ StorageInv
    /\ \A c \in Callers : FetchInv(fetch[c])
    /\ \A a \in Apps : KnownAt(newest[a], a, Height)

-----------------------------------------------------------------------------
(* Mining appends one block and leaves the others alone. *)
LEMMA MineBlockAppends ==
    ASSUME FetchTypeOK, MineBlock
    PROVE  /\ Height' = Height + 1
           /\ chain' \in Seq(Block)
           /\ \A h \in 1..Height : chain'[h] = chain[h]
           /\ \A a \in Apps :
                 /\ chain'[Height + 1].latest[a] =
                       IF chain'[Height + 1].upgrades[a] = <<>>
                         THEN chain[Height].latest[a] ELSE Height + 1
                 /\ Len(chain'[Height + 1].upgrades[a]) <= MaxPerBlock
<1>1. PICK ups \in [Apps -> UpgradeLists], policy \in Policies :
         chain' = Append(chain,
            [latest   |-> [a \in Apps |-> IF ups[a] = <<>>
                                            THEN chain[Height].latest[a]
                                            ELSE Height + 1],
             upgrades |-> ups,
             policy   |-> policy])
  BY DEF MineBlock
<1>2. \A a \in Apps : ups[a] \in Seq(Releases) /\ Len(ups[a]) <= MaxPerBlock
  BY ChainAssumption DEF UpgradeLists
<1> DEFINE new == [latest   |-> [a \in Apps |-> IF ups[a] = <<>>
                                                THEN chain[Height].latest[a]
                                                ELSE Height + 1],
                   upgrades |-> ups,
                   policy   |-> policy]
<1>3. Height \in Nat /\ Height >= 1 /\ chain \in Seq(Block)
  BY DEF FetchTypeOK, Height
<1>4. chain[Height] \in Block
  BY <1>3 DEF Height
<1>5. new \in Block
  <2>1. ups \in [Apps -> Seq(Releases)]
    BY <1>2
  <2>2. [a \in Apps |-> IF ups[a] = <<>> THEN chain[Height].latest[a] ELSE Height + 1]
           \in [Apps -> Nat]
    BY <1>3, <1>4 DEF Block
  <2> QED BY <2>1, <2>2 DEF Block
<1>6. chain' = Append(chain, new)
  BY <1>1
<1> HIDE DEF new
<1>7. /\ chain' \in Seq(Block) /\ Len(chain') = Len(chain) + 1
      /\ \A h \in 1..Len(chain) : chain'[h] = chain[h]
      /\ chain'[Len(chain) + 1] = new
  BY <1>3, <1>5, <1>6 DEF Height
<1> QED BY <1>2, <1>7 DEF Height, new

(* The latest-release block of an app never decreases with the height. *)
LEMMA LatestIsMonotonic ==
    ASSUME StorageInv, NEW a \in Apps,
           NEW g \in 1..Height, NEW h \in 1..Height, g <= h, Height \in Nat
    PROVE  chain[g].latest[a] <= chain[h].latest[a]
<1> DEFINE b == chain[g].latest[a]
<1>1. b \in 0..g /\ (b # 0 => chain[b].upgrades[a] # <<>>)
  BY DEF StorageInv
<1>2. chain[h].latest[a] \in 0..h
       /\ \A k \in 1..h : k > chain[h].latest[a] => chain[k].upgrades[a] = <<>>
  BY DEF StorageInv
<1> QED BY <1>1, <1>2

(* The loop returns the block's last event. *)
LEMMA LoopReturnsLastUpgrade ==
    ASSUME FetchTypeOK, StorageInv, NEW a \in Apps, NEW b \in Nat, NEW h \in 1..Height,
           FilterAppUpgraded(a, b, h) # {}
    PROVE  /\ LatestByLogIndex(FilterAppUpgraded(a, b, h)) = LastUpgrade(a, b)
           /\ b \in 1..h
           /\ chain[b].upgrades[a] # <<>>
<1> DEFINE events == FilterAppUpgraded(a, b, h)
           n      == Len(chain[b].upgrades[a])
           last   == [block |-> b, logIndex |-> n]
<1>1. b \in 1..h /\ b \in 1..Height
  BY DEF FilterAppUpgraded, FetchTypeOK, Height
<1>2. chain[b].upgrades[a] \in Seq(Releases) /\ n \in Nat /\ n <= MaxPerBlock
  <2>1. chain[b] \in Block
    BY <1>1 DEF FetchTypeOK, Height
  <2>2. chain[b].upgrades[a] \in Seq(Releases)
    BY <2>1 DEF Block
  <2> QED BY <1>1, <2>2 DEF StorageInv
<1>3. n >= 1 /\ chain[b].upgrades[a] # <<>>
  BY <1>1, <1>2 DEF FilterAppUpgraded
<1>4. last \in events /\ \A q \in events : q.logIndex <= last.logIndex
  BY <1>1, <1>2, <1>3, ChainAssumption DEF FilterAppUpgraded
<1>5. \A p \in events : (\A q \in events : q.logIndex <= p.logIndex) => p = last
  <2> SUFFICES ASSUME NEW p \in events, \A q \in events : q.logIndex <= p.logIndex
               PROVE  p = last
    OBVIOUS
  <2>1. p.block = b /\ p.logIndex \in 1..n /\ p = [block |-> p.block, logIndex |-> p.logIndex]
    BY <1>2 DEF FilterAppUpgraded
  <2>2. n <= p.logIndex
    BY <1>4
  <2> QED BY <2>1, <2>2, <1>2
<1>6. LatestByLogIndex(events) = last
  <2> HIDE DEF events, last
  <2> QED BY <1>4, <1>5 DEF LatestByLogIndex
<1> QED BY <1>1, <1>3, <1>6 DEF LastUpgrade

-----------------------------------------------------------------------------
LEMMA InitEstablishes == Init => IInv
<1> SUFFICES ASSUME Init PROVE IInv
  OBVIOUS
<1> USE DEF Init, ChainInit, FetchInit
<1>1. PICK policy \in Policies : chain = <<GenesisBlock(policy)>>
  OBVIOUS
<1>2. GenesisBlock(policy) \in Block
  <2>1. [a \in Apps |-> <<>>] \in [Apps -> Seq(Releases)]
    OBVIOUS
  <2> QED BY <2>1 DEF GenesisBlock, Block
<1>3. chain \in Seq(Block) /\ Height = 1 /\ chain[1] = GenesisBlock(policy)
  <2> HIDE DEF Init, ChainInit, FetchInit
  <2> QED BY <1>1, <1>2 DEF Height
<1>4. FetchTypeOK
  BY <1>3 DEF FetchTypeOK, FetchState, NotFetching, NoRelease, Position, FetchPhase
<1>5. StorageInv
  <2> HIDE DEF Init, ChainInit, FetchInit
  <2>1. \A h \in 1..Height : h = 1
    BY <1>3
  <2>2. \A a \in Apps : chain[1].latest[a] = 0
    <3>1. GenesisBlock(policy).latest = [a \in Apps |-> 0]
      BY DEF GenesisBlock
    <3> QED BY <1>3, <3>1
  <2>3. \A a \in Apps : chain[1].upgrades[a] = <<>>
    <3>1. GenesisBlock(policy).upgrades = [a \in Apps |-> <<>>]
      BY DEF GenesisBlock
    <3> QED BY <1>3, <3>1
  <2>4. Len(<<>>) <= MaxPerBlock
    BY ChainAssumption
  <2> SUFFICES ASSUME NEW a \in Apps
               PROVE  /\ chain[1].latest[a] \in 0..1
                      /\ chain[1].latest[a] # 0 =>
                            chain[chain[1].latest[a]].upgrades[a] # <<>>
                      /\ \A b \in 1..1 : b > chain[1].latest[a] => chain[b].upgrades[a] = <<>>
                      /\ Len(chain[1].upgrades[a]) <= MaxPerBlock
    BY <2>1 DEF StorageInv
  <2>5. \A b \in 1..1 : chain[b].upgrades[a] = <<>>
    <3>1. \A b \in 1..1 : b = 1
      OBVIOUS
    <3> QED BY <3>1, <2>3
  <2>6. chain[1].latest[a] = 0
    BY <2>2
  <2>7. Len(chain[1].upgrades[a]) <= MaxPerBlock
    BY <2>3, <2>4
  <2> QED BY <2>5, <2>6, <2>7
<1>6. \A c \in Callers : FetchInv(fetch[c])
  BY DEF FetchInv, NotFetching
<1>7. \A a \in Apps : KnownAt(newest[a], a, Height)
  BY DEF KnownAt
<1> QED BY <1>4, <1>5, <1>6, <1>7 DEF IInv

(* Mining a block disturbs nothing an invocation or the history relies on. *)
LEMMA MineBlockPreserves ==
    ASSUME IInv, MineBlock, UNCHANGED fetchVars
    PROVE  IInv'
<1> USE DEF IInv, fetchVars
<1>1. /\ Height' = Height + 1 /\ Height \in Nat /\ Height >= 1
      /\ chain' \in Seq(Block)
      /\ \A h \in 1..Height : chain'[h] = chain[h]
      /\ \A a \in Apps :
            /\ chain'[Height + 1].latest[a] =
                  IF chain'[Height + 1].upgrades[a] = <<>>
                    THEN chain[Height].latest[a] ELSE Height + 1
            /\ Len(chain'[Height + 1].upgrades[a]) <= MaxPerBlock
  BY MineBlockAppends DEF FetchTypeOK, Height
<1>2. FetchTypeOK'
  BY <1>1 DEF FetchTypeOK
<1>3. StorageInv'
  <2> SUFFICES ASSUME NEW h \in 1..Height', NEW a \in Apps
               PROVE  /\ chain'[h].latest[a] \in 0..h
                      /\ chain'[h].latest[a] # 0 =>
                            chain'[chain'[h].latest[a]].upgrades[a] # <<>>
                      /\ \A b \in 1..h : b > chain'[h].latest[a] =>
                            chain'[b].upgrades[a] = <<>>
                      /\ Len(chain'[h].upgrades[a]) <= MaxPerBlock
    BY DEF StorageInv
  <2>1. CASE h \in 1..Height
    <3>1. chain'[h] = chain[h] /\ \A b \in 1..h : chain'[b] = chain[b]
      BY <1>1, <2>1
    <3>2. /\ chain[h].latest[a] \in 0..h
          /\ chain[h].latest[a] # 0 => chain[chain[h].latest[a]].upgrades[a] # <<>>
          /\ \A b \in 1..h : b > chain[h].latest[a] => chain[b].upgrades[a] = <<>>
          /\ Len(chain[h].upgrades[a]) <= MaxPerBlock
      BY <2>1 DEF StorageInv
    <3>3. chain[h].latest[a] # 0 =>
             chain'[chain[h].latest[a]] = chain[chain[h].latest[a]]
      BY <1>1, <2>1, <3>1, <3>2
    <3> QED BY <3>1, <3>2, <3>3
  <2>2. CASE h = Height + 1
    <3>1. /\ chain[Height].latest[a] \in 0..Height
          /\ chain[Height].latest[a] # 0 => chain[chain[Height].latest[a]].upgrades[a] # <<>>
          /\ \A b \in 1..Height : b > chain[Height].latest[a] => chain[b].upgrades[a] = <<>>
      BY <1>1 DEF StorageInv
    <3>2. chain'[h].latest[a] = IF chain'[h].upgrades[a] = <<>>
                                  THEN chain[Height].latest[a] ELSE h
      BY <1>1, <2>2
    <3>3. CASE chain'[h].upgrades[a] = <<>>
      <4>1. chain'[h].latest[a] = chain[Height].latest[a]
        BY <3>2, <3>3
      <4>2. \A b \in 1..h : b \in 1..Height \/ b = h
        BY <1>1, <2>2
      <4>3. \A b \in 1..h : b > chain'[h].latest[a] => chain'[b].upgrades[a] = <<>>
        BY <1>1, <3>1, <3>3, <4>1, <4>2
      <4>4. chain'[h].latest[a] # 0 => chain'[chain'[h].latest[a]].upgrades[a] # <<>>
        BY <1>1, <3>1, <4>1
      <4> QED BY <1>1, <2>2, <3>1, <4>1, <4>3, <4>4
    <3>4. CASE chain'[h].upgrades[a] # <<>>
      <4>1. chain'[h].latest[a] = h
        BY <3>2, <3>4
      <4> QED BY <1>1, <2>2, <3>4, <4>1
    <3> QED BY <3>3, <3>4
  <2> QED BY <1>1, <2>1, <2>2
<1>4. ASSUME NEW p, NEW a \in Apps, NEW h \in 1..Height, KnownAt(p, a, h)
      PROVE  KnownAt(p, a, h)'
  <2>1. chain'[h] = chain[h] /\ chain[h].latest[a] \in 0..h
    BY <1>1 DEF StorageInv
  <2>2. CASE p = NoRelease
    BY <2>2 DEF KnownAt
  <2>3. CASE p.block \in 1..chain[h].latest[a] /\ p.logIndex <= Len(chain[p.block].upgrades[a])
    <3>1. p.block \in 1..Height
      BY <1>1, <2>1, <2>3
    <3>2. chain'[p.block] = chain[p.block]
      BY <1>1, <3>1
    <3> QED BY <2>1, <2>3, <3>2 DEF KnownAt
  <2> QED BY <1>4, <2>2, <2>3 DEF KnownAt
<1>5. ASSUME NEW c \in Callers
      PROVE  FetchInv(fetch[c])'
  <2>0. fetch'[c] = fetch[c]
    BY DEF fetchVars
  <2>1. PICK f : f = fetch[c] /\ FetchInv(f)
    BY DEF IInv
  <2> SUFFICES ASSUME f.pc # "idle"
               PROVE  FetchInv(f)'
    BY <2>0, <2>1 DEF FetchInv
  <2>2. f.app \in Apps /\ f.since \in 1..Height /\ KnownAt(f.floor, f.app, f.since)
    BY <2>1 DEF FetchInv
  <2>3. KnownAt(f.floor, f.app, f.since)'
    BY <2>2, <1>4
  <2>4. ASSUME NEW b, ReadInWindow(f, b)
        PROVE  ReadInWindow(f, b)' /\ b \in 0..Height
    <3>1. PICK h \in Window(f.since) : chain[h].latest[f.app] = b
      BY <2>4 DEF ReadInWindow
    <3>2. h \in 1..Height /\ h \in Window(f.since)'
      BY <1>1 DEF Window
    <3>3. b \in 0..h
      BY <2>2, <3>1, <3>2 DEF StorageInv
    <3>4. chain'[h].latest[f.app] = b
      BY <1>1, <3>1, <3>2
    <3>5. ReadInWindow(f, b)'
      BY <3>2, <3>4 DEF ReadInWindow
    <3>6. b \in 0..Height
      BY <1>1, <3>2, <3>3
    <3> QED BY <3>5, <3>6
  <2>5. ASSUME f.pc = "done"
        PROVE  f.release = LastUpgrade(f.app, f.release.block)'
    <3>1. f.release = LastUpgrade(f.app, f.release.block) /\ f.release.block \in 1..Height
      BY <1>1, <2>1, <2>4, <2>5 DEF FetchInv
    <3>2. chain'[f.release.block] = chain[f.release.block]
      BY <1>1, <3>1
    <3> QED BY <3>1, <3>2 DEF LastUpgrade
  <2>6. f.since \in 1..Height'
    BY <1>1, <2>2
  <2> QED BY <2>1, <2>2, <2>3, <2>4, <2>5, <2>6 DEF FetchInv
<1>6. ASSUME NEW a \in Apps
      PROVE  KnownAt(newest[a], a, Height)'
  <2>1. Height \in 1..Height' /\ Height' \in 1..Height' /\ Height <= Height'
    BY <1>1
  <2>2. KnownAt(newest[a], a, Height)
    OBVIOUS
  <2>3. /\ chain'[Height] = chain[Height]
        /\ chain[Height].latest[a] \in 0..Height
        /\ chain'[Height'].latest[a] \in {chain[Height].latest[a], Height + 1}
    BY <1>1 DEF StorageInv
  <2> QED BY <1>1, <2>2, <2>3 DEF KnownAt
<1> QED BY <1>2, <1>3, <1>5, <1>6

(* A step of one invocation: the chain is untouched, so are the others. *)
LEMMA InvocationPreserves ==
    ASSUME IInv, NEW c \in Callers,
           \/ \E app \in Apps : GetLatestRelease(c, app)
           \/ FetchStep(c)
           \/ FetchReturn(c)
    PROVE  IInv'
<1> DEFINE f == fetch[c]
<1>0. UNCHANGED chain
  BY DEF GetLatestRelease, FetchStep, FetchBlockNumber, FetchEvents, FetchError, FetchReturn
<1>1. /\ Height \in Nat /\ Height >= 1 /\ Height' = Height
      /\ f \in FetchState /\ fetch \in [Callers -> FetchState]
      /\ FetchInv(f)
  BY <1>0 DEF IInv, FetchTypeOK, Height
<1>2. StorageInv'
  BY <1>0 DEF IInv, StorageInv, Height
(* Enough: the new state of c is right, and the history stays known. *)
<1>3. SUFFICES /\ \E g \in FetchState : /\ fetch' = [fetch EXCEPT ![c] = g]
                                        /\ FetchInv(g)
               /\ newest' \in [Apps -> Position]
               /\ \A a \in Apps : KnownAt(newest'[a], a, Height)
  <2>1. PICK g \in FetchState : fetch' = [fetch EXCEPT ![c] = g] /\ FetchInv(g)
    BY <1>3
  <2>2. \A d \in Callers : FetchInv(fetch'[d])
    BY <1>1, <2>1 DEF IInv
  <2>3. \A d \in Callers : FetchInv(fetch[d])'
    BY <1>0, <2>2 DEF FetchInv, KnownAt, ReadInWindow, Window, LastUpgrade, Height
  <2>4. FetchTypeOK'
    BY <1>0, <1>1, <1>3, <2>1 DEF IInv, FetchTypeOK, Height
  <2>5. \A a \in Apps : KnownAt(newest[a], a, Height)'
    BY <1>0, <1>3 DEF KnownAt, Height
  <2> QED BY <1>2, <2>3, <2>4, <2>5 DEF IInv
<1>4. ASSUME NEW app \in Apps, GetLatestRelease(c, app)
      PROVE  \E g \in FetchState : fetch' = [fetch EXCEPT ![c] = g] /\ FetchInv(g)
  <2> DEFINE g == [NotFetching EXCEPT !.pc = "blockNumber", !.app = app,
                                      !.since = Height, !.floor = newest[app]]
  <2>1. g \in FetchState /\ newest[app] \in Position
    BY <1>1 DEF IInv, FetchTypeOK, FetchState, NotFetching, NoRelease, Position, FetchPhase
  <2>2. FetchInv(g)
    BY <1>1 DEF IInv, FetchInv, NotFetching
  <2> QED BY <1>4, <2>1, <2>2 DEF GetLatestRelease
<1>5. ASSUME FetchBlockNumber(c)
      PROVE  \E g \in FetchState : fetch' = [fetch EXCEPT ![c] = g] /\ FetchInv(g)
  <2>1. PICK h \in Views :
           fetch' = [fetch EXCEPT ![c].pc = "filter", ![c].block = chain[h].latest[f.app]]
    BY <1>5 DEF FetchBlockNumber, GetAppLatestReleaseBlockNumber
  <2> DEFINE b == chain[h].latest[f.app]
             g == [f EXCEPT !.pc = "filter", !.block = b]
  <2>2. /\ f.pc # "idle" /\ f.app \in Apps /\ f.since \in 1..Height
        /\ KnownAt(f.floor, f.app, f.since)
    BY <1>1, <1>5 DEF FetchBlockNumber, FetchInv
  <2>3. h \in 1..Height /\ h \in Window(f.since) /\ b \in 0..h
    BY <1>1, <2>2, ChainAssumption DEF Views, Window, IInv, StorageInv
  <2>4. fetch' = [fetch EXCEPT ![c] = g]
    BY <1>1, <2>1
  <2>5. g \in FetchState /\ g.pc = "filter" /\ g.app = f.app /\ g.block = b
        /\ g.since = f.since /\ g.floor = f.floor
    <3>1. b \in Nat
      BY <1>1, <2>3
    <3> HIDE DEF b
    <3> QED BY <1>1, <3>1 DEF FetchState, FetchPhase
  <2>6. FetchInv(g)
    <3> HIDE DEF g, b
    <3> QED BY <2>2, <2>3, <2>5 DEF FetchInv, ReadInWindow, b
  <2> QED BY <2>4, <2>5, <2>6
<1>6. ASSUME FetchEvents(c)
      PROVE  \E g \in FetchState : fetch' = [fetch EXCEPT ![c] = g] /\ FetchInv(g)
  <2>1. /\ f.pc = "filter" /\ f.app \in Apps /\ f.since \in 1..Height
        /\ KnownAt(f.floor, f.app, f.since) /\ ReadInWindow(f, f.block) /\ f.block \in Nat
    BY <1>1, <1>6 DEF FetchEvents, FetchInv, FetchState
  <2>2. PICK h \in Views :
          LET events == FilterAppUpgraded(f.app, f.block, h)
              last   == LatestByLogIndex(events)
          IN  IF events # {} /\ Usable(ReleaseAt(f.app, last))
                THEN fetch' = [fetch EXCEPT ![c].pc = "done", ![c].release = last]
                ELSE fetch' = [fetch EXCEPT ![c].pc = "failed"]
    BY <1>6 DEF FetchEvents
  <2> DEFINE events == FilterAppUpgraded(f.app, f.block, h)
             last   == LatestByLogIndex(events)
  <2>3. CASE events # {} /\ Usable(ReleaseAt(f.app, last))
    <3> DEFINE g == [f EXCEPT !.pc = "done", !.release = last]
    <3>1. h \in 1..Height
      BY DEF Views
    <3>2. last = LastUpgrade(f.app, f.block) /\ f.block \in 1..h
      BY <2>1, <2>3, <3>1, LoopReturnsLastUpgrade DEF IInv
    <3>3. chain[f.block] \in Block
      BY <1>1, <3>1, <3>2 DEF IInv, FetchTypeOK, Height
    <3>4. chain[f.block].upgrades[f.app] \in Seq(Releases)
      BY <2>1, <3>3 DEF Block
    <3>5. last \in Position /\ last.block = f.block /\ f.block # 0
      <4>1. f.block # 0 /\ f.block \in Nat
        BY <2>1, <3>1, <3>2
      <4>2. Len(chain[f.block].upgrades[f.app]) \in Nat
        <5> DEFINE ups == chain[f.block].upgrades[f.app]
        <5>1. ups \in Seq(Releases)
          BY <3>4
        <5> HIDE DEF ups
        <5>2. Len(ups) \in Nat
          BY <5>1
        <5> QED BY <5>2 DEF ups
      <4>3. last = [block |-> f.block, logIndex |-> Len(chain[f.block].upgrades[f.app])]
        BY <3>2, <4>1 DEF LastUpgrade
      <4> HIDE DEF last
      <4> QED BY <4>1, <4>2, <4>3 DEF Position
    <3>6. fetch' = [fetch EXCEPT ![c] = g]
      BY <1>1, <2>2, <2>3
    <3>7. /\ g \in FetchState /\ g.pc = "done" /\ g.app = f.app /\ g.release = last
          /\ g.since = f.since /\ g.floor = f.floor
      <4> HIDE DEF last
      <4> QED BY <1>1, <3>5 DEF FetchState, FetchPhase
    <3>8. FetchInv(g)
      <4> HIDE DEF g, last
      <4> QED BY <2>1, <3>2, <3>5, <3>7 DEF FetchInv, ReadInWindow
    <3> QED BY <3>6, <3>7, <3>8
  <2>4. CASE ~(events # {} /\ Usable(ReleaseAt(f.app, last)))
    <3> DEFINE g == [f EXCEPT !.pc = "failed"]
    <3>1. fetch' = [fetch EXCEPT ![c] = g]
      BY <1>1, <2>2, <2>4
    <3>2. g \in FetchState /\ g.pc = "failed" /\ g.app = f.app
          /\ g.since = f.since /\ g.floor = f.floor
      BY <1>1 DEF FetchState, FetchPhase
    <3>3. FetchInv(g)
      <4> HIDE DEF g
      <4> QED BY <2>1, <3>2 DEF FetchInv
    <3> QED BY <3>1, <3>2, <3>3
  <2> QED BY <2>3, <2>4
<1>7. ASSUME FetchError(c)
      PROVE  \E g \in FetchState : fetch' = [fetch EXCEPT ![c] = g] /\ FetchInv(g)
  <2> DEFINE g == [f EXCEPT !.pc = "error"]
  <2>1. fetch' = [fetch EXCEPT ![c] = g]
    BY <1>1, <1>7 DEF FetchError
  <2>2. g \in FetchState /\ g.pc = "error" /\ g.app = f.app
        /\ g.since = f.since /\ g.floor = f.floor /\ f.pc # "idle"
    BY <1>1, <1>7 DEF FetchState, FetchPhase, FetchError
  <2>3. FetchInv(g)
    <3> HIDE DEF g
    <3> QED BY <1>1, <2>2 DEF FetchInv
  <2> QED BY <2>1, <2>2, <2>3
<1>8. ASSUME FetchReturn(c)
      PROVE  /\ \E g \in FetchState : fetch' = [fetch EXCEPT ![c] = g] /\ FetchInv(g)
             /\ newest' \in [Apps -> Position]
             /\ \A a \in Apps : KnownAt(newest'[a], a, Height)
  <2>1. NotFetching \in FetchState /\ FetchInv(NotFetching)
    BY DEF FetchState, FetchPhase, NotFetching, NoRelease, Position, FetchInv
  <2>2. fetch' = [fetch EXCEPT ![c] = NotFetching]
    BY <1>8 DEF FetchReturn
  <2>3. /\ newest \in [Apps -> Position]
        /\ \A a \in Apps : KnownAt(newest[a], a, Height)
    BY DEF IInv, FetchTypeOK
  <2>4. CASE f.pc = "done"
    <3>1. /\ f.app \in Apps /\ f.release \in Position /\ f.release.block # 0
          /\ ReadInWindow(f, f.release.block)
          /\ f.release = LastUpgrade(f.app, f.release.block)
      BY <1>1, <2>4 DEF FetchInv, FetchState
    <3>2. PICK h \in 1..Height : chain[h].latest[f.app] = f.release.block
      BY <3>1 DEF ReadInWindow, Window
    <3>3. chain[h].latest[f.app] <= chain[Height].latest[f.app]
      BY <1>1, <3>1, LatestIsMonotonic DEF IInv
    <3>4. chain[Height].latest[f.app] \in Nat
      BY <1>1, <3>1 DEF IInv, StorageInv
    <3>5. f.release.logIndex = Len(chain[f.release.block].upgrades[f.app])
          /\ f.release.logIndex \in Nat /\ f.release.block \in Nat
      BY <3>1 DEF LastUpgrade, Position
    <3>6. KnownAt(f.release, f.app, Height)
      BY <3>1, <3>2, <3>3, <3>4, <3>5 DEF KnownAt
    <3>7. newest' = newest \/ newest' = [newest EXCEPT ![f.app] = f.release]
      BY <1>8 DEF FetchReturn
    <3> QED BY <2>1, <2>2, <2>3, <3>1, <3>6, <3>7
  <2>5. CASE f.pc # "done"
    BY <1>8, <2>1, <2>2, <2>3, <2>5 DEF FetchReturn
  <2> QED BY <2>4, <2>5
<1>9. ASSUME UNCHANGED newest
      PROVE  /\ newest' \in [Apps -> Position]
             /\ \A a \in Apps : KnownAt(newest'[a], a, Height)
  BY <1>9 DEF IInv, FetchTypeOK
<1> QED BY <1>4, <1>5, <1>6, <1>7, <1>8, <1>9
     DEF FetchStep, GetLatestRelease, FetchBlockNumber, FetchEvents, FetchError

(* A step that leaves the chain and the invocations alone. *)
LEMMA StutterPreserves ==
    ASSUME IInv, UNCHANGED <<chain, fetchVars>>
    PROVE  IInv'
<1>1. chain' = chain /\ fetch' = fetch /\ newest' = newest /\ Height' = Height
  BY DEF fetchVars, Height
<1>2. FetchTypeOK'
  BY <1>1 DEF IInv, FetchTypeOK
<1>3. StorageInv'
  BY <1>1 DEF IInv, StorageInv
<1>4. ASSUME NEW c \in Callers
      PROVE  FetchInv(fetch[c])'
  <2>1. FetchInv(fetch[c])
    BY DEF IInv
  <2> QED BY <1>1, <2>1 DEF FetchInv, KnownAt, ReadInWindow, Window, LastUpgrade
<1>5. ASSUME NEW a \in Apps
      PROVE  KnownAt(newest[a], a, Height)'
  <2>1. KnownAt(newest[a], a, Height)
    BY DEF IInv
  <2> QED BY <1>1, <2>1 DEF KnownAt
<1> QED BY <1>2, <1>3, <1>4, <1>5 DEF IInv

(* IInv is inductive. *)
THEOREM Invariance == Spec => []IInv
<1>1. IInv /\ [Next]_vars => IInv'
  <2> SUFFICES ASSUME IInv, [Next]_vars PROVE IInv'
    OBVIOUS
  <2>1. CASE MineBlock /\ UNCHANGED fetchVars
    BY <2>1, MineBlockPreserves
  <2>2. ASSUME NEW c \in Callers,
               \/ \E app \in Apps : GetLatestRelease(c, app)
               \/ FetchStep(c)
               \/ FetchReturn(c)
        PROVE  IInv'
    BY <2>2, InvocationPreserves
  <2>3. CASE UNCHANGED vars
    BY <2>3, StutterPreserves DEF vars, fetchVars
  <2> QED BY <2>1, <2>2, <2>3 DEF Next
<1> QED BY InitEstablishes, <1>1, PTL DEF Spec

-----------------------------------------------------------------------------
(* Every reachable state is well typed. *)
THEOREM TypeCorrect == Spec => []FetchTypeOK
BY Invariance, PTL DEF IInv

(* The recorded block's last event is the app's latest release, by the     *)
(* order of events alone.                                                  *)
LEMMA RecordedIsLatest ==
    ASSUME FetchTypeOK, StorageInv, NEW a \in Apps, NEW h \in 1..Height,
           chain[h].latest[a] # 0
    PROVE  IsLatestAt(LastUpgrade(a, chain[h].latest[a]), a, h)
<1> DEFINE b == chain[h].latest[a]
           n == Len(chain[b].upgrades[a])
<1>1. /\ b \in 1..h /\ b \in 1..Height /\ Height \in Nat
      /\ chain[b].upgrades[a] # <<>>
      /\ \A k \in 1..h : k > b => chain[k].upgrades[a] = <<>>
  BY DEF StorageInv, FetchTypeOK, Height
<1>2. chain[b] \in Block
  BY <1>1 DEF FetchTypeOK, Height
<1>3. chain[b].upgrades[a] \in Seq(Releases)
  BY <1>2 DEF Block
<1>4. n \in DOMAIN chain[b].upgrades[a] /\ n \in Nat
      /\ \A i \in DOMAIN chain[b].upgrades[a] : i \in Nat /\ i <= n
  <2> DEFINE list == chain[b].upgrades[a]
  <2>1. list \in Seq(Releases) /\ list # <<>>
    BY <1>1, <1>3
  <2> HIDE DEF list
  <2>2. Len(list) \in DOMAIN list /\ Len(list) \in Nat
        /\ \A i \in DOMAIN list : i \in Nat /\ i <= Len(list)
    BY <2>1
  <2> QED BY <2>2 DEF list
<1> HIDE DEF n
<1>5. ASSUME NEW k \in 1..h, NEW i \in DOMAIN chain[k].upgrades[a]
      PROVE  k < b \/ (k = b /\ i <= n /\ i \in Nat)
  <2>1. ~(k > b)
    BY <1>1, <1>5
  <2> QED BY <1>1, <1>4, <1>5, <2>1
<1>6. LastUpgrade(a, b) = [block |-> b, logIndex |-> n]
  BY <1>1 DEF LastUpgrade, n
<1> HIDE DEF b
<1>7. \A k \in 1..h : \A i \in DOMAIN chain[k].upgrades[a] :
         ~Before([block |-> b, logIndex |-> n], [block |-> k, logIndex |-> i])
  BY <1>1, <1>4, <1>5 DEF Before
<1> QED BY <1>1, <1>4, <1>6, <1>7 DEF IsLatestAt, b

(* GetLatestRelease returns a release that was the app's latest at one     *)
(* height of the call's window, whatever is mined around its two RPCs.     *)
THEOREM AlwaysWasLatest == Spec => []ReleaseWasLatest
<1>1. IInv => ReleaseWasLatest
  <2> SUFFICES ASSUME IInv, NEW c \in Callers, fetch[c].pc = "done"
               PROVE  \E h \in Window(fetch[c].since) :
                         IsLatestAt(fetch[c].release, fetch[c].app, h)
    BY DEF ReleaseWasLatest
  <2> DEFINE f == fetch[c]
  <2>1. /\ f.app \in Apps /\ f.release.block # 0
        /\ ReadInWindow(f, f.release.block)
        /\ f.release = LastUpgrade(f.app, f.release.block)
    BY DEF IInv, FetchInv
  <2>2. PICK h \in Window(f.since) : chain[h].latest[f.app] = f.release.block
    BY <2>1 DEF ReadInWindow
  <2>3. h \in 1..Height
    BY <2>2 DEF Window
  <2> QED BY <2>1, <2>2, <2>3, RecordedIsLatest DEF IInv
<1> QED BY Invariance, <1>1, PTL

(* What the invariant says of the order of reads. *)
LEMMA ReadsAreOrdered == IInv => ReadsNeverGoBack
<1> SUFFICES ASSUME IInv, MaxLag = 0, NEW c \in Callers, fetch[c].pc = "done"
             PROVE  ~Before(fetch[c].release, fetch[c].floor)
  BY DEF ReadsNeverGoBack
<1> DEFINE f == fetch[c]
<1>1. /\ f.app \in Apps /\ f.release.block # 0 /\ f.since \in 1..Height
      /\ KnownAt(f.floor, f.app, f.since)
      /\ ReadInWindow(f, f.release.block)
      /\ f.release = LastUpgrade(f.app, f.release.block)
      /\ f.release \in Position /\ f.floor \in Position /\ Height \in Nat
  BY DEF IInv, FetchInv, FetchTypeOK, FetchState, Height
<1>2. PICK h \in Window(f.since) : chain[h].latest[f.app] = f.release.block
  BY <1>1 DEF ReadInWindow
<1>3. h \in 1..Height /\ f.since <= h
  BY <1>1, <1>2 DEF Window
<1>4. chain[f.since].latest[f.app] <= f.release.block
  BY <1>1, <1>2, <1>3, LatestIsMonotonic DEF IInv
<1>5. chain[f.since].latest[f.app] \in Nat
  BY <1>1 DEF IInv, StorageInv
<1>6. f.release.logIndex = Len(chain[f.release.block].upgrades[f.app])
  BY <1>1 DEF LastUpgrade
<1>7. /\ f.release.block \in Nat /\ f.release.logIndex \in Nat
      /\ f.floor.block \in Nat /\ f.floor.logIndex \in Nat
  BY <1>1 DEF Position
<1>8. CASE f.floor = NoRelease
  BY <1>1, <1>7, <1>8 DEF NoRelease, Before
<1>9. CASE f.floor # NoRelease
  <2>1. /\ f.floor.block <= f.release.block
        /\ f.floor.logIndex <= Len(chain[f.floor.block].upgrades[f.app])
    BY <1>1, <1>4, <1>5, <1>7, <1>9 DEF KnownAt
  <2>2. f.floor.block = f.release.block => f.floor.logIndex <= f.release.logIndex
    BY <1>6, <2>1
  <2> HIDE DEF f
  <2> QED BY <1>7, <2>1, <2>2 DEF Before, f
<1> QED BY <1>8, <1>9

(* With every node at the head, calls that follow one another see the      *)
(* app's releases in the order they were published.                        *)
THEOREM NeverGoesBack == Spec => []ReadsNeverGoBack
BY Invariance, ReadsAreOrdered, PTL
-----------------------------------------------------------------------------
(* ReleaseFetch implements BoundedStaleRead: the two RPC calls of          *)
(* GetLatestRelease are worth one read at one instant.                     *)
(*                                                                         *)
(* Every step of a call maps to one of the abstract read or, for a mined   *)
(* block, to a publication.  What makes the second call map to a step that *)
(* changes no value is the invariant: the events of the block number read  *)
(* first are there, and the block is as it was.                            *)

(* The abstract state of a call. *)
Abs(f) ==
    [pc    |-> AbstractPhase[f.pc],
     app   |-> f.app,
     value |-> CASE f.pc = "filter" -> LastUpgrade(f.app, f.block)
                 [] f.pc = "done"   -> f.release
                 [] OTHER           -> NoRelease]

LEMMA AbstractReadIsAbs == AbstractRead = [c \in Callers |-> Abs(fetch[c])]
BY DEF AbstractRead, Abs

LEMMA AbsOfPhases ==
    ASSUME NEW f
    PROVE  /\ f.pc = "idle" => Abs(f) = [pc |-> "idle", app |-> f.app, value |-> NoRelease]
           /\ f.pc = "blockNumber" =>
                 Abs(f) = [pc |-> "invoked", app |-> f.app, value |-> NoRelease]
           /\ f.pc = "filter" =>
                 Abs(f) = [pc |-> "read", app |-> f.app, value |-> LastUpgrade(f.app, f.block)]
           /\ f.pc = "done" => Abs(f) = [pc |-> "done", app |-> f.app, value |-> f.release]
           /\ f.pc \in {"failed", "error"} =>
                 Abs(f) = [pc |-> "failed", app |-> f.app, value |-> NoRelease]
BY DEF Abs, AbstractPhase

-----------------------------------------------------------------------------
LEMMA LastUpgradeIsPosition ==
    ASSUME FetchTypeOK, NEW a \in Apps, NEW b \in 0..Height
    PROVE  LastUpgrade(a, b) \in Position /\ LastUpgrade(a, b).block = b
<1>1. CASE b = 0
  BY <1>1 DEF LastUpgrade, NoRelease, Position
<1>2. CASE b # 0
  <2>1. chain[b] \in Block
    BY <1>2 DEF FetchTypeOK, Height
  <2>2. PICK ups \in Seq(Releases) : ups = chain[b].upgrades[a]
    BY <2>1 DEF Block
  <2>3. Len(ups) \in Nat
    BY <2>2
  <2>4. LastUpgrade(a, b) = [block |-> b, logIndex |-> Len(ups)]
    BY <1>2, <2>2 DEF LastUpgrade
  <2>5. b \in Nat
    BY DEF Height, FetchTypeOK
  <2> QED BY <2>3, <2>4, <2>5 DEF Position
<1> QED BY <1>1, <1>2

(* LastUpgrade, of any chain. *)
LastIn(ch, a, b) ==
    IF b = 0 THEN NoRelease
             ELSE [block |-> b, logIndex |-> Len(ch[b].upgrades[a])]

PublishedOK ==
    /\ Published \in Seq([Apps -> Position])
    /\ Len(Published) = Height
    /\ \A h \in 1..Height : \A a \in Apps :
          Published[h][a] = LastIn(chain, a, chain[h].latest[a])

LEMMA PublishedIsSequence == IInv => PublishedOK
<1> SUFFICES ASSUME IInv PROVE PublishedOK
  OBVIOUS
<1> USE DEF IInv
<1>1. Height \in Nat
  BY DEF FetchTypeOK, Height
<1>2. ASSUME NEW h \in 1..Height
      PROVE  [a \in Apps |-> LastUpgrade(a, chain[h].latest[a])] \in [Apps -> Position]
  <2>1. ASSUME NEW a \in Apps
        PROVE  LastUpgrade(a, chain[h].latest[a]) \in Position
    <3>1. chain[h].latest[a] \in 0..Height
      BY <1>1 DEF StorageInv
    <3> QED BY <3>1, LastUpgradeIsPosition
  <2> QED BY <2>1
<1>3. Published \in [1..Height -> [Apps -> Position]]
  BY <1>2 DEF Published
<1>4. Len(Published) = Height
  BY <1>1 DEF Published
<1>5. \A h \in 1..Height : \A a \in Apps :
         Published[h][a] = LastIn(chain, a, chain[h].latest[a])
  BY DEF Published, LastIn, LastUpgrade
<1> QED BY <1>1, <1>3, <1>4, <1>5 DEF PublishedOK

LEMMA InitRefines == Init => Atomic!Init
<1> SUFFICES ASSUME Init PROVE Atomic!Init
  OBVIOUS
<1>1. IInv
  BY InitEstablishes
<1>2. PICK policy \in Policies : chain = <<GenesisBlock(policy)>>
  BY DEF Init, ChainInit
<1>3. Height = 1 /\ \A a \in Apps : chain[1].latest[a] = 0
  BY <1>2 DEF Height, GenesisBlock
<1>4. Published = <<[a \in Apps |-> NoRelease]>>
  BY <1>3 DEF Published, LastUpgrade
<1>5. AbstractRead = [c \in Callers |-> [pc |-> "idle", app |-> "none", value |-> NoRelease]]
  <2>1. Abs(NotFetching) = [pc |-> "idle", app |-> "none", value |-> NoRelease]
    BY AbsOfPhases DEF NotFetching
  <2> QED BY <2>1, AbstractReadIsAbs DEF Init, FetchInit
<1> QED BY <1>4, <1>5 DEF Atomic!Init, Atomic!Idle, Atomic!NoRelease, NoRelease

-----------------------------------------------------------------------------
(* A mined block publishes, and leaves every call where it is. *)
LEMMA MineBlockRefines ==
    ASSUME IInv, IInv', MineBlock, UNCHANGED fetchVars
    PROVE  Atomic!Publish
<1>1. /\ Height \in Nat /\ Height >= 1 /\ Height' = Height + 1
      /\ \A h \in 1..Height : chain'[h] = chain[h]
      /\ \A a \in Apps :
            chain'[Height + 1].latest[a] = IF chain'[Height + 1].upgrades[a] = <<>>
                                             THEN chain[Height].latest[a] ELSE Height + 1
      /\ UNCHANGED fetch
  BY MineBlockAppends DEF IInv, FetchTypeOK, Height, fetchVars
<1>2. \A a \in Apps : \A b \in 0..Height : LastIn(chain', a, b) = LastIn(chain, a, b)
  BY <1>1 DEF LastIn
<1>3. PublishedOK
  BY PublishedIsSequence
<1>4. PublishedOK'
  <2>1. (IInv => PublishedOK)'
    BY PublishedIsSequence, PTL
  <2> QED BY <2>1
<1>5. \A h \in 1..Height : \A a \in Apps : chain[h].latest[a] \in 0..h
  BY DEF IInv, StorageInv
<1>6. ASSUME NEW h \in 1..Height
      PROVE  Published'[h] = Published[h]
  <2>1. ASSUME NEW a \in Apps
        PROVE  Published'[h][a] = Published[h][a]
    <3>1. chain'[h] = chain[h] /\ chain[h].latest[a] \in 0..Height /\ h \in 1..Height'
      BY <1>1, <1>5
    <3>2. Published'[h][a] = LastIn(chain', a, chain'[h].latest[a])
      BY <1>4, <3>1 DEF PublishedOK
    <3>3. Published[h][a] = LastIn(chain, a, chain[h].latest[a])
      BY <1>3 DEF PublishedOK
    <3> QED BY <1>2, <3>1, <3>2, <3>3
  <2>2. Published[h] \in [Apps -> Position] /\ Published'[h] \in [Apps -> Position]
    BY <1>1, <1>3, <1>4 DEF PublishedOK
  <2> QED BY <2>1, <2>2
<1>7. ASSUME NEW a \in Apps
      PROVE  \/ Published'[Height + 1][a] = Published[Height][a]
             \/ Atomic!Newer(Published'[Height + 1][a], Published[Height][a])
  <2> DEFINE old == chain[Height].latest[a]
             new == chain'[Height + 1].latest[a]
  <2>1. old \in 0..Height /\ (new = old \/ new = Height + 1)
    BY <1>1, <1>5
  <2>2. /\ Published[Height][a] = LastIn(chain, a, old)
        /\ Published'[Height + 1][a] = LastIn(chain', a, new)
    BY <1>1, <1>3, <1>4 DEF PublishedOK
  <2> HIDE DEF old, new
  <2>3. CASE new = old
    BY <1>2, <2>1, <2>2, <2>3
  <2>4. CASE new = Height + 1
    <3>1. LastIn(chain', a, new).block = Height + 1
      BY <1>1, <2>4 DEF LastIn
    <3>2. LastIn(chain, a, old).block = old
      BY <2>1 DEF LastIn, NoRelease
    <3> QED BY <1>1, <2>1, <2>2, <3>1, <3>2 DEF Atomic!Newer
  <2> QED BY <2>1, <2>3, <2>4
<1>8. UNCHANGED AbstractRead
  <2>1. ASSUME NEW c \in Callers
        PROVE  Abs(fetch[c])' = Abs(fetch[c])
    <3> DEFINE f == fetch[c]
    <3>1. f.pc = "filter" => f.app \in Apps /\ f.block \in 0..Height
      <4>1. ASSUME f.pc = "filter"
            PROVE  f.app \in Apps /\ \E h \in 1..Height : chain[h].latest[f.app] = f.block
        BY <4>1 DEF IInv, FetchInv, ReadInWindow, Window
      <4> QED BY <1>1, <1>5, <4>1
    <3>2. f.pc = "filter" => LastIn(chain', f.app, f.block) = LastIn(chain, f.app, f.block)
      BY <1>2, <3>1
    <3>3. LastUpgrade(f.app, f.block)' = LastIn(chain', f.app, f.block)
      BY <1>1 DEF LastUpgrade, LastIn
    <3>4. LastUpgrade(f.app, f.block) = LastIn(chain, f.app, f.block)
      BY DEF LastUpgrade, LastIn
    <3> QED BY <1>1, <3>2, <3>3, <3>4 DEF Abs
  <2>2. AbstractRead' = [c \in Callers |-> Abs(fetch[c])']
    BY DEF AbstractRead, Abs
  <2> QED BY <2>1, <2>2, AbstractReadIsAbs
<1>9. Published' \in Seq([Apps -> Position]) /\ Len(Published') = Len(Published) + 1
  BY <1>1, <1>3, <1>4 DEF PublishedOK
<1>10. Len(Published) = Height
  BY <1>3 DEF PublishedOK
<1> QED BY <1>6, <1>7, <1>8, <1>9, <1>10 DEF Atomic!Publish, Atomic!Position, Position

(* A step of one call changes the abstract state of that call alone. *)
LEMMA CallChangesOneRead ==
    ASSUME IInv, UNCHANGED chain, NEW c \in Callers,
           NEW g, fetch' = [fetch EXCEPT ![c] = g]
    PROVE  /\ UNCHANGED Published
           /\ AbstractRead' = [AbstractRead EXCEPT ![c] = Abs(g)]
           /\ AbstractRead[c] = Abs(fetch[c])
<1>1. UNCHANGED Published
  BY DEF Published, LastUpgrade, Height
<1>2. AbstractRead' = [d \in Callers |-> Abs(fetch'[d])]
  BY DEF AbstractRead, Abs, LastUpgrade
<1>3. \A d \in Callers : fetch'[d] = IF d = c THEN g ELSE fetch[d]
  BY DEF IInv, FetchTypeOK
<1> QED BY <1>1, <1>2, <1>3, AbstractReadIsAbs

(* A call reads at its first RPC; the second makes the value known. *)
LEMMA CallRefines ==
    ASSUME IInv, NEW c \in Callers,
           \/ \E app \in Apps : GetLatestRelease(c, app)
           \/ FetchStep(c)
           \/ FetchReturn(c)
    PROVE  Atomic!Next
<1> DEFINE f == fetch[c]
<1>1. /\ UNCHANGED chain /\ Height \in Nat
      /\ f \in FetchState /\ fetch \in [Callers -> FetchState] /\ FetchInv(f)
  <2>1. UNCHANGED chain
    BY DEF GetLatestRelease, FetchStep, FetchBlockNumber, FetchEvents, FetchError, FetchReturn
  <2>2. Height \in Nat /\ f \in FetchState /\ fetch \in [Callers -> FetchState] /\ FetchInv(f)
    BY DEF IInv, FetchTypeOK, Height
  <2> QED BY <2>1, <2>2
<1>2. CASE \E app \in Apps : GetLatestRelease(c, app)
  <2>1. PICK app \in Apps : GetLatestRelease(c, app)
    BY <1>2
  <2> DEFINE g == [NotFetching EXCEPT !.pc = "blockNumber", !.app = app,
                                      !.since = Height, !.floor = newest[app]]
  <2>2. fetch' = [fetch EXCEPT ![c] = g] /\ f.pc = "idle"
    BY <2>1 DEF GetLatestRelease
  <2>3. g.pc = "blockNumber" /\ g.app = app
    BY DEF NotFetching
  <2> HIDE DEF g
  <2>4. /\ UNCHANGED Published
        /\ AbstractRead' = [AbstractRead EXCEPT ![c] = Abs(g)] /\ AbstractRead[c] = Abs(f)
    BY <1>1, <2>2, CallChangesOneRead
  <2>5. /\ Abs(g) = [pc |-> "invoked", app |-> app, value |-> NoRelease]
        /\ Abs(f).pc = "idle"
    BY <2>2, <2>3, AbsOfPhases
  <2>6. Atomic!Invoke(c, app)
    BY <2>4, <2>5 DEF Atomic!Invoke, Atomic!NoRelease, NoRelease
  <2> QED BY <2>6 DEF Atomic!Next
<1>3. CASE FetchBlockNumber(c)
  <2>1. PICK h \in Views :
           fetch' = [fetch EXCEPT ![c].pc = "filter", ![c].block = chain[h].latest[f.app]]
    BY <1>3 DEF FetchBlockNumber, GetAppLatestReleaseBlockNumber
  <2>2. f.pc = "blockNumber" /\ f.app \in Apps
    BY <1>1, <1>3 DEF FetchBlockNumber, FetchInv
  <2> DEFINE b == chain[h].latest[f.app]
             g == [f EXCEPT !.pc = "filter", !.block = b]
  <2>3. fetch' = [fetch EXCEPT ![c] = g]
    BY <1>1, <2>1
  <2>4. g.pc = "filter" /\ g.app = f.app /\ g.block = b
    <3> HIDE DEF b
    <3> QED BY <1>1 DEF FetchState
  <2> HIDE DEF g
  <2>5. /\ UNCHANGED Published
        /\ AbstractRead' = [AbstractRead EXCEPT ![c] = Abs(g)] /\ AbstractRead[c] = Abs(f)
    BY <1>1, <2>3, CallChangesOneRead
  <2>6. /\ h \in 1..Len(Published) /\ Len(Published) - h <= MaxLag
        /\ Published[h][f.app] = LastUpgrade(f.app, b)
    BY <2>2, PublishedIsSequence DEF PublishedOK, Views, LastIn, LastUpgrade
  <2>7. /\ Abs(g) = [pc |-> "read", app |-> f.app, value |-> LastUpgrade(f.app, b)]
        /\ Abs(f) = [pc |-> "invoked", app |-> f.app, value |-> NoRelease]
    BY <2>2, <2>4, AbsOfPhases
  <2>8. Abs(f).pc = "invoked" /\ Abs(f).app = f.app
    BY <2>7
  <2>9. Atomic!ReadLatest(c)
    BY <2>5, <2>6, <2>7, <2>8 DEF Atomic!ReadLatest
  <2> QED BY <2>9 DEF Atomic!Next
<1>4. CASE FetchEvents(c)
  <2>1. f.pc = "filter" /\ f.app \in Apps /\ f.block \in Nat
    BY <1>1, <1>4 DEF FetchEvents, FetchInv, FetchState
  <2>2. PICK h \in Views :
          LET events == FilterAppUpgraded(f.app, f.block, h)
              last   == LatestByLogIndex(events)
          IN  IF events # {} /\ Usable(ReleaseAt(f.app, last))
                THEN fetch' = [fetch EXCEPT ![c].pc = "done", ![c].release = last]
                ELSE fetch' = [fetch EXCEPT ![c].pc = "failed"]
    BY <1>4 DEF FetchEvents
  <2> DEFINE events == FilterAppUpgraded(f.app, f.block, h)
             last   == LatestByLogIndex(events)
             value  == LastUpgrade(f.app, f.block)
  <2>3. Abs(f) = [pc |-> "read", app |-> f.app, value |-> value]
    BY <2>1, AbsOfPhases
  <2>4. CASE events # {} /\ Usable(ReleaseAt(f.app, last))
    <3> DEFINE g == [f EXCEPT !.pc = "done", !.release = last]
    <3>1. h \in 1..Height
      BY DEF Views
    <3>2. last = value /\ f.block \in 1..h
      BY <2>1, <2>4, <3>1, LoopReturnsLastUpgrade DEF IInv
    <3>3. fetch' = [fetch EXCEPT ![c] = g]
      BY <1>1, <2>2, <2>4
    <3>4. g.pc = "done" /\ g.app = f.app /\ g.release = last
      <4> HIDE DEF last
      <4> QED BY <1>1 DEF FetchState
    <3>5. value # NoRelease
      BY <1>1, <3>1, <3>2 DEF LastUpgrade, NoRelease
    <3> HIDE DEF g, last, value
    <3>6. /\ UNCHANGED Published
          /\ AbstractRead' = [AbstractRead EXCEPT ![c] = Abs(g)] /\ AbstractRead[c] = Abs(f)
      BY <1>1, <3>3, CallChangesOneRead
    <3>7. Abs(g) = [pc |-> "done", app |-> f.app, value |-> value]
      BY <3>2, <3>4, AbsOfPhases
    <3>8. Abs(g) = [Abs(f) EXCEPT !.pc = "done"] /\ Abs(f).pc = "read" /\ Abs(f).value = value
      BY <2>3, <3>7
    <3>9. AbstractRead' = [AbstractRead EXCEPT ![c].pc = "done"]
      BY <3>6, <3>8
    <3>10. Atomic!Succeed(c)
      BY <3>5, <3>6, <3>8, <3>9 DEF Atomic!Succeed, Atomic!NoRelease, NoRelease
    <3> QED BY <3>10 DEF Atomic!Next
  <2>5. CASE ~(events # {} /\ Usable(ReleaseAt(f.app, last)))
    <3> DEFINE g == [f EXCEPT !.pc = "failed"]
    <3>1. fetch' = [fetch EXCEPT ![c] = g]
      BY <1>1, <2>2, <2>5
    <3>2. g.pc = "failed" /\ g.app = f.app
      BY <1>1 DEF FetchState
    <3> HIDE DEF g
    <3>3. /\ UNCHANGED Published
          /\ AbstractRead' = [AbstractRead EXCEPT ![c] = Abs(g)] /\ AbstractRead[c] = Abs(f)
      BY <1>1, <3>1, CallChangesOneRead
    <3>4. Abs(g) = [pc |-> "failed", app |-> f.app, value |-> NoRelease]
      BY <3>2, AbsOfPhases
    <3>5. Abs(f).pc = "read" /\ Abs(f).app = f.app
      BY <2>3
    <3>6. Atomic!Fail(c)
      BY <3>3, <3>4, <3>5 DEF Atomic!Fail, Atomic!NoRelease, NoRelease
    <3> QED BY <3>6 DEF Atomic!Next
  <2> QED BY <2>4, <2>5
<1>5. CASE FetchError(c)
  <2> DEFINE g == [f EXCEPT !.pc = "error"]
  <2>1. fetch' = [fetch EXCEPT ![c] = g] /\ f.pc \in {"blockNumber", "filter"}
    BY <1>1, <1>5 DEF FetchError
  <2>2. g.pc = "error" /\ g.app = f.app
    BY <1>1 DEF FetchState
  <2> HIDE DEF g
  <2>3. /\ UNCHANGED Published
        /\ AbstractRead' = [AbstractRead EXCEPT ![c] = Abs(g)] /\ AbstractRead[c] = Abs(f)
    BY <1>1, <2>1, CallChangesOneRead
  <2>4. Abs(g) = [pc |-> "failed", app |-> f.app, value |-> NoRelease]
    BY <2>2, AbsOfPhases
  <2>5. Abs(f).pc \in {"invoked", "read"} /\ Abs(f).app = f.app
    <3>1. \/ Abs(f) = [pc |-> "invoked", app |-> f.app, value |-> NoRelease]
          \/ Abs(f) = [pc |-> "read", app |-> f.app, value |-> LastUpgrade(f.app, f.block)]
      BY <2>1, AbsOfPhases
    <3> QED BY <3>1
  <2>6. Atomic!Fail(c)
    BY <2>3, <2>4, <2>5 DEF Atomic!Fail, Atomic!NoRelease, NoRelease
  <2> QED BY <2>6 DEF Atomic!Next
<1>6. CASE FetchReturn(c)
  <2>1. fetch' = [fetch EXCEPT ![c] = NotFetching] /\ f.pc \in {"done", "failed", "error"}
    BY <1>6 DEF FetchReturn
  <2>2. /\ UNCHANGED Published
        /\ AbstractRead' = [AbstractRead EXCEPT ![c] = Abs(NotFetching)] /\ AbstractRead[c] = Abs(f)
    BY <1>1, <2>1, CallChangesOneRead
  <2>3. Abs(NotFetching) = [pc |-> "idle", app |-> "none", value |-> NoRelease]
    BY AbsOfPhases DEF NotFetching
  <2>4. Abs(f).pc \in {"done", "failed"}
    <3>1. \/ Abs(f) = [pc |-> "done", app |-> f.app, value |-> f.release]
          \/ Abs(f) = [pc |-> "failed", app |-> f.app, value |-> NoRelease]
      BY <2>1, AbsOfPhases
    <3> QED BY <3>1
  <2>5. Atomic!Return(c)
    BY <2>2, <2>3, <2>4 DEF Atomic!Return, Atomic!Idle, Atomic!NoRelease, NoRelease
  <2> QED BY <2>5 DEF Atomic!Next
<1> QED BY <1>2, <1>3, <1>4, <1>5, <1>6 DEF FetchStep

-----------------------------------------------------------------------------
(* GetLatestRelease (chainclient.go:59-106), two calls to nodes at heights *)
(* of their own, implements a read at one instant.                         *)
THEOREM ReadRefinesAtomic == Spec => ReadIsAtomic
<1>1. IInv /\ IInv' /\ [Next]_vars => [Atomic!Next]_(Atomic!vars)
  <2> SUFFICES ASSUME IInv, IInv', [Next]_vars
               PROVE  [Atomic!Next]_(Atomic!vars)
    OBVIOUS
  <2>1. CASE MineBlock /\ UNCHANGED fetchVars
    BY <2>1, MineBlockRefines DEF Atomic!Next
  <2>2. CASE \E c \in Callers :
                \/ \E app \in Apps : GetLatestRelease(c, app)
                \/ FetchStep(c)
                \/ FetchReturn(c)
    BY <2>2, CallRefines
  <2>3. CASE UNCHANGED vars
    BY <2>3 DEF vars, Atomic!vars, Published, AbstractRead, LastUpgrade, Height
  <2> QED BY <2>1, <2>2, <2>3 DEF Next
<1> QED BY <1>1, InitRefines, Invariance, PTL DEF Spec, ReadIsAtomic, Atomic!Spec
===============================================================================
