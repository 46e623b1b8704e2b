---------------------------- MODULE EventWalkProofs ----------------------------
(***************************************************************************)
(* Proofs about EventWalk, for any number of logs in the block: the walk   *)
(* through a block's logs is the one step ReleaseFetch makes of it.        *)
(*                                                                         *)
(* The loop's invariant is about the logs already handed over: what the    *)
(* loop has kept is the newest of them.  It needs that the node's answer   *)
(* holds every log of the topic, each once, in whatever order.             *)
(***************************************************************************)
EXTENDS EventWalk, FiniteSetTheorems, TLAPS

AllUnpack == \A l \in FilterLogs(emitted) : l.decodable

OneLogPerIndex(logs) == \A l, m \in logs : l.index = m.index => l = m

OneToOne(order) == \A i, j \in DOMAIN order : order[i] = order[j] => i = j

(* The loop has gone through the logs in seen and kept last. *)
KeptNewest(last, seen) ==
    \/ seen = {} /\ last = NoLog
    \/ \E l \in seen : last = Event(l) /\ \A m \in seen : m.index <= l.index

WalkPhase == {"filter", "next", "end", "found", "notFound", "error"}

WalkInv ==
    /\ emitted \in SUBSET Logs /\ OneLogPerIndex(emitted)
    /\ feeder.logs \in Seq(FilterLogs(emitted)) /\ OneToOne(feeder.logs)
    /\ ~feeder.alive => feeder.logs = <<>>
    /\ feeder = [alive |-> feeder.alive, logs |-> feeder.logs]
    /\ walk = [pc |-> walk.pc, fail |-> walk.fail, last |-> walk.last]
    /\ walk.pc \in WalkPhase
    /\ walk.pc = "filter" => walk.last = NoLog /\ ~feeder.alive
    /\ AllUnpack /\ walk.pc \notin {"filter", "error"} =>
          KeptNewest(walk.last, FilterLogs(emitted) \ Range(feeder.logs))
    /\ AllUnpack /\ walk.pc \in {"end", "found", "notFound"} => feeder.logs = <<>>
    /\ walk.pc = "found" => walk.last # NoLog
    /\ walk.pc = "notFound" => walk.last = NoLog

-----------------------------------------------------------------------------
(* The block's logs are finitely many. *)
LEMMA FilteredIsFinite ==
    ASSUME NEW logs \in SUBSET Logs, OneLogPerIndex(logs)
    PROVE  IsFiniteSet(FilterLogs(logs))
<1> DEFINE f == [l \in logs |-> l.index]
<1>1. f \in Injection(logs, 1..MaxLogs)
  <2>1. f \in [logs -> 1..MaxLogs]
    BY DEF Logs
  <2>2. \A l, m \in logs : f[l] = f[m] => l = m
    BY DEF OneLogPerIndex
  <2> QED BY <2>1, <2>2 DEF Injection, IsInjective
<1>2. IsFiniteSet(1..MaxLogs)
  BY LogAssumption, FS_Interval
<1>3. IsFiniteSet(logs)
  BY <1>1, <1>2, FS_Injection
<1>4. FilterLogs(logs) \in SUBSET logs
  BY DEF FilterLogs
<1> QED BY <1>3, <1>4, FS_Subset

(* A node's answer holds every log once. *)
LEMMA AnswerIsComplete ==
    ASSUME NEW S, IsFiniteSet(S), NEW order \in SetToSeqs(S)
    PROVE  order \in Seq(S) /\ OneToOne(order) /\ Range(order) = S
<1>1. Cardinality(S) \in Nat
  BY FS_CardinalityType
<1>2. /\ order \in [1..Cardinality(S) -> S]
      /\ \A i, j \in 1..Cardinality(S) : i # j => order[i] # order[j]
  BY DEF SetToSeqs
<1>3. order \in Injection(1..Cardinality(S), S)
  BY <1>2 DEF Injection, IsInjective
<1>4. Cardinality(1..Cardinality(S)) = Cardinality(S)
  BY <1>1, FS_Interval
<1>5. order \in Surjection(1..Cardinality(S), S)
  BY <1>3, <1>4, FS_Injection
<1>6. Range(order) = S
  BY <1>2, <1>5 DEF Surjection, Range
<1>7. order \in Seq(S)
  BY <1>1, <1>2
<1> QED BY <1>2, <1>6, <1>7 DEF OneToOne

(* One log is taken from those still to come. *)
LEMMA TakeOne ==
    ASSUME NEW S, NEW order \in Seq(S), OneToOne(order), order # <<>>
    PROVE  /\ Head(order) \in S
           /\ Tail(order) \in Seq(S) /\ OneToOne(Tail(order))
           /\ Head(order) \notin Range(Tail(order))
           /\ Range(order) = Range(Tail(order)) \cup {Head(order)}
<1> DEFINE rest == Tail(order)
<1>1. Len(order) \in Nat /\ Len(order) >= 1 /\ DOMAIN order = 1..Len(order)
  OBVIOUS
<1>2. /\ rest \in Seq(S) /\ DOMAIN rest = 1..(Len(order) - 1)
      /\ \A i \in DOMAIN rest : rest[i] = order[i + 1]
  BY <1>1
<1>3. Head(order) = order[1] /\ Head(order) \in S
  BY <1>1
<1> HIDE DEF rest
<1>4. OneToOne(rest)
  BY <1>1, <1>2 DEF OneToOne
<1>5. Head(order) \notin Range(rest)
  BY <1>1, <1>2, <1>3 DEF OneToOne, Range
<1>6. Range(order) = Range(rest) \cup {Head(order)}
  <2>1. ASSUME NEW i \in DOMAIN order
        PROVE  order[i] \in Range(rest) \cup {Head(order)}
    <3>1. CASE i = 1
      BY <1>3, <3>1
    <3>2. CASE i # 1
      <4>1. (i - 1) \in DOMAIN rest /\ rest[i - 1] = order[i]
        BY <1>1, <1>2, <3>2
      <4> QED BY <4>1 DEF Range
    <3> QED BY <3>1, <3>2
  <2>2. \A i \in DOMAIN rest : rest[i] = order[i + 1] /\ i + 1 \in DOMAIN order
    BY <1>1, <1>2
  <2>3. Head(order) = order[1] /\ 1 \in DOMAIN order
    BY <1>1, <1>3
  <2> QED BY <2>1, <2>2, <2>3 DEF Range
<1> QED BY <1>2, <1>3, <1>4, <1>5, <1>6 DEF rest

(* The loop's body keeps the newest. *)
LEMMA BodyKeepsNewest ==
    ASSUME NEW last, NEW seen \in SUBSET Logs, KeptNewest(last, seen), NEW log \in Logs
    PROVE  KeptNewest(KeepLatest(last, Event(log)), seen \cup {log})
<1>1. \A l \in Logs : /\ Event(l).logIndex = l.index /\ l.index \in Int
                      /\ Event(l) # NoLog
  <2>1. \A l \in Logs : l.index \in 1..MaxLogs
    BY DEF Logs
  <2> QED BY <2>1, LogAssumption DEF Event
<1>2. CASE seen = {} /\ last = NoLog
  BY <1>1, <1>2 DEF KeptNewest, KeepLatest
<1>3. ASSUME NEW l \in seen, last = Event(l), \A m \in seen : m.index <= l.index
      PROVE  KeptNewest(KeepLatest(last, Event(log)), seen \cup {log})
  <2>1. last # NoLog /\ last.logIndex = l.index /\ Event(log).logIndex = log.index
        /\ l.index \in Int /\ log.index \in Int
    BY <1>1, <1>3
  <2>2. \A m \in seen : m.index \in Int
    BY <1>1
  <2>3. CASE log.index > l.index
    <3>1. KeepLatest(last, Event(log)) = Event(log)
      BY <2>1, <2>3 DEF KeepLatest
    <3>2. \A m \in seen \cup {log} : m.index <= log.index
      BY <1>3, <2>1, <2>2, <2>3
    <3> QED BY <3>1, <3>2 DEF KeptNewest
  <2>4. CASE ~(log.index > l.index)
    <3>1. KeepLatest(last, Event(log)) = last
      BY <2>1, <2>4 DEF KeepLatest
    <3>2. \A m \in seen \cup {log} : m.index <= l.index
      BY <1>3, <2>1, <2>2, <2>4
    <3> QED BY <1>3, <3>1, <3>2 DEF KeptNewest
  <2> QED BY <2>3, <2>4
<1> QED BY <1>2, <1>3 DEF KeptNewest

-----------------------------------------------------------------------------
LEMMA WalkInitEstablishes == WalkInit => WalkInv
<1> SUFFICES ASSUME WalkInit PROVE WalkInv
  OBVIOUS
<1>1. emitted \in SUBSET Logs /\ OneLogPerIndex(emitted)
  BY DEF WalkInit, OneLogPerIndex
<1>2. feeder = [alive |-> FALSE, logs |-> <<>>]
  BY DEF WalkInit
<1>3. walk = [pc |-> "filter", fail |-> FALSE, last |-> NoLog]
  BY DEF WalkInit
<1>4. feeder.logs = <<>> /\ feeder.logs \in Seq(FilterLogs(emitted)) /\ OneToOne(feeder.logs)
  BY <1>2 DEF OneToOne
<1> QED BY <1>1, <1>2, <1>3, <1>4 DEF WalkInv, WalkPhase

(* Where nothing is left to hand over, everything has been. *)
LEMMA NothingPending ==
    ASSUME NEW S, NEW order, order = <<>>
    PROVE  S \ Range(order) = S
BY DEF Range

LEMMA FilterPreserves ==
    ASSUME WalkInv, FilterAppUpgraded
    PROVE  WalkInv'
<1>1. PICK order \in SetToSeqs(FilterLogs(emitted)) :
         feeder' = [alive |-> TRUE, logs |-> order]
  BY DEF FilterAppUpgraded
<1>2. /\ emitted' = emitted /\ walk' = [walk EXCEPT !.pc = "next"]
      /\ walk.pc = "filter" /\ walk.last = NoLog
  BY DEF FilterAppUpgraded, WalkInv
<1>3. walk'.pc = "next" /\ walk'.last = NoLog
      /\ walk' = [pc |-> walk'.pc, fail |-> walk'.fail, last |-> walk'.last]
  BY <1>2 DEF WalkInv
<1>4. order \in Seq(FilterLogs(emitted)) /\ OneToOne(order) /\ Range(order) = FilterLogs(emitted)
  BY FilteredIsFinite, AnswerIsComplete DEF WalkInv
<1>5. KeptNewest(NoLog, FilterLogs(emitted) \ Range(order))
  BY <1>4 DEF KeptNewest
<1>6. feeder'.alive /\ feeder'.logs = order
      /\ feeder' = [alive |-> feeder'.alive, logs |-> feeder'.logs]
  BY <1>1
<1>7. FilterLogs(emitted)' = FilterLogs(emitted)
  BY <1>2 DEF FilterLogs
<1> QED BY <1>2, <1>3, <1>4, <1>5, <1>6, <1>7 DEF WalkInv, WalkPhase

LEMMA NextLogPreserves ==
    ASSUME WalkInv, NextLog
    PROVE  WalkInv'
<1> DEFINE F    == FilterLogs(emitted)
           log  == Head(feeder.logs)
           rest == Tail(feeder.logs)
<1>1. /\ walk.pc = "next" /\ feeder.logs # <<>> /\ emitted' = emitted
      /\ feeder.logs \in Seq(F) /\ OneToOne(feeder.logs) /\ feeder.alive
  BY DEF NextLog, WalkInv
<1>2. /\ log \in F /\ rest \in Seq(F) /\ OneToOne(rest)
      /\ log \notin Range(rest) /\ Range(feeder.logs) = Range(rest) \cup {log}
  BY <1>1, TakeOne
<1>3. /\ feeder' = [alive |-> feeder'.alive, logs |-> feeder'.logs]
      /\ feeder'.alive /\ feeder'.logs = rest
  BY <1>1 DEF NextLog, WalkInv
<1>4. F' = F /\ (AllUnpack' <=> AllUnpack)
  BY <1>1 DEF AllUnpack, FilterLogs
<1>5. F \in SUBSET Logs
  BY DEF WalkInv, FilterLogs
<1>6. CASE log.decodable
  <2>1. walk' = [walk EXCEPT !.last = KeepLatest(walk.last, Event(log))]
    BY <1>6 DEF NextLog
  <2>2. /\ walk'.pc = "next" /\ walk'.last = KeepLatest(walk.last, Event(log))
        /\ walk' = [pc |-> walk'.pc, fail |-> walk'.fail, last |-> walk'.last]
    BY <1>1, <2>1 DEF WalkInv
  <2>3. ASSUME AllUnpack
        PROVE  KeptNewest(walk'.last, F \ Range(rest))
    <3> DEFINE seen == F \ Range(feeder.logs)
    <3>1. KeptNewest(walk.last, seen)
      BY <1>1, <2>3 DEF WalkInv
    <3>2. F \ Range(rest) = seen \cup {log}
      BY <1>2
    <3> HIDE DEF F, log, rest, seen
    <3>3. seen \in SUBSET Logs /\ log \in Logs
      BY <1>2, <1>5 DEF seen
    <3>4. KeptNewest(KeepLatest(walk.last, Event(log)), seen \cup {log})
      BY <3>1, <3>3, BodyKeepsNewest
    <3> QED BY <2>2, <3>2, <3>4
  <2> HIDE DEF F, log, rest
  <2>4. F = FilterLogs(emitted)
    BY DEF F
  <2>5. F' = FilterLogs(emitted)'
    BY DEF F
  <2>6. /\ emitted' \in SUBSET Logs /\ OneLogPerIndex(emitted')
    BY <1>1 DEF WalkInv
  <2> QED BY <1>2, <1>3, <1>4, <2>2, <2>3, <2>4, <2>5, <2>6 DEF WalkInv, WalkPhase
<1>7. CASE ~log.decodable
  <2>1. walk' = [walk EXCEPT !.fail = TRUE, !.pc = "end"]
    BY <1>7 DEF NextLog
  <2>2. /\ walk'.pc = "end"
        /\ walk' = [pc |-> walk'.pc, fail |-> walk'.fail, last |-> walk'.last]
    BY <1>1, <2>1 DEF WalkInv
  <2>3. ~AllUnpack
    BY <1>2, <1>7 DEF AllUnpack
  <2>4. emitted' \in SUBSET Logs /\ OneLogPerIndex(emitted')
    BY <1>1 DEF WalkInv
  <2>5. F' = FilterLogs(emitted)'
    OBVIOUS
  <2> HIDE DEF F, log, rest
  <2> QED BY <1>2, <1>3, <1>4, <2>2, <2>3, <2>4, <2>5 DEF WalkInv, WalkPhase
<1> QED BY <1>6, <1>7

(* The steps that hand nothing over. *)
LEMMA OthersPreserve ==
    ASSUME WalkInv, FilterError \/ FeederEnds \/ NextDone \/ Return \/ UNCHANGED walkVars
    PROVE  WalkInv'
<1>1. /\ emitted' = emitted /\ feeder'.logs = feeder.logs
      /\ feeder' = [alive |-> feeder'.alive, logs |-> feeder'.logs]
      /\ ~feeder'.alive => feeder.logs = <<>>
  BY DEF FilterError, FeederEnds, NextDone, Return, walkVars, WalkInv
<1>2. /\ walk' = [pc |-> walk'.pc, fail |-> walk'.fail, last |-> walk'.last]
      /\ walk'.last = walk.last /\ walk'.pc \in WalkPhase
      /\ walk'.pc = "filter" => walk.pc = "filter" /\ ~feeder'.alive
      /\ walk'.pc \notin {"filter", "error"} => walk.pc \notin {"filter", "error"}
      /\ walk'.pc \in {"end", "found", "notFound"} =>
            walk.pc \in {"end", "found", "notFound"} \/ (walk.pc = "next" /\ ~feeder.alive)
      /\ walk'.pc = "found" => walk.last # NoLog
      /\ walk'.pc = "notFound" => walk.last = NoLog
  BY DEF FilterError, FeederEnds, NextDone, Return, walkVars, WalkInv, WalkPhase
<1>3. FilterLogs(emitted)' = FilterLogs(emitted) /\ (AllUnpack' <=> AllUnpack)
  BY <1>1 DEF AllUnpack, FilterLogs
<1> QED BY <1>1, <1>2, <1>3 DEF WalkInv

(* WalkInv is inductive. *)
THEOREM WalkInvariance == WalkSpec => []WalkInv
<1>1. WalkInv /\ [WalkNext]_walkVars => WalkInv'
  BY FilterPreserves, NextLogPreserves, OthersPreserve DEF WalkNext
<1> QED BY WalkInitEstablishes, <1>1, PTL DEF WalkSpec

(* The walk behaves as the one step ReleaseFetch makes of it: where every  *)
(* log of the topic unpacks, it finds the newest of the block, whatever    *)
(* the order they came in, and nothing exactly if there is none            *)
(* (chainclient.go:79-89, binding.go:2169-2206).                           *)
THEOREM WalkAlwaysFindsNewest == WalkSpec => []WalkFindsNewest
<1>1. WalkInv => WalkFindsNewest
  <2> SUFFICES ASSUME WalkInv, AllUnpack PROVE WalkFindsNewest
    BY DEF WalkFindsNewest, AllUnpack
  <2> DEFINE F == FilterLogs(emitted)
  <2>1. F \in SUBSET emitted /\ emitted \in SUBSET Logs /\ OneLogPerIndex(emitted)
    BY DEF FilterLogs, WalkInv
  <2>2. ASSUME walk.pc \in {"found", "notFound"}
        PROVE  KeptNewest(walk.last, F)
    BY <2>2, NothingPending DEF WalkInv
  <2>3. ASSUME walk.pc = "notFound"
        PROVE  F = {}
    <3>1. KeptNewest(NoLog, F)
      BY <2>2, <2>3 DEF WalkInv
    <3>2. \A l \in F : Event(l) # NoLog
      BY <2>1, LogAssumption DEF Event, Logs
    <3> QED BY <3>1, <3>2 DEF KeptNewest
  <2>4. ASSUME walk.pc = "found"
        PROVE  \E l \in F : walk.last = Event(l) /\ \A m \in F : m.index <= l.index
    BY <2>2, <2>4 DEF KeptNewest, WalkInv
  <2>5. ASSUME walk.pc = "found"
        PROVE  Newest(F) = {walk.last}
    <3>1. PICK l \in F : walk.last = Event(l) /\ \A m \in F : m.index <= l.index
      BY <2>4, <2>5
    <3>2. ASSUME NEW k \in F, \A m \in F : m.index <= k.index
          PROVE  k = l
      <4>1. k.index \in Int /\ l.index \in Int
        BY <2>1 DEF Logs
      <4>2. k.index = l.index
        BY <3>1, <3>2, <4>1
      <4> QED BY <2>1, <4>2 DEF OneLogPerIndex
    <3> QED BY <3>1, <3>2 DEF Newest
  <2>6. ASSUME walk.pc = "found", walk.last \notin Newest(emitted)
        PROVE  \E k \in emitted \ F : k.index > walk.last.logIndex
    <3>1. PICK l \in F : walk.last = Event(l) /\ \A m \in F : m.index <= l.index
      BY <2>4, <2>6
    <3>2. PICK k \in emitted : ~(k.index <= l.index)
      BY <2>1, <2>6, <3>1 DEF Newest
    <3>3. k.index \in Int /\ l.index \in Int /\ walk.last.logIndex = l.index
      BY <2>1, <3>1 DEF Logs, Event
    <3> QED BY <3>1, <3>2, <3>3
  <2> QED BY <2>3, <2>5, <2>6 DEF WalkFindsNewest
<1> QED BY <1>1, WalkInvariance, PTL
=============================================================================
