------------------------------ MODULE EventWalk ------------------------------
(***************************************************************************)
(* How GetLatestRelease reads the AppUpgraded logs of one block.           *)
(* ReleaseFetch takes this as one step; here are its parts.  FilterLogs    *)
(* fetches the logs that have the topic of the ABI the server was          *)
(* configured with, and starts a goroutine that hands them over, one by    *)
(* one, on an unbuffered channel.  The iterator's Next takes a log or      *)
(* notices that the goroutine has ended; the loop keeps the log with the   *)
(* highest index.  A log that cannot be unpacked sets the iterator's       *)
(* error, which GetLatestRelease never reads, and ends the loop.           *)
(***************************************************************************)
EXTENDS Integers, Sequences, SequencesExt

CONSTANTS
    MaxLogs,      \* bound: AppUpgraded logs of the app in the block
    AbiVersion,   \* RELEASE_ABI_VERSION
    NoLog         \* lastAppUpgrade == nil

ASSUME LogAssumption == MaxLogs \in Nat /\ NoLog \notin [logIndex : 1..MaxLogs]

VARIABLES
    emitted,      \* the logs of the app in the block
    feeder,       \* the goroutine that hands logs over
    walk          \* the loop of GetLatestRelease

walkVars == <<emitted, feeder, walk>>

-----------------------------------------------------------------------------
(* The Release shape, hence the event topic, of a configured version.      *)
DecoderOf ==
    [v \in {"", "v1.5", "v1.4"} |-> IF v = "v1.4" THEN "v1.4" ELSE "v1.5"]

(* The events of the two shapes have different topics: a node asked for    *)
(* one returns none of the other.                                          *)
FilterLogs(logs) == {l \in logs : l.abi = DecoderOf[AbiVersion]}

(* Both adapters project a log of their shape to the same record. *)
Event(log) == [logIndex |-> log.index]

Logs == [index : 1..MaxLogs, abi : {"v1.4", "v1.5"}, decodable : BOOLEAN]

(* Mutant: nodes return logs in order, so the last one seen is the latest. *)
KeepLastSeen(last, event) == event

(* The loop's body. *)
KeepLatest(last, event) ==
    IF last = NoLog THEN event
    ELSE IF event.logIndex > last.logIndex THEN event
    ELSE last

-----------------------------------------------------------------------------
WalkInit ==
    /\ emitted \in {s \in SUBSET Logs : \A l, m \in s : l.index = m.index => l = m}
    /\ feeder = [alive |-> FALSE, logs |-> <<>>]
    /\ walk = [pc |-> "filter", fail |-> FALSE, last |-> NoLog]

(* eth_getLogs answers, in any order, and the goroutine starts. *)
FilterAppUpgraded ==
    /\ walk.pc = "filter"
    /\ \E order \in SetToSeqs(FilterLogs(emitted)) :
          feeder' = [alive |-> TRUE, logs |-> order]
    /\ walk' = [walk EXCEPT !.pc = "next"]
    /\ UNCHANGED emitted

FilterError ==
    /\ walk.pc = "filter"
    /\ walk' = [walk EXCEPT !.pc = "error"]
    /\ UNCHANGED <<emitted, feeder>>

(* Mutant: the first event is taken for the only one. *)
NextStopsAtFirst ==
    /\ walk.pc = "next" /\ feeder.logs # <<>>
    /\ feeder' = [feeder EXCEPT !.logs = Tail(@)]
    /\ walk' = [walk EXCEPT !.last = KeepLatest(walk.last, Event(Head(feeder.logs))), !.pc = "end"]
    /\ UNCHANGED emitted

(* Next takes a log from the channel and unpacks it. *)
NextLog ==
    /\ walk.pc = "next" /\ feeder.logs # <<>>
    /\ feeder' = [feeder EXCEPT !.logs = Tail(@)]
    /\ LET log == Head(feeder.logs)
       IN  walk' = IF log.decodable
                     THEN [walk EXCEPT !.last = KeepLatest(walk.last, Event(log))]
                     ELSE [walk EXCEPT !.fail = TRUE, !.pc = "end"]
    /\ UNCHANGED emitted

(* The goroutine has handed over everything. *)
FeederEnds ==
    /\ feeder.alive /\ feeder.logs = <<>>
    /\ feeder' = [feeder EXCEPT !.alive = FALSE]
    /\ UNCHANGED <<emitted, walk>>

(* Next is told that the goroutine ended, and finds nothing more. *)
NextDone ==
    /\ walk.pc = "next" /\ ~feeder.alive
    /\ walk' = [walk EXCEPT !.pc = "end"]
    /\ UNCHANGED <<emitted, feeder>>

(* The call goes on with the log it kept, or fails for want of one. *)
Return ==
    /\ walk.pc = "end"
    /\ walk' = [walk EXCEPT !.pc = IF walk.last = NoLog THEN "notFound" ELSE "found"]
    /\ UNCHANGED <<emitted, feeder>>

WalkNext ==
    \/ FilterAppUpgraded \/ FilterError \/ NextLog \/ FeederEnds \/ NextDone \/ Return

WalkSpec ==
    /\ WalkInit /\ [][WalkNext]_walkVars
    /\ WF_walkVars(FilterAppUpgraded \/ FilterError \/ NextLog \/ NextDone \/ Return)
    /\ WF_walkVars(FeederEnds)

-----------------------------------------------------------------------------
Newest(logs) == {Event(l) : l \in {k \in logs : \A m \in logs : m.index <= k.index}}

(* The walk behaves as the one step ReleaseFetch makes of it: where every  *)
(* log of the topic unpacks, it finds the newest of the block, whatever    *)
(* the order they came in, and nothing exactly if there is none.  If the   *)
(* block's newest upgrade has the other shape, an older one of the same    *)
(* block may be returned for it; otherwise never                           *)
(* (chainclient.go:79-89, binding.go:2169-2206, adapter.go:14-43).         *)
WalkFindsNewest ==
    (\A l \in FilterLogs(emitted) : l.decodable) =>
        /\ walk.pc = "found" => Newest(FilterLogs(emitted)) = {walk.last}
        /\ walk.pc = "notFound" => FilterLogs(emitted) = {}
        /\ walk.pc = "found" /\ walk.last \notin Newest(emitted) =>
              \E l \in emitted \ FilterLogs(emitted) : l.index > walk.last.logIndex

(* GetLatestRelease never closes the iterator, so the goroutine ends only  *)
(* if the loop takes every log from it: it is left behind, for good, after *)
(* an unpacking error with logs still to hand over, and in no other case   *)
(* (binding.go:2169-2218, chainclient.go:79-93).                           *)
FeederIsDrained ==
    feeder.alive ~> (~feeder.alive \/ (walk.fail /\ feeder.logs # <<>>))

(* chainclient.go:79: "get the latest release deployed of all returned     *)
(* logs".                                                                  *)
LatestOfAllReturned ==
    walk.pc = "found" => walk.last \in Newest(FilterLogs(emitted))

=============================================================================
