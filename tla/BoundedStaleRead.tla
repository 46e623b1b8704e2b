-------------------------- MODULE BoundedStaleRead --------------------------
(***************************************************************************)
(* What GetLatestRelease promises its callers: it reads the app's latest   *)
(* release at one instant between call and return, from a copy of the      *)
(* chain at most MaxLag publications old, or it fails.  A request is never *)
(* authorised against a mixture of two releases, and "no release" is       *)
(* reported as a failure.                                                  *)
(***************************************************************************)
EXTENDS Integers, Sequences

CONSTANTS Apps, Callers, MaxLag

VARIABLES
    published,   \* the latest release of every app after each block
    read         \* the state of each call

vars == <<published, read>>

Position == [block : Nat, logIndex : Nat]

NoRelease == [block |-> 0, logIndex |-> 0]

Newer(p, q) == p.block > q.block \/ (p.block = q.block /\ p.logIndex > q.logIndex)

Idle == [pc |-> "idle", app |-> "none", value |-> NoRelease]

Init ==
    /\ published = <<[a \in Apps |-> NoRelease]>>
    /\ read = [c \in Callers |-> Idle]

(* One more publication: any apps get a newer release, history stays. *)
Publish ==
    /\ published' \in Seq([Apps -> Position])
    /\ Len(published') = Len(published) + 1
    /\ \A h \in 1..Len(published) : published'[h] = published[h]
    /\ \A a \in Apps :
          LET old == published[Len(published)][a]
              new == published'[Len(published) + 1][a]
          IN  new = old \/ Newer(new, old)
    /\ UNCHANGED read

Invoke(c, app) ==
    /\ read[c].pc = "idle"
    /\ read' = [read EXCEPT ![c] = [pc |-> "invoked", app |-> app, value |-> NoRelease]]
    /\ UNCHANGED published

(* The instant of the read. *)
ReadLatest(c) ==
    /\ read[c].pc = "invoked"
    /\ \E h \in 1..Len(published) :
          /\ Len(published) - h <= MaxLag
          /\ read' = [read EXCEPT ![c] =
                [pc |-> "read", app |-> read[c].app, value |-> published[h][read[c].app]]]
    /\ UNCHANGED published

Succeed(c) ==
    /\ read[c].pc = "read"
    /\ read[c].value # NoRelease
    /\ read' = [read EXCEPT ![c].pc = "done"]
    /\ UNCHANGED published

Fail(c) ==
    /\ read[c].pc \in {"invoked", "read"}
    /\ read' = [read EXCEPT ![c] = [pc |-> "failed", app |-> read[c].app, value |-> NoRelease]]
    /\ UNCHANGED published

Return(c) ==
    /\ read[c].pc \in {"done", "failed"}
    /\ read' = [read EXCEPT ![c] = Idle]
    /\ UNCHANGED published

Next ==
    \/ Publish
    \/ \E c \in Callers :
          \/ \E app \in Apps : Invoke(c, app)
          \/ ReadLatest(c)
          \/ Succeed(c)
          \/ Fail(c)
          \/ Return(c)

Spec == Init /\ [][Next]_vars
=============================================================================
