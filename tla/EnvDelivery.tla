----------------------------- MODULE EnvDelivery -----------------------------
(***************************************************************************)
(* What the KMS promises an instance that boots (kms.md, lines 12-13): it  *)
(* gets the env its app's latest release holds for it, each check on it    *)
(* having been passed at some moment of the boot, or it gets none; and it  *)
(* gets none without a reason.  There is no server here, no request, no    *)
(* retry, no crash and no order of checks: a delivery is one step.         *)
(***************************************************************************)
EXTENDS Integers

CONSTANTS Instances, MaxLag

VARIABLES
    height,      \* of the chain
    offers,      \* what the chain holds out to each instance, as of each height
    vm           \* the state of each instance

vars == <<height, offers, vm>>

Position == [block : Nat, logIndex : Nat]

NoRelease == [block |-> 0, logIndex |-> 0]

Newer(p, q) == p.block > q.block \/ (p.block = q.block /\ p.logIndex > q.logIndex)

(* An instance must pass these, at whatever height each is made. *)
Checks == {"image", "tcb"}

Offer == [passed : SUBSET Checks, env : Position]

Off == [pc |-> "off", since |-> 0, env |-> NoRelease, disturbed |-> FALSE]

Init ==
    /\ height = 1
    /\ offers \in [1..height -> [Instances -> Offer]]
    /\ \A i \in Instances : offers[1][i].env = NoRelease
    /\ vm = [i \in Instances |-> Off]

(* The heights a boot that began at height since may be served from. *)
Window(since) == {h \in 1..height : since - h <= MaxLag}

(* Governance and developers move on: any checks pass or fail from now on, *)
(* and the env held out, if any, is never older than one held out before.  *)
Advance ==
    /\ height' = height + 1
    /\ offers' \in [1..height' -> [Instances -> Offer]]
    /\ \A h \in 1..height : offers'[h] = offers[h]
    /\ \A i \in Instances, h \in 1..height :
          LET new == offers'[height'][i].env
          IN  new # NoRelease => ~Newer(offers[h][i].env, new)
    /\ UNCHANGED vm

Boot(i) ==
    /\ vm[i].pc # "booting"
    /\ vm' = [vm EXCEPT ![i] = [pc |-> "booting", since |-> height,
                                env |-> NoRelease, disturbed |-> FALSE]]
    /\ UNCHANGED <<height, offers>>

(* Something fails under a boot that goes on. *)
Disturb(i) ==
    /\ vm[i].pc = "booting"
    /\ vm' = [vm EXCEPT ![i].disturbed = TRUE]
    /\ UNCHANGED <<height, offers>>

Deliver(i) ==
    /\ vm[i].pc = "booting"
    /\ \E h \in Window(vm[i].since) :
          /\ vm' = [vm EXCEPT ![i].pc = "running", ![i].env = offers[h][i].env]
          /\ offers[h][i].env # NoRelease
    /\ \A check \in Checks : \E h \in Window(vm[i].since) : check \in offers[h][i].passed
    /\ UNCHANGED <<height, offers>>

(* At some height of the boot the instance was not due an env. *)
NotDue(i) ==
    \E h \in Window(vm[i].since) :
        offers[h][i].passed # Checks \/ offers[h][i].env = NoRelease

(* A boot fails because something failed under it, because its instance is *)
(* not due an env, or because the provider's nodes disagree.               *)
Fail(i) ==
    /\ vm[i].pc = "booting"
    /\ \E disturbed \in BOOLEAN :
          /\ vm' = [vm EXCEPT ![i].pc = "failed", ![i].disturbed = disturbed]
          /\ vm[i].disturbed => disturbed
          /\ disturbed \/ NotDue(i) \/ MaxLag # 0
    /\ UNCHANGED <<height, offers>>

Next ==
    \/ Advance
    \/ \E i \in Instances : Boot(i) \/ Disturb(i) \/ Deliver(i) \/ Fail(i)

Spec == Init /\ [][Next]_vars
=============================================================================
