---------------------------- MODULE MCEnvProtocol ----------------------------
(* One VM of one app against two handler slots: enough for an attempt the  *)
(* client gave up on to run beside its retry.                              *)
EXTENDS EnvProtocol, TLC

CONSTANTS a1, s1, s2, vm1

MCMachine == [i \in {vm1} |->
    [challenge |-> <<>>, extraData |-> "none", instance |-> a1, container |-> "d1",
     hardened |-> TRUE, project |-> "attestationProject", platform |-> "ShieldedVM",
     image |-> "img1", teeDebug |-> FALSE, endorsed |-> TRUE, tcb |-> 0]]

GoodRelease == [digests |-> <<"d1">>, publicEnv |-> "json", machineType |-> "v",
                sealed |-> "ok", sealedFor |-> a1, mnemonic |-> "derived"]

MCReleases == {GoodRelease, [GoodRelease EXCEPT !.digests = <<"d2">>]}

AllReleases == MCReleases \cup {[GoodRelease EXCEPT !.mnemonic = "invalid"]}

(* The VM is no TEE, so the minimum TCB is none of its business. *)
OnePolicy == {[images |-> {"img1"}, minTcb |-> 1]}

Slots == Permutations({s1, s2})
=============================================================================
