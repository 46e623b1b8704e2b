----------------------------- MODULE MCEnvServer -----------------------------
(* Small instances of EnvServer.  One app, requests that each differ from  *)
(* a good one in a single respect, releases likewise, and a policy that    *)
(* moves, started with and without --debug.                                *)
EXTENDS EnvServer

CONSTANTS a1, a2, s1

GoodEvidence ==
    [challenge |-> CalculateSignableDigest(EnvRequestRSAKeyHeader, "k1"),
     extraData |-> "none", instance |-> a1, container |-> "d1",
     hardened |-> TRUE, project |-> "attestationProject",
     platform |-> "TDX", image |-> "img1", teeDebug |-> FALSE,
     endorsed |-> TRUE, tcb |-> <<7, 1, 5>>]

Request(evidence) ==
    [rsaKey |-> "k1", rsaKeyBits |-> 4096, decodable |-> TRUE, evidence |-> evidence, appID |-> "none"]

Good == Request(GoodEvidence)

OneDefect ==
    {[Good EXCEPT !.rsaKeyBits = 2048],
     [Good EXCEPT !.rsaKey = "k2"],
     [Good EXCEPT !.decodable = FALSE],
     Request([GoodEvidence EXCEPT !.challenge = CalculateSignableDigest("JWT", "k1")]),
     Request([GoodEvidence EXCEPT !.instance = "none"]),
     Request([GoodEvidence EXCEPT !.container = "d2"]),
     Request([GoodEvidence EXCEPT !.hardened = FALSE]),
     Request([GoodEvidence EXCEPT !.platform = "ShieldedVM", !.tcb = 0]),
     Request([GoodEvidence EXCEPT !.image = "img2"]),
     Request([GoodEvidence EXCEPT !.teeDebug = TRUE]),
     Request([GoodEvidence EXCEPT !.endorsed = FALSE]),
     Request([GoodEvidence EXCEPT !.tcb = <<7, 1, 4>>]),
     Request([GoodEvidence EXCEPT !.tcb = <<255, 0, 255>>]),
     Request([GoodEvidence EXCEPT !.tcb = <<0, 2, 0>>])}

(* a2 is an instance of another app. *)
Overrides == {[Request([GoodEvidence EXCEPT !.instance = a2]) EXCEPT !.appID = a1]}

MCRequests == {Good} \cup OneDefect \cup Overrides

GoodRelease == [digests |-> <<"d1">>, publicEnv |-> "json", machineType |-> "unset",
                sealed |-> "ok", sealedFor |-> a1]

MCReleases == {GoodRelease,
               [GoodRelease EXCEPT !.digests = <<"d2">>],
               [GoodRelease EXCEPT !.digests = <<>>],
               [GoodRelease EXCEPT !.publicEnv = "malformed"],
               [GoodRelease EXCEPT !.machineType = "v"],
               [GoodRelease EXCEPT !.machineType = "other"],
               [GoodRelease EXCEPT !.sealedFor = a2],
               [GoodRelease EXCEPT !.sealed = "notJwe"],
               [GoodRelease EXCEPT !.sealed = "noAppHeader"],
               [GoodRelease EXCEPT !.sealed = "undecryptable"],
               [GoodRelease EXCEPT !.sealed = "notJson"]}

(* 1.7.5 allows img1; the older 1.7.4 allows img2. *)
MCPolicies == {[images |-> {"img1"}, minTcb |-> 65536 + 7 * 256 + 5],
               [images |-> {"img2"}, minTcb |-> 65536 + 7 * 256 + 4]}
=============================================================================
