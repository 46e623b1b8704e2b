---------------------------- MODULE MCTokenServer ----------------------------
(* A small instance of TokenServer: one slot, a good token of each         *)
(* provider and tokens that differ from it in a single respect.  Google    *)
(* rotates its key; Intel lists two keys of one ID and may reorder them.   *)
EXTENDS TokenServer

CONSTANTS a1, s1

Google1 == [kid |-> "g1", alg |-> "RS256"]
Google2 == [kid |-> "g2", alg |-> "RS256"]
IntelRS == [kid |-> "i1", alg |-> "RS256"]
IntelPS == [kid |-> "i1", alg |-> "PS384"]

MCKeySets == [GoogleConfidentialSpace |-> {<<Google1>>, <<Google2, Google1>>, <<Google2>>},
              IntelTrustAuthority     |-> {<<IntelRS, IntelPS>>, <<IntelPS, IntelRS>>}]

Digest(key) == CalculateSignableDigest(EnvRequestRSAKeyHeader, key)

GoogleToken ==
    [key |-> Google1, valid |-> TRUE, issuer |-> "GoogleConfidentialSpace",
     audience |-> <<"https://sts.googleapis.com">>, eatNonce |-> <<>>,
     swName |-> "CONFIDENTIAL_SPACE", attesterTCB |-> <<"INTEL">>,
     hwModel |-> "GCP_INTEL_TDX", swVersion |-> 250300, tcbStatus |-> "",
     dbgStat |-> "disabled-since-boot", supportAttributes |-> {"STABLE"},
     project |-> "attestationProject", instance |-> a1, container |-> "d1"]

IntelToken ==
    [GoogleToken EXCEPT !.key = IntelRS, !.issuer = "IntelTrustAuthority",
        !.audience = <<"EigenX KMS">>, !.eatNonce = <<Digest("k1")>>,
        !.attesterTCB = <<>>, !.hwModel = "INTEL_TDX", !.tcbStatus = "UpToDate",
        !.supportAttributes = {"EXPERIMENTAL"}]

Request(endpoint, token) ==
    [endpoint |-> endpoint, rsaKey |-> "k1", rsaKeyBits |-> 4096, decodable |-> TRUE,
     evidence |-> token, appID |-> "none"]

GoodV1 == Request("/env", GoogleToken)
GoodV2 == Request("/env/v2", IntelToken)

MCRequests ==
    {GoodV1, GoodV2,
     [GoodV1 EXCEPT !.decodable = FALSE],
     [GoodV2 EXCEPT !.rsaKeyBits = 2048],
     [GoodV2 EXCEPT !.rsaKey = "k2"],
     [GoodV1 EXCEPT !.appID = a1],
     Request("/env/v2", GoogleToken),
     Request("/env", [GoogleToken EXCEPT !.eatNonce = <<Digest("k2")>>]),
     Request("/env/v2", [IntelToken EXCEPT !.eatNonce = <<>>]),
     Request("/env/v2", [IntelToken EXCEPT !.key = IntelPS]),
     Request("/env", [GoogleToken EXCEPT !.valid = FALSE]),
     Request("/env", [GoogleToken EXCEPT !.container = "d2"]),
     Request("/env", [GoogleToken EXCEPT !.instance = "none"]),
     Request("/env/v2", [IntelToken EXCEPT !.tcbStatus = "OutOfDate"]),
     Request("/env", [GoogleToken EXCEPT !.supportAttributes = {"EXPERIMENTAL"}])}

GoodRelease == [digests |-> <<"d1">>, publicEnv |-> "json", machineType |-> "t",
                sealed |-> "ok", sealedFor |-> a1]

MCReleases == {GoodRelease, [GoodRelease EXCEPT !.digests = <<"d2">>],
               [GoodRelease EXCEPT !.sealed = "notJson"]}

MCPolicies == {[images |-> {}, minTcb |-> 0]}
=============================================================================
