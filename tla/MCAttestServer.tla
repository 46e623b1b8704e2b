--------------------------- MODULE MCAttestServer ---------------------------
(* Evidence of both purposes, sent to both endpoints with matching and     *)
(* other keys and extra data, requests with one defect each, and a policy  *)
(* that moves, of a server started with each of several configurations.    *)
EXTENDS AttestServer

CONSTANTS a1, a2, s1

Evidence(header, extra) ==
    [challenge |-> CalculateSignableDigest(header, "k1"), extraData |-> extra,
     instance |-> a1, container |-> "d1", hardened |-> TRUE,
     project |-> "attestationProject", platform |-> "TDX", image |-> "img1",
     teeDebug |-> FALSE, endorsed |-> TRUE, tcb |-> <<7, 1, 5>>]

ForEnv == Evidence(EnvRequestRSAKeyHeader, "none")
ForToken == Evidence("COMPUTE_APP_JWT_REQUEST_RSA_KEY_V1", "none")
WithExtra == Evidence("COMPUTE_APP_JWT_REQUEST_RSA_KEY_V1", "x1")

(* Two texts decode to the same bytes, as with a line break in one. *)
MCBase64 == [none |-> "none", eDE |-> "x1", eD_E |-> "x1", eDI |-> "x2", bGFyZ2U |-> "oversized"]

TextOf(data) == IF data = "x1" THEN "eDE" ELSE "none"

Ask(endpoint, evidence) ==
    [endpoint |-> endpoint, version |-> 3, rsaKey |-> "k1", rsaKeyBits |-> 4096,
     decodable |-> TRUE, evidence |-> evidence, extraData |-> TextOf(evidence.extraData),
     audience |-> "aud1", appID |-> "none"]

ShieldedForToken == [ForToken EXCEPT !.platform = "ShieldedVM", !.tcb = 0]

CrossRequests ==
    {Ask(e, ev) : e \in {"/env/v3", "/auth/attest"}, ev \in {ForEnv, ForToken, WithExtra}}
    \cup {[Ask("/auth/attest", WithExtra) EXCEPT !.rsaKey = "k2"],
          [Ask("/auth/attest", WithExtra) EXCEPT !.extraData = "none"]}

Good == Ask("/auth/attest", WithExtra)

DefectRequests ==
    {Ask("/auth/attest", ShieldedForToken),
     [Good EXCEPT !.version = 2],
     [Good EXCEPT !.rsaKeyBits = 2048],
     [Good EXCEPT !.decodable = FALSE],
     [Good EXCEPT !.extraData = "malformed"],
     [Good EXCEPT !.extraData = "bGFyZ2U"],
     [Good EXCEPT !.extraData = "eDI"],
     [Good EXCEPT !.extraData = "eD_E"],
     [Ask("/auth/attest", [WithExtra EXCEPT !.instance = a2]) EXCEPT !.appID = a1],
     Ask("/auth/attest", [WithExtra EXCEPT !.instance = "none"]),
     Ask("/auth/attest", [WithExtra EXCEPT !.container = "none"]),
     Ask("/auth/attest", [WithExtra EXCEPT !.hardened = FALSE]),
     Ask("/auth/attest", [WithExtra EXCEPT !.project = "other"]),
     Ask("/auth/attest", [WithExtra EXCEPT !.platform = "SNP", !.tcb = 3]),
     Ask("/auth/attest", [WithExtra EXCEPT !.image = "img2"]),
     Ask("/auth/attest", [WithExtra EXCEPT !.image = "img2", !.tcb = <<7, 1, 4>>]),
     Ask("/auth/attest", [WithExtra EXCEPT !.teeDebug = TRUE]),
     Ask("/auth/attest", [WithExtra EXCEPT !.endorsed = FALSE])}

Direct == [envRateLimit |-> 1000, keyFlag |-> "key1"]

Flags(rate, abi, source, key, secret) ==
    [envRateLimit |-> rate, releaseAbiVersion |-> abi, source |-> source,
     keyFlag |-> key, secret |-> secret]

MCSecretValues == [signing |-> "key2", empty |-> ""]

MCCommandLines ==
    {Direct,
     [envRateLimit |-> 1],
     [keyFlag |-> "key1"],
     [envRateLimit |-> 1000, keyFlag |-> "key1", debug |-> TRUE],
     Flags(1000, "", "", "key1", "signing"),
     Flags(1000, "v1.4", "vault", "key1", ""),
     Flags(1000, "v1.4", "direct", "text", ""),
     Flags(0, "v1.4", "direct", "key1", ""),
     Flags(1000001, "v1.4", "direct", "key1", ""),
     Flags(1000, "v2", "direct", "key1", ""),
     Flags(1000, "v1.5", "secret-manager", "key1", ""),
     Flags(1000, "v1.5", "secret-manager", "key1", "signing"),
     Flags(1000, "v1.5", "secret-manager", "key1", "empty"),
     Flags(1000, "v1.5", "secret-manager", "key1", "unreadable")}

GoodRelease == [digests |-> <<"d1">>, publicEnv |-> "json", machineType |-> "unset",
                sealed |-> "ok", sealedFor |-> a1]

MCReleases == {GoodRelease}

MCRequests == CrossRequests \cup DefectRequests

(* 1.7.5 meets the first and the third minimum, 1.7.4 the first. *)
MCPolicies == {[images |-> {"img1"}, minTcb |-> 0],
               [images |-> {"img1"}, minTcb |-> 2 * 65536],
               [images |-> {"img1", "img2"}, minTcb |-> 65536 + 7 * 256 + 5]}
=============================================================================
