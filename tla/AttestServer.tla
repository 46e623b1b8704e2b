---------------------------- MODULE AttestServer ----------------------------
(***************************************************************************)
(* The KMS server's /auth/attest handler (internal/handlers/attest.go,     *)
(* HandleAttest) beside /env/v3: it admits an attested instance like       *)
(* /env/v3 does, and instead of an env it issues a JWT, encrypted to the   *)
(* requester's key, that repeats what the evidence says to third parties   *)
(* (internal/auth).  It does not look at the app's releases.               *)
(*                                                                         *)
(* Both endpoints take the same evidence format, bound to a key and to     *)
(* extra data; only the header hashed with the key tells them apart.       *)
(***************************************************************************)
EXTENDS EnvServer, ServerConfig

CONSTANTS
    NoToken,      \* the token of a slot that has issued none
    Base64        \* what each text that is base64 decodes to

VARIABLES
    config,       \* what the server was started with
    jwt           \* the token each slot has issued

ASSUME EndpointAssumption == \A r \in Requests : r.endpoint \in {"/env/v3", "/auth/attest"}

-----------------------------------------------------------------------------
(* Mutant: one header for both purposes. *)
OneHeaderForAll == EnvRequestRSAKeyHeader

JWTRequestRSAKeyHeader == "COMPUTE_APP_JWT_REQUEST_RSA_KEY_V1"

(* Mutant: the extra data is decoded but not verified. *)
AttestedKeyOnly(r) ==
    /\ Verify(r.evidence, CalculateSignableDigest(JWTRequestRSAKeyHeader, r.rsaKey),
              r.evidence.extraData)
    /\ Identified(r.evidence)

AttestedForJWT(r) ==
    /\ Verify(r.evidence, CalculateSignableDigest(JWTRequestRSAKeyHeader, r.rsaKey),
              Base64[r.extraData])
    /\ Identified(r.evidence)

(* What is refused before any verification: other versions, and extra data *)
(* that is no base64 or, decoded, longer than 1 MB.                        *)
AttestParses(r) ==
    /\ r.version = 3 /\ Parses(r)
    /\ r.extraData \in DOMAIN Base64 /\ Base64[r.extraData] # "oversized"

(* Mutant: an answer the API does not document. *)
AttestStatusTooLarge(r) ==
    IF r.extraData \in DOMAIN Base64 /\ Base64[r.extraData] = "oversized" THEN 413
    ELSE IF ~AttestParses(r)               THEN 400
    ELSE IF ~AttestedForJWT(r)             THEN 401
    ELSE IF OverrideRefused(r)             THEN 400
    ELSE IF ~HostAccepted(r.evidence)      THEN 401
    ELSE 200

AttestStatus(r) ==
    IF ~AttestParses(r)                    THEN 400
    ELSE IF ~AttestedForJWT(r)             THEN 401
    ELSE IF OverrideRefused(r)             THEN 400
    ELSE IF ~HostAccepted(r.evidence)      THEN 401
    ELSE 200

HwModelFromPlatform ==
    [TDX |-> "GCP_INTEL_TDX", SNP |-> "GCP_AMD_SEV_SNP", ShieldedVM |-> "GCP_SHIELDED_VM"]

(* The claims of the token.  The secure boot claim is constant; the times  *)
(* and most measurements, copied from the evidence, are left out; tee is   *)
(* the TEE's TCB version, where there is a TEE.                            *)
NewAttestationJWTClaims(app, evidence) ==
    [app_id      |-> app,
     hwmodel     |-> HwModelFromPlatform[evidence.platform],
     hardened    |-> evidence.hardened,
     container   |-> evidence.container,
     gce         |-> evidence.instance,
     tee         |-> IF HasTEEClaims(evidence) THEN {evidence.tcb} ELSE {}]

(* The signed token, readable with rsaKey only.  It repeats the extra data *)
(* as the request wrote it, where the evidence is bound to the bytes.      *)
SignAttestationJWT(r) ==
    [signedWith  |-> AttestJWTSigningKey(config),
     sub         |-> AppOf(r),
     aud         |-> r.audience,
     claims      |-> NewAttestationJWTClaims(AppOf(r), r.evidence),
     extra_data  |-> r.extraData,
     encryptedTo |-> r.rsaKey]

-----------------------------------------------------------------------------
(* The server runs with a configuration it starts with. *)
AttestInit ==
    /\ config \in StartedConfigs
    /\ debug = config.debug
    /\ jwt = [s \in Callers |-> NoToken]

Handles(s, endpoint) == handler[s].pc # "idle" /\ handler[s].req.endpoint = endpoint

(* Without a signing key there is no such route. *)
ReceiveAttest(s, r) ==
    /\ OffersAttest(config)
    /\ r.endpoint = "/auth/attest"
    /\ handler[s].pc = "idle"
    /\ handler' = [handler EXCEPT ![s] = Arriving(r, AttestStatus(r))]
    /\ UNCHANGED <<chain, fetchVars, jwt>>

(* The policies admit: the token is signed locally and encrypted; Cloud    *)
(* KMS signs the response next.                                            *)
IssueToken(s) ==
    /\ Goto(s, "sign")
    /\ jwt' = [jwt EXCEPT ![s] = SignAttestationJWT(handler[s].req)]

AttestImage(s) ==
    /\ handler[s].pc = "image"
    /\ \E h \in Views :
          LET verdict == ImageVerdict(handler[s].req.evidence, h)
          IN  \/ verdict = "refused"  /\ Respond(s, 401) /\ UNCHANGED jwt
              \/ verdict = "firmware" /\ Goto(s, "firmware") /\ UNCHANGED jwt
              \/ verdict = "admitted" /\ IssueToken(s)
    /\ UNCHANGED <<chain, fetchVars>>

(* Mutant: the minimum is the one read when the request arrived. *)
AttestTCBStale(s) ==
    /\ handler[s].pc = "tcb"
    /\ IF IsTCBValid(handler[s].req.evidence, handler[s].since)
         THEN IssueToken(s)
         ELSE Respond(s, 401) /\ UNCHANGED jwt
    /\ UNCHANGED <<chain, fetchVars>>

AttestTCB(s) ==
    /\ handler[s].pc = "tcb"
    /\ \E h \in Views :
          IF IsTCBValid(handler[s].req.evidence, h)
            THEN IssueToken(s)
            ELSE Respond(s, 401) /\ UNCHANGED jwt
    /\ UNCHANGED <<chain, fetchVars>>

(* The endpoints share the rest of the policy checks and the signature. *)
AttestStep(s) ==
    \/ AttestImage(s) \/ AttestTCB(s)
    \/ (VerifyFirmware(s) \/ PolicyError(s) \/ SignResponse(s) \/ KmsError(s)) /\ UNCHANGED jwt

FinishAttest(s) ==
    /\ Finish(s)
    /\ jwt' = [jwt EXCEPT ![s] = NoToken]

-----------------------------------------------------------------------------
attestVars == <<chain, fetch, newest, debug, config, handler, jwt>>

AttestServerInit == ServerSpecInit /\ AttestInit

AttestNext ==
    /\ \/ MineBlock /\ UNCHANGED <<fetchVars, handler, jwt>>
       \/ \E s \in Callers :
             \/ \E r \in Requests : ReceiveAttest(s, r)
             \/ \E r \in Requests : r.endpoint = "/env/v3" /\ Receive(s, r) /\ UNCHANGED jwt
             \/ Handles(s, "/auth/attest") /\ AttestStep(s)
             \/ Handles(s, "/env/v3") /\ HandlerStep(s) /\ UNCHANGED jwt
             \/ FinishAttest(s)
    /\ UNCHANGED <<debug, config>>

AttestSpec == AttestServerInit /\ [][AttestNext]_attestVars

-----------------------------------------------------------------------------
(* The type invariant. *)
Tokens == {SignAttestationJWT(r) : r \in {q \in Requests : AttestStatus(q) = 200}}

AttestTypeOK ==
    /\ ServerTypeOK
    /\ config \in StartedConfigs
    /\ jwt \in [Callers -> Tokens \cup {NoToken}]

Granted(s, endpoint) == Answered(s, 200) /\ handler[s].req.endpoint = endpoint

StatusAt(r) == IF r.endpoint = "/env/v3" THEN LocalStatus(r) ELSE AttestStatus(r)

(* One piece of evidence opens one door: no request that presents the      *)
(* evidence of a granted one passes the checks of the other endpoint, or   *)
(* of its own with another key or, for a token, with other extra data.  So *)
(* evidence that was shown to obtain a token never obtains an env, for     *)
(* whoever holds it (crypto.go:22-24, attest.go:114-119, env.go:234-236).  *)
EvidenceServesOnePurpose ==
    \A s \in Callers, r \in Requests :
        /\ Answered(s, 200)
        /\ r.evidence = handler[s].req.evidence
        /\ StatusAt(r) = 200
        => /\ r.endpoint = handler[s].req.endpoint
           /\ r.rsaKey = handler[s].req.rsaKey
           /\ Granted(s, "/auth/attest") => Base64[r.extraData] = Base64[jwt[s].extra_data]

(* What a token says was attested together with the key it is encrypted    *)
(* to: the challenge names the reader of the token, the extra data it      *)
(* repeats decodes to what the hardware bound, and outside debug mode the  *)
(* subject is the attested instance's app, on a hardened image             *)
(* (attest.go:101-149, jwt_claims.go:85-142).                              *)
TokenSaysWhatWasAttested ==
    \A s \in Callers : Granted(s, "/auth/attest") =>
        LET evidence == handler[s].req.evidence
        IN  /\ evidence.challenge =
                  CalculateSignableDigest(JWTRequestRSAKeyHeader, jwt[s].encryptedTo)
            /\ Base64[jwt[s].extra_data] = evidence.extraData
            /\ debug \/ (jwt[s].sub = evidence.instance /\ jwt[s].claims.hardened)

(* Third parties can rely on the key: a token is only ever signed with an  *)
(* RSA key, and never with the key of the command line if Secret Manager   *)
(* was to be asked, even when both are given (server_config.go:133-145,    *)
(* cmd/kms-server/main.go:162-177).                                        *)
SignedByConfiguredKey ==
    \A s \in Callers : Granted(s, "/auth/attest") =>
        /\ jwt[s].signedWith \in RSAKeys
        /\ config.source = "secret-manager" => jwt[s].signedWith = SecretValues[config.secret]

(* The token may be issued at height h. *)
TokenDueAt(r, h) ==
    /\ AttestStatus(r) = 200
    /\ IsImageAllowed(r.evidence, h)
    /\ HasTEEClaims(r.evidence) =>
          IsTCBValid(r.evidence, h) /\ TEEModeAccepted(r.evidence) /\ r.evidence.endorsed

(* As RefusalIsJustified, for tokens: without a failed remote call, 4xx    *)
(* goes only to an instance that was not admissible at some height it can  *)
(* have been checked at; the state of the app's releases has no say        *)
(* (attest.go:84-149).                                                     *)
AttestRefusalIsJustified ==
    \A s \in Callers :
        /\ Answered(s, 400) \/ Answered(s, 401)
        /\ Handles(s, "/auth/attest") /\ ~handler[s].fault
        => \E h \in Window(handler[s].since) : ~TokenDueAt(handler[s].req, h)

=============================================================================
