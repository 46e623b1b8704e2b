------------------------------ MODULE EnvServer ------------------------------
(***************************************************************************)
(* The KMS server's /env/v3 handler (internal/handlers/env.go,             *)
(* HandleEnvV3): it admits an attested instance, reads the app's latest    *)
(* release, authorises the attested image against it, decrypts the         *)
(* release's secrets, adds the app's mnemonic, and answers with an env     *)
(* encrypted to the requester's key and signed by the KMS.                 *)
(*                                                                         *)
(* Each handler invocation runs in a slot, concurrently with the others    *)
(* and with the chain.  One action stands for the code between two remote  *)
(* calls: chain RPC, Google's firmware endorsements, Cloud KMS.            *)
(***************************************************************************)
EXTENDS ReleaseFetch

CONSTANTS
    Requests,     \* the requests that may arrive
    NoRequest,    \* the request of a free slot
    DebugModes    \* the values of cfg.Debug a server may be started with

VARIABLES
    debug,        \* cfg.Debug
    handler       \* the local state of each slot (slots are Callers)

-----------------------------------------------------------------------------
(* CalculateSignableDigest: a hash of a domain header and the key.  Only   *)
(* equality matters; distinct inputs give distinct digests.                *)
EnvRequestRSAKeyHeader == "COMPUTE_APP_ENV_REQUEST_RSA_KEY_V1"

CalculateSignableDigest(header, data) == <<header, data>>

(* Bound evidence verifies against the challenge and extra data it was     *)
(* made for, and against no other.                                         *)
Verify(evidence, challenge, extraData) ==
    evidence.challenge = challenge /\ evidence.extraData = extraData

(* On Shielded VM the evidence carries no TEE claims. *)
HasTEEClaims(evidence) == evidence.platform # "ShieldedVM"

(* The suffix of EIGEN_MACHINE_TYPE_PUBLIC; unset means TDX. *)
MachineTypeSuffixToPlatform ==
    [unset |-> "TDX", t |-> "TDX", s |-> "SNP", v |-> "ShieldedVM"]

VerifyPlatform(evidence, machineType) ==
    /\ machineType \in DOMAIN MachineTypeSuffixToPlatform
    /\ MachineTypeSuffixToPlatform[machineType] = evidence.platform

-----------------------------------------------------------------------------
(* The checks that need no remote call.  The app is taken from the         *)
(* instance name, or from the appID query parameter in debug mode.         *)
Parses(r) == r.rsaKeyBits = 4096 /\ r.decodable

Identified(evidence) ==
    /\ evidence.instance # "none"       \* GCE info present, name has an app ID
    /\ evidence.container # "none"

Attested(r) ==
    /\ Verify(r.evidence, CalculateSignableDigest(EnvRequestRSAKeyHeader, r.rsaKey), "none")
    /\ Identified(r.evidence)

OverrideRefused(r) == r.appID # "none" /\ ~debug

AppOf(r) == IF r.appID # "none" THEN r.appID ELSE r.evidence.instance

ASSUME AppAssumption == \A r \in Requests : AppOf(r) \in Apps \cup {"none"}

(* CheckTPMPolicies before its RPC call. *)
HostAccepted(evidence) ==
    (debug \/ evidence.hardened) /\ evidence.project = "attestationProject"

LocalStatus(r) ==
    IF ~Parses(r) \/ (Attested(r) /\ OverrideRefused(r)) THEN 400
    ELSE IF ~Attested(r) \/ ~HostAccepted(r.evidence)    THEN 401
    ELSE 200

(* CheckTEEPolicies before its remote calls. *)
TEEModeAccepted(evidence) == debug \/ ~evidence.teeDebug

(* Mutant: the first two bytes are taken in the order they come. *)
PackTCBInOrder(evidence) ==
    IF evidence.platform = "TDX"
      THEN evidence.tcb[1] * 65536 + evidence.tcb[2] * 256 + evidence.tcb[3]
      ELSE evidence.tcb

(* The TCB version as one number.  On TDX it is packed from three bytes of *)
(* TeeTcbSvn, which are the minor, the major and the microcode version; on *)
(* SEV-SNP the hardware reports one number.                                *)
PackTCB(evidence) ==
    IF evidence.platform = "TDX"
      THEN evidence.tcb[2] * 65536 + evidence.tcb[1] * 256 + evidence.tcb[3]
      ELSE evidence.tcb

(* The two ImageAllowlist view calls, asked of a node at height h. *)
IsImageAllowed(evidence, h) == evidence.image \in chain[h].policy.images

IsTCBValid(evidence, h) == PackTCB(evidence) >= chain[h].policy.minTcb

(* Mutant: the TEE checks run without TEE claims too. *)
ImageVerdictAlwaysTEE(evidence, h) ==
    IF IsImageAllowed(evidence, h) /\ TEEModeAccepted(evidence) THEN "firmware" ELSE "refused"

(* CheckTPMPolicies from its call on, and CheckTEEPolicies up to its next. *)
ImageVerdict(evidence, h) ==
    IF ~IsImageAllowed(evidence, h)         THEN "refused"
    ELSE IF ~HasTEEClaims(evidence)         THEN "admitted"
    ELSE IF TEEModeAccepted(evidence)       THEN "firmware"
    ELSE "refused"

(* Mutant: any single artifact authorises the image. *)
CheckArtifactCount(evidence, release) == Len(release.digests) = 1

(* checkAuthorization and the checks on the sealed env that getAndDecrypt- *)
(* ChainEnv makes before the KMS decrypts: the status they lead to.        *)
CheckAuthorization(evidence, release) == release.digests = <<evidence.container>>

(* Mutant: the app ID in the JWE header is not checked. *)
StatusIgnoringHeader(r, release) ==
    IF ~CheckAuthorization(r.evidence, release)          THEN 401
    ELSE IF release.sealed \in {"notJwe", "noAppHeader"} THEN 500
    ELSE 200

(* Mutant: an answer the API does not document. *)
StatusForbidden(r, release) ==
    IF ~CheckAuthorization(r.evidence, release)          THEN 403
    ELSE IF release.sealed \in {"notJwe", "noAppHeader"} THEN 500
    ELSE IF release.sealedFor # AppOf(r)                 THEN 401
    ELSE 200

ReleaseStatus(r, release) ==
    IF ~CheckAuthorization(r.evidence, release)          THEN 401
    ELSE IF release.sealed \in {"notJwe", "noAppHeader"} THEN 500
    ELSE IF release.sealedFor # AppOf(r)                 THEN 401
    ELSE 200

(* The rest of it ... *)
DecryptStatus(release) ==
    IF release.sealed = "undecryptable"  THEN 500
    ELSE IF release.sealed = "notJson"   THEN 400
    ELSE 200

(* ... and the platform check that follows. *)
SecretsStatus(r, release) ==
    IF DecryptStatus(release) = 200 /\ ~VerifyPlatform(r.evidence, release.machineType)
      THEN 401 ELSE DecryptStatus(release)

-----------------------------------------------------------------------------
HandlerPhase == {"idle", "image", "firmware", "tcb", "fetch", "decrypt",
                 "mnemonic", "sign", "reply"}

(* since and fault are history: the head when the request arrived, and     *)
(* whether a remote call made for it failed.                               *)
HandlerStates(phases) == [pc : phases, req : Requests \cup {NoRequest},
                          release : Position, status : {0, 200, 400, 401, 500},
                          since : Nat, fault : BOOLEAN]

NotHandling == [pc |-> "idle", req |-> NoRequest, release |-> NoRelease,
                status |-> 0, since |-> 0, fault |-> FALSE]

(* The type invariant. *)
ServerTypeOK ==
    /\ FetchTypeOK
    /\ debug \in DebugModes
    /\ handler \in [Callers -> HandlerStates(HandlerPhase)]

ServerInit ==
    /\ debug \in DebugModes
    /\ handler = [s \in Callers |-> NotHandling]

Goto(s, pc) == handler' = [handler EXCEPT ![s].pc = pc]

(* The slot's state after the local checks, and once the release, and the  *)
(* answer, is settled.                                                     *)
Arriving(r, status) ==
    [pc |-> IF status = 200 THEN "image" ELSE "reply", req |-> r, release |-> NoRelease,
     status |-> status, since |-> Height, fault |-> FALSE]

Answering(h, status, fault) ==
    [pc |-> "reply", req |-> h.req, release |-> h.release,
     status |-> status, since |-> h.since, fault |-> fault]

Decrypting(h, release) ==
    [pc |-> "decrypt", req |-> h.req, release |-> release,
     status |-> 200, since |-> h.since, fault |-> FALSE]

Respond(s, status) ==
    handler' = [handler EXCEPT ![s] = Answering(@, status, FALSE)]

RespondFault(s, status) ==
    handler' = [handler EXCEPT ![s] = Answering(@, status, TRUE)]

-----------------------------------------------------------------------------
(* A request arrives and passes, or fails, the local checks. *)
Receive(s, r) ==
    /\ handler[s].pc = "idle"
    /\ handler' = [handler EXCEPT ![s] = Arriving(r, LocalStatus(r))]
    /\ UNCHANGED <<chain, fetchVars>>

(* IsImageAllowed; without TEE claims the policy checks end here. *)
CheckImage(s) ==
    /\ handler[s].pc = "image"
    /\ \E h \in Views :
          LET r       == handler[s].req
              verdict == ImageVerdict(r.evidence, h)
          IN  \/ /\ verdict = "refused"
                 /\ Respond(s, 401) /\ UNCHANGED <<chain, fetchVars>>
              \/ /\ verdict = "firmware"
                 /\ Goto(s, "firmware") /\ UNCHANGED <<chain, fetchVars>>
              \/ /\ verdict = "admitted"
                 /\ Goto(s, "fetch") /\ GetLatestRelease(s, AppOf(r))

(* The firmware measurement against Google's endorsements. *)
VerifyFirmware(s) ==
    /\ handler[s].pc = "firmware"
    /\ IF handler[s].req.evidence.endorsed THEN Goto(s, "tcb") ELSE Respond(s, 401)
    /\ UNCHANGED <<chain, fetchVars>>

(* Mutant: the call's error is checked, its answer is not. *)
CheckTCBIgnored(s) ==
    /\ handler[s].pc = "tcb"
    /\ Goto(s, "fetch")
    /\ GetLatestRelease(s, AppOf(handler[s].req))

CheckTCB(s) ==
    /\ handler[s].pc = "tcb"
    /\ \E h \in Views :
          LET r == handler[s].req
          IN  \/ /\ ~IsTCBValid(r.evidence, h)
                 /\ Respond(s, 401) /\ UNCHANGED <<chain, fetchVars>>
              \/ /\ IsTCBValid(r.evidence, h)
                 /\ Goto(s, "fetch") /\ GetLatestRelease(s, AppOf(r))

(* A policy check that cannot be made, for a provider error or the 10 s    *)
(* deadline, is answered like one that fails.                              *)
PolicyError(s) ==
    /\ handler[s].pc \in {"image", "firmware", "tcb"}
    /\ RespondFault(s, 401)
    /\ UNCHANGED <<chain, fetchVars>>

FetchRelease(s) ==
    /\ FetchStep(s)
    /\ UNCHANGED handler

(* GetLatestRelease returns: authorise the image, inspect the sealed env. *)
Authorize(s) ==
    /\ handler[s].pc = "fetch"
    /\ FetchReturn(s)
    /\ LET r       == handler[s].req
           release == ReleaseAt(AppOf(r), fetch[s].release)
           status  == ReleaseStatus(r, release)
       IN  IF fetch[s].pc = "error" THEN RespondFault(s, 500)
           ELSE IF fetch[s].pc = "failed" THEN Respond(s, 500)
           ELSE IF status # 200 THEN Respond(s, status)
           ELSE handler' = [handler EXCEPT ![s] = Decrypting(@, fetch[s].release)]

(* Cloud KMS decrypts the release's secrets. *)
DecryptEnv(s) ==
    /\ handler[s].pc = "decrypt"
    /\ LET r      == handler[s].req
           status == SecretsStatus(r, ReleaseAt(AppOf(r), handler[s].release))
       IN  IF status = 200 THEN Goto(s, "mnemonic") ELSE Respond(s, status)
    /\ UNCHANGED <<chain, fetchVars>>

(* Cloud KMS MACs the app ID; the env is combined and encrypted to rsaKey. *)
DeriveMnemonic(s) ==
    /\ handler[s].pc = "mnemonic"
    /\ Goto(s, "sign")
    /\ UNCHANGED <<chain, fetchVars>>

SignResponse(s) ==
    /\ handler[s].pc = "sign"
    /\ Respond(s, 200)
    /\ UNCHANGED <<chain, fetchVars>>

KmsError(s) ==
    /\ handler[s].pc \in {"decrypt", "mnemonic", "sign"}
    /\ RespondFault(s, 500)
    /\ UNCHANGED <<chain, fetchVars>>

(* The response is written and the handler returns. *)
Finish(s) ==
    /\ handler[s].pc = "reply"
    /\ handler' = [handler EXCEPT ![s] = NotHandling]
    /\ UNCHANGED <<chain, fetchVars>>

HandlerStep(s) ==
    \/ CheckImage(s) \/ VerifyFirmware(s) \/ CheckTCB(s) \/ PolicyError(s)
    \/ FetchRelease(s) \/ Authorize(s)
    \/ DecryptEnv(s) \/ DeriveMnemonic(s) \/ SignResponse(s) \/ KmsError(s)

-----------------------------------------------------------------------------
(* The server on its own: any request may arrive in a free slot. *)
serverVars == <<chain, fetch, newest, debug, handler>>

ServerSpecInit == ChainInit /\ FetchInit /\ ServerInit

ServerNext ==
    /\ \/ MineBlock /\ UNCHANGED <<fetchVars, handler>>
       \/ \E s \in Callers :
             \/ \E r \in Requests : Receive(s, r)
             \/ HandlerStep(s)
             \/ Finish(s)
    /\ UNCHANGED debug

ServerSpec == ServerSpecInit /\ [][ServerNext]_serverVars

-----------------------------------------------------------------------------
Answered(s, status) == handler[s].pc = "reply" /\ handler[s].status = status

(* What a 200 hands out went to code that was the app's latest: at one and *)
(* the same height no older than the request (less the provider's lag),    *)
(* the release whose env is in the answer was the app's newest, it lists   *)
(* the attested image, its secrets were sealed for this app, and outside   *)
(* debug mode the app is the attested instance's (env.go:211-314).         *)
ServedToLatestCode ==
    \A s \in Callers : Answered(s, 200) =>
        LET r   == handler[s].req
            pos == handler[s].release
        IN  \E h \in Window(handler[s].since) :
               /\ IsLatestAt(pos, AppOf(r), h)
               /\ ReleaseAt(AppOf(r), pos).digests = <<r.evidence.container>>
               /\ ReleaseAt(AppOf(r), pos).sealedFor = AppOf(r)
               /\ debug \/ AppOf(r) = r.evidence.instance

(* ... and it was admitted by the allowlist: while the request was in      *)
(* flight the image was allowed and, on a TEE, the TCB was sufficient, in  *)
(* this order, up to the provider's lag.  The heights may differ, so that  *)
(* a policy change in between may admit a machine that neither the old nor *)
(* the new policy accepts; but only an image of the old list on a TCB of   *)
(* the new minimum.  A maintainer who raises the minimum, and allows an    *)
(* image once that block is past the lag, never sees the image admitted on *)
(* an older TCB (env.go:268-278, policy.go:57-70, 141-173).                *)
AdmittedByPolicy ==
    \A s \in Callers : Answered(s, 200) =>
        LET evidence == handler[s].req.evidence
            window   == Window(handler[s].since)
        IN  \E hi \in window :
               /\ IsImageAllowed(evidence, hi)
               /\ HasTEEClaims(evidence) =>
                     /\ \E ht \in window : hi <= ht + MaxLag /\ IsTCBValid(evidence, ht)
                     /\ evidence.endorsed /\ (debug \/ ~evidence.teeDebug)

(* Versions are compared component by component, the major one first. *)
NotOlder(svn, minTcb) ==
    LET major     == minTcb \div 65536
        minor     == (minTcb \div 256) % 256
        microcode == minTcb % 256
    IN  \/ svn[2] > major
        \/ svn[2] = major /\ svn[1] > minor
        \/ svn[2] = major /\ svn[1] = minor /\ svn[3] >= microcode

(* The number the allowlist compares stands for a TDX version: an instance *)
(* gets its env only if its major, minor and microcode versions were, in   *)
(* this order, not below the minimum's at some height while the request    *)
(* was in flight (policy.go:141-173, bytes taken out of their order).      *)
TCBMeetsMinimum ==
    \A s \in Callers :
        Answered(s, 200) /\ handler[s].req.evidence.platform = "TDX" =>
            \E h \in Window(handler[s].since) :
                NotOlder(handler[s].req.evidence.tcb, chain[h].policy.minTcb)

(* The last of the app's upgrades in its recorded block, as of height h. *)
LastRelease(app, h) ==
    LET upgrades == chain[chain[h].latest[app]].upgrades[app]
    IN  upgrades[Len(upgrades)]

(* The instance may have the env at height h: everything the handler asks  *)
(* for holds of the chain as it was at that height.                        *)
EntitledAt(r, h) ==
    /\ LocalStatus(r) = 200
    /\ IsImageAllowed(r.evidence, h)
    /\ HasTEEClaims(r.evidence) =>
          IsTCBValid(r.evidence, h) /\ TEEModeAccepted(r.evidence) /\ r.evidence.endorsed
    /\ chain[h].latest[AppOf(r)] # 0
    /\ LET release == LastRelease(AppOf(r), h)
       IN  /\ Usable(release)
           /\ ReleaseStatus(r, release) = 200
           /\ SecretsStatus(r, release) = 200

(* A client error is never the handler's own doing: if every remote call   *)
(* succeeds, a request that is entitled to its env at every height it can  *)
(* have been checked at is not answered 4xx, however the checks and the    *)
(* release read are spread over those heights (env.go:211-314).            *)
RefusalIsJustified ==
    \A s \in Callers :
        (Answered(s, 400) \/ Answered(s, 401)) /\ ~handler[s].fault =>
            \E h \in Window(handler[s].since) : ~EntitledAt(handler[s].req, h)

=============================================================================
