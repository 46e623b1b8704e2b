----------------------------- MODULE EnvProtocol -----------------------------
(***************************************************************************)
(* An application instance fetching its env at boot: EnvClient.GetEnv      *)
(* (pkg/envclient/envclient.go) against the KMS server's /env/v3.          *)
(*                                                                         *)
(* GetEnv makes one key pair and one piece of bound evidence, and sends    *)
(* the same request until it is answered, retrying 5xx answers and lost    *)
(* connections.  An attempt the client has given up on may still be served *)
(* by its handler while the next one is: handlers do not stop when their   *)
(* client leaves.  The server may crash and come back; it keeps no state   *)
(* except the rate limiter's buckets, which a restart refills.             *)
(***************************************************************************)
EXTENDS EnvServer

CONSTANTS
    Instances,    \* VMs running an app
    Machine,      \* what the hardware attests of each VM
    NoClient,     \* the peer of a slot whose connection is closed
    Burst,        \* requests the rate limiter admits at once, per IP
    MaxBoots,     \* bound: boots of one VM
    MaxTries      \* stands for maxElapsedTime: attempts of one GetEnv

ASSUME ProtocolAssumption ==
    /\ NoClient \notin Instances
    /\ Burst \in Nat /\ MaxBoots \in Nat /\ MaxTries \in Nat \ {0}
    /\ \A i \in Instances :
          {"challenge", "extraData", "instance", "container", "hardened", "project", "platform",
           "image", "teeDebug", "endorsed", "tcb"} \subseteq DOMAIN Machine[i]

VARIABLES
    client,       \* the boot in progress on each VM
    conn,         \* the client each slot's response goes to
    tokens        \* the rate limiter's bucket per VM

clientVars == <<client, conn, tokens>>

-----------------------------------------------------------------------------
(* The request of VM i's n-th boot: a fresh key, and evidence bound to it. *)
EnvRequest(i, n) ==
    [rsaKey |-> <<i, n>>, rsaKeyBits |-> 4096, decodable |-> TRUE, appID |-> "none",
     evidence |-> [Machine[i] EXCEPT
        !.challenge = CalculateSignableDigest(EnvRequestRSAKeyHeader, <<i, n>>)]]

ClientRequests == {EnvRequest(i, n) : i \in Instances, n \in 1..MaxBoots}

ASSUME RequestsAssumption == ClientRequests \subseteq Requests

ClientPhase == {"off", "attest", "send", "waiting", "posting", "ok", "failed"}

Outcome == {"none", "attestation", "refused", "exhausted", "address"}

(* since, fault and previous are history: the head when GetEnv began,      *)
(* whether anything failed under it since, and the release of the last     *)
(* boot that got its env.                                                  *)
ClientState == [pc : ClientPhase, boot : 0..MaxBoots, tries : 0..MaxTries,
                slot : Callers \cup {"none"}, env : Position, outcome : Outcome,
                since : Nat, fault : BOOLEAN, previous : Position]

PoweredOff == [pc |-> "off", boot |-> 0, tries |-> 0, slot |-> "none",
               env |-> NoRelease, outcome |-> "none", since |-> 0,
               fault |-> FALSE, previous |-> NoRelease]

(* The type invariant. *)
ProtocolTypeOK ==
    /\ ServerTypeOK
    /\ client \in [Instances -> ClientState]
    /\ conn \in [Callers -> Instances \cup {NoClient}]
    /\ tokens \in [Instances -> 0..Burst]

RequestOf(i) == EnvRequest(i, client[i].boot)

-----------------------------------------------------------------------------
(* kms-client starts on a boot of the VM and generates its key. *)
GetEnv(i) ==
    /\ client[i].pc \in {"off", "ok", "failed"}
    /\ client[i].boot < MaxBoots
    /\ client' = [client EXCEPT ![i] =
          [PoweredOff EXCEPT !.pc = "attest", !.boot = client[i].boot + 1,
             !.since = Height,
             !.previous = IF client[i].pc = "ok" THEN client[i].env
                                                 ELSE client[i].previous]]
    /\ UNCHANGED <<chain, conn, tokens, fetchVars, handler>>

Fails(i, outcome) ==
    client' = [client EXCEPT ![i].pc = "failed", ![i].outcome = outcome,
                             ![i].slot = "none"]

(* The launcher's socket yields the evidence, or an error, once. *)
GetAttestation(i) ==
    /\ client[i].pc = "attest"
    /\ \/ client' = [client EXCEPT ![i].pc = "send"]
       \/ client' = [client EXCEPT ![i].pc = "failed", ![i].fault = TRUE,
                                   ![i].outcome = "attestation"]
    /\ UNCHANGED <<chain, conn, tokens, fetchVars, handler>>

(* An attempt reaches the server, past the rate limiter, in a free slot. *)
SendRequest(i) ==
    /\ client[i].pc = "send"
    /\ tokens[i] > 0
    /\ \E s \in Callers :
          /\ Receive(s, RequestOf(i))
          /\ conn' = [conn EXCEPT ![s] = i]
          /\ client' = [client EXCEPT ![i].pc = "waiting", ![i].slot = s,
                                      ![i].tries = @ + 1]
    /\ tokens' = [tokens EXCEPT ![i] = @ - 1]

(* The rate limiter's 429 is a client error: GetEnv gives up. *)
RateLimited(i) ==
    /\ client[i].pc = "send"
    /\ tokens[i] = 0
    /\ client' = [client EXCEPT ![i].pc = "failed", ![i].fault = TRUE,
                                ![i].outcome = "refused"]
    /\ UNCHANGED <<chain, conn, tokens, fetchVars, handler>>

(* Mutant: one attempt too many. *)
RetryOnceMore(i, tries, fault) ==
    client' = [client EXCEPT ![i] =
        [client[i] EXCEPT !.slot = "none", !.tries = tries, !.fault = @ \/ fault,
                          !.pc      = IF tries <= MaxTries THEN "send" ELSE "failed",
                          !.outcome = IF tries <= MaxTries THEN "none" ELSE "exhausted"]]

(* Mutant: the elapsed time starts anew with every attempt. *)
RetryForever(i, tries, fault) ==
    client' = [client EXCEPT ![i] =
        [client[i] EXCEPT !.slot = "none", !.tries = 0, !.fault = @ \/ fault,
                          !.pc = "send", !.outcome = "none"]]

(* backoff.Retry after a retryable error: another attempt, while time is   *)
(* left.                                                                   *)
RetryOrGiveUp(i, tries, fault) ==
    client' = [client EXCEPT ![i] =
        [client[i] EXCEPT !.slot = "none", !.tries = tries, !.fault = @ \/ fault,
                          !.pc      = IF tries < MaxTries THEN "send" ELSE "failed",
                          !.outcome = IF tries < MaxTries THEN "none" ELSE "exhausted"]]

(* The connection cannot be made. *)
ConnectError(i) ==
    /\ client[i].pc = "send"
    /\ RetryOrGiveUp(i, client[i].tries + 1, TRUE)
    /\ UNCHANGED <<chain, conn, tokens, fetchVars, handler>>

(* The 30 s client timeout, or a lost connection.  If the connection was   *)
(* still up its handler goes on without a peer.                            *)
AttemptLost(i) ==
    /\ client[i].pc = "waiting"
    /\ RetryOrGiveUp(i, client[i].tries, TRUE)
    /\ conn' = [s \in Callers |-> IF conn[s] = i THEN NoClient ELSE conn[s]]
    /\ UNCHANGED <<chain, tokens, fetchVars, handler>>

(* The answer arrives.  A 200 is verified and decrypted with the key of    *)
(* this call; the addresses it logs must derive from the env's MNEMONIC.   *)
ReceiveResponse(i) ==
    /\ client[i].pc = "waiting"
    /\ LET s       == client[i].slot
           status  == handler[s].status
           release == ReleaseAt(RequestOf(i).evidence.instance, handler[s].release)
       IN  /\ conn[s] = i
           /\ Finish(s)
           /\ conn' = [conn EXCEPT ![s] = NoClient]
           /\ \/ /\ status = 200 /\ release.mnemonic # "invalid"
                 /\ client' = [client EXCEPT ![i].pc = "posting", ![i].slot = "none",
                                             ![i].env = handler[s].release]
              \/ /\ status = 200 /\ release.mnemonic = "invalid"
                 /\ Fails(i, "address")
              \/ /\ status >= 500
                 /\ RetryOrGiveUp(i, client[i].tries, handler[s].fault)
              \/ /\ status \in {400, 401}
                 /\ client' = [client EXCEPT ![i].pc = "failed", ![i].slot = "none",
                                             ![i].outcome = "refused",
                                             ![i].fault = @ \/ handler[s].fault]
    /\ UNCHANGED tokens

(* The evidence is uploaded to the user API; failing that is not fatal. *)
PostAttestation(i) ==
    /\ client[i].pc = "posting"
    /\ client' = [client EXCEPT ![i].pc = "ok"]
    /\ UNCHANGED <<chain, conn, tokens, fetchVars, handler>>

ClientStep(i) ==
    \/ SendRequest(i) \/ RateLimited(i) \/ ConnectError(i)
    \/ AttemptLost(i) \/ ReceiveResponse(i) \/ PostAttestation(i)

-----------------------------------------------------------------------------
(* A handler runs on whether or not its client is still there. *)
ServerStep(s) == HandlerStep(s) /\ UNCHANGED clientVars

(* A response nobody waits for. *)
DropResponse(s) ==
    /\ conn[s] = NoClient
    /\ Finish(s)
    /\ UNCHANGED clientVars

Refill(i) ==
    /\ tokens[i] < Burst
    /\ tokens' = [tokens EXCEPT ![i] = @ + 1]
    /\ UNCHANGED <<chain, client, conn, fetchVars, handler>>

(* The server process dies and is restarted; every connection breaks. *)
Crash ==
    /\ \E s \in Callers : handler[s].pc # "idle"
    /\ handler' = [s \in Callers |-> NotHandling]
    /\ fetch' = [s \in Callers |-> NotFetching]
    /\ conn' = [s \in Callers |-> NoClient]
    /\ tokens' = [i \in Instances |-> Burst]
    /\ UNCHANGED <<chain, client, newest>>

-----------------------------------------------------------------------------
protocolVars == <<chain, fetch, newest, debug, handler, client, conn, tokens>>

ProtocolInit ==
    /\ ServerSpecInit
    /\ client = [i \in Instances |-> PoweredOff]
    /\ conn = [s \in Callers |-> NoClient]
    /\ tokens = [i \in Instances |-> Burst]

ProtocolNext ==
    /\ \/ MineBlock /\ UNCHANGED <<fetchVars, handler, clientVars>>
       \/ \E i \in Instances : GetEnv(i) \/ GetAttestation(i) \/ ClientStep(i) \/ Refill(i)
       \/ \E s \in Callers : ServerStep(s) \/ DropResponse(s)
       \/ Crash
    /\ UNCHANGED debug

ProtocolSpec == ProtocolInit /\ [][ProtocolNext]_protocolVars

(* A client that has its evidence keeps running, and so do the handlers.   *)
(* Nothing makes the launcher answer (its socket is asked without a        *)
(* timeout), an attempt succeed, a bucket refill or the chain move.        *)
ProtocolFairness ==
    /\ \A i \in Instances : WF_protocolVars(ClientStep(i) /\ UNCHANGED debug)
    /\ \A s \in Callers :
          WF_protocolVars((ServerStep(s) \/ DropResponse(s)) /\ UNCHANGED debug)

FairProtocolSpec == ProtocolSpec /\ ProtocolFairness

-----------------------------------------------------------------------------
(* The env an instance starts its app with is its own app's, of a release  *)
(* that lists the image it runs and that was the app's latest at some      *)
(* height of this GetEnv (less the provider's lag): a late answer to an    *)
(* abandoned attempt, a crash in between or a reboot never delivers an     *)
(* older one (envclient.go:118-209, env.go:211-314).                       *)
DeliveredEnvIsFresh ==
    \A i \in Instances : client[i].pc \in {"posting", "ok"} =>
        LET app == Machine[i].instance
            pos == client[i].env
        IN  /\ ReleaseAt(app, pos).digests = <<Machine[i].container>>
            /\ ReleaseAt(app, pos).sealedFor = app
            /\ \E h \in Window(client[i].since) : IsLatestAt(pos, app, h)

(* When every node is at the head, a VM that reboots never gets an older   *)
(* env than the one its last boot had.                                     *)
RebootNeverGoesBack ==
    MaxLag = 0 =>
        \A i \in Instances : client[i].pc \in {"posting", "ok"} =>
            ~Before(client[i].env, client[i].previous)

(* kms.md:13, for one GetEnv and a provider without lag: if nothing fails  *)
(* under it, it fails only when its VM was not entitled to the env at some *)
(* height it spans, or the release carries a MNEMONIC that is not one.     *)
LatestCodeHasAccess ==
    MaxLag = 0 =>
        \A i \in Instances : client[i].pc = "failed" /\ ~client[i].fault =>
            \/ \E h \in Window(client[i].since) : ~EntitledAt(RequestOf(i), h)
            \/ client[i].outcome = "address"

(* Once it has its evidence GetEnv returns, with an env or with an error,  *)
(* though attempts are lost and the server crashes                         *)
(* (envclient.go:211-226).                                                 *)
GetEnvReturns ==
    \A i \in Instances : client[i].pc = "send" ~> client[i].pc \in {"ok", "failed"}

(* How many steps a boot in state k has before it at most. *)
StepsLeft(k) ==
    CASE k.pc = "attest"  -> 2 * MaxTries + 2
      [] k.pc = "send"    -> 2 * (MaxTries - k.tries) + 1
      [] k.pc = "waiting" -> 2 * (MaxTries - k.tries) + 2
      [] k.pc = "posting" -> 1
      [] OTHER            -> 0

(* What makes GetEnv return: whatever answers, breaks or crashes, each of  *)
(* its steps is one of finitely many, fewer of which are left after it     *)
(* (envclient.go:211-226: no retry starts the elapsed time anew, and       *)
(* nothing sends a call back to its beginning).                            *)
GetEnvRunsDown ==
    [][\A i \in Instances :
          \/ UNCHANGED client[i]
          \/ client'[i].boot # client[i].boot
          \/ StepsLeft(client'[i]) \in 0..(StepsLeft(client[i]) - 1)]_protocolVars

(* envclient.go:260, "Don't retry client errors (4xx) as they won't        *)
(* resolve with retries": GetEnv gives up on a client error only where a   *)
(* retry would not help, that is, the VM was not entitled to its env       *)
(* throughout the call (the provider has no lag where this is checked).    *)
ClientErrorsDoNotResolve ==
    \A i \in Instances : client[i].outcome = "refused" =>
        \E h \in Window(client[i].since) : ~EntitledAt(RequestOf(i), h)

-----------------------------------------------------------------------------
(* The refinement of EnvDelivery: what the chain, as of height h, holds    *)
(* out to VM i.  What hardware and launcher attest of the VM is the same   *)
(* from boot to boot, and stands here with the image check.                *)
Vouched(i) ==
    /\ Machine[i].extraData = "none" /\ Identified(Machine[i]) /\ HostAccepted(Machine[i])
    /\ HasTEEClaims(Machine[i]) => TEEModeAccepted(Machine[i]) /\ Machine[i].endorsed

Passed(i, h) ==
    {check \in {"image", "tcb"} :
        CASE check = "image" -> IsImageAllowed(Machine[i], h) /\ Vouched(i)
          [] check = "tcb"   -> HasTEEClaims(Machine[i]) => IsTCBValid(Machine[i], h)}

DueReleases == [i \in Instances |->
    {release \in Releases :
        /\ release.digests = <<Machine[i].container>>
        /\ release.publicEnv # "malformed"
        /\ release.sealed \notin {"notJwe", "noAppHeader", "undecryptable", "notJson"}
        /\ release.sealedFor = Machine[i].instance
        /\ VerifyPlatform(Machine[i], release.machineType)
        /\ release.mnemonic # "invalid"}]

DueEnv(i, h) ==
    LET app == Machine[i].instance
    IN  IF /\ app \in Apps /\ chain[h].latest[app] # 0
           /\ LastRelease(app, h) \in DueReleases[i]
          THEN LastUpgrade(app, chain[h].latest[app])
          ELSE NoRelease

Offers == [h \in 1..Height |->
    [i \in Instances |-> [passed |-> Passed(i, h), env |-> DueEnv(i, h)]]]

BootPhase == [off |-> "off", attest |-> "booting", send |-> "booting", waiting |-> "booting",
              posting |-> "running", ok |-> "running", failed |-> "failed"]

Boots == [i \in Instances |->
    [pc        |-> BootPhase[client[i].pc],
     since     |-> client[i].since,
     env       |-> client[i].env,
     disturbed |-> client[i].fault]]

Promise == INSTANCE EnvDelivery WITH height <- Height, offers <- Offers, vm <- Boots

(* GetEnv against the server, with its lost attempts, its retries, crashes *)
(* and checks made one after another, implements a delivery in one step:   *)
(* an env only after every check passed and of a release that was the      *)
(* app's latest, and without lag no failure that has no reason             *)
(* (envclient.go:118-226, env.go:211-314).                                 *)
DeliversAsPromised == Promise!Spec

=============================================================================
