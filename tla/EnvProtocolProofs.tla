-------------------------- MODULE EnvProtocolProofs --------------------------
(***************************************************************************)
(* Proofs about EnvProtocol, for any instances, requests, releases, slots, *)
(* lag, retries and boots: what an instance starts its app with, what a    *)
(* reboot may not undo, and whom a failed GetEnv may be blamed on.         *)
(*                                                                         *)
(* The inductive invariant adds to that of EnvServer that a connection     *)
(* joins a client to the slot serving its present request, so that what    *)
(* the slot knows since the request came is known since GetEnv began.      *)
(***************************************************************************)
EXTENDS EnvProtocol, EnvServerProofs

(* The release at pos is the app's own, lists the image VM i runs, and was *)
(* the contract's answer at some height since the given one.               *)
Delivered(i, pos, since) ==
    /\ Machine[i].instance \in Apps
    /\ ReadSince(Machine[i].instance, pos, since)
    /\ ReleaseAt(Machine[i].instance, pos).digests = <<Machine[i].container>>
    /\ ReleaseAt(Machine[i].instance, pos).sealedFor = Machine[i].instance

(* What an earlier boot got is no newer than what was recorded at height h. *)
HadBy(i, pos, h) ==
    pos = NoRelease \/ (Machine[i].instance \in Apps /\ KnownAt(pos, Machine[i].instance, h))

(* What the state k of VM i's client says. *)
ClientInv(i, k) ==
    IF k.pc = "off" THEN k.previous = NoRelease
    ELSE /\ k.boot \in 1..MaxBoots
         /\ k.since \in 1..Height
         /\ HadBy(i, k.previous, k.since)
         /\ k.pc \in {"attest", "send"} => k.tries < MaxTries
         /\ k.pc = "waiting" => k.slot \in Callers
         /\ k.pc \in {"posting", "ok"} => Delivered(i, k.env, k.since)

(* What a connection of slot s to client i says, k being the client's      *)
(* state and h the slot's.                                                 *)
Joined(s, i, k, h) ==
    /\ k.pc = "waiting" /\ k.slot = s
    /\ h.pc # "idle" /\ h.req = EnvRequest(i, k.boot)
    /\ k.since <= h.since

ConnInv ==
    \A s \in Callers : conn[s] # NoClient =>
        Joined(s, conn[s], client[conn[s]], handler[s])

ProtocolInv ==
    /\ ServerInv
    /\ client \in [Instances -> ClientState]
    /\ conn \in [Callers -> Instances \cup {NoClient}]
    /\ tokens \in [Instances -> 0..Burst]
    /\ \A i \in Instances : ClientInv(i, client[i])
    /\ ConnInv
-----------------------------------------------------------------------------
(* The request of a boot names the VM's own app and image. *)
LEMMA RequestIsOwn ==
    ASSUME NEW i \in Instances, NEW n \in 1..MaxBoots
    PROVE  /\ EnvRequest(i, n) \in Requests
           /\ AppOf(EnvRequest(i, n)) = Machine[i].instance
           /\ EnvRequest(i, n).evidence.instance = Machine[i].instance
           /\ EnvRequest(i, n).evidence.container = Machine[i].container
<1>1. EnvRequest(i, n) \in Requests
  BY RequestsAssumption DEF ClientRequests
<1> DEFINE challenge == CalculateSignableDigest(EnvRequestRSAKeyHeader, <<i, n>>)
           evidence  == [Machine[i] EXCEPT !.challenge = challenge]
<1>2. evidence.instance = Machine[i].instance /\ evidence.container = Machine[i].container
  BY ProtocolAssumption
<1>3. EnvRequest(i, n).appID = "none" /\ EnvRequest(i, n).evidence = evidence
  BY DEF EnvRequest
<1> QED BY <1>1, <1>2, <1>3 DEF AppOf

(* A later beginning narrows the window. *)
LEMMA WindowNarrows ==
    ASSUME Height \in Nat, NEW since \in 1..Height, NEW later \in 1..Height, since <= later
    PROVE  Window(later) \subseteq Window(since)
BY ChainAssumption DEF Window

(* What the contract's answer was once is recorded from then on. *)
LEMMA ReadIsKnown ==
    ASSUME FetchTypeOK, StorageInv, NEW app \in Apps, NEW pos \in Position,
           NEW since \in 1..Height, ReadSince(app, pos, since)
    PROVE  KnownAt(pos, app, Height)
<1>1. PICK g \in Window(since) : ReadAt(app, pos, g)
  BY DEF ReadSince
<1>2. Height \in Nat /\ Height >= 1 /\ g \in 1..Height
  BY <1>1 DEF FetchTypeOK, Height, Window
<1>3. chain[g].latest[app] <= chain[Height].latest[app]
  BY <1>2, LatestIsMonotonic
<1>4. chain[Height].latest[app] \in Nat
  BY <1>2 DEF StorageInv
<1>5. pos.block \in 1..chain[Height].latest[app]
  BY <1>1, <1>3, <1>4 DEF ReadAt, Position
<1>6. pos.logIndex = Len(chain[pos.block].upgrades[app]) /\ pos.logIndex \in Nat
  BY <1>1 DEF ReadAt, LastUpgrade, Position
<1> QED BY <1>5, <1>6 DEF KnownAt

LEMMA KnownForGood ==
    ASSUME FetchTypeOK, StorageInv, NEW app \in Apps, NEW pos \in Position,
           NEW since \in 1..Height, KnownAt(pos, app, since)
    PROVE  KnownAt(pos, app, Height)
<1>1. Height \in Nat /\ Height >= 1
  BY DEF FetchTypeOK, Height
<1>2. chain[since].latest[app] <= chain[Height].latest[app]
  BY <1>1, LatestIsMonotonic
<1>3. chain[Height].latest[app] \in Nat /\ chain[since].latest[app] \in Nat
  BY <1>1 DEF StorageInv
<1> QED BY <1>2, <1>3 DEF KnownAt

(* No block that is mined, and no step of the server or of another client, *)
(* undoes what is known of one.                                            *)
LEMMA ClientSurvives ==
    ASSUME StorageInv, Grows, NEW i \in Instances,
           NEW k \in ClientState, ClientInv(i, k), k.pc # "off"
    PROVE  ClientInv(i, k)'
<1> DEFINE app == Machine[i].instance
<1>1. k.since \in 1..Height /\ k.since \in 1..Height' /\ chain'[k.since] = chain[k.since]
  BY DEF ClientInv, Grows
<1>2. HadBy(i, k.previous, k.since)'
  <2>1. CASE k.previous = NoRelease
    BY <2>1 DEF HadBy, NoRelease
  <2>2. CASE k.previous # NoRelease
    <3>1. app \in Apps /\ KnownAt(k.previous, app, k.since)
      BY <2>2 DEF ClientInv, HadBy
    <3>2. chain[k.since].latest[app] \in 0..k.since
      BY <1>1, <3>1 DEF StorageInv
    <3>3. k.previous.block \in 1..Height
      BY <1>1, <2>2, <3>1, <3>2 DEF KnownAt, Grows
    <3>4. chain'[k.previous.block] = chain[k.previous.block]
      BY <3>3 DEF Grows
    <3> QED BY <1>1, <2>2, <3>1, <3>4 DEF HadBy, KnownAt, NoRelease
  <2> QED BY <2>1, <2>2
<1>3. ASSUME Delivered(i, k.env, k.since)
      PROVE  Delivered(i, k.env, k.since)'
  <2>1. app \in Apps /\ ReadSince(app, k.env, k.since)
    BY <1>3 DEF Delivered
  <2>2. PICK g \in Window(k.since) : ReadAt(app, k.env, g)
    BY <2>1 DEF ReadSince
  <2>3. g \in 1..Height /\ g \in Window(k.since)'
    BY <2>2 DEF Window, Grows
  <2>4. ReadAt(app, k.env, g)' /\ ReleaseAt(app, k.env)' = ReleaseAt(app, k.env)
    BY <2>1, <2>2, <2>3, ReadForGood
  <2> QED BY <1>3, <2>1, <2>3, <2>4 DEF Delivered, ReadSince
<1> QED BY <1>1, <1>2, <1>3 DEF ClientInv

(* A step that leaves the server alone. *)
LEMMA StutterPreservesServer ==
    ASSUME ServerInv, UNCHANGED <<chain, fetchVars, debug, handler>>
    PROVE  ServerInv'
<1>1. IInv'
  BY StutterPreserves DEF ServerInv
<1>2. Grows /\ StorageInv
  BY DEF Grows, ServerInv, IInv, FetchTypeOK, Height
<1>3. ASSUME NEW s \in Callers
      PROVE  HandlerInv(handler[s], fetch[s])'
  <2>1. PICK h \in HandlerStates(HandlerPhase), f \in FetchState :
           h = handler[s] /\ f = fetch[s]
    BY DEF ServerInv, IInv, FetchTypeOK
  <2>2. HandlerInv(h, f)'
    BY <1>2, <2>1, InvariantSurvives DEF ServerInv
  <2> QED BY <2>1, <2>2 DEF fetchVars
<1> QED BY <1>1, <1>3 DEF ServerInv

(* A step is right if each client it changes is, and the connections are.  *)
LEMMA ProtocolSuffices ==
    ASSUME ProtocolInv, ServerInv', Grows,
           client' \in [Instances -> ClientState],
           conn' \in [Callers -> Instances \cup {NoClient}],
           tokens' \in [Instances -> 0..Burst],
           \A i \in Instances : ClientInv(i, client'[i]),
           ConnInv'
    PROVE  ProtocolInv'
<1>1. ASSUME NEW i \in Instances
      PROVE  ClientInv(i, client[i])'
  <2>1. PICK k \in ClientState : k = client'[i]
    OBVIOUS
  <2>2. CASE k.pc = "off"
    BY <2>1, <2>2 DEF ClientInv, NoRelease
  <2>3. CASE k.pc # "off"
    <3>1. ClientInv(i, k)'
      BY <2>1, <2>3, ClientSurvives DEF ProtocolInv, ServerInv, IInv
    <3> QED BY <2>1, <3>1
  <2> QED BY <2>2, <2>3
<1> QED BY <1>1 DEF ProtocolInv
-----------------------------------------------------------------------------
(* A step of the handlers alone: the connections stay right if no joined   *)
(* slot becomes idle or takes up another request.                          *)
LEMMA ServerSuffices ==
    ASSUME ProtocolInv, ServerInv', Grows, UNCHANGED clientVars,
           \A s \in Callers : conn[s] # NoClient =>
              /\ handler'[s].pc # "idle"
              /\ handler'[s].req = handler[s].req /\ handler'[s].since = handler[s].since
    PROVE  ProtocolInv'
<1>1. client' = client /\ conn' = conn /\ tokens' = tokens
  BY DEF clientVars
<1>2. ConnInv'
  BY <1>1 DEF ProtocolInv, ConnInv, Joined
<1>3. \A i \in Instances : ClientInv(i, client'[i])
  BY <1>1 DEF ProtocolInv
<1> QED BY <1>1, <1>2, <1>3, ProtocolSuffices DEF ProtocolInv

(* A step that leaves the server alone and brings one unconnected client   *)
(* to state k.                                                             *)
LEMMA ClientSuffices ==
    ASSUME ProtocolInv, UNCHANGED <<chain, fetchVars, debug, handler>>,
           NEW i \in Instances, NEW k \in ClientState, ClientInv(i, k),
           client' = [client EXCEPT ![i] = k],
           conn' \in [Callers -> Instances \cup {NoClient}],
           \A s \in Callers : conn'[s] # NoClient => conn[s] = conn'[s] /\ conn[s] # i,
           tokens' \in [Instances -> 0..Burst]
    PROVE  ProtocolInv'
<1>1. ServerInv'
  BY StutterPreservesServer DEF ProtocolInv
<1>2. Grows
  BY DEF Grows, ProtocolInv, ServerInv, IInv, FetchTypeOK, Height
<1>3. /\ client' \in [Instances -> ClientState]
      /\ \A j \in Instances : client'[j] = IF j = i THEN k ELSE client[j]
  BY DEF ProtocolInv
<1>4. ASSUME NEW s \in Callers, conn'[s] # NoClient
      PROVE  Joined(s, conn'[s], client'[conn'[s]], handler'[s])
  <2>1. conn[s] = conn'[s] /\ conn[s] # i /\ conn[s] \in Instances
    BY <1>4 DEF ProtocolInv
  <2>2. client'[conn'[s]] = client[conn[s]] /\ handler' = handler
    BY <1>3, <2>1
  <2> QED BY <1>4, <2>1, <2>2 DEF ProtocolInv, ConnInv
<1>5. ConnInv'
  BY <1>4 DEF ConnInv
<1>6. \A j \in Instances : ClientInv(j, client'[j])
  BY <1>3 DEF ProtocolInv
<1> QED BY <1>1, <1>2, <1>3, <1>5, <1>6, ProtocolSuffices

(* Only a waiting client has a connection. *)
LEMMA Unconnected ==
    ASSUME ProtocolInv, NEW i \in Instances, client[i].pc # "waiting"
    PROVE  \A s \in Callers : conn[s] # i
BY ProtocolAssumption DEF ProtocolInv, ConnInv, Joined

(* ... so such a client may change by itself. *)
LEMMA AloneSuffices ==
    ASSUME ProtocolInv, UNCHANGED <<chain, conn, tokens, fetchVars, debug, handler>>,
           NEW i \in Instances, client[i].pc # "waiting",
           NEW k \in ClientState, ClientInv(i, k), client' = [client EXCEPT ![i] = k]
    PROVE  ProtocolInv'
<1>1. \A s \in Callers : conn[s] # i
  BY Unconnected
<1> QED BY <1>1, ClientSuffices DEF ProtocolInv
-----------------------------------------------------------------------------
LEMMA PoweredOffIsState == PoweredOff \in ClientState
<1>1. 0 \in 0..MaxBoots /\ 0 \in 0..MaxTries
  BY ProtocolAssumption
<1>2. NoRelease \in Position
  BY DEF NoRelease, Position
<1> QED BY <1>1, <1>2 DEF PoweredOff, ClientState, ClientPhase, Outcome

LEMMA GetEnvPreserves ==
    ASSUME ProtocolInv, UNCHANGED debug, NEW i \in Instances, GetEnv(i)
    PROVE  ProtocolInv'
<1> DEFINE app      == Machine[i].instance
           previous == IF client[i].pc = "ok" THEN client[i].env ELSE client[i].previous
           k        == [PoweredOff EXCEPT !.pc = "attest", !.boot = client[i].boot + 1,
                                          !.since = Height, !.previous = previous]
<1>1. PICK c \in ClientState : c = client[i]
  BY DEF ProtocolInv
<1>2. /\ c.pc \in {"off", "ok", "failed"} /\ c.boot < MaxBoots /\ ClientInv(i, c)
      /\ FetchTypeOK /\ StorageInv /\ Height \in Nat /\ Height >= 1
  BY <1>1 DEF GetEnv, ProtocolInv, ServerInv, IInv, FetchTypeOK, Height
<1>3. previous \in Position /\ NoRelease \in Position
  BY <1>1 DEF ClientState, NoRelease, Position
<1> HIDE DEF previous
<1>4. /\ k.pc = "attest" /\ k.boot = c.boot + 1 /\ k.tries = 0
      /\ k.since = Height /\ k.previous = previous
  BY <1>1 DEF PoweredOff
<1>8. k \in ClientState
  <2>1. c.boot + 1 \in 0..MaxBoots /\ 0 \in 0..MaxTries
    BY <1>2, ProtocolAssumption DEF ClientState
  <2>2. PICK p \in ClientState : p = PoweredOff
    BY PoweredOffIsState
  <2>3. [p EXCEPT !.pc = "attest", !.boot = c.boot + 1, !.since = Height,
                  !.previous = previous] \in ClientState
    BY <1>2, <1>3, <2>1 DEF ClientState, ClientPhase
  <2> QED BY <1>1, <2>2, <2>3
<1>5. HadBy(i, previous, Height)
  <2> USE DEF previous
  <2>1. CASE c.pc = "off"
    BY <1>1, <1>2, <2>1 DEF ClientInv, HadBy
  <2>2. CASE c.pc = "ok"
    <3>1. app \in Apps /\ ReadSince(app, c.env, c.since) /\ c.since \in 1..Height
      BY <1>2, <2>2 DEF ClientInv, Delivered
    <3> QED BY <1>1, <1>2, <1>3, <2>2, <3>1, ReadIsKnown DEF HadBy
  <2>3. CASE c.pc = "failed"
    <3>1. HadBy(i, c.previous, c.since) /\ c.since \in 1..Height /\ c.previous = previous
      BY <1>1, <1>2, <2>3 DEF ClientInv
    <3> QED BY <1>2, <1>3, <3>1, KnownForGood DEF HadBy
  <2> QED BY <1>2, <2>1, <2>2, <2>3
<1>6. client' = [client EXCEPT ![i] = k] /\ client[i].pc # "waiting"
  BY DEF GetEnv, previous
<1> HIDE DEF k
<1>7. ClientInv(i, k)
  <2>1. k.boot \in 1..MaxBoots
    BY <1>1, <1>2, <1>4, ProtocolAssumption DEF ClientState
  <2>2. k.tries < MaxTries /\ k.since \in 1..Height
    BY <1>2, <1>4, ProtocolAssumption
  <2> QED BY <1>4, <1>5, <2>1, <2>2 DEF ClientInv
<1> QED BY <1>6, <1>7, <1>8, AloneSuffices DEF GetEnv

(* The state a retry, or giving up, brings a client to. *)
Retrying(c, tries, fault) ==
    [c EXCEPT !.slot = "none", !.tries = tries, !.fault = @ \/ fault,
              !.pc      = IF tries < MaxTries THEN "send" ELSE "failed",
              !.outcome = IF tries < MaxTries THEN "none" ELSE "exhausted"]

LEMMA RetryingIsGood ==
    ASSUME ProtocolInv, NEW i \in Instances, client[i].pc # "off",
           NEW tries \in 0..MaxTries, NEW fault \in BOOLEAN
    PROVE  /\ Retrying(client[i], tries, fault) \in ClientState
           /\ ClientInv(i, Retrying(client[i], tries, fault))
<1>1. PICK c \in ClientState : c = client[i]
  BY DEF ProtocolInv
<1> DEFINE k == Retrying(c, tries, fault)
<1>2. /\ k \in ClientState
      /\ k.pc = IF tries < MaxTries THEN "send" ELSE "failed"
      /\ k.tries = tries /\ k.boot = c.boot /\ k.since = c.since /\ k.previous = c.previous
  BY DEF Retrying, ClientState, ClientPhase, Outcome
<1>3. ClientInv(i, c) /\ c.pc # "off"
  BY <1>1 DEF ProtocolInv
<1> HIDE DEF k
<1>4. ClientInv(i, k)
  BY <1>2, <1>3 DEF ClientInv
<1> QED BY <1>1, <1>2, <1>4 DEF k

(* The steps a client takes by itself before it has a connection, or after. *)
LEMMA AlonePreserves ==
    ASSUME ProtocolInv, UNCHANGED debug, NEW i \in Instances,
           GetAttestation(i) \/ RateLimited(i) \/ ConnectError(i) \/ PostAttestation(i)
    PROVE  ProtocolInv'
<1>1. PICK c \in ClientState : c = client[i]
  BY DEF ProtocolInv
<1>2. ClientInv(i, c)
  BY <1>1 DEF ProtocolInv
<1>3. CASE GetAttestation(i)
  <2> DEFINE k == [c EXCEPT !.pc = "send"]
             d == [c EXCEPT !.pc = "failed", !.fault = TRUE, !.outcome = "attestation"]
  <2>1. c.pc = "attest" /\ (\/ client' = [client EXCEPT ![i] = k]
                           \/ client' = [client EXCEPT ![i] = d])
    BY <1>1, <1>3 DEF GetAttestation
  <2>2. k \in ClientState /\ d \in ClientState
    BY DEF ClientState, ClientPhase, Outcome
  <2>3. ClientInv(i, k) /\ ClientInv(i, d)
    BY <1>2, <2>1 DEF ClientInv, ClientState
  <2> HIDE DEF k, d
  <2> QED BY <1>1, <1>3, <2>1, <2>2, <2>3, AloneSuffices DEF GetAttestation
<1>4. CASE RateLimited(i)
  <2> DEFINE k == [c EXCEPT !.pc = "failed", !.fault = TRUE, !.outcome = "refused"]
  <2>1. c.pc = "send" /\ client' = [client EXCEPT ![i] = k]
    BY <1>1, <1>4 DEF RateLimited
  <2>2. k \in ClientState
    BY DEF ClientState, ClientPhase, Outcome
  <2>3. ClientInv(i, k)
    BY <1>2, <2>1 DEF ClientInv, ClientState
  <2> HIDE DEF k
  <2> QED BY <1>1, <1>4, <2>1, <2>2, <2>3, AloneSuffices DEF RateLimited
<1>5. CASE ConnectError(i)
  <2> DEFINE k == Retrying(client[i], client[i].tries + 1, TRUE)
  <2>1. c.pc = "send" /\ client' = [client EXCEPT ![i] = k]
    BY <1>1, <1>5 DEF ConnectError, RetryOrGiveUp, Retrying
  <2>2. c.tries + 1 \in 0..MaxTries
    BY <1>2, <2>1, ProtocolAssumption DEF ClientInv, ClientState
  <2>3. k \in ClientState /\ ClientInv(i, k)
    BY <1>1, <2>1, <2>2, RetryingIsGood
  <2> HIDE DEF k
  <2> QED BY <1>1, <1>5, <2>1, <2>3, AloneSuffices DEF ConnectError
<1>6. CASE PostAttestation(i)
  <2> DEFINE k == [c EXCEPT !.pc = "ok"]
  <2>1. c.pc = "posting" /\ client' = [client EXCEPT ![i] = k]
    BY <1>1, <1>6 DEF PostAttestation
  <2>2. k \in ClientState
    BY DEF ClientState, ClientPhase
  <2>3. ClientInv(i, k)
    BY <1>2, <2>1 DEF ClientInv, ClientState
  <2> HIDE DEF k
  <2> QED BY <1>1, <1>6, <2>1, <2>2, <2>3, AloneSuffices DEF PostAttestation
<1> QED BY <1>3, <1>4, <1>5, <1>6

LEMMA AttemptLostPreserves ==
    ASSUME ProtocolInv, UNCHANGED debug, NEW i \in Instances, AttemptLost(i)
    PROVE  ProtocolInv'
<1> DEFINE k == Retrying(client[i], client[i].tries, TRUE)
<1>1. client[i].pc = "waiting" /\ client' = [client EXCEPT ![i] = k]
  BY DEF AttemptLost, RetryOrGiveUp, Retrying
<1>2. client[i].tries \in 0..MaxTries
  BY DEF ProtocolInv, ClientState
<1>3. k \in ClientState /\ ClientInv(i, k)
  BY <1>1, <1>2, RetryingIsGood
<1>4. conn' = [s \in Callers |-> IF conn[s] = i THEN NoClient ELSE conn[s]]
  BY DEF AttemptLost
<1>5. /\ conn' \in [Callers -> Instances \cup {NoClient}]
      /\ \A s \in Callers : conn'[s] # NoClient => conn[s] = conn'[s] /\ conn[s] # i
  BY <1>4 DEF ProtocolInv
<1> HIDE DEF k
<1> QED BY <1>1, <1>3, <1>5, ClientSuffices DEF AttemptLost, ProtocolInv

(* An attempt arrives: its slot serves the client's present request, from  *)
(* now on.                                                                 *)
LEMMA SendRequestPreserves ==
    ASSUME ProtocolInv, UNCHANGED debug, NEW i \in Instances, SendRequest(i)
    PROVE  ProtocolInv'
<1>1. PICK c \in ClientState : c = client[i]
  BY DEF ProtocolInv
<1>2. PICK s \in Callers :
         /\ Receive(s, RequestOf(i))
         /\ conn' = [conn EXCEPT ![s] = i]
         /\ client' = [client EXCEPT ![i].pc = "waiting", ![i].slot = s, ![i].tries = @ + 1]
  BY DEF SendRequest
<1> DEFINE k == [c EXCEPT !.pc = "waiting", !.slot = s, !.tries = c.tries + 1]
           r == RequestOf(i)
<1>3. c.pc = "send" /\ ClientInv(i, c) /\ Height \in Nat
  BY <1>1 DEF SendRequest, ProtocolInv, ServerInv, IInv, FetchTypeOK, Height
<1>4. r \in Requests
  BY <1>1, <1>3, RequestIsOwn DEF RequestOf, ClientInv
<1>5. ServerInv' /\ UNCHANGED <<chain, debug>>
  BY <1>2, <1>4, ReceivePreserves DEF ProtocolInv, Receive
<1>6. Grows
  BY <1>3, <1>5 DEF Grows, Height
<1>7. c.tries + 1 \in 0..MaxTries
  BY <1>3, ProtocolAssumption DEF ClientInv, ClientState
<1>8. /\ k \in ClientState
      /\ k.pc = "waiting" /\ k.slot = s /\ k.boot = c.boot /\ k.since = c.since
      /\ k.previous = c.previous
  BY <1>7 DEF ClientState, ClientPhase
<1>9. client' = [client EXCEPT ![i] = k]
  BY <1>1, <1>2
<1> HIDE DEF k
<1>10. ClientInv(i, k)
  BY <1>3, <1>8 DEF ClientInv
<1>11. /\ client' \in [Instances -> ClientState]
       /\ \A j \in Instances : client'[j] = IF j = i THEN k ELSE client[j]
       /\ \A j \in Instances : ClientInv(j, client'[j])
  BY <1>8, <1>9, <1>10 DEF ProtocolInv
<1>12. /\ conn' \in [Callers -> Instances \cup {NoClient}]
       /\ tokens' \in [Instances -> 0..Burst]
  <2>1. tokens[i] \in 0..Burst /\ tokens[i] > 0 /\ tokens' = [tokens EXCEPT ![i] = @ - 1]
    BY DEF SendRequest, ProtocolInv
  <2> QED BY <1>2, <2>1, ProtocolAssumption DEF ProtocolInv
<1>13. ASSUME NEW d \in Callers, conn'[d] # NoClient
       PROVE  Joined(d, conn'[d], client'[conn'[d]], handler'[d])
  <2>1. CASE d = s
    <3>1. conn'[d] = i /\ client'[i] = k
      BY <1>2, <1>11, <2>1 DEF ProtocolInv
    <3>2. handler'[d] = Arriving(r, LocalStatus(r))
      BY <1>2, <2>1 DEF Receive, ProtocolInv, ServerInv
    <3>3. handler'[d].pc # "idle" /\ handler'[d].req = r /\ handler'[d].since = Height
      BY <3>2 DEF Arriving
    <3>4. r = EnvRequest(i, k.boot) /\ k.since <= Height
      BY <1>1, <1>3, <1>8 DEF RequestOf, ClientInv
    <3> QED BY <1>8, <2>1, <3>1, <3>3, <3>4 DEF Joined
  <2>2. CASE d # s
    <3>1. conn'[d] = conn[d] /\ handler'[d] = handler[d]
      BY <1>2, <2>2 DEF ProtocolInv, ServerInv, Receive
    <3>2. conn[d] \in Instances /\ conn[d] # i
      BY <1>1, <1>3, <1>13, <3>1, Unconnected DEF ProtocolInv
    <3>3. client'[conn[d]] = client[conn[d]]
      BY <1>11, <3>2
    <3> QED BY <1>13, <3>1, <3>3 DEF ProtocolInv, ConnInv
  <2> QED BY <2>1, <2>2
<1>14. ConnInv'
  BY <1>13 DEF ConnInv
<1> QED BY <1>5, <1>6, <1>11, <1>12, <1>14, ProtocolSuffices

(* What the slot a client is joined to answers 200 with is the client's    *)
(* own app's release, since the call began.                                *)
LEMMA AnswerIsOwn ==
    ASSUME ProtocolInv, NEW i \in Instances, NEW s \in Callers, conn[s] = i, Answered(s, 200)
    PROVE  Delivered(i, handler[s].release, client[i].since)
<1> DEFINE c   == client[i]
           h   == handler[s]
           app == Machine[i].instance
<1>1. Joined(s, i, c, h) /\ ClientInv(i, c)
  BY ProtocolAssumption DEF ProtocolInv, ConnInv
<1>2. /\ h.req \in Requests /\ h.since \in 1..Height /\ LocalStatus(h.req) = 200
      /\ ReadSince(AppOf(h.req), h.release, h.since)
      /\ ReleaseStatus(h.req, ReleaseAt(AppOf(h.req), h.release)) = 200
  BY GrantedSlot DEF ProtocolInv
<1>3. /\ c.since \in 1..Height /\ c.since <= h.since /\ c.boot \in 1..MaxBoots
      /\ h.req = EnvRequest(i, c.boot) /\ Height \in Nat
  BY <1>1 DEF Joined, ClientInv, ProtocolInv, ServerInv, IInv, FetchTypeOK, Height
<1>4. AppOf(h.req) = app /\ h.req.evidence.container = Machine[i].container
  BY <1>3, RequestIsOwn
<1>5. app \in Apps
  BY <1>2, <1>4, AppIsKnown
<1>6. ReadSince(app, h.release, c.since)
  <2>1. Window(h.since) \subseteq Window(c.since)
    BY <1>2, <1>3, WindowNarrows
  <2> QED BY <1>2, <1>4, <2>1 DEF ReadSince
<1>7. /\ ReleaseAt(app, h.release).digests = <<Machine[i].container>>
      /\ ReleaseAt(app, h.release).sealedFor = app
  BY <1>2, <1>4 DEF ReleaseStatus, CheckAuthorization
<1> QED BY <1>5, <1>6, <1>7 DEF Delivered

(* A handler that returns disturbs nothing once its connection is closed.  *)
LEMMA FinishedSlots ==
    ASSUME ProtocolInv, NEW s \in Callers, Finish(s)
    PROVE  \A d \in Callers \ {s} : handler'[d] = handler[d]
BY DEF Finish, ProtocolInv, ServerInv

LEMMA ReceiveResponsePreserves ==
    ASSUME ProtocolInv, UNCHANGED debug, NEW i \in Instances, ReceiveResponse(i)
    PROVE  ProtocolInv'
<1>1. PICK c \in ClientState : c = client[i]
  BY DEF ProtocolInv
<1> DEFINE s == c.slot
           h == handler[s]
<1>2. /\ c.pc = "waiting" /\ ClientInv(i, c) /\ s \in Callers
      /\ conn[s] = i /\ Finish(s) /\ conn' = [conn EXCEPT ![s] = NoClient]
      /\ tokens' = tokens
  BY <1>1 DEF ReceiveResponse, ProtocolInv, ClientInv
<1>3. h \in HandlerStates(HandlerPhase) /\ h.pc = "reply"
  BY <1>2 DEF Finish, ProtocolInv, ServerInv
<1> HIDE DEF h
<1>4. PICK k \in ClientState : ClientInv(i, k) /\ client' = [client EXCEPT ![i] = k]
  <2>1. CASE h.status = 200 /\ client' = [client EXCEPT ![i].pc = "posting", ![i].slot = "none",
                                                        ![i].env = h.release]
    <3> DEFINE k == [c EXCEPT !.pc = "posting", !.slot = "none", !.env = h.release]
    <3>1. /\ k \in ClientState /\ k.pc = "posting" /\ k.boot = c.boot /\ k.env = h.release
          /\ k.since = c.since /\ k.previous = c.previous
      BY <1>3 DEF ClientState, ClientPhase, HandlerStates
    <3>2. client' = [client EXCEPT ![i] = k]
      <4>1. PICK pos \in Position : pos = h.release
        BY <1>3 DEF HandlerStates
      <4>2. client' = [client EXCEPT ![i].pc = "posting", ![i].slot = "none", ![i].env = pos]
        BY <2>1, <4>1
      <4>3. k = [c EXCEPT !.pc = "posting", !.slot = "none", !.env = pos]
        BY <4>1
      <4> HIDE DEF k
      <4> QED BY <1>1, <4>2, <4>3
    <3>3. Delivered(i, h.release, c.since)
      BY <1>1, <1>2, <1>3, <2>1, AnswerIsOwn DEF Answered, h
    <3> HIDE DEF k
    <3>4. ClientInv(i, k)
      BY <1>2, <3>1, <3>3 DEF ClientInv
    <3> QED BY <3>1, <3>2, <3>4
  <2>2. CASE Fails(i, "address")
    <3> DEFINE k == [c EXCEPT !.pc = "failed", !.outcome = "address", !.slot = "none"]
    <3>1. /\ k \in ClientState /\ k.pc = "failed" /\ k.boot = c.boot
          /\ k.since = c.since /\ k.previous = c.previous
      BY DEF ClientState, ClientPhase, Outcome
    <3>2. client' = [client EXCEPT ![i] = k]
      BY <1>1, <2>2 DEF Fails
    <3> HIDE DEF k
    <3>3. ClientInv(i, k)
      BY <1>2, <3>1 DEF ClientInv
    <3> QED BY <3>1, <3>2, <3>3
  <2>3. CASE RetryOrGiveUp(i, c.tries, h.fault)
    <3> DEFINE k == Retrying(client[i], c.tries, h.fault)
    <3>1. client' = [client EXCEPT ![i] = k]
      BY <2>3 DEF RetryOrGiveUp, Retrying
    <3>2. k \in ClientState /\ ClientInv(i, k)
      <4>1. c.tries \in 0..MaxTries /\ h.fault \in BOOLEAN /\ client[i].pc # "off"
        BY <1>1, <1>2, <1>3 DEF ClientState, HandlerStates
      <4> QED BY <4>1, RetryingIsGood
    <3> QED BY <3>1, <3>2
  <2>4. CASE client' = [client EXCEPT ![i].pc = "failed", ![i].slot = "none",
                                      ![i].outcome = "refused", ![i].fault = @ \/ h.fault]
    <3> DEFINE k == [c EXCEPT !.pc = "failed", !.slot = "none", !.outcome = "refused",
                              !.fault = @ \/ h.fault]
    <3>1. /\ k \in ClientState /\ k.pc = "failed" /\ k.boot = c.boot
          /\ k.since = c.since /\ k.previous = c.previous
      BY DEF ClientState, ClientPhase, Outcome
    <3>2. client' = [client EXCEPT ![i] = k]
      BY <1>1, <2>4
    <3> HIDE DEF k
    <3>3. ClientInv(i, k)
      BY <1>2, <3>1 DEF ClientInv
    <3> QED BY <3>1, <3>2, <3>3
  <2> QED BY <1>1, <2>1, <2>2, <2>3, <2>4 DEF ReceiveResponse, h
<1>5. ServerInv' /\ UNCHANGED <<chain, debug>>
  BY <1>2, FinishPreserves DEF ProtocolInv, Finish
<1>6. Grows
  BY <1>5 DEF Grows, ProtocolInv, ServerInv, IInv, FetchTypeOK, Height
<1>7. /\ client' \in [Instances -> ClientState]
      /\ \A j \in Instances : client'[j] = IF j = i THEN k ELSE client[j]
      /\ \A j \in Instances : ClientInv(j, client'[j])
  BY <1>4 DEF ProtocolInv
<1>8. conn' \in [Callers -> Instances \cup {NoClient}]
  BY <1>2 DEF ProtocolInv
<1>9. ASSUME NEW d \in Callers, conn'[d] # NoClient
      PROVE  Joined(d, conn'[d], client'[conn'[d]], handler'[d])
  <2>1. d # s /\ conn'[d] = conn[d]
    BY <1>2, <1>9 DEF ProtocolInv
  <2>2. handler'[d] = handler[d]
    BY <1>2, <2>1, FinishedSlots
  <2>3. conn[d] \in Instances /\ Joined(d, conn[d], client[conn[d]], handler[d])
    BY <1>9, <2>1 DEF ProtocolInv, ConnInv
  <2>4. conn[d] # i
    BY <1>1, <2>1, <2>3 DEF Joined
  <2> QED BY <1>7, <2>1, <2>2, <2>3, <2>4
<1>10. ConnInv'
  BY <1>9 DEF ConnInv
<1> QED BY <1>2, <1>5, <1>6, <1>7, <1>8, <1>10, ProtocolSuffices DEF ProtocolInv
-----------------------------------------------------------------------------
(* A handler's step keeps the request it serves. *)
LEMMA HandlerStepKeeps ==
    ASSUME ServerInv, NEW s \in Callers, HandlerStep(s)
    PROVE  /\ UNCHANGED chain
           /\ handler[s].pc # "idle" /\ handler'[s].pc # "idle"
           /\ handler'[s].req = handler[s].req /\ handler'[s].since = handler[s].since
           /\ \A d \in Callers \ {s} : handler'[d] = handler[d]
<1>1. PICK h \in HandlerStates(HandlerPhase) : h = handler[s]
  BY DEF ServerInv
<1>2. CASE UNCHANGED chain /\ h.pc # "idle"
           /\ \/ handler' = handler
              \/ \E pc \in HandlerPhase \ {"idle"} : Goto(s, pc)
              \/ \E status \in Nat : Respond(s, status) \/ RespondFault(s, status)
              \/ \E pos \in Position : handler' = [handler EXCEPT ![s] = Decrypting(@, pos)]
  BY <1>1, <1>2 DEF Goto, Respond, RespondFault, Answering, Decrypting, HandlerStates,
                    HandlerPhase, ServerInv
<1>3. CASE CheckImage(s)
  BY <1>1, <1>2, <1>3 DEF CheckImage, GetLatestRelease, HandlerPhase
<1>4. CASE VerifyFirmware(s)
  BY <1>1, <1>2, <1>4 DEF VerifyFirmware, HandlerPhase
<1>5. CASE CheckTCB(s)
  BY <1>1, <1>2, <1>5 DEF CheckTCB, GetLatestRelease, HandlerPhase
<1>6. CASE PolicyError(s)
  BY <1>1, <1>2, <1>6 DEF PolicyError
<1>7. CASE FetchRelease(s)
  BY <1>1, <1>2, <1>7 DEF FetchRelease, FetchStep, FetchBlockNumber, FetchEvents, FetchError,
                          ServerInv, HandlerInv
<1>8. CASE Authorize(s)
  <2>1. fetch[s].release \in Position
    BY DEF ServerInv, IInv, FetchTypeOK, FetchState
  <2>2. \A r, release : ReleaseStatus(r, release) \in Nat
    BY DEF ReleaseStatus
  <2> QED BY <1>1, <1>2, <1>8, <2>1, <2>2 DEF Authorize, FetchReturn
<1>9. CASE DecryptEnv(s)
  <2>1. \A r, release : SecretsStatus(r, release) \in Nat
    BY DEF SecretsStatus, DecryptStatus
  <2> QED BY <1>1, <1>2, <1>9, <2>1 DEF DecryptEnv, HandlerPhase
<1>10. CASE DeriveMnemonic(s)
  BY <1>1, <1>2, <1>10 DEF DeriveMnemonic, HandlerPhase
<1>11. CASE SignResponse(s)
  BY <1>1, <1>2, <1>11 DEF SignResponse
<1>12. CASE KmsError(s)
  BY <1>1, <1>2, <1>12 DEF KmsError
<1> QED BY <1>3, <1>4, <1>5, <1>6, <1>7, <1>8, <1>9, <1>10, <1>11, <1>12 DEF HandlerStep

LEMMA ServerStepPreserves ==
    ASSUME ProtocolInv, UNCHANGED debug, NEW s \in Callers, ServerStep(s)
    PROVE  ProtocolInv'
<1>1. ServerInv'
  BY CheckImagePreserves, VerifyFirmwarePreserves, CheckTCBPreserves, FetchReleasePreserves,
     AuthorizePreserves, DecryptEnvPreserves, OtherStepsPreserve
     DEF ServerStep, HandlerStep, ProtocolInv
<1>2. /\ UNCHANGED chain
      /\ \A d \in Callers : conn[d] # NoClient =>
            /\ handler'[d].pc # "idle"
            /\ handler'[d].req = handler[d].req /\ handler'[d].since = handler[d].since
  BY HandlerStepKeeps DEF ServerStep, ProtocolInv, ConnInv, Joined
<1>3. Grows
  BY <1>2 DEF Grows, ProtocolInv, ServerInv, IInv, FetchTypeOK, Height
<1> QED BY <1>1, <1>2, <1>3, ServerSuffices DEF ServerStep

LEMMA DropResponsePreserves ==
    ASSUME ProtocolInv, UNCHANGED debug, NEW s \in Callers, DropResponse(s)
    PROVE  ProtocolInv'
<1>1. ServerInv' /\ UNCHANGED chain
  BY FinishPreserves DEF DropResponse, Finish, ProtocolInv
<1>2. Grows
  BY <1>1 DEF Grows, ProtocolInv, ServerInv, IInv, FetchTypeOK, Height
<1>3. \A d \in Callers : conn[d] # NoClient => d # s /\ handler'[d] = handler[d]
  BY FinishedSlots DEF DropResponse
<1>4. \A d \in Callers : conn[d] # NoClient => handler'[d].pc # "idle"
  BY <1>3 DEF ProtocolInv, ConnInv, Joined
<1> QED BY <1>1, <1>2, <1>3, <1>4, ServerSuffices DEF DropResponse

LEMMA ProtocolMineBlockPreserves ==
    ASSUME ProtocolInv, MineBlock, UNCHANGED <<fetchVars, handler, clientVars, debug>>
    PROVE  ProtocolInv'
<1>1. ServerInv'
  BY ServerMineBlockPreserves DEF ProtocolInv
<1>2. Grows
  BY MineBlockAppends DEF Grows, ProtocolInv, ServerInv, IInv, FetchTypeOK, Height
<1>3. \A s \in Callers : conn[s] # NoClient => handler[s].pc # "idle"
  BY DEF ProtocolInv, ConnInv, Joined
<1> QED BY <1>1, <1>2, <1>3, ServerSuffices

LEMMA RefillPreserves ==
    ASSUME ProtocolInv, UNCHANGED debug, NEW i \in Instances, Refill(i)
    PROVE  ProtocolInv'
<1>1. UNCHANGED <<chain, client, conn, fetchVars, debug, handler>>
  BY DEF Refill
<1>2. ServerInv' /\ Grows
  BY <1>1, StutterPreservesServer
     DEF Grows, ProtocolInv, ServerInv, IInv, FetchTypeOK, Height
<1>3. tokens' \in [Instances -> 0..Burst]
  BY ProtocolAssumption DEF Refill, ProtocolInv
<1>4. ConnInv'
  BY <1>1 DEF ProtocolInv, ConnInv, Joined
<1> QED BY <1>1, <1>2, <1>3, <1>4, ProtocolSuffices DEF ProtocolInv

(* A crash leaves the clients' states as they are, with nobody to answer.  *)
LEMMA CrashPreserves ==
    ASSUME ProtocolInv, UNCHANGED debug, Crash
    PROVE  ProtocolInv'
<1>1. UNCHANGED <<chain, newest, client, debug>>
  BY DEF Crash
<1>2. /\ fetch' = [s \in Callers |-> NotFetching]
      /\ handler' = [s \in Callers |-> NotHandling]
      /\ conn' = [s \in Callers |-> NoClient]
      /\ tokens' = [i \in Instances |-> Burst]
  BY DEF Crash
<1>3. IInv'
  <2>1. NotFetching \in FetchState
    BY DEF NotFetching, FetchState, FetchPhase, NoRelease, Position
  <2>2. FetchTypeOK'
    BY <1>1, <1>2, <2>1 DEF ProtocolInv, ServerInv, IInv, FetchTypeOK, Height
  <2>3. StorageInv'
    BY <1>1 DEF ProtocolInv, ServerInv, IInv, StorageInv, Height
  <2>4. \A s \in Callers : FetchInv(fetch[s])'
    BY <1>2 DEF FetchInv, NotFetching
  <2>5. \A a \in Apps : KnownAt(newest[a], a, Height)'
    BY <1>1 DEF ProtocolInv, ServerInv, IInv, KnownAt, Height, NoRelease
  <2> QED BY <2>2, <2>3, <2>4, <2>5 DEF IInv
<1>4. ServerInv'
  <2>1. NotHandling \in HandlerStates(HandlerPhase)
    BY DEF NotHandling, HandlerStates, HandlerPhase, NoRelease, Position
  <2>2. handler' \in [Callers -> HandlerStates(HandlerPhase)] /\ debug' \in DebugModes
    BY <1>1, <1>2, <2>1 DEF ProtocolInv, ServerInv
  <2>3. ASSUME NEW s \in Callers
        PROVE  HandlerInv(handler[s], fetch[s])'
    <3>1. handler'[s] = NotHandling /\ fetch'[s] = NotFetching
      BY <1>2
    <3> QED BY <3>1 DEF HandlerInv, NotHandling, NotFetching, Granting, Refused
  <2> QED BY <1>3, <2>2, <2>3 DEF ServerInv
<1>5. Grows
  BY <1>1 DEF Grows, ProtocolInv, ServerInv, IInv, FetchTypeOK, Height
<1>6. /\ conn' \in [Callers -> Instances \cup {NoClient}] /\ ConnInv'
      /\ tokens' \in [Instances -> 0..Burst]
  BY <1>2, ProtocolAssumption DEF ConnInv
<1> QED BY <1>1, <1>4, <1>5, <1>6, ProtocolSuffices DEF ProtocolInv
-----------------------------------------------------------------------------
LEMMA ProtocolInitEstablishes == ProtocolInit => ProtocolInv
<1> SUFFICES ASSUME ProtocolInit PROVE ProtocolInv
  OBVIOUS
<1>1. ServerInv
  BY ServerInitEstablishes DEF ProtocolInit
<1>2. /\ client \in [Instances -> ClientState]
      /\ conn \in [Callers -> Instances \cup {NoClient}]
      /\ tokens \in [Instances -> 0..Burst]
  BY PoweredOffIsState, ProtocolAssumption DEF ProtocolInit
<1>3. \A i \in Instances : ClientInv(i, client[i])
  BY DEF ProtocolInit, ClientInv, PoweredOff
<1>4. ConnInv
  BY DEF ProtocolInit, ConnInv
<1> QED BY <1>1, <1>2, <1>3, <1>4 DEF ProtocolInv

LEMMA ProtocolStep == ProtocolInv /\ [ProtocolNext]_protocolVars => ProtocolInv'
<1> SUFFICES ASSUME ProtocolInv, [ProtocolNext]_protocolVars PROVE ProtocolInv'
  OBVIOUS
<1>1. CASE MineBlock /\ UNCHANGED <<fetchVars, handler, clientVars, debug>>
  BY <1>1, ProtocolMineBlockPreserves
<1>2. ASSUME NEW i \in Instances, UNCHANGED debug,
             GetEnv(i) \/ GetAttestation(i) \/ ClientStep(i) \/ Refill(i)
      PROVE  ProtocolInv'
  BY <1>2, GetEnvPreserves, AlonePreserves, SendRequestPreserves, AttemptLostPreserves,
     ReceiveResponsePreserves, RefillPreserves DEF ClientStep
<1>3. ASSUME NEW s \in Callers, UNCHANGED debug, ServerStep(s) \/ DropResponse(s)
      PROVE  ProtocolInv'
  BY <1>3, ServerStepPreserves, DropResponsePreserves
<1>4. CASE Crash /\ UNCHANGED debug
  BY <1>4, CrashPreserves
<1>5. CASE UNCHANGED protocolVars
  <2>1. UNCHANGED <<chain, fetchVars, debug, handler>> /\ UNCHANGED clientVars
    BY <1>5 DEF protocolVars, fetchVars, clientVars
  <2>2. ServerInv' /\ Grows
    BY <2>1, StutterPreservesServer
       DEF Grows, ProtocolInv, ServerInv, IInv, FetchTypeOK, Height
  <2>3. \A s \in Callers : conn[s] # NoClient => handler[s].pc # "idle"
    BY DEF ProtocolInv, ConnInv, Joined
  <2> QED BY <2>1, <2>2, <2>3, ServerSuffices
<1> QED BY <1>1, <1>2, <1>3, <1>4, <1>5 DEF ProtocolNext

(* ProtocolInv is inductive. *)
THEOREM ProtocolInvariance == ProtocolSpec => []ProtocolInv
BY ProtocolInitEstablishes, ProtocolStep, PTL DEF ProtocolSpec

(* Every reachable state of clients and server is well typed. *)
THEOREM ProtocolTypeCorrect == ProtocolSpec => []ProtocolTypeOK
<1>1. ProtocolInv => ProtocolTypeOK
  BY DEF ProtocolInv, ProtocolTypeOK, ServerInv, IInv, ServerTypeOK
<1> QED BY <1>1, ProtocolInvariance, PTL

(* An instance starts its app with an env that was its own app's latest,   *)
(* for the image it runs, at some height of the call, whatever attempts    *)
(* were abandoned and however often the server crashed                     *)
(* (envclient.go:118-209, env.go:211-314).                                 *)
THEOREM AlwaysDeliversFresh == ProtocolSpec => []DeliveredEnvIsFresh
<1>1. ProtocolInv => DeliveredEnvIsFresh
  <2> SUFFICES ASSUME ProtocolInv, NEW i \in Instances, client[i].pc \in {"posting", "ok"}
               PROVE  /\ ReleaseAt(Machine[i].instance, client[i].env).digests
                            = <<Machine[i].container>>
                      /\ ReleaseAt(Machine[i].instance, client[i].env).sealedFor
                            = Machine[i].instance
                      /\ \E h \in Window(client[i].since) :
                            IsLatestAt(client[i].env, Machine[i].instance, h)
    BY DEF DeliveredEnvIsFresh
  <2> DEFINE app == Machine[i].instance
             pos == client[i].env
  <2>1. Delivered(i, pos, client[i].since)
    BY DEF ProtocolInv, ClientInv
  <2>2. PICK g \in Window(client[i].since) : ReadAt(app, pos, g)
    BY <2>1 DEF Delivered, ReadSince
  <2>3. g \in 1..Height /\ pos = LastUpgrade(app, chain[g].latest[app])
        /\ chain[g].latest[app] # 0 /\ app \in Apps
    BY <2>1, <2>2 DEF Window, ReadAt, Delivered
  <2>4. IsLatestAt(pos, app, g)
    BY <2>3, RecordedIsLatest DEF ProtocolInv, ServerInv, IInv
  <2> QED BY <2>1, <2>2, <2>4 DEF Delivered
<1> QED BY <1>1, ProtocolInvariance, PTL

(* What was read since a call began is not older than what was known then, *)
(* if no node lags.                                                        *)
LEMMA ReadIsNoOlder ==
    ASSUME FetchTypeOK, StorageInv, MaxLag = 0, NEW app \in Apps,
           NEW p \in Position, NEW q \in Position, NEW since \in 1..Height,
           ReadSince(app, p, since), KnownAt(q, app, since)
    PROVE  ~Before(p, q)
<1>1. PICK g \in Window(since) : ReadAt(app, p, g)
  BY DEF ReadSince
<1>2. g \in 1..Height /\ since <= g /\ Height \in Nat
  BY <1>1 DEF Window, FetchTypeOK, Height
<1>3. chain[since].latest[app] <= p.block /\ chain[since].latest[app] \in Nat
  BY <1>1, <1>2, LatestIsMonotonic DEF ReadAt, StorageInv
<1>4. p.block # 0 /\ p.logIndex = Len(chain[p.block].upgrades[app])
  BY <1>1 DEF ReadAt, LastUpgrade
<1>5. p.block \in Nat /\ p.logIndex \in Nat /\ q.block \in Nat /\ q.logIndex \in Nat
  BY DEF Position
<1>6. CASE q = NoRelease
  BY <1>4, <1>5, <1>6 DEF NoRelease, Before
<1>7. CASE q # NoRelease
  <2>1. q.block <= p.block /\ q.logIndex <= Len(chain[q.block].upgrades[app])
    BY <1>3, <1>5, <1>7 DEF KnownAt
  <2>2. q.block = p.block => q.logIndex <= p.logIndex
    BY <1>4, <2>1
  <2> QED BY <1>5, <2>1, <2>2 DEF Before
<1> QED BY <1>6, <1>7

(* With every node at the head a reboot never undoes a rollout (GetEnv,    *)
(* envclient.go:118-226, over chainclient.go:59-106).                      *)
THEOREM RebootIsMonotonic == ProtocolSpec => []RebootNeverGoesBack
<1>1. ProtocolInv => RebootNeverGoesBack
  <2> SUFFICES ASSUME ProtocolInv, MaxLag = 0,
                      NEW i \in Instances, client[i].pc \in {"posting", "ok"}
               PROVE  ~Before(client[i].env, client[i].previous)
    BY DEF RebootNeverGoesBack
  <2> DEFINE c   == client[i]
             app == Machine[i].instance
  <2>1. /\ Delivered(i, c.env, c.since) /\ HadBy(i, c.previous, c.since)
        /\ c.since \in 1..Height
    BY DEF ProtocolInv, ClientInv
  <2>2. c.env \in Position /\ c.previous \in Position
    BY DEF ProtocolInv, ClientState
  <2>3. app \in Apps /\ ReadSince(app, c.env, c.since) /\ KnownAt(c.previous, app, c.since)
    BY <2>1 DEF Delivered, HadBy, KnownAt
  <2> QED BY <2>1, <2>2, <2>3, ReadIsNoOlder DEF ProtocolInv, ServerInv, IInv
<1> QED BY <1>1, ProtocolInvariance, PTL

(* Nor does any other read of the chain that follows one that has ended,   *)
(* whether its client waits for it, has given up on it, or the server      *)
(* crashed in between (chainclient.go:59-106).                             *)
THEOREM ReadsAlwaysInOrder == ProtocolSpec => []ReadsNeverGoBack
<1>1. ProtocolInv => IInv
  BY DEF ProtocolInv, ServerInv
<1> QED BY <1>1, ReadsAreOrdered, ProtocolInvariance, PTL

-----------------------------------------------------------------------------
(* What a step must do to the client it changes. *)
RunsDown(c, k) == k.boot # c.boot \/ StepsLeft(k) \in 0..(StepsLeft(c) - 1)

LEMMA StepsLeftAre ==
    ASSUME NEW k \in ClientState
    PROVE  /\ StepsLeft(k) \in Nat
           /\ k.pc = "attest" => StepsLeft(k) = 2 * MaxTries + 2
           /\ k.pc = "send" => StepsLeft(k) = 2 * (MaxTries - k.tries) + 1
           /\ k.pc = "waiting" => StepsLeft(k) = 2 * (MaxTries - k.tries) + 2
           /\ k.pc = "posting" => StepsLeft(k) = 1
           /\ k.pc \in {"off", "ok", "failed"} => StepsLeft(k) = 0
<1>1. MaxTries \in Nat /\ k.tries \in 0..MaxTries
  BY ProtocolAssumption DEF ClientState
<1> QED BY <1>1 DEF StepsLeft

(* ... which is enough if it changes no other. *)
LEMMA RunDownSuffices ==
    ASSUME ProtocolInv, NEW i \in Instances, NEW k, client' = [client EXCEPT ![i] = k],
           RunsDown(client[i], k)
    PROVE  \A j \in Instances :
              \/ UNCHANGED client[j]
              \/ client'[j].boot # client[j].boot
              \/ StepsLeft(client'[j]) \in 0..(StepsLeft(client[j]) - 1)
<1>1. \A j \in Instances : client'[j] = IF j = i THEN k ELSE client[j]
  BY DEF ProtocolInv
<1> QED BY <1>1 DEF RunsDown

(* A step to a state that ends the boot, or ends it but for one step.  *)
LEMMA EndingRunsDown ==
    ASSUME NEW c \in ClientState, NEW k \in ClientState,
           \/ c.pc \in {"attest", "send", "waiting"} /\ k.pc \in {"failed", "ok"}
           \/ c.pc = "waiting" /\ k.pc = "posting"
           \/ c.pc = "posting" /\ k.pc = "ok"
    PROVE  RunsDown(c, k)
<1>1. MaxTries \in Nat /\ c.tries \in 0..MaxTries
  BY ProtocolAssumption DEF ClientState
<1> QED BY <1>1, StepsLeftAre DEF RunsDown

(* A retry uses up the attempt before it. *)
LEMMA RetryingRunsDown ==
    ASSUME NEW c \in ClientState, NEW tries \in 0..MaxTries, NEW fault \in BOOLEAN,
           \/ c.pc = "waiting" /\ tries = c.tries
           \/ c.pc = "send" /\ tries = c.tries + 1
    PROVE  RunsDown(c, Retrying(c, tries, fault))
<1> DEFINE k == Retrying(c, tries, fault)
<1>1. /\ k \in ClientState /\ k.tries = tries
      /\ k.pc = IF tries < MaxTries THEN "send" ELSE "failed"
  BY DEF Retrying, ClientState, ClientPhase, Outcome
<1> HIDE DEF k
<1>2. MaxTries \in Nat /\ c.tries \in 0..MaxTries
  BY ProtocolAssumption DEF ClientState
<1>3. k.pc = "failed" => RunsDown(c, k)
  BY <1>1, EndingRunsDown
<1>4. k.pc = "send" => RunsDown(c, k)
  BY <1>1, <1>2, StepsLeftAre DEF RunsDown
<1> QED BY <1>1, <1>3, <1>4 DEF k

LEMMA SendRequestRunsDown ==
    ASSUME ProtocolInv, NEW i \in Instances, SendRequest(i)
    PROVE  \E k : client' = [client EXCEPT ![i] = k] /\ RunsDown(client[i], k)
<1>1. PICK c \in ClientState : c = client[i]
  BY DEF ProtocolInv
<1>2. ClientInv(i, c) /\ MaxTries \in Nat /\ c.tries \in 0..MaxTries /\ c.pc = "send"
  BY <1>1, ProtocolAssumption DEF SendRequest, ProtocolInv, ClientState
<1>3. PICK s \in Callers :
         /\ Receive(s, RequestOf(i))
         /\ conn' = [conn EXCEPT ![s] = i]
         /\ client' = [client EXCEPT ![i].pc = "waiting", ![i].slot = s, ![i].tries = @ + 1]
  BY Zenon DEF SendRequest
<1> DEFINE k == [c EXCEPT !.pc = "waiting", !.slot = s, !.tries = c.tries + 1]
<1>4. client' = [client EXCEPT ![i] = k]
  BY <1>1, <1>3
<1>5. k \in ClientState /\ k.pc = "waiting" /\ k.tries = c.tries + 1
  <2>1. c.tries + 1 \in 0..MaxTries
    BY <1>2 DEF ClientInv
  <2> QED BY <2>1 DEF ClientState, ClientPhase
<1> HIDE DEF k
<1>6. RunsDown(c, k)
  BY <1>2, <1>5, StepsLeftAre DEF RunsDown
<1> QED BY <1>1, <1>4, <1>6

LEMMA AloneRunsDown ==
    ASSUME ProtocolInv, NEW i \in Instances,
           \/ GetEnv(i) \/ GetAttestation(i) \/ SendRequest(i) \/ RateLimited(i)
           \/ ConnectError(i) \/ AttemptLost(i) \/ PostAttestation(i)
    PROVE  \E k : client' = [client EXCEPT ![i] = k] /\ RunsDown(client[i], k)
<1>1. PICK c \in ClientState : c = client[i]
  BY DEF ProtocolInv
<1>2. ClientInv(i, c) /\ MaxTries \in Nat /\ c.tries \in 0..MaxTries
  BY <1>1, ProtocolAssumption DEF ProtocolInv, ClientState
<1>3. CASE GetEnv(i)
  <2>1. PICK k : client' = [client EXCEPT ![i] = k] /\ k.boot = c.boot + 1
    <3> DEFINE previous == IF c.pc = "ok" THEN c.env ELSE c.previous
               k == [PoweredOff EXCEPT !.pc = "attest", !.boot = c.boot + 1,
                                       !.since = Height, !.previous = previous]
    <3>1. client' = [client EXCEPT ![i] = k]
      BY <1>1, <1>3 DEF GetEnv
    <3>2. k.boot = c.boot + 1
      BY DEF PoweredOff
    <3> HIDE DEF k
    <3> QED BY <3>1, <3>2
  <2>2. c.boot \in Nat
    BY ProtocolAssumption DEF ClientState
  <2>3. RunsDown(c, k)
    BY <2>1, <2>2 DEF RunsDown
  <2> QED BY <1>1, <2>1, <2>3
<1>4. CASE GetAttestation(i)
  <2> DEFINE k == [c EXCEPT !.pc = "send"]
             d == [c EXCEPT !.pc = "failed", !.fault = TRUE, !.outcome = "attestation"]
  <2>1. c.pc = "attest" /\ (client' = [client EXCEPT ![i] = k]
                              \/ client' = [client EXCEPT ![i] = d])
    BY <1>1, <1>4 DEF GetAttestation
  <2>2. /\ k \in ClientState /\ k.pc = "send" /\ k.tries = c.tries
        /\ d \in ClientState /\ d.pc = "failed"
    BY DEF ClientState, ClientPhase, Outcome
  <2> HIDE DEF k, d
  <2>3. RunsDown(c, k)
    BY <1>2, <2>1, <2>2, StepsLeftAre DEF RunsDown
  <2> QED BY <1>1, <2>1, <2>2, <2>3, EndingRunsDown
<1>5. CASE SendRequest(i)
  BY <1>5, SendRequestRunsDown
<1>6. CASE RateLimited(i)
  <2> DEFINE k == [c EXCEPT !.pc = "failed", !.fault = TRUE, !.outcome = "refused"]
  <2>1. c.pc = "send" /\ client' = [client EXCEPT ![i] = k]
    BY <1>1, <1>6 DEF RateLimited
  <2>2. k \in ClientState /\ k.pc = "failed"
    BY DEF ClientState, ClientPhase, Outcome
  <2> HIDE DEF k
  <2> QED BY <1>1, <2>1, <2>2, EndingRunsDown
<1>7. CASE ConnectError(i) \/ AttemptLost(i)
  <2>1. PICK tries \in {c.tries, c.tries + 1} :
           /\ RetryOrGiveUp(i, tries, TRUE)
           /\ \/ c.pc = "waiting" /\ tries = c.tries
              \/ c.pc = "send" /\ tries = c.tries + 1
    <3>1. CASE ConnectError(i)
      BY <1>1, <3>1 DEF ConnectError
    <3>2. CASE AttemptLost(i)
      BY <1>1, <3>2 DEF AttemptLost
    <3> QED BY <1>7, <3>1, <3>2
  <2>2. tries \in 0..MaxTries
    BY <1>2, <2>1 DEF ClientInv
  <2>3. client' = [client EXCEPT ![i] = Retrying(c, tries, TRUE)]
    BY <1>1, <2>1 DEF RetryOrGiveUp, Retrying
  <2> QED BY <1>1, <2>1, <2>2, <2>3, RetryingRunsDown
<1>8. CASE PostAttestation(i)
  <2> DEFINE k == [c EXCEPT !.pc = "ok"]
  <2>1. c.pc = "posting" /\ client' = [client EXCEPT ![i] = k]
    BY <1>1, <1>8 DEF PostAttestation
  <2>2. k \in ClientState /\ k.pc = "ok"
    BY DEF ClientState, ClientPhase
  <2> HIDE DEF k
  <2> QED BY <1>1, <2>1, <2>2, EndingRunsDown
<1> QED BY <1>3, <1>4, <1>5, <1>6, <1>7, <1>8

LEMMA AnswerRunsDown ==
    ASSUME ProtocolInv, NEW i \in Instances, ReceiveResponse(i)
    PROVE  \E k : client' = [client EXCEPT ![i] = k] /\ RunsDown(client[i], k)
<1>1. PICK c \in ClientState : c = client[i]
  BY DEF ProtocolInv
<1>2. PICK h \in HandlerStates(HandlerPhase) : h = handler[c.slot] /\ c.pc = "waiting"
  BY <1>1 DEF ReceiveResponse, ProtocolInv, ClientInv, ServerInv
<1>3. PICK pos \in Position, fault \in BOOLEAN : pos = h.release /\ fault = h.fault
  BY DEF HandlerStates
<1>4. CASE client' = [client EXCEPT ![i].pc = "posting", ![i].slot = "none", ![i].env = pos]
  <2> DEFINE k == [c EXCEPT !.pc = "posting", !.slot = "none", !.env = pos]
  <2>1. client' = [client EXCEPT ![i] = k] /\ k \in ClientState /\ k.pc = "posting"
    BY <1>1, <1>4 DEF ClientState, ClientPhase
  <2> HIDE DEF k
  <2> QED BY <1>1, <1>2, <2>1, EndingRunsDown
<1>5. CASE Fails(i, "address")
  <2> DEFINE k == [c EXCEPT !.pc = "failed", !.outcome = "address", !.slot = "none"]
  <2>1. client' = [client EXCEPT ![i] = k] /\ k \in ClientState /\ k.pc = "failed"
    BY <1>1, <1>5 DEF Fails, ClientState, ClientPhase, Outcome
  <2> HIDE DEF k
  <2> QED BY <1>1, <1>2, <2>1, EndingRunsDown
<1>6. CASE RetryOrGiveUp(i, c.tries, fault)
  <2>1. client' = [client EXCEPT ![i] = Retrying(c, c.tries, fault)] /\ c.tries \in 0..MaxTries
    BY <1>1, <1>6 DEF RetryOrGiveUp, Retrying, ClientState
  <2> QED BY <1>1, <1>2, <2>1, RetryingRunsDown
<1>7. CASE client' = [client EXCEPT ![i].pc = "failed", ![i].slot = "none",
                                    ![i].outcome = "refused", ![i].fault = @ \/ fault]
  <2> DEFINE k == [c EXCEPT !.pc = "failed", !.slot = "none", !.outcome = "refused",
                            !.fault = @ \/ fault]
  <2>1. client' = [client EXCEPT ![i] = k] /\ k \in ClientState /\ k.pc = "failed"
    BY <1>1, <1>7 DEF ClientState, ClientPhase, Outcome
  <2> HIDE DEF k
  <2> QED BY <1>1, <1>2, <2>1, EndingRunsDown
<1> QED BY <1>1, <1>2, <1>3, <1>4, <1>5, <1>6, <1>7 DEF ReceiveResponse

(* For any number of retries: no step of GetEnv is repeated for ever, for  *)
(* each leaves fewer of them to come; this is all GetEnvReturns needs but  *)
(* the fairness (envclient.go:211-226).                                    *)
THEOREM GetEnvAlwaysRunsDown == ProtocolSpec => GetEnvRunsDown
<1>1. ProtocolInv /\ [ProtocolNext]_protocolVars =>
         [\A i \in Instances :
             \/ UNCHANGED client[i]
             \/ client'[i].boot # client[i].boot
             \/ StepsLeft(client'[i]) \in 0..(StepsLeft(client[i]) - 1)]_protocolVars
  <2> SUFFICES ASSUME ProtocolInv, ProtocolNext, client' # client
               PROVE  \A i \in Instances :
                         \/ UNCHANGED client[i]
                         \/ client'[i].boot # client[i].boot
                         \/ StepsLeft(client'[i]) \in 0..(StepsLeft(client[i]) - 1)
    OBVIOUS
  <2>1. PICK i \in Instances : GetEnv(i) \/ GetAttestation(i) \/ ClientStep(i)
    BY DEF ProtocolNext, Refill, ServerStep, DropResponse, Crash, clientVars
  <2>2. PICK k : client' = [client EXCEPT ![i] = k] /\ RunsDown(client[i], k)
    BY <2>1, AloneRunsDown, AnswerRunsDown DEF ClientStep
  <2> QED BY <2>2, RunDownSuffices
<1> QED BY <1>1, ProtocolInvariance, PTL DEF ProtocolSpec, GetEnvRunsDown

-----------------------------------------------------------------------------
(* Who is to blame for a call that fails.  If no node lags, a release read *)
(* that finds nothing it can use, an answer 500 no remote call is to blame *)
(* for, and a GetEnv that gives up have their cause on the chain too.      *)
UselessAt(app, g) == chain[g].latest[app] = 0 \/ ~Usable(LastRelease(app, g))

FetchExcused(f) == f.pc = "failed" => \E g \in Window(f.since) : UselessAt(f.app, g)

AnswerExcused(h) ==
    h.pc = "reply" /\ h.status = 500 /\ ~h.fault => NotEntitledSince(h.req, h.since)

CallExcused(i, k) ==
    k.pc = "failed" /\ ~k.fault =>
        k.outcome = "address" \/ NotEntitledSince(EnvRequest(i, k.boot), k.since)

AccessInv ==
    /\ ProtocolInv
    /\ MaxLag = 0 => /\ \A s \in Callers : FetchExcused(fetch[s]) /\ AnswerExcused(handler[s])
                     /\ \A i \in Instances : CallExcused(i, client[i])

(* The excuses stay good as the chain grows. *)
LEMMA NotEntitledForGood ==
    ASSUME StorageInv, Grows, NEW r \in Requests, NEW since \in Nat, NotEntitledSince(r, since)
    PROVE  NotEntitledSince(r, since)'
<1>1. LocalStatus(r)' = LocalStatus(r)
  BY DEF Grows, LocalStatus, Attested, OverrideRefused, HostAccepted
<1>2. CASE LocalStatus(r) = 200
  <2>1. PICK g \in Window(since) : ~EntitledAt(r, g)
    BY <1>2 DEF NotEntitledSince
  <2>2. g \in 1..Height /\ g \in Window(since)'
    BY <2>1 DEF Window, Grows
  <2>3. ~EntitledAt(r, g)'
    BY <1>2, <2>1, <2>2, EntitledForGood
  <2> QED BY <2>2, <2>3 DEF NotEntitledSince
<1> QED BY <1>1, <1>2 DEF NotEntitledSince

LEMMA UselessForGood ==
    ASSUME StorageInv, Grows, NEW app \in Apps, NEW g \in 1..Height, UselessAt(app, g)
    PROVE  UselessAt(app, g)'
<1> DEFINE b == chain[g].latest[app]
<1>1. chain'[g] = chain[g] /\ b \in 0..g
  BY DEF Grows, StorageInv
<1>2. b # 0 => chain'[b] = chain[b]
  BY <1>1 DEF Grows
<1>3. b # 0 => LastRelease(app, g)' = LastRelease(app, g)
  BY <1>1, <1>2 DEF LastRelease
<1> QED BY <1>1, <1>3 DEF UselessAt

(* A step is right if all it changes is excused. *)
LEMMA ExcusesSuffice ==
    ASSUME AccessInv, ProtocolInv', Grows,
           MaxLag = 0 => /\ \A s \in Callers : fetch'[s] = fetch[s] \/ FetchExcused(fetch'[s])
                         /\ \A s \in Callers : handler'[s] = handler[s] \/ AnswerExcused(handler'[s])
                         /\ \A i \in Instances : client'[i] = client[i] \/ CallExcused(i, client'[i])
    PROVE  AccessInv'
<1> SUFFICES ASSUME MaxLag = 0
             PROVE  /\ \A s \in Callers : FetchExcused(fetch[s])' /\ AnswerExcused(handler[s])'
                    /\ \A i \in Instances : CallExcused(i, client[i])'
  BY DEF AccessInv
<1>1. StorageInv
  BY DEF AccessInv, ProtocolInv, ServerInv, IInv
<1>2. ASSUME NEW s \in Callers
      PROVE  FetchExcused(fetch[s])'
  <2>1. PICK f \in FetchState : f = fetch'[s]
    BY DEF ProtocolInv, ServerInv, IInv, FetchTypeOK
  <2>2. FetchExcused(f)
    BY <2>1 DEF AccessInv
  <2>3. SUFFICES ASSUME f.pc = "failed" PROVE (\E g \in Window(f.since) : UselessAt(f.app, g))'
    BY <2>1 DEF FetchExcused
  <2>4. f.app \in Apps /\ f.since \in Nat
    <3>1. FetchInv(fetch[s])'
      BY DEF ProtocolInv, ServerInv, IInv
    <3> QED BY <2>1, <2>3, <3>1 DEF FetchInv, FetchState
  <2>5. PICK g \in Window(f.since) : UselessAt(f.app, g)
    BY <2>2, <2>3 DEF FetchExcused
  <2>6. g \in 1..Height /\ g \in Window(f.since)'
    BY <2>4, <2>5 DEF Window, Grows
  <2> QED BY <1>1, <2>4, <2>5, <2>6, UselessForGood
<1>3. ASSUME NEW s \in Callers
      PROVE  AnswerExcused(handler[s])'
  <2>1. PICK h \in HandlerStates(HandlerPhase) : h = handler'[s]
    BY DEF ProtocolInv, ServerInv
  <2>2. AnswerExcused(h)
    BY <2>1 DEF AccessInv
  <2>3. SUFFICES ASSUME h.pc = "reply", h.status = 500, ~h.fault
                 PROVE  NotEntitledSince(h.req, h.since)'
    BY <2>1 DEF AnswerExcused
  <2>4. h.req \in Requests /\ h.since \in Nat
    <3>1. HandlerInv(handler[s], fetch[s])'
      BY DEF ProtocolInv, ServerInv
    <3> QED BY <2>1, <2>3, <3>1 DEF HandlerInv, HandlerStates
  <2> QED BY <1>1, <2>2, <2>3, <2>4, NotEntitledForGood DEF AnswerExcused
<1>4. ASSUME NEW i \in Instances
      PROVE  CallExcused(i, client[i])'
  <2>1. PICK k \in ClientState : k = client'[i]
    BY DEF ProtocolInv
  <2>2. CallExcused(i, k)
    BY <2>1 DEF AccessInv
  <2>3. SUFFICES ASSUME k.pc = "failed", ~k.fault, k.outcome # "address"
                 PROVE  NotEntitledSince(EnvRequest(i, k.boot), k.since)'
    BY <2>1 DEF CallExcused
  <2>4. k.boot \in 1..MaxBoots /\ k.since \in Nat
    <3>1. ClientInv(i, client[i])'
      BY DEF ProtocolInv
    <3> QED BY <2>1, <2>3, <3>1 DEF ClientInv, ClientState
  <2>5. EnvRequest(i, k.boot) \in Requests
    BY <2>4, RequestIsOwn
  <2> QED BY <1>1, <2>2, <2>3, <2>4, <2>5, NotEntitledForGood DEF CallExcused
<1> QED BY <1>2, <1>3, <1>4

(* If no node lags, the second call of GetLatestRelease finds the events   *)
(* of the block the first one named: only the release can be at fault.     *)
LEMMA FetchEventsExcused ==
    ASSUME ServerInv, MaxLag = 0, NEW s \in Callers, FetchEvents(s)
    PROVE  FetchExcused(fetch'[s])
<1>1. PICK f \in FetchState : f = fetch[s]
  BY DEF ServerInv, IInv, FetchTypeOK
<1>2. /\ f.pc = "filter" /\ f.app \in Apps /\ f.since \in 1..Height /\ ReadInWindow(f, f.block)
      /\ FetchTypeOK /\ StorageInv /\ Height \in Nat
  BY <1>1 DEF FetchEvents, ServerInv, IInv, FetchInv, FetchTypeOK, Height
<1>3. PICK g \in Window(f.since) : chain[g].latest[f.app] = f.block
  BY <1>2 DEF ReadInWindow
<1> DEFINE b      == f.block
           events == FilterAppUpgraded(f.app, b, Height)
<1>4. g \in 1..Height /\ Height \in 1..Height /\ Views = {Height}
  BY <1>2, <1>3 DEF Window, Views
<1>5. \/ events # {} /\ Usable(ReleaseAt(f.app, LatestByLogIndex(events)))
         /\ fetch'[s].pc = "done"
      \/ /\ events = {} \/ ~Usable(ReleaseAt(f.app, LatestByLogIndex(events)))
         /\ fetch'[s].app = f.app /\ fetch'[s].since = f.since
  <2>1. fetch \in [Callers -> FetchState]
    BY DEF ServerInv, IInv, FetchTypeOK
  <2> HIDE DEF events
  <2>2. IF events # {} /\ Usable(ReleaseAt(f.app, LatestByLogIndex(events)))
          THEN fetch' = [fetch EXCEPT ![s].pc = "done", ![s].release = LatestByLogIndex(events)]
          ELSE fetch' = [fetch EXCEPT ![s].pc = "failed"]
    BY <1>1, <1>4 DEF FetchEvents, events
  <2>3. CASE events # {} /\ Usable(ReleaseAt(f.app, LatestByLogIndex(events)))
    BY <2>1, <2>2, <2>3 DEF FetchState
  <2>4. CASE ~(events # {} /\ Usable(ReleaseAt(f.app, LatestByLogIndex(events))))
    BY <1>1, <2>1, <2>2, <2>4 DEF FetchState
  <2> QED BY <2>3, <2>4
<1>6. CASE fetch'[s].pc = "done"
  BY <1>6 DEF FetchExcused
<1>7. CASE b = 0
  BY <1>3, <1>5, <1>6, <1>7 DEF FetchExcused, UselessAt
<1>8. CASE b # 0 /\ fetch'[s].pc # "done"
  <2>1. b \in 1..Height /\ chain[b].upgrades[f.app] # <<>>
        /\ Len(chain[b].upgrades[f.app]) <= MaxPerBlock
    BY <1>2, <1>3, <1>4, <1>8 DEF StorageInv
  <2>2. events # {}
    <3>1. chain[b] \in Block
      BY <1>2, <2>1 DEF FetchTypeOK, Height
    <3>2. chain[b].upgrades[f.app] \in Seq(Releases)
      BY <1>2, <3>1 DEF Block
    <3>3. 1 \in DOMAIN chain[b].upgrades[f.app] /\ 1 \in 1..MaxPerBlock
      BY <2>1, <3>2, ChainAssumption
    <3>4. [block |-> b, logIndex |-> 1] \in events
      BY <1>4, <2>1, <3>3 DEF FilterAppUpgraded
    <3> QED BY <3>4
  <2>3. LatestByLogIndex(events) = LastUpgrade(f.app, b)
    BY <1>2, <1>4, <2>1, <2>2, LoopReturnsLastUpgrade
  <2>4. ReleaseAt(f.app, LastUpgrade(f.app, b)) = LastRelease(f.app, g)
    BY <1>3, <1>8 DEF ReleaseAt, LastUpgrade, LastRelease
  <2>5. UselessAt(f.app, g)
    BY <1>5, <1>8, <2>2, <2>3, <2>4 DEF UselessAt
  <2> QED BY <1>3, <1>5, <1>8, <2>5 DEF FetchExcused
<1> QED BY <1>6, <1>7, <1>8

(* No other step of a call of GetLatestRelease makes it fail for good. *)
LEMMA FetchStaysExcused ==
    ASSUME ServerInv, MaxLag = 0, NEW s \in Callers, HandlerStep(s)
    PROVE  \A d \in Callers : fetch'[d] = fetch[d] \/ FetchExcused(fetch'[d])
<1>1. fetch \in [Callers -> FetchState]
  BY DEF ServerInv, IInv, FetchTypeOK
<1>2. CASE \E app : GetLatestRelease(s, app)
  BY <1>1, <1>2 DEF GetLatestRelease, FetchExcused
<1>3. CASE FetchBlockNumber(s)
  BY <1>1, <1>3 DEF FetchBlockNumber, FetchExcused, FetchState
<1>4. CASE FetchEvents(s)
  <2>1. \A d \in Callers \ {s} : fetch'[d] = fetch[d]
    BY <1>1, <1>4 DEF FetchEvents
  <2> QED BY <1>4, <2>1, FetchEventsExcused
<1>5. CASE FetchError(s)
  BY <1>1, <1>5 DEF FetchError, FetchExcused, FetchState
<1>6. CASE FetchReturn(s)
  BY <1>1, <1>6 DEF FetchReturn, NotFetching, FetchExcused
<1>7. CASE UNCHANGED fetchVars
  BY <1>7 DEF fetchVars
<1> QED BY <1>2, <1>3, <1>4, <1>5, <1>6, <1>7
     DEF HandlerStep, CheckImage, VerifyFirmware, CheckTCB, PolicyError, FetchRelease, FetchStep,
         Authorize, DecryptEnv, DeriveMnemonic, SignResponse, KmsError

(* A handler answers 500, no remote call having failed, only for a release *)
(* that entitles nobody.                                                   *)
LEMMA AuthorizeExcused ==
    ASSUME ServerInv, NEW s \in Callers, FetchExcused(fetch[s]), Authorize(s)
    PROVE  AnswerExcused(handler'[s])
<1>1. PICK h \in HandlerStates(HandlerPhase) : h = handler[s]
  BY DEF ServerInv
<1>2. PICK f \in FetchState : f = fetch[s]
  BY DEF ServerInv, IInv, FetchTypeOK
<1> DEFINE app     == AppOf(h.req)
           release == ReleaseAt(app, f.release)
           status  == ReleaseStatus(h.req, release)
<1>3. /\ h.pc = "fetch" /\ h.req \in Requests /\ h.since \in 1..Height
      /\ f.pc \in {"done", "failed", "error"} /\ FetchInv(f)
      /\ f.app = app /\ h.since <= f.since /\ f.since \in 1..Height /\ Height \in Nat
  BY <1>1, <1>2 DEF Authorize, FetchReturn, ServerInv, HandlerInv, IInv, FetchInv,
                    FetchTypeOK, Height
<1>4. Window(f.since) \subseteq Window(h.since)
  BY <1>3, WindowNarrows
<1>5. handler \in [Callers -> HandlerStates(HandlerPhase)]
  BY DEF ServerInv
<1>6. CASE f.pc = "error"
  <2>1. handler'[s] = Answering(h, 500, TRUE)
    BY <1>1, <1>2, <1>5, <1>6 DEF Authorize, RespondFault
  <2> QED BY <2>1 DEF Answering, AnswerExcused
<1>7. CASE f.pc = "failed"
  <2>1. handler'[s] = Answering(h, 500, FALSE)
    BY <1>1, <1>2, <1>5, <1>7 DEF Authorize, Respond
  <2>2. PICK g \in Window(h.since) : UselessAt(app, g)
    BY <1>2, <1>3, <1>4, <1>7 DEF FetchExcused
  <2>3. ~EntitledAt(h.req, g)
    BY <2>2 DEF UselessAt, EntitledAt
  <2>4. NotEntitledSince(h.req, h.since)
    BY <2>2, <2>3 DEF NotEntitledSince
  <2> QED BY <2>1, <2>4 DEF Answering, AnswerExcused
<1>8. CASE f.pc = "done" /\ status # 200
  <2>1. handler'[s] = Answering(h, status, FALSE)
    BY <1>1, <1>2, <1>5, <1>8 DEF Authorize, Respond
  <2>2. PICK g \in Window(f.since) : ReadAt(app, f.release, g)
    BY <1>3, <1>8 DEF FetchInv, ReadInWindow, ReadAt
  <2>3. ~EntitledAt(h.req, g)
    BY <1>8, <2>2, EntitledMeansUsed
  <2>4. NotEntitledSince(h.req, h.since)
    BY <1>4, <2>2, <2>3 DEF NotEntitledSince
  <2> QED BY <2>1, <2>4 DEF Answering, AnswerExcused
<1>9. CASE f.pc = "done" /\ status = 200
  <2>1. handler'[s] = Decrypting(h, f.release)
    BY <1>1, <1>2, <1>5, <1>9 DEF Authorize
  <2> QED BY <2>1 DEF Decrypting, AnswerExcused
<1> QED BY <1>3, <1>6, <1>7, <1>8, <1>9

LEMMA DecryptEnvExcused ==
    ASSUME ServerInv, NEW s \in Callers, DecryptEnv(s)
    PROVE  AnswerExcused(handler'[s])
<1>1. PICK h \in HandlerStates(HandlerPhase) : h = handler[s]
  BY DEF ServerInv
<1> DEFINE app    == AppOf(h.req)
           status == SecretsStatus(h.req, ReleaseAt(app, h.release))
<1>2. handler \in [Callers -> HandlerStates(HandlerPhase)] /\ h.pc = "decrypt"
      /\ ReadSince(app, h.release, h.since)
  BY <1>1 DEF ServerInv, DecryptEnv, HandlerInv, Granting
<1>3. CASE status = 200
  <2>1. handler'[s].pc = "mnemonic"
    BY <1>1, <1>2, <1>3 DEF DecryptEnv, Goto, HandlerStates
  <2> QED BY <2>1 DEF AnswerExcused
<1>4. CASE status # 200
  <2>1. handler'[s] = Answering(h, status, FALSE)
    BY <1>1, <1>2, <1>4 DEF DecryptEnv, Respond
  <2>2. PICK g \in Window(h.since) : ReadAt(app, h.release, g)
    BY <1>2 DEF ReadSince
  <2>3. ~EntitledAt(h.req, g)
    BY <1>4, <2>2, EntitledMeansUsed
  <2>4. NotEntitledSince(h.req, h.since)
    BY <2>2, <2>3 DEF NotEntitledSince
  <2> QED BY <2>1, <2>4 DEF Answering, AnswerExcused
<1> QED BY <1>3, <1>4

(* The other steps answer something else than 500, or for a failed call.   *)
LEMMA AnswersStayExcused ==
    ASSUME ServerInv, NEW s \in Callers, FetchExcused(fetch[s]), HandlerStep(s)
    PROVE  \A d \in Callers : handler'[d] = handler[d] \/ AnswerExcused(handler'[d])
<1>1. \A d \in Callers \ {s} : handler'[d] = handler[d]
  BY HandlerStepKeeps
<1>2. handler \in [Callers -> HandlerStates(HandlerPhase)]
  BY DEF ServerInv
<1>3. CASE Authorize(s)
  BY <1>1, <1>3, AuthorizeExcused
<1>4. CASE DecryptEnv(s)
  BY <1>1, <1>4, DecryptEnvExcused
<1>5. CASE \/ handler' = handler
           \/ \E pc \in HandlerPhase \ {"reply"} : Goto(s, pc)
           \/ \E status \in {200, 401} : Respond(s, status)
           \/ \E status : RespondFault(s, status)
  <2>1. CASE handler' = handler
    BY <2>1
  <2>2. CASE \E pc \in HandlerPhase \ {"reply"} : Goto(s, pc)
    <3>1. handler'[s].pc # "reply"
      BY <1>2, <2>2 DEF Goto, HandlerStates
    <3> QED BY <1>1, <3>1 DEF AnswerExcused
  <2>3. CASE \E status \in {200, 401} : Respond(s, status)
    <3>1. handler'[s].status # 500
      BY <1>2, <2>3 DEF Respond, Answering
    <3> QED BY <1>1, <3>1 DEF AnswerExcused
  <2>4. CASE \E status : RespondFault(s, status)
    <3>1. handler'[s].fault
      BY <1>2, <2>4 DEF RespondFault, Answering
    <3> QED BY <1>1, <3>1 DEF AnswerExcused
  <2> QED BY <1>5, <2>1, <2>2, <2>3, <2>4
<1> QED BY <1>3, <1>4, <1>5
     DEF HandlerStep, CheckImage, VerifyFirmware, CheckTCB, PolicyError, FetchRelease,
         DeriveMnemonic, SignResponse, KmsError, HandlerPhase

(* A client gives up, nothing having failed under it, only on an answer    *)
(* that is excused.                                                        *)
LEMMA ReceiveResponseExcused ==
    ASSUME AccessInv, MaxLag = 0, NEW i \in Instances, ReceiveResponse(i)
    PROVE  CallExcused(i, client'[i])
<1>1. PICK c \in ClientState : c = client[i]
  BY DEF AccessInv, ProtocolInv
<1>2. PICK s \in Callers : s = c.slot /\ conn[s] = i /\ handler[s].pc = "reply"
  BY <1>1 DEF ReceiveResponse, Finish, AccessInv, ProtocolInv, ClientInv
<1>3. PICK h \in HandlerStates(HandlerPhase) : h = handler[s]
  BY DEF AccessInv, ProtocolInv, ServerInv
<1>4. /\ ClientInv(i, c) /\ c.pc = "waiting" /\ Joined(s, i, c, h) /\ h.pc = "reply"
      /\ HandlerInv(h, fetch[s]) /\ AnswerExcused(h)
  BY <1>1, <1>2, <1>3, ProtocolAssumption
     DEF ReceiveResponse, AccessInv, ProtocolInv, ServerInv, ConnInv
<1> DEFINE r == EnvRequest(i, c.boot)
<1>5. /\ h.req = r /\ c.since <= h.since /\ c.since \in 1..Height /\ h.since \in 1..Height
      /\ Height \in Nat
  BY <1>4 DEF Joined, ClientInv, HandlerInv, AccessInv, ProtocolInv, ServerInv, IInv,
              FetchTypeOK, Height
<1>6. NotEntitledSince(r, h.since) => NotEntitledSince(r, c.since)
  BY <1>5, WindowNarrows DEF NotEntitledSince
<1>7. h.status \in {400, 401, 500} /\ ~h.fault => NotEntitledSince(r, c.since)
  BY <1>4, <1>5, <1>6 DEF HandlerInv, Refused, AnswerExcused
<1>8. client \in [Instances -> ClientState] /\ h.status \in {0, 200, 400, 401, 500}
      /\ h.fault \in BOOLEAN
  BY DEF AccessInv, ProtocolInv, HandlerStates
<1>9. CASE client' = [client EXCEPT ![i].pc = "posting", ![i].slot = "none",
                                    ![i].env = handler[s].release]
  <2>1. client'[i].pc = "posting"
    BY <1>8, <1>9 DEF ClientState
  <2> QED BY <2>1 DEF CallExcused
<1>10. CASE Fails(i, "address")
  <2>1. client'[i].outcome = "address"
    BY <1>8, <1>10 DEF Fails, ClientState
  <2> QED BY <2>1 DEF CallExcused
<1>11. CASE h.status >= 500 /\ RetryOrGiveUp(i, c.tries, h.fault)
  <2> DEFINE k == Retrying(c, c.tries, h.fault)
  <2>1. client'[i] = k
    BY <1>1, <1>8, <1>11 DEF RetryOrGiveUp, Retrying
  <2>2. k.boot = c.boot /\ k.since = c.since /\ (~k.fault => ~h.fault)
    BY DEF Retrying, ClientState
  <2>3. h.status = 500
    BY <1>8, <1>11
  <2> HIDE DEF k
  <2> QED BY <1>7, <2>1, <2>2, <2>3 DEF CallExcused
<1>12. CASE /\ h.status \in {400, 401}
            /\ client' = [client EXCEPT ![i].pc = "failed", ![i].slot = "none",
                                        ![i].outcome = "refused", ![i].fault = @ \/ h.fault]
  <2> DEFINE k == [c EXCEPT !.pc = "failed", !.slot = "none", !.outcome = "refused",
                            !.fault = @ \/ h.fault]
  <2>1. client'[i] = k
    BY <1>1, <1>8, <1>12
  <2>2. k.boot = c.boot /\ k.since = c.since /\ (~k.fault => ~h.fault)
    BY DEF ClientState
  <2> HIDE DEF k
  <2> QED BY <1>7, <1>12, <2>1, <2>2 DEF CallExcused
<1> QED BY <1>1, <1>2, <1>3, <1>9, <1>10, <1>11, <1>12 DEF ReceiveResponse

(* The other steps of a client leave it going on, or not without a fault.  *)
LEMMA ClientsStayExcused ==
    ASSUME AccessInv, MaxLag = 0, NEW i \in Instances,
           GetEnv(i) \/ GetAttestation(i) \/ ClientStep(i) \/ Refill(i)
    PROVE  \A j \in Instances : client'[j] = client[j] \/ CallExcused(j, client'[j])
<1>1. client \in [Instances -> ClientState]
  BY DEF AccessInv, ProtocolInv
<1>2. \A j \in Instances \ {i} : client'[j] = client[j]
  <2>1. CASE ReceiveResponse(i)
    BY <1>1, <2>1 DEF ReceiveResponse, Fails, RetryOrGiveUp
  <2>2. CASE GetEnv(i) \/ GetAttestation(i) \/ Refill(i)
    BY <1>1, <2>2 DEF GetEnv, GetAttestation, Refill
  <2>3. CASE SendRequest(i) \/ RateLimited(i) \/ PostAttestation(i)
    BY <1>1, <2>3 DEF SendRequest, RateLimited, PostAttestation
  <2>4. CASE ConnectError(i) \/ AttemptLost(i)
    BY <1>1, <2>4 DEF ConnectError, AttemptLost, RetryOrGiveUp
  <2> QED BY <2>1, <2>2, <2>3, <2>4 DEF ClientStep
<1>3. CASE ReceiveResponse(i)
  BY <1>2, <1>3, ReceiveResponseExcused
<1>4. CASE GetEnv(i)
  <2>1. client'[i].pc = "attest"
    BY <1>1, <1>4 DEF GetEnv, PoweredOff
  <2> QED BY <1>2, <2>1 DEF CallExcused
<1>5. CASE GetAttestation(i)
  <2>1. client'[i].pc = "send" \/ client'[i].fault
    BY <1>1, <1>5 DEF GetAttestation, ClientState
  <2> QED BY <1>2, <2>1 DEF CallExcused
<1>6. CASE SendRequest(i)
  <2>1. client'[i].pc = "waiting"
    BY <1>1, <1>6 DEF SendRequest, ClientState
  <2> QED BY <1>2, <2>1 DEF CallExcused
<1>7. CASE RateLimited(i)
  <2>1. client'[i].fault
    BY <1>1, <1>7 DEF RateLimited, ClientState
  <2> QED BY <1>2, <2>1 DEF CallExcused
<1>8. CASE ConnectError(i) \/ AttemptLost(i)
  <2>1. client'[i].fault
    <3>1. PICK tries : client'[i] = Retrying(client[i], tries, TRUE)
      BY <1>1, <1>8 DEF ConnectError, AttemptLost, RetryOrGiveUp, Retrying
    <3>2. Retrying(client[i], tries, TRUE).fault
      BY <1>1 DEF Retrying, ClientState
    <3> QED BY <3>1, <3>2
  <2> QED BY <1>2, <2>1 DEF CallExcused
<1>9. CASE PostAttestation(i)
  <2>1. client'[i].pc = "ok"
    BY <1>1, <1>9 DEF PostAttestation, ClientState
  <2> QED BY <1>2, <2>1 DEF CallExcused
<1>10. CASE Refill(i)
  BY <1>10 DEF Refill
<1> QED BY <1>3, <1>4, <1>5, <1>6, <1>7, <1>8, <1>9, <1>10 DEF ClientStep

(* A slot that takes up a request, or is done with one, owes no excuse.    *)
LEMMA ReceivedIsExcused ==
    ASSUME ServerInv, NEW s \in Callers, Finish(s) \/ \E r : Receive(s, r)
    PROVE  \A d \in Callers : handler'[d] = handler[d] \/ AnswerExcused(handler'[d])
<1>1. handler \in [Callers -> HandlerStates(HandlerPhase)]
  BY DEF ServerInv
<1>2. \A d \in Callers \ {s} : handler'[d] = handler[d]
  BY <1>1 DEF Finish, Receive
<1>3. CASE Finish(s)
  <2>1. handler'[s].status # 500
    BY <1>1, <1>3 DEF Finish, NotHandling
  <2> QED BY <1>2, <2>1 DEF AnswerExcused
<1>4. CASE \E r : Receive(s, r)
  <2>1. handler'[s].status # 500
    BY <1>1, <1>4 DEF Receive, Arriving, LocalStatus
  <2> QED BY <1>2, <2>1 DEF AnswerExcused
<1> QED BY <1>3, <1>4

LEMMA AccessStep == AccessInv /\ [ProtocolNext]_protocolVars => AccessInv'
<1> SUFFICES ASSUME AccessInv, [ProtocolNext]_protocolVars PROVE AccessInv'
  OBVIOUS
<1>1. ProtocolInv /\ ServerInv /\ ProtocolInv'
  BY ProtocolStep DEF AccessInv, ProtocolInv
<1>2. CASE MineBlock /\ UNCHANGED <<fetchVars, handler, clientVars, debug>>
  <2>1. Grows
    BY <1>1, <1>2, MineBlockAppends DEF Grows, ServerInv, IInv, FetchTypeOK, Height
  <2> QED BY <1>1, <1>2, <2>1, ExcusesSuffice DEF fetchVars, clientVars
<1>3. ASSUME UNCHANGED <<chain, debug>>,
             MaxLag = 0 => /\ \A s \in Callers : fetch'[s] = fetch[s] \/ FetchExcused(fetch'[s])
                           /\ \A s \in Callers : handler'[s] = handler[s] \/ AnswerExcused(handler'[s])
                           /\ \A i \in Instances : client'[i] = client[i] \/ CallExcused(i, client'[i])
      PROVE  AccessInv'
  <2>1. Grows
    BY <1>1, <1>3 DEF Grows, ServerInv, IInv, FetchTypeOK, Height
  <2> QED BY <1>1, <1>3, <2>1, ExcusesSuffice
<1>4. ASSUME NEW i \in Instances, UNCHANGED debug,
             GetEnv(i) \/ GetAttestation(i) \/ ClientStep(i) \/ Refill(i)
      PROVE  AccessInv'
  <2>1. UNCHANGED <<chain, fetchVars>>
        /\ \A s \in Callers : handler'[s] = handler[s] \/ AnswerExcused(handler'[s])
    <3>1. CASE SendRequest(i)
      BY <1>1, <3>1, ReceivedIsExcused DEF SendRequest, Receive
    <3>2. CASE ReceiveResponse(i)
      <4>1. client[i].slot \in Callers /\ Finish(client[i].slot)
        BY <1>1, <3>2 DEF ReceiveResponse, ProtocolInv, ClientInv
      <4> QED BY <1>1, <4>1, ReceivedIsExcused DEF Finish
    <3> QED BY <1>4, <3>1, <3>2
         DEF GetEnv, GetAttestation, ClientStep, Refill, RateLimited, ConnectError, AttemptLost,
             PostAttestation
  <2> QED BY <1>3, <1>4, <2>1, ClientsStayExcused DEF fetchVars
<1>5. ASSUME NEW s \in Callers, UNCHANGED debug, ServerStep(s) \/ DropResponse(s)
      PROVE  AccessInv'
  <2>1. CASE ServerStep(s)
    <3>1. MaxLag = 0 => FetchExcused(fetch[s])
      BY DEF AccessInv
    <3> QED BY <1>1, <1>3, <1>5, <2>1, <3>1, HandlerStepKeeps, FetchStaysExcused,
               AnswersStayExcused DEF ServerStep, clientVars
  <2>2. CASE DropResponse(s)
    BY <1>1, <1>3, <1>5, <2>2, ReceivedIsExcused
       DEF DropResponse, Finish, fetchVars, clientVars
  <2> QED BY <1>5, <2>1, <2>2
<1>6. CASE Crash /\ UNCHANGED debug
  <2>1. \A s \in Callers : FetchExcused(fetch'[s]) /\ AnswerExcused(handler'[s])
    BY <1>6 DEF Crash, FetchExcused, AnswerExcused, NotFetching, NotHandling
  <2> QED BY <1>3, <1>6, <2>1 DEF Crash
<1>7. CASE UNCHANGED protocolVars
  BY <1>3, <1>7 DEF protocolVars
<1> QED BY <1>2, <1>4, <1>5, <1>6, <1>7 DEF ProtocolNext

LEMMA AccessInitEstablishes == ProtocolInit => AccessInv
<1> SUFFICES ASSUME ProtocolInit PROVE AccessInv
  OBVIOUS
<1>1. \A s \in Callers : FetchExcused(fetch[s]) /\ AnswerExcused(handler[s])
  BY DEF ProtocolInit, ServerSpecInit, FetchInit, ServerInit, NotFetching, NotHandling,
         FetchExcused, AnswerExcused
<1>2. \A i \in Instances : CallExcused(i, client[i])
  BY DEF ProtocolInit, PoweredOff, CallExcused
<1> QED BY <1>1, <1>2, ProtocolInitEstablishes DEF AccessInv

(* If no node lags and nothing fails under it, GetEnv fails only where its *)
(* VM was not entitled to the env at some height the call spans, or for a  *)
(* MNEMONIC that is not one (kms.md:13, envclient.go:118-226).             *)
THEOREM LatestCodeAlwaysHasAccess == ProtocolSpec => []LatestCodeHasAccess
<1>1. AccessInv => LatestCodeHasAccess
  <2> SUFFICES ASSUME AccessInv, MaxLag = 0, NEW i \in Instances,
                      client[i].pc = "failed", ~client[i].fault, client[i].outcome # "address"
               PROVE  \E h \in Window(client[i].since) : ~EntitledAt(RequestOf(i), h)
    BY DEF LatestCodeHasAccess
  <2>1. NotEntitledSince(RequestOf(i), client[i].since)
    BY DEF AccessInv, CallExcused, RequestOf
  <2>2. CASE LocalStatus(RequestOf(i)) # 200
    <3>1. client[i].since \in 1..Height
      BY DEF AccessInv, ProtocolInv, ClientInv
    <3>2. client[i].since \in Window(client[i].since)
      BY <3>1, ChainAssumption DEF Window
    <3>3. ~EntitledAt(RequestOf(i), client[i].since)
      BY <2>2 DEF EntitledAt
    <3> QED BY <3>2, <3>3
  <2> QED BY <2>1, <2>2 DEF NotEntitledSince
<1>2. ProtocolSpec => []AccessInv
  BY AccessInitEstablishes, AccessStep, PTL DEF ProtocolSpec
<1> QED BY <1>1, <1>2, PTL

-----------------------------------------------------------------------------
(* EnvProtocol implements EnvDelivery.                                     *)
(*                                                                         *)
(* Every step maps to one of a boot that is served in one step, or to      *)
(* none.  That a delivery is due needs more than what the handlers' phases *)
(* say so far: that the release they hold is one the caller can use, and,  *)
(* once Cloud KMS has opened it, that it opened.                           *)
FetchOpened(f) == f.pc = "done" => Usable(ReleaseAt(f.app, f.release))

SlotOpened(h) ==
    /\ Granting(h) => Usable(ReleaseAt(AppOf(h.req), h.release))
    /\ h.pc \in {"mnemonic", "sign"} \/ (h.pc = "reply" /\ h.status = 200) =>
          SecretsStatus(h.req, ReleaseAt(AppOf(h.req), h.release)) = 200

PromiseInv ==
    /\ AccessInv
    /\ \A s \in Callers : FetchOpened(fetch[s]) /\ SlotOpened(handler[s])

(* A mined block does not change a release that was read. *)
LEMMA OpenedForGood ==
    ASSUME PromiseInv, Grows, NEW s \in Callers
    PROVE  /\ FetchOpened(fetch[s]) => FetchOpened(fetch[s])' \/ fetch'[s] # fetch[s]
           /\ SlotOpened(handler[s]) => SlotOpened(handler[s])' \/ handler'[s] # handler[s]
<1>1. PICK f \in FetchState, h \in HandlerStates(HandlerPhase) : f = fetch[s] /\ h = handler[s]
  BY DEF PromiseInv, AccessInv, ProtocolInv, ServerInv, IInv, FetchTypeOK
<1>2. StorageInv /\ FetchInv(f) /\ HandlerInv(h, f)
  BY <1>1 DEF PromiseInv, AccessInv, ProtocolInv, ServerInv, IInv
<1>3. ASSUME f.pc = "done"
      PROVE  ReleaseAt(f.app, f.release)' = ReleaseAt(f.app, f.release)
  <2>1. PICK g \in Window(f.since) : ReadAt(f.app, f.release, g)
    BY <1>2, <1>3 DEF FetchInv, ReadInWindow, ReadAt
  <2>2. f.app \in Apps /\ g \in 1..Height
    BY <1>2, <1>3, <2>1 DEF FetchInv, Window
  <2> QED BY <1>2, <2>1, <2>2, ReadForGood
<1>4. ASSUME Granting(h)
      PROVE  ReleaseAt(AppOf(h.req), h.release)' = ReleaseAt(AppOf(h.req), h.release)
  <2>1. PICK g \in Window(h.since) : ReadAt(AppOf(h.req), h.release, g)
    BY <1>2, <1>4 DEF HandlerInv, ReadSince
  <2>2. AppOf(h.req) \in Apps /\ g \in 1..Height
    BY <1>2, <1>4, <2>1, AppIsKnown DEF HandlerInv, Granting, Window
  <2> QED BY <1>2, <2>1, <2>2, ReadForGood
<1>5. FetchOpened(f) => FetchOpened(f)'
  BY <1>3 DEF FetchOpened
<1>6. SlotOpened(h) => SlotOpened(h)'
  BY <1>4 DEF SlotOpened, Granting
<1> QED BY <1>1, <1>5, <1>6

(* A step is right if all it changes is. *)
LEMMA OpenedSuffices ==
    ASSUME PromiseInv, AccessInv', Grows,
           \A s \in Callers : fetch'[s] = fetch[s] \/ (UNCHANGED chain /\ FetchOpened(fetch'[s])),
           \A s \in Callers :
              handler'[s] = handler[s] \/ (UNCHANGED chain /\ SlotOpened(handler'[s]))
    PROVE  PromiseInv'
<1>1. ASSUME NEW s \in Callers
      PROVE  FetchOpened(fetch[s])'
  <2>1. CASE fetch'[s] = fetch[s]
    BY <2>1, OpenedForGood DEF PromiseInv
  <2>2. CASE UNCHANGED chain /\ FetchOpened(fetch'[s])
    <3>1. PICK f \in FetchState : f = fetch'[s]
      BY DEF AccessInv, ProtocolInv, ServerInv, IInv, FetchTypeOK
    <3>2. ReleaseAt(f.app, f.release)' = ReleaseAt(f.app, f.release)
      BY <2>2 DEF ReleaseAt
    <3> QED BY <2>2, <3>1, <3>2 DEF FetchOpened
  <2> QED BY <2>1, <2>2
<1>2. ASSUME NEW s \in Callers
      PROVE  SlotOpened(handler[s])'
  <2>1. CASE handler'[s] = handler[s]
    BY <2>1, OpenedForGood DEF PromiseInv
  <2>2. CASE UNCHANGED chain /\ SlotOpened(handler'[s])
    BY <2>2 DEF SlotOpened, Granting, ReleaseAt
  <2> QED BY <2>1, <2>2
<1> QED BY <1>1, <1>2 DEF PromiseInv

(* A call of GetLatestRelease returns what its caller can use. *)
LEMMA FetchesStayOpened ==
    ASSUME ServerInv, NEW s \in Callers, HandlerStep(s)
    PROVE  \A d \in Callers : fetch'[d] = fetch[d] \/ FetchOpened(fetch'[d])
<1>1. fetch \in [Callers -> FetchState]
  BY DEF ServerInv, IInv, FetchTypeOK
<1>2. CASE \E app : GetLatestRelease(s, app)
  BY <1>1, <1>2 DEF GetLatestRelease, FetchOpened
<1>3. CASE FetchBlockNumber(s)
  BY <1>1, <1>3 DEF FetchBlockNumber, FetchOpened, FetchState
<1>4. CASE FetchEvents(s)
  <2>1. \A d \in Callers \ {s} : fetch'[d] = fetch[d]
    BY <1>1, <1>4 DEF FetchEvents
  <2>2. \/ fetch' = [fetch EXCEPT ![s].pc = "failed"]
        \/ \E last : /\ Usable(ReleaseAt(fetch[s].app, last))
                     /\ fetch' = [fetch EXCEPT ![s].pc = "done", ![s].release = last]
    BY <1>4 DEF FetchEvents
  <2>3. CASE fetch' = [fetch EXCEPT ![s].pc = "failed"]
    BY <1>1, <2>1, <2>3 DEF FetchOpened, FetchState
  <2>4. CASE \E last : /\ Usable(ReleaseAt(fetch[s].app, last))
                       /\ fetch' = [fetch EXCEPT ![s].pc = "done", ![s].release = last]
    BY <1>1, <2>1, <2>4 DEF FetchOpened, FetchState
  <2> QED BY <2>2, <2>3, <2>4
<1>5. CASE FetchError(s)
  BY <1>1, <1>5 DEF FetchError, FetchOpened, FetchState
<1>6. CASE FetchReturn(s)
  BY <1>1, <1>6 DEF FetchReturn, NotFetching, FetchOpened
<1>7. CASE UNCHANGED fetchVars
  BY <1>7 DEF fetchVars
<1> QED BY <1>2, <1>3, <1>4, <1>5, <1>6, <1>7
     DEF HandlerStep, CheckImage, VerifyFirmware, CheckTCB, PolicyError, FetchRelease, FetchStep,
         Authorize, DecryptEnv, DeriveMnemonic, SignResponse, KmsError

(* A handler goes on only with what it has been able to use, and to open.  *)
LEMMA SlotStaysOpened ==
    ASSUME ServerInv, NEW s \in Callers, FetchOpened(fetch[s]), SlotOpened(handler[s]),
           HandlerStep(s)
    PROVE  \A d \in Callers : handler'[d] = handler[d] \/ SlotOpened(handler'[d])
<1>1. PICK h \in HandlerStates(HandlerPhase) : h = handler[s]
  BY DEF ServerInv
<1>2. /\ \A d \in Callers \ {s} : handler'[d] = handler[d]
      /\ handler \in [Callers -> HandlerStates(HandlerPhase)]
  BY HandlerStepKeeps DEF ServerInv
<1> DEFINE app == AppOf(h.req)
<1>3. CASE \/ \E pc \in {"firmware", "tcb", "fetch"} : Goto(s, pc)
           \/ \E status \in Nat \ {200} : Respond(s, status) \/ RespondFault(s, status)
  <2>1. \/ handler'[s].pc \in {"firmware", "tcb", "fetch"}
        \/ handler'[s].pc = "reply" /\ handler'[s].status # 200
    BY <1>2, <1>3 DEF Goto, Respond, RespondFault, Answering, HandlerStates
  <2> QED BY <1>2, <2>1 DEF SlotOpened, Granting
<1>4. CASE handler' = handler
  BY <1>4
<1>5. CASE Authorize(s)
  <2>1. CASE \E status \in Nat \ {200} : Respond(s, status) \/ RespondFault(s, status)
    BY <1>3, <2>1
  <2>2. CASE /\ fetch[s].pc = "done"
             /\ handler' = [handler EXCEPT ![s] = Decrypting(@, fetch[s].release)]
    <3>1. handler'[s] = Decrypting(h, fetch[s].release)
      BY <1>1, <1>2, <2>2
    <3>2. /\ handler'[s].pc = "decrypt" /\ handler'[s].req = h.req
          /\ handler'[s].release = fetch[s].release
      BY <3>1 DEF Decrypting
    <3>3. fetch[s].app = app
      BY <1>1, <1>5 DEF ServerInv, HandlerInv, Authorize
    <3> QED BY <1>2, <2>2, <3>2, <3>3 DEF SlotOpened, FetchOpened
  <2>3. \A r, release : ReleaseStatus(r, release) \in Nat
    BY DEF ReleaseStatus
  <2> QED BY <1>5, <2>1, <2>2, <2>3 DEF Authorize, FetchReturn
<1>6. CASE DecryptEnv(s)
  <2> DEFINE status == SecretsStatus(h.req, ReleaseAt(app, h.release))
  <2>1. h.pc = "decrypt" /\ IF status = 200 THEN Goto(s, "mnemonic") ELSE Respond(s, status)
    BY <1>1, <1>6 DEF DecryptEnv
  <2>2. CASE status # 200
    <3>1. status \in Nat
      BY DEF SecretsStatus, DecryptStatus
    <3> QED BY <1>3, <2>1, <2>2, <3>1
  <2>3. CASE status = 200
    <3>1. /\ handler'[s].pc = "mnemonic" /\ handler'[s].req = h.req
          /\ handler'[s].release = h.release
      BY <1>1, <1>2, <2>1, <2>3 DEF Goto, HandlerStates
    <3> QED BY <1>1, <1>2, <2>1, <2>3, <3>1 DEF SlotOpened, Granting
  <2> QED BY <2>2, <2>3
<1>7. CASE DeriveMnemonic(s) \/ SignResponse(s)
  <2>1. /\ handler'[s].req = h.req /\ handler'[s].release = h.release
        /\ h.pc \in {"mnemonic", "sign"}
    BY <1>1, <1>2, <1>7
       DEF DeriveMnemonic, SignResponse, Goto, Respond, Answering, HandlerStates
  <2> QED BY <1>1, <1>2, <2>1 DEF SlotOpened, Granting
<1> QED BY <1>3, <1>4, <1>5, <1>6, <1>7
     DEF HandlerStep, CheckImage, VerifyFirmware, CheckTCB, PolicyError, FetchRelease, KmsError

LEMMA ReceivedIsOpened ==
    ASSUME ServerInv, NEW s \in Callers, Finish(s) \/ \E r : Receive(s, r)
    PROVE  \A d \in Callers : handler'[d] = handler[d] \/ SlotOpened(handler'[d])
<1>1. handler \in [Callers -> HandlerStates(HandlerPhase)]
  BY DEF ServerInv
<1>2. \A d \in Callers \ {s} : handler'[d] = handler[d]
  BY <1>1 DEF Finish, Receive
<1>3. CASE Finish(s)
  <2>1. handler'[s].pc = "idle"
    BY <1>1, <1>3 DEF Finish, NotHandling
  <2> QED BY <1>2, <2>1 DEF SlotOpened, Granting
<1>4. CASE \E r : Receive(s, r)
  <2>1. handler'[s].pc = "image" \/ (handler'[s].pc = "reply" /\ handler'[s].status # 200)
    BY <1>1, <1>4 DEF Receive, Arriving
  <2> QED BY <1>2, <2>1 DEF SlotOpened, Granting
<1> QED BY <1>3, <1>4

LEMMA PromiseStep == PromiseInv /\ [ProtocolNext]_protocolVars => PromiseInv'
<1> SUFFICES ASSUME PromiseInv, [ProtocolNext]_protocolVars PROVE PromiseInv'
  OBVIOUS
<1>1. ProtocolInv /\ ServerInv /\ AccessInv'
  BY AccessStep DEF PromiseInv, AccessInv, ProtocolInv
<1>2. CASE MineBlock /\ UNCHANGED <<fetchVars, handler, clientVars, debug>>
  <2>1. Grows
    BY <1>1, <1>2, MineBlockAppends DEF Grows, ServerInv, IInv, FetchTypeOK, Height
  <2> QED BY <1>1, <1>2, <2>1, OpenedSuffices DEF fetchVars
<1>3. ASSUME UNCHANGED <<chain, debug>>,
             \A s \in Callers : fetch'[s] = fetch[s] \/ FetchOpened(fetch'[s]),
             \A s \in Callers : handler'[s] = handler[s] \/ SlotOpened(handler'[s])
      PROVE  PromiseInv'
  <2>1. Grows
    BY <1>1, <1>3 DEF Grows, ServerInv, IInv, FetchTypeOK, Height
  <2> QED BY <1>1, <1>3, <2>1, OpenedSuffices
<1>4. ASSUME NEW i \in Instances, UNCHANGED debug,
             GetEnv(i) \/ GetAttestation(i) \/ ClientStep(i) \/ Refill(i)
      PROVE  PromiseInv'
  <2>1. UNCHANGED <<chain, fetchVars>>
        /\ \A s \in Callers : handler'[s] = handler[s] \/ SlotOpened(handler'[s])
    <3>1. CASE SendRequest(i)
      BY <1>1, <3>1, ReceivedIsOpened DEF SendRequest, Receive
    <3>2. CASE ReceiveResponse(i)
      <4>1. client[i].slot \in Callers /\ Finish(client[i].slot)
        BY <1>1, <3>2 DEF ReceiveResponse, ProtocolInv, ClientInv
      <4> QED BY <1>1, <4>1, ReceivedIsOpened DEF Finish
    <3> QED BY <1>4, <3>1, <3>2
         DEF GetEnv, GetAttestation, ClientStep, Refill, RateLimited, ConnectError, AttemptLost,
             PostAttestation
  <2> QED BY <1>3, <1>4, <2>1 DEF fetchVars
<1>5. ASSUME NEW s \in Callers, UNCHANGED debug, ServerStep(s) \/ DropResponse(s)
      PROVE  PromiseInv'
  <2>1. CASE ServerStep(s)
    <3>1. FetchOpened(fetch[s]) /\ SlotOpened(handler[s])
      BY DEF PromiseInv
    <3> QED BY <1>1, <1>3, <1>5, <2>1, <3>1, HandlerStepKeeps, FetchesStayOpened,
               SlotStaysOpened DEF ServerStep
  <2>2. CASE DropResponse(s)
    BY <1>1, <1>3, <1>5, <2>2, ReceivedIsOpened DEF DropResponse, Finish, fetchVars
  <2> QED BY <1>5, <2>1, <2>2
<1>6. CASE Crash /\ UNCHANGED debug
  <2>1. \A s \in Callers : FetchOpened(fetch'[s]) /\ SlotOpened(handler'[s])
    BY <1>6 DEF Crash, FetchOpened, SlotOpened, Granting, NotFetching, NotHandling
  <2> QED BY <1>3, <1>6, <2>1 DEF Crash
<1>7. CASE UNCHANGED protocolVars
  BY <1>3, <1>7 DEF protocolVars
<1> QED BY <1>2, <1>4, <1>5, <1>6, <1>7 DEF ProtocolNext

LEMMA PromiseInitEstablishes == ProtocolInit => PromiseInv
<1> SUFFICES ASSUME ProtocolInit PROVE PromiseInv
  OBVIOUS
<1>1. \A s \in Callers : FetchOpened(fetch[s]) /\ SlotOpened(handler[s])
  BY DEF ProtocolInit, ServerSpecInit, FetchInit, ServerInit, NotFetching, NotHandling,
         FetchOpened, SlotOpened, Granting
<1> QED BY <1>1, AccessInitEstablishes DEF PromiseInv

-----------------------------------------------------------------------------
(* What a boot's request says of the VM is what EnvDelivery's offers say.  *)
LEMMA RequestMirrors ==
    ASSUME NEW i \in Instances, NEW n \in 1..MaxBoots
    PROVE  LET r == EnvRequest(i, n)
               e == r.evidence
               m == Machine[i]
           IN  /\ LocalStatus(r) = 200 <=>
                     m.extraData = "none" /\ Identified(m) /\ HostAccepted(m)
               /\ HasTEEClaims(e) = HasTEEClaims(m) /\ TEEModeAccepted(e) = TEEModeAccepted(m)
               /\ e.endorsed = m.endorsed
               /\ \A g : IsImageAllowed(e, g) = IsImageAllowed(m, g)
               /\ \A g : IsTCBValid(e, g) = IsTCBValid(m, g)
               /\ \A type : VerifyPlatform(e, type) = VerifyPlatform(m, type)
<1> DEFINE r == EnvRequest(i, n)
           e == r.evidence
           m == Machine[i]
           d == CalculateSignableDigest(EnvRequestRSAKeyHeader, <<i, n>>)
<1>1. e = [m EXCEPT !.challenge = d]
  BY DEF EnvRequest
<1>2. /\ r.rsaKey = <<i, n>> /\ r.rsaKeyBits = 4096 /\ r.decodable /\ r.appID = "none"
  BY DEF EnvRequest
<1>3. /\ e.challenge = d
      /\ e.extraData = m.extraData /\ e.instance = m.instance /\ e.container = m.container
      /\ e.hardened = m.hardened /\ e.project = m.project /\ e.platform = m.platform
      /\ e.image = m.image /\ e.teeDebug = m.teeDebug /\ e.endorsed = m.endorsed
      /\ e.tcb = m.tcb
  BY <1>1, ProtocolAssumption
<1> HIDE DEF r, e, m, d
<1>4. LocalStatus(r) = 200 <=> m.extraData = "none" /\ Identified(m) /\ HostAccepted(m)
  <2>1. Attested(r) <=> m.extraData = "none" /\ Identified(m)
    BY <1>2, <1>3 DEF Attested, Verify, Identified, d, e
  <2>2. HostAccepted(r.evidence) <=> HostAccepted(m)
    BY <1>3 DEF HostAccepted, e
  <2>3. Parses(r) /\ ~OverrideRefused(r)
    BY <1>2 DEF Parses, OverrideRefused
  <2> QED BY <2>1, <2>2, <2>3 DEF LocalStatus
<1>5. /\ HasTEEClaims(e) = HasTEEClaims(m) /\ TEEModeAccepted(e) = TEEModeAccepted(m)
      /\ \A g : IsImageAllowed(e, g) = IsImageAllowed(m, g)
      /\ \A type : VerifyPlatform(e, type) = VerifyPlatform(m, type)
  BY <1>3 DEF HasTEEClaims, TEEModeAccepted, IsImageAllowed, VerifyPlatform
<1>6. PackTCB(e) = PackTCB(m)
  BY <1>3 DEF PackTCB
<1>7. \A g : IsTCBValid(e, g) = IsTCBValid(m, g)
  BY <1>6 DEF IsTCBValid
<1> QED BY <1>3, <1>4, <1>5, <1>7 DEF r, e, m

(* An admitted request has passed each check at some height ... *)
LEMMA AdmittedHasPassed ==
    ASSUME NEW i \in Instances, NEW n \in 1..MaxBoots, NEW since,
           LocalStatus(EnvRequest(i, n)) = 200, AdmittedSince(EnvRequest(i, n).evidence, since)
    PROVE  \A check \in {"image", "tcb"} : \E g \in Window(since) : check \in Passed(i, g)
<1> DEFINE e == EnvRequest(i, n).evidence
           m == Machine[i]
<1>1. /\ m.extraData = "none" /\ Identified(m) /\ HostAccepted(m)
      /\ HasTEEClaims(e) = HasTEEClaims(m) /\ TEEModeAccepted(e) = TEEModeAccepted(m)
      /\ e.endorsed = m.endorsed
      /\ \A g : IsImageAllowed(e, g) = IsImageAllowed(m, g)
      /\ \A g : IsTCBValid(e, g) = IsTCBValid(m, g)
  BY RequestMirrors
<1> HIDE DEF e, m
<1>2. PICK g \in Window(since) : IsImageAllowed(m, g)
  BY <1>1 DEF AdmittedSince, e
<1>3. HasTEEClaims(m) =>
         /\ TEEModeAccepted(m) /\ m.endorsed
         /\ \E h \in Window(since) : IsTCBValid(m, h)
  BY <1>1 DEF AdmittedSince, ValidAfter, e
<1>4. "image" \in Passed(i, g)
  BY <1>1, <1>2, <1>3 DEF Passed, Vouched, m
<1>5. \E h \in Window(since) : "tcb" \in Passed(i, h)
  BY <1>2, <1>3 DEF Passed, m
<1> QED BY <1>2, <1>4, <1>5

LEMMA ReadIsLast ==
    ASSUME NEW app, NEW pos, NEW g, ReadAt(app, pos, g)
    PROVE  LastRelease(app, g) = ReleaseAt(app, pos)
<1>1. pos.logIndex = Len(chain[pos.block].upgrades[app])
  BY DEF ReadAt, LastUpgrade
<1> QED BY <1>1 DEF ReadAt, LastRelease, ReleaseAt

LEMMA LastIsRelease ==
    ASSUME FetchTypeOK, NEW app \in Apps, NEW b \in 1..Height, chain[b].upgrades[app] # <<>>
    PROVE  chain[b].upgrades[app][Len(chain[b].upgrades[app])] \in Releases
<1>1. chain[b] \in Block
  BY DEF FetchTypeOK, Height
<1>2. PICK ups \in Seq(Releases) : ups = chain[b].upgrades[app]
  BY <1>1 DEF Block
<1>3. ups[Len(ups)] \in Releases
  BY <1>2
<1> QED BY <1>2, <1>3

(* ... and what its handler has read and opened is what was due to it.     *)
LEMMA OpenedIsDue ==
    ASSUME FetchTypeOK, StorageInv, NEW i \in Instances, NEW n \in 1..MaxBoots,
           NEW pos, NEW g \in 1..Height, Machine[i].instance \in Apps,
           ReadAt(Machine[i].instance, pos, g),
           LET release == ReleaseAt(Machine[i].instance, pos)
           IN  /\ Usable(release) /\ release.mnemonic # "invalid"
               /\ ReleaseStatus(EnvRequest(i, n), release) = 200
               /\ SecretsStatus(EnvRequest(i, n), release) = 200
    PROVE  DueEnv(i, g) = pos /\ pos # NoRelease
<1> DEFINE app     == Machine[i].instance
           b       == pos.block
           release == ReleaseAt(app, pos)
           r       == EnvRequest(i, n)
<1>1. b # 0 /\ chain[g].latest[app] = b /\ pos = LastUpgrade(app, b)
      /\ pos.logIndex = Len(chain[b].upgrades[app])
  BY DEF ReadAt, LastUpgrade
<1>2. Height \in Nat /\ b \in 1..Height /\ chain[b].upgrades[app] # <<>>
  BY <1>1 DEF StorageInv, FetchTypeOK, Height
<1>3. release \in Releases
  <2>1. LastRelease(app, g) \in Releases
    <3> HIDE DEF app, b
    <3> QED BY <1>1, <1>2, LastIsRelease DEF LastRelease, app
  <2> QED BY <2>1, ReadIsLast
<1>4. LastRelease(app, g) = release
  BY ReadIsLast
<1>5. AppOf(r) = app /\ r.evidence.container = Machine[i].container
      /\ \A type : VerifyPlatform(r.evidence, type) = VerifyPlatform(Machine[i], type)
  BY RequestIsOwn, RequestMirrors
<1>6. release \in DueReleases[i]
  <2> HIDE DEF release, r, app
  <2>1. /\ release.publicEnv # "malformed" /\ release.mnemonic # "invalid"
    BY DEF Usable, release, app
  <2>2. /\ release.digests = <<Machine[i].container>>
        /\ release.sealed \notin {"notJwe", "noAppHeader"} /\ release.sealedFor = app
    <3>1. ReleaseStatus(r, release) = 200
      BY DEF release, r, app
    <3> QED BY <1>5, <3>1 DEF ReleaseStatus, CheckAuthorization
  <2>3. /\ release.sealed \notin {"undecryptable", "notJson"}
        /\ VerifyPlatform(Machine[i], release.machineType)
    <3>1. SecretsStatus(r, release) = 200
      BY DEF release, r, app
    <3> QED BY <1>5, <3>1 DEF SecretsStatus, DecryptStatus
  <2> QED BY <1>3, <2>1, <2>2, <2>3 DEF DueReleases, app
<1>7. DueEnv(i, g) = pos
  BY <1>1, <1>4, <1>6 DEF DueEnv
<1> QED BY <1>1, <1>7 DEF NoRelease

(* Who has passed and is due an env is entitled to it ... *)
LEMMA DueIsEntitled ==
    ASSUME NEW i \in Instances, NEW n \in 1..MaxBoots, NEW g,
           Passed(i, g) = {"image", "tcb"}, DueEnv(i, g) # NoRelease
    PROVE  EntitledAt(EnvRequest(i, n), g)
<1> DEFINE app     == Machine[i].instance
           release == LastRelease(app, g)
           r       == EnvRequest(i, n)
           e       == r.evidence
           m       == Machine[i]
<1>1. /\ LocalStatus(r) = 200 <=> m.extraData = "none" /\ Identified(m) /\ HostAccepted(m)
      /\ HasTEEClaims(e) = HasTEEClaims(m) /\ TEEModeAccepted(e) = TEEModeAccepted(m)
      /\ e.endorsed = m.endorsed
      /\ IsImageAllowed(e, g) = IsImageAllowed(m, g)
      /\ IsTCBValid(e, g) = IsTCBValid(m, g)
      /\ VerifyPlatform(e, release.machineType) = VerifyPlatform(m, release.machineType)
  BY RequestMirrors
<1>2. AppOf(r) = app /\ e.container = m.container
  BY RequestIsOwn
<1>3. chain[g].latest[app] # 0 /\ release \in DueReleases[i]
  BY DEF DueEnv
<1>4. /\ IsImageAllowed(m, g) /\ Vouched(i)
      /\ HasTEEClaims(m) => IsTCBValid(m, g)
  <2>1. "image" \in Passed(i, g) /\ "tcb" \in Passed(i, g)
    OBVIOUS
  <2> QED BY <2>1 DEF Passed
<1>5. /\ release.digests = <<m.container>> /\ release.publicEnv # "malformed"
      /\ release.sealed \notin {"notJwe", "noAppHeader", "undecryptable", "notJson"}
      /\ release.sealedFor = app /\ VerifyPlatform(m, release.machineType)
  BY <1>3 DEF DueReleases
<1> HIDE DEF release, r, e, m, app
<1>6. Usable(release)
  BY <1>5 DEF Usable
<1>7. ReleaseStatus(r, release) = 200
  BY <1>2, <1>5 DEF ReleaseStatus, CheckAuthorization, e
<1>8. SecretsStatus(r, release) = 200
  BY <1>1, <1>5 DEF SecretsStatus, DecryptStatus, e
<1>9. /\ LocalStatus(r) = 200 /\ IsImageAllowed(e, g)
      /\ HasTEEClaims(e) => IsTCBValid(e, g) /\ TEEModeAccepted(e) /\ e.endorsed
  BY <1>1, <1>4 DEF Vouched, m
<1>10. EntitledAt(r, g)
  BY <1>2, <1>3, <1>6, <1>7, <1>8, <1>9 DEF EntitledAt, release, e
<1> QED BY <1>10 DEF r

(* ... and a release with a MNEMONIC that is not one is due to nobody.     *)
LEMMA InvalidIsNotDue ==
    ASSUME NEW i \in Instances, NEW pos, NEW g,
           ReadAt(Machine[i].instance, pos, g),
           ReleaseAt(Machine[i].instance, pos).mnemonic = "invalid"
    PROVE  DueEnv(i, g) = NoRelease
<1>1. LastRelease(Machine[i].instance, g) = ReleaseAt(Machine[i].instance, pos)
  BY ReadIsLast
<1> QED BY <1>1 DEF DueEnv, DueReleases

-----------------------------------------------------------------------------
(* What was held out as of a height is held out as of it for good.         *)
LEMMA OfferedForGood ==
    ASSUME FetchTypeOK, StorageInv, Grows, NEW i \in Instances, NEW h \in 1..Height
    PROVE  Passed(i, h)' = Passed(i, h) /\ DueEnv(i, h)' = DueEnv(i, h)
<1> DEFINE app == Machine[i].instance
           b   == chain[h].latest[app]
<1>1. chain'[h] = chain[h]
  BY DEF Grows
<1>2. /\ IsImageAllowed(Machine[i], h)' = IsImageAllowed(Machine[i], h)
      /\ IsTCBValid(Machine[i], h)' = IsTCBValid(Machine[i], h)
  BY <1>1 DEF IsImageAllowed, IsTCBValid
<1>3. Vouched(i)' = Vouched(i)
  BY DEF Grows, Vouched, HostAccepted, TEEModeAccepted
<1>4. Passed(i, h)' = Passed(i, h)
  BY <1>2, <1>3 DEF Passed
<1>7. DueReleases' = DueReleases
  BY DEF DueReleases, VerifyPlatform, MachineTypeSuffixToPlatform
<1>5. CASE app \notin Apps
  BY <1>4, <1>5 DEF DueEnv, NoRelease
<1>6. CASE app \in Apps
  <2>1. b \in 0..h /\ chain'[h].latest[app] = b
    BY <1>1, <1>6 DEF StorageInv
  <2>2. b # 0 => chain'[b] = chain[b]
    BY <2>1 DEF Grows
  <2>3. b # 0 => /\ LastRelease(app, h)' = LastRelease(app, h)
                 /\ LastUpgrade(app, b)' = LastUpgrade(app, b)
    BY <2>1, <2>2 DEF LastRelease, LastUpgrade, NoRelease
  <2>4. CASE b = 0
    BY <1>4, <2>1, <2>4 DEF DueEnv, NoRelease
  <2>5. CASE b # 0
    BY <1>4, <1>6, <1>7, <2>1, <2>3, <2>5 DEF DueEnv, NoRelease
  <2> QED BY <2>4, <2>5
<1> QED BY <1>4, <1>5, <1>6

LEMMA DueIsPosition ==
    ASSUME FetchTypeOK, StorageInv, NEW i \in Instances, NEW h \in 1..Height
    PROVE  DueEnv(i, h) \in Position
<1>1. NoRelease \in Position
  BY DEF NoRelease, Position
<1>2. CASE DueEnv(i, h) # NoRelease
  <2>1. /\ Machine[i].instance \in Apps
        /\ DueEnv(i, h) = LastUpgrade(Machine[i].instance, chain[h].latest[Machine[i].instance])
    BY <1>2 DEF DueEnv
  <2>2. chain[h].latest[Machine[i].instance] \in 0..Height
    BY <2>1 DEF StorageInv, FetchTypeOK, Height
  <2> QED BY <2>1, <2>2, LastUpgradeIsPosition
<1> QED BY <1>1, <1>2

OffersOK ==
    /\ Offers \in [1..Height -> [Instances -> Promise!Offer]]
    /\ \A h \in 1..Height, i \in Instances :
          Offers[h][i].passed = Passed(i, h) /\ Offers[h][i].env = DueEnv(i, h)

LEMMA OffersAreTyped ==
    ASSUME FetchTypeOK, StorageInv
    PROVE  OffersOK
<1> DEFINE offer(i, h) == [passed |-> Passed(i, h), env |-> DueEnv(i, h)]
<1>1. ASSUME NEW i \in Instances, NEW h \in 1..Height
      PROVE  offer(i, h) \in Promise!Offer
  <2>1. Passed(i, h) \in SUBSET Promise!Checks
    BY DEF Passed, Promise!Checks
  <2>2. DueEnv(i, h) \in Promise!Position
    BY DueIsPosition DEF Position, Promise!Position
  <2> QED BY <2>1, <2>2 DEF Promise!Offer
<1>2. Offers = [h \in 1..Height |-> [i \in Instances |-> offer(i, h)]]
  BY DEF Offers
<1>3. \A i \in Instances, h \in 1..Height :
         offer(i, h).passed = Passed(i, h) /\ offer(i, h).env = DueEnv(i, h)
  OBVIOUS
<1> HIDE DEF offer
<1>4. Offers \in [1..Height -> [Instances -> Promise!Offer]]
  BY <1>1, <1>2
<1> QED BY <1>2, <1>3, <1>4 DEF OffersOK

(* A step that mines nothing holds out nothing new. *)
LEMMA OffersStay ==
    ASSUME UNCHANGED <<chain, debug>>
    PROVE  UNCHANGED <<Height, Offers>>
<1>1. chain' = chain /\ debug' = debug /\ Height' = Height
  BY DEF Height
<1>2. ASSUME NEW i, NEW h
      PROVE  Passed(i, h)' = Passed(i, h) /\ DueEnv(i, h)' = DueEnv(i, h)
  <2>1. Vouched(i)' = Vouched(i)
    BY <1>1 DEF Vouched, HostAccepted, TEEModeAccepted
  <2>2. /\ IsImageAllowed(Machine[i], h)' = IsImageAllowed(Machine[i], h)
        /\ IsTCBValid(Machine[i], h)' = IsTCBValid(Machine[i], h)
    BY <1>1 DEF IsImageAllowed, IsTCBValid
  <2>3. DueEnv(i, h)' = DueEnv(i, h)
    BY <1>1 DEF DueEnv, LastRelease, LastUpgrade
  <2> QED BY <2>1, <2>2, <2>3 DEF Passed
<1> QED BY <1>1, <1>2 DEF Offers

(* What is due at a greater height is not older. *)
LEMMA DueIsNotOlder ==
    ASSUME FetchTypeOK, StorageInv, NEW i \in Instances,
           NEW g \in 1..Height, NEW h \in 1..Height, g <= h, DueEnv(i, h) # NoRelease
    PROVE  ~Promise!Newer(DueEnv(i, g), DueEnv(i, h))
<1> DEFINE app == Machine[i].instance
           a   == chain[g].latest[app]
           b   == chain[h].latest[app]
<1>1. app \in Apps /\ b # 0 /\ DueEnv(i, h) = LastUpgrade(app, b)
  BY DEF DueEnv
<1>2. Height \in Nat /\ a \in 0..Height /\ b \in 0..Height /\ a <= b
  BY <1>1, LatestIsMonotonic DEF StorageInv, FetchTypeOK, Height
<1>3. DueEnv(i, g) = NoRelease \/ DueEnv(i, g) = LastUpgrade(app, a)
  BY DEF DueEnv
<1>4. /\ LastUpgrade(app, b) \in Position /\ LastUpgrade(app, b).block = b
      /\ LastUpgrade(app, a) \in Position /\ LastUpgrade(app, a).block = a
  BY <1>1, <1>2, LastUpgradeIsPosition
<1> HIDE DEF a, b
<1>5. CASE DueEnv(i, g) = NoRelease
  BY <1>1, <1>2, <1>4, <1>5 DEF Promise!Newer, NoRelease
<1>6. CASE DueEnv(i, g) = LastUpgrade(app, a)
  <2>1. a = b => DueEnv(i, g) = DueEnv(i, h)
    BY <1>1, <1>6
  <2>2. CASE a = b
    BY <1>1, <1>2, <1>4, <1>6, <2>1, <2>2 DEF Promise!Newer, Position
  <2>3. CASE a # b
    BY <1>1, <1>2, <1>4, <1>6, <2>3 DEF Promise!Newer
  <2> QED BY <2>2, <2>3
<1> QED BY <1>3, <1>5, <1>6

DueIsOrdered ==
    \A i \in Instances : \A g, h \in 1..Height : g <= h /\ DueEnv(i, h) # NoRelease =>
        ~Promise!Newer(DueEnv(i, g), DueEnv(i, h))

LEMMA DueStaysOrdered == FetchTypeOK /\ StorageInv => DueIsOrdered
BY DueIsNotOlder DEF DueIsOrdered

(* A mined block is an advance. *)
LEMMA MineBlockAdvances ==
    ASSUME ProtocolInv, ProtocolInv', MineBlock, UNCHANGED <<fetchVars, handler, clientVars, debug>>
    PROVE  Promise!Advance
<1>1. /\ FetchTypeOK /\ StorageInv /\ FetchTypeOK' /\ StorageInv'
      /\ Height \in Nat /\ Height >= 1
  BY DEF ProtocolInv, ServerInv, IInv, FetchTypeOK, Height
<1>2. Height' = Height + 1 /\ Grows
  BY <1>1, MineBlockAppends DEF Grows
<1>3. OffersOK /\ OffersOK'
  <2>1. OffersOK
    BY <1>1, OffersAreTyped
  <2>2. FetchTypeOK' /\ StorageInv' => OffersOK'
    BY OffersAreTyped, PTL
  <2> QED BY <1>1, <2>1, <2>2
<1>4. ASSUME NEW h \in 1..Height
      PROVE  Offers'[h] = Offers[h]
  <2>1. \A i \in Instances : Passed(i, h)' = Passed(i, h) /\ DueEnv(i, h)' = DueEnv(i, h)
    BY <1>1, <1>2, OfferedForGood
  <2>2. /\ Offers[h] = [i \in Instances |-> [passed |-> Passed(i, h), env |-> DueEnv(i, h)]]
        /\ Offers'[h] = [i \in Instances |-> [passed |-> Passed(i, h)', env |-> DueEnv(i, h)']]
    BY <1>2, <1>1 DEF Offers
  <2> QED BY <2>1, <2>2
<1>5. ASSUME NEW i \in Instances, NEW h \in 1..Height, Offers'[Height'][i].env # NoRelease
      PROVE  ~Promise!Newer(Offers[h][i].env, Offers'[Height'][i].env)
  <2>1. DueIsOrdered'
    <3>1. FetchTypeOK' /\ StorageInv' => DueIsOrdered'
      BY DueStaysOrdered, PTL
    <3> QED BY <1>1, <3>1
  <2>2. /\ Offers'[Height'][i].env = DueEnv(i, Height)'
        /\ Offers[h][i].env = DueEnv(i, h)' /\ h \in 1..Height'
    BY <1>1, <1>2, <1>3, OfferedForGood DEF OffersOK
  <2> QED BY <1>1, <1>2, <1>5, <2>1, <2>2 DEF DueIsOrdered, Promise!Newer, NoRelease
<1>6. UNCHANGED Boots
  BY DEF clientVars, Boots
<1>7. Offers' \in [1..Height' -> [Instances -> Promise!Offer]]
  BY <1>3 DEF OffersOK
<1> QED BY <1>2, <1>4, <1>5, <1>6, <1>7 DEF Promise!Advance, Promise!NoRelease, NoRelease

-----------------------------------------------------------------------------
(* The boot that a client's state stands for. *)
BootOf(k) ==
    [pc |-> BootPhase[k.pc], since |-> k.since, env |-> k.env, disturbed |-> k.fault]

BootState ==
    [pc : {"off", "booting", "running", "failed"}, since : Nat, env : Position,
     disturbed : BOOLEAN]

LEMMA BootOfPhases ==
    ASSUME NEW k \in ClientState
    PROVE  /\ BootOf(k) \in BootState
           /\ k.pc = "off" => BootOf(k).pc = "off"
           /\ k.pc \in {"attest", "send", "waiting"} => BootOf(k).pc = "booting"
           /\ k.pc \in {"posting", "ok"} => BootOf(k).pc = "running"
           /\ k.pc = "failed" => BootOf(k).pc = "failed"
           /\ BootOf(k).since = k.since /\ BootOf(k).env = k.env /\ BootOf(k).disturbed = k.fault
<1>1. /\ k.since \in Nat /\ k.env \in Position /\ k.fault \in BOOLEAN /\ k.pc \in ClientPhase
  BY DEF ClientState
<1>2. /\ BootPhase["off"] = "off" /\ BootPhase["failed"] = "failed"
      /\ \A pc \in {"attest", "send", "waiting"} : BootPhase[pc] = "booting"
      /\ \A pc \in {"posting", "ok"} : BootPhase[pc] = "running"
  BY DEF BootPhase
<1>3. BootPhase[k.pc] \in {"off", "booting", "running", "failed"}
  BY <1>1, <1>2 DEF ClientPhase
<1> QED BY <1>1, <1>2, <1>3 DEF BootOf, BootState

LEMMA OneBootChanges ==
    ASSUME ProtocolInv, UNCHANGED <<chain, debug>>, NEW i \in Instances, NEW k \in ClientState,
           client' = [client EXCEPT ![i] = k]
    PROVE  /\ UNCHANGED <<Height, Offers>>
           /\ Boots' = [Boots EXCEPT ![i] = BootOf(k)]
           /\ Boots[i] = BootOf(client[i])
<1>1. UNCHANGED <<Height, Offers>>
  BY OffersStay
<1>2. Boots = [j \in Instances |-> BootOf(client[j])]
  BY DEF Boots, BootOf
<1>3. Boots' = [j \in Instances |-> BootOf(client'[j])]
  BY DEF Boots, BootOf, BootPhase
<1>4. \A j \in Instances : client'[j] = IF j = i THEN k ELSE client[j]
  BY DEF ProtocolInv
<1> QED BY <1>1, <1>2, <1>3, <1>4

(* A boot that goes on is disturbed at most. *)
LEMMA GoesOn ==
    ASSUME ProtocolInv, UNCHANGED <<chain, debug>>, NEW i \in Instances, NEW k \in ClientState,
           client' = [client EXCEPT ![i] = k],
           client[i].pc \in {"attest", "send", "waiting"}, k.pc \in {"attest", "send", "waiting"},
           k.since = client[i].since, k.env = client[i].env,
           k.fault \/ k.fault = client[i].fault
    PROVE  [Promise!Next]_(Promise!vars)
<1> DEFINE c == client[i]
<1>1. /\ UNCHANGED <<Height, Offers>>
      /\ Boots' = [Boots EXCEPT ![i] = BootOf(k)] /\ Boots[i] = BootOf(c)
  BY OneBootChanges
<1>2. PICK x \in BootState, y \in BootState : x = BootOf(c) /\ y = BootOf(k)
  BY BootOfPhases DEF ProtocolInv
<1>3. /\ x.pc = "booting" /\ y.pc = "booting" /\ y.since = x.since /\ y.env = x.env
      /\ x.disturbed = c.fault /\ y.disturbed = k.fault
  BY <1>2, BootOfPhases DEF ProtocolInv
<1>6. Boots = [j \in Instances |-> Boots[j]] /\ k.fault \in BOOLEAN
  BY DEF Boots, ClientState
<1>4. CASE k.fault
  <2>1. y = [x EXCEPT !.disturbed = TRUE]
    <3>1. k.fault = TRUE
      BY <1>4, <1>6
    <3> QED BY <1>3, <3>1 DEF BootState
  <2>2. Boots' = [Boots EXCEPT ![i].disturbed = TRUE]
    BY <1>1, <1>2, <1>6, <2>1
  <2>3. Promise!Disturb(i)
    BY <1>1, <1>2, <1>3, <2>2 DEF Promise!Disturb
  <2> QED BY <2>3 DEF Promise!Next
<1>5. CASE k.fault = c.fault
  <2>1. y = x
    BY <1>3, <1>5 DEF BootState
  <2>2. Boots' = Boots
    BY <1>1, <1>2, <1>6, <2>1
  <2> QED BY <1>1, <2>2 DEF Promise!vars
<1> QED BY <1>4, <1>5

(* A boot that fails has a reason. *)
LEMMA FailsForAReason ==
    ASSUME ProtocolInv, UNCHANGED <<chain, debug>>, NEW i \in Instances, NEW k \in ClientState,
           client' = [client EXCEPT ![i] = k],
           client[i].pc \in {"attest", "send", "waiting"}, k.pc = "failed",
           k.since = client[i].since, k.env = client[i].env,
           client[i].fault => k.fault,
           \/ k.fault \/ MaxLag # 0
           \/ \E g \in Window(k.since) :
                 Passed(i, g) # {"image", "tcb"} \/ DueEnv(i, g) = NoRelease
    PROVE  [Promise!Next]_(Promise!vars)
<1> DEFINE c == client[i]
<1>1. /\ UNCHANGED <<Height, Offers>>
      /\ Boots' = [Boots EXCEPT ![i] = BootOf(k)] /\ Boots[i] = BootOf(c)
  BY OneBootChanges
<1>2. PICK x \in BootState, y \in BootState : x = BootOf(c) /\ y = BootOf(k)
  BY BootOfPhases DEF ProtocolInv
<1>3. /\ x.pc = "booting" /\ y.pc = "failed" /\ y.since = x.since /\ y.env = x.env
      /\ x.since = k.since /\ x.disturbed = c.fault /\ y.disturbed = k.fault
  BY <1>2, BootOfPhases DEF ProtocolInv
<1>4. Boots' = [Boots EXCEPT ![i].pc = "failed", ![i].disturbed = y.disturbed]
  <2>1. y = [x EXCEPT !.pc = "failed", !.disturbed = y.disturbed]
    BY <1>3 DEF BootState
  <2>2. Boots = [j \in Instances |-> Boots[j]]
    BY DEF Boots
  <2> QED BY <1>1, <1>2, <2>1, <2>2
<1>5. k.fault \/ Promise!NotDue(i) \/ MaxLag # 0
  <2>1. CASE \E g \in Window(k.since) :
                Passed(i, g) # {"image", "tcb"} \/ DueEnv(i, g) = NoRelease
    <3>1. PICK g \in Window(k.since) :
             Passed(i, g) # {"image", "tcb"} \/ DueEnv(i, g) = NoRelease
      BY <2>1
    <3>2. OffersOK
      BY OffersAreTyped DEF ProtocolInv, ServerInv, IInv
    <3>3. Boots[i].since = k.since
      BY <1>1, <1>2, <1>3
    <3>4. g \in Promise!Window(Boots[i].since)
      BY <3>1, <3>3 DEF Window, Promise!Window
    <3>5. Offers[g][i].passed # Promise!Checks \/ Offers[g][i].env = Promise!NoRelease
      BY <3>1, <3>2 DEF OffersOK, Window, Promise!Checks, Promise!NoRelease, NoRelease
    <3> QED BY <3>4, <3>5 DEF Promise!NotDue
  <2> QED BY <2>1
<1>6. /\ y.disturbed \in BOOLEAN /\ x.disturbed \in BOOLEAN /\ (x.disturbed => y.disturbed)
      /\ y.disturbed \/ Promise!NotDue(i) \/ MaxLag # 0
  BY <1>3, <1>5 DEF BootState
<1>7. Promise!Fail(i)
  BY <1>1, <1>2, <1>3, <1>4, <1>6, Zenon DEF Promise!Fail
<1> QED BY <1>7 DEF Promise!Next

(* An env that is delivered was due. *)
LEMMA DeliversWhatIsDue ==
    ASSUME ProtocolInv, UNCHANGED <<chain, debug>>, NEW i \in Instances, NEW k \in ClientState,
           client' = [client EXCEPT ![i] = k],
           client[i].pc \in {"attest", "send", "waiting"}, k.pc = "posting",
           k.since = client[i].since, k.fault = client[i].fault,
           \E g \in Window(k.since) : DueEnv(i, g) = k.env /\ k.env # NoRelease,
           \A check \in {"image", "tcb"} : \E g \in Window(k.since) : check \in Passed(i, g)
    PROVE  [Promise!Next]_(Promise!vars)
<1> DEFINE c == client[i]
<1>1. /\ UNCHANGED <<Height, Offers>>
      /\ Boots' = [Boots EXCEPT ![i] = BootOf(k)] /\ Boots[i] = BootOf(c)
  BY OneBootChanges
<1>2. PICK x \in BootState, y \in BootState : x = BootOf(c) /\ y = BootOf(k)
  BY BootOfPhases DEF ProtocolInv
<1>3. /\ x.pc = "booting" /\ y.pc = "running" /\ y.since = x.since /\ y.env = k.env
      /\ x.since = k.since /\ x.disturbed = y.disturbed
  BY <1>2, BootOfPhases DEF ProtocolInv
<1>4. Boots' = [Boots EXCEPT ![i].pc = "running", ![i].env = k.env]
  <2>1. y = [x EXCEPT !.pc = "running", !.env = k.env]
    BY <1>3 DEF BootState
  <2>2. Boots = [j \in Instances |-> Boots[j]]
    BY DEF Boots
  <2> QED BY <1>1, <1>2, <2>1, <2>2
<1>5. OffersOK
  BY OffersAreTyped DEF ProtocolInv, ServerInv, IInv
<1>6. Boots[i].pc = "booting" /\ Boots[i].since = k.since
  BY <1>1, <1>2, <1>3
<1>7. Promise!Window(Boots[i].since) = Window(k.since)
  BY <1>6 DEF Window, Promise!Window
<1>8. \A g \in Window(k.since) :
         Offers[g][i].passed = Passed(i, g) /\ Offers[g][i].env = DueEnv(i, g)
  BY <1>5 DEF OffersOK, Window
<1>9. \E g \in Window(k.since) :
         /\ Boots' = [Boots EXCEPT ![i].pc = "running", ![i].env = Offers[g][i].env]
         /\ Offers[g][i].env # Promise!NoRelease
  BY <1>4, <1>8 DEF Promise!NoRelease, NoRelease
<1>10. \A check \in Promise!Checks :
          \E g \in Window(k.since) : check \in Offers[g][i].passed
  BY <1>8 DEF Promise!Checks
<1>11. Promise!Deliver(i)
  BY <1>1, <1>6, <1>7, <1>9, <1>10 DEF Promise!Deliver
<1> QED BY <1>11 DEF Promise!Next

-----------------------------------------------------------------------------
(* The steps of a client: GetEnv begins a boot ...                         *)
LEMMA GetEnvBoots ==
    ASSUME ProtocolInv, UNCHANGED debug, NEW i \in Instances, GetEnv(i)
    PROVE  [Promise!Next]_(Promise!vars)
<1> DEFINE previous == IF client[i].pc = "ok" THEN client[i].env ELSE client[i].previous
           boot     == client[i].boot + 1
<1>1. PICK c \in ClientState : c = client[i]
  BY DEF ProtocolInv
<1>2. PICK k \in ClientState : client' = [client EXCEPT ![i] = k]
  <2>1. client' \in [Instances -> ClientState]
    BY GetEnvPreserves DEF ProtocolInv
  <2> QED BY <2>1 DEF GetEnv, ProtocolInv
<1>3. k = [PoweredOff EXCEPT !.pc = "attest", !.boot = boot, !.since = Height,
                             !.previous = previous]
  <2> HIDE DEF boot, previous
  <2>1. client'[i] = [PoweredOff EXCEPT !.pc = "attest", !.boot = boot, !.since = Height,
                                        !.previous = previous]
    BY DEF GetEnv, ProtocolInv, boot, previous
  <2> QED BY <1>2, <2>1 DEF ProtocolInv
<1> HIDE DEF boot, previous
<1>4. k.pc = "attest" /\ k.since = Height /\ k.env = NoRelease /\ k.fault = FALSE
  BY <1>3 DEF PoweredOff
<1>5. /\ UNCHANGED <<Height, Offers>>
      /\ Boots' = [Boots EXCEPT ![i] = BootOf(k)] /\ Boots[i] = BootOf(c)
  BY <1>1, <1>2, OneBootChanges DEF GetEnv
<1>6. BootOf(k) = [pc |-> "booting", since |-> Height, env |-> NoRelease, disturbed |-> FALSE]
  <2>1. BootPhase["attest"] = "booting"
    BY DEF BootPhase
  <2> QED BY <1>4, <2>1, Zenon DEF BootOf
<1>7. Boots[i].pc # "booting"
  <2>1. c.pc \in {"off", "ok", "failed"}
    BY <1>1 DEF GetEnv
  <2> QED BY <1>5, <2>1, BootOfPhases
<1>8. Promise!Boot(i)
  BY <1>5, <1>6, <1>7 DEF Promise!Boot, Promise!NoRelease, NoRelease
<1> QED BY <1>8 DEF Promise!Next

(* ... a retry goes on with it, or gives it up ...                         *)
LEMMA RetryingGoesOn ==
    ASSUME ProtocolInv, UNCHANGED <<chain, debug>>, NEW i \in Instances,
           client[i].pc \in {"send", "waiting"},
           NEW tries \in 0..MaxTries, NEW fault \in BOOLEAN, RetryOrGiveUp(i, tries, fault),
           \/ fault \/ MaxLag # 0
           \/ \E g \in Window(client[i].since) :
                 Passed(i, g) # {"image", "tcb"} \/ DueEnv(i, g) = NoRelease
    PROVE  [Promise!Next]_(Promise!vars)
<1> DEFINE k == Retrying(client[i], tries, fault)
<1>1. PICK c \in ClientState : c = client[i]
  BY DEF ProtocolInv
<1>2. k \in ClientState /\ client' = [client EXCEPT ![i] = k]
  <2>1. client' = [client EXCEPT ![i] = k]
    BY DEF RetryOrGiveUp, Retrying
  <2>2. client[i].pc # "off"
    OBVIOUS
  <2> HIDE DEF k
  <2> QED BY <2>1, <2>2, RetryingIsGood DEF k
<1>3. /\ k.since = c.since /\ k.env = c.env /\ k.fault = (c.fault \/ fault)
      /\ k.pc \in {"send", "failed"}
  BY <1>1 DEF Retrying, ClientState
<1>4. c.fault \in BOOLEAN
  BY DEF ClientState
<1> HIDE DEF k
<1>5. CASE k.pc = "send"
  <2>1. k.fault \/ k.fault = c.fault
    BY <1>3, <1>4
  <2> QED BY <1>1, <1>2, <1>3, <1>5, <2>1, GoesOn
<1>6. CASE k.pc = "failed"
  <2>1. c.fault => k.fault
    BY <1>3, <1>4
  <2>2. \/ k.fault \/ MaxLag # 0
        \/ \E g \in Window(k.since) :
              Passed(i, g) # {"image", "tcb"} \/ DueEnv(i, g) = NoRelease
    BY <1>1, <1>3, <1>4
  <2> QED BY <1>1, <1>2, <1>3, <1>6, <2>1, <2>2, FailsForAReason
<1> QED BY <1>3, <1>5, <1>6

(* ... an attempt is made ...                                              *)
LEMMA SendRequestGoesOn ==
    ASSUME ProtocolInv, UNCHANGED debug, NEW i \in Instances, SendRequest(i)
    PROVE  [Promise!Next]_(Promise!vars)
<1>1. PICK c \in ClientState : c = client[i]
  BY DEF ProtocolInv
<1>2. PICK s \in Callers :
         /\ Receive(s, RequestOf(i))
         /\ conn' = [conn EXCEPT ![s] = i]
         /\ client' = [client EXCEPT ![i].pc = "waiting", ![i].slot = s, ![i].tries = @ + 1]
  BY DEF SendRequest
<1> DEFINE k == [c EXCEPT !.pc = "waiting", !.slot = s, !.tries = c.tries + 1]
<1>3. c.pc = "send" /\ ClientInv(i, c) /\ UNCHANGED <<chain, debug>>
  BY <1>1, <1>2 DEF SendRequest, ProtocolInv, Receive
<1>4. client' = [client EXCEPT ![i] = k]
  BY <1>1, <1>2
<1>5. /\ k \in ClientState /\ k.pc = "waiting" /\ k.since = c.since /\ k.env = c.env
      /\ k.fault = c.fault
  <2>1. c.tries + 1 \in 0..MaxTries
    BY <1>3, ProtocolAssumption DEF ClientInv, ClientState
  <2> QED BY <2>1 DEF ClientState, ClientPhase
<1> HIDE DEF k
<1> QED BY <1>1, <1>3, <1>4, <1>5, GoesOn

(* ... and so does what a client does without an answer ...                *)
LEMMA AloneGoesOn ==
    ASSUME ProtocolInv, UNCHANGED debug, NEW i \in Instances,
           \/ GetAttestation(i) \/ SendRequest(i) \/ RateLimited(i) \/ ConnectError(i)
           \/ AttemptLost(i)
    PROVE  [Promise!Next]_(Promise!vars)
<1>1. PICK c \in ClientState : c = client[i]
  BY DEF ProtocolInv
<1>2. ClientInv(i, c)
  BY <1>1 DEF ProtocolInv
<1>3. CASE GetAttestation(i)
  <2> DEFINE k == [c EXCEPT !.pc = "send"]
             d == [c EXCEPT !.pc = "failed", !.fault = TRUE, !.outcome = "attestation"]
  <2>1. c.pc = "attest" /\ UNCHANGED <<chain, debug>>
        /\ (client' = [client EXCEPT ![i] = k] \/ client' = [client EXCEPT ![i] = d])
    BY <1>1, <1>3 DEF GetAttestation
  <2>2. /\ k \in ClientState /\ k.pc = "send" /\ k.since = c.since /\ k.env = c.env
        /\ k.fault = c.fault
        /\ d \in ClientState /\ d.pc = "failed" /\ d.since = c.since /\ d.env = c.env
        /\ d.fault
    BY DEF ClientState, ClientPhase, Outcome
  <2> HIDE DEF k, d
  <2>3. CASE client' = [client EXCEPT ![i] = k]
    BY <1>1, <2>1, <2>2, <2>3, GoesOn
  <2>4. CASE client' = [client EXCEPT ![i] = d]
    BY <1>1, <2>1, <2>2, <2>4, FailsForAReason
  <2> QED BY <2>1, <2>3, <2>4
<1>4. CASE SendRequest(i)
  BY <1>4, SendRequestGoesOn
<1>5. CASE RateLimited(i)
  <2> DEFINE k == [c EXCEPT !.pc = "failed", !.fault = TRUE, !.outcome = "refused"]
  <2>1. c.pc = "send" /\ UNCHANGED <<chain, debug>> /\ client' = [client EXCEPT ![i] = k]
    BY <1>1, <1>5 DEF RateLimited
  <2>2. /\ k \in ClientState /\ k.pc = "failed" /\ k.since = c.since /\ k.env = c.env
        /\ k.fault
    BY DEF ClientState, ClientPhase, Outcome
  <2> HIDE DEF k
  <2> QED BY <1>1, <2>1, <2>2, FailsForAReason
<1>6. CASE ConnectError(i) \/ AttemptLost(i)
  <2>1. PICK tries \in {c.tries, c.tries + 1} :
           RetryOrGiveUp(i, tries, TRUE) /\ tries \in 0..MaxTries
    <3>1. CASE ConnectError(i)
      <4>1. c.tries + 1 \in 0..MaxTries
        BY <1>1, <1>2, <3>1, ProtocolAssumption DEF ConnectError, ClientInv, ClientState
      <4> QED BY <1>1, <3>1, <4>1 DEF ConnectError
    <3>2. CASE AttemptLost(i)
      <4>1. c.tries \in 0..MaxTries
        BY DEF ClientState
      <4> QED BY <1>1, <3>2, <4>1 DEF AttemptLost
    <3> QED BY <1>6, <3>1, <3>2
  <2>2. client[i].pc \in {"send", "waiting"} /\ UNCHANGED <<chain, debug>>
    BY <1>6 DEF ConnectError, AttemptLost
  <2> QED BY <2>1, <2>2, RetryingGoesOn
<1> QED BY <1>3, <1>4, <1>5, <1>6

(* Who is not entitled is not due an env. *)
LEMMA NotEntitledIsNotDue ==
    ASSUME NEW i \in Instances, NEW n \in 1..MaxBoots, NEW since \in 1..Height, Height \in Nat,
           NotEntitledSince(EnvRequest(i, n), since)
    PROVE  \E g \in Window(since) : Passed(i, g) # {"image", "tcb"} \/ DueEnv(i, g) = NoRelease
<1>1. PICK g \in Window(since) : ~EntitledAt(EnvRequest(i, n), g)
  <2>1. since \in Window(since)
    BY ChainAssumption DEF Window
  <2>2. CASE LocalStatus(EnvRequest(i, n)) # 200
    BY <2>1, <2>2 DEF EntitledAt
  <2> QED BY <2>2 DEF NotEntitledSince
<1> QED BY <1>1, DueIsEntitled

(* ... while an answer delivers, or sends a client on, or fails it.        *)
LEMMA AnswerDelivers ==
    ASSUME PromiseInv, UNCHANGED debug, NEW i \in Instances, ReceiveResponse(i)
    PROVE  [Promise!Next]_(Promise!vars)
<1>1. PICK c \in ClientState : c = client[i]
  BY DEF PromiseInv, AccessInv, ProtocolInv
<1>2. /\ c.slot \in Callers /\ conn[c.slot] = i /\ handler[c.slot].pc = "reply"
      /\ c.pc = "waiting" /\ ClientInv(i, c) /\ UNCHANGED <<chain, debug>>
      /\ ProtocolInv /\ ServerInv /\ AccessInv /\ FetchTypeOK /\ StorageInv
  BY <1>1 DEF ReceiveResponse, Finish, PromiseInv, AccessInv, ProtocolInv, ClientInv, ServerInv,
              IInv
<1>3. PICK s \in Callers, h \in HandlerStates(HandlerPhase) : s = c.slot /\ h = handler[s]
  BY <1>2 DEF ServerInv
<1> DEFINE r   == EnvRequest(i, c.boot)
           app == Machine[i].instance
           notDue(g) == Passed(i, g) # {"image", "tcb"} \/ DueEnv(i, g) = NoRelease
<1>4. /\ h.req = r /\ c.since <= h.since /\ c.since \in 1..Height /\ h.since \in 1..Height
      /\ c.boot \in 1..MaxBoots /\ Height \in Nat
      /\ HandlerInv(h, fetch[s]) /\ (MaxLag = 0 => AnswerExcused(h)) /\ SlotOpened(h)
  <2>1. Joined(s, i, c, h)
    BY <1>1, <1>2, <1>3, ProtocolAssumption DEF ProtocolInv, ConnInv
  <2> QED BY <1>2, <1>3, <2>1
       DEF Joined, ClientInv, HandlerInv, PromiseInv, AccessInv, ServerInv, FetchTypeOK, Height
<1>5. Window(h.since) \subseteq Window(c.since)
  BY <1>4, WindowNarrows
<1>6. h.status \in {400, 401, 500} =>
         h.fault \/ MaxLag # 0 \/ \E g \in Window(c.since) : notDue(g)
  <2> SUFFICES ASSUME h.status \in {400, 401, 500}, ~h.fault, MaxLag = 0
               PROVE  \E g \in Window(c.since) : notDue(g)
    OBVIOUS
  <2>1. NotEntitledSince(r, h.since)
    BY <1>2, <1>3, <1>4 DEF HandlerInv, Refused, AnswerExcused
  <2>2. \E g \in Window(h.since) : notDue(g)
    BY <1>4, <2>1, NotEntitledIsNotDue
  <2> QED BY <1>5, <2>2
<1>7. h.status = 200 =>
         /\ LocalStatus(r) = 200 /\ AdmittedSince(r.evidence, h.since)
         /\ app \in Apps /\ AppOf(r) = app /\ r.evidence.instance = app
         /\ \E g \in Window(h.since) : ReadAt(app, h.release, g)
         /\ Usable(ReleaseAt(app, h.release))
         /\ ReleaseStatus(r, ReleaseAt(app, h.release)) = 200
         /\ SecretsStatus(r, ReleaseAt(app, h.release)) = 200
  <2> SUFFICES ASSUME h.status = 200
               PROVE  /\ LocalStatus(r) = 200 /\ AdmittedSince(r.evidence, h.since)
                      /\ app \in Apps /\ AppOf(r) = app /\ r.evidence.instance = app
                      /\ \E g \in Window(h.since) : ReadAt(app, h.release, g)
                      /\ Usable(ReleaseAt(app, h.release))
                      /\ ReleaseStatus(r, ReleaseAt(app, h.release)) = 200
                      /\ SecretsStatus(r, ReleaseAt(app, h.release)) = 200
    OBVIOUS
  <2>1. AppOf(r) = app /\ r.evidence.instance = app /\ r \in Requests
    BY <1>4, RequestIsOwn
  <2>2. Granting(h)
    BY <1>2, <1>3 DEF Granting
  <2> HIDE DEF r, app
  <2>3. app \in Apps /\ LocalStatus(r) = 200
    BY <1>4, <2>1, <2>2, AppIsKnown DEF HandlerInv
  <2> QED BY <1>2, <1>3, <1>4, <2>1, <2>2, <2>3 DEF HandlerInv, SlotOpened, ReadSince
<1>8. h.status \in {0, 200, 400, 401, 500} /\ h.fault \in BOOLEAN /\ h.release \in Position
      /\ c.fault \in BOOLEAN /\ client \in [Instances -> ClientState]
  BY <1>2 DEF HandlerStates, ClientState, ProtocolInv
<1>9. RequestOf(i) = r
  BY <1>1 DEF RequestOf
<1> HIDE DEF r, app
<1>10. CASE /\ h.status = 200 /\ ReleaseAt(app, h.release).mnemonic # "invalid"
            /\ client' = [client EXCEPT ![i].pc = "posting", ![i].slot = "none",
                                        ![i].env = h.release]
  <2>5. PICK pos \in Position : pos = h.release
    BY <1>8
  <2> DEFINE k == [c EXCEPT !.pc = "posting", !.slot = "none", !.env = pos]
  <2>1. client' = [client EXCEPT ![i] = k]
    <3>1. client' = [client EXCEPT ![i].pc = "posting", ![i].slot = "none", ![i].env = pos]
      BY <1>10, <2>5
    <3> QED BY <1>1, <3>1
  <2>2. /\ k \in ClientState /\ k.pc = "posting" /\ k.since = c.since /\ k.fault = c.fault
        /\ k.env = pos
    BY DEF ClientState, ClientPhase
  <2> HIDE DEF k
  <2>3. \A check \in {"image", "tcb"} : \E g \in Window(c.since) : check \in Passed(i, g)
    BY <1>4, <1>5, <1>7, <1>10, AdmittedHasPassed DEF r
  <2>4. \E g \in Window(c.since) : DueEnv(i, g) = pos /\ pos # NoRelease
    <3>1. PICK g \in Window(h.since) : ReadAt(app, pos, g)
      BY <1>7, <1>10, <2>5
    <3>2. g \in Window(c.since) /\ g \in 1..Height
      BY <1>5 DEF Window
    <3>3. DueEnv(i, g) = pos /\ pos # NoRelease
      BY <1>2, <1>4, <1>7, <1>10, <2>5, <3>1, <3>2, OpenedIsDue DEF r, app
    <3> QED BY <3>2, <3>3
  <2> QED BY <1>1, <1>2, <2>1, <2>2, <2>3, <2>4, DeliversWhatIsDue
<1>11. CASE /\ h.status = 200 /\ ReleaseAt(app, h.release).mnemonic = "invalid"
            /\ Fails(i, "address")
  <2> DEFINE k == [c EXCEPT !.pc = "failed", !.outcome = "address", !.slot = "none"]
  <2>1. client' = [client EXCEPT ![i] = k]
    <3>1. client' = [client EXCEPT ![i].pc = "failed", ![i].outcome = "address",
                                   ![i].slot = "none"]
      BY <1>11 DEF Fails
    <3> QED BY <1>1, <3>1
  <2>2. /\ k \in ClientState /\ k.pc = "failed" /\ k.since = c.since /\ k.fault = c.fault
        /\ k.env = c.env
    BY DEF ClientState, ClientPhase, Outcome
  <2> HIDE DEF k
  <2>3. \E g \in Window(c.since) : DueEnv(i, g) = NoRelease
    BY <1>5, <1>7, <1>11, InvalidIsNotDue DEF app
  <2> QED BY <1>1, <1>2, <2>1, <2>2, <2>3, FailsForAReason
<1>12. CASE h.status >= 500 /\ RetryOrGiveUp(i, c.tries, h.fault)
  <2>1. c.tries \in 0..MaxTries /\ h.status = 500
    BY <1>8, <1>12 DEF ClientState
  <2> QED BY <1>1, <1>2, <1>6, <1>8, <1>12, <2>1, RetryingGoesOn
<1>13. CASE /\ h.status \in {400, 401}
            /\ client' = [client EXCEPT ![i].pc = "failed", ![i].slot = "none",
                                        ![i].outcome = "refused", ![i].fault = @ \/ h.fault]
  <2>5. PICK fault \in BOOLEAN : fault = h.fault
    BY <1>8
  <2> DEFINE k == [c EXCEPT !.pc = "failed", !.slot = "none", !.outcome = "refused",
                            !.fault = @ \/ fault]
  <2>1. client' = [client EXCEPT ![i] = k]
    <3>1. client' = [client EXCEPT ![i].pc = "failed", ![i].slot = "none",
                                   ![i].outcome = "refused", ![i].fault = @ \/ fault]
      BY <1>13, <2>5
    <3> QED BY <1>1, <3>1
  <2>2. /\ k \in ClientState /\ k.pc = "failed" /\ k.since = c.since /\ k.env = c.env
        /\ k.fault = (c.fault \/ fault)
    BY DEF ClientState, ClientPhase, Outcome
  <2> HIDE DEF k
  <2>3. c.fault => k.fault
    BY <1>8, <2>2
  <2>4. k.fault \/ MaxLag # 0 \/ \E g \in Window(c.since) : notDue(g)
    BY <1>6, <1>8, <1>13, <2>2, <2>5
  <2> QED BY <1>1, <1>2, <2>1, <2>2, <2>3, <2>4, FailsForAReason
<1> QED
  BY <1>1, <1>2, <1>3, <1>7, <1>9, <1>10, <1>11, <1>12, <1>13 DEF ReceiveResponse

LEMMA PostAttestationStutters ==
    ASSUME ProtocolInv, UNCHANGED debug, NEW i \in Instances, PostAttestation(i)
    PROVE  [Promise!Next]_(Promise!vars)
<1>1. PICK c \in ClientState : c = client[i]
  BY DEF ProtocolInv
<1> DEFINE k == [c EXCEPT !.pc = "ok"]
<1>2. /\ c.pc = "posting" /\ client' = [client EXCEPT ![i] = k]
      /\ UNCHANGED <<chain, debug>>
  BY <1>1 DEF PostAttestation
<1>3. /\ k \in ClientState /\ k.pc = "ok" /\ k.since = c.since /\ k.env = c.env
      /\ k.fault = c.fault
  BY DEF ClientState, ClientPhase
<1> HIDE DEF k
<1>4. /\ UNCHANGED <<Height, Offers>>
      /\ Boots' = [Boots EXCEPT ![i] = BootOf(k)] /\ Boots[i] = BootOf(c)
  BY <1>1, <1>2, <1>3, OneBootChanges
<1>5. BootOf(k) = BootOf(c)
  BY <1>2, <1>3 DEF BootOf, BootPhase
<1>6. Boots = [j \in Instances |-> Boots[j]]
  BY DEF Boots
<1>7. Boots' = Boots
  BY <1>4, <1>5, <1>6
<1> QED BY <1>4, <1>7 DEF Promise!vars

(* What the server does, and what becomes of its connections, is seen by   *)
(* nobody until it is answered.                                            *)
LEMMA UnseenStutters ==
    ASSUME UNCHANGED <<chain, client, debug>>
    PROVE  UNCHANGED Promise!vars
<1>1. UNCHANGED <<Height, Offers>>
  BY OffersStay
<1>2. Boots' = Boots
  BY DEF Boots, BootPhase
<1> QED BY <1>1, <1>2 DEF Promise!vars

LEMMA StepKeepsPromise ==
    PromiseInv /\ ProtocolInv' /\ [ProtocolNext]_protocolVars => [Promise!Next]_(Promise!vars)
<1> SUFFICES ASSUME PromiseInv, ProtocolInv', [ProtocolNext]_protocolVars
             PROVE  [Promise!Next]_(Promise!vars)
  OBVIOUS
<1>1. ProtocolInv
  BY DEF PromiseInv, AccessInv
<1>2. CASE MineBlock /\ UNCHANGED <<fetchVars, handler, clientVars, debug>>
  BY <1>1, <1>2, MineBlockAdvances DEF Promise!Next
<1>3. ASSUME NEW i \in Instances, UNCHANGED debug,
             GetEnv(i) \/ GetAttestation(i) \/ ClientStep(i) \/ Refill(i)
      PROVE  [Promise!Next]_(Promise!vars)
  <2>1. CASE Refill(i)
    BY <1>3, <2>1, UnseenStutters DEF Refill
  <2> QED BY <1>1, <1>3, <2>1, GetEnvBoots, AloneGoesOn, AnswerDelivers, PostAttestationStutters
       DEF ClientStep
<1>4. ASSUME NEW s \in Callers, UNCHANGED debug, ServerStep(s) \/ DropResponse(s)
      PROVE  [Promise!Next]_(Promise!vars)
  <2>1. UNCHANGED <<chain, client, debug>>
    BY <1>1, <1>4, HandlerStepKeeps
       DEF ServerStep, DropResponse, Finish, clientVars, ProtocolInv
  <2> QED BY <2>1, UnseenStutters
<1>5. CASE Crash /\ UNCHANGED debug
  BY <1>5, UnseenStutters DEF Crash
<1>6. CASE UNCHANGED protocolVars
  BY <1>6, UnseenStutters DEF protocolVars
<1> QED BY <1>2, <1>3, <1>4, <1>5, <1>6 DEF ProtocolNext

LEMMA PromiseInitially == ProtocolInit => Promise!Init
<1> SUFFICES ASSUME ProtocolInit PROVE Promise!Init
  OBVIOUS
<1>1. ProtocolInv /\ FetchTypeOK /\ StorageInv
  BY ProtocolInitEstablishes DEF ProtocolInv, ServerInv, IInv
<1>2. Height = 1
  BY DEF ProtocolInit, ServerSpecInit, ChainInit, Height
<1>3. OffersOK
  BY <1>1, OffersAreTyped
<1>4. ASSUME NEW i \in Instances
      PROVE  Offers[1][i].env = NoRelease
  <2>1. Machine[i].instance \in Apps => chain[1].latest[Machine[i].instance] = 0
    BY DEF ProtocolInit, ServerSpecInit, ChainInit, GenesisBlock
  <2>2. DueEnv(i, 1) = NoRelease
    BY <2>1 DEF DueEnv
  <2> QED BY <1>2, <1>3, <2>2 DEF OffersOK
<1>5. Boots = [i \in Instances |-> Promise!Off]
  <2>1. BootOf(PoweredOff) = Promise!Off
    <3>1. BootPhase["off"] = "off"
      BY DEF BootPhase
    <3>2. /\ PoweredOff.pc = "off" /\ PoweredOff.since = 0 /\ PoweredOff.env = NoRelease
          /\ PoweredOff.fault = FALSE
      BY DEF PoweredOff
    <3>3. BootOf(PoweredOff) = [pc |-> "off", since |-> 0, env |-> NoRelease, disturbed |-> FALSE]
      BY <3>1, <3>2, Zenon DEF BootOf
    <3> QED BY <3>3 DEF Promise!Off, Promise!NoRelease, NoRelease
  <2>2. \A i \in Instances : client[i] = PoweredOff
    BY DEF ProtocolInit
  <2>3. Boots = [i \in Instances |-> BootOf(client[i])]
    BY DEF Boots, BootOf
  <2> QED BY <2>1, <2>2, <2>3
<1> QED BY <1>2, <1>3, <1>4, <1>5 DEF Promise!Init, OffersOK, Promise!NoRelease, NoRelease

(* GetEnv against the server, with its attempts, its retries, its crashes  *)
(* and its checks made one after another, is a boot that is served in one  *)
(* step or fails for a reason (envclient.go:118-226, env.go:211-314).      *)
THEOREM ProtocolImplementsDelivery == ProtocolSpec => DeliversAsPromised
<1>1. PromiseInv => ProtocolInv
  BY DEF PromiseInv, AccessInv
<1> QED
  BY <1>1, PromiseInitEstablishes, PromiseStep, StepKeepsPromise, PromiseInitially, PTL
     DEF ProtocolSpec, DeliversAsPromised, Promise!Spec
=============================================================================
