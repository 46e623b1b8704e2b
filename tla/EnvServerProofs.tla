--------------------------- MODULE EnvServerProofs ---------------------------
(***************************************************************************)
(* Proofs about EnvServer, for any requests, releases, policies, slots,    *)
(* lag and chain length: what a 200 means, and what a 4xx means.           *)
(*                                                                         *)
(* The inductive invariant adds to that of ReleaseFetch what the phase of  *)
(* a handler says of the checks behind it: each was made at a height in    *)
(* the request's window, and that height's answer never changes again.     *)
(***************************************************************************)
EXTENDS EnvServer, ReleaseFetchProofs

(* The contract's answer for the app at height g was the release at pos. *)
ReadAt(app, pos, g) ==
    /\ chain[g].latest[app] = pos.block
    /\ pos.block # 0
    /\ pos = LastUpgrade(app, pos.block)

ReadSince(app, pos, since) == \E g \in Window(since) : ReadAt(app, pos, g)

AllowedSince(evidence, since) == \E g \in Window(since) : IsImageAllowed(evidence, g)

(* The TCB was found valid, and no earlier than height hi, up to the lag.  *)
ValidAfter(evidence, hi, since) ==
    \E ht \in Window(since) : hi <= ht + MaxLag /\ IsTCBValid(evidence, ht)

(* The policies admitted the evidence, the image first. *)
AdmittedSince(evidence, since) ==
    \E hi \in Window(since) :
        /\ IsImageAllowed(evidence, hi)
        /\ HasTEEClaims(evidence) =>
              /\ ValidAfter(evidence, hi, since)
              /\ evidence.endorsed /\ TEEModeAccepted(evidence)

NotEntitledSince(r, since) ==
    LocalStatus(r) # 200 \/ \E g \in Window(since) : ~EntitledAt(r, g)

Refused(h) == h.pc = "reply" /\ h.status \in {400, 401} /\ ~h.fault

Granting(h) == h.pc \in {"decrypt", "mnemonic", "sign"} \/ (h.pc = "reply" /\ h.status = 200)

(* What a slot's phase says, h being its state and f that of its call of   *)
(* GetLatestRelease.                                                       *)
HandlerInv(h, f) ==
    /\ h.pc = "fetch" <=> f.pc # "idle"
    /\ h.pc # "idle" => h.req \in Requests /\ h.since \in 1..Height
    /\ h.pc \in {"image", "firmware", "tcb", "fetch"} \/ Granting(h) => LocalStatus(h.req) = 200
    /\ h.pc \in {"firmware", "tcb"} =>
          /\ AllowedSince(h.req.evidence, h.since)
          /\ HasTEEClaims(h.req.evidence) /\ TEEModeAccepted(h.req.evidence)
    /\ h.pc = "tcb" => h.req.evidence.endorsed
    /\ h.pc = "fetch" \/ Granting(h) => AdmittedSince(h.req.evidence, h.since)
    /\ h.pc = "fetch" => f.app = AppOf(h.req) /\ h.since <= f.since
    /\ Granting(h) =>
          /\ ReadSince(AppOf(h.req), h.release, h.since)
          /\ ReleaseStatus(h.req, ReleaseAt(AppOf(h.req), h.release)) = 200
    /\ Refused(h) => NotEntitledSince(h.req, h.since)

ServerInv ==
    /\ IInv
    /\ debug \in DebugModes
    /\ handler \in [Callers -> HandlerStates(HandlerPhase)]
    /\ \A s \in Callers : HandlerInv(handler[s], fetch[s])
-----------------------------------------------------------------------------
(* A request that passes the local checks names an app. *)
LEMMA AppIsKnown ==
    ASSUME NEW r \in Requests, LocalStatus(r) = 200
    PROVE  AppOf(r) \in Apps
<1>1. Identified(r.evidence)
  BY DEF LocalStatus, Attested
<1> QED BY <1>1, AppAssumption DEF AppOf, Identified

(* Whatever height a node answers from is in the window of a request. *)
LEMMA ViewsAreInWindow ==
    ASSUME Height \in Nat, NEW since \in 1..Height
    PROVE  Views \subseteq Window(since)
BY ChainAssumption DEF Views, Window

(* ... and, at the later of two checks, no more than the lag before the    *)
(* height of the first.                                                    *)
LEMMA ImageFirst ==
    ASSUME Height \in Nat, NEW since \in 1..Height, NEW evidence, AllowedSince(evidence, since),
           NEW ht \in Views
    PROVE  \E hi \in Window(since) : IsImageAllowed(evidence, hi) /\ hi <= ht + MaxLag
BY ChainAssumption DEF AllowedSince, Views, Window

(* The blocks there are stay as they are. *)
Grows ==
    /\ UNCHANGED debug
    /\ Height \in Nat /\ Height' \in Nat /\ Height <= Height'
    /\ \A h \in 1..Height : chain'[h] = chain[h]

(* A request is entitled at a height for good, or never. *)
LEMMA EntitledForGood ==
    ASSUME StorageInv, Grows, NEW r \in Requests, NEW g \in 1..Height, LocalStatus(r) = 200
    PROVE  EntitledAt(r, g)' <=> EntitledAt(r, g)
<1> DEFINE app == AppOf(r)
           b   == chain[g].latest[app]
<1>1. app \in Apps /\ chain'[g] = chain[g]
  BY AppIsKnown DEF Grows
<1>2. b \in 0..g
  BY <1>1 DEF StorageInv
<1>3. b # 0 => chain'[b] = chain[b]
  BY <1>2 DEF Grows
<1>4. LocalStatus(r)' = LocalStatus(r) /\ TEEModeAccepted(r.evidence)' = TEEModeAccepted(r.evidence)
  BY DEF Grows, LocalStatus, Attested, OverrideRefused, HostAccepted, TEEModeAccepted
<1>5. /\ IsImageAllowed(r.evidence, g)' <=> IsImageAllowed(r.evidence, g)
      /\ IsTCBValid(r.evidence, g)' <=> IsTCBValid(r.evidence, g)
  <2>1. IsImageAllowed(r.evidence, g)' <=> IsImageAllowed(r.evidence, g)
    BY <1>1 DEF IsImageAllowed
  <2>2. IsTCBValid(r.evidence, g)' <=> IsTCBValid(r.evidence, g)
    <3> HIDE DEF app, b
    <3>1. chain'[g].policy.minTcb = chain[g].policy.minTcb
      BY <1>1
    <3> QED BY ONLY <3>1 DEF IsTCBValid, PackTCB
  <2> QED BY <2>1, <2>2
<1>6. chain'[g].latest[app] = b
  BY <1>1
<1>7. CASE b = 0
  BY <1>6, <1>7 DEF EntitledAt
<1>8. CASE b # 0
  <2>1. LastRelease(app, g)' = LastRelease(app, g)
    BY <1>3, <1>6, <1>8 DEF LastRelease
  <2> QED BY <1>4, <1>5, <1>6, <1>8, <2>1 DEF EntitledAt
<1> QED BY <1>7, <1>8

(* What was read is not read otherwise later. *)
LEMMA ReadForGood ==
    ASSUME StorageInv, Grows, NEW app \in Apps, NEW pos, NEW g \in 1..Height, ReadAt(app, pos, g)
    PROVE  ReadAt(app, pos, g)' /\ ReleaseAt(app, pos)' = ReleaseAt(app, pos)
<1>1. chain'[g] = chain[g] /\ pos.block \in 0..g /\ pos.block # 0
  BY DEF Grows, StorageInv, ReadAt
<1>2. chain'[pos.block] = chain[pos.block]
  BY <1>1 DEF Grows
<1> QED BY <1>1, <1>2 DEF ReadAt, LastUpgrade, ReleaseAt

(* No step of the chain, or of another slot, undoes what is known of one.  *)
LEMMA InvariantSurvives ==
    ASSUME StorageInv, Grows,
           NEW h \in HandlerStates(HandlerPhase), NEW f, HandlerInv(h, f)
    PROVE  HandlerInv(h, f)'
<1> DEFINE evidence == h.req.evidence
           app      == AppOf(h.req)
<1>1. \A since \in Nat : \A g \in Window(since) :
         g \in 1..Height /\ g \in Window(since)' /\ chain'[g] = chain[g]
  BY DEF Grows, Window
<1>0. h.since \in Nat
  BY DEF HandlerStates
<1>2. AllowedSince(evidence, h.since) => AllowedSince(evidence, h.since)'
  BY <1>0, <1>1 DEF AllowedSince, IsImageAllowed
<1>3. \A hi : ValidAfter(evidence, hi, h.since) => ValidAfter(evidence, hi, h.since)'
  BY <1>0, <1>1 DEF ValidAfter, IsTCBValid
<1>4. TEEModeAccepted(evidence)' = TEEModeAccepted(evidence)
  BY DEF Grows, TEEModeAccepted
<1>5. LocalStatus(h.req)' = LocalStatus(h.req)
  BY DEF Grows, LocalStatus, Attested, OverrideRefused, HostAccepted
<1>6. AdmittedSince(evidence, h.since) => AdmittedSince(evidence, h.since)'
  BY <1>0, <1>1, <1>3, <1>4 DEF AdmittedSince, IsImageAllowed
<1>7. h.pc # "idle" => h.since \in 1..Height'
  BY DEF HandlerInv, Grows
<1>8. ASSUME Granting(h)
      PROVE  /\ ReadSince(app, h.release, h.since)'
             /\ ReleaseStatus(h.req, ReleaseAt(app, h.release))' = 200
  <2>1. app \in Apps
    BY <1>8, AppIsKnown DEF HandlerInv, Granting
  <2>2. PICK g \in Window(h.since) : ReadAt(app, h.release, g)
    BY <1>8 DEF HandlerInv, ReadSince
  <2>3. ReadAt(app, h.release, g)' /\ ReleaseAt(app, h.release)' = ReleaseAt(app, h.release)
    BY <1>0, <1>1, <2>1, <2>2, ReadForGood
  <2> QED BY <1>0, <1>1, <1>8, <2>2, <2>3 DEF HandlerInv, ReadSince, ReleaseStatus
<1>9. ASSUME Refused(h)
      PROVE  NotEntitledSince(h.req, h.since)'
  <2>1. h.req \in Requests /\ NotEntitledSince(h.req, h.since)
    BY <1>9 DEF HandlerInv, Refused
  <2>2. CASE LocalStatus(h.req) = 200
    <3>1. PICK g \in Window(h.since) : ~EntitledAt(h.req, g)
      BY <2>1, <2>2 DEF NotEntitledSince
    <3>2. ~EntitledAt(h.req, g)'
      BY <1>0, <1>1, <2>1, <2>2, <3>1, EntitledForGood
    <3> QED BY <1>0, <1>1, <3>1, <3>2 DEF NotEntitledSince
  <2>3. CASE LocalStatus(h.req) # 200
    BY <1>5, <2>3 DEF NotEntitledSince
  <2> QED BY <2>2, <2>3
<1> QED BY <1>2, <1>4, <1>5, <1>6, <1>7, <1>8, <1>9 DEF HandlerInv, Granting, Refused
-----------------------------------------------------------------------------
(* The records a step makes of a slot's state. *)
LEMMA PcUpdate ==
    ASSUME NEW h \in HandlerStates(HandlerPhase), NEW pc \in HandlerPhase
    PROVE  [h EXCEPT !.pc = pc] \in HandlerStates(HandlerPhase)
BY DEF HandlerStates

LEMMA DecryptingIsState ==
    ASSUME NEW h \in HandlerStates(HandlerPhase), NEW release \in Position
    PROVE  /\ Decrypting(h, release) \in HandlerStates(HandlerPhase)
           /\ Decrypting(h, release).pc = "decrypt"
           /\ Decrypting(h, release).req = h.req
           /\ Decrypting(h, release).since = h.since
           /\ Decrypting(h, release).release = release
BY DEF Decrypting, HandlerStates, HandlerPhase

(* A step of one slot is right if the slot's new state is. *)
LEMMA SlotSuffices ==
    ASSUME ServerInv, IInv', UNCHANGED <<chain, debug>>, NEW s \in Callers,
           \A d \in Callers \ {s} : fetch'[d] = fetch[d],
           \E g \in HandlerStates(HandlerPhase) :
              handler' = [handler EXCEPT ![s] = g] /\ HandlerInv(g, fetch'[s])
    PROVE  ServerInv'
<1>1. PICK g \in HandlerStates(HandlerPhase) :
         handler' = [handler EXCEPT ![s] = g] /\ HandlerInv(g, fetch'[s])
  OBVIOUS
<1>2. Grows /\ StorageInv
  BY DEF Grows, ServerInv, IInv, FetchTypeOK, Height
<1>3. handler' \in [Callers -> HandlerStates(HandlerPhase)]
  BY <1>1 DEF ServerInv
<1>4. ASSUME NEW d \in Callers
      PROVE  HandlerInv(handler'[d], fetch'[d])
  BY <1>1 DEF ServerInv
<1>5. ASSUME NEW d \in Callers
      PROVE  HandlerInv(handler[d], fetch[d])'
  BY <1>2, <1>3, <1>4, InvariantSurvives
<1> QED BY <1>3, <1>5 DEF ServerInv

(* Likewise for one that makes no call to GetLatestRelease. *)
LEMMA LocalSuffices ==
    ASSUME ServerInv, UNCHANGED <<chain, fetchVars, debug>>, NEW s \in Callers,
           \E g \in HandlerStates(HandlerPhase) :
              handler' = [handler EXCEPT ![s] = g] /\ HandlerInv(g, fetch[s])
    PROVE  ServerInv'
<1>1. IInv'
  BY StutterPreserves DEF ServerInv
<1> QED BY <1>1, SlotSuffices DEF fetchVars

LEMMA ArrivingIsState ==
    ASSUME NEW r \in Requests, NEW status \in {200, 400, 401}, Height \in Nat
    PROVE  /\ Arriving(r, status) \in HandlerStates(HandlerPhase)
           /\ Arriving(r, status).pc = IF status = 200 THEN "image" ELSE "reply"
           /\ Arriving(r, status).req = r
           /\ Arriving(r, status).status = status
           /\ Arriving(r, status).since = Height
<1>1. NoRelease \in Position
  BY DEF NoRelease, Position
<1> QED BY <1>1 DEF Arriving, HandlerStates, HandlerPhase

LEMMA ReceivePreserves ==
    ASSUME ServerInv, UNCHANGED debug, NEW s \in Callers, NEW r \in Requests, Receive(s, r)
    PROVE  ServerInv'
<1> DEFINE g == Arriving(r, LocalStatus(r))
<1>1. Height \in Nat /\ Height >= 1 /\ fetch[s].pc = "idle"
  BY DEF ServerInv, IInv, FetchTypeOK, Height, HandlerInv, Receive
<1>2. LocalStatus(r) \in {200, 400, 401}
  BY DEF LocalStatus
<1>3. /\ g \in HandlerStates(HandlerPhase)
      /\ g.pc = IF LocalStatus(r) = 200 THEN "image" ELSE "reply"
      /\ g.req = r /\ g.status = LocalStatus(r) /\ g.since = Height
  BY <1>1, <1>2, ArrivingIsState
<1>4. handler' = [handler EXCEPT ![s] = g] /\ UNCHANGED <<chain, fetchVars>>
  BY DEF Receive
<1> HIDE DEF g
<1>5. HandlerInv(g, fetch[s])
  BY <1>1, <1>2, <1>3 DEF HandlerInv, Granting, Refused, NotEntitledSince
<1> QED BY <1>3, <1>4, <1>5, LocalSuffices

(* An answer that is a refusal goes to a request that is not entitled at   *)
(* some height, or for which a remote call failed.                         *)
LEMMA AnswerPreserves ==
    ASSUME ServerInv, IInv', UNCHANGED <<chain, debug>>, NEW s \in Callers,
           \A d \in Callers \ {s} : fetch'[d] = fetch[d],
           fetch'[s].pc = "idle", handler[s].pc # "idle",
           NEW status \in {200, 400, 401, 500},
           \/ RespondFault(s, status) /\ status # 200
           \/ /\ Respond(s, status)
              /\ status = 200 => Granting(handler[s])
              /\ status \in {200, 500} \/ NotEntitledSince(handler[s].req, handler[s].since)
    PROVE  ServerInv'
<1>1. handler[s] \in HandlerStates(HandlerPhase) /\ HandlerInv(handler[s], fetch[s])
  BY DEF ServerInv
<1>2. PICK h \in HandlerStates(HandlerPhase) : h = handler[s]
  BY <1>1
<1>5. HandlerInv(h, fetch[s]) /\ h.pc # "idle"
  BY <1>1, <1>2
<1>3. CASE RespondFault(s, status) /\ status # 200
  <2> DEFINE g == Answering(h, status, TRUE)
  <2>1. /\ g \in HandlerStates(HandlerPhase)
        /\ g.pc = "reply" /\ g.status = status /\ g.req = h.req /\ g.since = h.since
        /\ g.release = h.release
    BY DEF Answering, HandlerStates, HandlerPhase
  <2>2. g.fault
    BY DEF Answering
  <2>3. handler' = [handler EXCEPT ![s] = g]
    BY <1>2, <1>3 DEF RespondFault
  <2> HIDE DEF g
  <2>4. HandlerInv(g, fetch'[s])
    <3>1. ~Granting(g) /\ ~Refused(g)
      BY <1>3, <2>1, <2>2 DEF Granting, Refused
    <3> QED BY <1>5, <2>1, <3>1 DEF HandlerInv
  <2> QED BY <2>1, <2>3, <2>4, SlotSuffices
<1>4. CASE /\ Respond(s, status)
           /\ status = 200 => Granting(handler[s])
           /\ status \in {200, 500} \/ NotEntitledSince(handler[s].req, handler[s].since)
  <2> DEFINE g == Answering(h, status, FALSE)
  <2>1. /\ g \in HandlerStates(HandlerPhase)
        /\ g.pc = "reply" /\ g.status = status /\ g.req = h.req /\ g.since = h.since
        /\ g.release = h.release
    BY DEF Answering, HandlerStates, HandlerPhase
  <2>3. handler' = [handler EXCEPT ![s] = g]
    BY <1>2, <1>4 DEF Respond
  <2> HIDE DEF g
  <2>4. HandlerInv(g, fetch'[s])
    <3>1. Granting(g) => Granting(h)
      BY <1>2, <1>4, <2>1 DEF Granting
    <3>2. Refused(g) => NotEntitledSince(g.req, g.since)
      BY <1>2, <1>4, <2>1 DEF Refused
    <3> QED BY <1>5, <2>1, <3>1, <3>2 DEF HandlerInv
  <2> QED BY <2>1, <2>3, <2>4, SlotSuffices
<1> QED BY <1>3, <1>4

LEMMA LocalAnswerPreserves ==
    ASSUME ServerInv, UNCHANGED <<chain, fetchVars, debug>>, NEW s \in Callers,
           handler[s].pc \notin {"idle", "fetch"},
           NEW status \in {200, 400, 401, 500},
           \/ RespondFault(s, status) /\ status # 200
           \/ /\ Respond(s, status)
              /\ status = 200 => Granting(handler[s])
              /\ status \in {200, 500} \/ NotEntitledSince(handler[s].req, handler[s].since)
    PROVE  ServerInv'
<1>1. fetch'[s].pc = "idle" /\ \A d \in Callers \ {s} : fetch'[d] = fetch[d]
  BY DEF ServerInv, HandlerInv, fetchVars
<1>2. IInv'
  BY StutterPreserves DEF ServerInv
<1> QED BY <1>1, <1>2, AnswerPreserves

(* A check has passed. *)
LEMMA GotoPreserves ==
    ASSUME ServerInv, UNCHANGED <<chain, fetchVars, debug>>, NEW s \in Callers,
           handler[s].pc \notin {"idle", "fetch"},
           NEW pc \in {"firmware", "tcb", "mnemonic", "sign"}, Goto(s, pc),
           pc \in {"firmware", "tcb"} =>
              /\ handler[s].pc \in {"image", "firmware"}
              /\ AllowedSince(handler[s].req.evidence, handler[s].since)
              /\ HasTEEClaims(handler[s].req.evidence) /\ TEEModeAccepted(handler[s].req.evidence),
           pc = "tcb" => handler[s].req.evidence.endorsed,
           pc \in {"mnemonic", "sign"} => Granting(handler[s])
    PROVE  ServerInv'
<1>1. handler[s] \in HandlerStates(HandlerPhase) /\ HandlerInv(handler[s], fetch[s])
  BY DEF ServerInv
<1>2. PICK h \in HandlerStates(HandlerPhase) : h = handler[s]
  BY <1>1
<1> DEFINE g == [h EXCEPT !.pc = pc]
<1>3. g \in HandlerStates(HandlerPhase)
  BY PcUpdate DEF HandlerPhase
<1>4. /\ g.pc = pc /\ g.req = h.req /\ g.since = h.since
      /\ g.release = h.release
  BY DEF HandlerStates
<1>5. handler' = [handler EXCEPT ![s] = g]
  BY <1>2 DEF Goto, ServerInv
<1> HIDE DEF g
<1>6. HandlerInv(g, fetch[s])
  <2>1. Granting(g) <=> pc \in {"mnemonic", "sign"}
    BY <1>4 DEF Granting
  <2>2. Granting(g) => Granting(h)
    BY <1>2, <2>1
  <2>3. ~Refused(g)
    BY <1>4 DEF Refused
  <2> QED BY <1>1, <1>2, <1>4, <2>1, <2>2, <2>3 DEF HandlerInv
<1> QED BY <1>3, <1>5, <1>6, LocalSuffices

(* The policies have admitted the request: its release is asked for. *)
LEMMA AdmissionPreserves ==
    ASSUME ServerInv, UNCHANGED debug, NEW s \in Callers,
           handler[s].pc \in {"image", "tcb"},
           AdmittedSince(handler[s].req.evidence, handler[s].since),
           Goto(s, "fetch"), GetLatestRelease(s, AppOf(handler[s].req))
    PROVE  ServerInv'
<1> DEFINE h == handler[s]
           g == [h EXCEPT !.pc = "fetch"]
<1>1. /\ handler \in [Callers -> HandlerStates(HandlerPhase)]
      /\ h \in HandlerStates(HandlerPhase) /\ HandlerInv(h, fetch[s])
      /\ fetch \in [Callers -> FetchState] /\ Height \in Nat
  BY DEF ServerInv, IInv, FetchTypeOK, Height
<1>2. h.req \in Requests /\ h.since \in 1..Height /\ LocalStatus(h.req) = 200
  BY <1>1 DEF HandlerInv
<1>3. IInv' /\ UNCHANGED chain
  BY <1>2, AppIsKnown, InvocationPreserves DEF ServerInv, GetLatestRelease
<1>4. /\ \A d \in Callers \ {s} : fetch'[d] = fetch[d]
      /\ fetch'[s].pc = "blockNumber" /\ fetch'[s].app = AppOf(h.req)
      /\ fetch'[s].since = Height
  BY <1>1 DEF GetLatestRelease, NotFetching
<1>5. g.pc = "fetch" /\ g.req = h.req /\ g.since = h.since
  BY <1>1 DEF HandlerStates
<1>8. g \in HandlerStates(HandlerPhase)
  BY <1>1, PcUpdate DEF HandlerPhase
<1>6. HandlerInv(g, fetch'[s])
  <2> HIDE DEF g, h
  <2> QED BY <1>2, <1>4, <1>5 DEF HandlerInv, Granting, Refused, h
<1>7. handler' = [handler EXCEPT ![s] = g]
  BY <1>1 DEF Goto
<1> QED BY <1>3, <1>4, <1>6, <1>7, <1>8, SlotSuffices

-----------------------------------------------------------------------------
(* One lemma per action. *)
LEMMA CheckImagePreserves ==
    ASSUME ServerInv, UNCHANGED debug, NEW s \in Callers, CheckImage(s)
    PROVE  ServerInv'
<1> DEFINE r     == handler[s].req
           since == handler[s].since
<1>1. /\ handler[s].pc = "image" /\ r \in Requests /\ since \in 1..Height
      /\ LocalStatus(r) = 200 /\ Height \in Nat
  BY DEF CheckImage, ServerInv, HandlerInv, IInv, FetchTypeOK, Height
<1>2. PICK g \in Views :
         \/ /\ ImageVerdict(r.evidence, g) = "refused"
            /\ Respond(s, 401) /\ UNCHANGED <<chain, fetchVars>>
         \/ /\ ImageVerdict(r.evidence, g) = "firmware"
            /\ Goto(s, "firmware") /\ UNCHANGED <<chain, fetchVars>>
         \/ /\ ImageVerdict(r.evidence, g) = "admitted"
            /\ Goto(s, "fetch") /\ GetLatestRelease(s, AppOf(r))
  BY DEF CheckImage
<1>3. g \in Window(since)
  BY <1>1, ViewsAreInWindow
<1>4. CASE ImageVerdict(r.evidence, g) = "refused"
  <2>1. ~EntitledAt(r, g)
    BY <1>4 DEF ImageVerdict, EntitledAt
  <2>2. NotEntitledSince(r, since)
    BY <1>3, <2>1 DEF NotEntitledSince
  <2> QED BY <1>1, <1>2, <1>4, <2>2, LocalAnswerPreserves
<1>5. CASE ImageVerdict(r.evidence, g) = "firmware"
  <2>1. IsImageAllowed(r.evidence, g) /\ HasTEEClaims(r.evidence) /\ TEEModeAccepted(r.evidence)
    BY <1>5 DEF ImageVerdict
  <2>2. AllowedSince(r.evidence, since)
    BY <1>3, <2>1 DEF AllowedSince
  <2> QED BY <1>1, <1>2, <1>5, <2>1, <2>2, GotoPreserves
<1>6. CASE ImageVerdict(r.evidence, g) = "admitted"
  <2>1. IsImageAllowed(r.evidence, g) /\ ~HasTEEClaims(r.evidence)
    BY <1>6 DEF ImageVerdict
  <2>2. AdmittedSince(r.evidence, since)
    BY <1>3, <2>1 DEF AdmittedSince
  <2> QED BY <1>1, <1>2, <1>6, <2>2, AdmissionPreserves
<1> QED BY <1>2, <1>4, <1>5, <1>6

LEMMA VerifyFirmwarePreserves ==
    ASSUME ServerInv, UNCHANGED debug, NEW s \in Callers, VerifyFirmware(s)
    PROVE  ServerInv'
<1> DEFINE r     == handler[s].req
           since == handler[s].since
<1>1. /\ handler[s].pc = "firmware" /\ r \in Requests /\ since \in 1..Height
      /\ AllowedSince(r.evidence, since) /\ HasTEEClaims(r.evidence) /\ TEEModeAccepted(r.evidence)
      /\ UNCHANGED <<chain, fetchVars>> /\ Height \in Nat
  BY DEF VerifyFirmware, ServerInv, HandlerInv, IInv, FetchTypeOK, Height
<1>2. CASE r.evidence.endorsed
  <2>1. Goto(s, "tcb")
    BY <1>2 DEF VerifyFirmware
  <2> QED BY <1>1, <1>2, <2>1, GotoPreserves
<1>3. CASE ~r.evidence.endorsed
  <2>1. Respond(s, 401)
    BY <1>3 DEF VerifyFirmware
  <2>2. ~EntitledAt(r, since)
    BY <1>1, <1>3 DEF EntitledAt
  <2>3. since \in Window(since)
    BY <1>1, ChainAssumption DEF Window
  <2>4. NotEntitledSince(r, since)
    BY <2>2, <2>3 DEF NotEntitledSince
  <2> QED BY <1>1, <2>1, <2>4, LocalAnswerPreserves
<1> QED BY <1>2, <1>3

LEMMA CheckTCBPreserves ==
    ASSUME ServerInv, UNCHANGED debug, NEW s \in Callers, CheckTCB(s)
    PROVE  ServerInv'
<1> DEFINE r     == handler[s].req
           since == handler[s].since
<1>1. /\ handler[s].pc = "tcb" /\ r \in Requests /\ since \in 1..Height
      /\ AllowedSince(r.evidence, since) /\ HasTEEClaims(r.evidence) /\ TEEModeAccepted(r.evidence)
      /\ r.evidence.endorsed /\ Height \in Nat
  BY DEF CheckTCB, ServerInv, HandlerInv, IInv, FetchTypeOK, Height
<1>2. PICK g \in Views :
         \/ /\ ~IsTCBValid(r.evidence, g)
            /\ Respond(s, 401) /\ UNCHANGED <<chain, fetchVars>>
         \/ /\ IsTCBValid(r.evidence, g)
            /\ Goto(s, "fetch") /\ GetLatestRelease(s, AppOf(r))
  BY DEF CheckTCB
<1>3. g \in Window(since)
  BY <1>1, ViewsAreInWindow
<1>4. CASE ~IsTCBValid(r.evidence, g)
  <2>1. ~EntitledAt(r, g)
    BY <1>1, <1>4 DEF EntitledAt
  <2>2. NotEntitledSince(r, since)
    BY <1>3, <2>1 DEF NotEntitledSince
  <2> QED BY <1>1, <1>2, <1>4, <2>2, LocalAnswerPreserves
<1>5. CASE IsTCBValid(r.evidence, g)
  <2>1. AdmittedSince(r.evidence, since)
    BY <1>1, <1>2, <1>3, <1>5, ImageFirst DEF AdmittedSince, ValidAfter
  <2> QED BY <1>1, <1>2, <1>5, <2>1, AdmissionPreserves
<1> QED BY <1>4, <1>5

LEMMA FetchReleasePreserves ==
    ASSUME ServerInv, UNCHANGED debug, NEW s \in Callers, FetchRelease(s)
    PROVE  ServerInv'
<1>1. PICK h \in HandlerStates(HandlerPhase) : h = handler[s]
  BY DEF ServerInv
<1>2. FetchStep(s) /\ UNCHANGED <<chain, handler>>
  BY DEF FetchRelease, FetchStep, FetchBlockNumber, FetchEvents, FetchError
<1>3. IInv'
  BY <1>2, InvocationPreserves DEF ServerInv
<1>4. /\ \A d \in Callers \ {s} : fetch'[d] = fetch[d]
      /\ fetch[s].pc # "idle" /\ fetch'[s].pc # "idle"
      /\ fetch'[s].app = fetch[s].app /\ fetch'[s].since = fetch[s].since
  BY <1>2 DEF FetchStep, FetchBlockNumber, FetchEvents, FetchError,
              ServerInv, IInv, FetchTypeOK, FetchState
<1>5. HandlerInv(h, fetch'[s])
  BY <1>1, <1>4 DEF ServerInv, HandlerInv
<1>6. handler' = [handler EXCEPT ![s] = h]
  BY <1>1, <1>2 DEF ServerInv
<1> QED BY <1>2, <1>3, <1>4, <1>5, <1>6, SlotSuffices

(* What was read at height g is what entitlement at g is about. *)
LEMMA EntitledMeansUsed ==
    ASSUME NEW r, NEW pos, NEW g, ReadAt(AppOf(r), pos, g), EntitledAt(r, g)
    PROVE  /\ ReleaseStatus(r, ReleaseAt(AppOf(r), pos)) = 200
           /\ SecretsStatus(r, ReleaseAt(AppOf(r), pos)) = 200
<1>1. pos.logIndex = Len(chain[pos.block].upgrades[AppOf(r)])
  BY DEF ReadAt, LastUpgrade
<1>2. LastRelease(AppOf(r), g) = ReleaseAt(AppOf(r), pos)
  BY <1>1 DEF ReadAt, LastRelease, ReleaseAt
<1> QED BY <1>2 DEF EntitledAt

LEMMA AuthorizePreserves ==
    ASSUME ServerInv, UNCHANGED debug, NEW s \in Callers, Authorize(s)
    PROVE  ServerInv'
<1> DEFINE r       == handler[s].req
           since   == handler[s].since
           f       == fetch[s]
           release == ReleaseAt(AppOf(r), f.release)
           status  == ReleaseStatus(r, release)
<1>1. /\ handler[s].pc = "fetch" /\ r \in Requests /\ since \in 1..Height
      /\ LocalStatus(r) = 200 /\ AdmittedSince(r.evidence, since)
      /\ f.app = AppOf(r) /\ since <= f.since /\ Height \in Nat
      /\ f \in FetchState /\ FetchInv(f)
  BY DEF Authorize, ServerInv, HandlerInv, IInv, FetchTypeOK, Height
<1>2. f.pc \in {"done", "failed", "error"} /\ UNCHANGED <<chain, debug>>
  BY DEF Authorize, FetchReturn
<1>3. /\ \A d \in Callers \ {s} : fetch'[d] = fetch[d]
      /\ fetch'[s].pc = "idle"
  BY DEF Authorize, FetchReturn, NotFetching, ServerInv, IInv, FetchTypeOK
<1>4. IInv'
  BY InvocationPreserves DEF Authorize, ServerInv
<1>5. CASE f.pc = "error"
  <2>1. RespondFault(s, 500)
    BY <1>5 DEF Authorize
  <2> QED BY <1>1, <1>2, <1>3, <1>4, <2>1, AnswerPreserves
<1>6. CASE f.pc = "failed"
  <2>1. Respond(s, 500)
    BY <1>6 DEF Authorize
  <2> QED BY <1>1, <1>2, <1>3, <1>4, <2>1, AnswerPreserves
<1>7. CASE f.pc = "done"
  <2>1. f.release \in Position /\ f.since \in 1..Height
    BY <1>1, <1>7 DEF FetchInv, FetchState
  <2>2. PICK g \in Window(f.since) : ReadAt(AppOf(r), f.release, g)
    BY <1>1, <1>7 DEF FetchInv, ReadInWindow, ReadAt
  <2>3. g \in Window(since)
    BY <1>1, <2>1, <2>2, ChainAssumption DEF Window
  <2>4. CASE status # 200
    <3>1. ~EntitledAt(r, g)
      BY <2>2, <2>4, EntitledMeansUsed
    <3>2. NotEntitledSince(r, since)
      BY <2>3, <3>1 DEF NotEntitledSince
    <3>3. status \in {401, 500}
      BY <2>4 DEF ReleaseStatus
    <3>4. Respond(s, status)
      BY <1>7, <2>4 DEF Authorize
    <3> QED BY <1>1, <1>2, <1>3, <1>4, <2>4, <3>2, <3>3, <3>4, AnswerPreserves
  <2>5. CASE status = 200
    <3>1. PICK h \in HandlerStates(HandlerPhase) : h = handler[s]
      BY DEF ServerInv
    <3> DEFINE d == Decrypting(h, f.release)
    <3>2. /\ d \in HandlerStates(HandlerPhase)
          /\ d.pc = "decrypt" /\ d.req = h.req /\ d.since = h.since
          /\ d.release = f.release
      BY <2>1, DecryptingIsState
    <3>3. handler' = [handler EXCEPT ![s] = d]
      BY <1>7, <2>5, <3>1 DEF Authorize
    <3>4. ReadSince(AppOf(r), f.release, since)
      BY <2>2, <2>3 DEF ReadSince
    <3> HIDE DEF d
    <3>5. HandlerInv(d, fetch'[s])
      <4>1. ~Refused(d) /\ Granting(d)
        BY <3>2 DEF Refused, Granting
      <4> QED BY <1>1, <1>3, <2>5, <3>1, <3>2, <3>4, <4>1 DEF HandlerInv
    <3> QED BY <1>2, <1>3, <1>4, <3>2, <3>3, <3>5, SlotSuffices
  <2> QED BY <2>4, <2>5
<1> QED BY <1>2, <1>5, <1>6, <1>7

LEMMA DecryptEnvPreserves ==
    ASSUME ServerInv, UNCHANGED debug, NEW s \in Callers, DecryptEnv(s)
    PROVE  ServerInv'
<1> DEFINE r       == handler[s].req
           since   == handler[s].since
           release == ReleaseAt(AppOf(r), handler[s].release)
           status  == SecretsStatus(r, release)
<1>1. /\ handler[s].pc = "decrypt" /\ UNCHANGED <<chain, fetchVars>>
      /\ Granting(handler[s])
      /\ ReadSince(AppOf(r), handler[s].release, since)
  BY DEF DecryptEnv, ServerInv, HandlerInv, Granting
<1>2. CASE status = 200
  <2>1. Goto(s, "mnemonic")
    BY <1>2 DEF DecryptEnv
  <2> QED BY <1>1, <2>1, GotoPreserves
<1>3. CASE status # 200
  <2>1. Respond(s, status)
    BY <1>3 DEF DecryptEnv
  <2>2. status \in {400, 401, 500}
    BY <1>3 DEF SecretsStatus, DecryptStatus
  <2>3. PICK g \in Window(since) : ReadAt(AppOf(r), handler[s].release, g)
    BY <1>1 DEF ReadSince
  <2>4. ~EntitledAt(r, g)
    BY <1>3, <2>3, EntitledMeansUsed
  <2>5. NotEntitledSince(r, since)
    BY <2>3, <2>4 DEF NotEntitledSince
  <2> QED BY <1>1, <1>3, <2>1, <2>2, <2>5, LocalAnswerPreserves
<1> QED BY <1>2, <1>3

(* The actions that only move a handler on, or fail it. *)
LEMMA OtherStepsPreserve ==
    ASSUME ServerInv, UNCHANGED debug, NEW s \in Callers,
           PolicyError(s) \/ DeriveMnemonic(s) \/ SignResponse(s) \/ KmsError(s)
    PROVE  ServerInv'
<1>1. CASE PolicyError(s)
  BY <1>1, LocalAnswerPreserves DEF PolicyError
<1>2. CASE DeriveMnemonic(s)
  BY <1>2, GotoPreserves DEF DeriveMnemonic, Granting
<1>3. CASE SignResponse(s)
  BY <1>3, LocalAnswerPreserves DEF SignResponse, Granting
<1>4. CASE KmsError(s)
  BY <1>4, LocalAnswerPreserves DEF KmsError
<1> QED BY <1>1, <1>2, <1>3, <1>4

LEMMA FinishPreserves ==
    ASSUME ServerInv, UNCHANGED debug, NEW s \in Callers, Finish(s)
    PROVE  ServerInv'
<1>1. NotHandling \in HandlerStates(HandlerPhase)
  BY DEF NotHandling, HandlerStates, HandlerPhase, NoRelease, Position
<1>2. fetch[s].pc = "idle" /\ UNCHANGED <<chain, fetchVars>>
  BY DEF Finish, ServerInv, HandlerInv
<1>3. HandlerInv(NotHandling, fetch[s])
  BY <1>2 DEF HandlerInv, NotHandling, Granting, Refused
<1> QED BY <1>1, <1>2, <1>3, LocalSuffices DEF Finish

-----------------------------------------------------------------------------
LEMMA ServerInitEstablishes == ServerSpecInit => ServerInv
<1> SUFFICES ASSUME ServerSpecInit PROVE ServerInv
  OBVIOUS
<1>1. IInv
  BY InitEstablishes DEF ServerSpecInit, Init
<1>2. NotHandling \in HandlerStates(HandlerPhase)
  BY DEF NotHandling, HandlerStates, HandlerPhase, NoRelease, Position
<1>3. /\ debug \in DebugModes /\ handler \in [Callers -> HandlerStates(HandlerPhase)]
      /\ \A s \in Callers : handler[s] = NotHandling /\ fetch[s].pc = "idle"
  BY <1>2 DEF ServerSpecInit, ServerInit, FetchInit, NotFetching
<1>4. ASSUME NEW s \in Callers
      PROVE  HandlerInv(handler[s], fetch[s])
  BY <1>3 DEF HandlerInv, NotHandling, Granting, Refused
<1> QED BY <1>1, <1>3, <1>4 DEF ServerInv

LEMMA ServerMineBlockPreserves ==
    ASSUME ServerInv, MineBlock, UNCHANGED <<fetchVars, handler, debug>>
    PROVE  ServerInv'
<1>1. IInv'
  BY MineBlockPreserves DEF ServerInv
<1>2. /\ StorageInv /\ Height \in Nat /\ Height' = Height + 1
      /\ \A h \in 1..Height : chain'[h] = chain[h]
  BY MineBlockAppends DEF ServerInv, IInv, FetchTypeOK, Height
<1>3. Grows
  BY <1>2 DEF Grows
<1>4. ASSUME NEW s \in Callers
      PROVE  HandlerInv(handler[s], fetch[s])'
  <2>1. PICK h \in HandlerStates(HandlerPhase), f \in FetchState :
           h = handler[s] /\ f = fetch[s]
    BY DEF ServerInv, IInv, FetchTypeOK
  <2>2. HandlerInv(h, f)'
    BY <1>2, <1>3, <2>1, InvariantSurvives DEF ServerInv
  <2> QED BY <2>1, <2>2 DEF fetchVars
<1> QED BY <1>1, <1>4 DEF ServerInv

(* ServerInv is inductive. *)
THEOREM ServerInvariance == ServerSpec => []ServerInv
<1>1. ServerInv /\ [ServerNext]_serverVars => ServerInv'
  <2> SUFFICES ASSUME ServerInv, [ServerNext]_serverVars PROVE ServerInv'
    OBVIOUS
  <2>1. CASE MineBlock /\ UNCHANGED <<fetchVars, handler, debug>>
    BY <2>1, ServerMineBlockPreserves
  <2>2. ASSUME NEW s \in Callers, UNCHANGED debug,
               \/ \E r \in Requests : Receive(s, r)
               \/ HandlerStep(s)
               \/ Finish(s)
        PROVE  ServerInv'
    <3>1. CASE \E r \in Requests : Receive(s, r)
      BY <2>2, <3>1, ReceivePreserves
    <3>2. CASE HandlerStep(s)
      BY <2>2, <3>2, CheckImagePreserves, VerifyFirmwarePreserves, CheckTCBPreserves,
         FetchReleasePreserves, AuthorizePreserves, DecryptEnvPreserves, OtherStepsPreserve
         DEF HandlerStep
    <3>3. CASE Finish(s)
      BY <2>2, <3>3, FinishPreserves
    <3> QED BY <2>2, <3>1, <3>2, <3>3
  <2>3. CASE UNCHANGED serverVars
    <3>1. UNCHANGED <<chain, fetchVars, debug, handler>>
      BY <2>3 DEF serverVars, fetchVars
    <3>2. IInv'
      BY <3>1, StutterPreserves DEF ServerInv
    <3>3. Grows /\ StorageInv
      BY <3>1 DEF Grows, ServerInv, IInv, FetchTypeOK, Height
    <3>4. ASSUME NEW s \in Callers
          PROVE  HandlerInv(handler[s], fetch[s])'
      <4>1. PICK h \in HandlerStates(HandlerPhase), f \in FetchState :
               h = handler[s] /\ f = fetch[s]
        BY DEF ServerInv, IInv, FetchTypeOK
      <4>2. HandlerInv(h, f)'
        BY <3>3, <4>1, InvariantSurvives DEF ServerInv
      <4> QED BY <3>1, <4>1, <4>2 DEF fetchVars
    <3> QED BY <3>1, <3>2, <3>4 DEF ServerInv
  <2> QED BY <2>1, <2>2, <2>3 DEF ServerNext
<1> QED BY ServerInitEstablishes, <1>1, PTL DEF ServerSpec

-----------------------------------------------------------------------------
(* Every reachable state of the server is well typed. *)
THEOREM ServerTypeCorrect == ServerSpec => []ServerTypeOK
<1>1. ServerInv => ServerTypeOK
  BY DEF ServerInv, IInv, ServerTypeOK
<1> QED BY <1>1, ServerInvariance, PTL

(* A slot that answers 200 has the locals of a request that passed. *)
LEMMA GrantedSlot ==
    ASSUME ServerInv, NEW s \in Callers, Answered(s, 200)
    PROVE  /\ handler[s].req \in Requests /\ handler[s].since \in 1..Height
           /\ LocalStatus(handler[s].req) = 200
           /\ AdmittedSince(handler[s].req.evidence, handler[s].since)
           /\ ReadSince(AppOf(handler[s].req), handler[s].release, handler[s].since)
           /\ ReleaseStatus(handler[s].req,
                            ReleaseAt(AppOf(handler[s].req), handler[s].release)) = 200
BY DEF ServerInv, HandlerInv, Granting, Answered

(* A 200 hands its secrets to what was the app's latest code, at one       *)
(* height of the request's window (HandleEnvV3, env.go:211-314).           *)
THEOREM AlwaysServedToLatestCode == ServerSpec => []ServedToLatestCode
<1>1. ServerInv => ServedToLatestCode
  <2> SUFFICES ASSUME ServerInv, NEW s \in Callers, Answered(s, 200)
               PROVE  \E h \in Window(handler[s].since) :
                         /\ IsLatestAt(handler[s].release, AppOf(handler[s].req), h)
                         /\ ReleaseAt(AppOf(handler[s].req), handler[s].release).digests
                               = <<handler[s].req.evidence.container>>
                         /\ ReleaseAt(AppOf(handler[s].req), handler[s].release).sealedFor
                               = AppOf(handler[s].req)
                         /\ debug \/ AppOf(handler[s].req) = handler[s].req.evidence.instance
    BY DEF ServedToLatestCode
  <2> DEFINE r   == handler[s].req
             pos == handler[s].release
             app == AppOf(r)
  <2>1. /\ r \in Requests /\ LocalStatus(r) = 200 /\ ReadSince(app, pos, handler[s].since)
        /\ ReleaseStatus(r, ReleaseAt(app, pos)) = 200
    BY GrantedSlot
  <2>2. app \in Apps
    BY <2>1, AppIsKnown
  <2>3. PICK g \in Window(handler[s].since) : ReadAt(app, pos, g)
    BY <2>1 DEF ReadSince
  <2>4. g \in 1..Height /\ pos = LastUpgrade(app, chain[g].latest[app])
        /\ chain[g].latest[app] # 0
    BY <2>3 DEF Window, ReadAt
  <2>5. IsLatestAt(pos, app, g)
    BY <2>2, <2>4, RecordedIsLatest DEF ServerInv, IInv
  <2>6. /\ ReleaseAt(app, pos).digests = <<r.evidence.container>>
        /\ ReleaseAt(app, pos).sealedFor = app
    BY <2>1 DEF ReleaseStatus, CheckAuthorization
  <2>7. debug \/ app = r.evidence.instance
    BY <2>1 DEF LocalStatus, OverrideRefused, AppOf
  <2> QED BY <2>3, <2>5, <2>6, <2>7
<1> QED BY <1>1, ServerInvariance, PTL

(* Nobody gets a 200 that the policies did not admit (env.go:268-278). *)
THEOREM AlwaysAdmittedByPolicy == ServerSpec => []AdmittedByPolicy
<1>1. ServerInv => AdmittedByPolicy
  BY GrantedSlot DEF AdmittedByPolicy, AdmittedSince, ValidAfter, TEEModeAccepted
<1> QED BY <1>1, ServerInvariance, PTL

(* A 4xx not owed to a failed remote call always has its cause in the      *)
(* request or on the chain (env.go:211-314).                               *)
THEOREM RefusalAlwaysJustified == ServerSpec => []RefusalIsJustified
<1>1. ServerInv => RefusalIsJustified
  <2> SUFFICES ASSUME ServerInv, NEW s \in Callers,
                      Answered(s, 400) \/ Answered(s, 401), ~handler[s].fault
               PROVE  \E h \in Window(handler[s].since) : ~EntitledAt(handler[s].req, h)
    BY DEF RefusalIsJustified
  <2>1. /\ handler[s].since \in 1..Height /\ Height \in Nat
        /\ NotEntitledSince(handler[s].req, handler[s].since)
    BY DEF ServerInv, HandlerInv, Refused, Answered, IInv, FetchTypeOK, Height
  <2>2. CASE LocalStatus(handler[s].req) # 200
    <3>1. ~EntitledAt(handler[s].req, handler[s].since)
      BY <2>2 DEF EntitledAt
    <3>2. handler[s].since \in Window(handler[s].since)
      BY <2>1, ChainAssumption DEF Window
    <3> QED BY <3>1, <3>2
  <2> QED BY <2>1, <2>2 DEF NotEntitledSince
<1> QED BY <1>1, ServerInvariance, PTL

-----------------------------------------------------------------------------
(* What a TCB is: three bytes on TDX, and a minimum on chain is a number. *)
TCBsAreBytes ==
    /\ \A r \in Requests : r.evidence.platform = "TDX" => r.evidence.tcb \in [1..3 -> 0..255]
    /\ \A policy \in Policies : policy.minTcb \in Nat

(* Division with remainder by the size of a byte. *)
LEMMA SplitByte ==
    ASSUME NEW m \in Nat
    PROVE  m \div 256 \in Nat /\ m % 256 \in 0..255 /\ m - 256 * (m \div 256) = m % 256
<1>1. m - 256 * (m \div 256) = m % 256
  OBVIOUS
<1>2. m % 256 \in 0..255
  OBVIOUS
<1>3. m \div 256 \in Nat
  OBVIOUS
<1> QED BY <1>1, <1>2, <1>3

(* The packed numbers are ordered as the versions are. *)
LEMMA PackedOrder ==
    ASSUME NEW svn \in [1..3 -> 0..255], NEW minTcb \in Nat,
           svn[2] * 65536 + svn[1] * 256 + svn[3] >= minTcb
    PROVE  NotOlder(svn, minTcb)
<1> DEFINE high      == minTcb \div 256
           major     == high \div 256
           minor     == high % 256
           microcode == minTcb % 256
           a == svn[2]
           b == svn[1]
           c == svn[3]
<1>1. a \in 0..255 /\ b \in 0..255 /\ c \in 0..255
  OBVIOUS
<1>2. high \in Nat /\ microcode \in 0..255 /\ minTcb - 256 * high = microcode
  BY SplitByte
<1>3. major \in Nat /\ minor \in 0..255 /\ high - 256 * major = minor
  <2> HIDE DEF high
  <2> QED BY <1>2, SplitByte
<1>4. minTcb \div 65536 = major
  OBVIOUS
<1>5. a * 65536 + b * 256 + c >= minTcb
  OBVIOUS
<1> HIDE DEF high, major, minor, microcode, a, b, c
<1>6. minTcb = 65536 * major + 256 * minor + microcode
  BY <1>2, <1>3
<1>7. a * 65536 + b * 256 + c >= 65536 * major + 256 * minor + microcode
  BY <1>1, <1>2, <1>3, <1>5, <1>6
<1>8. a > major \/ (a = major /\ b > minor) \/ (a = major /\ b = minor /\ c >= microcode)
  BY <1>1, <1>2, <1>3, <1>7
<1> QED BY <1>1, <1>4, <1>8 DEF NotOlder, high, minor, microcode, a, b, c

LEMMA PackedOnTDX ==
    ASSUME NEW evidence, evidence.platform = "TDX"
    PROVE  PackTCB(evidence)
              = evidence.tcb[2] * 65536 + evidence.tcb[1] * 256 + evidence.tcb[3]
BY DEF PackTCB

(* No TDX instance older than every minimum in force while its request was *)
(* in flight gets a 200, for every TCB there can be (policy.go:141-173).   *)
THEOREM TCBAlwaysMeetsMinimum ==
    ASSUME TCBsAreBytes
    PROVE  ServerSpec => []TCBMeetsMinimum
<1>1. ServerInv => TCBMeetsMinimum
  <2> SUFFICES ASSUME ServerInv, NEW s \in Callers, Answered(s, 200),
                      handler[s].req.evidence.platform = "TDX"
               PROVE  \E h \in Window(handler[s].since) :
                         NotOlder(handler[s].req.evidence.tcb, chain[h].policy.minTcb)
    BY DEF TCBMeetsMinimum
  <2> DEFINE evidence == handler[s].req.evidence
  <2>1. handler[s].req \in Requests /\ AdmittedSince(evidence, handler[s].since)
    BY GrantedSlot
  <2>2. PICK h \in Window(handler[s].since) : IsTCBValid(evidence, h)
    BY <2>1 DEF AdmittedSince, ValidAfter, HasTEEClaims
  <2>3. h \in 1..Height /\ chain \in Seq(Block)
    BY <2>2 DEF Window, ServerInv, IInv, FetchTypeOK
  <2>4. chain[h].policy.minTcb \in Nat
    <3>1. chain[h] \in Block
      BY <2>3 DEF Height
    <3> QED BY <3>1, TCBsAreBytes DEF Block, TCBsAreBytes
  <2>5. evidence.tcb \in [1..3 -> 0..255]
    BY <2>1, TCBsAreBytes DEF TCBsAreBytes
  <2>6. PackTCB(evidence) >= chain[h].policy.minTcb
    BY <2>2 DEF IsTCBValid
  <2>7. NotOlder(evidence.tcb, chain[h].policy.minTcb)
    <3>1. PICK svn \in [1..3 -> 0..255], min \in Nat :
             svn = evidence.tcb /\ min = chain[h].policy.minTcb
      BY <2>4, <2>5
    <3> DEFINE packed == svn[2] * 65536 + svn[1] * 256 + svn[3]
    <3>2. PackTCB(evidence) = packed
      <4> HIDE DEF evidence
      <4>1. evidence.platform = "TDX"
        BY DEF evidence
      <4> QED BY <3>1, <4>1, PackedOnTDX
    <3>3. packed >= min
      <4> HIDE DEF packed
      <4> QED BY <2>6, <3>1, <3>2
    <3>4. NotOlder(svn, min)
      BY <3>3, PackedOrder
    <3> QED BY <3>1, <3>4
  <2> QED BY <2>2, <2>7
<1> QED BY <1>1, ServerInvariance, PTL

-----------------------------------------------------------------------------
(* EnvServer implements ReleaseFetch: what its handlers do to the calls of *)
(* GetLatestRelease is what ReleaseFetch says callers do.                  *)
LEMMA HandlerStepIsCall ==
    ASSUME NEW s \in Callers, HandlerStep(s),
           handler[s].pc \in {"image", "tcb"} => AppOf(handler[s].req) \in Apps
    PROVE  [Next]_vars
<1>1. CASE \E app \in Apps : GetLatestRelease(s, app)
  BY <1>1 DEF Next
<1>2. CASE FetchStep(s) \/ FetchReturn(s)
  BY <1>2 DEF Next
<1>3. CASE UNCHANGED <<chain, fetchVars>>
  BY <1>3 DEF vars, fetchVars
<1> QED BY <1>1, <1>2, <1>3
     DEF HandlerStep, CheckImage, VerifyFirmware, CheckTCB, PolicyError, FetchRelease,
         Authorize, DecryptEnv, DeriveMnemonic, SignResponse, KmsError

LEMMA ServerStepIsCall == ServerInv /\ [ServerNext]_serverVars => [Next]_vars
<1> SUFFICES ASSUME ServerInv, [ServerNext]_serverVars PROVE [Next]_vars
  OBVIOUS
<1>1. CASE MineBlock /\ UNCHANGED <<fetchVars, handler>>
  BY <1>1 DEF Next, fetchVars
<1>2. ASSUME NEW s \in Callers, HandlerStep(s)
      PROVE  [Next]_vars
  <2>1. handler[s].pc \in {"image", "tcb"} =>
           handler[s].req \in Requests /\ LocalStatus(handler[s].req) = 200
    BY DEF ServerInv, HandlerInv
  <2> QED BY <1>2, <2>1, AppIsKnown, HandlerStepIsCall
<1>3. ASSUME NEW s \in Callers, Finish(s) \/ \E r \in Requests : Receive(s, r)
      PROVE  [Next]_vars
  BY <1>3 DEF Finish, Receive, vars, fetchVars
<1>4. CASE UNCHANGED serverVars
  BY <1>4 DEF serverVars, vars
<1> QED BY <1>1, <1>2, <1>3, <1>4 DEF ServerNext

(* The release fetch behaves as one read in its handlers too, whose        *)
(* policy checks and failures surround it: every request's release is one  *)
(* that was the latest at one instant of its call (env.go:287-294,         *)
(* chainclient.go:59-106).                                                 *)
THEOREM ServerReadsAtomically == ServerSpec => ReadIsAtomic
<1>1. ServerSpecInit => Init
  BY DEF ServerSpecInit, Init
<1>2. ServerSpec => Spec
  BY <1>1, ServerStepIsCall, ServerInvariance, PTL DEF ServerSpec, Spec
<1> QED BY <1>2, ReadRefinesAtomic
=============================================================================
