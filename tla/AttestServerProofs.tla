-------------------------- MODULE AttestServerProofs --------------------------
(***************************************************************************)
(* Proofs about AttestServer, for any requests, policies, releases, slots, *)
(* lag, chain length, command lines and secrets: its type invariant and    *)
(* what a token may say, with whose key, and to whom it is refused, while  *)
(* the same server answers /env/v3.                                        *)
(*                                                                         *)
(* The inductive invariant is that of one slot: which checks lie behind    *)
(* its phase, each made at a height of the request's window, and that the  *)
(* token is the one of the request.                                        *)
(***************************************************************************)
EXTENDS AttestServer, EnvServerProofs

NotDueSince(r, since) == \E g \in Window(since) : ~TokenDueAt(r, g)

(* The phases behind the policy checks. *)
Admitted(h) ==
    \/ h.pc \in {"fetch", "decrypt", "mnemonic", "sign"}
    \/ h.pc = "reply" /\ h.status = 200

Signed(h) == h.pc = "sign" \/ (h.pc = "reply" /\ h.status = 200)

(* Of a slot of /auth/attest in state h, t being its token. *)
TokenInv(h, t) ==
    /\ OffersAttest(config)
    /\ h.pc \in {"image", "firmware", "tcb", "sign", "reply"}
    /\ Signed(h) => t = SignAttestationJWT(h.req)
    /\ Refused(h) => NotDueSince(h.req, h.since)

SlotInv(h, t) ==
    h.pc # "idle" =>
        /\ h.req \in Requests /\ h.since \in 1..Height
        /\ h.pc # "reply" \/ h.status = 200 => StatusAt(h.req) = 200
        /\ h.pc \in {"firmware", "tcb"} =>
              /\ AllowedSince(h.req.evidence, h.since)
              /\ HasTEEClaims(h.req.evidence) /\ TEEModeAccepted(h.req.evidence)
        /\ h.pc = "tcb" => h.req.evidence.endorsed
        /\ Admitted(h) => AdmittedSince(h.req.evidence, h.since)
        /\ h.req.endpoint = "/auth/attest" => TokenInv(h, t)

AttestInv ==
    /\ IInv
    /\ debug \in DebugModes
    /\ config \in StartedConfigs
    /\ handler \in [Callers -> HandlerStates(HandlerPhase)]
    /\ jwt \in [Callers -> Tokens \cup {NoToken}]
    /\ \A s \in Callers : SlotInv(handler[s], jwt[s])

-----------------------------------------------------------------------------
(* A token is due at a height for good, or never. *)
LEMMA DueForGood ==
    ASSUME Grows, UNCHANGED config, NEW r, NEW g \in 1..Height
    PROVE  TokenDueAt(r, g)' <=> TokenDueAt(r, g)
<1>1. chain'[g] = chain[g]
  BY DEF Grows
<1>2. AttestStatus(r)' = AttestStatus(r)
  BY DEF Grows, AttestStatus, OverrideRefused, HostAccepted
<1>3. TEEModeAccepted(r.evidence)' = TEEModeAccepted(r.evidence)
  BY DEF Grows, TEEModeAccepted
<1>4. IsImageAllowed(r.evidence, g)' <=> IsImageAllowed(r.evidence, g)
  BY <1>1 DEF IsImageAllowed
<1>5. IsTCBValid(r.evidence, g)' <=> IsTCBValid(r.evidence, g)
  <2>1. chain'[g].policy.minTcb = chain[g].policy.minTcb
    BY <1>1
  <2> QED BY ONLY <2>1 DEF IsTCBValid, PackTCB
<1> QED BY <1>2, <1>3, <1>4, <1>5 DEF TokenDueAt

(* The configuration decides what a token is signed with. *)
LEMMA TokensStay ==
    ASSUME Grows, UNCHANGED config
    PROVE  /\ Tokens' = Tokens
           /\ OffersAttest(config)' = OffersAttest(config)
           /\ \A r : SignAttestationJWT(r)' = SignAttestationJWT(r)
           /\ \A r : StatusAt(r)' = StatusAt(r)
<1>1. \A r : AttestStatus(r)' = AttestStatus(r)
  BY DEF Grows, AttestStatus, OverrideRefused, HostAccepted
<1>2. \A r : LocalStatus(r)' = LocalStatus(r)
  BY DEF Grows, LocalStatus, Attested, OverrideRefused, HostAccepted
<1>3. \A r : SignAttestationJWT(r)' = SignAttestationJWT(r)
  BY DEF SignAttestationJWT, AttestJWTSigningKey
<1>4. \A r : StatusAt(r)' = StatusAt(r)
  BY <1>1, <1>2 DEF StatusAt
<1>5. OffersAttest(config)' = OffersAttest(config)
  BY DEF OffersAttest, AttestJWTSigningKey
<1> QED BY <1>1, <1>3, <1>4, <1>5 DEF Tokens

(* No step of the chain, or of another slot, undoes what is known of one. *)
LEMMA SlotSurvives ==
    ASSUME Grows, UNCHANGED config,
           NEW h \in HandlerStates(HandlerPhase), NEW t, SlotInv(h, t)
    PROVE  SlotInv(h, t)'
<1> DEFINE evidence == h.req.evidence
<1>1. \A since \in Nat : \A g \in Window(since) :
         g \in 1..Height /\ g \in Window(since)' /\ chain'[g] = chain[g]
  BY DEF Grows, Window
<1>2. h.since \in Nat
  BY DEF HandlerStates
<1>3. AllowedSince(evidence, h.since) => AllowedSince(evidence, h.since)'
  BY <1>1, <1>2 DEF AllowedSince, IsImageAllowed
<1>4. \A hi : ValidAfter(evidence, hi, h.since) => ValidAfter(evidence, hi, h.since)'
  BY <1>1, <1>2 DEF ValidAfter, IsTCBValid
<1>5. TEEModeAccepted(evidence)' = TEEModeAccepted(evidence)
  BY DEF Grows, TEEModeAccepted
<1>6. AdmittedSince(evidence, h.since) => AdmittedSince(evidence, h.since)'
  BY <1>1, <1>2, <1>4, <1>5 DEF AdmittedSince, IsImageAllowed
<1>7. h.pc # "idle" => h.since \in 1..Height'
  BY DEF SlotInv, Grows
<1>8. NotDueSince(h.req, h.since) => NotDueSince(h.req, h.since)'
  BY <1>1, <1>2, DueForGood DEF NotDueSince
<1>9. TokenInv(h, t) => TokenInv(h, t)'
  BY <1>8, TokensStay DEF TokenInv, Signed, Refused
<1> QED BY <1>3, <1>5, <1>6, <1>7, <1>9, TokensStay DEF SlotInv, Admitted

(* A step of one slot is right if the slot's new state and token are. *)
LEMMA StepSuffices ==
    ASSUME AttestInv, IInv', UNCHANGED <<chain, debug, config>>, NEW s \in Callers,
           handler' \in [Callers -> HandlerStates(HandlerPhase)],
           jwt' \in [Callers -> Tokens \cup {NoToken}],
           \A d \in Callers \ {s} : handler'[d] = handler[d] /\ jwt'[d] = jwt[d],
           SlotInv(handler'[s], jwt'[s])
    PROVE  AttestInv'
<1>1. Grows
  BY DEF Grows, AttestInv, IInv, FetchTypeOK, Height
<1>2. ASSUME NEW d \in Callers
      PROVE  SlotInv(handler[d], jwt[d])'
  <2>1. PICK h \in HandlerStates(HandlerPhase), t \in Tokens \cup {NoToken} :
           h = handler'[d] /\ t = jwt'[d]
    OBVIOUS
  <2>2. SlotInv(h, t)
    BY <2>1 DEF AttestInv
  <2>3. SlotInv(h, t)'
    BY <1>1, <2>2, SlotSurvives
  <2> QED BY <2>1, <2>3
<1>3. StartedConfigs' = StartedConfigs /\ Tokens' = Tokens
  BY <1>1, TokensStay DEF StartedConfigs
<1> QED BY <1>2, <1>3 DEF AttestInv

(* Likewise for one that issues no token. *)
LEMMA StepSufficesNoToken ==
    ASSUME AttestInv, IInv', UNCHANGED <<chain, debug, config, jwt>>, NEW s \in Callers,
           handler' \in [Callers -> HandlerStates(HandlerPhase)],
           \A d \in Callers \ {s} : handler'[d] = handler[d],
           SlotInv(handler'[s], jwt[s])
    PROVE  AttestInv'
<1>1. jwt' = jwt /\ jwt' \in [Callers -> Tokens \cup {NoToken}]
  BY DEF AttestInv
<1> QED BY <1>1, StepSuffices

(* What an assignment to one slot assigns. *)
LEMMA SlotAssigned ==
    ASSUME handler \in [Callers -> HandlerStates(HandlerPhase)], NEW s \in Callers,
           NEW g \in HandlerStates(HandlerPhase), handler' = [handler EXCEPT ![s] = g]
    PROVE  /\ handler' \in [Callers -> HandlerStates(HandlerPhase)]
           /\ handler'[s] = g
           /\ \A d \in Callers \ {s} : handler'[d] = handler[d]
OBVIOUS

-----------------------------------------------------------------------------
(* A check has passed, no token is due yet. *)
LEMMA MovesOn ==
    ASSUME AttestInv, IInv', UNCHANGED <<chain, debug, config>>, NEW s \in Callers,
           handler[s].pc \notin {"idle", "reply"},
           NEW pc \in {"firmware", "tcb", "fetch", "mnemonic", "sign"}, Goto(s, pc),
           NEW u \in Tokens \cup {NoToken}, jwt'[s] = u,
           jwt' \in [Callers -> Tokens \cup {NoToken}],
           \A d \in Callers \ {s} : jwt'[d] = jwt[d],
           pc \in {"firmware", "tcb"} =>
              /\ AllowedSince(handler[s].req.evidence, handler[s].since)
              /\ HasTEEClaims(handler[s].req.evidence) /\ TEEModeAccepted(handler[s].req.evidence),
           pc = "tcb" => handler[s].req.evidence.endorsed,
           pc \in {"fetch", "mnemonic", "sign"} =>
              AdmittedSince(handler[s].req.evidence, handler[s].since),
           handler[s].req.endpoint = "/auth/attest" =>
              /\ pc \in {"firmware", "tcb", "sign"}
              /\ pc = "sign" => u = SignAttestationJWT(handler[s].req)
    PROVE  AttestInv'
<1>1. PICK h \in HandlerStates(HandlerPhase) : h = handler[s]
  BY DEF AttestInv
<1>2. SlotInv(h, jwt[s])
  BY <1>1 DEF AttestInv
<1> DEFINE g == [h EXCEPT !.pc = pc]
<1>3. g \in HandlerStates(HandlerPhase)
  BY PcUpdate DEF HandlerPhase
<1>4. g.pc = pc /\ g.req = h.req /\ g.since = h.since
  BY DEF HandlerStates
<1>5. /\ handler' \in [Callers -> HandlerStates(HandlerPhase)]
      /\ handler'[s] = g
      /\ \A d \in Callers \ {s} : handler'[d] = handler[d]
  BY <1>1, <1>3 DEF Goto, AttestInv
<1> HIDE DEF g
<1>6. g.req.endpoint = "/auth/attest" => TokenInv(g, u)
  BY <1>1, <1>2, <1>4 DEF SlotInv, TokenInv, Signed, Refused
<1>7. SlotInv(g, u)
  BY <1>1, <1>2, <1>4, <1>6 DEF SlotInv, Admitted
<1> QED BY <1>5, <1>7, StepSuffices

LEMMA MovesOnNoToken ==
    ASSUME AttestInv, IInv', UNCHANGED <<chain, debug, config, jwt>>, NEW s \in Callers,
           handler[s].pc \notin {"idle", "reply"},
           NEW pc \in {"firmware", "tcb", "fetch", "mnemonic"}, Goto(s, pc),
           pc \in {"firmware", "tcb"} =>
              /\ AllowedSince(handler[s].req.evidence, handler[s].since)
              /\ HasTEEClaims(handler[s].req.evidence) /\ TEEModeAccepted(handler[s].req.evidence),
           pc = "tcb" => handler[s].req.evidence.endorsed,
           pc \in {"fetch", "mnemonic"} =>
              AdmittedSince(handler[s].req.evidence, handler[s].since),
           handler[s].req.endpoint = "/auth/attest" => pc \in {"firmware", "tcb"}
    PROVE  AttestInv'
<1>1. PICK u \in Tokens \cup {NoToken} : u = jwt'[s]
  BY DEF AttestInv
<1>2. /\ jwt' \in [Callers -> Tokens \cup {NoToken}]
      /\ \A d \in Callers \ {s} : jwt'[d] = jwt[d]
  BY DEF AttestInv
<1> QED BY <1>1, <1>2, MovesOn

(* An answer; a 4xx of /auth/attest has its cause. *)
LEMMA Answers ==
    ASSUME AttestInv, IInv', UNCHANGED <<chain, debug, config, jwt>>, NEW s \in Callers,
           handler[s].pc # "idle",
           NEW status \in {200, 400, 401, 500},
           \/ RespondFault(s, status) /\ status # 200
           \/ /\ Respond(s, status)
              /\ status = 200 => handler[s].pc = "sign"
              /\ handler[s].req.endpoint = "/auth/attest" =>
                    \/ status \in {200, 500}
                    \/ NotDueSince(handler[s].req, handler[s].since)
    PROVE  AttestInv'
<1>1. PICK h \in HandlerStates(HandlerPhase) : h = handler[s]
  BY DEF AttestInv
<1>2. SlotInv(h, jwt[s]) /\ h.pc # "idle"
  BY <1>1 DEF AttestInv
<1>3. CASE RespondFault(s, status) /\ status # 200
  <2> DEFINE g == Answering(h, status, TRUE)
  <2>1. /\ g \in HandlerStates(HandlerPhase)
        /\ g.pc = "reply" /\ g.status = status /\ g.req = h.req /\ g.since = h.since
    BY DEF Answering, HandlerStates, HandlerPhase
  <2>2. g.fault
    BY DEF Answering
  <2>3. /\ handler' \in [Callers -> HandlerStates(HandlerPhase)]
        /\ handler'[s] = g
        /\ \A d \in Callers \ {s} : handler'[d] = handler[d]
    <3>1. handler' = [handler EXCEPT ![s] = g]
      BY <1>1, <1>3 DEF RespondFault
    <3> HIDE DEF g
    <3> QED BY <2>1, <3>1, SlotAssigned DEF AttestInv
  <2> HIDE DEF g
  <2>4. ~Refused(g) /\ ~Admitted(g) /\ ~Signed(g)
    BY <1>3, <2>1, <2>2 DEF Refused, Admitted, Signed
  <2>5. SlotInv(g, jwt[s])
    BY <1>2, <1>3, <2>1, <2>4 DEF SlotInv, TokenInv
  <2> QED BY <2>3, <2>5, StepSufficesNoToken
<1>4. CASE /\ Respond(s, status)
           /\ status = 200 => handler[s].pc = "sign"
           /\ handler[s].req.endpoint = "/auth/attest" =>
                 \/ status \in {200, 500}
                 \/ NotDueSince(handler[s].req, handler[s].since)
  <2> DEFINE g == Answering(h, status, FALSE)
  <2>1. /\ g \in HandlerStates(HandlerPhase)
        /\ g.pc = "reply" /\ g.status = status /\ g.req = h.req /\ g.since = h.since
    BY DEF Answering, HandlerStates, HandlerPhase
  <2>2. /\ handler' \in [Callers -> HandlerStates(HandlerPhase)]
        /\ handler'[s] = g
        /\ \A d \in Callers \ {s} : handler'[d] = handler[d]
    <3>1. handler' = [handler EXCEPT ![s] = g]
      BY <1>1, <1>4 DEF Respond
    <3> HIDE DEF g
    <3> QED BY <2>1, <3>1, SlotAssigned DEF AttestInv
  <2> HIDE DEF g
  <2>3. (Admitted(g) => Admitted(h)) /\ (Signed(g) => Signed(h))
    BY <1>1, <1>4, <2>1 DEF Admitted, Signed
  <2>4. g.req.endpoint = "/auth/attest" /\ Refused(g) => NotDueSince(g.req, g.since)
    BY <1>1, <1>4, <2>1 DEF Refused
  <2>5. g.status = 200 => StatusAt(g.req) = 200
    BY <1>1, <1>2, <1>4, <2>1 DEF SlotInv
  <2>6. g.req.endpoint = "/auth/attest" => TokenInv(g, jwt[s])
    BY <1>2, <2>1, <2>3, <2>4 DEF SlotInv, TokenInv
  <2>7. SlotInv(g, jwt[s])
    BY <1>2, <2>1, <2>3, <2>5, <2>6 DEF SlotInv
  <2> QED BY <2>2, <2>7, StepSufficesNoToken
<1> QED BY <1>3, <1>4

-----------------------------------------------------------------------------
(* One lemma per action, or per endpoint and action. *)
LEMMA ArrivalPreserves ==
    ASSUME AttestInv, UNCHANGED <<debug, config, jwt>>, NEW s \in Callers, NEW r \in Requests,
           \/ ReceiveAttest(s, r)
           \/ r.endpoint = "/env/v3" /\ Receive(s, r)
    PROVE  AttestInv'
<1>1. Height \in Nat /\ Height >= 1
  BY DEF AttestInv, IInv, FetchTypeOK, Height
<1>2. PICK status \in {200, 400, 401} : status = StatusAt(r)
  BY DEF StatusAt, LocalStatus, AttestStatus
<1>3. PICK g \in HandlerStates(HandlerPhase) :
         /\ g = Arriving(r, status)
         /\ g.pc = IF status = 200 THEN "image" ELSE "reply"
         /\ g.req = r /\ g.status = status /\ g.since = Height
  BY <1>1, ArrivingIsState
<1>4. handler' = [handler EXCEPT ![s] = g] /\ UNCHANGED <<chain, fetchVars>>
  BY <1>2, <1>3 DEF ReceiveAttest, Receive, StatusAt
<1>5. r.endpoint = "/auth/attest" => OffersAttest(config)
  BY DEF ReceiveAttest
<1>6. r.endpoint = "/auth/attest" => TokenInv(g, jwt[s])
  <2>1. ~Signed(g)
    BY <1>3 DEF Signed
  <2>2. ASSUME r.endpoint = "/auth/attest", Refused(g)
        PROVE  NotDueSince(r, g.since)
    <3>1. AttestStatus(r) # 200
      BY <1>2, <1>3, <2>2 DEF Refused, StatusAt
    <3>2. ~TokenDueAt(r, Height) /\ Height \in Window(Height)
      BY <1>1, <3>1, ChainAssumption DEF TokenDueAt, Window
    <3> QED BY <1>3, <3>2 DEF NotDueSince
  <2> QED BY <1>3, <1>5, <2>1, <2>2 DEF TokenInv
<1>7. SlotInv(g, jwt[s])
  BY <1>1, <1>2, <1>3, <1>6 DEF SlotInv, Admitted
<1>8. IInv'
  BY <1>4, StutterPreserves DEF AttestInv
<1>9. /\ handler' \in [Callers -> HandlerStates(HandlerPhase)]
      /\ handler'[s] = g
      /\ \A d \in Callers \ {s} : handler'[d] = handler[d]
  BY <1>3, <1>4, SlotAssigned DEF AttestInv
<1> QED BY <1>4, <1>7, <1>8, <1>9, StepSufficesNoToken

(* What is known of the slot a check is made for. *)
LEMMA CheckedSlot ==
    ASSUME AttestInv, NEW s \in Callers, handler[s].pc \in {"image", "firmware", "tcb"}
    PROVE  /\ handler[s].req \in Requests /\ handler[s].since \in 1..Height /\ Height \in Nat
           /\ StatusAt(handler[s].req) = 200
           /\ handler[s].pc \in {"firmware", "tcb"} =>
                 /\ AllowedSince(handler[s].req.evidence, handler[s].since)
                 /\ HasTEEClaims(handler[s].req.evidence)
                 /\ TEEModeAccepted(handler[s].req.evidence)
           /\ handler[s].pc = "tcb" => handler[s].req.evidence.endorsed
BY DEF AttestInv, SlotInv, IInv, FetchTypeOK, Height

(* What a node's answer to the last check means. *)
LEMMA ViewAdmits ==
    ASSUME AttestInv, NEW s \in Callers, NEW g \in Views,
           \/ /\ handler[s].pc = "image"
              /\ ImageVerdict(handler[s].req.evidence, g) = "admitted"
           \/ /\ handler[s].pc = "tcb"
              /\ IsTCBValid(handler[s].req.evidence, g)
    PROVE  AdmittedSince(handler[s].req.evidence, handler[s].since)
<1>1. g \in Window(handler[s].since)
  BY CheckedSlot, ViewsAreInWindow
<1>2. CASE /\ handler[s].pc = "image"
           /\ ImageVerdict(handler[s].req.evidence, g) = "admitted"
  BY <1>1, <1>2 DEF ImageVerdict, AdmittedSince
<1>3. CASE handler[s].pc = "tcb" /\ IsTCBValid(handler[s].req.evidence, g)
  BY <1>1, <1>3, CheckedSlot, ImageFirst DEF AdmittedSince, ValidAfter
<1> QED BY <1>2, <1>3

LEMMA ViewRefuses ==
    ASSUME AttestInv, NEW s \in Callers, NEW g \in Views,
           \/ /\ handler[s].pc = "image"
              /\ ImageVerdict(handler[s].req.evidence, g) = "refused"
           \/ /\ handler[s].pc = "tcb"
              /\ ~IsTCBValid(handler[s].req.evidence, g)
    PROVE  NotDueSince(handler[s].req, handler[s].since)
<1>1. g \in Window(handler[s].since)
  BY CheckedSlot, ViewsAreInWindow
<1>2. CASE /\ handler[s].pc = "image"
           /\ ImageVerdict(handler[s].req.evidence, g) = "refused"
  BY <1>1, <1>2 DEF ImageVerdict, TokenDueAt, NotDueSince
<1>3. CASE handler[s].pc = "tcb" /\ ~IsTCBValid(handler[s].req.evidence, g)
  BY <1>1, <1>3, CheckedSlot DEF TokenDueAt, NotDueSince
<1> QED BY <1>2, <1>3

LEMMA ViewAllows ==
    ASSUME AttestInv, NEW s \in Callers, NEW g \in Views, handler[s].pc = "image",
           ImageVerdict(handler[s].req.evidence, g) = "firmware"
    PROVE  /\ AllowedSince(handler[s].req.evidence, handler[s].since)
           /\ HasTEEClaims(handler[s].req.evidence)
           /\ TEEModeAccepted(handler[s].req.evidence)
<1>1. g \in Window(handler[s].since)
  BY CheckedSlot, ViewsAreInWindow
<1> QED BY <1>1 DEF ImageVerdict, AllowedSince

(* The token of a request that was admitted. *)
LEMMA IssuePreserves ==
    ASSUME AttestInv, UNCHANGED <<chain, fetchVars, debug, config>>, NEW s \in Callers,
           handler[s].pc \in {"image", "tcb"}, handler[s].req.endpoint = "/auth/attest",
           AdmittedSince(handler[s].req.evidence, handler[s].since), IssueToken(s)
    PROVE  AttestInv'
<1>1. IInv'
  BY StutterPreserves DEF AttestInv
<1>2. handler[s].req \in Requests /\ AttestStatus(handler[s].req) = 200
  BY CheckedSlot DEF StatusAt
<1>3. PICK u \in Tokens \cup {NoToken} : u = SignAttestationJWT(handler[s].req)
  BY <1>2 DEF Tokens
<1>4. /\ jwt' \in [Callers -> Tokens \cup {NoToken}]
      /\ jwt'[s] = u
      /\ \A d \in Callers \ {s} : jwt'[d] = jwt[d]
  <2>1. jwt' = [jwt EXCEPT ![s] = u]
    BY <1>3 DEF IssueToken
  <2> QED BY <2>1 DEF AttestInv
<1>5. Goto(s, "sign") /\ UNCHANGED <<chain, debug, config>>
  BY DEF IssueToken
<1> QED BY <1>1, <1>3, <1>4, <1>5, MovesOn

LEMMA AttestImagePreserves ==
    ASSUME AttestInv, UNCHANGED <<debug, config>>, NEW s \in Callers,
           handler[s].req.endpoint = "/auth/attest", AttestImage(s)
    PROVE  AttestInv'
<1>1. handler[s].pc = "image" /\ UNCHANGED <<chain, fetchVars, debug, config>>
  BY DEF AttestImage
<1>2. IInv' /\ UNCHANGED <<chain, debug, config>>
  BY <1>1, StutterPreserves DEF AttestInv
<1>3. PICK g \in Views :
         LET verdict == ImageVerdict(handler[s].req.evidence, g)
         IN  \/ verdict = "refused"  /\ Respond(s, 401) /\ UNCHANGED jwt
             \/ verdict = "firmware" /\ Goto(s, "firmware") /\ UNCHANGED jwt
             \/ verdict = "admitted" /\ IssueToken(s)
  BY DEF AttestImage
<1>4. CASE ImageVerdict(handler[s].req.evidence, g) = "refused"
  <2>1. Respond(s, 401) /\ UNCHANGED jwt
    BY <1>3, <1>4
  <2>2. NotDueSince(handler[s].req, handler[s].since)
    BY <1>1, <1>4, ViewRefuses
  <2> QED BY <1>1, <1>2, <2>1, <2>2, Answers
<1>5. CASE ImageVerdict(handler[s].req.evidence, g) = "firmware"
  <2>1. Goto(s, "firmware") /\ UNCHANGED jwt
    BY <1>3, <1>5
  <2> QED BY <1>1, <1>2, <1>5, <2>1, ViewAllows, MovesOnNoToken
<1>6. CASE ImageVerdict(handler[s].req.evidence, g) = "admitted"
  <2>1. IssueToken(s)
    BY <1>3, <1>6
  <2>2. AdmittedSince(handler[s].req.evidence, handler[s].since)
    BY <1>1, <1>6, ViewAdmits
  <2> QED BY <1>1, <2>1, <2>2, IssuePreserves
<1> QED BY <1>3, <1>4, <1>5, <1>6

LEMMA AttestTCBPreserves ==
    ASSUME AttestInv, UNCHANGED <<debug, config>>, NEW s \in Callers,
           handler[s].req.endpoint = "/auth/attest", AttestTCB(s)
    PROVE  AttestInv'
<1>1. handler[s].pc = "tcb" /\ UNCHANGED <<chain, fetchVars, debug, config>>
  BY DEF AttestTCB
<1>2. IInv' /\ UNCHANGED <<chain, debug, config>>
  BY <1>1, StutterPreserves DEF AttestInv
<1>3. PICK g \in Views :
         IF IsTCBValid(handler[s].req.evidence, g)
           THEN IssueToken(s)
           ELSE Respond(s, 401) /\ UNCHANGED jwt
  BY DEF AttestTCB
<1>4. CASE IsTCBValid(handler[s].req.evidence, g)
  BY <1>1, <1>3, <1>4, ViewAdmits, IssuePreserves
<1>5. CASE ~IsTCBValid(handler[s].req.evidence, g)
  <2>1. Respond(s, 401) /\ UNCHANGED jwt
    BY <1>3, <1>5
  <2>2. NotDueSince(handler[s].req, handler[s].since)
    BY <1>1, <1>5, ViewRefuses
  <2> QED BY <1>1, <1>2, <2>1, <2>2, Answers
<1> QED BY <1>4, <1>5

(* The steps the endpoints share. *)
LEMMA VerifyFirmwareKeeps ==
    ASSUME AttestInv, UNCHANGED <<debug, config, jwt>>, NEW s \in Callers, VerifyFirmware(s)
    PROVE  AttestInv'
<1>1. handler[s].pc = "firmware" /\ UNCHANGED <<chain, debug, config, jwt>>
  BY DEF VerifyFirmware
<1>2. IInv'
  BY StutterPreserves DEF VerifyFirmware, AttestInv
<1>3. CASE handler[s].req.evidence.endorsed
  <2>1. Goto(s, "tcb")
    BY <1>3 DEF VerifyFirmware
  <2> QED BY <1>1, <1>2, <1>3, <2>1, CheckedSlot, MovesOnNoToken
<1>4. CASE ~handler[s].req.evidence.endorsed
  <2>1. Respond(s, 401)
    BY <1>4 DEF VerifyFirmware
  <2>2. /\ handler[s].since \in Window(handler[s].since)
        /\ HasTEEClaims(handler[s].req.evidence)
    BY <1>1, CheckedSlot, ChainAssumption DEF Window
  <2>3. NotDueSince(handler[s].req, handler[s].since)
    BY <1>4, <2>2 DEF NotDueSince, TokenDueAt
  <2> QED BY <1>1, <1>2, <2>1, <2>3, Answers
<1> QED BY <1>3, <1>4

LEMMA FaultsKeep ==
    ASSUME AttestInv, UNCHANGED <<debug, config, jwt>>, NEW s \in Callers,
           PolicyError(s) \/ KmsError(s)
    PROVE  AttestInv'
<1>1. IInv' /\ UNCHANGED <<chain, debug, config, jwt>>
  BY StutterPreserves DEF PolicyError, KmsError, AttestInv
<1>2. CASE PolicyError(s)
  BY <1>1, <1>2, Answers DEF PolicyError
<1>3. CASE KmsError(s)
  BY <1>1, <1>3, Answers DEF KmsError
<1> QED BY <1>2, <1>3

LEMMA SignResponseKeeps ==
    ASSUME AttestInv, UNCHANGED <<debug, config, jwt>>, NEW s \in Callers, SignResponse(s)
    PROVE  AttestInv'
<1>1. IInv' /\ UNCHANGED <<chain, debug, config, jwt>>
  BY StutterPreserves DEF SignResponse, AttestInv
<1> QED BY <1>1, Answers DEF SignResponse

LEMMA FinishKeeps ==
    ASSUME AttestInv, UNCHANGED <<debug, config>>, NEW s \in Callers, FinishAttest(s)
    PROVE  AttestInv'
<1>1. IInv' /\ UNCHANGED <<chain, debug, config>>
  BY StutterPreserves DEF FinishAttest, Finish, AttestInv
<1>2. NotHandling \in HandlerStates(HandlerPhase)
  BY DEF NotHandling, HandlerStates, HandlerPhase, NoRelease, Position
<1>3. /\ handler' \in [Callers -> HandlerStates(HandlerPhase)]
      /\ handler'[s] = NotHandling
      /\ \A d \in Callers \ {s} : handler'[d] = handler[d]
  BY <1>2, SlotAssigned DEF FinishAttest, Finish, AttestInv
<1>4. /\ jwt' \in [Callers -> Tokens \cup {NoToken}]
      /\ \A d \in Callers \ {s} : jwt'[d] = jwt[d]
  BY DEF FinishAttest, AttestInv
<1>5. SlotInv(NotHandling, jwt'[s])
  BY DEF SlotInv, NotHandling
<1> QED BY <1>1, <1>3, <1>4, <1>5, StepSuffices

(* /env/v3 beside it: its steps that read the chain or the release. *)
LEMMA EnvStepKeeps ==
    ASSUME AttestInv, UNCHANGED <<debug, config, jwt>>, NEW s \in Callers,
           handler[s].req.endpoint = "/env/v3", HandlerStep(s)
    PROVE  AttestInv'
<1>1. handler[s].req.endpoint # "/auth/attest"
  OBVIOUS
<1>2. ASSUME handler[s].pc \in {"image", "tcb"}, Goto(s, "fetch"),
             GetLatestRelease(s, AppOf(handler[s].req)),
             AdmittedSince(handler[s].req.evidence, handler[s].since)
      PROVE  AttestInv'
  <2>1. handler[s].req \in Requests /\ LocalStatus(handler[s].req) = 200
    BY <1>2, CheckedSlot DEF StatusAt
  <2>2. IInv' /\ UNCHANGED <<chain, debug, config, jwt>>
    BY <1>2, <2>1, AppIsKnown, InvocationPreserves DEF AttestInv, GetLatestRelease
  <2> QED BY <1>1, <1>2, <2>2, MovesOnNoToken
<1>3. CASE CheckImage(s)
  <2>1. handler[s].pc = "image"
    BY <1>3 DEF CheckImage
  <2>2. PICK g \in Views :
           LET r       == handler[s].req
               verdict == ImageVerdict(r.evidence, g)
           IN  \/ /\ verdict = "refused"
                  /\ Respond(s, 401) /\ UNCHANGED <<chain, fetchVars>>
               \/ /\ verdict = "firmware"
                  /\ Goto(s, "firmware") /\ UNCHANGED <<chain, fetchVars>>
               \/ /\ verdict = "admitted"
                  /\ Goto(s, "fetch") /\ GetLatestRelease(s, AppOf(r))
    BY <1>3 DEF CheckImage
  <2>3. CASE Respond(s, 401) /\ UNCHANGED <<chain, fetchVars>>
    <3>1. IInv' /\ UNCHANGED <<chain, debug, config, jwt>>
      BY <2>3, StutterPreserves DEF AttestInv
    <3> QED BY <1>1, <2>1, <2>3, <3>1, Answers
  <2>4. CASE /\ ImageVerdict(handler[s].req.evidence, g) = "firmware"
             /\ Goto(s, "firmware") /\ UNCHANGED <<chain, fetchVars>>
    <3>1. IInv' /\ UNCHANGED <<chain, debug, config, jwt>>
      BY <2>4, StutterPreserves DEF AttestInv
    <3> QED BY <1>1, <2>1, <2>4, <3>1, ViewAllows, MovesOnNoToken
  <2>5. CASE /\ ImageVerdict(handler[s].req.evidence, g) = "admitted"
             /\ Goto(s, "fetch") /\ GetLatestRelease(s, AppOf(handler[s].req))
    BY <1>2, <2>1, <2>5, ViewAdmits
  <2> QED BY <2>2, <2>3, <2>4, <2>5
<1>4. CASE CheckTCB(s)
  <2>1. handler[s].pc = "tcb"
    BY <1>4 DEF CheckTCB
  <2>2. PICK g \in Views :
           LET r == handler[s].req
           IN  \/ /\ ~IsTCBValid(r.evidence, g)
                  /\ Respond(s, 401) /\ UNCHANGED <<chain, fetchVars>>
               \/ /\ IsTCBValid(r.evidence, g)
                  /\ Goto(s, "fetch") /\ GetLatestRelease(s, AppOf(r))
    BY <1>4 DEF CheckTCB
  <2>3. CASE Respond(s, 401) /\ UNCHANGED <<chain, fetchVars>>
    <3>1. IInv' /\ UNCHANGED <<chain, debug, config, jwt>>
      BY <2>3, StutterPreserves DEF AttestInv
    <3> QED BY <1>1, <2>1, <2>3, <3>1, Answers
  <2>4. CASE /\ IsTCBValid(handler[s].req.evidence, g)
             /\ Goto(s, "fetch") /\ GetLatestRelease(s, AppOf(handler[s].req))
    BY <1>2, <2>1, <2>4, ViewAdmits
  <2> QED BY <2>2, <2>3, <2>4
<1>5. CASE FetchRelease(s)
  <2>1. FetchStep(s) /\ UNCHANGED <<chain, handler>>
    BY <1>5 DEF FetchRelease, FetchStep, FetchBlockNumber, FetchEvents, FetchError
  <2>2. IInv'
    BY <2>1, InvocationPreserves DEF AttestInv
  <2> QED BY <2>1, <2>2, StepSufficesNoToken DEF AttestInv
<1>6. CASE Authorize(s)
  <2>1. handler[s].pc = "fetch" /\ FetchReturn(s)
    BY <1>6 DEF Authorize
  <2>2. IInv' /\ UNCHANGED <<chain, debug, config, jwt>>
    BY <2>1, InvocationPreserves DEF AttestInv, FetchReturn
  <2> DEFINE status == ReleaseStatus(handler[s].req,
                          ReleaseAt(AppOf(handler[s].req), fetch[s].release))
  <2>3. status \in {200, 401, 500}
    BY DEF ReleaseStatus
  <2>4. \/ RespondFault(s, 500)
        \/ Respond(s, 500)
        \/ status # 200 /\ Respond(s, status)
        \/ handler' = [handler EXCEPT ![s] = Decrypting(handler[s], fetch[s].release)]
    BY <1>6 DEF Authorize, AttestInv
  <2>5. CASE RespondFault(s, 500) \/ Respond(s, 500)
    BY <1>1, <2>1, <2>2, <2>5, Answers
  <2>6. CASE status # 200 /\ Respond(s, status)
    <3> HIDE DEF status
    <3> QED BY <1>1, <2>1, <2>2, <2>3, <2>6, Answers
  <2>7. CASE handler' = [handler EXCEPT ![s] = Decrypting(handler[s], fetch[s].release)]
    <3>1. PICK h \in HandlerStates(HandlerPhase), release \in Position :
             h = handler[s] /\ release = fetch[s].release
      BY DEF AttestInv, IInv, FetchTypeOK, FetchState
    <3>2. PICK g \in HandlerStates(HandlerPhase) :
             /\ g = Decrypting(h, release)
             /\ g.pc = "decrypt" /\ g.req = h.req /\ g.since = h.since
      BY DecryptingIsState
    <3>3. handler' = [handler EXCEPT ![s] = g]
      BY <2>7, <3>1, <3>2
    <3>4. /\ handler' \in [Callers -> HandlerStates(HandlerPhase)]
          /\ handler'[s] = g
          /\ \A d \in Callers \ {s} : handler'[d] = handler[d]
      BY <3>3, SlotAssigned DEF AttestInv
    <3>5. SlotInv(h, jwt[s])
      BY <3>1 DEF AttestInv
    <3>6. SlotInv(g, jwt[s])
      BY <1>1, <2>1, <3>1, <3>2, <3>5 DEF SlotInv, Admitted
    <3> QED BY <2>2, <3>4, <3>6, StepSufficesNoToken
  <2> QED BY <2>4, <2>5, <2>6, <2>7
<1>7. CASE DecryptEnv(s)
  <2>1. IInv' /\ UNCHANGED <<chain, debug, config, jwt>> /\ handler[s].pc = "decrypt"
    BY <1>7, StutterPreserves DEF DecryptEnv, AttestInv
  <2> DEFINE status == SecretsStatus(handler[s].req,
                          ReleaseAt(AppOf(handler[s].req), handler[s].release))
  <2>2. status \in {200, 400, 401, 500}
    BY DEF SecretsStatus, DecryptStatus
  <2>3. Goto(s, "mnemonic") \/ (status # 200 /\ Respond(s, status))
    BY <1>7 DEF DecryptEnv
  <2>4. AdmittedSince(handler[s].req.evidence, handler[s].since)
    BY <2>1 DEF AttestInv, SlotInv, Admitted
  <2> HIDE DEF status
  <2>5. CASE Goto(s, "mnemonic")
    BY <1>1, <2>1, <2>4, <2>5, MovesOnNoToken
  <2>6. CASE status # 200 /\ Respond(s, status)
    BY <1>1, <2>1, <2>2, <2>6, Answers
  <2> QED BY <2>3, <2>5, <2>6
<1>8. CASE DeriveMnemonic(s)
  <2>1. /\ IInv' /\ UNCHANGED <<chain, debug, config>>
        /\ handler[s].pc = "mnemonic" /\ Goto(s, "sign")
    BY <1>8, StutterPreserves DEF DeriveMnemonic, AttestInv
  <2>2. AdmittedSince(handler[s].req.evidence, handler[s].since)
    BY <2>1 DEF AttestInv, SlotInv, Admitted
  <2>3. PICK u \in Tokens \cup {NoToken} : u = jwt'[s]
    BY DEF AttestInv
  <2>4. /\ jwt' \in [Callers -> Tokens \cup {NoToken}]
        /\ \A d \in Callers \ {s} : jwt'[d] = jwt[d]
    BY DEF AttestInv
  <2> QED BY <1>1, <2>1, <2>2, <2>3, <2>4, MovesOn
<1> QED BY <1>3, <1>4, <1>5, <1>6, <1>7, <1>8, VerifyFirmwareKeeps, FaultsKeep,
           SignResponseKeeps DEF HandlerStep

-----------------------------------------------------------------------------
LEMMA AttestInitEstablishes == AttestServerInit => AttestInv
<1> SUFFICES ASSUME AttestServerInit PROVE AttestInv
  OBVIOUS
<1>1. ServerInv
  BY ServerInitEstablishes DEF AttestServerInit
<1>2. \A s \in Callers : handler[s] = NotHandling
  BY DEF AttestServerInit, ServerSpecInit, ServerInit
<1>3. ASSUME NEW s \in Callers
      PROVE  SlotInv(handler[s], jwt[s])
  BY <1>2 DEF SlotInv, NotHandling
<1>4. config \in StartedConfigs /\ jwt \in [Callers -> Tokens \cup {NoToken}]
  BY DEF AttestServerInit, AttestInit
<1> QED BY <1>1, <1>3, <1>4 DEF ServerInv, AttestInv

(* A step that leaves the slots alone, whether the chain grows or not. *)
LEMMA SlotsUntouched ==
    ASSUME AttestInv, IInv', Grows, UNCHANGED <<config, handler, jwt>>
    PROVE  AttestInv'
<1>1. StartedConfigs' = StartedConfigs /\ Tokens' = Tokens
  BY TokensStay DEF StartedConfigs
<1>2. ASSUME NEW s \in Callers
      PROVE  SlotInv(handler[s], jwt[s])'
  <2>1. PICK h \in HandlerStates(HandlerPhase), t \in Tokens \cup {NoToken} :
           h = handler[s] /\ t = jwt[s]
    BY DEF AttestInv
  <2>2. SlotInv(h, t)
    BY <2>1 DEF AttestInv
  <2>3. SlotInv(h, t)'
    BY <2>2, SlotSurvives
  <2> QED BY <2>1, <2>3
<1>3. debug' = debug
  BY DEF Grows
<1> QED BY <1>1, <1>2, <1>3 DEF AttestInv

(* AttestInv is inductive. *)
THEOREM AttestInvariance == AttestSpec => []AttestInv
<1>1. AttestInv /\ [AttestNext]_attestVars => AttestInv'
  <2> SUFFICES ASSUME AttestInv, [AttestNext]_attestVars PROVE AttestInv'
    OBVIOUS
  <2>1. CASE MineBlock /\ UNCHANGED <<fetchVars, handler, jwt, debug, config>>
    <3>1. IInv'
      BY <2>1, MineBlockPreserves DEF AttestInv
    <3>2. Height \in Nat /\ Height' = Height + 1 /\ \A h \in 1..Height : chain'[h] = chain[h]
      BY <2>1, MineBlockAppends DEF AttestInv, IInv, FetchTypeOK, Height
    <3>3. Grows
      BY <2>1, <3>2 DEF Grows
    <3> QED BY <2>1, <3>1, <3>3, SlotsUntouched
  <2>2. CASE UNCHANGED attestVars
    <3>1. UNCHANGED <<chain, fetchVars, debug, config, handler, jwt>>
      BY <2>2 DEF attestVars, fetchVars
    <3>2. IInv'
      BY <3>1, StutterPreserves DEF AttestInv
    <3>3. Grows
      BY <3>1 DEF Grows, AttestInv, IInv, FetchTypeOK, Height
    <3> QED BY <3>1, <3>2, <3>3, SlotsUntouched
  <2>3. ASSUME UNCHANGED <<debug, config>>, NEW s \in Callers,
               \/ \E r \in Requests : ReceiveAttest(s, r)
               \/ \E r \in Requests : r.endpoint = "/env/v3" /\ Receive(s, r) /\ UNCHANGED jwt
        PROVE  AttestInv'
    <3>1. PICK r \in Requests :
             ReceiveAttest(s, r) \/ (r.endpoint = "/env/v3" /\ Receive(s, r) /\ UNCHANGED jwt)
      BY <2>3
    <3>2. UNCHANGED jwt
      BY <3>1 DEF ReceiveAttest
    <3> QED BY <2>3, <3>1, <3>2, ArrivalPreserves
  <2>4. ASSUME UNCHANGED <<debug, config>>, NEW s \in Callers,
               Handles(s, "/auth/attest"), AttestStep(s)
        PROVE  AttestInv'
    BY <2>4, AttestImagePreserves, AttestTCBPreserves, VerifyFirmwareKeeps, FaultsKeep,
       SignResponseKeeps DEF Handles, AttestStep
  <2>5. ASSUME UNCHANGED <<debug, config, jwt>>, NEW s \in Callers,
               Handles(s, "/env/v3"), HandlerStep(s)
        PROVE  AttestInv'
    BY <2>5, EnvStepKeeps DEF Handles
  <2>6. ASSUME UNCHANGED <<debug, config>>, NEW s \in Callers, FinishAttest(s)
        PROVE  AttestInv'
    BY <2>6, FinishKeeps
  <2>7. CASE AttestNext
    <3>1. UNCHANGED <<debug, config>>
      BY <2>7 DEF AttestNext
    <3>2. CASE MineBlock /\ UNCHANGED <<fetchVars, handler, jwt>>
      BY <2>1, <3>1, <3>2
    <3>3. ASSUME NEW s \in Callers,
                 \/ \E r \in Requests : ReceiveAttest(s, r)
                 \/ \E r \in Requests : r.endpoint = "/env/v3" /\ Receive(s, r) /\ UNCHANGED jwt
                 \/ Handles(s, "/auth/attest") /\ AttestStep(s)
                 \/ Handles(s, "/env/v3") /\ HandlerStep(s) /\ UNCHANGED jwt
                 \/ FinishAttest(s)
          PROVE  AttestInv'
      BY <2>3, <2>4, <2>5, <2>6, <3>1, <3>3
    <3> QED BY <2>7, <3>2, <3>3 DEF AttestNext
  <2> QED BY <2>2, <2>7
<1> QED BY AttestInitEstablishes, <1>1, PTL DEF AttestSpec

-----------------------------------------------------------------------------
(* Every reachable state of the two endpoints is well typed. *)
THEOREM AttestTypeCorrect == AttestSpec => []AttestTypeOK
<1>1. AttestInv => AttestTypeOK
  BY DEF AttestInv, IInv, AttestTypeOK, ServerTypeOK
<1> QED BY <1>1, AttestInvariance, PTL

(* What a slot that answers 200 knows of its request and its token. *)
LEMMA GrantedRequest ==
    ASSUME AttestInv, NEW s \in Callers, Answered(s, 200)
    PROVE  /\ handler[s].req \in Requests
           /\ StatusAt(handler[s].req) = 200
           /\ AdmittedSince(handler[s].req.evidence, handler[s].since)
           /\ handler[s].req.endpoint = "/auth/attest" =>
                 /\ OffersAttest(config)
                 /\ jwt[s] = SignAttestationJWT(handler[s].req)
BY DEF AttestInv, SlotInv, TokenInv, Admitted, Signed, Answered

(* What the evidence of a request that passes is bound to. *)
LEMMA BoundToPurpose ==
    ASSUME NEW r \in Requests, StatusAt(r) = 200
    PROVE  /\ r.endpoint = "/env/v3" =>
                 /\ r.evidence.challenge = <<EnvRequestRSAKeyHeader, r.rsaKey>>
                 /\ r.evidence.extraData = "none"
           /\ r.endpoint = "/auth/attest" =>
                 /\ r.evidence.challenge = <<JWTRequestRSAKeyHeader, r.rsaKey>>
                 /\ r.evidence.extraData = Base64[r.extraData]
<1>1. CASE r.endpoint = "/env/v3"
  BY <1>1 DEF StatusAt, LocalStatus, Attested, Verify, CalculateSignableDigest
<1>2. CASE r.endpoint = "/auth/attest"
  BY <1>2 DEF StatusAt, AttestStatus, AttestedForJWT, Verify, CalculateSignableDigest
<1> QED BY <1>1, <1>2, EndpointAssumption

(* Evidence shown to one endpoint is of no use at the other, nor with      *)
(* another key (crypto.go:22-24, attest.go:114-119, env.go:234-236).       *)
THEOREM EvidenceAlwaysServesOnePurpose == AttestSpec => []EvidenceServesOnePurpose
<1>1. AttestInv => EvidenceServesOnePurpose
  <2> SUFFICES ASSUME AttestInv, NEW s \in Callers, NEW r \in Requests, Answered(s, 200),
                      r.evidence = handler[s].req.evidence, StatusAt(r) = 200
               PROVE  /\ r.endpoint = handler[s].req.endpoint
                      /\ r.rsaKey = handler[s].req.rsaKey
                      /\ Granted(s, "/auth/attest") => Base64[r.extraData] = Base64[jwt[s].extra_data]
    BY DEF EvidenceServesOnePurpose
  <2>1. PICK q \in Requests : q = handler[s].req /\ StatusAt(q) = 200
    BY GrantedRequest
  <2>2. r.evidence = q.evidence
    BY <2>1
  <2>3. EnvRequestRSAKeyHeader # JWTRequestRSAKeyHeader
    BY DEF EnvRequestRSAKeyHeader, JWTRequestRSAKeyHeader
  <2>4. r.endpoint = q.endpoint /\ r.rsaKey = q.rsaKey
    BY <2>1, <2>2, <2>3, BoundToPurpose, EndpointAssumption
  <2>5. ASSUME Granted(s, "/auth/attest")
        PROVE  Base64[r.extraData] = Base64[jwt[s].extra_data]
    <3>1. q.endpoint = "/auth/attest" /\ jwt[s] = SignAttestationJWT(q)
      BY <2>1, <2>5, GrantedRequest DEF Granted
    <3>2. jwt[s].extra_data = q.extraData
      BY <3>1 DEF SignAttestationJWT
    <3> QED BY <2>1, <2>2, <2>4, <3>1, <3>2, BoundToPurpose
  <2> QED BY <2>1, <2>4, <2>5
<1> QED BY <1>1, AttestInvariance, PTL

(* A token repeats what was attested, for the reader the evidence names    *)
(* (attest.go:101-149, jwt_claims.go:85-142).                              *)
THEOREM TokensSayWhatWasAttested == AttestSpec => []TokenSaysWhatWasAttested
<1>1. AttestInv => TokenSaysWhatWasAttested
  <2> SUFFICES ASSUME AttestInv, NEW s \in Callers, Granted(s, "/auth/attest")
               PROVE  /\ handler[s].req.evidence.challenge =
                            CalculateSignableDigest(JWTRequestRSAKeyHeader, jwt[s].encryptedTo)
                      /\ Base64[jwt[s].extra_data] = handler[s].req.evidence.extraData
                      /\ debug \/ (/\ jwt[s].sub = handler[s].req.evidence.instance
                                   /\ jwt[s].claims.hardened)
    BY DEF TokenSaysWhatWasAttested
  <2>1. PICK q \in Requests : q = handler[s].req /\ StatusAt(q) = 200
    BY GrantedRequest DEF Granted
  <2>2. jwt[s] = SignAttestationJWT(q) /\ q.endpoint = "/auth/attest" /\ AttestStatus(q) = 200
    BY <2>1, GrantedRequest DEF Granted, StatusAt
  <2>3. /\ jwt[s].encryptedTo = q.rsaKey /\ jwt[s].extra_data = q.extraData
        /\ jwt[s].sub = AppOf(q)
        /\ jwt[s].claims = NewAttestationJWTClaims(AppOf(q), q.evidence)
    BY <2>2 DEF SignAttestationJWT
  <2>4. debug \/ (jwt[s].sub = q.evidence.instance /\ q.evidence.hardened)
    BY <2>2, <2>3 DEF AttestStatus, OverrideRefused, HostAccepted, AppOf
  <2>5. jwt[s].claims.hardened = q.evidence.hardened
    BY <2>3 DEF NewAttestationJWTClaims
  <2> QED BY <2>1, <2>2, <2>3, <2>4, <2>5, BoundToPurpose DEF CalculateSignableDigest
<1> QED BY <1>1, AttestInvariance, PTL

(* No token is signed with anything but the configured RSA key             *)
(* (server_config.go:133-145, cmd/kms-server/main.go:162-177).             *)
THEOREM AlwaysSignedByConfiguredKey == AttestSpec => []SignedByConfiguredKey
<1>1. AttestInv => SignedByConfiguredKey
  <2> SUFFICES ASSUME AttestInv, NEW s \in Callers, Granted(s, "/auth/attest")
               PROVE  /\ jwt[s].signedWith \in RSAKeys
                      /\ config.source = "secret-manager" =>
                            jwt[s].signedWith = SecretValues[config.secret]
    BY DEF SignedByConfiguredKey
  <2>1. OffersAttest(config) /\ jwt[s] = SignAttestationJWT(handler[s].req)
    BY GrantedRequest DEF Granted
  <2>2. jwt[s].signedWith = AttestJWTSigningKey(config)
    BY <2>1 DEF SignAttestationJWT
  <2>3. Starts(config)
    BY DEF AttestInv, StartedConfigs
  <2> QED BY <2>1, <2>2, <2>3 DEF Starts, AttestJWTSigningKey
<1> QED BY <1>1, AttestInvariance, PTL

(* Whoever has a 200, of either endpoint, was admitted by the policies,    *)
(* the image no later than the TCB, up to the lag (env.go:268-278,         *)
(* attest.go:131-141).                                                     *)
THEOREM BothAdmitByPolicy == AttestSpec => []AdmittedByPolicy
<1>1. AttestInv => AdmittedByPolicy
  BY GrantedRequest DEF AdmittedByPolicy, AdmittedSince, ValidAfter, TEEModeAccepted
<1> QED BY <1>1, AttestInvariance, PTL

(* A 4xx of /auth/attest not owed to a failed remote call has its cause in *)
(* the request or in the policies (attest.go:84-149).                      *)
THEOREM AttestRefusalAlwaysJustified == AttestSpec => []AttestRefusalIsJustified
<1>1. AttestInv => AttestRefusalIsJustified
  <2> SUFFICES ASSUME AttestInv, NEW s \in Callers,
                      Answered(s, 400) \/ Answered(s, 401),
                      Handles(s, "/auth/attest"), ~handler[s].fault
               PROVE  NotDueSince(handler[s].req, handler[s].since)
    BY DEF AttestRefusalIsJustified, NotDueSince
  <2> QED BY DEF AttestInv, SlotInv, TokenInv, Refused, Answered, Handles
<1> QED BY <1>1, AttestInvariance, PTL

-----------------------------------------------------------------------------
(* Beside /auth/attest, which fetches no release, /env/v3 calls            *)
(* GetLatestRelease as ReleaseFetch says.                                  *)
LEMMA AttestStepIsCall == AttestInv /\ [AttestNext]_attestVars => [Next]_vars
<1> SUFFICES ASSUME AttestInv, [AttestNext]_attestVars PROVE [Next]_vars
  OBVIOUS
<1>1. CASE MineBlock /\ UNCHANGED <<fetchVars, handler, jwt>>
  BY <1>1 DEF Next, fetchVars
<1>2. CASE UNCHANGED <<chain, fetch, newest>>
  BY <1>2 DEF vars
<1>3. ASSUME NEW s \in Callers, Handles(s, "/env/v3"), HandlerStep(s)
      PROVE  [Next]_vars
  <2>1. handler[s].pc \in {"image", "tcb"} =>
           handler[s].req \in Requests /\ LocalStatus(handler[s].req) = 200
    BY <1>3 DEF AttestInv, SlotInv, StatusAt, Handles
  <2> QED BY <1>3, <2>1, AppIsKnown, HandlerStepIsCall
<1>4. ASSUME NEW s \in Callers,
             \/ \E r \in Requests : ReceiveAttest(s, r) \/ Receive(s, r)
             \/ AttestStep(s) \/ FinishAttest(s)
      PROVE  [Next]_vars
  <2>1. UNCHANGED <<chain, fetchVars>>
    BY <1>4
       DEF ReceiveAttest, Receive, AttestStep, AttestImage, AttestTCB, VerifyFirmware,
           PolicyError, SignResponse, KmsError, FinishAttest, Finish
  <2> QED BY <1>2, <2>1 DEF fetchVars
<1>5. CASE UNCHANGED attestVars
  BY <1>2, <1>5 DEF attestVars
<1> QED BY <1>1, <1>3, <1>4, <1>5 DEF AttestNext

(* So the fetch is one read there as well (env.go:287-294,                 *)
(* chainclient.go:59-106).                                                 *)
THEOREM AttestServerReadsAtomically == AttestSpec => ReadIsAtomic
<1>1. AttestServerInit => Init
  BY DEF AttestServerInit, ServerSpecInit, Init
<1>2. AttestSpec => Spec
  BY <1>1, AttestStepIsCall, AttestInvariance, PTL DEF AttestSpec, Spec
<1> QED BY <1>2, ReadRefinesAtomic
=============================================================================
