--------------------------- MODULE TokenServerProofs ---------------------------
(***************************************************************************)
(* Proofs about TokenServer, for any requests, key sets, releases, slots,  *)
(* lag and chain length: its type invariant, and who gets an env from the  *)
(* older endpoints, and who is refused one, while the key caches are       *)
(* refreshed under the requests.                                           *)
(*                                                                         *)
(* The inductive invariant says what a walk through a cache has found:     *)
(* nothing but keys the cache has held, and every key that has kept its    *)
(* index in all the sets the cache has held, up to the walk's own index.   *)
(***************************************************************************)
EXTENDS TokenServer, EnvServerProofs

(* Every set the cache has held during the walk has the token's key at i. *)
Stable(r, w, i) ==
    \A set \in w.sets : i \in DOMAIN set /\ set[i] = r.evidence.key

(* What a walk in state w has found for the slot in state h, cached being  *)
(* what the cache holds now.                                               *)
WalkInv(h, w, cached) ==
    /\ cached \in w.sets
    /\ \A k \in w.found : \E set \in w.sets : k \in Range(set)
    /\ \A i \in 1..(w.next - 1) : Stable(h.req, w, i) => h.req.evidence.key \in w.found
    /\ h.pc = "claims" => \E set \in w.sets : Len(set) < w.next

Vouched(r, w) ==
    /\ TokenStatus(r, w.found) = 200
    /\ \E set \in w.sets : r.evidence.key \in Range(set)

NotTokenEntitled(r, since, w) ==
    \/ \E g \in Window(since) : ~TokenEntitledAt(r, g)
    \/ ~\E i \in UNION {DOMAIN set : set \in w.sets} : Stable(r, w, i)

InWalk(h) == h.pc \in {"count", "key", "claims"}

(* What a slot's phase says, w and f being its walk and its call.  *)
TokenSlotInv(h, w, f) ==
    /\ h.pc = "fetch" <=> f.pc # "idle"
    /\ h.pc # "idle" => h.req \in Requests /\ h.since \in 1..Height
    /\ InWalk(h) => Parses(h.req) /\ WalkInv(h, w, jwks[ProviderOf(h.req)])
    /\ h.pc = "fetch" \/ Granting(h) => Parses(h.req) /\ Vouched(h.req, w)
    /\ h.pc = "fetch" => f.app = AppOf(h.req) /\ h.since <= f.since
    /\ Granting(h) =>
          /\ ReadSince(AppOf(h.req), h.release, h.since)
          /\ ReleaseStatus(h.req, ReleaseAt(AppOf(h.req), h.release)) = 200
    /\ Refused(h) => NotTokenEntitled(h.req, h.since, w)

TokenInv ==
    /\ IInv
    /\ debug \in DebugModes
    /\ handler \in [Callers -> HandlerStates(TokenPhase)]
    /\ jwks \in [Providers -> KeyLists]
    /\ \A p \in Providers : jwks[p] \in KeySets[p]
    /\ walk \in [Callers -> WalkState]
    /\ \A s \in Callers : TokenSlotInv(handler[s], walk[s], fetch[s])

-----------------------------------------------------------------------------
(* What a provider publishes is a list. *)
LEMMA KeyListsAreLists ==
    ASSUME NEW set \in KeyLists
    PROVE  DOMAIN set = 1..Len(set) /\ Len(set) \in Nat
<1>1. PICK p \in Providers : set \in KeySets[p]
  BY KeySetAssumption DEF KeyLists, Range
<1>2. set \in Seq(Range(set))
  BY <1>1, KeySetAssumption
<1> QED BY <1>2

LEMMA ProvidersAre ==
    ASSUME NEW r
    PROVE  ProviderOf(r) \in Providers
BY DEF ProviderOf, Providers

(* What a token that passes says of its app.  *)
LEMMA PassedAppIsKnown ==
    ASSUME NEW r \in Requests, NEW keys, TokenStatus(r, keys) = 200
    PROVE  AppOf(r) \in Apps /\ (debug \/ AppOf(r) = r.evidence.instance)
<1>1. VerifyAttestation(r.evidence, ProviderOf(r), keys) /\ ~OverrideRefused(r)
  BY DEF TokenStatus
<1>2. r.evidence.instance # "none"
  BY <1>1 DEF VerifyAttestation
<1>3. debug \/ r.appID = "none"
  BY <1>1 DEF OverrideRefused
<1> QED BY <1>2, <1>3, AppAssumption DEF AppOf

(* ... and of its key and its nonce. *)
LEMMA PassedToken ==
    ASSUME NEW r \in Requests, NEW keys, TokenStatus(r, keys) = 200
    PROVE  /\ r.evidence.key \in keys
           /\ r.evidence.issuer = ProviderOf(r)
           /\ NonceStatus(r) = 200
<1>1. VerifyAttestation(r.evidence, ProviderOf(r), keys) /\ NonceStatus(r) = 200
  BY DEF TokenStatus
<1> QED BY <1>1 DEF VerifyAttestation

(* What the checks of a token lead to ... *)
LEMMA TokenStatusIs ==
    ASSUME NEW r \in Requests, NEW keys
    PROVE  TokenStatus(r, keys) \in {200, 400, 401}
<1>1. NonceStatus(r) \in {200, 400, 401}
  BY TokenEndpointAssumption DEF NonceStatus
<1> QED BY <1>1 DEF TokenStatus

(* ... they do with the right key alone. *)
LEMMA OneKeySuffices ==
    ASSUME NEW r \in Requests, NEW keys, r.evidence.key \in keys
    PROVE  TokenStatus(r, {r.evidence.key}) = TokenStatus(r, keys)
<1>1. VerifyAttestation(r.evidence, ProviderOf(r), {r.evidence.key})
         <=> VerifyAttestation(r.evidence, ProviderOf(r), keys)
  BY DEF VerifyAttestation
<1> QED BY <1>1 DEF TokenStatus

(* A token that passed names an app. *)
LEMMA VouchedAppIsKnown ==
    ASSUME NEW r \in Requests, NEW w, Vouched(r, w)
    PROVE  AppOf(r) \in Apps
<1>1. PICK keys : keys = w.found
  OBVIOUS
<1>2. TokenStatus(r, keys) = 200
  BY <1>1 DEF Vouched
<1> QED BY <1>2, PassedAppIsKnown

-----------------------------------------------------------------------------
(* Nothing that grows changes what a token is worth. *)
LEMMA TokenStatusStays ==
    ASSUME Grows, NEW r, NEW keys
    PROVE  TokenStatus(r, keys)' = TokenStatus(r, keys)
<1>1. debug' = debug
  BY DEF Grows
<1>2. OverrideRefused(r)' <=> OverrideRefused(r)
  BY <1>1 DEF OverrideRefused
<1>3. ASSUME NEW config
      PROVE  ValidateToken(r.evidence, config)' <=> ValidateToken(r.evidence, config)
  BY <1>1 DEF ValidateToken
<1>4. ASSUME NEW provider
      PROVE  VerifyAttestation(r.evidence, provider, keys)'
                <=> VerifyAttestation(r.evidence, provider, keys)
  BY <1>3 DEF VerifyAttestation
<1> QED BY <1>2, <1>4 DEF TokenStatus

LEMMA TokenEntitledForGood ==
    ASSUME StorageInv, Grows, NEW r \in Requests, NEW g \in 1..Height
    PROVE  TokenEntitledAt(r, g)' <=> TokenEntitledAt(r, g)
<1>1. TokenStatus(r, {r.evidence.key})' = TokenStatus(r, {r.evidence.key})
  BY TokenStatusStays
<1>2. CASE TokenStatus(r, {r.evidence.key}) # 200
  BY <1>1, <1>2 DEF TokenEntitledAt
<1>3. CASE TokenStatus(r, {r.evidence.key}) = 200
  <2>1. PICK app \in Apps : app = AppOf(r)
    BY <1>3, PassedAppIsKnown
  <2>2. chain'[g] = chain[g] /\ chain[g].latest[app] \in 0..g
    BY DEF Grows, StorageInv
  <2>3. CASE chain[g].latest[app] = 0
    BY <2>1, <2>2, <2>3 DEF TokenEntitledAt
  <2>4. CASE chain[g].latest[app] # 0
    <3>1. chain'[chain[g].latest[app]] = chain[chain[g].latest[app]]
      BY <2>2, <2>4 DEF Grows
    <3>2. LastRelease(app, g)' = LastRelease(app, g)
      BY <2>2, <3>1 DEF LastRelease
    <3> QED BY <1>1, <2>1, <2>2, <3>2 DEF TokenEntitledAt
  <2> QED BY <2>3, <2>4
<1> QED BY <1>2, <1>3

(* No step of the chain, or of another slot, undoes what is known of one.  *)
LEMMA TokenSlotSurvives ==
    ASSUME StorageInv, Grows,
           NEW h \in HandlerStates(TokenPhase), NEW w, NEW f, TokenSlotInv(h, w, f),
           InWalk(h) => jwks'[ProviderOf(h.req)] = jwks[ProviderOf(h.req)]
    PROVE  TokenSlotInv(h, w, f)'
<1> DEFINE app == AppOf(h.req)
<1>1. \A since \in Nat : \A g \in Window(since) :
         g \in 1..Height /\ g \in Window(since)' /\ chain'[g] = chain[g]
  BY DEF Grows, Window
<1>2. h.since \in Nat
  BY DEF HandlerStates
<1>3. h.pc # "idle" => h.since \in 1..Height'
  BY DEF TokenSlotInv, Grows
<1>4. Vouched(h.req, w) => Vouched(h.req, w)'
  BY TokenStatusStays DEF Vouched
<1>5. InWalk(h) => WalkInv(h, w, jwks'[ProviderOf(h.req)])
  BY DEF TokenSlotInv
<1>6. ASSUME Granting(h)
      PROVE  /\ ReadSince(app, h.release, h.since)'
             /\ ReleaseStatus(h.req, ReleaseAt(app, h.release))' = 200
  <2>0. h.req \in Requests /\ Vouched(h.req, w)
    BY <1>6 DEF TokenSlotInv, Granting
  <2>1. app \in Apps
    BY <2>0, VouchedAppIsKnown
  <2>2. PICK g \in Window(h.since) : ReadAt(app, h.release, g)
    BY <1>6 DEF TokenSlotInv, ReadSince
  <2>3. ReadAt(app, h.release, g)' /\ ReleaseAt(app, h.release)' = ReleaseAt(app, h.release)
    BY <1>1, <1>2, <2>1, <2>2, ReadForGood
  <2> QED BY <1>1, <1>2, <1>6, <2>2, <2>3 DEF TokenSlotInv, ReadSince, ReleaseStatus
<1>7. ASSUME Refused(h)
      PROVE  NotTokenEntitled(h.req, h.since, w)'
  <2>1. h.req \in Requests /\ NotTokenEntitled(h.req, h.since, w)
    BY <1>7 DEF TokenSlotInv, Refused
  <2>2. ASSUME NEW g \in Window(h.since), ~TokenEntitledAt(h.req, g)
        PROVE  g \in Window(h.since)' /\ ~TokenEntitledAt(h.req, g)'
    BY <1>1, <1>2, <2>1, <2>2, TokenEntitledForGood
  <2> QED BY <2>1, <2>2 DEF NotTokenEntitled
<1> QED BY <1>3, <1>4, <1>5, <1>6, <1>7 DEF TokenSlotInv, Granting, Refused, InWalk

-----------------------------------------------------------------------------
(* A step of one slot is right if the slot's new state and walk are. *)
LEMMA TokenStepSuffices ==
    ASSUME TokenInv, IInv', UNCHANGED <<chain, debug, jwks>>, NEW s \in Callers,
           handler' \in [Callers -> HandlerStates(TokenPhase)],
           walk' \in [Callers -> WalkState],
           \A d \in Callers \ {s} :
              handler'[d] = handler[d] /\ walk'[d] = walk[d] /\ fetch'[d] = fetch[d],
           TokenSlotInv(handler'[s], walk'[s], fetch'[s])
    PROVE  TokenInv'
<1>1. Grows /\ StorageInv
  BY DEF Grows, TokenInv, IInv, FetchTypeOK, Height
<1>2. ASSUME NEW d \in Callers
      PROVE  TokenSlotInv(handler[d], walk[d], fetch[d])'
  <2>1. PICK h \in HandlerStates(TokenPhase), w \in WalkState, f \in {fetch'[d]} :
           h = handler'[d] /\ w = walk'[d] /\ f = fetch'[d]
    OBVIOUS
  <2>2. TokenSlotInv(h, w, f)
    BY <2>1 DEF TokenInv
  <2>3. TokenSlotInv(h, w, f)'
    BY <1>1, <2>2, TokenSlotSurvives
  <2> QED BY <2>1, <2>3
<1>3. /\ debug' \in DebugModes /\ jwks' \in [Providers -> KeyLists]
      /\ \A p \in Providers : jwks'[p] \in KeySets[p]
  BY DEF TokenInv
<1> QED BY <1>2, <1>3 DEF TokenInv

(* Likewise for one that leaves the walk, and maybe the call, alone. *)
LEMMA TokenStepNoWalk ==
    ASSUME TokenInv, IInv', UNCHANGED <<chain, debug, jwks, walk>>, NEW s \in Callers,
           handler' \in [Callers -> HandlerStates(TokenPhase)],
           \A d \in Callers \ {s} : handler'[d] = handler[d] /\ fetch'[d] = fetch[d],
           TokenSlotInv(handler'[s], walk[s], fetch'[s])
    PROVE  TokenInv'
<1>1. walk' = walk /\ walk' \in [Callers -> WalkState]
  BY DEF TokenInv
<1> QED BY <1>1, TokenStepSuffices

LEMMA TokenSlotAssigned ==
    ASSUME handler \in [Callers -> HandlerStates(TokenPhase)], NEW s \in Callers,
           NEW g \in HandlerStates(TokenPhase), handler' = [handler EXCEPT ![s] = g]
    PROVE  /\ handler' \in [Callers -> HandlerStates(TokenPhase)]
           /\ handler'[s] = g
           /\ \A d \in Callers \ {s} : handler'[d] = handler[d]
OBVIOUS

LEMMA TokenPcUpdate ==
    ASSUME NEW h \in HandlerStates(TokenPhase), NEW pc \in TokenPhase
    PROVE  /\ [h EXCEPT !.pc = pc] \in HandlerStates(TokenPhase)
           /\ [h EXCEPT !.pc = pc].pc = pc
           /\ [h EXCEPT !.pc = pc].req = h.req
           /\ [h EXCEPT !.pc = pc].since = h.since
           /\ [h EXCEPT !.pc = pc].release = h.release
BY DEF HandlerStates

(* What is known of a slot, as constants. *)
LEMMA TokenSlot ==
    ASSUME TokenInv, NEW s \in Callers
    PROVE  \E h \in HandlerStates(TokenPhase), w \in WalkState, f \in FetchState :
              /\ h = handler[s] /\ w = walk[s] /\ f = fetch[s]
              /\ TokenSlotInv(h, w, f)
BY DEF TokenInv, IInv, FetchTypeOK

LEMMA TokenHeight ==
    ASSUME TokenInv
    PROVE  Height \in Nat /\ Height >= 1
BY DEF TokenInv, IInv, FetchTypeOK, Height

(* An answer; a 4xx has its cause. *)
LEMMA TokenAnswers ==
    ASSUME TokenInv, IInv', UNCHANGED <<chain, debug, jwks, walk>>, NEW s \in Callers,
           \A d \in Callers \ {s} : fetch'[d] = fetch[d],
           fetch'[s].pc = "idle", handler[s].pc # "idle",
           NEW status \in {200, 400, 401, 500},
           \/ RespondFault(s, status) /\ status # 200
           \/ /\ Respond(s, status)
              /\ status = 200 => Granting(handler[s])
              /\ \/ status \in {200, 500}
                 \/ NotTokenEntitled(handler[s].req, handler[s].since, walk[s])
    PROVE  TokenInv'
<1>1. PICK h \in HandlerStates(TokenPhase), w \in WalkState, f \in FetchState :
         h = handler[s] /\ w = walk[s] /\ f = fetch[s] /\ TokenSlotInv(h, w, f)
  BY TokenSlot
<1>3. CASE RespondFault(s, status) /\ status # 200
  <2> DEFINE g == Answering(h, status, TRUE)
  <2>1. /\ g \in HandlerStates(TokenPhase)
        /\ g.pc = "reply" /\ g.status = status /\ g.req = h.req /\ g.since = h.since
        /\ g.release = h.release
    BY DEF Answering, HandlerStates, TokenPhase, HandlerPhase
  <2>2. g.fault
    BY DEF Answering
  <2>3. /\ handler' \in [Callers -> HandlerStates(TokenPhase)]
        /\ handler'[s] = g
        /\ \A d \in Callers \ {s} : handler'[d] = handler[d]
    <3>1. handler' = [handler EXCEPT ![s] = g]
      BY <1>1, <1>3 DEF RespondFault
    <3> HIDE DEF g
    <3> QED BY <2>1, <3>1, TokenSlotAssigned DEF TokenInv
  <2> HIDE DEF g
  <2>4. ~Refused(g) /\ ~Granting(g) /\ ~InWalk(g)
    BY <1>3, <2>1, <2>2 DEF Refused, Granting, InWalk
  <2>5. TokenSlotInv(g, w, fetch'[s])
    BY <1>1, <2>1, <2>4 DEF TokenSlotInv
  <2> QED BY <1>1, <2>3, <2>5, TokenStepNoWalk
<1>4. CASE /\ Respond(s, status)
           /\ status = 200 => Granting(handler[s])
           /\ \/ status \in {200, 500}
              \/ NotTokenEntitled(handler[s].req, handler[s].since, walk[s])
  <2> DEFINE g == Answering(h, status, FALSE)
  <2>1. /\ g \in HandlerStates(TokenPhase)
        /\ g.pc = "reply" /\ g.status = status /\ g.req = h.req /\ g.since = h.since
        /\ g.release = h.release
    BY DEF Answering, HandlerStates, TokenPhase, HandlerPhase
  <2>2. /\ handler' \in [Callers -> HandlerStates(TokenPhase)]
        /\ handler'[s] = g
        /\ \A d \in Callers \ {s} : handler'[d] = handler[d]
    <3>1. handler' = [handler EXCEPT ![s] = g]
      BY <1>1, <1>4 DEF Respond
    <3> HIDE DEF g
    <3> QED BY <2>1, <3>1, TokenSlotAssigned DEF TokenInv
  <2> HIDE DEF g
  <2>3. Granting(g) => Granting(h)
    BY <1>1, <1>4, <2>1 DEF Granting
  <2>4. Refused(g) => NotTokenEntitled(g.req, g.since, w)
    BY <1>1, <1>4, <2>1 DEF Refused
  <2>5. TokenSlotInv(g, w, fetch'[s])
    BY <1>1, <2>1, <2>3, <2>4 DEF TokenSlotInv, InWalk
  <2> QED BY <1>1, <2>2, <2>5, TokenStepNoWalk
<1> QED BY <1>3, <1>4

LEMMA TokenAnswersLocally ==
    ASSUME TokenInv, UNCHANGED <<chain, fetchVars, debug, jwks, walk>>, NEW s \in Callers,
           handler[s].pc \notin {"idle", "fetch"},
           NEW status \in {200, 400, 401, 500},
           \/ RespondFault(s, status) /\ status # 200
           \/ /\ Respond(s, status)
              /\ status = 200 => Granting(handler[s])
              /\ \/ status \in {200, 500}
                 \/ NotTokenEntitled(handler[s].req, handler[s].since, walk[s])
    PROVE  TokenInv'
<1>1. fetch'[s].pc = "idle" /\ \A d \in Callers \ {s} : fetch'[d] = fetch[d]
  BY DEF TokenInv, TokenSlotInv, fetchVars
<1>2. IInv'
  BY StutterPreserves DEF TokenInv
<1> QED BY <1>1, <1>2, TokenAnswers

(* A slot that goes on with its walk as it is. *)
LEMMA TokenMovesOn ==
    ASSUME TokenInv, UNCHANGED <<chain, fetchVars, debug, jwks, walk>>, NEW s \in Callers,
           NEW pc \in {"key", "claims", "mnemonic", "sign"}, Goto(s, pc),
           pc \in {"key", "claims"} => handler[s].pc = "count",
           pc = "claims" => \E set \in walk[s].sets : Len(set) < walk[s].next,
           pc \in {"mnemonic", "sign"} => Granting(handler[s]) /\ handler[s].pc # "reply"
    PROVE  TokenInv'
<1>1. PICK h \in HandlerStates(TokenPhase), w \in WalkState, f \in FetchState :
         h = handler[s] /\ w = walk[s] /\ f = fetch[s] /\ TokenSlotInv(h, w, f)
  BY TokenSlot
<1>2. PICK g \in HandlerStates(TokenPhase) :
         /\ g = [h EXCEPT !.pc = pc]
         /\ g.pc = pc /\ g.req = h.req /\ g.since = h.since /\ g.release = h.release
  <2>1. pc \in TokenPhase
    BY DEF TokenPhase, HandlerPhase
  <2> QED BY <2>1, TokenPcUpdate
<1>3. handler' = [handler EXCEPT ![s] = g]
  BY <1>1, <1>2 DEF Goto, TokenInv
<1>4. /\ handler' \in [Callers -> HandlerStates(TokenPhase)]
      /\ handler'[s] = g
      /\ \A d \in Callers \ {s} : handler'[d] = handler[d]
  BY <1>3, TokenSlotAssigned DEF TokenInv
<1>5. IInv' /\ fetch' = fetch
  BY StutterPreserves DEF TokenInv, fetchVars
<1>6. /\ ~Refused(g)
      /\ Granting(g) => Granting(h)
      /\ InWalk(g) => InWalk(h)
  BY <1>1, <1>2 DEF Refused, Granting, InWalk
<1>7. InWalk(g) => WalkInv(g, w, jwks[ProviderOf(g.req)])
  BY <1>1, <1>2, <1>6 DEF TokenSlotInv, WalkInv, InWalk
<1>8. h.pc # "fetch" /\ g.pc # "fetch" /\ h.pc # "idle"
  BY <1>1, <1>2 DEF Granting
<1>9. TokenSlotInv(g, w, f)
  BY <1>1, <1>2, <1>6, <1>7, <1>8 DEF TokenSlotInv
<1> QED BY <1>1, <1>4, <1>5, <1>9, TokenStepNoWalk

-----------------------------------------------------------------------------
(* One lemma per action. *)
LEMMA BeginningIsState ==
    ASSUME NEW r \in Requests, NEW pc \in TokenPhase, NEW status \in {0, 400}, Height \in Nat
    PROVE  /\ Beginning(r, pc, status) \in HandlerStates(TokenPhase)
           /\ Beginning(r, pc, status).pc = pc
           /\ Beginning(r, pc, status).req = r
           /\ Beginning(r, pc, status).status = status
           /\ Beginning(r, pc, status).since = Height
<1>1. NoRelease \in Position
  BY DEF NoRelease, Position
<1> QED BY <1>1 DEF Beginning, HandlerStates

(* A walk that begins has looked at nothing, in the set there is. *)
LEMMA BegunWalk ==
    ASSUME TokenInv, NEW s \in Callers, NEW r \in Requests, BeginWalk(s, r)
    PROVE  /\ walk' \in [Callers -> WalkState]
           /\ \A d \in Callers \ {s} : walk'[d] = walk[d]
           /\ walk'[s].next = 1 /\ walk'[s].found = {} /\ walk'[s].sets = {jwks[ProviderOf(r)]}
<1>1. PICK set \in KeyLists : set = jwks[ProviderOf(r)]
  BY ProvidersAre DEF TokenInv
<1>2. PICK w : w = [NoWalk EXCEPT !.sets = {set}]
  OBVIOUS
<1>3. w \in WalkState /\ w.next = 1 /\ w.found = {} /\ w.sets = {set}
  BY <1>2 DEF NoWalk, WalkState
<1>4. walk' = [walk EXCEPT ![s] = w]
  BY <1>1, <1>2 DEF BeginWalk
<1> QED BY <1>1, <1>3, <1>4 DEF TokenInv

(* The slot that begins a walk. *)
LEMMA BeginSuffices ==
    ASSUME TokenInv, UNCHANGED <<chain, fetchVars, debug, jwks>>, NEW s \in Callers,
           NEW r \in Requests, Parses(r), BeginWalk(s, r), handler[s].pc # "fetch",
           NEW g \in HandlerStates(TokenPhase),
           handler' = [handler EXCEPT ![s] = g],
           g.pc = "count", g.req = r, g.since \in 1..Height
    PROVE  TokenInv'
<1>1. PICK w \in WalkState : w = walk'[s]
  BY BegunWalk
<1>2. w.next = 1 /\ w.found = {} /\ w.sets = {jwks[ProviderOf(r)]}
  BY <1>1, BegunWalk
<1>3. WalkInv(g, w, jwks[ProviderOf(r)])
  BY <1>2 DEF WalkInv
<1>4. fetch'[s].pc = "idle" /\ fetch' = fetch
  BY DEF TokenInv, TokenSlotInv, fetchVars
<1>5. ~Refused(g) /\ ~Granting(g)
  BY DEF Refused, Granting
<1>6. TokenSlotInv(g, w, fetch'[s])
  BY <1>3, <1>4, <1>5 DEF TokenSlotInv
<1>7. /\ handler' \in [Callers -> HandlerStates(TokenPhase)]
      /\ handler'[s] = g
      /\ \A d \in Callers \ {s} : handler'[d] = handler[d]
  BY TokenSlotAssigned DEF TokenInv
<1>8. IInv'
  BY StutterPreserves DEF TokenInv
<1> QED BY <1>1, <1>4, <1>6, <1>7, <1>8, BegunWalk, TokenStepSuffices

LEMMA ReceiveTokenPreserves ==
    ASSUME TokenInv, UNCHANGED debug, NEW s \in Callers, NEW r \in Requests, ReceiveToken(s, r)
    PROVE  TokenInv'
<1>1. handler[s].pc = "idle" /\ UNCHANGED <<chain, fetchVars, debug, jwks>>
  BY DEF ReceiveToken
<1>2. IInv' /\ fetch' = fetch /\ fetch[s].pc = "idle"
  BY <1>1, StutterPreserves DEF TokenInv, TokenSlotInv, fetchVars
<1>3. CASE /\ Parses(r)
           /\ handler' = [handler EXCEPT ![s] = Beginning(r, "count", 0)]
           /\ BeginWalk(s, r)
  <2>1. PICK g \in HandlerStates(TokenPhase) :
           g = Beginning(r, "count", 0) /\ g.pc = "count" /\ g.req = r /\ g.since = Height
    <3>1. "count" \in TokenPhase /\ 0 \in {0, 400} /\ Height \in Nat
      BY TokenHeight DEF TokenPhase
    <3> QED BY <3>1, BeginningIsState
  <2>2. handler' = [handler EXCEPT ![s] = g] /\ g.since \in 1..Height
    BY <1>3, <2>1, TokenHeight
  <2> QED BY <1>1, <1>3, <2>1, <2>2, BeginSuffices
<1>4. CASE /\ handler' = [handler EXCEPT ![s] = Beginning(r, "open", 0)]
           /\ UNCHANGED walk
  <2>1. PICK g \in HandlerStates(TokenPhase) :
           g = Beginning(r, "open", 0) /\ g.pc = "open" /\ g.req = r /\ g.since = Height
    BY TokenHeight, BeginningIsState DEF TokenPhase
  <2>2. handler' = [handler EXCEPT ![s] = g] /\ g.since \in 1..Height
    BY <1>4, <2>1, TokenHeight
  <2>3. TokenSlotInv(g, walk[s], fetch'[s])
    BY <1>2, <2>1, <2>2 DEF TokenSlotInv, InWalk, Granting, Refused
  <2>4. /\ handler' \in [Callers -> HandlerStates(TokenPhase)]
        /\ handler'[s] = g
        /\ \A d \in Callers \ {s} : handler'[d] = handler[d]
    BY <2>2, TokenSlotAssigned DEF TokenInv
  <2> QED BY <1>1, <1>2, <1>4, <2>3, <2>4, TokenStepNoWalk
<1>5. CASE /\ ~Parses(r)
           /\ handler' = [handler EXCEPT ![s] = Beginning(r, "reply", 400)]
           /\ UNCHANGED walk
  <2>1. PICK g \in HandlerStates(TokenPhase) :
           /\ g = Beginning(r, "reply", 400) /\ g.pc = "reply" /\ g.req = r
           /\ g.since = Height /\ g.status = 400
    BY TokenHeight, BeginningIsState DEF TokenPhase, HandlerPhase
  <2>2. handler' = [handler EXCEPT ![s] = g] /\ g.since \in 1..Height
    BY <1>5, <2>1, TokenHeight
  <2>3. NotTokenEntitled(r, g.since, walk[s])
    <3>1. ~TokenEntitledAt(r, Height) /\ Height \in Window(Height)
      BY <1>5, TokenHeight, ChainAssumption DEF TokenEntitledAt, Window
    <3> QED BY <2>1, <3>1 DEF NotTokenEntitled
  <2>4. TokenSlotInv(g, walk[s], fetch'[s])
    BY <1>2, <2>1, <2>2, <2>3 DEF TokenSlotInv, InWalk, Granting, Refused
  <2>5. /\ handler' \in [Callers -> HandlerStates(TokenPhase)]
        /\ handler'[s] = g
        /\ \A d \in Callers \ {s} : handler'[d] = handler[d]
    BY <2>2, TokenSlotAssigned DEF TokenInv
  <2> QED BY <1>1, <1>2, <1>5, <2>4, <2>5, TokenStepNoWalk
<1> QED BY <1>3, <1>4, <1>5 DEF ReceiveToken

LEMMA OpenRequestPreserves ==
    ASSUME TokenInv, UNCHANGED debug, NEW s \in Callers, OpenRequest(s) \/ OpenError(s)
    PROVE  TokenInv'
<1>1. PICK h \in HandlerStates(TokenPhase), w \in WalkState, f \in FetchState :
         h = handler[s] /\ w = walk[s] /\ f = fetch[s] /\ TokenSlotInv(h, w, f)
  BY TokenSlot
<1>2. /\ h.pc = "open" /\ h.req \in Requests /\ h.since \in 1..Height
      /\ UNCHANGED <<chain, fetchVars, debug, jwks>>
  BY <1>1 DEF OpenRequest, OpenError, tokenVars, TokenSlotInv
<1>3. CASE OpenError(s)
  <2>1. UNCHANGED walk /\ RespondFault(s, 400)
    BY <1>3 DEF OpenError, tokenVars
  <2> QED BY <1>1, <1>2, <2>1, TokenAnswersLocally
<1>4. CASE Parses(h.req) /\ Goto(s, "count") /\ BeginWalk(s, h.req)
  <2>1. PICK g \in HandlerStates(TokenPhase) :
           g = [h EXCEPT !.pc = "count"] /\ g.pc = "count" /\ g.req = h.req /\ g.since = h.since
    BY TokenPcUpdate DEF TokenPhase
  <2>2. handler' = [handler EXCEPT ![s] = g]
    BY <1>1, <1>4, <2>1 DEF Goto, TokenInv
  <2> QED BY <1>1, <1>2, <1>4, <2>1, <2>2, BeginSuffices
<1>5. CASE ~Parses(h.req) /\ Respond(s, 400) /\ UNCHANGED walk
  <2>1. ~TokenEntitledAt(h.req, h.since) /\ h.since \in Window(h.since)
    BY <1>2, <1>5, TokenHeight, ChainAssumption DEF TokenEntitledAt, Window
  <2>2. NotTokenEntitled(h.req, h.since, w)
    BY <2>1 DEF NotTokenEntitled
  <2> QED BY <1>1, <1>2, <1>5, <2>2, TokenAnswersLocally
<1> QED BY <1>1, <1>3, <1>4, <1>5 DEF OpenRequest

LEMMA CountKeysPreserves ==
    ASSUME TokenInv, UNCHANGED debug, NEW s \in Callers, CountKeys(s)
    PROVE  TokenInv'
<1>1. PICK h \in HandlerStates(TokenPhase), w \in WalkState, f \in FetchState :
         h = handler[s] /\ w = walk[s] /\ f = fetch[s] /\ TokenSlotInv(h, w, f)
  BY TokenSlot
<1>2. h.pc = "count" /\ UNCHANGED <<chain, fetchVars, debug, jwks, walk>>
  BY <1>1 DEF CountKeys, tokenVars
<1>3. PICK set \in KeyLists : set = jwks[ProviderOf(h.req)]
  BY ProvidersAre DEF TokenInv
<1>4. set \in w.sets /\ Len(set) \in Nat /\ w.next \in Nat
  BY <1>1, <1>2, <1>3, KeyListsAreLists DEF TokenSlotInv, InWalk, WalkInv, WalkState
<1>5. CASE Goto(s, "key")
  BY <1>1, <1>2, <1>5, TokenMovesOn
<1>6. CASE Goto(s, "claims") /\ ~(w.next <= Len(set))
  BY <1>1, <1>2, <1>4, <1>6, TokenMovesOn
<1> QED BY <1>1, <1>3, <1>5, <1>6 DEF CountKeys, CachedSet

LEMMA ReadKeyPreserves ==
    ASSUME TokenInv, UNCHANGED debug, NEW s \in Callers, ReadKey(s)
    PROVE  TokenInv'
<1>1. PICK h \in HandlerStates(TokenPhase), w \in WalkState, f \in FetchState :
         h = handler[s] /\ w = walk[s] /\ f = fetch[s] /\ TokenSlotInv(h, w, f)
  BY TokenSlot
<1>2. h.pc = "key" /\ UNCHANGED <<chain, fetchVars, debug, jwks>> /\ Goto(s, "count")
  BY <1>1 DEF ReadKey
<1>3. PICK set \in KeyLists : set = jwks[ProviderOf(h.req)]
  BY ProvidersAre DEF TokenInv
<1>4. WalkInv(h, w, set) /\ h.req \in Requests /\ h.since \in 1..Height /\ Parses(h.req)
  BY <1>1, <1>2, <1>3 DEF TokenSlotInv, InWalk
<1>5. PICK key : key = h.req.evidence.key
  OBVIOUS
<1>6. PICK match : match = KeyAt(set, w.next, key.alg)
  OBVIOUS
<1>7. w.next \in Nat /\ w.found \in SUBSET UNION {Range(l) : l \in KeyLists}
      /\ w.sets \in SUBSET KeyLists
  BY DEF WalkState
<1>8. /\ match \subseteq Range(set)
      /\ w.next \in DOMAIN set /\ set[w.next].alg = key.alg => set[w.next] \in match
  <2>1. match \subseteq Range(set)
    BY <1>6 DEF KeyAt, Range
  <2>2. ASSUME w.next \in DOMAIN set, set[w.next].alg = key.alg
        PROVE  set[w.next] \in match
    BY <1>6, <2>2 DEF KeyAt
  <2> QED BY <2>1, <2>2
<1>9. PICK v : v = [next |-> w.next + 1, found |-> w.found \cup match, sets |-> w.sets]
  OBVIOUS
<1>10. v \in WalkState
  <2>1. w.found \cup match \in SUBSET UNION {Range(l) : l \in KeyLists}
    BY <1>7, <1>8
  <2> QED BY <1>7, <1>9, <2>1 DEF WalkState
<1>11. walk' = [walk EXCEPT ![s] = v]
  BY <1>1, <1>3, <1>5, <1>6, <1>9 DEF ReadKey, CachedSet
<1>12. /\ walk' \in [Callers -> WalkState] /\ walk'[s] = v
       /\ \A d \in Callers \ {s} : walk'[d] = walk[d]
  BY <1>10, <1>11 DEF TokenInv
<1>13. PICK g \in HandlerStates(TokenPhase) :
          g = [h EXCEPT !.pc = "count"] /\ g.pc = "count" /\ g.req = h.req /\ g.since = h.since
  BY TokenPcUpdate DEF TokenPhase
<1>14. /\ handler' \in [Callers -> HandlerStates(TokenPhase)]
       /\ handler'[s] = g
       /\ \A d \in Callers \ {s} : handler'[d] = handler[d]
  <2>1. handler' = [handler EXCEPT ![s] = g]
    BY <1>1, <1>2, <1>13 DEF Goto, TokenInv
  <2> QED BY <2>1, TokenSlotAssigned DEF TokenInv
<1>15. WalkInv(g, v, set)
  <2>1. set \in v.sets /\ g.pc # "claims"
    BY <1>4, <1>9, <1>13 DEF WalkInv
  <2>2. ASSUME NEW k \in v.found
        PROVE  \E l \in v.sets : k \in Range(l)
    BY <1>4, <1>8, <1>9, <2>2 DEF WalkInv
  <2>3. ASSUME NEW i \in 1..(v.next - 1), Stable(g.req, v, i)
        PROVE  g.req.evidence.key \in v.found
    <3>1. Stable(h.req, w, i) /\ i \in 1..w.next
      BY <1>7, <1>9, <1>13, <2>3 DEF Stable
    <3>2. CASE i = w.next
      <4>1. i \in DOMAIN set /\ set[i] = key
        BY <1>4, <1>5, <3>1 DEF Stable, WalkInv
      <4>2. key \in match
        BY <1>8, <3>2, <4>1
      <4> QED BY <1>5, <1>9, <1>13, <4>2
    <3>3. CASE i # w.next
      <4>1. i \in 1..(w.next - 1)
        BY <1>7, <3>1, <3>3
      <4> QED BY <1>4, <1>9, <1>13, <3>1, <4>1 DEF WalkInv
    <3> QED BY <3>2, <3>3
  <2> QED BY <2>1, <2>2, <2>3 DEF WalkInv
<1>16. ~Refused(g) /\ ~Granting(g)
  BY <1>13 DEF Refused, Granting
<1>17. IInv' /\ fetch' = fetch /\ f.pc = "idle"
  BY <1>1, <1>2, StutterPreserves DEF TokenInv, TokenSlotInv, fetchVars
<1>18. TokenSlotInv(g, v, f)
  BY <1>3, <1>4, <1>13, <1>15, <1>16, <1>17 DEF TokenSlotInv
<1> QED BY <1>1, <1>2, <1>12, <1>14, <1>17, <1>18, TokenStepSuffices

(* A key that every set has had at one index is found by the end. *)
LEMMA StableIsFound ==
    ASSUME NEW h, NEW w \in WalkState, NEW cached, WalkInv(h, w, cached), h.pc = "claims",
           NEW i \in UNION {DOMAIN set : set \in w.sets}, Stable(h.req, w, i)
    PROVE  h.req.evidence.key \in w.found
<1>1. PICK set \in w.sets : Len(set) < w.next
  BY DEF WalkInv
<1>2. set \in KeyLists /\ w.next \in Nat
  BY DEF WalkState
<1>3. i \in 1..Len(set) /\ Len(set) \in Nat
  BY <1>2, KeyListsAreLists DEF Stable
<1>4. i \in 1..(w.next - 1)
  BY <1>1, <1>2, <1>3
<1> QED BY <1>4 DEF WalkInv

LEMMA CheckTokenPreserves ==
    ASSUME TokenInv, UNCHANGED debug, NEW s \in Callers, CheckToken(s)
    PROVE  TokenInv'
<1>1. PICK h \in HandlerStates(TokenPhase), w \in WalkState, f \in FetchState :
         h = handler[s] /\ w = walk[s] /\ f = fetch[s] /\ TokenSlotInv(h, w, f)
  BY TokenSlot
<1>2. h.pc = "claims" /\ UNCHANGED <<debug, jwks, walk>>
  BY <1>1 DEF CheckToken, tokenVars
<1>3. /\ WalkInv(h, w, jwks[ProviderOf(h.req)]) /\ Parses(h.req)
      /\ h.req \in Requests /\ h.since \in 1..Height /\ Height \in Nat
  BY <1>1, <1>2, TokenHeight DEF TokenSlotInv, InWalk
<1>4. PICK keys : keys = w.found
  OBVIOUS
<1>5. TokenStatus(h.req, keys) \in {200, 400, 401}
  BY <1>3, TokenStatusIs
<1>6. CASE /\ TokenStatus(h.req, keys) # 200
           /\ Respond(s, TokenStatus(h.req, keys)) /\ UNCHANGED <<chain, fetchVars>>
  <2>1. NotTokenEntitled(h.req, h.since, w)
    <3>1. CASE h.req.evidence.key \in keys
      <4>1. ~TokenEntitledAt(h.req, h.since)
        BY <1>3, <1>6, <3>1, OneKeySuffices DEF TokenEntitledAt
      <4>2. h.since \in Window(h.since)
        BY <1>3, ChainAssumption DEF Window
      <4> QED BY <4>1, <4>2 DEF NotTokenEntitled
    <3>2. CASE h.req.evidence.key \notin keys
      BY <1>2, <1>3, <1>4, <3>2, StableIsFound DEF NotTokenEntitled
    <3> QED BY <3>1, <3>2
  <2>2. PICK status \in {400, 401} : status = TokenStatus(h.req, keys)
    BY <1>5, <1>6
  <2> QED BY <1>1, <1>2, <1>6, <2>1, <2>2, TokenAnswersLocally
<1>7. CASE /\ TokenStatus(h.req, keys) = 200
           /\ Goto(s, "fetch") /\ GetLatestRelease(s, AppOf(h.req))
  <2>1. Vouched(h.req, w)
    <3>1. h.req.evidence.key \in w.found
      BY <1>3, <1>4, <1>7, PassedToken
    <3> QED BY <1>3, <1>4, <1>7, <3>1 DEF Vouched, WalkInv
  <2>2. IInv' /\ UNCHANGED chain
    <3>1. PICK app \in Apps : app = AppOf(h.req)
      BY <1>3, <2>1, VouchedAppIsKnown
    <3>2. GetLatestRelease(s, app) /\ IInv
      BY <1>7, <3>1 DEF TokenInv
    <3>3. IInv'
      BY <3>2, InvocationPreserves
    <3> QED BY <3>2, <3>3 DEF GetLatestRelease
  <2>3. /\ \A d \in Callers \ {s} : fetch'[d] = fetch[d]
        /\ fetch'[s].pc = "blockNumber" /\ fetch'[s].app = AppOf(h.req)
        /\ fetch'[s].since = Height
    BY <1>7 DEF GetLatestRelease, NotFetching, TokenInv, IInv, FetchTypeOK
  <2>4. PICK g \in HandlerStates(TokenPhase) :
           g = [h EXCEPT !.pc = "fetch"] /\ g.pc = "fetch" /\ g.req = h.req /\ g.since = h.since
    BY TokenPcUpdate DEF TokenPhase, HandlerPhase
  <2>5. /\ handler' \in [Callers -> HandlerStates(TokenPhase)]
        /\ handler'[s] = g
        /\ \A d \in Callers \ {s} : handler'[d] = handler[d]
    <3>1. handler' = [handler EXCEPT ![s] = g]
      BY <1>1, <1>7, <2>4 DEF Goto, TokenInv
    <3> QED BY <3>1, TokenSlotAssigned DEF TokenInv
  <2>6. ~InWalk(g) /\ ~Granting(g) /\ ~Refused(g)
    BY <2>4 DEF InWalk, Granting, Refused
  <2>7. TokenSlotInv(g, w, fetch'[s])
    BY <1>3, <2>1, <2>3, <2>4, <2>6 DEF TokenSlotInv
  <2> QED BY <1>1, <1>2, <2>2, <2>3, <2>5, <2>7, TokenStepNoWalk
<1> QED BY <1>1, <1>4, <1>6, <1>7 DEF CheckToken

LEMMA TokenFetchPreserves ==
    ASSUME TokenInv, UNCHANGED <<debug, tokenVars>>, NEW s \in Callers, FetchRelease(s)
    PROVE  TokenInv'
<1>1. PICK h \in HandlerStates(TokenPhase), w \in WalkState, f \in FetchState :
         h = handler[s] /\ w = walk[s] /\ f = fetch[s] /\ TokenSlotInv(h, w, f)
  BY TokenSlot
<1>2. FetchStep(s) /\ UNCHANGED <<chain, handler, debug, jwks, walk>>
  BY DEF FetchRelease, FetchStep, FetchBlockNumber, FetchEvents, FetchError, tokenVars
<1>3. IInv'
  BY <1>2, InvocationPreserves DEF TokenInv
<1>4. /\ \A d \in Callers \ {s} : fetch'[d] = fetch[d]
      /\ fetch[s].pc # "idle" /\ fetch'[s].pc # "idle"
      /\ fetch'[s].app = fetch[s].app /\ fetch'[s].since = fetch[s].since
  BY <1>2 DEF FetchStep, FetchBlockNumber, FetchEvents, FetchError,
              TokenInv, IInv, FetchTypeOK, FetchState
<1>5. TokenSlotInv(h, w, fetch'[s])
  BY <1>1, <1>4 DEF TokenSlotInv
<1>6. handler' \in [Callers -> HandlerStates(TokenPhase)]
  BY <1>2 DEF TokenInv
<1> QED BY <1>1, <1>2, <1>3, <1>4, <1>5, <1>6, TokenStepNoWalk

(* What was read at height g is what entitlement at g is about. *)
LEMMA TokenEntitledMeansUsed ==
    ASSUME NEW r, NEW pos, NEW g, ReadAt(AppOf(r), pos, g), TokenEntitledAt(r, g)
    PROVE  /\ ReleaseStatus(r, ReleaseAt(AppOf(r), pos)) = 200
           /\ DecryptStatus(ReleaseAt(AppOf(r), pos)) = 200
<1>1. pos.logIndex = Len(chain[pos.block].upgrades[AppOf(r)])
  BY DEF ReadAt, LastUpgrade
<1>2. LastRelease(AppOf(r), g) = ReleaseAt(AppOf(r), pos)
  BY <1>1 DEF ReadAt, LastRelease, ReleaseAt
<1> QED BY <1>2 DEF TokenEntitledAt

LEMMA TokenDecryptingIsState ==
    ASSUME NEW h \in HandlerStates(TokenPhase), NEW release \in Position
    PROVE  /\ Decrypting(h, release) \in HandlerStates(TokenPhase)
           /\ Decrypting(h, release).pc = "decrypt"
           /\ Decrypting(h, release).req = h.req
           /\ Decrypting(h, release).since = h.since
           /\ Decrypting(h, release).release = release
BY DEF Decrypting, HandlerStates, TokenPhase, HandlerPhase

LEMMA TokenAuthorizePreserves ==
    ASSUME TokenInv, UNCHANGED <<debug, tokenVars>>, NEW s \in Callers, Authorize(s)
    PROVE  TokenInv'
<1>1. PICK h \in HandlerStates(TokenPhase), w \in WalkState, f \in FetchState :
         h = handler[s] /\ w = walk[s] /\ f = fetch[s] /\ TokenSlotInv(h, w, f)
  BY TokenSlot
<1>2. /\ h.pc = "fetch" /\ FetchReturn(s) /\ f.pc \in {"done", "failed", "error"}
      /\ UNCHANGED <<chain, debug, jwks, walk>>
  BY <1>1 DEF Authorize, FetchReturn, tokenVars
<1>3. /\ h.req \in Requests /\ h.since \in 1..Height /\ Height \in Nat
      /\ Parses(h.req) /\ Vouched(h.req, w)
      /\ f.app = AppOf(h.req) /\ h.since <= f.since /\ FetchInv(f)
  BY <1>1, <1>2, TokenHeight DEF TokenSlotInv, TokenInv, IInv
<1>4. /\ \A d \in Callers \ {s} : fetch'[d] = fetch[d]
      /\ fetch'[s].pc = "idle"
  BY <1>2 DEF FetchReturn, NotFetching, TokenInv, IInv, FetchTypeOK
<1>5. IInv'
  BY <1>2, InvocationPreserves DEF TokenInv
<1> DEFINE release == ReleaseAt(AppOf(h.req), f.release)
           status  == ReleaseStatus(h.req, release)
<1>6. CASE f.pc # "done"
  <2>1. RespondFault(s, 500) \/ Respond(s, 500)
    BY <1>1, <1>2, <1>6 DEF Authorize
  <2> QED BY <1>1, <1>2, <1>4, <1>5, <2>1, TokenAnswers
<1>7. CASE f.pc = "done"
  <2>1. f.release \in Position /\ f.since \in 1..Height
    BY <1>3, <1>7 DEF FetchInv, FetchState
  <2>2. PICK g \in Window(f.since) : ReadAt(AppOf(h.req), f.release, g)
    BY <1>3, <1>7 DEF FetchInv, ReadInWindow, ReadAt
  <2>3. g \in Window(h.since)
    BY <1>3, <2>1, <2>2, ChainAssumption DEF Window
  <2>4. CASE status # 200
    <3>1. ~TokenEntitledAt(h.req, g)
      BY <2>2, <2>4, TokenEntitledMeansUsed
    <3>2. NotTokenEntitled(h.req, h.since, w)
      BY <2>3, <3>1 DEF NotTokenEntitled
    <3>3. PICK code \in {401, 500} : code = status
      BY <2>4 DEF ReleaseStatus
    <3>4. Respond(s, code)
      BY <1>1, <1>7, <2>4, <3>3 DEF Authorize
    <3> QED BY <1>1, <1>2, <1>4, <1>5, <3>2, <3>4, TokenAnswers
  <2>5. CASE status = 200
    <3>1. PICK d \in HandlerStates(TokenPhase) :
             /\ d = Decrypting(h, f.release)
             /\ d.pc = "decrypt" /\ d.req = h.req /\ d.since = h.since
             /\ d.release = f.release
      BY <2>1, TokenDecryptingIsState
    <3>2. handler' = [handler EXCEPT ![s] = d]
      BY <1>1, <1>7, <2>5, <3>1 DEF Authorize, TokenInv
    <3>3. /\ handler' \in [Callers -> HandlerStates(TokenPhase)]
          /\ handler'[s] = d
          /\ \A e \in Callers \ {s} : handler'[e] = handler[e]
      BY <3>2, TokenSlotAssigned DEF TokenInv
    <3>4. ReadSince(AppOf(h.req), f.release, h.since)
      BY <2>2, <2>3 DEF ReadSince
    <3>5. ~InWalk(d) /\ ~Refused(d)
      BY <3>1 DEF InWalk, Refused
    <3>6. TokenSlotInv(d, w, fetch'[s])
      BY <1>3, <1>4, <2>5, <3>1, <3>4, <3>5 DEF TokenSlotInv
    <3> QED BY <1>1, <1>2, <1>4, <1>5, <3>3, <3>6, TokenStepNoWalk
  <2> QED BY <2>4, <2>5
<1> QED BY <1>6, <1>7

LEMMA DecryptTokenEnvPreserves ==
    ASSUME TokenInv, UNCHANGED debug, NEW s \in Callers, DecryptTokenEnv(s)
    PROVE  TokenInv'
<1>1. PICK h \in HandlerStates(TokenPhase), w \in WalkState, f \in FetchState :
         h = handler[s] /\ w = walk[s] /\ f = fetch[s] /\ TokenSlotInv(h, w, f)
  BY TokenSlot
<1>2. h.pc = "decrypt" /\ UNCHANGED <<chain, fetchVars, debug, jwks, walk>> /\ Granting(h)
  BY <1>1 DEF DecryptTokenEnv, tokenVars, Granting
<1> DEFINE status == DecryptStatus(ReleaseAt(AppOf(h.req), h.release))
<1>3. CASE status = 200
  <2>1. Goto(s, "mnemonic")
    BY <1>1, <1>3 DEF DecryptTokenEnv
  <2> QED BY <1>1, <1>2, <2>1, TokenMovesOn
<1>4. CASE status # 200
  <2>1. PICK code \in {400, 500} : code = status
    BY <1>4 DEF DecryptStatus
  <2>2. Respond(s, code)
    BY <1>1, <1>4, <2>1 DEF DecryptTokenEnv
  <2>3. PICK g \in Window(h.since) : ReadAt(AppOf(h.req), h.release, g)
    BY <1>1, <1>2 DEF TokenSlotInv, ReadSince
  <2>4. ~TokenEntitledAt(h.req, g)
    BY <1>4, <2>3, TokenEntitledMeansUsed
  <2>5. NotTokenEntitled(h.req, h.since, w)
    BY <2>3, <2>4 DEF NotTokenEntitled
  <2> QED BY <1>1, <1>2, <2>2, <2>5, TokenAnswersLocally
<1> QED BY <1>3, <1>4

(* The actions that only move a handler on, or fail it. *)
LEMMA TokenOthersPreserve ==
    ASSUME TokenInv, UNCHANGED <<debug, tokenVars>>, NEW s \in Callers,
           DeriveMnemonic(s) \/ SignResponse(s) \/ KmsError(s)
    PROVE  TokenInv'
<1>1. UNCHANGED <<chain, fetchVars, debug, jwks, walk>>
  BY DEF DeriveMnemonic, SignResponse, KmsError, tokenVars
<1>2. CASE DeriveMnemonic(s)
  BY <1>1, <1>2, TokenMovesOn DEF DeriveMnemonic, Granting
<1>3. CASE SignResponse(s)
  BY <1>1, <1>3, TokenAnswersLocally DEF SignResponse, Granting
<1>4. CASE KmsError(s)
  BY <1>1, <1>4, TokenAnswersLocally DEF KmsError
<1> QED BY <1>2, <1>3, <1>4

LEMMA FinishTokenPreserves ==
    ASSUME TokenInv, UNCHANGED debug, NEW s \in Callers, FinishToken(s)
    PROVE  TokenInv'
<1>1. /\ handler[s].pc = "reply" /\ handler' = [handler EXCEPT ![s] = NotHandling]
      /\ UNCHANGED <<chain, fetchVars, debug, jwks, walk>>
  BY DEF FinishToken, Finish, tokenVars
<1>2. PICK g \in HandlerStates(TokenPhase) : g = NotHandling /\ g.pc = "idle"
  <2>1. NotHandling \in HandlerStates(TokenPhase)
    BY DEF NotHandling, HandlerStates, TokenPhase, HandlerPhase, NoRelease, Position
  <2>2. NotHandling.pc = "idle"
    BY DEF NotHandling
  <2> QED BY <2>1, <2>2
<1>3. /\ handler' \in [Callers -> HandlerStates(TokenPhase)]
      /\ handler'[s] = g
      /\ \A d \in Callers \ {s} : handler'[d] = handler[d]
  BY <1>1, <1>2, TokenSlotAssigned DEF TokenInv
<1>4. IInv' /\ fetch' = fetch /\ fetch[s].pc = "idle"
  BY <1>1, StutterPreserves DEF TokenInv, TokenSlotInv, fetchVars
<1>5. TokenSlotInv(g, walk[s], fetch'[s])
  BY <1>2, <1>4 DEF TokenSlotInv, InWalk, Granting, Refused
<1> QED BY <1>1, <1>3, <1>4, <1>5, TokenStepNoWalk

(* A refreshed cache is one more set for the walks through it. *)
LEMMA RefreshKeysPreserves ==
    ASSUME TokenInv, UNCHANGED debug, NEW p \in Providers, RefreshKeys(p)
    PROVE  TokenInv'
<1>1. PICK set \in KeySets[p] :
         /\ jwks' = [jwks EXCEPT ![p] = set]
         /\ walk' = [s \in Callers |->
               IF Walking(s) /\ ProviderOf(handler[s].req) = p
                 THEN [walk[s] EXCEPT !.sets = @ \cup {set}]
                 ELSE walk[s]]
  BY DEF RefreshKeys
<1>2. UNCHANGED <<chain, fetchVars, debug, handler>>
  BY DEF RefreshKeys
<1>3. set \in KeyLists
  BY KeySetAssumption DEF KeyLists, Range
<1>4. /\ jwks' \in [Providers -> KeyLists] /\ \A q \in Providers : jwks'[q] \in KeySets[q]
      /\ jwks'[p] = set /\ \A q \in Providers \ {p} : jwks'[q] = jwks[q]
  BY <1>1, <1>3 DEF TokenInv
<1>5. IInv' /\ Grows /\ StorageInv
  BY <1>2, StutterPreserves DEF Grows, TokenInv, IInv, FetchTypeOK, Height
<1>6. ASSUME NEW s \in Callers
      PROVE  walk'[s] \in WalkState /\ TokenSlotInv(handler[s], walk[s], fetch[s])'
  <2>1. PICK h \in HandlerStates(TokenPhase), w \in WalkState, f \in FetchState :
           h = handler[s] /\ w = walk[s] /\ f = fetch[s] /\ TokenSlotInv(h, w, f)
    BY TokenSlot
  <2>2. h = handler'[s] /\ f = fetch'[s]
    BY <1>2, <2>1 DEF fetchVars
  <2>3. CASE InWalk(h) /\ ProviderOf(h.req) = p
    <3>1. PICK v : v = [w EXCEPT !.sets = @ \cup {set}]
      OBVIOUS
    <3>2. v \in WalkState /\ v.next = w.next /\ v.found = w.found /\ v.sets = w.sets \cup {set}
      BY <1>3, <3>1 DEF WalkState
    <3>3. walk'[s] = v
      BY <1>1, <2>1, <2>3, <3>1 DEF Walking, InWalk
    <3>4. WalkInv(h, v, set)
      <4>1. WalkInv(h, w, jwks[p])
        BY <2>1, <2>3 DEF TokenSlotInv
      <4>2. \A i : Stable(h.req, v, i) => Stable(h.req, w, i)
        BY <3>2 DEF Stable
      <4> QED BY <3>2, <4>1, <4>2 DEF WalkInv
    <3>5. ~Granting(h) /\ ~Refused(h) /\ h.pc # "fetch"
      BY <2>3 DEF InWalk, Granting, Refused
    <3>6. TokenSlotInv(h, v, f)'
      BY <1>2, <1>4, <2>1, <2>3, <3>4, <3>5 DEF TokenSlotInv, Granting, Refused, Height
    <3> QED BY <2>2, <3>2, <3>3, <3>6
  <2>4. CASE ~(InWalk(h) /\ ProviderOf(h.req) = p)
    <3>1. walk'[s] = w
      BY <1>1, <2>1, <2>4 DEF Walking, InWalk
    <3>2. InWalk(h) => jwks'[ProviderOf(h.req)] = jwks[ProviderOf(h.req)]
      BY <1>4, <2>4, ProvidersAre
    <3>3. TokenSlotInv(h, w, f)'
      BY <1>5, <2>1, <3>2, TokenSlotSurvives
    <3> QED BY <2>2, <3>1, <3>3
  <2> QED BY <2>3, <2>4
<1>7. walk' \in [Callers -> WalkState]
  <2>1. walk' = [s \in Callers |-> walk'[s]]
    BY <1>1
  <2> QED BY <1>6, <2>1
<1>8. debug' \in DebugModes /\ handler' \in [Callers -> HandlerStates(TokenPhase)]
  BY <1>2 DEF TokenInv
<1> QED BY <1>4, <1>5, <1>6, <1>7, <1>8 DEF TokenInv

-----------------------------------------------------------------------------
LEMMA TokenInitEstablishes == TokenInit => TokenInv
<1> SUFFICES ASSUME TokenInit PROVE TokenInv
  OBVIOUS
<1>1. IInv
  BY InitEstablishes DEF TokenInit, ServerSpecInit, Init
<1>2. NotHandling \in HandlerStates(TokenPhase)
  BY DEF NotHandling, HandlerStates, TokenPhase, HandlerPhase, NoRelease, Position
<1>3. /\ debug \in DebugModes /\ handler \in [Callers -> HandlerStates(TokenPhase)]
      /\ \A s \in Callers : handler[s] = NotHandling /\ fetch[s].pc = "idle"
  BY <1>2 DEF TokenInit, ServerSpecInit, ServerInit, FetchInit, NotFetching
<1>4. /\ jwks \in [Providers -> KeyLists] /\ \A p \in Providers : jwks[p] \in KeySets[p]
      /\ walk \in [Callers -> WalkState]
  BY DEF TokenInit, NoWalk, WalkState
<1>5. ASSUME NEW s \in Callers
      PROVE  TokenSlotInv(handler[s], walk[s], fetch[s])
  BY <1>3 DEF TokenSlotInv, NotHandling, InWalk, Granting, Refused
<1> QED BY <1>1, <1>3, <1>4, <1>5 DEF TokenInv

(* A step that leaves the slots alone, whether the chain grows or not. *)
LEMMA TokenSlotsUntouched ==
    ASSUME TokenInv, IInv', Grows, UNCHANGED <<fetch, handler, jwks, walk>>
    PROVE  TokenInv'
<1>1. StorageInv
  BY DEF TokenInv, IInv
<1>2. ASSUME NEW s \in Callers
      PROVE  TokenSlotInv(handler[s], walk[s], fetch[s])'
  <2>1. PICK h \in HandlerStates(TokenPhase), w \in WalkState, f \in FetchState :
           h = handler[s] /\ w = walk[s] /\ f = fetch[s] /\ TokenSlotInv(h, w, f)
    BY TokenSlot
  <2>2. TokenSlotInv(h, w, f)'
    BY <1>1, <2>1, TokenSlotSurvives
  <2> QED BY <2>1, <2>2
<1>3. debug' = debug
  BY DEF Grows
<1> QED BY <1>2, <1>3 DEF TokenInv

(* TokenInv is inductive. *)
THEOREM TokenInvariance == TokenSpec => []TokenInv
<1> DEFINE allVars == <<chain, fetch, newest, debug, handler, jwks, walk>>
<1>1. TokenInv /\ [TokenNext]_allVars => TokenInv'
  <2> SUFFICES ASSUME TokenInv, [TokenNext]_allVars PROVE TokenInv'
    OBVIOUS
  <2>1. CASE MineBlock /\ UNCHANGED <<fetchVars, handler, tokenVars, debug>>
    <3>1. IInv'
      BY <2>1, MineBlockPreserves DEF TokenInv
    <3>2. Height \in Nat /\ Height' = Height + 1 /\ \A h \in 1..Height : chain'[h] = chain[h]
      BY <2>1, MineBlockAppends DEF TokenInv, IInv, FetchTypeOK, Height
    <3>3. Grows
      BY <2>1, <3>2 DEF Grows
    <3> QED BY <2>1, <3>1, <3>3, TokenSlotsUntouched DEF fetchVars, tokenVars
  <2>2. CASE UNCHANGED allVars
    <3>1. IInv'
      BY <2>2, StutterPreserves DEF TokenInv, fetchVars
    <3>2. Grows
      BY <2>2 DEF Grows, TokenInv, IInv, FetchTypeOK, Height
    <3> QED BY <2>2, <3>1, <3>2, TokenSlotsUntouched
  <2>3. ASSUME UNCHANGED debug, NEW s \in Callers,
               \/ \E r \in Requests : ReceiveToken(s, r)
               \/ OpenRequest(s) \/ OpenError(s)
               \/ CountKeys(s) \/ ReadKey(s) \/ CheckToken(s)
               \/ DecryptTokenEnv(s) \/ SharedStep(s) \/ FinishToken(s)
        PROVE  TokenInv'
    <3>1. CASE \E r \in Requests : ReceiveToken(s, r)
      BY <2>3, <3>1, ReceiveTokenPreserves
    <3>2. CASE OpenRequest(s) \/ OpenError(s)
      BY <2>3, <3>2, OpenRequestPreserves
    <3>3. CASE CountKeys(s) \/ ReadKey(s) \/ CheckToken(s)
      BY <2>3, <3>3, CountKeysPreserves, ReadKeyPreserves, CheckTokenPreserves
    <3>4. CASE SharedStep(s)
      <4>1. UNCHANGED <<debug, tokenVars>>
        BY <2>3, <3>4 DEF SharedStep
      <4> QED BY <3>4, <4>1, TokenFetchPreserves, TokenAuthorizePreserves,
                 TokenOthersPreserve DEF SharedStep
    <3>5. CASE DecryptTokenEnv(s) \/ FinishToken(s)
      BY <2>3, <3>5, DecryptTokenEnvPreserves, FinishTokenPreserves
    <3> QED BY <2>3, <3>1, <3>2, <3>3, <3>4, <3>5
  <2>4. CASE TokenNext
    <3>1. UNCHANGED debug
      BY <2>4 DEF TokenNext
    <3>2. CASE MineBlock /\ UNCHANGED <<fetchVars, handler, tokenVars>>
      BY <2>1, <3>1, <3>2
    <3>3. CASE \E p \in Providers : RefreshKeys(p)
      BY <3>1, <3>3, RefreshKeysPreserves
    <3> QED BY <2>3, <2>4, <3>1, <3>2, <3>3 DEF TokenNext
  <2> QED BY <2>2, <2>4
<1> QED BY TokenInitEstablishes, <1>1, PTL DEF TokenSpec

-----------------------------------------------------------------------------
(* Every reachable state of the older endpoints is well typed. *)
THEOREM TokenTypeCorrect == TokenSpec => []TokenTypeOK
<1>1. TokenInv => TokenTypeOK
  BY DEF TokenInv, IInv, TokenTypeOK
<1> QED BY <1>1, TokenInvariance, PTL

(* A slot that answers 200 has the locals of a request that passed. *)
LEMMA GrantedByToken ==
    ASSUME TokenInv, NEW s \in Callers, Answered(s, 200)
    PROVE  /\ handler[s].req \in Requests
           /\ Vouched(handler[s].req, walk[s])
           /\ ReadSince(AppOf(handler[s].req), handler[s].release, handler[s].since)
           /\ ReleaseStatus(handler[s].req,
                            ReleaseAt(AppOf(handler[s].req), handler[s].release)) = 200
BY DEF TokenInv, TokenSlotInv, Granting, Answered

(* A 200 goes to the holder of a token that a key of its own provider      *)
(* vouches for, one the cache held while the token was being checked,      *)
(* whatever set is refreshed at whatever step (attestation.go:123-218).    *)
THEOREM AlwaysAdmittedByToken == TokenSpec => []AdmittedByToken
<1>1. TokenInv => AdmittedByToken
  <2> SUFFICES ASSUME TokenInv, NEW s \in Callers, Answered(s, 200)
               PROVE  LET r == handler[s].req IN
                      /\ r.evidence.issuer = ProviderOf(r)
                      /\ \E set \in walk[s].sets : r.evidence.key \in Range(set)
                      /\ \A i \in DOMAIN r.evidence.eatNonce :
                            r.evidence.eatNonce[i]
                               = CalculateSignableDigest(EnvRequestRSAKeyHeader, r.rsaKey)
    BY DEF AdmittedByToken
  <2>1. PICK r \in Requests, w \in {walk[s]} : r = handler[s].req /\ w = walk[s] /\ Vouched(r, w)
    BY GrantedByToken
  <2>2. PICK keys : keys = w.found
    OBVIOUS
  <2>3. TokenStatus(r, keys) = 200 /\ \E set \in w.sets : r.evidence.key \in Range(set)
    BY <2>1, <2>2 DEF Vouched
  <2>4. r.evidence.issuer = ProviderOf(r) /\ NonceStatus(r) = 200
    BY <2>3, PassedToken
  <2>5. PICK digest : digest = CalculateSignableDigest(EnvRequestRSAKeyHeader, r.rsaKey)
    OBVIOUS
  <2>6. r.evidence.eatNonce = <<>> \/ r.evidence.eatNonce = <<digest>>
    BY <2>4, <2>5, TokenEndpointAssumption DEF NonceStatus
  <2>7. \A i \in DOMAIN r.evidence.eatNonce : r.evidence.eatNonce[i] = digest
    BY <2>6
  <2> QED BY <2>1, <2>3, <2>4, <2>5, <2>7
<1> QED BY <1>1, TokenInvariance, PTL

(* A 200 hands its secrets to what was the app's latest code, at one       *)
(* height of the request's window (HandleEnv and HandleEnvV2).             *)
THEOREM TokensServedToLatestCode == TokenSpec => []ServedToLatestCode
<1>1. TokenInv => ServedToLatestCode
  <2> SUFFICES ASSUME TokenInv, NEW s \in Callers, Answered(s, 200)
               PROVE  \E h \in Window(handler[s].since) :
                         /\ IsLatestAt(handler[s].release, AppOf(handler[s].req), h)
                         /\ ReleaseAt(AppOf(handler[s].req), handler[s].release).digests
                               = <<handler[s].req.evidence.container>>
                         /\ ReleaseAt(AppOf(handler[s].req), handler[s].release).sealedFor
                               = AppOf(handler[s].req)
                         /\ debug \/ AppOf(handler[s].req) = handler[s].req.evidence.instance
    BY DEF ServedToLatestCode
  <2> DEFINE r   == handler[s].req
             pos == handler[s].release
             app == AppOf(r)
  <2>1. /\ r \in Requests /\ Vouched(r, walk[s]) /\ ReadSince(app, pos, handler[s].since)
        /\ ReleaseStatus(r, ReleaseAt(app, pos)) = 200
    BY GrantedByToken
  <2>2. app \in Apps /\ (debug \/ app = r.evidence.instance)
    <3>1. PICK q \in Requests, keys \in {walk[s].found} : q = r /\ keys = walk[s].found
      BY <2>1
    <3>2. TokenStatus(q, keys) = 200
      BY <2>1, <3>1 DEF Vouched
    <3>3. AppOf(q) \in Apps /\ (debug \/ AppOf(q) = q.evidence.instance)
      BY <3>2, PassedAppIsKnown
    <3> QED BY <3>1, <3>3
  <2>3. PICK g \in Window(handler[s].since) : ReadAt(app, pos, g)
    BY <2>1 DEF ReadSince
  <2>4. /\ g \in 1..Height /\ pos = LastUpgrade(app, chain[g].latest[app])
        /\ chain[g].latest[app] # 0
    BY <2>3 DEF Window, ReadAt
  <2>5. IsLatestAt(pos, app, g)
    BY <2>2, <2>4, RecordedIsLatest DEF TokenInv, IInv
  <2>6. /\ ReleaseAt(app, pos).digests = <<r.evidence.container>>
        /\ ReleaseAt(app, pos).sealedFor = app
    BY <2>1 DEF ReleaseStatus, CheckAuthorization
  <2> QED BY <2>2, <2>3, <2>5, <2>6
<1> QED BY <1>1, TokenInvariance, PTL

(* A 4xx not owed to a failed remote call has its cause in the request, on *)
(* the chain, or in a key that changed its place in the cache during the   *)
(* walk (attestation.go:370-419).                                          *)
THEOREM TokenRefusalAlwaysJustified == TokenSpec => []TokenRefusalIsJustified
<1>1. TokenInv => TokenRefusalIsJustified
  BY DEF TokenInv, TokenSlotInv, Refused, Answered, NotTokenEntitled, Stable,
         TokenRefusalIsJustified
<1> QED BY <1>1, TokenInvariance, PTL

-----------------------------------------------------------------------------
(* The older endpoints' handlers call GetLatestRelease as ReleaseFetch     *)
(* says, whatever becomes of the key caches.                               *)
LEMMA TokenStepIsCall ==
    TokenInv /\ [TokenNext]_<<chain, fetch, newest, debug, handler, jwks, walk>> => [Next]_vars
<1> SUFFICES ASSUME TokenInv,
                    [TokenNext]_<<chain, fetch, newest, debug, handler, jwks, walk>>
             PROVE  [Next]_vars
  OBVIOUS
<1>1. CASE MineBlock /\ UNCHANGED <<fetchVars, handler, tokenVars>>
  BY <1>1 DEF Next, fetchVars
<1>2. CASE UNCHANGED <<chain, fetch, newest>>
  BY <1>2 DEF vars
<1>3. ASSUME NEW p \in Providers, RefreshKeys(p)
      PROVE  [Next]_vars
  BY <1>2, <1>3 DEF RefreshKeys, fetchVars
<1>4. ASSUME NEW s \in Callers, CheckToken(s)
      PROVE  [Next]_vars
  <2>1. CASE UNCHANGED <<chain, fetchVars>>
    BY <1>2, <2>1 DEF fetchVars
  <2>2. CASE /\ TokenStatus(handler[s].req, walk[s].found) = 200
             /\ GetLatestRelease(s, AppOf(handler[s].req))
    <3>1. handler[s].req \in Requests
      BY <1>4 DEF CheckToken, TokenInv, TokenSlotInv
    <3>2. PICK r \in Requests, keys \in {walk[s].found} :
               r = handler[s].req /\ keys = walk[s].found
      BY <3>1
    <3>3. AppOf(r) \in Apps
      BY <2>2, <3>2, PassedAppIsKnown
    <3> QED BY <2>2, <3>2, <3>3 DEF Next
  <2> QED BY <1>4, <2>1, <2>2 DEF CheckToken
<1>5. ASSUME NEW s \in Callers, SharedStep(s)
      PROVE  [Next]_vars
  <2>1. CASE FetchStep(s) \/ FetchReturn(s)
    BY <2>1 DEF Next
  <2> QED BY <1>2, <1>5, <2>1
       DEF SharedStep, FetchRelease, Authorize, DeriveMnemonic, SignResponse, KmsError, fetchVars
<1>6. ASSUME NEW s \in Callers,
             \/ \E r \in Requests : ReceiveToken(s, r)
             \/ OpenRequest(s) \/ OpenError(s) \/ CountKeys(s) \/ ReadKey(s)
             \/ DecryptTokenEnv(s) \/ FinishToken(s)
      PROVE  [Next]_vars
  BY <1>2, <1>6
     DEF ReceiveToken, OpenRequest, OpenError, CountKeys, ReadKey, DecryptTokenEnv, FinishToken,
         Finish, fetchVars
<1> QED BY <1>1, <1>2, <1>3, <1>4, <1>5, <1>6 DEF TokenNext

-----------------------------------------------------------------------------
(* What a walk for an algorithm's keys has found: none but keys of the     *)
(* algorithm, and each that every set has had at one index, up to its own. *)
FoundBounds(alg, w) ==
    /\ \A k \in w.found : k.alg = alg
    /\ \A i \in 1..(w.next - 1) : \A k :
          k.alg = alg /\ (\A set \in w.sets : i \in DOMAIN set /\ set[i] = k) => k \in w.found

FoundInv ==
    \A s \in Callers :
        InWalk(handler[s]) => FoundBounds(handler[s].req.evidence.key.alg, walk[s])

(* It is untouched by steps that leave a walk alone, or add to its sets. *)
LEMMA FoundBoundsStay ==
    ASSUME NEW alg, NEW w, NEW v, FoundBounds(alg, w),
           v.next = w.next, v.found = w.found, w.sets \subseteq v.sets
    PROVE  FoundBounds(alg, v)
BY DEF FoundBounds

(* A walk that begins. *)
LEMMA BegunBounds ==
    ASSUME NEW alg, NEW w, w.next = 1, w.found = {}
    PROVE  FoundBounds(alg, w)
BY DEF FoundBounds

(* The body of the loop. *)
LEMMA ReadBounds ==
    ASSUME NEW alg, NEW w \in WalkState, NEW set \in w.sets, FoundBounds(alg, w),
           NEW v, v.next = w.next + 1, v.sets = w.sets,
           v.found = w.found \cup KeyAt(set, w.next, alg)
    PROVE  FoundBounds(alg, v)
<1>1. \A k \in v.found : k.alg = alg
  BY DEF FoundBounds, KeyAt
<1>2. ASSUME NEW i \in 1..(v.next - 1), NEW k, k.alg = alg,
             \A l \in v.sets : i \in DOMAIN l /\ l[i] = k
      PROVE  k \in v.found
  <2>1. w.next \in Nat
    BY DEF WalkState
  <2>2. CASE i = w.next
    BY <1>2, <2>2 DEF KeyAt
  <2>3. CASE i # w.next
    <3>1. i \in 1..(w.next - 1)
      BY <1>2, <2>1, <2>3
    <3> QED BY <1>2, <3>1 DEF FoundBounds
  <2> QED BY <2>2, <2>3
<1> QED BY <1>1, <1>2 DEF FoundBounds

(* A step after which every walk in progress was one before it. *)
LEMMA FoundUntouched ==
    ASSUME FoundInv,
           \A d \in Callers : InWalk(handler'[d]) =>
              /\ InWalk(handler[d])
              /\ handler'[d].req = handler[d].req
              /\ walk'[d].next = walk[d].next
              /\ walk'[d].found = walk[d].found
              /\ walk[d].sets \subseteq walk'[d].sets
    PROVE  FoundInv'
<1> SUFFICES ASSUME NEW d \in Callers, InWalk(handler'[d])
             PROVE  FoundBounds(handler'[d].req.evidence.key.alg, walk'[d])
  BY DEF FoundInv, InWalk
<1> QED BY FoundBoundsStay DEF FoundInv

(* A step of one slot's walk. *)
LEMMA FoundStep ==
    ASSUME FoundInv, NEW s \in Callers,
           \A d \in Callers \ {s} : handler'[d] = handler[d] /\ walk'[d] = walk[d],
           InWalk(handler'[s]) => FoundBounds(handler'[s].req.evidence.key.alg, walk'[s])
    PROVE  FoundInv'
<1> SUFFICES ASSUME NEW d \in Callers, InWalk(handler'[d])
             PROVE  FoundBounds(handler'[d].req.evidence.key.alg, walk'[d])
  BY DEF FoundInv, InWalk
<1> QED BY DEF FoundInv

LEMMA RefreshKeepsFound ==
    ASSUME TokenInv, FoundInv, NEW p \in Providers, RefreshKeys(p)
    PROVE  FoundInv'
<1>1. PICK set \in KeySets[p] :
         walk' = [s \in Callers |-> IF Walking(s) /\ ProviderOf(handler[s].req) = p
                                      THEN [walk[s] EXCEPT !.sets = @ \cup {set}]
                                      ELSE walk[s]]
  BY DEF RefreshKeys
<1>2. handler' = handler
  BY DEF RefreshKeys
<1>3. ASSUME NEW d \in Callers
      PROVE  /\ walk'[d].next = walk[d].next
             /\ walk'[d].found = walk[d].found
             /\ walk[d].sets \subseteq walk'[d].sets
  <2>1. PICK w \in WalkState : w = walk[d]
    BY DEF TokenInv
  <2>2. walk'[d] \in {w, [w EXCEPT !.sets = @ \cup {set}]}
    BY <1>1, <2>1
  <2> QED BY <2>1, <2>2 DEF WalkState
<1> QED BY <1>2, <1>3, FoundUntouched

LEMMA ReadKeyKeepsFound ==
    ASSUME TokenInv, FoundInv, NEW s \in Callers, ReadKey(s)
    PROVE  FoundInv'
<1>1. PICK h \in HandlerStates(TokenPhase), w \in WalkState, f \in FetchState :
         h = handler[s] /\ w = walk[s] /\ f = fetch[s] /\ TokenSlotInv(h, w, f)
  BY TokenSlot
<1>2. PICK alg : alg = h.req.evidence.key.alg
  OBVIOUS
<1>3. PICK set : set = jwks[ProviderOf(h.req)]
  OBVIOUS
<1>4. h.pc = "key" /\ set \in w.sets /\ FoundBounds(alg, w)
  BY <1>1, <1>2, <1>3 DEF ReadKey, TokenSlotInv, InWalk, WalkInv, FoundInv
<1>5. PICK v : v = [next |-> w.next + 1, found |-> w.found \cup KeyAt(set, w.next, alg),
                    sets |-> w.sets]
  OBVIOUS
<1>6. walk' = [walk EXCEPT ![s] = v]
  BY <1>1, <1>2, <1>3, <1>5 DEF ReadKey, CachedSet
<1>7. walk'[s] = v /\ \A d \in Callers \ {s} : walk'[d] = walk[d]
  BY <1>6 DEF TokenInv
<1>8. FoundBounds(alg, v)
  BY <1>4, <1>5, ReadBounds
<1>9. PICK g \in HandlerStates(TokenPhase) : g = [h EXCEPT !.pc = "count"] /\ g.req = h.req
  BY TokenPcUpdate DEF TokenPhase
<1>10. handler' = [handler EXCEPT ![s] = g]
  BY <1>1, <1>9 DEF ReadKey, Goto, TokenInv
<1>11. handler'[s] = g /\ \A d \in Callers \ {s} : handler'[d] = handler[d]
  BY <1>10, TokenSlotAssigned DEF TokenInv
<1> QED BY <1>2, <1>7, <1>8, <1>9, <1>11, FoundStep

(* Requests that begin. *)
LEMMA BeginningKeepsFound ==
    ASSUME TokenInv, FoundInv, NEW s \in Callers, NEW r \in Requests,
           NEW g, handler' = [handler EXCEPT ![s] = g],
           BeginWalk(s, r) \/ (~InWalk(g) /\ UNCHANGED walk)
    PROVE  FoundInv'
<1>1. handler'[s] = g /\ \A d \in Callers \ {s} : handler'[d] = handler[d]
  BY DEF TokenInv
<1>2. CASE BeginWalk(s, r)
  BY <1>1, <1>2, BegunWalk, BegunBounds, FoundStep
<1>3. CASE ~InWalk(g) /\ UNCHANGED walk
  BY <1>1, <1>3, FoundStep
<1> QED BY <1>2, <1>3

LEMMA ReceiveKeepsFound ==
    ASSUME TokenInv, FoundInv, NEW s \in Callers, NEW r \in Requests, ReceiveToken(s, r)
    PROVE  FoundInv'
<1>1. ~InWalk(Beginning(r, "open", 0)) /\ ~InWalk(Beginning(r, "reply", 400))
  BY DEF Beginning, InWalk
<1>2. PICK open, count, bad :
         /\ open = Beginning(r, "open", 0)
         /\ count = Beginning(r, "count", 0)
         /\ bad = Beginning(r, "reply", 400)
  OBVIOUS
<1>3. \/ handler' = [handler EXCEPT ![s] = open] /\ UNCHANGED walk
      \/ handler' = [handler EXCEPT ![s] = count] /\ BeginWalk(s, r)
      \/ handler' = [handler EXCEPT ![s] = bad] /\ UNCHANGED walk
  BY <1>2 DEF ReceiveToken
<1> QED BY <1>1, <1>2, <1>3, BeginningKeepsFound

LEMMA OpenKeepsFound ==
    ASSUME TokenInv, FoundInv, NEW s \in Callers, OpenRequest(s) \/ OpenError(s)
    PROVE  FoundInv'
<1>1. PICK h \in HandlerStates(TokenPhase), w \in WalkState, f \in FetchState :
         h = handler[s] /\ w = walk[s] /\ f = fetch[s] /\ TokenSlotInv(h, w, f)
  BY TokenSlot
<1>2. h.req \in Requests
  BY <1>1 DEF OpenRequest, OpenError, TokenSlotInv
<1>3. CASE Goto(s, "count") /\ BeginWalk(s, h.req)
  <2>1. PICK g : g = [handler[s] EXCEPT !.pc = "count"]
    OBVIOUS
  <2>2. handler' = [handler EXCEPT ![s] = g]
    BY <1>3, <2>1 DEF Goto, TokenInv
  <2> QED BY <1>2, <1>3, <2>2, BeginningKeepsFound
<1>4. CASE (Respond(s, 400) \/ RespondFault(s, 400)) /\ UNCHANGED walk
  <2>1. ASSUME NEW fault
        PROVE  ~InWalk(Answering(h, 400, fault))
    BY DEF Answering, InWalk, HandlerStates
  <2>2. PICK fault, g : /\ g = Answering(h, 400, fault)
                        /\ handler' = [handler EXCEPT ![s] = g]
    BY <1>1, <1>4 DEF Respond, RespondFault
  <2> QED BY <1>2, <1>4, <2>1, <2>2, BeginningKeepsFound
<1> QED BY <1>1, <1>3, <1>4 DEF OpenRequest, OpenError, tokenVars

(* Every other step either goes on with the walk or is in none. *)
LEMMA OthersKeepFound ==
    ASSUME TokenInv, FoundInv, NEW s \in Callers,
           \/ CountKeys(s) \/ CheckToken(s) \/ DecryptTokenEnv(s)
           \/ SharedStep(s) \/ FinishToken(s)
    PROVE  FoundInv'
<1>1. walk' = walk
  BY DEF CountKeys, CheckToken, DecryptTokenEnv, SharedStep, FinishToken, tokenVars
<1>2. PICK h \in HandlerStates(TokenPhase), w \in WalkState, f \in FetchState :
         h = handler[s] /\ w = walk[s] /\ f = fetch[s] /\ TokenSlotInv(h, w, f)
  BY TokenSlot
<1>3. SUFFICES /\ \A d \in Callers \ {s} : handler'[d] = handler[d]
               /\ InWalk(handler'[s]) => InWalk(h) /\ handler'[s].req = h.req
  BY <1>1, <1>2, FoundUntouched
<1>4. ASSUME NEW pc, Goto(s, pc), pc \in {"key", "claims"} => h.pc = "count",
             pc # "count"
      PROVE  /\ \A d \in Callers \ {s} : handler'[d] = handler[d]
             /\ InWalk(handler'[s]) => InWalk(h) /\ handler'[s].req = h.req
  BY <1>2, <1>4 DEF Goto, InWalk, TokenInv, HandlerStates
<1>5. ASSUME NEW status, Respond(s, status) \/ RespondFault(s, status)
      PROVE  /\ \A d \in Callers \ {s} : handler'[d] = handler[d]
             /\ ~InWalk(handler'[s])
  BY <1>5 DEF Respond, RespondFault, Answering, InWalk, TokenInv, HandlerStates
<1>6. CASE CountKeys(s)
  BY <1>2, <1>4, <1>6 DEF CountKeys
<1>7. CASE CheckToken(s)
  BY <1>4, <1>5, <1>7 DEF CheckToken
<1>8. CASE DecryptTokenEnv(s)
  BY <1>4, <1>5, <1>8 DEF DecryptTokenEnv
<1>9. CASE SharedStep(s)
  <2>1. CASE FetchRelease(s)
    BY <1>2, <2>1 DEF FetchRelease
  <2>2. CASE Authorize(s)
    <3>1. ~InWalk(Decrypting(handler[s], fetch[s].release))
      BY <1>2 DEF Decrypting, InWalk, HandlerStates
    <3> QED BY <1>5, <2>2, <3>1 DEF Authorize, TokenInv
  <2>3. CASE DeriveMnemonic(s) \/ SignResponse(s) \/ KmsError(s)
    BY <1>4, <1>5, <2>3 DEF DeriveMnemonic, SignResponse, KmsError
  <2> QED BY <1>9, <2>1, <2>2, <2>3 DEF SharedStep
<1>10. CASE FinishToken(s)
  BY <1>10 DEF FinishToken, Finish, NotHandling, InWalk, TokenInv
<1> QED BY <1>6, <1>7, <1>8, <1>9, <1>10

LEMMA FoundInvariance == TokenSpec => []FoundInv
<1>1. TokenInit => FoundInv
  BY DEF TokenInit, ServerSpecInit, ServerInit, NotHandling, InWalk, FoundInv
<1>2. TokenInv /\ FoundInv /\ [TokenNext]_<<chain, fetch, newest, debug, handler, jwks, walk>> => FoundInv'
  <2> SUFFICES ASSUME TokenInv, FoundInv, [TokenNext]_<<chain, fetch, newest, debug, handler, jwks, walk>>
               PROVE  FoundInv'
    OBVIOUS
  <2>1. CASE UNCHANGED <<handler, walk>>
    BY <2>1 DEF FoundInv, InWalk
  <2>2. CASE \E p \in Providers : RefreshKeys(p)
    BY <2>2, RefreshKeepsFound
  <2>3. ASSUME NEW s \in Callers,
               \/ \E r \in Requests : ReceiveToken(s, r)
               \/ OpenRequest(s) \/ OpenError(s)
               \/ CountKeys(s) \/ ReadKey(s) \/ CheckToken(s)
               \/ DecryptTokenEnv(s) \/ SharedStep(s) \/ FinishToken(s)
        PROVE  FoundInv'
    BY <2>3, ReceiveKeepsFound, OpenKeepsFound, ReadKeyKeepsFound, OthersKeepFound
  <2> QED BY <2>1, <2>2, <2>3 DEF TokenNext, tokenVars
<1> QED BY <1>1, <1>2, TokenInvariance, PTL DEF TokenSpec

(* Whatever is refreshed, and when: a walk returns matching keys of the    *)
(* sets the cache held meanwhile, and every one that kept its index in all *)
(* of them (attestation.go:398-412).                                       *)
THEOREM WalkAlwaysFindsWhatStays == TokenSpec => []WalkFindsWhatStays
<1>1. TokenInv /\ FoundInv => WalkFindsWhatStays
  <2> SUFFICES ASSUME TokenInv, FoundInv, NEW s \in Callers, handler[s].pc = "claims"
               PROVE  LET sets == walk[s].sets
                      IN  /\ walk[s].found \subseteq UNION {Matching(s, set) : set \in sets}
                          /\ \A set \in sets : \A i \in DOMAIN set :
                                /\ set[i] \in Matching(s, set)
                                /\ \A other \in sets : i \in DOMAIN other /\ other[i] = set[i]
                                => set[i] \in walk[s].found
    BY DEF WalkFindsWhatStays
  <2>1. PICK h \in HandlerStates(TokenPhase), w \in WalkState, f \in FetchState :
           h = handler[s] /\ w = walk[s] /\ f = fetch[s] /\ TokenSlotInv(h, w, f)
    BY TokenSlot
  <2>2. PICK alg : alg = h.req.evidence.key.alg
    OBVIOUS
  <2>3. FoundBounds(alg, w) /\ WalkInv(h, w, jwks[ProviderOf(h.req)])
    BY <2>1, <2>2 DEF FoundInv, TokenSlotInv, InWalk
  <2>4. \A set : Matching(s, set) = {k \in Range(set) : k.alg = alg}
    BY <2>1, <2>2 DEF Matching
  <2>5. w.found \subseteq UNION {Matching(s, set) : set \in w.sets}
    BY <2>3, <2>4 DEF FoundBounds, WalkInv
  <2>6. ASSUME NEW set \in w.sets, NEW i \in DOMAIN set, set[i].alg = alg,
               \A other \in w.sets : i \in DOMAIN other /\ other[i] = set[i]
        PROVE  set[i] \in w.found
    <3>1. PICK last \in w.sets : Len(last) < w.next
      BY <2>1, <2>3 DEF WalkInv
    <3>2. last \in KeyLists /\ w.next \in Nat
      BY DEF WalkState
    <3>3. i \in 1..Len(last) /\ Len(last) \in Nat
      BY <2>6, <3>2, KeyListsAreLists
    <3>4. i \in 1..(w.next - 1)
      BY <3>1, <3>2, <3>3
    <3> QED BY <2>3, <2>6, <3>4 DEF FoundBounds
  <2> QED BY <2>1, <2>4, <2>5, <2>6
<1> QED BY <1>1, TokenInvariance, FoundInvariance, PTL

(* There, too, the release fetch behaves as one read (env.go:92-98 and     *)
(* 173-179, chainclient.go:59-106).                                        *)
THEOREM TokenServerReadsAtomically == TokenSpec => ReadIsAtomic
<1>1. TokenInit => Init
  BY DEF TokenInit, ServerSpecInit, Init
<1>2. TokenSpec => Spec
  BY <1>1, TokenStepIsCall, TokenInvariance, PTL DEF TokenSpec, Spec
<1> QED BY <1>2, ReadRefinesAtomic
=============================================================================
