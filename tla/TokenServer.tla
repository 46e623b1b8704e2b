----------------------------- MODULE TokenServer -----------------------------
(***************************************************************************)
(* The KMS server's older endpoints, /env and /env/v2 (HandleEnv and       *)
(* HandleEnvV2 in internal/handlers/env.go): the instance proves itself    *)
(* with a token of an attestation service, Google's for /env and Intel's   *)
(* for /env/v2, checked by pkg/attestation/attestation.go.  From there on  *)
(* they do what /env/v3 does, less the platform check.                     *)
(*                                                                         *)
(* A token's key is looked up in a cache of its issuer's key set, which    *)
(* another goroutine refreshes.  getFilteredKeySetForToken reads the cache *)
(* once per length test and once per element; every read is answered from  *)
(* the set the cache holds at that moment.                                 *)
(***************************************************************************)
EXTENDS EnvServer, Functions

CONSTANT KeySets      \* the lists of keys each provider may publish

VARIABLES
    jwks,             \* the key set in each provider's cache
    walk              \* the local state of each walk through a cache

tokenVars == <<jwks, walk>>

ASSUME TokenEndpointAssumption == \A r \in Requests : r.endpoint \in {"/env", "/env/v2"}

-----------------------------------------------------------------------------
Providers == {"GoogleConfidentialSpace", "IntelTrustAuthority"}

ASSUME KeySetAssumption ==
    /\ DOMAIN KeySets = Providers
    /\ \A p \in Providers : \A set \in KeySets[p] : set \in Seq(Range(set))

ProviderOf(r) == IF r.endpoint = "/env" THEN "GoogleConfidentialSpace"
                                        ELSE "IntelTrustAuthority"

(* What the validation shared by the two providers asks of each. *)
ValidationConfig ==
    [GoogleConfidentialSpace |->
        [expectedHwModel |-> "GCP_INTEL_TDX", requireAttesterTCB |-> TRUE,
         requiredSupportAttr |-> "STABLE", requireTDXSubmods |-> FALSE],
     IntelTrustAuthority |->
        [expectedHwModel |-> "INTEL_TDX", requireAttesterTCB |-> FALSE,
         requiredSupportAttr |-> "EXPERIMENTAL", requireTDXSubmods |-> TRUE]]

(* validateToken.  The evidence of these requests is the token. *)
ValidateToken(token, config) ==
    /\ token.swName = "CONFIDENTIAL_SPACE"
    /\ config.requireAttesterTCB => token.attesterTCB = <<"INTEL">>
    /\ token.hwModel = config.expectedHwModel
    /\ token.swVersion >= 250300
    /\ config.requireTDXSubmods => token.tcbStatus = "UpToDate"
    /\ debug \/ /\ token.dbgStat = "disabled-since-boot"
                /\ config.requiredSupportAttr \in token.supportAttributes
    /\ token.project = "attestationProject"

(* VerifyAttestation, given the filtered keys: signed by one of them, with *)
(* time claims that hold, and the claims this server asks for.             *)
VerifyAttestation(token, provider, keys) ==
    /\ token.key \in keys
    /\ token.valid
    /\ token.issuer = provider
    /\ token.audience \in {<<"https://sts.googleapis.com">>, <<"EigenX KMS">>}
    /\ ValidateToken(token, ValidationConfig[provider])
    /\ token.instance # "none"
    /\ Len(token.eatNonce) <= 1

(* The nonce: absent at /env; at /env/v2, the digest of the request's key. *)
NonceStatus(r) ==
    LET digest == CalculateSignableDigest(EnvRequestRSAKeyHeader, r.rsaKey)
    IN  CASE r.endpoint = "/env"    -> IF r.evidence.eatNonce = <<>>       THEN 200 ELSE 400
          [] r.endpoint = "/env/v2" -> IF r.evidence.eatNonce = <<digest>> THEN 200 ELSE 401

(* The status the token's checks lead to; the two endpoints look at the    *)
(* override and the nonce in different orders.                             *)
TokenStatus(r, keys) ==
    IF ~VerifyAttestation(r.evidence, ProviderOf(r), keys) THEN 401
    ELSE IF r.endpoint = "/env" /\ NonceStatus(r) # 200    THEN NonceStatus(r)
    ELSE IF OverrideRefused(r)                             THEN 400
    ELSE NonceStatus(r)

-----------------------------------------------------------------------------
TokenPhase == HandlerPhase \cup {"open", "count", "key", "claims"}

KeyLists == UNION Range(KeySets)

(* next and found are the Go locals i and filteredKeySet.  sets is         *)
(* history: the key sets the cache held from the walk's start to the       *)
(* token's verdict.                                                        *)
WalkState == [next : Nat, found : SUBSET UNION {Range(set) : set \in KeyLists},
              sets : SUBSET KeyLists]

NoWalk == [next |-> 1, found |-> {}, sets |-> {}]

(* The type invariant. *)
TokenTypeOK ==
    /\ FetchTypeOK
    /\ debug \in DebugModes
    /\ handler \in [Callers -> HandlerStates(TokenPhase)]
    /\ \A p \in Providers : jwks[p] \in KeySets[p]
    /\ walk \in [Callers -> WalkState]

(* The caches are filled before the server listens. *)
TokenInit ==
    /\ ServerSpecInit
    /\ jwks \in {sets \in [Providers -> KeyLists] :
                    \A p \in Providers : sets[p] \in KeySets[p]}
    /\ walk = [s \in Callers |-> NoWalk]

Walking(s) == handler[s].pc \in {"count", "key", "claims"}

CachedSet(s) == jwks[ProviderOf(handler[s].req)]

(* Mutant: the filtered set outlives the request. *)
FilterNotReset(s, r) ==
    walk' = [walk EXCEPT ![s].next = 1, ![s].sets = {jwks[ProviderOf(r)]}]

(* getFilteredKeySetForToken is called. *)
BeginWalk(s, r) ==
    walk' = [walk EXCEPT ![s] = [NoWalk EXCEPT !.sets = {jwks[ProviderOf(r)]}]]

-----------------------------------------------------------------------------
(* The slot's state when its request has arrived. *)
Beginning(r, pc, status) ==
    [pc |-> pc, req |-> r, release |-> NoRelease, status |-> status,
     since |-> Height, fault |-> FALSE]

(* A request arrives.  /env/v2 parses it at once; the body of an /env      *)
(* request must be decrypted by Cloud KMS first.                           *)
ReceiveToken(s, r) ==
    /\ handler[s].pc = "idle"
    /\ \/ /\ r.endpoint = "/env"
          /\ handler' = [handler EXCEPT ![s] = Beginning(r, "open", 0)]
          /\ UNCHANGED walk
       \/ /\ r.endpoint = "/env/v2" /\ Parses(r)
          /\ handler' = [handler EXCEPT ![s] = Beginning(r, "count", 0)]
          /\ BeginWalk(s, r)
       \/ /\ r.endpoint = "/env/v2" /\ ~Parses(r)
          /\ handler' = [handler EXCEPT ![s] = Beginning(r, "reply", 400)]
          /\ UNCHANGED walk
    /\ UNCHANGED <<chain, fetchVars, jwks>>

OpenRequest(s) ==
    /\ handler[s].pc = "open"
    /\ \/ /\ Parses(handler[s].req)
          /\ Goto(s, "count") /\ BeginWalk(s, handler[s].req)
       \/ /\ ~Parses(handler[s].req)
          /\ Respond(s, 400) /\ UNCHANGED walk
    /\ UNCHANGED <<chain, fetchVars, jwks>>

(* Cloud KMS failing to decrypt the body is answered like a bad body. *)
OpenError(s) ==
    /\ handler[s].pc = "open"
    /\ RespondFault(s, 400)
    /\ UNCHANGED <<chain, fetchVars, tokenVars>>

(* Mutant: the last index is left out. *)
CountKeysOffByOne(s) ==
    /\ handler[s].pc = "count"
    /\ IF walk[s].next < Len(CachedSet(s)) THEN Goto(s, "key") ELSE Goto(s, "claims")
    /\ UNCHANGED <<chain, fetchVars, tokenVars>>

(* The loop's test reads the length of the set the cache holds now ... *)
CountKeys(s) ==
    /\ handler[s].pc = "count"
    /\ IF walk[s].next <= Len(CachedSet(s)) THEN Goto(s, "key") ELSE Goto(s, "claims")
    /\ UNCHANGED <<chain, fetchVars, tokenVars>>

(* Mutant: keys of every algorithm are added. *)
AnyKeyAt(set, i, alg) == {set[j] : j \in {i} \cap DOMAIN set}

(* The key a set has at an index, if it has one there for the algorithm. *)
KeyAt(set, i, alg) == {k \in {set[j] : j \in {i} \cap DOMAIN set} : k.alg = alg}

(* ... and its body reads the key at the index from what it holds then. *)
ReadKey(s) ==
    /\ handler[s].pc = "key"
    /\ Goto(s, "count")
    /\ LET i     == walk[s].next
           match == KeyAt(CachedSet(s), i, handler[s].req.evidence.key.alg)
       IN  walk' = [walk EXCEPT ![s] =
                       [next |-> i + 1, found |-> @.found \cup match, sets |-> @.sets]]
    /\ UNCHANGED <<chain, fetchVars, jwks>>

(* The token is verified with the filtered keys. *)
CheckToken(s) ==
    /\ handler[s].pc = "claims"
    /\ LET status == TokenStatus(handler[s].req, walk[s].found)
       IN  \/ /\ status # 200
              /\ Respond(s, status) /\ UNCHANGED <<chain, fetchVars>>
           \/ /\ status = 200
              /\ Goto(s, "fetch") /\ GetLatestRelease(s, AppOf(handler[s].req))
    /\ UNCHANGED tokenVars

(* Cloud KMS decrypts the release's secrets; the platform is not checked. *)
DecryptTokenEnv(s) ==
    /\ handler[s].pc = "decrypt"
    /\ LET r      == handler[s].req
           status == DecryptStatus(ReleaseAt(AppOf(r), handler[s].release))
       IN  IF status = 200 THEN Goto(s, "mnemonic") ELSE Respond(s, status)
    /\ UNCHANGED <<chain, fetchVars, tokenVars>>

(* What these handlers share with /env/v3. *)
SharedStep(s) ==
    /\ FetchRelease(s) \/ Authorize(s) \/ DeriveMnemonic(s) \/ SignResponse(s) \/ KmsError(s)
    /\ UNCHANGED tokenVars

FinishToken(s) == Finish(s) /\ UNCHANGED tokenVars

(* A cache is refreshed with what its provider publishes now. *)
RefreshKeys(p) ==
    /\ \E set \in KeySets[p] :
          /\ jwks' = [jwks EXCEPT ![p] = set]
          /\ walk' = [s \in Callers |->
                IF Walking(s) /\ ProviderOf(handler[s].req) = p
                  THEN [walk[s] EXCEPT !.sets = @ \cup {set}]
                  ELSE walk[s]]
    /\ UNCHANGED <<chain, fetchVars, handler>>

TokenNext ==
    /\ \/ MineBlock /\ UNCHANGED <<fetchVars, handler, tokenVars>>
       \/ \E p \in Providers : RefreshKeys(p)
       \/ \E s \in Callers :
             \/ \E r \in Requests : ReceiveToken(s, r)
             \/ OpenRequest(s) \/ OpenError(s)
             \/ CountKeys(s) \/ ReadKey(s) \/ CheckToken(s)
             \/ DecryptTokenEnv(s) \/ SharedStep(s) \/ FinishToken(s)
    /\ UNCHANGED debug

TokenSpec == TokenInit /\ [][TokenNext]_<<chain, fetch, newest, debug, handler, jwks, walk>>

-----------------------------------------------------------------------------
(* A 200 goes to the holder of a token that a key of its own provider      *)
(* vouches for, one the cache held while the token was being checked       *)
(* (whatever other requests and refreshes left behind), and, if the token  *)
(* carries a nonce, is encrypted to the key the nonce names                *)
(* (attestation.go:123-218, env.go:75-79 and 166-169).                     *)
AdmittedByToken ==
    \A s \in Callers : Answered(s, 200) =>
        LET r == handler[s].req IN
        /\ r.evidence.issuer = ProviderOf(r)
        /\ \E set \in walk[s].sets : r.evidence.key \in Range(set)
        /\ \A i \in DOMAIN r.evidence.eatNonce :
              r.evidence.eatNonce[i] = CalculateSignableDigest(EnvRequestRSAKeyHeader, r.rsaKey)

(* The instance may have the env at height h. *)
TokenEntitledAt(r, h) ==
    /\ Parses(r)
    /\ TokenStatus(r, {r.evidence.key}) = 200
    /\ chain[h].latest[AppOf(r)] # 0
    /\ LET release == LastRelease(AppOf(r), h)
       IN  /\ Usable(release)
           /\ ReleaseStatus(r, release) = 200
           /\ DecryptStatus(release) = 200

(* If no remote call fails, a 4xx goes only to an instance that was not    *)
(* entitled at some height, or whose key changed its place in the cache    *)
(* during the walk: a key that every version of the set has at one index   *)
(* is found, although the length and the elements are read from different  *)
(* versions (attestation.go:399-411).                                      *)
TokenRefusalIsJustified ==
    \A s \in Callers :
        (Answered(s, 400) \/ Answered(s, 401)) /\ ~handler[s].fault =>
            LET r == handler[s].req IN
            \/ \E h \in Window(handler[s].since) : ~TokenEntitledAt(r, h)
            \/ ~\E i \in UNION {DOMAIN set : set \in walk[s].sets} :
                  \A set \in walk[s].sets : i \in DOMAIN set /\ set[i] = r.evidence.key

(* The keys of a set that are for the token's algorithm. *)
Matching(s, set) == {k \in Range(set) : k.alg = handler[s].req.evidence.key.alg}

(* attestation.go:370-371, "filters the JWKS to only include keys matching *)
(* the token's algorithm": what the walk returns is the matching part of   *)
(* a set the provider published.                                           *)
FilteredSetIsOfOneJWKS ==
    \A s \in Callers : handler[s].pc = "claims" =>
        \E set \in walk[s].sets : walk[s].found = Matching(s, set)

(* What is left of that under refreshes: the walk returns matching keys    *)
(* of the sets the cache held meanwhile, and all of those that kept their  *)
(* index in every one of them; of one set, then, exactly the matching part *)
(* (attestation.go:398-412).                                               *)
WalkFindsWhatStays ==
    \A s \in Callers : handler[s].pc = "claims" =>
        LET sets == walk[s].sets
        IN  /\ walk[s].found \subseteq UNION {Matching(s, set) : set \in sets}
            /\ \A set \in sets : \A i \in DOMAIN set :
                  /\ set[i] \in Matching(s, set)
                  /\ \A other \in sets : i \in DOMAIN other /\ other[i] = set[i]
                  => set[i] \in walk[s].found
=============================================================================
