------------------------------ MODULE Identity ------------------------------
(***************************************************************************)
(* Who a caller is: internal/identity/oidc.go and token.go.  A request     *)
(* brings a token of the OpenID provider; the coordinator verifies it with *)
(* the provider's keys, which RemoteKeySet caches, signs a token of its    *)
(* own for the principal, and a search node verifies that one with the one *)
(* key it is configured with.                                              *)
(*                                                                         *)
(* The provider publishes and withdraws keys at any time.  PublicKey holds *)
(* its mutex while it fetches them: a fetch has a moment at which the      *)
(* provider answers and a later one at which the answer arrives.  Time is  *)
(* counted in ticks, of which a second has several, because the claims of  *)
(* a token hold whole seconds.  A token that fails a check before its key  *)
(* is looked up, or is not signed with the key it names, is refused with   *)
(* no trace: such tokens are left out.                                     *)
(***************************************************************************)
EXTENDS Integers, FiniteSets

CONSTANTS
    Keys,                   \* IDs of the provider's keys
    OtherKeys,              \* keys in the key set that are not for signing, or of another kind
    Tokens,                 \* tokens of the provider that each request may bring
    Requests,               \* requests the coordinator handles at once
    Nothing,
    TicksPerSecond,
    CacheTTL,               \* s.cacheTTL
    FetchTimeout,           \* Timeout of the http.Client
    Lifetime,               \* s.lifetime of the coordinator's signer
    Skew,                   \* v.skew of both verifiers
    Drifts,                 \* how far the node's clock may be ahead of the coordinator's
    MaxTime                 \* bound: the clock stops here

ASSUME IdentityAssumption ==
    /\ TicksPerSecond \in Nat \ {0}
    /\ {CacheTTL, FetchTimeout, Lifetime} \subseteq Nat \ {0}
    /\ {Skew, MaxTime} \subseteq Nat
    /\ FetchTimeout < CacheTTL
    /\ Keys \intersect OtherKeys = {}
    /\ Drifts \subseteq Int
    /\ Nothing \notin Requests
    /\ \A r \in Requests : \A t \in Tokens[r] :
        t.key \in Keys /\ {t.nbf, t.exp} \subseteq Nat /\ t.addressed \in BOOLEAN

VARIABLES
    now,                    \* clock of the coordinator, in ticks
    published,              \* keys in the provider's key set
    metadata,               \* what DiscoverProvider has come to
    keys, expiresAt,        \* s.keys and s.expiresAt of the RemoteKeySet
    holder,                 \* request that holds s.mu
    request,                \* what each request has come to
    \* history variables
    withdrawn,              \* when each key was withdrawn
    loaded                  \* keys and start of the last fetch that succeeded

cacheVars == <<keys, expiresAt, loaded>>
providerVars == <<published, withdrawn>>
vars == <<now, providerVars, metadata, cacheVars, holder, request>>

Idle == [pc |-> "idle"]
Lookup == {"key", "fetching", "served"}     \* inside PublicKey
Seconds(t) == t \div TicksPerSecond
Ticks(s) == s * TicksPerSecond

-----------------------------------------------------------------------------
(* Tokens.                                                                 *)

\* Mutant: no clock skew is allowed for in the not-before check.
validateClaimsStrict(claims, clock) ==
    /\ claims.addressed
    /\ claims.exp # 0 /\ clock < Ticks(claims.exp) + Skew
    /\ claims.nbf # 0 => clock >= Ticks(claims.nbf)

\* The issuer, audience and subject are right and the clock is within the
\* token's life.  iat and nbf are checked alike.
validateClaims(claims, clock) ==
    /\ claims.addressed
    /\ claims.exp # 0 /\ clock < Ticks(claims.exp) + Skew
    /\ claims.nbf # 0 => clock + Skew >= Ticks(claims.nbf)

\* Mutant: the lifetime is counted from the last whole second up.
SignedRoundedUp(clock) ==
    [addressed |-> TRUE, nbf |-> Seconds(clock), exp |-> Seconds(clock + Lifetime + TicksPerSecond)]

\* The claims Sign puts into a token.
Signed(clock) ==
    [addressed |-> TRUE, nbf |-> Seconds(clock), exp |-> Seconds(clock + Lifetime)]

-----------------------------------------------------------------------------
(* The provider and the clock.                                             *)

\* The provider does not use a key ID again.
PublishKey(k) ==
    /\ k \notin published /\ withdrawn[k] = Nothing
    /\ published' = published \union {k}
    /\ UNCHANGED <<now, withdrawn, metadata, cacheVars, holder, request>>

\* History: a request notes that its key was not published throughout.
WithdrawKey(k) ==
    /\ k \in published
    /\ published' = published \ {k}
    /\ withdrawn' = [withdrawn EXCEPT ![k] = now]
    /\ request' = [r \in Requests |->
                    IF request[r].pc \in Lookup /\ request[r].token.key = k
                    THEN [request[r] EXCEPT !.steady = FALSE] ELSE request[r]]
    /\ UNCHANGED <<now, metadata, cacheVars, holder>>

\* The HTTP client ends a fetch that has taken FetchTimeout.
Tick ==
    /\ now < MaxTime
    /\ \A r \in Requests : request[r].pc \in {"fetching", "served"} =>
                            now < request[r].started + FetchTimeout
    /\ now' = now + 1
    /\ UNCHANGED <<providerVars, metadata, cacheVars, holder, request>>

\* The coordinator starts only once the provider's metadata has been found and
\* its issuer is the one configured.
DiscoverProvider ==
    /\ metadata = "none"
    /\ metadata' \in {"found", "refused"}
    /\ UNCHANGED <<now, providerVars, cacheVars, holder, request>>

-----------------------------------------------------------------------------
(* PublicKey of the RemoteKeySet.                                          *)

\* A request whose token has a key ID comes for the key.
Verify(r, token) ==
    /\ metadata = "found"
    /\ request[r].pc = "idle"
    /\ request' = [request EXCEPT ![r] =
                    [pc |-> "key", token |-> token, started |-> 0, document |-> {},
                     steady |-> token.key \in published, covered |-> FALSE]]
    /\ UNCHANGED <<now, providerVars, metadata, cacheVars, holder>>

\* The request leaves PublicKey, and goes on to pc.
Unlock(r, pc) ==
    /\ holder' = Nothing
    /\ request' = [request EXCEPT ![r] = [pc |-> pc, token |-> @.token]]

Cached(key) == now < expiresAt /\ key \in keys

FoundCached(r) ==
    /\ request[r].pc = "key" /\ holder = Nothing
    /\ Cached(request[r].token.key)
    /\ Unlock(r, "claims")
    /\ UNCHANGED <<now, providerVars, metadata, cacheVars>>

\* History: the last fetch that succeeded, in the life of the cache, brought the key.
Covered(key) == key \in loaded.keys /\ now < loaded.start + CacheTTL

\* The cache is too old or does not have the key: the fetch starts, with the
\* mutex held.
Fetch(r) ==
    /\ request[r].pc = "key" /\ holder = Nothing
    /\ ~Cached(request[r].token.key)
    /\ holder' = r
    /\ request' = [request EXCEPT ![r].pc = "fetching", ![r].started = now,
                    ![r].covered = Covered(request[r].token.key)]
    /\ UNCHANGED <<now, providerVars, metadata, cacheVars>>

\* The provider answers.
Serve(r) ==
    /\ request[r].pc = "fetching"
    /\ request' = [request EXCEPT ![r].pc = "served", ![r].document = published \union OtherKeys]
    /\ UNCHANGED <<now, providerVars, metadata, cacheVars, holder>>

\* jwk.publicKey makes a key of an entry of the answer.
publicKey(k) == k \in Keys
Usable(document) == {k \in document : publicKey(k)}

\* Mutant: the life of the cache starts when the answer arrives.
ReceiveRestarts(r) ==
    /\ request[r].pc = "served"
    /\ Usable(request[r].document) # {}
    /\ keys' = Usable(request[r].document)
    /\ expiresAt' = now + CacheTTL
    /\ loaded' = [keys |-> Usable(request[r].document), start |-> request[r].started]
    /\ Unlock(r, IF request[r].token.key \in keys' THEN "claims" ELSE "missing")
    /\ UNCHANGED <<now, providerVars, metadata>>

\* The answer arrives, with some key that can be used.  The life of the cache
\* starts with the fetch.
Receive(r) ==
    /\ request[r].pc = "served"
    /\ Usable(request[r].document) # {}
    /\ keys' = Usable(request[r].document)
    /\ expiresAt' = request[r].started + CacheTTL
    /\ loaded' = [keys |-> Usable(request[r].document), start |-> request[r].started]
    /\ Unlock(r, IF request[r].token.key \in keys' THEN "claims" ELSE "missing")
    /\ UNCHANGED <<now, providerVars, metadata>>

\* Mutant: a fetch that fails empties the cache.
FetchFailsClears(r) ==
    /\ request[r].pc \in {"fetching", "served"}
    /\ keys' = {}
    /\ Unlock(r, "unfetched")
    /\ UNCHANGED <<now, providerVars, metadata, expiresAt, loaded>>

\* Mutant: the mutex stays locked after an error.
FetchFailsLocked(r) ==
    /\ request[r].pc \in {"fetching", "served"}
    /\ request' = [request EXCEPT ![r].pc = "unfetched"]
    /\ UNCHANGED <<now, providerVars, metadata, cacheVars, holder>>

\* The request fails or times out, the provider answers with an error, with
\* something that is no key set, or with no key that can be used.
FetchFails(r) ==
    /\ request[r].pc \in {"fetching", "served"}
    /\ Unlock(r, "unfetched")
    /\ UNCHANGED <<now, providerVars, metadata, cacheVars>>

-----------------------------------------------------------------------------
(* The rest of a request: the claims, the token for the node, the node.    *)

Authenticated(r) ==
    /\ request[r].pc = "claims"
    /\ request' = [request EXCEPT ![r] =
            [pc |-> IF validateClaims(@.token, now) THEN "known" ELSE "expired"]]
    /\ UNCHANGED <<now, providerVars, metadata, cacheVars, holder>>

Sign(r) ==
    /\ request[r].pc = "known"
    /\ request' = [request EXCEPT ![r] = [pc |-> "sent", at |-> now, claims |-> Signed(now)]]
    /\ UNCHANGED <<now, providerVars, metadata, cacheVars, holder>>

\* A search node whose clock is ahead by drift verifies the token.
NodeVerifies(r, drift) ==
    /\ request[r].pc = "sent"
    /\ request' = [request EXCEPT ![r] =
            [pc |-> IF validateClaims(@.claims, now + drift) THEN "accepted" ELSE "rejected",
             drift |-> drift]]
    /\ UNCHANGED <<now, providerVars, metadata, cacheVars, holder>>

Final == {"missing", "unfetched", "expired", "accepted", "rejected"}

Respond(r) ==
    /\ request[r].pc \in Final
    /\ request' = [request EXCEPT ![r] = Idle]
    /\ UNCHANGED <<now, providerVars, metadata, cacheVars, holder>>

-----------------------------------------------------------------------------
Init ==
    /\ now = 0
    /\ published \in SUBSET Keys
    /\ metadata = "none"
    /\ keys = {} /\ expiresAt = 0
    /\ holder = Nothing
    /\ request = [r \in Requests |-> Idle]
    /\ withdrawn = [k \in Keys |-> Nothing]
    /\ loaded = [keys |-> {}, start |-> 0]

\* The steps that wait for the mutex, and those that do not.
Locks(r) == FoundCached(r) \/ Fetch(r)
Step(r) ==
    Serve(r) \/ Receive(r) \/ FetchFails(r) \/ Authenticated(r) \/ Sign(r)
    \/ \E drift \in Drifts : NodeVerifies(r, drift)

Next ==
    \/ Tick \/ DiscoverProvider
    \/ \E k \in Keys : PublishKey(k) \/ WithdrawKey(k)
    \/ \E r \in Requests :
        \/ \E token \in Tokens[r] : Verify(r, token)
        \/ Locks(r) \/ Step(r) \/ Respond(r)

\* Requests are scheduled; sync.Mutex lets none starve; a fetch ends, if only by
\* the timeout of its client.
Spec ==
    /\ Init /\ [][Next]_vars
    /\ \A r \in Requests : WF_vars(Step(r)) /\ SF_vars(Locks(r))

-----------------------------------------------------------------------------
(* Properties.                                                             *)

Times == 0..MaxTime

\* Every variable is in its set, and the mutex is held by a request that fetches
\* and by nobody else.
TypeOK ==
    /\ now \in Times /\ expiresAt \in 0..(MaxTime + CacheTTL)
    /\ {published, keys, loaded.keys} \subseteq SUBSET Keys
    /\ loaded.start \in Times /\ withdrawn \in [Keys -> Times \union {Nothing}]
    /\ metadata \in {"none", "found", "refused"}
    /\ \A r \in Requests :
        /\ request[r].pc \in {"fetching", "served"} <=> holder = r
        /\ request[r].pc \in Lookup => request[r].token \in Tokens[r]

\* The requests that come to pc in this step.
Come(pc) == {r \in Requests : request'[r].pc = pc /\ request[r].pc # pc}

\* A key is not used longer than the life of the cache after the provider has
\* withdrawn it, however long the answer of the provider was on its way
\* (oidc.go PublicKey: now is read before the fetch).
KeysAreFresh ==
    [][\A r \in Come("claims") :
        LET key == request[r].token.key
        IN  key \in published \/ now - withdrawn[key] < CacheTTL]_vars

\* A request is refused for its key only if the provider has not published the
\* key all the time, or the fetch failed and the last one that succeeded did not
\* bring the key or was a lifetime ago.  So a new key works at once, and a failed
\* fetch, of this or another request, takes no key away (oidc.go PublicKey).
RefusedForACause ==
    [][/\ \A r \in Come("missing") : ~request[r].steady
       /\ \A r \in Come("unfetched") : ~request[r].covered]_vars

\* A token the coordinator signs lives as it should on a node with another clock,
\* in spite of the whole seconds in its claims.  The node acts on it no longer than
\* its lifetime and the skew, less what the clock is ahead; and while the clocks
\* differ by no more than the skew it refuses none from the moment of the signature
\* to a second before the end of the lifetime (token.go Sign and validateClaims).
TokenLivesAsSigned ==
    [][/\ \A r \in Come("accepted") :
            now < request[r].at + Lifetime + Skew - request'[r].drift
       /\ \A r \in Come("rejected") :
            \/ request'[r].drift \notin (-Skew)..Skew
            \/ now > request[r].at + Lifetime - TicksPerSecond]_vars

\* Every request is answered, though all wait for one mutex that is held while
\* the provider is asked (oidc.go PublicKey).
EveryRequestEnds ==
    \A r \in Requests : request[r].pc \notin Final \union {"idle"} ~> request[r].pc \in Final

=============================================================================
