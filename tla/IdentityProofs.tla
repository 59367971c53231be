--------------------------- MODULE IdentityProofs ---------------------------
(***************************************************************************)
(* What Identity keeps for every set of keys, tokens and requests and for  *)
(* every lifetime, timeout, skew and drift of the clocks: the mutex of     *)
(* PublicKey, the age of the keys it hands out, the causes for which it    *)
(* refuses a request, and how long a node acts on a token.                 *)
(***************************************************************************)
EXTENDS Identity, TLAPS

-----------------------------------------------------------------------------
(* The inductive invariant.                                                *)

Fetching == {"fetching", "served"}

Lookups(r) ==
    [pc : Lookup, token : Tokens[r], started : Nat, document : SUBSET (Keys \union OtherKeys),
     steady : BOOLEAN, covered : BOOLEAN]

\* The provider had the key at the given time or later.
HadSince(k, time) == k \in published \/ (withdrawn[k] \in Nat /\ withdrawn[k] >= time)

\* The cache is what the last fetch that succeeded brought, and lives from the
\* start of that fetch.
CacheInv ==
    /\ keys = loaded.keys
    /\ keys # {} => expiresAt = loaded.start + CacheTTL
    /\ loaded.start =< now
    /\ \A k \in keys : HadSince(k, loaded.start)

\* A request in PublicKey: a fetch takes no longer than its timeout, is made for
\* a key that the cache could not provide, and brings what was published since.
LookupInv(r) ==
    request[r].pc \in Lookup =>
        /\ request[r] \in Lookups(r)
        /\ request[r].steady => request[r].token.key \in published
        /\ request[r].pc \in Fetching =>
              /\ request[r].started =< now /\ now =< request[r].started + FetchTimeout
              /\ ~ request[r].covered
        /\ request[r].pc = "served" =>
              /\ request[r].steady => request[r].token.key \in request[r].document
              /\ \A k \in request[r].document \intersect Keys : HadSince(k, request[r].started)

\* The holder of the mutex is a request that fetches.
MutexInv(r) == request[r].pc \in Fetching <=> holder = r

\* A token that was sent was signed, not later than now.
SentInv(r) ==
    request[r].pc = "sent" =>
        request[r].at \in Nat /\ request[r].at =< now /\ request[r].claims = Signed(request[r].at)

RequestInv(r) == LookupInv(r) /\ MutexInv(r) /\ SentInv(r)

Typed ==
    /\ now \in 0..MaxTime /\ expiresAt \in 0..(MaxTime + CacheTTL)
    /\ published \in SUBSET Keys /\ keys \in SUBSET Keys
    /\ loaded.start \in Nat
    /\ withdrawn \in [Keys -> (0..MaxTime) \union {Nothing}]
    /\ metadata \in {"none", "found", "refused"}
    /\ request = [r \in Requests |-> request[r]]

IdentityInv == Typed /\ CacheInv /\ \A r \in Requests : RequestInv(r)

-----------------------------------------------------------------------------
(* Times and seconds.                                                      *)

LEMMA WholeSeconds ==
    ASSUME NEW t \in Nat
    PROVE  /\ Seconds(t) \in Nat
           /\ Ticks(Seconds(t)) \in Nat
           /\ Ticks(Seconds(t)) =< t
           /\ t < Ticks(Seconds(t)) + TicksPerSecond
           /\ Seconds(t) = 0 => t < TicksPerSecond
  <1>1. TicksPerSecond \in Nat /\ TicksPerSecond > 0
    BY IdentityAssumption
  <1> DEFINE T == TicksPerSecond
  <1> HIDE DEF T
  <1>2. T \in Nat /\ T > 0
    BY <1>1 DEF T
  <1>3. /\ t \div T \in Nat
        /\ (t \div T) * T =< t /\ t < (t \div T) * T + T
    BY <1>2
  <1>4. (t \div T) * T \in Nat
    BY <1>2, <1>3
  <1>5. t \div T = 0 => t < T
    BY <1>2, <1>3
  <1> QED
    BY <1>3, <1>4, <1>5 DEF Seconds, Ticks, T

LEMMA Constants ==
    /\ CacheTTL \in Nat /\ FetchTimeout \in Nat /\ Lifetime \in Nat /\ Skew \in Nat
    /\ MaxTime \in Nat /\ FetchTimeout < CacheTTL /\ TicksPerSecond \in Nat
    /\ Nothing \notin Requests /\ Drifts \subseteq Int
  BY IdentityAssumption

-----------------------------------------------------------------------------
(* What a step keeps.                                                      *)

LEMMA RequestSet ==
    ASSUME Typed, NEW r \in Requests, NEW q, request' = [request EXCEPT ![r] = q]
    PROVE  /\ request' = [s \in Requests |-> request'[s]]
           /\ request'[r] = q
           /\ \A s \in Requests \ {r} : request'[s] = request[s]
  <1>1. DOMAIN request = Requests
    BY DEF Typed
  <1> QED
    BY <1>1

\* A step of one request leaves what is known of the others.
LEMMA OthersKept ==
    ASSUME IdentityInv, NEW r \in Requests, UNCHANGED <<now, providerVars>>,
           \A s \in Requests \ {r} : request'[s] = request[s] /\ (holder' = s <=> holder = s),
           RequestInv(r)'
    PROVE  \A s \in Requests : RequestInv(s)'
  <1> SUFFICES ASSUME NEW s \in Requests \ {r}
               PROVE  RequestInv(s)'
    OBVIOUS
  <1>1. RequestInv(s)
    BY DEF IdentityInv
  <1>2. now' = now /\ published' = published /\ withdrawn' = withdrawn
    BY DEF providerVars
  <1>3. LookupInv(s)'
    BY <1>1, <1>2 DEF RequestInv, LookupInv, HadSince
  <1>4. MutexInv(s)' /\ SentInv(s)'
    BY <1>1, <1>2 DEF RequestInv, MutexInv, SentInv
  <1> QED
    BY <1>3, <1>4 DEF RequestInv

LEMMA CacheKept ==
    ASSUME CacheInv, UNCHANGED <<now, providerVars, cacheVars>>
    PROVE  CacheInv'
  BY DEF CacheInv, HadSince, providerVars, cacheVars

\* A step in which a request goes to a pc of which nothing else is known.
LEMMA PlainStep ==
    ASSUME IdentityInv, NEW r \in Requests, NEW q, request' = [request EXCEPT ![r] = q],
           UNCHANGED <<now, providerVars, metadata, cacheVars>>,
           q.pc \notin Lookup \union {"sent"},
           \/ holder' = holder /\ request[r].pc \notin Fetching
           \/ holder' = Nothing /\ (holder = r \/ holder = Nothing)
    PROVE  IdentityInv'
  <1>1. Typed /\ CacheInv /\ MutexInv(r)
    BY DEF IdentityInv, RequestInv
  <1>2. /\ request' = [s \in Requests |-> request'[s]]
        /\ request'[r] = q
        /\ \A s \in Requests \ {r} : request'[s] = request[s]
    BY <1>1, RequestSet
  <1>3. \A s \in Requests \ {r} : holder' = s <=> holder = s
    BY Constants
  <1>4. RequestInv(r)'
    <2>1. holder' # r
      BY <1>1, Constants DEF MutexInv
    <2>2. LookupInv(r)' /\ SentInv(r)'
      BY <1>2 DEF LookupInv, SentInv
    <2>3. MutexInv(r)'
      BY <1>2, <2>1 DEF MutexInv, Fetching, Lookup
    <2> QED
      BY <2>2, <2>3 DEF RequestInv
  <1>5. \A s \in Requests : RequestInv(s)'
    BY <1>2, <1>3, <1>4, OthersKept
  <1>6. Typed'
    BY <1>1, <1>2 DEF Typed, providerVars, cacheVars
  <1>7. CacheInv'
    BY <1>1, CacheKept
  <1> QED
    BY <1>5, <1>6, <1>7 DEF IdentityInv

LEMMA UnlockSets ==
    ASSUME NEW r \in Requests, NEW pc, Unlock(r, pc)
    PROVE  /\ holder' = Nothing
           /\ \E q : q.pc = pc /\ request' = [request EXCEPT ![r] = q]
  <1>1. request' = [request EXCEPT ![r] = [pc |-> pc, token |-> request[r].token]]
    BY DEF Unlock
  <1>2. [pc |-> pc, token |-> request[r].token].pc = pc
    OBVIOUS
  <1> QED
    BY <1>1, <1>2 DEF Unlock

-----------------------------------------------------------------------------
(* The steps.                                                              *)

LEMMA IdentityStarts == Init => IdentityInv
  <1> SUFFICES ASSUME Init PROVE IdentityInv
    OBVIOUS
  <1>1. \A r \in Requests : request[r].pc = "idle"
    BY DEF Init, Idle
  <1>2. /\ now = 0 /\ published \in SUBSET Keys /\ metadata = "none" /\ keys = {}
        /\ expiresAt = 0 /\ holder = Nothing
        /\ withdrawn = [k \in Keys |-> Nothing] /\ loaded.keys = {} /\ loaded.start = 0
        /\ request = [r \in Requests |-> request[r]]
    BY DEF Init
  <1>3. Typed
    BY <1>2, Constants DEF Typed
  <1>4. CacheInv
    BY <1>2 DEF CacheInv
  <1>5. ASSUME NEW r \in Requests
        PROVE  RequestInv(r)
    BY <1>1, <1>2, Constants DEF RequestInv, LookupInv, MutexInv, SentInv, Lookup, Fetching
  <1> QED
    BY <1>3, <1>4, <1>5 DEF IdentityInv

LEMMA PublishStep ==
    ASSUME IdentityInv, NEW k \in Keys, PublishKey(k)
    PROVE  IdentityInv'
  <1>1. Typed /\ CacheInv
    BY DEF IdentityInv
  <1>2. /\ published' = published \union {k} /\ withdrawn' = withdrawn /\ now' = now
        /\ keys' = keys /\ expiresAt' = expiresAt /\ loaded' = loaded
        /\ holder' = holder /\ request' = request /\ metadata' = metadata
    BY DEF PublishKey, cacheVars
  <1>3. Typed'
    BY <1>1, <1>2 DEF Typed
  <1>4. CacheInv'
    BY <1>1, <1>2 DEF CacheInv, HadSince
  <1>5. ASSUME NEW r \in Requests
        PROVE  RequestInv(r)'
    <2>1. RequestInv(r)
      BY DEF IdentityInv
    <2>2. LookupInv(r)'
      BY <1>2, <2>1 DEF RequestInv, LookupInv, HadSince
    <2>3. MutexInv(r)' /\ SentInv(r)'
      BY <1>2, <2>1 DEF RequestInv, MutexInv, SentInv
    <2> QED
      BY <2>2, <2>3 DEF RequestInv
  <1> QED
    BY <1>3, <1>4, <1>5 DEF IdentityInv

LEMMA TickStep ==
    ASSUME IdentityInv, Tick
    PROVE  IdentityInv'
  <1>1. Typed /\ CacheInv
    BY DEF IdentityInv
  <1>2. /\ published' = published /\ withdrawn' = withdrawn /\ now' = now + 1
        /\ keys' = keys /\ expiresAt' = expiresAt /\ loaded' = loaded
        /\ holder' = holder /\ request' = request /\ metadata' = metadata
        /\ now < MaxTime
    BY DEF Tick, cacheVars, providerVars
  <1>3. now \in Nat /\ loaded.start \in Nat
    BY <1>1 DEF Typed
  <1>4. Typed'
    BY <1>1, <1>2, Constants DEF Typed
  <1>5. CacheInv'
    BY <1>1, <1>2, <1>3 DEF CacheInv, HadSince
  <1>6. ASSUME NEW r \in Requests
        PROVE  RequestInv(r)'
    <2>1. RequestInv(r)
      BY DEF IdentityInv
    <2>2. LookupInv(r)'
      <3>1. CASE request[r].pc \in Lookup
        <4>1. /\ request[r] \in Lookups(r) /\ request[r].started \in Nat
              /\ request[r].steady => request[r].token.key \in published
          BY <2>1, <3>1 DEF RequestInv, LookupInv, Lookups
        <4>2. ASSUME request[r].pc \in Fetching
              PROVE  /\ request[r].started =< now + 1 /\ now + 1 =< request[r].started + FetchTimeout
                     /\ ~ request[r].covered
          <5>1. now < request[r].started + FetchTimeout
            BY <4>2 DEF Tick, Fetching
          <5>2. request[r].started =< now /\ ~ request[r].covered
            BY <2>1, <3>1, <4>2 DEF RequestInv, LookupInv
          <5> QED
            BY <1>3, <4>1, <5>1, <5>2, Constants
        <4>3. request[r].pc = "served" =>
              /\ request[r].steady => request[r].token.key \in request[r].document
              /\ \A k \in request[r].document \intersect Keys : HadSince(k, request[r].started)
          BY <2>1, <3>1 DEF RequestInv, LookupInv
        <4> QED
          BY <1>2, <4>1, <4>2, <4>3 DEF LookupInv, HadSince
      <3>2. CASE request[r].pc \notin Lookup
        BY <1>2, <3>2 DEF LookupInv
      <3> QED
        BY <3>1, <3>2
    <2>3. MutexInv(r)'
      BY <1>2, <2>1 DEF RequestInv, MutexInv
    <2>4. SentInv(r)'
      BY <1>2, <1>3, <2>1 DEF RequestInv, SentInv
    <2> QED
      BY <2>2, <2>3, <2>4 DEF RequestInv
  <1> QED
    BY <1>4, <1>5, <1>6 DEF IdentityInv

LEMMA WithdrawStep ==
    ASSUME IdentityInv, NEW k \in Keys, WithdrawKey(k)
    PROVE  /\ IdentityInv'
           /\ \A r \in Requests : request'[r].pc = request[r].pc
  <1>1. Typed /\ CacheInv /\ now \in Nat /\ now \in 0..MaxTime
    BY DEF IdentityInv, Typed
  <1>2. /\ published' = published \ {k} /\ now' = now
        /\ withdrawn' = [withdrawn EXCEPT ![k] = now]
        /\ keys' = keys /\ expiresAt' = expiresAt /\ loaded' = loaded
        /\ holder' = holder /\ metadata' = metadata
    BY DEF WithdrawKey, cacheVars
  <1>3. /\ withdrawn'[k] = now
        /\ \A j \in Keys : j # k => withdrawn'[j] = withdrawn[j]
        /\ withdrawn' \in [Keys -> (0..MaxTime) \union {Nothing}]
    BY <1>1, <1>2 DEF Typed
  <1>4. \A j \in Keys : \A time \in Nat : HadSince(j, time) /\ time =< now => HadSince(j, time)'
    BY <1>1, <1>2, <1>3 DEF HadSince
  <1>5. /\ request' = [r \in Requests |-> request'[r]]
        /\ \A r \in Requests :
              \/ /\ request[r].pc \in Lookup /\ request[r].token.key = k
                 /\ request'[r] = [request[r] EXCEPT !.steady = FALSE]
              \/ ~ (request[r].pc \in Lookup /\ request[r].token.key = k)
                 /\ request'[r] = request[r]
    BY DEF WithdrawKey
  <1>6. ASSUME NEW r \in Requests
        PROVE  RequestInv(r)' /\ request'[r].pc = request[r].pc
    <2>1. RequestInv(r)
      BY DEF IdentityInv
    <2>2. CASE request[r].pc \notin Lookup
      <3>1. request'[r] = request[r]
        BY <1>5, <2>2
      <3> QED
        BY <1>2, <2>1, <2>2, <3>1 DEF RequestInv, LookupInv, MutexInv, SentInv
    <2>3. CASE request[r].pc \in Lookup
      <3>1. /\ request[r] \in Lookups(r) /\ request[r].started \in Nat
            /\ request[r].steady => request[r].token.key \in published
        BY <2>1, <2>3 DEF RequestInv, LookupInv, Lookups
      <3>2. /\ request'[r] \in Lookups(r) /\ request'[r].pc = request[r].pc
            /\ request'[r].token = request[r].token /\ request'[r].started = request[r].started
            /\ request'[r].document = request[r].document
            /\ request'[r].covered = request[r].covered
            /\ request'[r].steady => request[r].steady /\ request[r].token.key # k
        <4>1. CASE request[r].token.key = k
          <5>1. request'[r] = [request[r] EXCEPT !.steady = FALSE]
            BY <1>5, <2>3, <4>1
          <5> QED
            BY <3>1, <5>1 DEF Lookups
        <4>2. CASE request[r].token.key # k
          BY <1>5, <3>1, <4>2
        <4> QED
          BY <4>1, <4>2
      <3>3. request'[r].steady => request'[r].token.key \in published'
        BY <1>2, <3>1, <3>2
      <3>4. LookupInv(r)'
        <4>1. request[r].pc \in Fetching =>
                 /\ request[r].started =< now /\ now =< request[r].started + FetchTimeout
                 /\ ~ request[r].covered
          BY <2>1, <2>3 DEF RequestInv, LookupInv
        <4>2. ASSUME request[r].pc = "served", NEW j \in request[r].document \intersect Keys
              PROVE  HadSince(j, request[r].started)'
          <5>1. HadSince(j, request[r].started)
            BY <2>1, <2>3, <4>2 DEF RequestInv, LookupInv
          <5>2. PICK time \in Nat : time = request[r].started /\ time = request'[r].started
            BY <3>1, <3>2
          <5>3. time =< now
            BY <4>1, <4>2, <5>2 DEF Fetching
          <5>4. HadSince(j, time)'
            BY <1>4, <5>1, <5>2, <5>3
          <5> QED
            BY <5>2, <5>4 DEF HadSince
        <4>3. request[r].pc = "served" /\ request[r].steady => request[r].token.key \in request[r].document
          BY <2>1, <2>3 DEF RequestInv, LookupInv
        <4>4. request'[r].pc = "served" =>
                 \A j \in request'[r].document \intersect Keys : HadSince(j, request[r].started)'
          BY <3>2, <4>2
        <4> QED
          BY <1>2, <3>2, <3>3, <4>1, <4>3, <4>4 DEF LookupInv, HadSince
      <3>5. MutexInv(r)'
        BY <1>2, <2>1, <3>2 DEF RequestInv, MutexInv
      <3>6. SentInv(r)'
        BY <2>3, <3>2 DEF SentInv, Lookup
      <3> QED
        BY <3>2, <3>4, <3>5, <3>6 DEF RequestInv
    <2> QED
      BY <2>2, <2>3
  <1>7. Typed'
    BY <1>1, <1>2, <1>3, <1>5 DEF Typed
  <1>8. CacheInv'
    <2>1. \A j \in keys : HadSince(j, loaded.start)'
      <3>1. PICK time \in Nat : time = loaded.start /\ time =< now
        BY <1>1 DEF Typed, CacheInv
      <3>2. \A j \in keys : HadSince(j, time)'
        BY <1>1, <1>4, <3>1 DEF CacheInv, Typed
      <3> QED
        BY <1>2, <3>1, <3>2 DEF HadSince
    <2> QED
      BY <1>1, <1>2, <2>1 DEF CacheInv
  <1> QED
    BY <1>6, <1>7, <1>8 DEF IdentityInv

\* A step of a request inside PublicKey that does not touch the cache.
LEMMA LookupStep ==
    ASSUME IdentityInv, NEW r \in Requests, NEW q, request' = [request EXCEPT ![r] = q],
           UNCHANGED <<now, providerVars, metadata, cacheVars>>,
           \A s \in Requests \ {r} : holder' = s <=> holder = s,
           q \in Lookups(r), q.pc \in Fetching <=> holder' = r,
           q.steady => q.token.key \in published,
           q.pc \in Fetching => /\ q.started =< now /\ now =< q.started + FetchTimeout
                                /\ ~ q.covered,
           q.pc = "served" => /\ q.steady => q.token.key \in q.document
                              /\ \A k \in q.document \intersect Keys : HadSince(k, q.started)
    PROVE  IdentityInv'
  <1>1. Typed /\ CacheInv
    BY DEF IdentityInv
  <1>2. /\ request' = [s \in Requests |-> request'[s]]
        /\ request'[r] = q
        /\ \A s \in Requests \ {r} : request'[s] = request[s]
    BY <1>1, RequestSet
  <1>3. now' = now /\ published' = published /\ withdrawn' = withdrawn
    BY DEF providerVars
  <1>4. LookupInv(r)'
    BY <1>2, <1>3 DEF LookupInv, HadSince
  <1>5. MutexInv(r)' /\ SentInv(r)'
    BY <1>2 DEF MutexInv, SentInv, Lookups, Lookup
  <1>6. \A s \in Requests : RequestInv(s)'
    BY <1>2, <1>4, <1>5, OthersKept DEF RequestInv
  <1>7. Typed'
    BY <1>1, <1>2 DEF Typed, providerVars, cacheVars
  <1>8. CacheInv'
    BY <1>1, CacheKept
  <1> QED
    BY <1>6, <1>7, <1>8 DEF IdentityInv

LEMMA VerifyStep ==
    ASSUME IdentityInv, NEW r \in Requests, NEW token \in Tokens[r], Verify(r, token)
    PROVE  IdentityInv'
  <1> DEFINE q == [pc |-> "key", token |-> token, started |-> 0, document |-> {},
                   steady |-> token.key \in published, covered |-> FALSE]
  <1>1. /\ request' = [request EXCEPT ![r] = q] /\ request[r].pc = "idle"
        /\ UNCHANGED <<now, providerVars, metadata, cacheVars>> /\ holder' = holder
    BY DEF Verify
  <1>2. /\ q.pc = "key" /\ q.token = token /\ q.steady = (token.key \in published)
    OBVIOUS
  <1>3. q \in Lookups(r)
    BY DEF Lookups, Lookup
  <1>4. holder # r
    BY <1>1 DEF IdentityInv, RequestInv, MutexInv, Fetching
  <1> HIDE DEF q
  <1> QED
    BY <1>1, <1>2, <1>3, <1>4, LookupStep DEF Fetching

LEMMA FoundCachedStep ==
    ASSUME IdentityInv, NEW r \in Requests, FoundCached(r)
    PROVE  IdentityInv'
  <1>1. PICK q : q.pc = "claims" /\ request' = [request EXCEPT ![r] = q]
    BY UnlockSets DEF FoundCached
  <1>2. /\ UNCHANGED <<now, providerVars, metadata, cacheVars>>
        /\ holder' = Nothing /\ holder = Nothing
    BY DEF FoundCached, Unlock
  <1>3. q.pc \notin Lookup \union {"sent"}
    BY <1>1 DEF Lookup
  <1> QED
    BY <1>1, <1>2, <1>3, PlainStep

LEMMA FetchStep ==
    ASSUME IdentityInv, NEW r \in Requests, Fetch(r)
    PROVE  IdentityInv'
  <1> DEFINE p == request[r]
             q == [p EXCEPT !.pc = "fetching", !.started = now, !.covered = Covered(p.token.key)]
  <1>1. /\ p.pc = "key" /\ holder = Nothing /\ holder' = r /\ ~ Cached(p.token.key)
        /\ UNCHANGED <<now, providerVars, metadata, cacheVars>>
    BY DEF Fetch
  <1>2. Typed /\ CacheInv /\ now \in Nat
    BY DEF IdentityInv, Typed
  <1>3. p \in Lookups(r) /\ (p.steady => p.token.key \in published)
    BY <1>1 DEF IdentityInv, RequestInv, LookupInv, Lookup
  <1>4. ~ Covered(p.token.key)
    BY <1>1, <1>2 DEF Covered, Cached, CacheInv
  <1>5. request' = [request EXCEPT ![r] = q]
    <2>1. request' = [request EXCEPT ![r].pc = "fetching", ![r].started = now,
                                     ![r].covered = Covered(request[r].token.key)]
      BY DEF Fetch
    <2>2. DOMAIN request = Requests
      BY <1>2 DEF Typed
    <2> QED
      BY <1>3, <2>1, <2>2 DEF Lookups
  <1>6. /\ q \in Lookups(r) /\ q.pc = "fetching" /\ q.started = now /\ ~ q.covered
        /\ q.token = p.token /\ q.steady = p.steady
    <2>1. Covered(p.token.key) = FALSE
      BY <1>4 DEF Covered
    <2>2. q = [p EXCEPT !.pc = "fetching", !.started = now, !.covered = FALSE]
      BY <2>1
    <2> HIDE DEF p, q
    <2> QED
      BY <1>2, <1>3, <2>2 DEF Lookups, Lookup
  <1> HIDE DEF q
  <1>7. \A s \in Requests \ {r} : holder' = s <=> holder = s
    BY <1>1, Constants
  <1>8. q.started =< now /\ now =< q.started + FetchTimeout
    BY <1>2, <1>6, Constants
  <1> QED
    BY <1>1, <1>3, <1>5, <1>6, <1>7, <1>8, LookupStep DEF Fetching

LEMMA ServeStep ==
    ASSUME IdentityInv, NEW r \in Requests, Serve(r)
    PROVE  IdentityInv'
  <1> DEFINE p == request[r]
             document == published \union OtherKeys
             q == [p EXCEPT !.pc = "served", !.document = document]
  <1>1. /\ p.pc = "fetching" /\ holder' = holder
        /\ UNCHANGED <<now, providerVars, metadata, cacheVars>>
    BY DEF Serve
  <1>2. Typed /\ LookupInv(r) /\ MutexInv(r) /\ published \in SUBSET Keys
    BY DEF IdentityInv, RequestInv, Typed
  <1>3. /\ p \in Lookups(r) /\ (p.steady => p.token.key \in published)
        /\ p.started =< now /\ now =< p.started + FetchTimeout /\ ~ p.covered
    BY <1>1, <1>2 DEF LookupInv, Lookup, Fetching
  <1>4. request' = [request EXCEPT ![r] = q]
    <2>1. request' = [request EXCEPT ![r].pc = "served", ![r].document = document]
      BY DEF Serve
    <2>2. DOMAIN request = Requests
      BY <1>2 DEF Typed
    <2> QED
      BY <1>3, <2>1, <2>2 DEF Lookups
  <1>5. /\ q \in Lookups(r) /\ q.pc = "served" /\ q.document = document
        /\ q.token = p.token /\ q.steady = p.steady /\ q.started = p.started
        /\ q.covered = p.covered
    BY <1>2, <1>3 DEF Lookups, Lookup
  <1> HIDE DEF q
  <1>6. \A k \in document \intersect Keys : HadSince(k, q.started)
    BY IdentityAssumption DEF HadSince
  <1>7. holder = r
    BY <1>1, <1>2 DEF MutexInv, Fetching
  <1> QED
    BY <1>1, <1>3, <1>4, <1>5, <1>6, <1>7, LookupStep DEF Fetching

\* What a request that was served knows.
LEMMA ServedIs ==
    ASSUME IdentityInv, NEW r \in Requests, request[r].pc = "served"
    PROVE  /\ request[r] \in Lookups(r) /\ request[r].started \in Nat
           /\ request[r].token \in Tokens[r] /\ request[r].token.key \in Keys
           /\ request[r].started =< now /\ now < request[r].started + CacheTTL
           /\ request[r].steady => request[r].token.key \in Usable(request[r].document)
           /\ \A k \in Usable(request[r].document) : k \in Keys /\ HadSince(k, request[r].started)
           /\ ~ request[r].covered
  <1>1. /\ request[r] \in Lookups(r)
        /\ request[r].started =< now /\ now =< request[r].started + FetchTimeout
        /\ ~ request[r].covered
        /\ request[r].steady => request[r].token.key \in request[r].document
        /\ \A k \in request[r].document \intersect Keys : HadSince(k, request[r].started)
    BY DEF IdentityInv, RequestInv, LookupInv, Lookup, Fetching
  <1>2. request[r].started \in Nat /\ request[r].token \in Tokens[r] /\ now \in Nat
    BY <1>1 DEF Lookups, IdentityInv, Typed
  <1>3. request[r].token.key \in Keys
    BY <1>2, IdentityAssumption
  <1>4. now < request[r].started + CacheTTL
    BY <1>1, <1>2, Constants
  <1> QED
    BY <1>1, <1>2, <1>3, <1>4 DEF Usable, publicKey

LEMMA ReceiveStep ==
    ASSUME IdentityInv, NEW r \in Requests, Receive(r)
    PROVE  IdentityInv'
  <1> DEFINE p == request[r]
             new == Usable(p.document)
  <1>1. /\ p.pc = "served" /\ new # {} /\ keys' = new /\ expiresAt' = p.started + CacheTTL
        /\ loaded' = [keys |-> new, start |-> p.started]
        /\ UNCHANGED <<now, providerVars, metadata>>
    BY DEF Receive
  <1>2. /\ p.started \in Nat /\ p.started =< now
        /\ \A k \in new : k \in Keys /\ HadSince(k, p.started)
    BY <1>1, ServedIs
  <1>3. Typed /\ now \in 0..MaxTime /\ MutexInv(r)
    BY DEF IdentityInv, Typed, RequestInv
  <1>4. PICK pc \in {"claims", "missing"} : Unlock(r, pc)
    BY DEF Receive
  <1>5. PICK q : q.pc = pc /\ request' = [request EXCEPT ![r] = q]
    BY <1>4, UnlockSets
  <1>6. holder' = Nothing /\ holder = r
    BY <1>1, <1>3, <1>4 DEF Unlock, MutexInv, Fetching
  <1>7. /\ request' = [s \in Requests |-> request'[s]]
        /\ request'[r] = q
        /\ \A s \in Requests \ {r} : request'[s] = request[s]
    BY <1>3, <1>5, RequestSet
  <1>8. /\ loaded'.keys = new /\ loaded'.start = p.started
        /\ now' = now /\ published' = published /\ withdrawn' = withdrawn /\ metadata' = metadata
    BY <1>1 DEF providerVars
  <1>9. Typed'
    <2>1. p.started + CacheTTL \in 0..(MaxTime + CacheTTL)
      BY <1>2, <1>3, Constants
    <2> QED
      BY <1>1, <1>2, <1>3, <1>7, <1>8, <2>1 DEF Typed
  <1>10. CacheInv'
    BY <1>1, <1>2, <1>8 DEF CacheInv, HadSince
  <1>11. RequestInv(r)'
    BY <1>5, <1>6, <1>7, Constants
       DEF RequestInv, LookupInv, MutexInv, SentInv, Lookup, Fetching
  <1>12. \A s \in Requests : RequestInv(s)'
    <2>1. \A s \in Requests \ {r} : holder' = s <=> holder = s
      BY <1>6, Constants
    <2> QED
      BY <1>1, <1>7, <1>11, <2>1, OthersKept
  <1> QED
    BY <1>9, <1>10, <1>12 DEF IdentityInv

LEMMA FetchFailsStep ==
    ASSUME IdentityInv, NEW r \in Requests, FetchFails(r)
    PROVE  IdentityInv'
  <1>1. PICK q : q.pc = "unfetched" /\ request' = [request EXCEPT ![r] = q]
    BY UnlockSets DEF FetchFails
  <1>2. /\ UNCHANGED <<now, providerVars, metadata, cacheVars>>
        /\ holder' = Nothing /\ request[r].pc \in Fetching
    BY DEF FetchFails, Unlock, Fetching
  <1>3. holder = r
    BY <1>2 DEF IdentityInv, RequestInv, MutexInv
  <1>4. q.pc \notin Lookup \union {"sent"}
    BY <1>1 DEF Lookup
  <1> QED
    BY <1>1, <1>2, <1>3, <1>4, PlainStep

LEMMA AuthenticatedStep ==
    ASSUME IdentityInv, NEW r \in Requests, Authenticated(r)
    PROVE  IdentityInv' /\ request'[r].pc \in {"known", "expired"}
  <1> DEFINE q == [pc |-> IF validateClaims(request[r].token, now) THEN "known" ELSE "expired"]
  <1>1. /\ request[r].pc = "claims" /\ request' = [request EXCEPT ![r] = q] /\ holder' = holder
        /\ UNCHANGED <<now, providerVars, metadata, cacheVars>>
    BY DEF Authenticated
  <1>2. q.pc \in {"known", "expired"}
    OBVIOUS
  <1> HIDE DEF q
  <1>3. q.pc \notin Lookup \union {"sent"} /\ request[r].pc \notin Fetching
    BY <1>1, <1>2 DEF Lookup, Fetching
  <1>4. request'[r] = q
    BY <1>1, RequestSet DEF IdentityInv
  <1> QED
    BY <1>1, <1>2, <1>3, <1>4, PlainStep

LEMMA SignStep ==
    ASSUME IdentityInv, NEW r \in Requests, Sign(r)
    PROVE  IdentityInv' /\ request'[r].pc = "sent"
  <1> DEFINE q == [pc |-> "sent", at |-> now, claims |-> Signed(now)]
  <1>1. /\ request[r].pc = "known" /\ request' = [request EXCEPT ![r] = q] /\ holder' = holder
        /\ UNCHANGED <<now, providerVars, metadata, cacheVars>>
    BY DEF Sign
  <1>2. q.pc = "sent" /\ q.at = now /\ q.claims = Signed(now)
    OBVIOUS
  <1> HIDE DEF q
  <1>3. Typed /\ CacheInv /\ now \in Nat /\ MutexInv(r)
    BY DEF IdentityInv, Typed, RequestInv
  <1>4. /\ request' = [s \in Requests |-> request'[s]]
        /\ request'[r] = q
        /\ \A s \in Requests \ {r} : request'[s] = request[s]
    BY <1>1, <1>3, RequestSet
  <1>5. RequestInv(r)'
    <2>1. LookupInv(r)'
      BY <1>2, <1>4 DEF LookupInv, Lookup
    <2>2. MutexInv(r)'
      BY <1>1, <1>2, <1>3, <1>4 DEF MutexInv, Fetching
    <2>3. SentInv(r)'
      BY <1>1, <1>2, <1>3, <1>4 DEF SentInv
    <2> QED
      BY <2>1, <2>2, <2>3 DEF RequestInv
  <1>6. \A s \in Requests : RequestInv(s)'
    BY <1>1, <1>4, <1>5, OthersKept
  <1>7. Typed'
    BY <1>1, <1>3, <1>4 DEF Typed, providerVars, cacheVars
  <1>8. CacheInv'
    BY <1>1, <1>3, CacheKept
  <1> QED
    BY <1>2, <1>4, <1>6, <1>7, <1>8 DEF IdentityInv

LEMMA NodeVerifiesStep ==
    ASSUME IdentityInv, NEW r \in Requests, NEW drift \in Drifts, NodeVerifies(r, drift)
    PROVE  /\ IdentityInv'
           /\ request'[r].drift = drift /\ now' = now
           /\ request'[r].pc = IF validateClaims(request[r].claims, now + drift)
                                  THEN "accepted" ELSE "rejected"
  <1> DEFINE pc == IF validateClaims(request[r].claims, now + drift)
                      THEN "accepted" ELSE "rejected"
             q == [pc |-> pc, drift |-> drift]
  <1>1. /\ request[r].pc = "sent" /\ request' = [request EXCEPT ![r] = q] /\ holder' = holder
        /\ UNCHANGED <<now, providerVars, metadata, cacheVars>>
    BY DEF NodeVerifies
  <1>2. q.pc = pc /\ q.drift = drift /\ pc \in {"accepted", "rejected"}
    OBVIOUS
  <1> HIDE DEF q
  <1>3. q.pc \notin Lookup \union {"sent"} /\ request[r].pc \notin Fetching
    BY <1>1, <1>2 DEF Lookup, Fetching
  <1>4. request'[r] = q
    BY <1>1, RequestSet DEF IdentityInv
  <1> QED
    BY <1>1, <1>2, <1>3, <1>4, PlainStep

LEMMA RespondStep ==
    ASSUME IdentityInv, NEW r \in Requests, Respond(r)
    PROVE  IdentityInv' /\ request'[r].pc = "idle"
  <1>1. /\ request[r].pc \in Final /\ request' = [request EXCEPT ![r] = Idle] /\ holder' = holder
        /\ UNCHANGED <<now, providerVars, metadata, cacheVars>>
    BY DEF Respond
  <1>2. Idle.pc = "idle"
    BY DEF Idle
  <1>3. Idle.pc \notin Lookup \union {"sent"} /\ request[r].pc \notin Fetching
    BY <1>1, <1>2 DEF Lookup, Fetching, Final
  <1>4. request'[r] = Idle
    BY <1>1, RequestSet DEF IdentityInv
  <1> QED
    BY <1>1, <1>2, <1>3, <1>4, PlainStep

\* The remaining steps change nothing the invariant is about.
LEMMA QuietStep ==
    ASSUME IdentityInv, UNCHANGED <<now, providerVars, cacheVars, holder, request>>,
           metadata' \in {"none", "found", "refused"}
    PROVE  IdentityInv'
  <1>1. /\ now' = now /\ published' = published /\ withdrawn' = withdrawn /\ keys' = keys
        /\ expiresAt' = expiresAt /\ loaded' = loaded /\ holder' = holder /\ request' = request
    BY DEF providerVars, cacheVars
  <1>2. Typed'
    BY <1>1 DEF IdentityInv, Typed
  <1>3. CacheInv'
    BY <1>1 DEF IdentityInv, CacheInv, HadSince
  <1>4. \A r \in Requests : RequestInv(r)'
    BY <1>1 DEF IdentityInv, RequestInv, LookupInv, MutexInv, SentInv, HadSince
  <1> QED
    BY <1>2, <1>3, <1>4 DEF IdentityInv

LEMMA IdentityKept ==
    ASSUME IdentityInv, [Next]_vars
    PROVE  IdentityInv'
  <1>1. CASE Tick
    BY <1>1, TickStep
  <1>2. CASE DiscoverProvider
    BY <1>2, QuietStep DEF DiscoverProvider
  <1>3. ASSUME NEW k \in Keys, PublishKey(k) \/ WithdrawKey(k)
        PROVE  IdentityInv'
    BY <1>3, PublishStep, WithdrawStep
  <1>4. ASSUME NEW r \in Requests, NEW token \in Tokens[r], Verify(r, token)
        PROVE  IdentityInv'
    BY <1>4, VerifyStep
  <1>5. ASSUME NEW r \in Requests, Locks(r) \/ Respond(r)
        PROVE  IdentityInv'
    BY <1>5, FoundCachedStep, FetchStep, RespondStep DEF Locks
  <1>6. ASSUME NEW r \in Requests, Step(r)
        PROVE  IdentityInv'
    BY <1>6, ServeStep, ReceiveStep, FetchFailsStep, AuthenticatedStep, SignStep,
       NodeVerifiesStep DEF Step
  <1>7. CASE UNCHANGED vars
    <2>1. metadata \in {"none", "found", "refused"}
      BY DEF IdentityInv, Typed
    <2> QED
      BY <1>7, <2>1, QuietStep DEF vars
  <1> QED
    BY <1>1, <1>2, <1>3, <1>4, <1>5, <1>6, <1>7 DEF Next

-----------------------------------------------------------------------------
(* The theorems.                                                           *)

\* For every set of keys, tokens and requests: the cache of PublicKey is what its
\* last fetch that succeeded brought and lives from the start of that fetch, and
\* the mutex is held by the one request that fetches.
THEOREM IdentityInvariant == Spec => []IdentityInv
  BY IdentityStarts, IdentityKept, PTL DEF Spec

\* Which request can come to a pc, and by which step.
LEMMA Comers ==
    ASSUME IdentityInv, Next, NEW pc \in {"claims", "missing", "unfetched", "accepted", "rejected"},
           NEW r \in Come(pc)
    PROVE  /\ r \in Requests
           /\ \/ FoundCached(r) /\ pc = "claims"
              \/ Receive(r) /\ pc \in {"claims", "missing"}
              \/ FetchFails(r) /\ pc = "unfetched"
              \/ \E drift \in Drifts : NodeVerifies(r, drift) /\ pc \in {"accepted", "rejected"}
  <1>1. r \in Requests /\ request'[r].pc = pc /\ request[r].pc # pc
    BY DEF Come
  <1>2. ~ UNCHANGED request
    BY <1>1
  <1>3. ~ Tick /\ ~ DiscoverProvider /\ ~ \E k \in Keys : PublishKey(k)
    BY <1>2 DEF Tick, DiscoverProvider, PublishKey
  <1>4. ~ \E k \in Keys : WithdrawKey(k)
    BY <1>1, WithdrawStep
  <1>5. DOMAIN request = Requests
    BY DEF IdentityInv, Typed
  <1>6. ASSUME NEW s \in Requests, NEW q, request' = [request EXCEPT ![s] = q]
        PROVE  s = r /\ q.pc = pc
    BY <1>1, <1>5, <1>6
  <1>7. ASSUME NEW s \in Requests, NEW token \in Tokens[s], Verify(s, token)
        PROVE  FALSE
    <2> DEFINE q == [pc |-> "key", token |-> token, started |-> 0, document |-> {},
                     steady |-> token.key \in published, covered |-> FALSE]
    <2>1. request' = [request EXCEPT ![s] = q] /\ q.pc = "key"
      BY <1>7 DEF Verify
    <2> HIDE DEF q
    <2> QED
      BY <1>6, <2>1
  <1>8. ASSUME NEW s \in Requests, Fetch(s) \/ Serve(s)
        PROVE  FALSE
    <2>1. s = r
      BY <1>1, <1>5, <1>8 DEF Fetch, Serve
    <2>2. request[r].pc \in Lookup
      BY <1>8, <2>1 DEF Fetch, Serve, Lookup
    <2>3. request[r] \in Lookups(r)
      BY <1>1, <2>2 DEF IdentityInv, RequestInv, LookupInv
    <2>4. request'[r].pc \in {"fetching", "served"}
      BY <1>1, <1>5, <1>8, <2>1, <2>3 DEF Fetch, Serve, Lookups
    <2> QED
      BY <1>1, <2>4
  <1>9. ASSUME NEW s \in Requests, Authenticated(s) \/ Sign(s) \/ Respond(s)
        PROVE  FALSE
    <2>1. s = r
      BY <1>1, <1>5, <1>9 DEF Authenticated, Sign, Respond
    <2>2. request'[s].pc \in {"known", "expired", "sent", "idle"}
      BY <1>9, AuthenticatedStep, SignStep, RespondStep
    <2> QED
      BY <1>1, <2>1, <2>2
  <1>10. ASSUME NEW s \in Requests, NEW to, Unlock(s, to)
         PROVE  s = r /\ to = pc
    <2>1. PICK q : q.pc = to /\ request' = [request EXCEPT ![s] = q]
      BY <1>10, UnlockSets
    <2> QED
      BY <1>6, <2>1
  <1>11. ASSUME NEW s \in Requests, FoundCached(s)
         PROVE  s = r /\ pc = "claims"
    <2>1. Unlock(s, "claims")
      BY <1>11 DEF FoundCached
    <2> QED
      BY <1>10, <2>1
  <1>12. ASSUME NEW s \in Requests, Receive(s)
         PROVE  s = r /\ pc \in {"claims", "missing"}
    <2>1. PICK to \in {"claims", "missing"} : Unlock(s, to)
      BY <1>12 DEF Receive
    <2> QED
      BY <1>10, <2>1
  <1>13. ASSUME NEW s \in Requests, FetchFails(s)
         PROVE  s = r /\ pc = "unfetched"
    <2>1. Unlock(s, "unfetched")
      BY <1>13 DEF FetchFails
    <2> QED
      BY <1>10, <2>1
  <1>14. ASSUME NEW s \in Requests, NEW drift \in Drifts, NodeVerifies(s, drift)
         PROVE  s = r /\ pc \in {"accepted", "rejected"}
    <2>1. s = r
      BY <1>1, <1>5, <1>14 DEF NodeVerifies
    <2>2. request'[s].pc \in {"accepted", "rejected"}
      BY <1>14, NodeVerifiesStep
    <2> QED
      BY <1>1, <2>1, <2>2
  <1> QED
    BY <1>1, <1>3, <1>4, <1>7, <1>8, <1>9, <1>11, <1>12, <1>13, <1>14 DEF Next, Locks, Step

\* A key is used for less than the life of the cache after it was withdrawn.
THEOREM FreshKeys == Spec => KeysAreFresh
  <1> DEFINE Fresh(r) == LET key == request[r].token.key
                         IN  key \in published \/ now - withdrawn[key] < CacheTTL
  <1>1. IdentityInv /\ [Next]_vars => [\A r \in Come("claims") : Fresh(r)]_vars
    <2> SUFFICES ASSUME IdentityInv, Next, NEW r \in Come("claims")
                 PROVE  Fresh(r)
      OBVIOUS
    <2>1. r \in Requests /\ (FoundCached(r) \/ Receive(r))
      BY Comers
    <2>2. Typed /\ CacheInv /\ now \in Nat /\ CacheTTL \in Nat
      BY Constants DEF IdentityInv, Typed
    <2>3. ASSUME NEW key \in Keys, NEW time \in Nat, HadSince(key, time), now < time + CacheTTL
          PROVE  key \in published \/ now - withdrawn[key] < CacheTTL
      BY <2>2, <2>3 DEF HadSince
    <2>4. CASE FoundCached(r)
      <3>1. now < expiresAt /\ request[r].token.key \in keys
        BY <2>4 DEF FoundCached, Cached
      <3>2. /\ expiresAt = loaded.start + CacheTTL /\ loaded.start \in Nat
            /\ HadSince(request[r].token.key, loaded.start) /\ request[r].token.key \in Keys
        BY <2>2, <3>1 DEF CacheInv, Typed
      <3> QED
        BY <2>3, <3>1, <3>2
    <2>5. CASE Receive(r)
      <3>1. request[r].pc = "served" /\ keys' = Usable(request[r].document)
        BY <2>5 DEF Receive
      <3>2. request[r].token.key \in keys'
        <4>1. PICK to : Unlock(r, to) /\ to = IF request[r].token.key \in keys' THEN "claims" ELSE "missing"
          BY <2>5 DEF Receive
        <4>2. PICK q : q.pc = to /\ request' = [request EXCEPT ![r] = q]
          BY <2>1, <4>1, UnlockSets
        <4>3. request'[r] = q
          BY <2>1, <2>2, <4>2, RequestSet
        <4>4. to = "claims"
          BY <4>2, <4>3 DEF Come
        <4> QED
          BY <4>1, <4>4
      <3>3. /\ request[r].token.key \in Keys /\ request[r].started \in Nat
            /\ HadSince(request[r].token.key, request[r].started)
            /\ now < request[r].started + CacheTTL
        BY <2>1, <3>1, <3>2, ServedIs
      <3> QED
        BY <2>3, <3>3
    <2> QED
      BY <2>1, <2>4, <2>5
  <1> QED
    BY <1>1, IdentityInvariant, PTL DEF Spec, KeysAreFresh

\* A request is refused for its key only for a cause.
THEOREM CauseOfRefusal == Spec => RefusedForACause
  <1>1. IdentityInv /\ [Next]_vars =>
           [/\ \A r \in Come("missing") : ~request[r].steady
            /\ \A r \in Come("unfetched") : ~request[r].covered]_vars
    <2> SUFFICES ASSUME IdentityInv, Next
                 PROVE  /\ \A r \in Come("missing") : ~request[r].steady
                        /\ \A r \in Come("unfetched") : ~request[r].covered
      OBVIOUS
    <2>1. ASSUME NEW r \in Come("missing")
          PROVE  ~ request[r].steady
      <3>1. r \in Requests /\ Receive(r)
        BY Comers
      <3>2. request[r].pc = "served" /\ keys' = Usable(request[r].document)
        BY <3>1 DEF Receive
      <3>3. request[r].token.key \notin keys'
        <4>1. PICK to : Unlock(r, to) /\ to = IF request[r].token.key \in keys' THEN "claims" ELSE "missing"
          BY <3>1 DEF Receive
        <4>2. PICK q : q.pc = to /\ request' = [request EXCEPT ![r] = q]
          BY <3>1, <4>1, UnlockSets
        <4>3. request'[r] = q
          BY <3>1, <4>2, RequestSet DEF IdentityInv
        <4>4. to = "missing"
          BY <4>2, <4>3 DEF Come
        <4> QED
          BY <4>1, <4>4
      <3> QED
        BY <3>1, <3>2, <3>3, ServedIs
    <2>2. ASSUME NEW r \in Come("unfetched")
          PROVE  ~ request[r].covered
      <3>1. r \in Requests /\ FetchFails(r)
        BY Comers
      <3>2. request[r].pc \in Fetching
        BY <3>1 DEF FetchFails, Fetching
      <3> QED
        BY <3>1, <3>2 DEF IdentityInv, RequestInv, LookupInv, Lookup, Fetching
    <2> QED
      BY <2>1, <2>2
  <1> QED
    BY <1>1, IdentityInvariant, PTL DEF Spec, RefusedForACause

\* How long a token that was signed at a time is good on another clock.
LEMMA LifeOfToken ==
    ASSUME NEW at \in Nat, NEW time \in Nat, at =< time, NEW drift \in Int
    PROVE  /\ validateClaims(Signed(at), time + drift) => time < at + Lifetime + Skew - drift
           /\ ~ validateClaims(Signed(at), time + drift) =>
                 drift \notin (-Skew)..Skew \/ time > at + Lifetime - TicksPerSecond
  <1> DEFINE exp == Seconds(at + Lifetime)
             nbf == Seconds(at)
  <1>1. /\ Signed(at).addressed = TRUE /\ Signed(at).exp = exp /\ Signed(at).nbf = nbf
    BY DEF Signed
  <1>2. at + Lifetime \in Nat /\ Skew \in Nat /\ Lifetime \in Nat /\ TicksPerSecond \in Nat
    BY Constants
  <1>3. /\ Ticks(exp) \in Nat /\ Ticks(exp) =< at + Lifetime
        /\ at + Lifetime < Ticks(exp) + TicksPerSecond
        /\ exp = 0 => at + Lifetime < TicksPerSecond
    BY <1>2, WholeSeconds
  <1>4. Ticks(nbf) \in Nat /\ Ticks(nbf) =< at
    BY WholeSeconds
  <1> HIDE DEF exp, nbf
  <1>5. validateClaims(Signed(at), time + drift) <=>
           /\ exp # 0 /\ time + drift < Ticks(exp) + Skew
           /\ nbf # 0 => time + drift + Skew >= Ticks(nbf)
    BY <1>1 DEF validateClaims
  <1>6. ASSUME time + drift < Ticks(exp) + Skew
        PROVE  time < at + Lifetime + Skew - drift
    BY <1>2, <1>3, <1>6
  <1>7. ASSUME drift \in (-Skew)..Skew, exp = 0
        PROVE  time > at + Lifetime - TicksPerSecond
    BY <1>2, <1>3, <1>7
  <1>8. ASSUME drift \in (-Skew)..Skew, ~ (time + drift < Ticks(exp) + Skew)
        PROVE  time > at + Lifetime - TicksPerSecond
    BY <1>2, <1>3, <1>8
  <1>9. ASSUME drift \in (-Skew)..Skew
        PROVE  time + drift + Skew >= Ticks(nbf)
    BY <1>2, <1>4, <1>9
  <1> QED
    BY <1>5, <1>6, <1>7, <1>8, <1>9

\* A token lives on a node as it was signed to, for every drift of the clocks.
THEOREM TokensLive == Spec => TokenLivesAsSigned
  <1>1. IdentityInv /\ [Next]_vars =>
           [/\ \A r \in Come("accepted") :
                 now < request[r].at + Lifetime + Skew - request'[r].drift
            /\ \A r \in Come("rejected") :
                 \/ request'[r].drift \notin (-Skew)..Skew
                 \/ now > request[r].at + Lifetime - TicksPerSecond]_vars
    <2> SUFFICES ASSUME IdentityInv, Next
                 PROVE  /\ \A r \in Come("accepted") :
                              now < request[r].at + Lifetime + Skew - request'[r].drift
                        /\ \A r \in Come("rejected") :
                              \/ request'[r].drift \notin (-Skew)..Skew
                              \/ now > request[r].at + Lifetime - TicksPerSecond
      OBVIOUS
    <2>1. ASSUME NEW pc \in {"accepted", "rejected"}, NEW r \in Come(pc)
          PROVE  /\ now \in Nat /\ request[r].at \in Nat /\ request[r].at =< now
                 /\ request[r].claims = Signed(request[r].at)
                 /\ request'[r].drift \in Int
                 /\ pc = "accepted" <=>
                       validateClaims(request[r].claims, now + request'[r].drift)
      <3>1. PICK drift \in Drifts : r \in Requests /\ NodeVerifies(r, drift)
        BY <2>1, Comers
      <3>2. /\ request'[r].drift = drift /\ drift \in Int
            /\ request'[r].pc = IF validateClaims(request[r].claims, now + drift)
                                   THEN "accepted" ELSE "rejected"
        BY <3>1, NodeVerifiesStep, Constants
      <3>3. request'[r].pc = pc
        BY DEF Come
      <3>4. /\ request[r].at \in Nat /\ request[r].at =< now
            /\ request[r].claims = Signed(request[r].at) /\ now \in Nat
        BY <3>1 DEF NodeVerifies, IdentityInv, RequestInv, SentInv, Typed
      <3> QED
        BY <2>1, <3>2, <3>3, <3>4
    <2>2. ASSUME NEW r \in Come("accepted")
          PROVE  now < request[r].at + Lifetime + Skew - request'[r].drift
      BY <2>1, LifeOfToken
    <2>3. ASSUME NEW r \in Come("rejected")
          PROVE  \/ request'[r].drift \notin (-Skew)..Skew
                 \/ now > request[r].at + Lifetime - TicksPerSecond
      BY <2>1, LifeOfToken
    <2> QED
      BY <2>2, <2>3
  <1> QED
    BY <1>1, IdentityInvariant, PTL DEF Spec, TokenLivesAsSigned

=============================================================================
