------------------------- MODULE NodeRegistryProofs -------------------------
(***************************************************************************)
(* Proofs about module NodeRegistry, for any processes, node IDs, times    *)
(* and number of late requests: a change of the list shows in its revision *)
(* and a lease outlives the heartbeats that its time to live has room for. *)
(***************************************************************************)
EXTENDS NodeRegistry, TLAPS, FiniteSetTheorems, NaturalsInduction, WellFoundedInduction

-----------------------------------------------------------------------------
(* The inductive invariant.                                                *)

Calls == {"register", "heartbeat", "deregister"}
Leases == LeaseIds \union {None}
Entry == [lease : LeaseIds, left : Int]
Replies == [code : {"none", "ok", "NotFound", "PermissionDenied", "refused"}, lease : Leases]
Clients == [pc : Calls \union {"down", "waiting"}, lease : Leases, age : 0..Timeout,
            due : 0..Interval, fired : BOOLEAN, misses : 0..(Tolerated + 1), reply : Replies]
Messages == [kind : Calls, proc : Processes, lease : Leases, lag : -1..MaxStall, late : BOOLEAN]

Typed ==
    /\ DOMAIN nodes \subseteq NodeIds
    /\ \A id \in DOMAIN nodes : nodes[id] \in Entry
    /\ revision \in 0..(RevisionLimit - 1)
    /\ client \in [Processes -> Clients]
    /\ requests \subseteq Messages
    /\ valid \subseteq LeaseIds

\* There are no more late requests than MaxLate.
LateOf(messages) == {r \in messages : r.late}
Few(messages) == IsFiniteSet(messages) /\ Cardinality(LateOf(messages)) =< MaxLate

\* A request that somebody waits for is that of the call the process is in, read the
\* clock after the call began, and is the only one.
Awaits(r) ==
    ~ r.late =>
        LET c == client[r.proc]
        IN  /\ c.pc = r.kind /\ c.lease = r.lease /\ c.reply = NoReply
            /\ r.lag =< c.age
            /\ \A s \in requests : ~ s.late /\ s.proc = r.proc => s = r

\* A call began after the last tick unless another one has come since; a process
\* registers only without a lease.
Shape(c) ==
    /\ c.pc # "down" => c.due >= 1
    /\ c.pc \in Calls /\ ~ c.fired => c.age + c.due =< Interval
    /\ c.pc = "register" => c.lease = None
    /\ c.reply.code # "ok" => c.reply.lease = None
    /\ c.pc \in {"waiting", "down"} => c.reply = NoReply

\* The time from the last call that renewed a lease to the heartbeat after m misses.
Rounds(m) == (m + 1) * Interval

\* No more time than this has passed since the call that renewed the lease began.
Spent(c) ==
    IF c.pc = "waiting"
    THEN Rounds(c.misses) - (IF c.fired THEN 0 ELSE c.due)
    ELSE IF c.reply.code = "ok" THEN c.age ELSE Rounds(c.misses) + c.age

\* The lease that a process has, or has been given by an answer on its way.
Held(c) == IF c.pc = "register" /\ c.reply.code = "ok" THEN c.reply.lease ELSE c.lease

\* The process may count on its lease, ...
Relies(c) ==
    /\ c.pc \in {"register", "heartbeat", "waiting"}
    /\ Held(c) \in valid
    /\ c.misses =< Tolerated \/ c.reply.code = "ok"
    /\ Spent(c) + MaxStall < TTL

\* ... and the registry has it.  A renewal by a handler that stalled may be MaxStall
\* older than one that was done before.
Backs(id, c) ==
    /\ id \in DOMAIN nodes
    /\ nodes[id].lease = Held(c)
    /\ nodes[id].left + MaxStall + Spent(c) >= TTL

RegistryInv ==
    /\ Typed
    /\ Few(requests)
    /\ \A r \in requests : Awaits(r)
    /\ \A p \in Processes : Shape(client[p]) /\ (Relies(client[p]) => Backs(Node(p), client[p]))

-----------------------------------------------------------------------------
(* Numbers and sets.                                                       *)

LEMMA Constants ==
    /\ TTL \in Nat /\ Interval \in Nat /\ Timeout \in Nat /\ RevisionLimit \in Nat
    /\ MaxStall \in Nat /\ MaxLate \in Nat /\ Tolerated \in Nat
    /\ Interval > 0 /\ Timeout > 0 /\ RevisionLimit > 0
    /\ Timeout < Interval /\ Interval < TTL
    /\ LeaseIds \subseteq Nat /\ None \notin LeaseIds /\ None \in Leases
    /\ LeaseIds \subseteq Leases
  BY RegistryAssumption DEF None, Leases

\* Every further miss takes an interval.
LEMMA RoundsGrow ==
    /\ Rounds(0) = Interval
    /\ \A m \in Nat : /\ Rounds(m) \in Nat /\ Rounds(m) >= Interval
                      /\ Rounds(m + 1) = Rounds(m) + Interval
    /\ \A m, n \in Nat : m =< n => Rounds(m) =< Rounds(n)
<1>0. Interval \in Nat
  BY Constants
<1> DEFINE I == Interval
<1>1. I \in Nat
  BY <1>0
<1> HIDE DEF I
<1>2. \A m \in Nat : (m + 1) * I \in Nat /\ (m + 1) * I >= I /\ ((m + 1) + 1) * I = (m + 1) * I + I
  <2> TAKE m \in Nat
  <2>1. (m + 1) * I = m * I + I /\ ((m + 1) + 1) * I = m * I + I + I
    BY <1>1
  <2>2. m * I \in Nat
    BY <1>1
  <2> QED
    BY <1>1, <2>1, <2>2
<1>3. \A m, n \in Nat : m =< n => (m + 1) * I =< (n + 1) * I
  <2> TAKE m, n \in Nat
  <2>1. SUFFICES ASSUME m =< n PROVE (m + 1) * I =< (n + 1) * I
    OBVIOUS
  <2>2. PICK k \in Nat : n = m + k
    <3>1. n - m \in Nat /\ n = m + (n - m)
      BY <2>1
    <3> QED
      BY <3>1
  <2>3. (n + 1) * I = (m + 1) * I + k * I
    BY <1>1, <2>2
  <2>4. k * I \in Nat /\ (m + 1) * I \in Nat
    BY <1>1
  <2> QED
    BY <2>3, <2>4
<1>4. (0 + 1) * I = I
  BY <1>1
<1> QED
  BY <1>2, <1>3, <1>4 DEF Rounds, I

\* The values of a function on a finite set are no more than its arguments.
LEMMA Values ==
    ASSUME NEW S, IsFiniteSet(S), NEW f
    PROVE  /\ IsFiniteSet({f[x] : x \in S})
           /\ Cardinality({f[x] : x \in S}) =< Cardinality(S)
<1> DEFINE T == {f[x] : x \in S}
           g == [x \in S |-> f[x]]
<1>1. g \in Surjection(S, T)
  BY DEF Surjection
<1> QED
  BY <1>1, FS_Surjection

LEMMA LeastNatural ==
    ASSUME NEW T, T \subseteq Nat, T # {}
    PROVE  \E x \in T : \A y \in T : x =< y
<1>1. PICK x \in T : \A y \in T : ~ (<<y, x>> \in OpToRel(<, Nat))
  BY WFMin, NatLessThanWellFounded
<1>2. \A y \in T : ~ (y < x)
  BY <1>1 DEF OpToRel
<1>3. ASSUME NEW y \in T PROVE x =< y
  <2>1. x \in Nat /\ y \in Nat
    OBVIOUS
  <2> QED
    BY <1>2, <2>1
<1> QED
  BY <1>3

LEMMA UnionBound ==
    ASSUME NEW S, NEW T, IsFiniteSet(S), IsFiniteSet(T)
    PROVE  /\ IsFiniteSet(S \union T)
           /\ Cardinality(S \union T) =< Cardinality(S) + Cardinality(T)
           /\ Cardinality(S) \in Nat /\ Cardinality(T) \in Nat /\ Cardinality(S \union T) \in Nat
<1>1. /\ IsFiniteSet(S \union T) /\ IsFiniteSet(S \intersect T)
      /\ Cardinality(S \union T) = Cardinality(S) + Cardinality(T) - Cardinality(S \intersect T)
  BY FS_Union, FS_Intersection
<1>2. /\ Cardinality(S) \in Nat /\ Cardinality(T) \in Nat /\ Cardinality(S \union T) \in Nat
      /\ Cardinality(S \intersect T) \in Nat
  BY <1>1, FS_CardinalityType
<1> QED
  BY <1>1, <1>2

LEMMA FiniteNodes == IsFiniteSet(NodeIds) /\ Cardinality(NodeIds) \in Nat
<1> DEFINE f == [p \in Processes |-> Node(p)]
<1>1. NodeIds = {f[p] : p \in Processes}
  BY DEF NodeIds
<1>2. IsFiniteSet({f[p] : p \in Processes})
  BY Values, RegistryAssumption
<1> QED
  BY <1>1, <1>2, FS_CardinalityType

\* There is always a lease ID that nothing refers to.
LEMMA LeaseLeft ==
    ASSUME RegistryInv
    PROVE  FreshLease \in LeaseIds /\ FreshLease \notin UsedLeases
<1> DEFINE fA == [id \in DOMAIN nodes |-> nodes[id].lease]
           A == {fA[id] : id \in DOMAIN nodes}
           fB == [p \in Processes |-> client[p].lease]
           B == {fB[p] : p \in Processes}
           late == LateOf(requests)
           fC == [r \in late |-> r.lease]
           C == {fC[r] : r \in late}
           answered == {q \in Processes : client[q].reply.code = "ok"}
           fD == [p \in answered |-> client[p].reply.lease]
           D == {fD[p] : p \in answered}
<1>1. DOMAIN nodes \subseteq NodeIds /\ requests \subseteq Messages
  BY DEF RegistryInv, Typed
<1>2. IsFiniteSet(DOMAIN nodes) /\ Cardinality(DOMAIN nodes) =< Cardinality(NodeIds)
      /\ Cardinality(DOMAIN nodes) \in Nat
  BY <1>1, FiniteNodes, FS_Subset, FS_CardinalityType
<1>3. IsFiniteSet(A) /\ Cardinality(A) =< Cardinality(DOMAIN nodes)
  BY <1>2, Values
<1>4. IsFiniteSet(B) /\ Cardinality(B) =< Cardinality(Processes)
  BY RegistryAssumption, Values
<1>5. IsFiniteSet(late) /\ Cardinality(late) =< MaxLate /\ Cardinality(late) \in Nat
  <2>1. late \subseteq requests /\ IsFiniteSet(requests)
    BY DEF RegistryInv, Few, LateOf
  <2> QED
    BY <2>1, FS_Subset, FS_CardinalityType DEF RegistryInv, Few
<1>6. IsFiniteSet(C) /\ Cardinality(C) =< Cardinality(late)
  BY <1>5, Values
<1>7. IsFiniteSet(answered) /\ Cardinality(answered) =< Cardinality(Processes)
      /\ Cardinality(Processes) \in Nat /\ Cardinality(answered) \in Nat
  BY RegistryAssumption, FS_Subset, FS_CardinalityType
<1>8. IsFiniteSet(D) /\ Cardinality(D) =< Cardinality(answered)
  BY <1>7, Values
<1>9. UsedLeases \subseteq ((A \union B) \union C) \union D
  <2>1. {nodes[id].lease : id \in DOMAIN nodes} = A /\ {client[p].lease : p \in Processes} = B
    OBVIOUS
  <2>2. {client[p].reply.lease : p \in answered} = D
    OBVIOUS
  <2>3. \A r \in requests : r.lease \in B \union C
    <3> TAKE r \in requests
    <3>1. CASE r.late
      <4>1. r \in late /\ fC[r] = r.lease
        BY <3>1 DEF LateOf
      <4> QED
        BY <4>1
    <3>2. CASE ~ r.late
      <4>1. r.proc \in Processes /\ client[r.proc].lease = r.lease
        BY <1>1, <3>2 DEF RegistryInv, Awaits, Messages
      <4>2. fB[r.proc] = r.lease
        BY <4>1
      <4> QED
        BY <4>1, <4>2
    <3> QED
      BY <3>1, <3>2
  <2> HIDE DEF A, B, C, D
  <2> QED
    BY <2>1, <2>2, <2>3 DEF UsedLeases
<1> HIDE DEF A, B, C, D, late, answered
<1>10. IsFiniteSet(A \union B) /\ Cardinality(A \union B) =< Cardinality(A) + Cardinality(B)
       /\ Cardinality(A \union B) \in Nat /\ Cardinality(A) \in Nat /\ Cardinality(B) \in Nat
  BY <1>3, <1>4, UnionBound
<1>11. /\ IsFiniteSet((A \union B) \union C)
       /\ Cardinality((A \union B) \union C) =< Cardinality(A \union B) + Cardinality(C)
       /\ Cardinality((A \union B) \union C) \in Nat /\ Cardinality(C) \in Nat
  BY <1>6, <1>10, UnionBound
<1>12. /\ IsFiniteSet(((A \union B) \union C) \union D)
       /\ Cardinality(((A \union B) \union C) \union D) =< Cardinality((A \union B) \union C) + Cardinality(D)
       /\ Cardinality(((A \union B) \union C) \union D) \in Nat /\ Cardinality(D) \in Nat
  BY <1>8, <1>11, UnionBound
<1> DEFINE all == ((A \union B) \union C) \union D
<1>13. IsFiniteSet(all) /\ Cardinality(all) < Cardinality(LeaseIds) /\ Cardinality(LeaseIds) \in Nat
       /\ Cardinality(all) \in Nat
  <2>1. /\ Cardinality(LeaseIds) > Cardinality(NodeIds) + 2 * Cardinality(Processes) + MaxLate
        /\ Cardinality(LeaseIds) \in Nat
    BY RegistryAssumption, FS_CardinalityType
  <2>2. MaxLate \in Nat /\ Cardinality(NodeIds) \in Nat
    BY Constants, FiniteNodes
  <2> QED
    BY <1>2, <1>3, <1>4, <1>5, <1>6, <1>7, <1>8, <1>10, <1>11, <1>12, <2>1, <2>2
<1>14. LeaseIds \ UsedLeases # {}
  <2>1. SUFFICES ASSUME LeaseIds \subseteq all PROVE FALSE
    BY <1>9
  <2> HIDE DEF all
  <2>2. Cardinality(LeaseIds) =< Cardinality(all)
    BY <1>13, <2>1, FS_Subset
  <2> QED
    BY <1>13, <2>2
<1>15. \E x \in LeaseIds \ UsedLeases : \A y \in LeaseIds \ UsedLeases : x =< y
  BY <1>14, Constants, LeastNatural
<1> QED
  BY <1>15 DEF FreshLease, Min

-----------------------------------------------------------------------------
(* What a process does.                                                    *)

LEMMA OneIsAwaited ==
    ASSUME RegistryInv, NEW p \in Processes, NEW r \in Awaited(p), NEW s \in Awaited(p)
    PROVE  r = s
  BY DEF RegistryInv, Awaits, Awaited

\* What becomes of the requests of a process that gives up.
LEMMA GivenUp ==
    ASSUME RegistryInv, NEW p \in Processes, NEW X \in Abandoned(p)
    PROVE  /\ X \subseteq Messages /\ Few(X)
           /\ \A r \in X : ~ r.late => r \in requests /\ r.proc # p
<1> DEFINE left == requests \ Awaited(p)
           given == {[r EXCEPT !.late = TRUE] : r \in Awaited(p)}
<1>1. requests \subseteq Messages /\ Awaited(p) \subseteq requests /\ IsFiniteSet(requests)
      /\ Cardinality(LateOf(requests)) =< MaxLate
  BY DEF RegistryInv, Typed, Awaited, Few
<1>2. left \subseteq Messages /\ \A r \in left : ~ r.late => r \in requests /\ r.proc # p
  BY <1>1 DEF Awaited
<1>3. IsFiniteSet(left) /\ LateOf(left) \subseteq LateOf(requests) /\ IsFiniteSet(LateOf(requests))
  <2>1. left \subseteq requests /\ LateOf(left) \subseteq LateOf(requests) /\ LateOf(requests) \subseteq requests
    BY DEF LateOf
  <2> QED
    BY <1>1, <2>1, FS_Subset
<1>4. /\ Cardinality(LateOf(left)) \in Nat /\ Cardinality(LateOf(requests)) \in Nat
      /\ Cardinality(LateOf(left)) =< Cardinality(LateOf(requests)) /\ IsFiniteSet(LateOf(left))
  BY <1>3, FS_Subset, FS_CardinalityType
<1>5. CASE X = left
  <2>1. Few(left)
    BY <1>1, <1>3, <1>4, Constants DEF Few
  <2> QED
    BY <1>2, <1>5, <2>1
<1>6. CASE X = left \union given /\ Cardinality(Late) < MaxLate
  <2>1. \A r \in given : r \in Messages /\ r.late = TRUE
    BY <1>1 DEF Messages
  <2>2. IsFiniteSet(given) /\ Cardinality(given) =< 1
    <3>1. CASE Awaited(p) = {}
      <4>1. given = {}
        BY <3>1
      <4> QED
        BY <4>1, FS_EmptySet
    <3>2. CASE Awaited(p) # {}
      <4>1. PICK r \in Awaited(p) : TRUE
        BY <3>2
      <4>2. Awaited(p) = {r}
        BY <4>1, OneIsAwaited
      <4>3. PICK x : x = [r EXCEPT !.late = TRUE]
        OBVIOUS
      <4>4. given = {x}
        BY <4>2, <4>3
      <4>5. IsFiniteSet({x}) /\ Cardinality({x}) = 1
        BY FS_Singleton
      <4> QED
        BY <4>4, <4>5
    <3> QED
      BY <3>1, <3>2
  <2> HIDE DEF given, left
  <2>3. LateOf(X) \subseteq LateOf(left) \union given
    BY <1>6 DEF LateOf
  <2>4. /\ IsFiniteSet(left \union given) /\ IsFiniteSet(LateOf(left) \union given)
        /\ Cardinality(LateOf(left) \union given) =< Cardinality(LateOf(left)) + Cardinality(given)
        /\ Cardinality(given) \in Nat /\ Cardinality(LateOf(left) \union given) \in Nat
    BY <1>3, <1>4, <2>2, UnionBound
  <2>5. Cardinality(LateOf(X)) =< Cardinality(LateOf(left) \union given) /\ Cardinality(LateOf(X)) \in Nat
    BY <2>3, <2>4, FS_Subset, FS_CardinalityType
  <2>6. Cardinality(LateOf(requests)) < MaxLate
    BY <1>6 DEF Late, LateOf
  <2>7. Few(X)
    BY <1>4, <1>6, <2>2, <2>4, <2>5, <2>6, Constants DEF Few
  <2> QED
    BY <1>2, <1>6, <2>1, <2>7
<1> QED
  BY <1>5, <1>6 DEF Abandoned

\* A new call of a process without one that it waits for.
LEMMA Called ==
    ASSUME NEW p \in Processes, NEW kind \in Calls, NEW lease \in Leases,
           NEW X, X \subseteq Messages, Few(X)
    PROVE  LET new == X \union {Request(p, kind, lease)}
           IN  new \subseteq Messages /\ Few(new)
<1> DEFINE new == X \union {Request(p, kind, lease)}
<1>1. Request(p, kind, lease) \in Messages /\ Request(p, kind, lease).late = FALSE
  BY Constants DEF Request, Messages
<1>2. LateOf(new) = LateOf(X)
  BY <1>1 DEF LateOf
<1>3. IsFiniteSet(new)
  BY FS_AddElement DEF Few
<1> QED
  BY <1>1, <1>2, <1>3 DEF Few

LEMMA NoLeaseNoReliance ==
    ASSUME Typed, NEW c, Held(c) = None
    PROVE  ~ Relies(c)
  BY Constants DEF Typed, Relies

\* A step of one process, which the registry takes no part in.
LEMMA ProcessStep ==
    ASSUME RegistryInv, NEW p \in Processes, NEW c \in Clients,
           client' = [client EXCEPT ![p] = c], UNCHANGED <<nodes, revision, valid>>,
           requests' \subseteq Messages, Few(requests'),
           \A r \in requests' : ~ r.late => \/ r \in requests /\ r.proc # p
                                            \/ r = Request(p, c.pc, c.lease) /\ c.reply = NoReply,
           Shape(c), Relies(c) => Backs(Node(p), c)
    PROVE  RegistryInv'
<1>1. client' \in [Processes -> Clients] /\ client'[p] = c
      /\ \A q \in Processes : q # p => client'[q] = client[q]
  BY DEF RegistryInv, Typed
<1>2. Typed'
  BY <1>1 DEF RegistryInv, Typed
<1>3. ASSUME NEW r \in requests' PROVE Awaits(r)'
  <2>1. SUFFICES ASSUME ~ r.late
                 PROVE  LET d == client'[r.proc]
                        IN  /\ d.pc = r.kind /\ d.lease = r.lease /\ d.reply = NoReply
                            /\ r.lag =< d.age
                            /\ \A s \in requests' : ~ s.late /\ s.proc = r.proc => s = r
    BY DEF Awaits
  <2>2. CASE r \in requests /\ r.proc # p
    <3>1. r.proc \in Processes /\ client'[r.proc] = client[r.proc]
      BY <1>1, <2>2 DEF RegistryInv, Typed, Messages
    <3>2. \A s \in requests' : ~ s.late /\ s.proc = r.proc => s \in requests
      BY <2>2 DEF Request
    <3> QED
      BY <2>1, <2>2, <3>1, <3>2 DEF RegistryInv, Awaits
  <2>3. CASE r = Request(p, c.pc, c.lease) /\ c.reply = NoReply
    <3>1. r.proc = p /\ r.kind = c.pc /\ r.lease = c.lease /\ r.lag = -1
      BY <2>3 DEF Request
    <3>2. -1 =< c.age
      BY Constants DEF Clients
    <3>3. \A s \in requests' : ~ s.late /\ s.proc = p => s = r
      BY <2>3
    <3> QED
      BY <1>1, <2>3, <3>1, <3>2, <3>3
  <2> QED
    BY <2>1, <2>2, <2>3
<1>4. ASSUME NEW q \in Processes
      PROVE  Shape(client[q])' /\ (Relies(client[q])' => Backs(Node(q), client[q])')
  <2>1. PICK d : d = client'[q]
    OBVIOUS
  <2>2. Shape(d) /\ (Relies(d) => Backs(Node(q), d))
    BY <1>1, <2>1 DEF RegistryInv
  <2>3. Shape(client[q])' = Shape(d)
    BY <2>1 DEF Shape
  <2>4. Held(client[q])' = Held(d) /\ Spent(client[q])' = Spent(d)
    BY <2>1 DEF Held, Spent
  <2>5. Relies(client[q])' = Relies(d)
    BY <2>1, <2>4 DEF Relies
  <2>6. Backs(Node(q), client[q])' = Backs(Node(q), d)
    BY <2>4 DEF Backs
  <2> QED
    BY <2>2, <2>3, <2>5, <2>6
<1>5. Few(requests)' /\ \A r \in requests' : Awaits(r)'
  BY <1>3 DEF Few, LateOf
<1> QED
  BY <1>2, <1>4, <1>5 DEF RegistryInv

LEMMA ClientOf ==
    ASSUME NEW pc \in Calls \union {"down", "waiting"}, NEW lease \in Leases, NEW age \in 0..Timeout,
           NEW due \in 0..Interval, NEW fired \in BOOLEAN, NEW misses \in 0..(Tolerated + 1),
           NEW reply \in Replies
    PROVE  [pc |-> pc, lease |-> lease, age |-> age, due |-> due, fired |-> fired,
            misses |-> misses, reply |-> reply] \in Clients
  BY DEF Clients

LEMMA SpentIsTime ==
    ASSUME NEW c \in Clients
    PROVE  Spent(c) \in Int
<1>1. c.misses \in Nat /\ c.due \in Nat /\ c.age \in Nat
  BY Constants DEF Clients
<1>2. Rounds(c.misses) \in Nat
  BY <1>1, RoundsGrow
<1> QED
  BY <1>1, <1>2 DEF Spent

\* A process that counts on its lease after a step did so before, and for no longer.
LEMMA StillBacked ==
    ASSUME RegistryInv, NEW p \in Processes, NEW c \in Clients, NEW d, d = client[p],
           Relies(c) => /\ d.pc \in {"register", "heartbeat", "waiting"}
                        /\ Held(c) = Held(d)
                        /\ d.misses =< Tolerated \/ d.reply.code = "ok"
                        /\ Spent(d) =< Spent(c)
    PROVE  Relies(c) => Backs(Node(p), c)
<1>1. d \in Clients
  BY DEF RegistryInv, Typed
<1>2. Spent(c) \in Int /\ Spent(d) \in Int /\ MaxStall \in Nat /\ TTL \in Nat
  BY <1>1, SpentIsTime, Constants
<1>3. SUFFICES ASSUME Relies(c) PROVE Backs(Node(p), c)
  OBVIOUS
<1>4. Relies(d)
  BY <1>2, <1>3 DEF Relies
<1>5. Backs(Node(p), d)
  BY <1>4 DEF RegistryInv
<1>6. nodes[Node(p)].left \in Int
  BY <1>5 DEF Backs, RegistryInv, Typed, Entry
<1> QED
  BY <1>2, <1>3, <1>5, <1>6 DEF Backs

\* A process that is down.
LEMMA DownIsFine ==
    /\ Down \in Clients /\ Shape(Down) /\ ~ Relies(Down)
    /\ Down.pc = "down" /\ Down.reply = NoReply /\ Down.lease = None
  BY Constants DEF Down, Clients, Shape, Relies, NoReply, Reply, Replies, Calls

LEMMA NoReplyIsFine ==
    NoReply \in Replies /\ NoReply.code = "none" /\ NoReply.lease = None
  BY Constants DEF NoReply, Reply, Replies

\* No call of p is under way while it waits for nothing.
LEMMA NothingAwaited ==
    ASSUME RegistryInv, NEW p \in Processes,
           client[p].pc \notin Calls \/ client[p].reply # NoReply,
           NEW r \in requests, ~ r.late
    PROVE  r.proc # p
  BY DEF RegistryInv, Awaits, Typed, Messages

\* A call begins, or the process goes on waiting for its ticker.
LEMMA CallBegins ==
    ASSUME RegistryInv, NEW p \in Processes, NEW c \in Clients,
           client[p].pc \notin Calls \/ client[p].reply # NoReply,
           client' = [client EXCEPT ![p] = c], UNCHANGED <<nodes, revision, valid>>,
           \/ requests' = requests
           \/ /\ requests' = requests \union {Request(p, c.pc, c.lease)}
              /\ c.pc \in Calls /\ c.reply = NoReply,
           Shape(c), Relies(c) => Backs(Node(p), c)
    PROVE  RegistryInv'
<1>1. requests \subseteq Messages /\ Few(requests)
  BY DEF RegistryInv, Typed
<1>2. c.lease \in Leases
  BY DEF Clients
<1>3. requests' \subseteq Messages /\ Few(requests')
  <2>1. CASE requests' = requests
    BY <1>1, <2>1
  <2>2. CASE c.pc \in Calls /\ requests' = requests \union {Request(p, c.pc, c.lease)}
    BY <1>1, <1>2, <2>2, Called
  <2> QED
    BY <2>1, <2>2
<1>4. \A r \in requests' : ~ r.late => \/ r \in requests /\ r.proc # p
                                       \/ r = Request(p, c.pc, c.lease) /\ c.reply = NoReply
  BY NothingAwaited
<1> QED
  BY <1>3, <1>4, ProcessStep

\* A call ends, or the process does.
LEMMA CallEnds ==
    ASSUME RegistryInv, NEW p \in Processes, NEW c \in Clients, NEW rest \in Abandoned(p),
           client' = [client EXCEPT ![p] = c], UNCHANGED <<nodes, revision, valid>>,
           \/ requests' = rest
           \/ /\ requests' = rest \union {Request(p, c.pc, c.lease)}
              /\ c.pc \in Calls /\ c.reply = NoReply,
           Shape(c), Relies(c) => Backs(Node(p), c)
    PROVE  RegistryInv'
<1>1. rest \subseteq Messages /\ Few(rest) /\ \A r \in rest : ~ r.late => r \in requests /\ r.proc # p
  BY GivenUp
<1>2. c.lease \in Leases
  BY DEF Clients
<1>3. requests' \subseteq Messages /\ Few(requests')
  <2>1. CASE requests' = rest
    BY <1>1, <2>1
  <2>2. CASE c.pc \in Calls /\ requests' = rest \union {Request(p, c.pc, c.lease)}
    BY <1>1, <1>2, <2>2, Called
  <2> QED
    BY <2>1, <2>2
<1>4. \A r \in requests' : ~ r.late => \/ r \in requests /\ r.proc # p
                                       \/ r = Request(p, c.pc, c.lease) /\ c.reply = NoReply
  BY <1>1
<1> QED
  BY <1>3, <1>4, ProcessStep

LEMMA StartKeeps ==
    ASSUME RegistryInv, NEW p \in Processes, Start(p)
    PROVE  RegistryInv'
<1> DEFINE c0 == [[Down EXCEPT !.due = Interval] EXCEPT !.pc = "register", !.age = 0, !.reply = NoReply]
<1>1. PICK c : c = c0
  OBVIOUS
<1>2. /\ c.pc = "register" /\ c.lease = None /\ c.age = 0 /\ c.due = Interval /\ c.fired = FALSE
      /\ c.misses = 0 /\ c.reply = NoReply
  BY <1>1 DEF Down
<1>3. c \in Clients
  <2>1. c = [pc |-> "register", lease |-> None, age |-> 0, due |-> Interval, fired |-> FALSE,
             misses |-> 0, reply |-> NoReply]
    BY <1>1 DEF Down
  <2>2. /\ "register" \in Calls \union {"down", "waiting"} /\ None \in Leases /\ 0 \in 0..Timeout
        /\ Interval \in 0..Interval /\ FALSE \in BOOLEAN /\ 0 \in 0..(Tolerated + 1)
        /\ NoReply \in Replies
    BY Constants, NoReplyIsFine DEF Calls
  <2> QED
    BY <2>1, <2>2, ClientOf
<1>4. Shape(c) /\ ~ Relies(c)
  <2>1. Held(c) = None
    BY <1>2, NoReplyIsFine DEF Held
  <2>2. ~ Relies(c)
    BY <2>1, NoLeaseNoReliance DEF RegistryInv
  <2> QED
    BY <1>2, <2>2, NoReplyIsFine, Constants DEF Shape, Calls
<1>5. /\ client' = [client EXCEPT ![p] = c] /\ UNCHANGED <<nodes, revision, valid>>
      /\ requests' = requests \union {Request(p, c.pc, c.lease)}
  BY <1>1, <1>2 DEF Start, Call, Down
<1>6. client[p].pc \notin Calls /\ c.pc \in Calls
  BY <1>2 DEF Start, Calls
<1> QED
  BY <1>2, <1>3, <1>4, <1>5, <1>6, CallBegins

LEMMA TickFiresKeeps ==
    ASSUME RegistryInv, NEW p \in Processes, TickFires(p)
    PROVE  RegistryInv'
<1>0. PICK d : d = client[p]
  OBVIOUS
<1>1. d \in Clients /\ Shape(d) /\ d.pc = "waiting" /\ d.fired = TRUE
  BY <1>0 DEF RegistryInv, Typed, TickFires, Clients
<1>2. PICK kind : kind = IF d.lease = None THEN "register" ELSE "heartbeat"
  OBVIOUS
<1>3. PICK c : c = [[d EXCEPT !.fired = FALSE] EXCEPT !.pc = kind, !.age = 0, !.reply = NoReply]
  OBVIOUS
<1>4. /\ c.pc = kind /\ c.lease = d.lease /\ c.age = 0 /\ c.due = d.due /\ c.fired = FALSE
      /\ c.misses = d.misses /\ c.reply = NoReply
  BY <1>1, <1>3 DEF Clients
<1>5. kind \in Calls /\ kind \in {"register", "heartbeat"} /\ (kind = "register" => d.lease = None)
      /\ (d.lease = None => kind = "register")
  BY <1>2 DEF Calls
<1>6. c \in Clients
  <2>1. c = [pc |-> kind, lease |-> d.lease, age |-> 0, due |-> d.due, fired |-> FALSE,
             misses |-> d.misses, reply |-> NoReply]
    BY <1>1, <1>3 DEF Clients
  <2>2. /\ kind \in Calls \union {"down", "waiting"} /\ d.lease \in Leases /\ 0 \in 0..Timeout
        /\ d.due \in 0..Interval /\ FALSE \in BOOLEAN /\ d.misses \in 0..(Tolerated + 1)
        /\ NoReply \in Replies
    BY <1>1, <1>5, Constants, NoReplyIsFine DEF Clients
  <2> QED
    BY <2>1, <2>2, ClientOf
<1>7. Shape(c)
  <2>1. d.due >= 1 /\ d.due =< Interval /\ d.due \in Nat
    BY <1>1, Constants DEF Shape, Clients
  <2> QED
    BY <1>4, <1>5, <2>1, NoReplyIsFine DEF Shape, Calls
<1>8. Relies(c) => Backs(Node(p), c)
  <2>1. Held(c) = d.lease /\ Held(d) = d.lease
    BY <1>1, <1>4, NoReplyIsFine DEF Held
  <2>2. Rounds(d.misses) \in Nat
    BY <1>1, RoundsGrow, Constants DEF Clients
  <2>3. Spent(c) = Rounds(d.misses) /\ Spent(d) = Rounds(d.misses)
    BY <1>1, <1>4, <1>5, <2>2, NoReplyIsFine DEF Spent
  <2>4. Relies(c) => d.misses =< Tolerated
    BY <1>4, NoReplyIsFine DEF Relies
  <2> QED
    BY <1>0, <1>1, <1>6, <2>1, <2>2, <2>3, <2>4, StillBacked
<1>9. /\ client' = [client EXCEPT ![p] = c] /\ UNCHANGED <<nodes, revision, valid>>
      /\ requests' = requests \union {Request(p, c.pc, c.lease)}
  <2>1. [d EXCEPT !.fired = FALSE].lease = d.lease
    BY <1>1 DEF Clients
  <2> QED
    BY <1>0, <1>2, <1>3, <1>4, <2>1 DEF TickFires, Call
<1>10. client[p].pc \notin Calls
  BY <1>0, <1>1 DEF Calls
<1> QED
  BY <1>4, <1>5, <1>6, <1>7, <1>8, <1>9, <1>10, CallBegins

\* A process at the start of a call or of a wait, with its ticker as it was.
LEMMA Between ==
    ASSUME NEW d \in Clients, d.pc # "down", Shape(d), NEW kind \in Calls \union {"waiting"},
           NEW lease \in Leases, NEW misses \in 0..(Tolerated + 1),
           kind = "register" => lease = None, NEW c,
           c = [pc |-> kind, lease |-> lease, age |-> 0, due |-> d.due, fired |-> d.fired,
                misses |-> misses, reply |-> NoReply]
    PROVE  /\ c \in Clients /\ Shape(c) /\ Held(c) = lease
           /\ c.pc = kind /\ c.lease = lease /\ c.reply = NoReply /\ c.reply.code = "none"
           /\ c.misses = misses
           /\ kind = "waiting" => Spent(c) = Rounds(misses) - (IF d.fired THEN 0 ELSE d.due)
<1>1. /\ c.pc = kind /\ c.lease = lease /\ c.reply = NoReply /\ c.reply.code = "none" /\ c.age = 0
      /\ c.due = d.due /\ c.fired = d.fired /\ c.misses = misses /\ c.reply.lease = None
  BY NoReplyIsFine
<1>2. d.due \in 0..Interval /\ d.due >= 1 /\ d.fired \in BOOLEAN
  BY DEF Clients, Shape
<1>3. c \in Clients
  BY <1>2, Constants, NoReplyIsFine, ClientOf
<1>4. Shape(c)
  BY <1>1, <1>2, Constants DEF Shape
<1>5. Held(c) = lease
  BY <1>1 DEF Held
<1> QED
  BY <1>1, <1>3, <1>4, <1>5 DEF Spent

\* The part of an interval that is over at the end of a call.
LEMMA CallWithinInterval ==
    ASSUME NEW d \in Clients, d.pc \in Calls, Shape(d)
    PROVE  d.age =< Interval - (IF d.fired THEN 0 ELSE d.due)
  BY Constants DEF Clients, Shape

LEMMA ReceiveKeeps ==
    ASSUME RegistryInv, NEW p \in Processes, Receive(p)
    PROVE  RegistryInv'
<1>0. PICK d : d = client[p]
  OBVIOUS
<1>1. d \in Clients /\ Shape(d) /\ d.pc \in Calls /\ d.pc # "down" /\ d.reply # NoReply
  BY <1>0 DEF RegistryInv, Typed, Receive, Calling, Calls
<1>2. /\ d = [pc |-> d.pc, lease |-> d.lease, age |-> d.age, due |-> d.due, fired |-> d.fired,
              misses |-> d.misses, reply |-> d.reply]
      /\ d.lease \in Leases /\ d.reply.lease \in Leases /\ d.misses \in 0..(Tolerated + 1)
      /\ 0 \in 0..(Tolerated + 1) /\ d.age \in Nat /\ d.due \in Nat /\ d.misses \in Nat
      /\ None \in Leases
  BY <1>1, Constants DEF Clients, Replies
<1>3. UNCHANGED <<nodes, revision, valid>>
  BY DEF Receive
<1>4. d.age =< Interval - (IF d.fired THEN 0 ELSE d.due)
  BY <1>1, CallWithinInterval
<1>5. Rounds(0) = Interval /\ Interval \in Nat /\ Rounds(d.misses) \in Nat
  BY <1>2, RoundsGrow, Constants
<1>6. client[p].reply # NoReply
  BY <1>0, <1>1
<1>7. CASE d.pc = "register" /\ Waits(p, [d EXCEPT !.lease = d.reply.lease, !.misses = 0])
  <2>1. PICK c : c = [[d EXCEPT !.lease = d.reply.lease, !.misses = 0]
                          EXCEPT !.pc = "waiting", !.age = 0, !.reply = NoReply]
    OBVIOUS
  <2>2. c = [pc |-> "waiting", lease |-> d.reply.lease, age |-> 0, due |-> d.due, fired |-> d.fired,
             misses |-> 0, reply |-> NoReply]
    BY <1>2, <2>1
  <2>3. /\ c \in Clients /\ Shape(c) /\ Held(c) = d.reply.lease /\ c.reply.code = "none"
        /\ Spent(c) = Rounds(0) - (IF d.fired THEN 0 ELSE d.due)
    BY <1>1, <1>2, <2>2, Between
  <2>4. Relies(c) => Backs(Node(p), c)
    <3>1. CASE d.reply.code = "ok"
      <4>1. Held(d) = d.reply.lease /\ Spent(d) = d.age
        BY <1>7, <3>1 DEF Held, Spent
      <4>2. Spent(d) =< Spent(c)
        BY <1>2, <1>4, <1>5, <2>3, <4>1
      <4> QED
        BY <1>0, <1>7, <2>3, <3>1, <4>1, <4>2, StillBacked
    <3>2. CASE d.reply.code # "ok"
      <4>1. Held(c) = None
        BY <1>1, <2>3, <3>2 DEF Shape
      <4> QED
        BY <4>1, NoLeaseNoReliance DEF RegistryInv
    <3> QED
      BY <3>1, <3>2
  <2>5. client' = [client EXCEPT ![p] = c] /\ requests' = requests
    BY <1>7, <2>1 DEF Waits
  <2> QED
    BY <1>3, <1>6, <2>3, <2>4, <2>5, CallBegins
<1>8. CASE d.pc = "heartbeat" /\ d.reply.code = "ok" /\ Waits(p, [d EXCEPT !.misses = 0])
  <2>1. PICK c : c = [[d EXCEPT !.misses = 0] EXCEPT !.pc = "waiting", !.age = 0, !.reply = NoReply]
    OBVIOUS
  <2>2. c = [pc |-> "waiting", lease |-> d.lease, age |-> 0, due |-> d.due, fired |-> d.fired,
             misses |-> 0, reply |-> NoReply]
    BY <1>2, <2>1
  <2>3. /\ c \in Clients /\ Shape(c) /\ Held(c) = d.lease /\ c.reply.code = "none"
        /\ Spent(c) = Rounds(0) - (IF d.fired THEN 0 ELSE d.due)
    BY <1>1, <1>2, <2>2, Between
  <2>4. Relies(c) => Backs(Node(p), c)
    <3>1. Held(d) = d.lease /\ Spent(d) = d.age
      BY <1>8 DEF Held, Spent
    <3>2. Spent(d) =< Spent(c)
      BY <1>2, <1>4, <1>5, <2>3, <3>1
    <3> QED
      BY <1>0, <1>8, <2>3, <3>1, <3>2, StillBacked
  <2>5. client' = [client EXCEPT ![p] = c] /\ requests' = requests
    BY <1>8, <2>1 DEF Waits
  <2> QED
    BY <1>3, <1>6, <2>3, <2>4, <2>5, CallBegins
<1>9. CASE /\ d.pc = "heartbeat" /\ d.reply.code # "ok"
           /\ Call(p, [d EXCEPT !.lease = None, !.misses = 0], "register")
  <2>1. PICK c : c = [[d EXCEPT !.lease = None, !.misses = 0]
                          EXCEPT !.pc = "register", !.age = 0, !.reply = NoReply]
    OBVIOUS
  <2>2. c = [pc |-> "register", lease |-> None, age |-> 0, due |-> d.due, fired |-> d.fired,
             misses |-> 0, reply |-> NoReply]
    BY <1>2, <2>1
  <2>3. "register" \in Calls
    BY DEF Calls
  <2>4. /\ c \in Clients /\ Shape(c) /\ Held(c) = None /\ c.reply = NoReply
        /\ c.pc = "register" /\ c.lease = None
    BY <1>1, <1>2, <2>2, <2>3, Between
  <2>5. ~ Relies(c)
    BY <2>4, NoLeaseNoReliance DEF RegistryInv
  <2>6. [d EXCEPT !.lease = None, !.misses = 0].lease = None
    BY <1>2
  <2>7. client' = [client EXCEPT ![p] = c] /\ requests' = requests \union {Request(p, c.pc, c.lease)}
    BY <1>9, <2>1, <2>4, <2>6 DEF Call
  <2> QED
    BY <1>3, <1>6, <2>3, <2>4, <2>5, <2>7, CallBegins
<1>10. CASE d.pc = "deregister" /\ client' = [client EXCEPT ![p] = Down] /\ UNCHANGED requests
  BY <1>3, <1>6, <1>10, DownIsFine, CallBegins
<1> QED
  BY <1>0, <1>7, <1>8, <1>9, <1>10 DEF Receive

LEMMA CallFailsKeeps ==
    ASSUME RegistryInv, NEW p \in Processes, CallFails(p)
    PROVE  RegistryInv'
<1>0. PICK d : d = client[p]
  OBVIOUS
<1>1. d \in Clients /\ Shape(d) /\ d.pc \in Calls /\ d.pc # "down"
  BY <1>0 DEF RegistryInv, Typed, CallFails, Calling, Calls
<1>2. /\ d = [pc |-> d.pc, lease |-> d.lease, age |-> d.age, due |-> d.due, fired |-> d.fired,
              misses |-> d.misses, reply |-> d.reply]
      /\ d.lease \in Leases /\ d.misses \in 0..(Tolerated + 1)
      /\ d.age \in Nat /\ d.due \in Nat /\ d.misses \in Nat
  BY <1>1, Constants DEF Clients, Replies
<1>3. UNCHANGED <<nodes, revision, valid>> /\ requests' \in Abandoned(p)
  BY DEF CallFails
<1>4. PICK m : m = IF d.pc = "heartbeat" /\ d.misses =< Tolerated THEN d.misses + 1 ELSE d.misses
  OBVIOUS
<1>5. CASE d.pc = "deregister"
  <2>1. client' = [client EXCEPT ![p] = Down]
    BY <1>0, <1>5 DEF CallFails
  <2> QED
    BY <1>3, <2>1, DownIsFine, CallEnds
<1>6. CASE d.pc # "deregister"
  <2>1. PICK c : c = [d EXCEPT !.pc = "waiting", !.age = 0, !.reply = NoReply, !.misses = m]
    OBVIOUS
  <2>2. c = [pc |-> "waiting", lease |-> d.lease, age |-> 0, due |-> d.due, fired |-> d.fired,
             misses |-> m, reply |-> NoReply]
    BY <1>2, <2>1
  <2>3. client' = [client EXCEPT ![p] = c]
    BY <1>0, <1>4, <1>6, <2>1 DEF CallFails
  <2>4. m \in 0..(Tolerated + 1) /\ m \in Nat
    BY <1>2, <1>4, Constants
  <2>5. /\ c \in Clients /\ Shape(c) /\ Held(c) = d.lease /\ c.reply.code = "none" /\ c.misses = m
        /\ Spent(c) = Rounds(m) - (IF d.fired THEN 0 ELSE d.due)
    BY <1>1, <1>2, <2>2, <2>4, Between
  <2>6. Relies(c) => Backs(Node(p), c)
    <3>1. CASE d.pc = "heartbeat" /\ d.misses =< Tolerated
      <4>1. m = d.misses + 1
        BY <1>4, <3>1
      <4>2. Rounds(m) = Rounds(d.misses) + Interval /\ Rounds(d.misses) \in Nat
        BY <1>2, <4>1, RoundsGrow
      <4>3. d.age =< Interval - (IF d.fired THEN 0 ELSE d.due) /\ Interval \in Nat
        BY <1>1, CallWithinInterval, Constants
      <4>4. Held(d) = d.lease
        BY <3>1 DEF Held
      <4>5. Spent(d) =< Rounds(d.misses) + d.age /\ Spent(d) \in Int
        BY <1>2, <3>1, <4>2 DEF Spent
      <4>6. Spent(d) =< Spent(c)
        BY <1>2, <2>5, <4>2, <4>3, <4>5
      <4> QED
        BY <1>0, <2>5, <3>1, <4>4, <4>6, StillBacked
    <3>2. CASE d.pc = "heartbeat" /\ ~ (d.misses =< Tolerated)
      <4>1. ~ (m =< Tolerated)
        BY <1>4, <3>2
      <4> QED
        BY <2>5, <4>1 DEF Relies
    <3>3. CASE d.pc = "register"
      <4>1. Held(c) = None
        BY <1>1, <2>5, <3>3 DEF Shape
      <4> QED
        BY <4>1, NoLeaseNoReliance DEF RegistryInv
    <3> QED
      BY <1>1, <1>6, <3>1, <3>2, <3>3 DEF Calls
  <2> QED
    BY <1>3, <2>3, <2>5, <2>6, CallEnds
<1> QED
  BY <1>5, <1>6

LEMMA ShutdownKeeps ==
    ASSUME RegistryInv, NEW p \in Processes, Shutdown(p)
    PROVE  RegistryInv'
<1>0. PICK d : d = client[p]
  OBVIOUS
<1>1. d \in Clients /\ Shape(d) /\ d.pc # "down"
  BY <1>0 DEF RegistryInv, Typed, Shutdown, Running
<1>2. /\ d = [pc |-> d.pc, lease |-> d.lease, age |-> d.age, due |-> d.due, fired |-> d.fired,
              misses |-> d.misses, reply |-> d.reply]
      /\ d.lease \in Leases /\ d.misses \in 0..(Tolerated + 1)
  BY <1>1, Constants DEF Clients
<1>3. UNCHANGED <<nodes, revision, valid>>
  BY DEF Shutdown
<1>4. PICK c : c = [d EXCEPT !.pc = "deregister", !.age = 0, !.reply = NoReply]
  OBVIOUS
<1>5. PICK rest \in Abandoned(p) :
          IF d.lease = None
          THEN client' = [client EXCEPT ![p] = Down] /\ requests' = rest
          ELSE /\ client' = [client EXCEPT ![p] = c]
               /\ requests' = rest \union {Request(p, "deregister", d.lease)}
  BY <1>0, <1>4 DEF Shutdown
<1>6. CASE d.lease = None
  BY <1>3, <1>5, <1>6, DownIsFine, CallEnds
<1>7. CASE d.lease # None
  <2>1. c = [pc |-> "deregister", lease |-> d.lease, age |-> 0, due |-> d.due, fired |-> d.fired,
             misses |-> d.misses, reply |-> NoReply]
    BY <1>2, <1>4
  <2>2. "deregister" \in Calls
    BY DEF Calls
  <2>3. c \in Clients /\ Shape(c) /\ c.pc = "deregister" /\ c.lease = d.lease /\ c.reply = NoReply
    BY <1>1, <1>2, <2>1, <2>2, Between
  <2>4. ~ Relies(c)
    BY <2>3 DEF Relies
  <2> QED
    BY <1>3, <1>5, <1>7, <2>2, <2>3, <2>4, CallEnds
<1> QED
  BY <1>6, <1>7

LEMMA ProcessEndsKeeps ==
    ASSUME RegistryInv, NEW p \in Processes, ProcessEnds(p)
    PROVE  RegistryInv'
  BY DownIsFine, CallEnds DEF ProcessEnds

-----------------------------------------------------------------------------
(* What the registry does.                                                 *)

LEMMA SpentIsNatural ==
    ASSUME NEW c \in Clients
    PROVE  Spent(c) >= 0
<1>1. c.misses \in Nat /\ c.due \in Nat /\ c.age \in Nat /\ c.due =< Interval
  BY Constants DEF Clients
<1>2. Rounds(c.misses) \in Nat /\ Rounds(c.misses) >= Interval
  BY <1>1, RoundsGrow
<1> QED
  BY <1>1, <1>2, Constants DEF Spent

\* A process only counts on a lease that something refers to.
LEMMA HeldIsUsed ==
    ASSUME NEW p \in Processes
    PROVE  Held(client[p]) \in UsedLeases
  BY DEF Held, UsedLeases

\* removeExpiredLocked spares the node that a process counts on.
LEMMA Survives ==
    ASSUME RegistryInv, NEW q \in Processes, NEW d, d = client[q], Relies(d), NEW lag \in Nat
    PROVE  /\ Node(q) \in DOMAIN removeExpiredLocked(lag)
           /\ removeExpiredLocked(lag)[Node(q)] = nodes[Node(q)]
           /\ nodes[Node(q)].lease = Held(d)
           /\ nodes[Node(q)].left \in Int
           /\ nodes[Node(q)].left + MaxStall + Spent(d) >= TTL
<1>1. d \in Clients /\ Backs(Node(q), d)
  BY DEF RegistryInv, Typed
<1>2. /\ nodes[Node(q)].left \in Int /\ Spent(d) \in Int /\ MaxStall \in Nat /\ TTL \in Nat
      /\ Node(q) \in DOMAIN nodes
  BY <1>1, SpentIsTime, Constants DEF RegistryInv, Typed, Backs, Entry
<1>3. ~ Expired(Node(q), lag)
  BY <1>1, <1>2 DEF Backs, Relies, Expired
<1> QED
  BY <1>1, <1>2, <1>3 DEF Backs, removeExpiredLocked, Restrict

\* What is left of the registry has its type, and the revision too.
LEMMA Kept ==
    ASSUME RegistryInv, NEW lag
    PROVE  /\ DOMAIN removeExpiredLocked(lag) \subseteq NodeIds
           /\ \A id \in DOMAIN removeExpiredLocked(lag) : removeExpiredLocked(lag)[id] \in Entry
           /\ Removed(lag) \in Nat /\ Removed(lag) =< Cardinality(NodeIds)
<1>1. DOMAIN removeExpiredLocked(lag) \subseteq DOMAIN nodes
  BY DEF removeExpiredLocked, Restrict
<1>2. \A id \in DOMAIN removeExpiredLocked(lag) : removeExpiredLocked(lag)[id] = nodes[id]
  BY DEF removeExpiredLocked, Restrict
<1>3. {id \in DOMAIN nodes : Expired(id, lag)} \subseteq NodeIds
  BY DEF RegistryInv, Typed
<1>4. Removed(lag) \in Nat /\ Removed(lag) =< Cardinality(NodeIds)
  BY <1>3, FiniteNodes, FS_Subset, FS_CardinalityType DEF Removed
<1> QED
  BY <1>1, <1>2, <1>4 DEF RegistryInv, Typed

LEMMA BumpKeepsType ==
    ASSUME RegistryInv, NEW n \in Nat, Bump(n)
    PROVE  revision' \in 0..(RevisionLimit - 1)
<1>1. revision \in Nat /\ RevisionLimit \in Nat /\ RevisionLimit > 0
  BY Constants DEF RegistryInv, Typed
<1>2. revision + n \in Nat
  BY <1>1
<1>3. \A a, b \in Nat : b > 0 => a % b \in 0..(b - 1)
  OBVIOUS
<1> QED
  BY <1>1, <1>2, <1>3 DEF Bump

\* What an answer changes.
LEMMA Answered ==
    ASSUME RegistryInv, NEW r \in requests, NEW reply \in Replies, Answer(r, reply)
    PROVE  /\ client' \in [Processes -> Clients]
           /\ \A q \in Processes : q # r.proc \/ r.late => client'[q] = client[q]
           /\ ~ r.late => LET c == client'[r.proc]
                              d == client[r.proc]
                          IN  /\ c.pc = r.kind /\ c.lease = r.lease /\ c.reply = reply
                              /\ c.age = d.age /\ c.due = d.due /\ c.fired = d.fired
                              /\ c.misses = d.misses
                              /\ d.pc = r.kind /\ d.lease = r.lease /\ d.reply = NoReply
                              /\ r.lag =< d.age
<1>1. client \in [Processes -> Clients] /\ r.proc \in Processes /\ r.late \in BOOLEAN
  BY DEF RegistryInv, Typed, Messages
<1>2. CASE r.late
  <2>1. client' = client
    BY <1>2 DEF Answer
  <2> QED
    BY <1>1, <1>2, <2>1
<1>3. CASE ~ r.late
  <2>1. PICK d : d = client[r.proc]
    OBVIOUS
  <2>2. d \in Clients /\ d.pc = r.kind /\ d.lease = r.lease /\ d.reply = NoReply /\ r.lag =< d.age
    BY <1>1, <1>3, <2>1 DEF RegistryInv, Awaits
  <2>3. PICK c : c = [d EXCEPT !.reply = reply]
    OBVIOUS
  <2>4. /\ c.pc = d.pc /\ c.lease = d.lease /\ c.reply = reply /\ c.age = d.age /\ c.due = d.due
        /\ c.fired = d.fired /\ c.misses = d.misses /\ c \in Clients
    BY <2>2, <2>3 DEF Clients
  <2>5. client' = [client EXCEPT ![r.proc] = c]
    BY <1>3, <2>1, <2>3 DEF Answer
  <2> HIDE DEF Clients
  <2>6. client' \in [Processes -> Clients] /\ client'[r.proc] = c
        /\ \A q \in Processes : q # r.proc => client'[q] = client[q]
    BY <1>1, <2>4, <2>5
  <2> QED
    BY <1>3, <2>1, <2>2, <2>4, <2>6
<1> QED
  BY <1>2, <1>3

\* The requests without one of them.
LEMMA FewerRequests ==
    ASSUME Few(requests), NEW r
    PROVE  Few(requests \ {r})
<1>1. /\ requests \ {r} \subseteq requests /\ LateOf(requests \ {r}) \subseteq LateOf(requests)
      /\ LateOf(requests) \subseteq requests
  BY DEF LateOf
<1>2. IsFiniteSet(requests \ {r}) /\ IsFiniteSet(LateOf(requests))
  BY <1>1, FS_Subset DEF Few
<1>3. /\ Cardinality(LateOf(requests \ {r})) =< Cardinality(LateOf(requests))
      /\ Cardinality(LateOf(requests)) \in Nat /\ Cardinality(LateOf(requests \ {r})) \in Nat
  BY <1>1, <1>2, FS_Subset, FS_CardinalityType
<1> QED
  BY <1>2, <1>3, Constants DEF Few

\* A handler that answers.
LEMMA RegistryStep ==
    ASSUME RegistryInv, NEW r \in requests, NEW reply \in Replies, Answer(r, reply),
           reply.code # "ok" => reply.lease = None,
           requests' = requests \ {r},
           DOMAIN nodes' \subseteq NodeIds, \A id \in DOMAIN nodes' : nodes'[id] \in Entry,
           revision' \in 0..(RevisionLimit - 1), valid' \subseteq LeaseIds,
           \A q \in Processes : (Relies(client[q]) => Backs(Node(q), client[q]))'
    PROVE  RegistryInv'
<1>1. client' \in [Processes -> Clients] /\ r.proc \in Processes /\ r.kind \in Calls
  BY Answered DEF RegistryInv, Typed, Messages
<1>2. Typed'
  BY <1>1 DEF RegistryInv, Typed
<1>3. Few(requests)'
  BY FewerRequests DEF RegistryInv, Few, LateOf
<1>4. ASSUME NEW s \in requests' PROVE Awaits(s)'
  <2>1. SUFFICES ASSUME ~ s.late
                 PROVE  LET d == client'[s.proc]
                        IN  /\ d.pc = s.kind /\ d.lease = s.lease /\ d.reply = NoReply
                            /\ s.lag =< d.age
                            /\ \A t \in requests' : ~ t.late /\ t.proc = s.proc => t = s
    BY DEF Awaits
  <2>2. s \in requests /\ s # r /\ s.proc \in Processes /\ Awaits(s)
    BY DEF RegistryInv, Typed, Messages
  <2>3. s.proc # r.proc \/ r.late
    BY <2>1, <2>2 DEF Awaits
  <2>4. client'[s.proc] = client[s.proc]
    BY <2>2, <2>3, Answered
  <2> QED
    BY <2>1, <2>2, <2>4 DEF Awaits
<1>5. ASSUME NEW q \in Processes PROVE Shape(client[q])'
  <2>1. CASE q # r.proc \/ r.late
    <3>1. client'[q] = client[q] /\ Shape(client[q])
      BY <2>1, Answered DEF RegistryInv
    <3> QED
      BY <3>1 DEF Shape
  <2>2. CASE q = r.proc /\ ~ r.late
    <3>1. PICK c : c = client'[q]
      OBVIOUS
    <3>2. PICK d : d = client[q]
      OBVIOUS
    <3>3. /\ c.pc = r.kind /\ c.lease = r.lease /\ c.reply = reply /\ c.age = d.age /\ c.due = d.due
          /\ c.fired = d.fired /\ c.misses = d.misses /\ d.pc = r.kind /\ d.lease = r.lease
      BY <2>2, <3>1, <3>2, Answered
    <3>4. Shape(d)
      BY <3>2 DEF RegistryInv
    <3>5. Shape(c)
      BY <1>1, <3>3, <3>4 DEF Shape, Calls
    <3> QED
      BY <3>1, <3>5 DEF Shape
  <2> QED
    BY <2>1, <2>2
<1> QED
  BY <1>2, <1>3, <1>4, <1>5 DEF RegistryInv

\* The process q counts on its lease after the step, and the registry has it.
ReliesNext(c) ==
    /\ c.pc \in {"register", "heartbeat", "waiting"}
    /\ Held(c) \in valid'
    /\ c.misses =< Tolerated \/ c.reply.code = "ok"
    /\ Spent(c) + MaxStall < TTL

BacksNext(id, c) ==
    /\ id \in DOMAIN nodes'
    /\ nodes'[id].lease = Held(c)
    /\ nodes'[id].left + MaxStall + Spent(c) >= TTL

LEMMA BackedAfter ==
    ASSUME NEW q \in Processes, NEW c, c = client'[q], ReliesNext(c) => BacksNext(Node(q), c)
    PROVE  (Relies(client[q]) => Backs(Node(q), client[q]))'
<1>1. Held(client[q])' = Held(c) /\ Spent(client[q])' = Spent(c)
  BY DEF Held, Spent
<1>2. Relies(client[q])' = ReliesNext(c)
  BY <1>1 DEF Relies, ReliesNext
<1>3. Backs(Node(q), client[q])' = BacksNext(Node(q), c)
  BY <1>1 DEF Backs, BacksNext
<1> QED
  BY <1>2, <1>3

\* A request that is executed.
LEMMA Handled ==
    ASSUME RegistryInv, NEW r \in requests, r.lag >= 0
    PROVE  r.lag \in Nat /\ r.lag =< MaxStall /\ r.proc \in Processes /\ Node(r.proc) \in NodeIds
           /\ r.lease \in Leases /\ r.kind \in Calls /\ TTL - r.lag \in Int
  BY Constants DEF RegistryInv, Typed, Messages, NodeIds

\* One more entry in what is left of the registry.
LEMMA PutKeepsType ==
    ASSUME RegistryInv, NEW lag, NEW id \in NodeIds, NEW entry \in Entry
    PROVE  LET new == Put(removeExpiredLocked(lag), id, entry)
           IN  /\ DOMAIN new \subseteq NodeIds /\ \A i \in DOMAIN new : new[i] \in Entry
               /\ id \in DOMAIN new /\ new[id] = entry
               /\ \A i \in DOMAIN removeExpiredLocked(lag) :
                      i # id => i \in DOMAIN new /\ new[i] = removeExpiredLocked(lag)[i]
<1>1. /\ DOMAIN removeExpiredLocked(lag) \subseteq NodeIds
      /\ \A i \in DOMAIN removeExpiredLocked(lag) : removeExpiredLocked(lag)[i] \in Entry
  BY Kept
<1> QED
  BY <1>1 DEF Put

LEMMA RegisterKeeps ==
    ASSUME RegistryInv, NEW r \in requests, r.lag >= 0, r.kind = "register", Register(r),
           requests' = requests \ {r}
    PROVE  RegistryInv'
<1>0. PICK lease : lease = FreshLease
  OBVIOUS
<1>1. lease \in LeaseIds /\ lease \notin UsedLeases
  BY <1>0, LeaseLeft
<1>2. PICK id : id = Node(r.proc)
  OBVIOUS
<1>3. PICK kept : kept = removeExpiredLocked(r.lag)
  OBVIOUS
<1>4. PICK entry : entry = [lease |-> lease, left |-> TTL - r.lag]
  OBVIOUS
<1>5. PICK reply : reply = Reply("ok", lease)
  OBVIOUS
<1>6. /\ nodes' = Put(kept, id, entry)
      /\ Bump(Removed(r.lag) + 1)
      /\ valid' = ((valid \ {nodes[i].lease : i \in DOMAIN nodes \intersect {id}}) \intersect UsedLeases)
                      \union {lease}
      /\ Answer(r, reply)
  BY <1>0, <1>2, <1>3, <1>4, <1>5 DEF Register
<1>7. /\ r.lag \in Nat /\ r.lag =< MaxStall /\ r.proc \in Processes /\ id \in NodeIds
      /\ TTL - r.lag \in Int /\ TTL \in Nat /\ MaxStall \in Nat
  BY <1>2, Handled, Constants
<1>8. entry \in Entry /\ entry.lease = lease /\ entry.left = TTL - r.lag
  BY <1>1, <1>4, <1>7 DEF Entry
<1>9. reply \in Replies /\ reply.code = "ok" /\ reply.lease = lease
  BY <1>1, <1>5, Constants DEF Reply, Replies
<1>10. /\ DOMAIN nodes' \subseteq NodeIds /\ \A i \in DOMAIN nodes' : nodes'[i] \in Entry
       /\ id \in DOMAIN nodes' /\ nodes'[id] = entry
       /\ \A i \in DOMAIN kept : i # id => i \in DOMAIN nodes' /\ nodes'[i] = kept[i]
  BY <1>3, <1>6, <1>7, <1>8, PutKeepsType
<1>11. revision' \in 0..(RevisionLimit - 1)
  <2>1. Removed(r.lag) + 1 \in Nat
    BY Kept
  <2> QED
    BY <1>6, <2>1, BumpKeepsType
<1>12. valid' \subseteq LeaseIds
  BY <1>1, <1>6 DEF RegistryInv, Typed
<1>13. ASSUME NEW q \in Processes
       PROVE  (Relies(client[q]) => Backs(Node(q), client[q]))'
  <2>1. PICK c : c = client'[q]
    OBVIOUS
  <2>2. SUFFICES ASSUME ReliesNext(c) PROVE BacksNext(Node(q), c)
    BY <2>1, BackedAfter
  <2>3. CASE q = r.proc /\ ~ r.late
    <3>1. c.pc = "register" /\ c.reply = reply /\ c.age = client[q].age /\ r.lag =< client[q].age
      BY <1>6, <1>9, <2>1, <2>3, Answered
    <3>2. client[q].age \in Nat
      BY Constants DEF RegistryInv, Typed, Clients
    <3>3. Held(c) = lease /\ Spent(c) = c.age
      BY <1>9, <3>1 DEF Held, Spent
    <3>4. entry.left + MaxStall + Spent(c) >= TTL
      BY <1>7, <1>8, <3>1, <3>2, <3>3
    <3> QED
      BY <1>2, <1>8, <1>10, <2>3, <3>3, <3>4 DEF BacksNext
  <2>4. CASE q # r.proc \/ r.late
    <3>1. c = client[q]
      BY <1>6, <1>9, <2>1, <2>4, Answered
    <3>2. Held(c) \in UsedLeases
      BY <3>1, HeldIsUsed
    <3>3. Held(c) \in valid /\ Held(c) \notin {nodes[i].lease : i \in DOMAIN nodes \intersect {id}}
      BY <1>1, <1>6, <2>2, <3>2 DEF ReliesNext
    <3>4. Relies(c)
      BY <2>2, <3>3 DEF ReliesNext, Relies
    <3>5. /\ Node(q) \in DOMAIN kept /\ kept[Node(q)] = nodes[Node(q)]
          /\ nodes[Node(q)].lease = Held(c)
          /\ nodes[Node(q)].left + MaxStall + Spent(c) >= TTL
      BY <1>3, <1>7, <3>1, <3>4, Survives
    <3>6. Node(q) \in DOMAIN nodes
      BY <1>3, <3>5 DEF removeExpiredLocked, Restrict
    <3>7. Node(q) # id
      BY <3>3, <3>5, <3>6
    <3> QED
      BY <1>10, <3>5, <3>7 DEF BacksNext
  <2> QED
    BY <2>3, <2>4
<1> QED
  BY <1>6, <1>9, <1>10, <1>11, <1>12, <1>13, RegistryStep

\* A heartbeat or a deregistration that is refused.
LEMMA RefusalKeeps ==
    ASSUME RegistryInv, NEW r \in requests, r.lag >= 0, NEW reply \in Replies,
           reply.code # "ok", reply.lease = None, r.kind # "register",
           nodes' = removeExpiredLocked(r.lag), Bump(Removed(r.lag)), UNCHANGED valid,
           Answer(r, reply), requests' = requests \ {r}
    PROVE  RegistryInv'
<1>1. r.lag \in Nat
  BY Handled
<1>2. DOMAIN nodes' \subseteq NodeIds /\ \A i \in DOMAIN nodes' : nodes'[i] \in Entry
  BY Kept
<1>3. revision' \in 0..(RevisionLimit - 1)
  BY Kept, BumpKeepsType
<1>4. valid' \subseteq LeaseIds
  BY DEF RegistryInv, Typed
<1>5. ASSUME NEW q \in Processes
      PROVE  (Relies(client[q]) => Backs(Node(q), client[q]))'
  <2>1. PICK c : c = client'[q]
    OBVIOUS
  <2>2. PICK d : d = client[q]
    OBVIOUS
  <2>3. SUFFICES ASSUME ReliesNext(c) PROVE BacksNext(Node(q), c)
    BY <2>1, BackedAfter
  <2>4. Relies(d) /\ Held(d) = Held(c) /\ Spent(d) = Spent(c)
    <3>1. CASE q # r.proc \/ r.late
      <4>1. c = d
        BY <2>1, <2>2, <3>1, Answered
      <4> QED
        BY <2>3, <4>1 DEF ReliesNext, Relies
    <3>2. CASE q = r.proc /\ ~ r.late
      <4>1. /\ c.pc = d.pc /\ c.lease = d.lease /\ c.reply = reply /\ c.age = d.age /\ c.due = d.due
            /\ c.fired = d.fired /\ c.misses = d.misses /\ d.reply = NoReply /\ c.pc # "register"
        BY <2>1, <2>2, <3>2, Answered
      <4>2. Held(d) = Held(c) /\ Spent(d) = Spent(c)
        BY <4>1, NoReplyIsFine DEF Held, Spent
      <4> QED
        BY <2>3, <4>1, <4>2 DEF ReliesNext, Relies
    <3> QED
      BY <3>1, <3>2
  <2>5. /\ Node(q) \in DOMAIN nodes' /\ nodes'[Node(q)] = nodes[Node(q)]
        /\ nodes[Node(q)].lease = Held(d)
        /\ nodes[Node(q)].left + MaxStall + Spent(d) >= TTL
    BY <1>1, <2>2, <2>4, Survives
  <2> QED
    BY <2>4, <2>5 DEF BacksNext
<1> QED
  BY <1>2, <1>3, <1>4, <1>5, RegistryStep

LEMMA HeartbeatKeeps ==
    ASSUME RegistryInv, NEW r \in requests, r.lag >= 0, r.kind = "heartbeat", Heartbeat(r),
           requests' = requests \ {r}
    PROVE  RegistryInv'
<1>1. PICK id : id = Node(r.proc)
  OBVIOUS
<1>2. PICK kept : kept = removeExpiredLocked(r.lag)
  OBVIOUS
<1>3. Bump(Removed(r.lag)) /\ UNCHANGED valid
  BY DEF Heartbeat
<1>4. \A code \in {"NotFound", "PermissionDenied"} :
         /\ Reply(code, None) \in Replies /\ Reply(code, None).code # "ok"
         /\ Reply(code, None).lease = None
  BY Constants DEF Reply, Replies
<1>5. CASE nodes' = kept /\ \E code \in {"NotFound", "PermissionDenied"} : Answer(r, Reply(code, None))
  <2>1. PICK code \in {"NotFound", "PermissionDenied"} : Answer(r, Reply(code, None))
    BY <1>5
  <2>2. PICK reply : reply = Reply(code, None)
    OBVIOUS
  <2>3. reply \in Replies /\ reply.code # "ok" /\ reply.lease = None /\ Answer(r, reply)
    BY <1>4, <2>1, <2>2
  <2> QED
    BY <1>2, <1>3, <1>5, <2>3, RefusalKeeps
<1>6. CASE /\ id \in DOMAIN kept /\ kept[id].lease = r.lease
           /\ nodes' = Put(kept, id, [lease |-> r.lease, left |-> TTL - r.lag])
           /\ Answer(r, Reply("ok", r.lease))
  <2>1. PICK entry : entry = [lease |-> r.lease, left |-> TTL - r.lag]
    OBVIOUS
  <2>2. PICK reply : reply = Reply("ok", r.lease)
    OBVIOUS
  <2>3. /\ r.lag \in Nat /\ r.lag =< MaxStall /\ r.proc \in Processes /\ id \in NodeIds
        /\ TTL - r.lag \in Int /\ r.lease \in Leases /\ TTL \in Nat /\ MaxStall \in Nat
    BY <1>1, Handled, Constants
  <2>4. kept[id] \in Entry
    BY <1>2, <1>6, Kept
  <2>5. entry \in Entry /\ entry.lease = r.lease /\ entry.left = TTL - r.lag
    BY <1>6, <2>1, <2>3, <2>4 DEF Entry
  <2>6. reply \in Replies /\ reply.code = "ok" /\ reply.lease = r.lease
    BY <2>2, <2>3 DEF Reply, Replies
  <2>7. /\ DOMAIN nodes' \subseteq NodeIds /\ \A i \in DOMAIN nodes' : nodes'[i] \in Entry
        /\ id \in DOMAIN nodes' /\ nodes'[id] = entry
        /\ \A i \in DOMAIN kept : i # id => i \in DOMAIN nodes' /\ nodes'[i] = kept[i]
    BY <1>2, <1>6, <2>1, <2>3, <2>5, PutKeepsType
  <2>8. revision' \in 0..(RevisionLimit - 1) /\ valid' \subseteq LeaseIds
    BY <1>3, Kept, BumpKeepsType DEF RegistryInv, Typed
  <2>9. ASSUME NEW q \in Processes
        PROVE  (Relies(client[q]) => Backs(Node(q), client[q]))'
    <3>1. PICK c : c = client'[q]
      OBVIOUS
    <3>2. SUFFICES ASSUME ReliesNext(c) PROVE BacksNext(Node(q), c)
      BY <3>1, BackedAfter
    <3>3. CASE q = r.proc /\ ~ r.late
      <4>1. c.pc = "heartbeat" /\ c.reply = reply /\ c.lease = r.lease /\ c.age = client[q].age
            /\ r.lag =< client[q].age
        BY <1>6, <2>2, <2>6, <3>1, <3>3, Answered
      <4>2. client[q].age \in Nat
        BY Constants DEF RegistryInv, Typed, Clients
      <4>3. Held(c) = r.lease /\ Spent(c) = c.age
        BY <2>6, <4>1 DEF Held, Spent
      <4>4. entry.left + MaxStall + Spent(c) >= TTL
        BY <2>3, <2>5, <4>1, <4>2, <4>3
      <4> QED
        BY <1>1, <2>5, <2>7, <3>3, <4>3, <4>4 DEF BacksNext
    <3>4. CASE q # r.proc \/ r.late
      <4>1. c = client[q]
        BY <1>6, <2>2, <2>6, <3>1, <3>4, Answered
      <4>2. Relies(c)
        BY <1>3, <3>2 DEF ReliesNext, Relies
      <4>3. /\ Node(q) \in DOMAIN kept /\ kept[Node(q)] = nodes[Node(q)]
            /\ nodes[Node(q)].lease = Held(c)
            /\ nodes[Node(q)].left + MaxStall + Spent(c) >= TTL
        BY <1>2, <2>3, <4>1, <4>2, Survives
      <4>4. CASE Node(q) # id
        BY <2>7, <4>3, <4>4 DEF BacksNext
      <4>5. CASE Node(q) = id
        <5>1. c \in Clients
          BY <4>1 DEF RegistryInv, Typed
        <5>2. Spent(c) \in Int /\ Spent(c) >= 0
          BY <5>1, SpentIsTime, SpentIsNatural
        <5>3. entry.left + MaxStall + Spent(c) >= TTL
          BY <2>3, <2>5, <5>2
        <5> QED
          BY <1>6, <2>5, <2>7, <4>3, <4>5, <5>3 DEF BacksNext
      <4> QED
        BY <4>4, <4>5
    <3> QED
      BY <3>3, <3>4
  <2> QED
    BY <1>6, <2>2, <2>6, <2>7, <2>8, <2>9, RegistryStep
<1> QED
  BY <1>1, <1>2, <1>5, <1>6 DEF Heartbeat

LEMMA DeregisterKeeps ==
    ASSUME RegistryInv, NEW r \in requests, r.lag >= 0, r.kind = "deregister", Deregister(r),
           requests' = requests \ {r}
    PROVE  RegistryInv'
<1>1. PICK id : id = Node(r.proc)
  OBVIOUS
<1>2. PICK kept : kept = removeExpiredLocked(r.lag)
  OBVIOUS
<1>3. CASE /\ id \in DOMAIN kept /\ kept[id].lease = r.lease
           /\ nodes' = Restrict(kept, DOMAIN kept \ {id})
           /\ Bump(Removed(r.lag) + 1)
           /\ valid' = valid \ {r.lease}
           /\ Answer(r, Reply("ok", r.lease))
  <2>1. PICK reply : reply = Reply("ok", r.lease)
    OBVIOUS
  <2>2. r.lag \in Nat /\ r.lease \in Leases
    BY Handled
  <2>3. reply \in Replies /\ reply.code = "ok"
    BY <2>1, <2>2 DEF Reply, Replies
  <2>4. DOMAIN nodes' = DOMAIN kept \ {id} /\ \A i \in DOMAIN nodes' : nodes'[i] = kept[i]
    BY <1>3 DEF Restrict
  <2>5. DOMAIN nodes' \subseteq NodeIds /\ \A i \in DOMAIN nodes' : nodes'[i] \in Entry
    BY <1>2, <2>4, Kept
  <2>6. revision' \in 0..(RevisionLimit - 1) /\ valid' \subseteq LeaseIds
    <3>1. Removed(r.lag) + 1 \in Nat
      BY Kept
    <3> QED
      BY <1>3, <3>1, BumpKeepsType DEF RegistryInv, Typed
  <2>7. ASSUME NEW q \in Processes
        PROVE  (Relies(client[q]) => Backs(Node(q), client[q]))'
    <3>1. PICK c : c = client'[q]
      OBVIOUS
    <3>2. SUFFICES ASSUME ReliesNext(c) PROVE BacksNext(Node(q), c)
      BY <3>1, BackedAfter
    <3>3. CASE q = r.proc /\ ~ r.late
      <4>1. c.pc = "deregister"
        BY <1>3, <2>1, <2>3, <3>1, <3>3, Answered
      <4> QED
        BY <3>2, <4>1 DEF ReliesNext
    <3>4. CASE q # r.proc \/ r.late
      <4>1. c = client[q]
        BY <1>3, <2>1, <2>3, <3>1, <3>4, Answered
      <4>2. Relies(c) /\ Held(c) # r.lease
        BY <1>3, <3>2 DEF ReliesNext, Relies
      <4>3. /\ Node(q) \in DOMAIN kept /\ kept[Node(q)] = nodes[Node(q)]
            /\ nodes[Node(q)].lease = Held(c)
            /\ nodes[Node(q)].left + MaxStall + Spent(c) >= TTL
        BY <1>2, <2>2, <4>1, <4>2, Survives
      <4>4. Node(q) # id
        BY <1>3, <4>2, <4>3
      <4> QED
        BY <2>4, <4>3, <4>4 DEF BacksNext
    <3> QED
      BY <3>3, <3>4
  <2> QED
    BY <1>3, <2>1, <2>3, <2>5, <2>6, <2>7, RegistryStep
<1>4. CASE /\ nodes' = kept /\ Bump(Removed(r.lag)) /\ UNCHANGED valid
           /\ Answer(r, Reply("refused", None))
  <2>1. PICK reply : reply = Reply("refused", None)
    OBVIOUS
  <2>2. reply \in Replies /\ reply.code # "ok" /\ reply.lease = None
    BY <2>1, Constants DEF Reply, Replies
  <2> QED
    BY <1>2, <1>4, <2>1, <2>2, RefusalKeeps
<1> QED
  BY <1>1, <1>2, <1>3, <1>4 DEF Deregister

LEMMA ExecuteKeeps ==
    ASSUME RegistryInv, NEW r \in requests, Execute(r)
    PROVE  RegistryInv'
  BY RegisterKeeps, HeartbeatKeeps, DeregisterKeeps DEF Execute

\* Nothing but the requests changes.
LEMMA OnlyRequests ==
    ASSUME RegistryInv, UNCHANGED <<nodes, revision, client, valid>>,
           requests' \subseteq Messages, Few(requests'), \A r \in requests' : Awaits(r)'
    PROVE  RegistryInv'
<1>1. Typed'
  BY DEF RegistryInv, Typed
<1>2. Few(requests)'
  BY DEF Few, LateOf
<1>3. ASSUME NEW q \in Processes
      PROVE  Shape(client[q])' /\ (Relies(client[q]) => Backs(Node(q), client[q]))'
  <2>1. Held(client[q])' = Held(client[q]) /\ Spent(client[q])' = Spent(client[q])
    BY DEF Held, Spent
  <2>2. Relies(client[q])' = Relies(client[q]) /\ Backs(Node(q), client[q])' = Backs(Node(q), client[q])
    BY <2>1 DEF Relies, Backs
  <2>3. Shape(client[q])' = Shape(client[q])
    BY DEF Shape
  <2> QED
    BY <2>2, <2>3 DEF RegistryInv
<1> QED
  BY <1>1, <1>2, <1>3 DEF RegistryInv

LEMMA ArriveKeeps ==
    ASSUME RegistryInv, NEW r \in requests, Arrive(r)
    PROVE  RegistryInv'
<1>1. PICK t : t = [r EXCEPT !.lag = 0]
  OBVIOUS
<1>2. r \in Messages /\ requests \subseteq Messages
  BY DEF RegistryInv, Typed
<1>3. /\ t \in Messages /\ t.kind = r.kind /\ t.proc = r.proc /\ t.lease = r.lease /\ t.lag = 0
      /\ t.late = r.late
  BY <1>1, <1>2, Constants DEF Messages
<1>4. requests' = (requests \ {r}) \union {t} /\ UNCHANGED <<nodes, revision, client, valid>>
  BY <1>1 DEF Arrive
<1>5. Few(requests')
  <2>1. IsFiniteSet(requests') /\ IsFiniteSet(requests) /\ Cardinality(LateOf(requests)) =< MaxLate
    BY <1>4, FS_AddElement, FewerRequests DEF RegistryInv, Few
  <2>2. CASE r.late
    <3>1. r \in LateOf(requests) /\ LateOf(requests') = (LateOf(requests) \ {r}) \union {t}
      BY <1>3, <1>4, <2>2 DEF LateOf
    <3>2. IsFiniteSet(LateOf(requests))
      BY <2>1, FS_Subset DEF LateOf
    <3>3. /\ IsFiniteSet(LateOf(requests) \ {r})
          /\ Cardinality(LateOf(requests) \ {r}) = Cardinality(LateOf(requests)) - 1
      BY <3>1, <3>2, FS_RemoveElement
    <3>4. Cardinality(LateOf(requests')) =< Cardinality(LateOf(requests) \ {r}) + 1
      <4>1. PICK X : X = LateOf(requests) \ {r}
        OBVIOUS
      <4>2. IsFiniteSet(X) /\ Cardinality(X) \in Nat /\ IsFiniteSet({t}) /\ Cardinality({t}) = 1
        BY <3>3, <4>1, FS_CardinalityType, FS_Singleton
      <4>3. Cardinality(X \union {t}) =< Cardinality(X) + Cardinality({t})
        BY <4>2, UnionBound
      <4> QED
        BY <3>1, <4>1, <4>2, <4>3
    <3>5. Cardinality(LateOf(requests)) \in Nat /\ Cardinality(LateOf(requests')) \in Nat
      <4>1. IsFiniteSet(LateOf(requests'))
        BY <2>1, FS_Subset DEF LateOf
      <4> QED
        BY <3>2, <4>1, FS_CardinalityType
    <3> QED
      BY <2>1, <3>3, <3>4, <3>5, Constants DEF Few
  <2>3. CASE ~ r.late
    <3>1. LateOf(requests') = LateOf(requests)
      BY <1>3, <1>4, <2>3 DEF LateOf
    <3> QED
      BY <2>1, <3>1 DEF Few
  <2> QED
    BY <2>2, <2>3
<1>6. ASSUME NEW s \in requests' PROVE Awaits(s)'
  <2>1. SUFFICES ASSUME ~ s.late
                 PROVE  LET d == client[s.proc]
                        IN  /\ d.pc = s.kind /\ d.lease = s.lease /\ d.reply = NoReply
                            /\ s.lag =< d.age
                            /\ \A u \in requests' : ~ u.late /\ u.proc = s.proc => u = s
    BY <1>4 DEF Awaits
  <2>2. CASE s = t
    <3>1. Awaits(r) /\ ~ r.late
      BY <1>3, <2>1, <2>2 DEF RegistryInv
    <3>2. 0 =< client[r.proc].age
      BY <1>2, Constants DEF RegistryInv, Typed, Clients, Messages
    <3> QED
      BY <1>3, <1>4, <2>2, <3>1, <3>2 DEF Awaits
  <2>3. CASE s \in requests \ {r}
    <3>1. Awaits(s)
      BY <2>3 DEF RegistryInv
    <3> QED
      BY <1>3, <1>4, <2>1, <2>3, <3>1 DEF Awaits
  <2> QED
    BY <1>4, <2>2, <2>3
<1> QED
  BY <1>2, <1>3, <1>4, <1>5, <1>6, OnlyRequests

LEMMA LoseKeeps ==
    ASSUME RegistryInv, NEW r \in requests, Lose(r)
    PROVE  RegistryInv'
<1>1. requests' = requests \ {r} /\ UNCHANGED <<nodes, revision, client, valid>>
  BY DEF Lose
<1>2. Few(requests') /\ requests' \subseteq Messages
  BY <1>1, FewerRequests DEF RegistryInv, Typed
<1>3. \A s \in requests' : Awaits(s)'
  BY <1>1 DEF RegistryInv, Awaits
<1> QED
  BY <1>1, <1>2, <1>3, OnlyRequests

LEMMA NodesKeeps ==
    ASSUME RegistryInv, Nodes
    PROVE  RegistryInv'
<1>1. nodes' = removeExpiredLocked(0) /\ UNCHANGED <<client, requests, valid>> /\ Bump(Removed(0))
  BY DEF Nodes
<1>2. Typed'
  <2>1. DOMAIN nodes' \subseteq NodeIds /\ \A i \in DOMAIN nodes' : nodes'[i] \in Entry
    BY <1>1, Kept
  <2>2. revision' \in 0..(RevisionLimit - 1)
    BY <1>1, Kept, BumpKeepsType
  <2> QED
    BY <1>1, <2>1, <2>2 DEF RegistryInv, Typed
<1>3. Few(requests)' /\ \A r \in requests' : Awaits(r)'
  BY <1>1 DEF RegistryInv, Few, LateOf, Awaits
<1>4. ASSUME NEW q \in Processes
      PROVE  Shape(client[q])' /\ (Relies(client[q]) => Backs(Node(q), client[q]))'
  <2>1. Shape(client[q])'
    BY <1>1 DEF RegistryInv, Shape
  <2>2. PICK c : c = client[q]
    OBVIOUS
  <2>3. ReliesNext(c) => BacksNext(Node(q), c)
    <3>1. SUFFICES ASSUME ReliesNext(c) PROVE BacksNext(Node(q), c)
      OBVIOUS
    <3>2. Relies(c)
      BY <1>1, <3>1 DEF ReliesNext, Relies
    <3> QED
      BY <1>1, <2>2, <3>2, Survives DEF BacksNext
  <2>4. (Relies(client[q]) => Backs(Node(q), client[q]))'
    BY <1>1, <2>2, <2>3, BackedAfter
  <2> QED
    BY <2>1, <2>4
<1> QED
  BY <1>2, <1>3, <1>4 DEF RegistryInv

LEMMA CoordinatorRestartsKeeps ==
    ASSUME RegistryInv, CoordinatorRestarts
    PROVE  RegistryInv'
<1>1. nodes' = << >> /\ revision' = 0 /\ requests' = {} /\ valid' = {} /\ client' = client
  BY DEF CoordinatorRestarts
<1>2. Typed'
  <2>1. DOMAIN nodes' = {}
    BY <1>1
  <2>2. 0 \in 0..(RevisionLimit - 1)
    BY Constants
  <2> QED
    BY <1>1, <2>1, <2>2 DEF RegistryInv, Typed
<1>3. Few(requests)' /\ \A r \in requests' : Awaits(r)'
  <2>1. LateOf({}) = {}
    BY DEF LateOf
  <2> QED
    <3>1. LateOf(requests') = {} /\ IsFiniteSet(requests') /\ Cardinality({}) = 0 /\ MaxLate >= 0
      BY <1>1, <2>1, FS_EmptySet, Constants
    <3>2. Few(requests')
      BY <3>1 DEF Few
    <3> QED
      BY <1>1, <3>2 DEF Few, LateOf
<1>4. ASSUME NEW q \in Processes
      PROVE  Shape(client[q])' /\ (Relies(client[q]) => Backs(Node(q), client[q]))'
  <2>1. Shape(client[q])'
    BY <1>1 DEF RegistryInv, Shape
  <2>2. ~ Relies(client[q])'
    BY <1>1 DEF Relies
  <2> QED
    BY <2>1, <2>2
<1> QED
  BY <1>2, <1>3, <1>4 DEF RegistryInv

\* A running process grows older by one.
LEMMA AgedIsFine ==
    ASSUME NEW c \in Clients, Shape(c), ~ (c.pc = "waiting" /\ c.fired),
           c.pc \in Calls => c.age < Timeout, NEW e, e = Aged(c)
    PROVE  /\ e \in Clients /\ Shape(e)
           /\ e.pc = c.pc /\ e.lease = c.lease /\ e.misses = c.misses /\ e.reply = c.reply
           /\ c.pc \in Calls => e.age = c.age + 1
           /\ c.pc # "down" => Spent(e) = Spent(c) + 1
<1>1. CASE c.pc = "down"
  BY <1>1 DEF Aged, Calls
<1>2. CASE c.pc # "down"
  <2>0. /\ c.pc \in Calls \union {"waiting"} /\ c.lease \in Leases /\ c.age \in Nat /\ c.due \in Nat
        /\ c.due >= 1 /\ c.due =< Interval /\ c.fired \in BOOLEAN /\ c.misses \in 0..(Tolerated + 1)
        /\ c.reply \in Replies /\ Interval \in Nat /\ Timeout \in Nat
    BY <1>2, Constants DEF Clients, Shape
  <2>1. PICK age : age = IF c.pc = "waiting" THEN 0 ELSE c.age + 1
    OBVIOUS
  <2>2. PICK due : due = IF c.due = 1 THEN Interval ELSE c.due - 1
    OBVIOUS
  <2>3. PICK fired \in BOOLEAN : fired = (c.fired \/ c.due = 1)
    BY <2>0
  <2>4. e = [c EXCEPT !.age = age, !.due = due, !.fired = fired]
    BY <1>2, <2>1, <2>2, <2>3 DEF Aged
  <2>5. e = [pc |-> c.pc, lease |-> c.lease, age |-> age, due |-> due, fired |-> fired,
             misses |-> c.misses, reply |-> c.reply]
    BY <2>4 DEF Clients
  <2>6. /\ age \in 0..Timeout /\ due \in 0..Interval /\ due >= 1
        /\ c.pc \in Calls => age = c.age + 1
    BY <2>0, <2>1, <2>2, Constants DEF Calls
  <2>7. e \in Clients
    BY <2>0, <2>5, <2>6, ClientOf
  <2>8. /\ e.pc = c.pc /\ e.lease = c.lease /\ e.misses = c.misses /\ e.reply = c.reply
        /\ e.age = age /\ e.due = due /\ e.fired = fired
    BY <2>5
  <2>9. Shape(e)
    <3>1. ASSUME c.pc \in Calls, ~ fired PROVE age + due =< Interval
      <4>1. ~ c.fired /\ c.due # 1
        BY <2>3, <3>1, Zenon
      <4>2. c.age + c.due =< Interval
        BY <3>1, <4>1 DEF Shape
      <4>3. age = c.age + 1 /\ due = c.due - 1
        BY <2>2, <2>6, <3>1, <4>1
      <4> QED
        BY <2>0, <4>2, <4>3
    <3> QED
      BY <2>6, <2>8, <3>1 DEF Shape
  <2>10. Spent(e) = Spent(c) + 1
    <3>0. c.misses \in Nat
      BY <2>0, Constants
    <3>1. Rounds(c.misses) \in Nat
      BY <3>0, RoundsGrow
    <3>2. CASE c.pc = "waiting"
      <4>1. ~ c.fired
        BY <3>2
      <4>2. (IF fired THEN 0 ELSE due) = c.due - 1
        <5>1. CASE c.due = 1
          <6>1. fired
            BY <2>3, <5>1, Zenon
          <6> QED
            BY <5>1, <6>1
        <5>2. CASE c.due # 1
          <6>1. ~ fired
            BY <2>3, <4>1, <5>2, Zenon
          <6> QED
            BY <2>2, <5>2, <6>1
        <5> QED
          BY <5>1, <5>2
      <4> QED
        BY <2>0, <2>8, <3>1, <3>2, <4>1, <4>2 DEF Spent
    <3>3. CASE c.pc \in Calls
      <4>1. c.pc # "waiting"
        BY <3>3 DEF Calls
      <4> QED
        BY <2>0, <2>6, <2>8, <3>1, <3>3, <4>1 DEF Spent
    <3> QED
      BY <2>0, <3>2, <3>3
  <2> QED
    BY <2>6, <2>7, <2>8, <2>9, <2>10
<1> QED
  BY <1>1, <1>2

LEMMA TickKeeps ==
    ASSUME RegistryInv, Tick
    PROVE  RegistryInv'
<1> DEFINE later == [r \in requests |-> [r EXCEPT !.lag = IF @ >= 0 THEN @ + 1 ELSE @]]
<1>1. /\ \A p \in Processes : /\ ~ (client[p].pc = "waiting" /\ client[p].fired)
                              /\ client[p].pc \in Calls => client[p].age < Timeout
      /\ \A r \in requests : r.lag < MaxStall
  BY DEF Tick, MayTick, Calling, Calls
<1>2. ASSUME NEW p \in Processes, NEW c, c = client[p], NEW e, e = client'[p]
      PROVE  /\ c \in Clients /\ e \in Clients /\ Shape(e)
             /\ e.pc = c.pc /\ e.lease = c.lease /\ e.misses = c.misses /\ e.reply = c.reply
             /\ c.pc \in Calls => e.age = c.age + 1
             /\ c.pc # "down" => Spent(e) = Spent(c) + 1
  <2>1. e = Aged(c)
    BY <1>2 DEF Tick
  <2>2. c \in Clients /\ Shape(c)
    BY <1>2 DEF RegistryInv, Typed
  <2> QED
    BY <1>1, <1>2, <2>1, <2>2, AgedIsFine
<1>3. client' \in [Processes -> Clients]
  <2>1. client' = [p \in Processes |-> Aged(client[p])]
    BY DEF Tick
  <2>2. \A p \in Processes : client'[p] \in Clients
    BY <1>2
  <2> QED
    BY <2>1, <2>2
<1>4. /\ DOMAIN nodes' = DOMAIN nodes
      /\ \A id \in DOMAIN nodes : /\ nodes'[id] \in Entry /\ nodes'[id].lease = nodes[id].lease
                                  /\ nodes[id].left \in Int /\ nodes'[id].left \in Int
                                  /\ nodes'[id].left >= nodes[id].left - 1
  <2>1. DOMAIN nodes' = DOMAIN nodes
    BY DEF Tick
  <2>2. ASSUME NEW id \in DOMAIN nodes
        PROVE  /\ nodes'[id] \in Entry /\ nodes'[id].lease = nodes[id].lease
               /\ nodes[id].left \in Int /\ nodes'[id].left \in Int
               /\ nodes'[id].left >= nodes[id].left - 1
    <3>1. PICK old : old = nodes[id]
      OBVIOUS
    <3>2. old \in Entry
      BY <3>1 DEF RegistryInv, Typed
    <3>3. nodes'[id] = [old EXCEPT !.left = IF old.left > -MaxStall THEN old.left - 1 ELSE old.left]
      BY <3>1 DEF Tick
    <3> QED
      BY <3>1, <3>2, <3>3, Constants DEF Entry
  <2> QED
    BY <2>1, <2>2
<1>5. requests' = {later[r] : r \in requests}
  BY DEF Tick
<1>6. ASSUME NEW r \in requests
      PROVE  /\ later[r] \in Messages /\ later[r].kind = r.kind /\ later[r].proc = r.proc
             /\ later[r].lease = r.lease /\ later[r].late = r.late
             /\ later[r].lag = IF r.lag >= 0 THEN r.lag + 1 ELSE r.lag
             /\ r.lag \in -1..MaxStall /\ r.proc \in Processes
  <2>1. r \in Messages /\ r.lag < MaxStall
    BY <1>1 DEF RegistryInv, Typed
  <2>2. later[r] = [r EXCEPT !.lag = IF r.lag >= 0 THEN r.lag + 1 ELSE r.lag]
    OBVIOUS
  <2> HIDE DEF later
  <2>3. PICK lag : lag = IF r.lag >= 0 THEN r.lag + 1 ELSE r.lag
    OBVIOUS
  <2>4. r.lag \in -1..MaxStall /\ lag \in -1..MaxStall
    BY <2>1, <2>3, Constants DEF Messages
  <2> QED
    BY <2>1, <2>2, <2>3, <2>4 DEF Messages
<1> HIDE DEF later
<1>7. Typed'
  <2>1. requests' \subseteq Messages
    BY <1>5, <1>6
  <2>2. revision' = revision /\ valid' = valid
    BY DEF Tick
  <2> QED
    BY <1>3, <1>4, <2>1, <2>2 DEF RegistryInv, Typed
<1>8. Few(requests)'
  <2>1. IsFiniteSet(requests) /\ Cardinality(LateOf(requests)) =< MaxLate /\ LateOf(requests) \subseteq requests
    BY DEF RegistryInv, Few, LateOf
  <2>2. IsFiniteSet(requests') /\ IsFiniteSet(LateOf(requests))
    BY <1>5, <2>1, Values, FS_Subset
  <2>3. LateOf(requests') = {later[r] : r \in LateOf(requests)}
    BY <1>5, <1>6 DEF LateOf
  <2>4. /\ IsFiniteSet(LateOf(requests')) /\ Cardinality(LateOf(requests')) =< Cardinality(LateOf(requests))
    BY <2>2, <2>3, Values
  <2>5. Cardinality(LateOf(requests)) \in Nat /\ Cardinality(LateOf(requests')) \in Nat
    BY <2>2, <2>4, FS_CardinalityType
  <2> QED
    BY <2>1, <2>2, <2>4, <2>5, Constants DEF Few, LateOf
<1>9. ASSUME NEW t \in requests' PROVE Awaits(t)'
  <2>1. SUFFICES ASSUME ~ t.late
                 PROVE  LET d == client'[t.proc]
                        IN  /\ d.pc = t.kind /\ d.lease = t.lease /\ d.reply = NoReply
                            /\ t.lag =< d.age
                            /\ \A u \in requests' : ~ u.late /\ u.proc = t.proc => u = t
    BY DEF Awaits
  <2>2. PICK r \in requests : t = later[r]
    BY <1>5
  <2>3. ~ r.late /\ Awaits(r) /\ r.proc = t.proc /\ r.proc \in Processes /\ t.kind = r.kind
        /\ t.lease = r.lease
    BY <1>6, <2>1, <2>2 DEF RegistryInv
  <2>4. PICK c : c = client[r.proc]
    OBVIOUS
  <2>5. PICK e : e = client'[r.proc]
    OBVIOUS
  <2>6. c.pc = r.kind /\ c.lease = r.lease /\ c.reply = NoReply /\ r.lag =< c.age /\ r.kind \in Calls
    BY <2>3, <2>4 DEF Awaits, RegistryInv, Typed, Messages
  <2>7. /\ e.pc = c.pc /\ e.lease = c.lease /\ e.reply = c.reply /\ e.age = c.age + 1
        /\ c \in Clients
    BY <1>2, <2>3, <2>4, <2>5, <2>6
  <2>8. t.lag =< e.age
    <3>1. c.age \in Nat
      BY <2>7, Constants DEF Clients
    <3> QED
      BY <1>6, <2>2, <2>6, <2>7, <3>1, Constants
  <2>9. ASSUME NEW u \in requests', ~ u.late, u.proc = t.proc PROVE u = t
    <3>1. PICK s \in requests : u = later[s]
      BY <1>5
    <3>2. ~ s.late /\ s.proc = r.proc
      BY <1>6, <2>3, <2>9, <3>1
    <3>3. s = r
      BY <2>3, <3>2 DEF Awaits
    <3> QED
      BY <2>2, <3>1, <3>3
  <2> QED
    BY <2>3, <2>5, <2>6, <2>7, <2>8, <2>9
<1>10. ASSUME NEW q \in Processes
       PROVE  Shape(client[q])' /\ (Relies(client[q]) => Backs(Node(q), client[q]))'
  <2>1. PICK c : c = client[q]
    OBVIOUS
  <2>2. PICK e : e = client'[q]
    OBVIOUS
  <2>3. /\ c \in Clients /\ e \in Clients /\ Shape(e)
        /\ e.pc = c.pc /\ e.lease = c.lease /\ e.misses = c.misses /\ e.reply = c.reply
        /\ c.pc # "down" => Spent(e) = Spent(c) + 1
    BY <1>2, <2>1, <2>2
  <2>4. ReliesNext(e) => BacksNext(Node(q), e)
    <3>1. SUFFICES ASSUME ReliesNext(e) PROVE BacksNext(Node(q), e)
      OBVIOUS
    <3>2. Held(e) = Held(c) /\ Spent(e) = Spent(c) + 1 /\ Spent(c) \in Int /\ Spent(e) \in Int
          /\ MaxStall \in Nat /\ TTL \in Nat
      BY <2>3, <3>1, SpentIsTime, Constants DEF Held, ReliesNext
    <3>3. Spent(c) + MaxStall < TTL
      BY <3>1, <3>2 DEF ReliesNext
    <3>4. valid' = valid
      BY DEF Tick
    <3>5. Relies(c)
      BY <2>3, <3>1, <3>2, <3>3, <3>4 DEF ReliesNext, Relies
    <3>6. Backs(Node(q), c)
      BY <2>1, <3>5 DEF RegistryInv
    <3> QED
      BY <1>4, <3>2, <3>6 DEF Backs, BacksNext
  <2>5. Shape(client[q])'
    BY <2>2, <2>3 DEF Shape
  <2> QED
    BY <2>2, <2>4, <2>5, BackedAfter
<1> QED
  BY <1>7, <1>8, <1>9, <1>10 DEF RegistryInv

\* Nothing changes but whether there are more faults.
LEMMA QuietKeeps ==
    ASSUME RegistryInv, UNCHANGED <<nodes, revision, client, requests, valid>>
    PROVE  RegistryInv'
<1>1. requests' \subseteq Messages /\ Few(requests') /\ \A r \in requests' : Awaits(r)'
  BY DEF RegistryInv, Typed, Awaits
<1> QED
  BY <1>1, OnlyRequests

-----------------------------------------------------------------------------
(* Every behaviour.                                                        *)

LEMMA RegistryInit ==
    ASSUME Init
    PROVE  RegistryInv
<1>1. nodes = << >> /\ revision = 0 /\ client = [p \in Processes |-> Down] /\ requests = {} /\ valid = {}
  BY DEF Init
<1>2. Typed
  <2>1. DOMAIN nodes = {}
    BY <1>1
  <2>2. 0 \in 0..(RevisionLimit - 1)
    BY Constants
  <2> QED
    BY <1>1, <2>1, <2>2, DownIsFine DEF Typed
<1>3. Few(requests)
  <2>1. LateOf(requests) = {} /\ IsFiniteSet(requests) /\ Cardinality({}) = 0 /\ MaxLate >= 0
    BY <1>1, FS_EmptySet, Constants DEF LateOf
  <2> QED
    BY <2>1 DEF Few
<1>4. \A p \in Processes : client[p] = Down
  BY <1>1
<1> QED
  BY <1>1, <1>2, <1>3, <1>4, DownIsFine DEF RegistryInv

LEMMA RegistryNext ==
    ASSUME RegistryInv, [Next]_vars
    PROVE  RegistryInv'
<1>1. ASSUME NEW r \in requests, Arrive(r) \/ Execute(r) \/ Lose(r) PROVE RegistryInv'
  BY <1>1, ArriveKeeps, ExecuteKeeps, LoseKeeps
<1>2. ASSUME NEW p \in Processes,
             \/ Start(p) \/ TickFires(p) \/ Receive(p) \/ CallFails(p) \/ Shutdown(p) \/ ProcessEnds(p)
      PROVE  RegistryInv'
  BY <1>2, StartKeeps, TickFiresKeeps, ReceiveKeeps, CallFailsKeeps, ShutdownKeeps, ProcessEndsKeeps
<1>3. CASE Nodes \/ CoordinatorRestarts \/ Tick
  BY <1>3, NodesKeeps, CoordinatorRestartsKeeps, TickKeeps
<1>4. CASE Settle \/ UNCHANGED vars
  BY <1>4, QuietKeeps DEF Settle, vars
<1> QED
  BY <1>1, <1>2, <1>3, <1>4 DEF Next

\* The invariant holds in every reachable state: the registry, the loops of the
\* processes and the requests on their way fit together, and the registry has every
\* lease that a process may still count on, with enough time left.
THEOREM RegistryInvariant == Spec => []RegistryInv
<1>1. Init => RegistryInv
  BY RegistryInit
<1>2. RegistryInv /\ [Next]_vars => RegistryInv'
  BY RegistryNext
<1> QED
  BY <1>1, <1>2, PTL DEF Spec

LEMMA InvOutlives ==
    ASSUME RegistryInv, TTL >= (Tolerated + 1) * Interval + Timeout, MaxStall < Timeout
    PROVE  LeaseOutlivesMisses
<1>0. TTL >= Rounds(Tolerated) + Timeout /\ Rounds(Tolerated) \in Nat
  BY RoundsGrow, Constants DEF Rounds
<1> SUFFICES ASSUME NEW p \in Processes, Running(p), client[p].lease \in valid,
                    client[p].misses =< Tolerated,
                    client[p].pc = "heartbeat" => client[p].age + MaxStall < Timeout
             PROVE  Listed(Node(p)) /\ nodes[Node(p)].lease = client[p].lease
  BY DEF LeaseOutlivesMisses
<1>1. PICK c : c = client[p]
  OBVIOUS
<1>2. /\ c \in Clients /\ Shape(c) /\ c.pc \in {"register", "heartbeat", "waiting"}
      /\ c.lease \in valid /\ c.misses =< Tolerated
      /\ c.pc = "heartbeat" => c.age + MaxStall < Timeout
  BY <1>1 DEF RegistryInv, Typed, Running
<1>3. c.pc # "register" /\ Held(c) = c.lease
  <2>1. c.lease # None
    BY <1>2, Constants DEF RegistryInv, Typed
  <2> QED
    BY <1>2, <2>1 DEF Shape, Held
<1>4. c.misses \in Nat /\ c.age \in Nat /\ c.due \in Nat /\ c.due >= 1 /\ c.due =< Interval
  BY <1>2, Constants DEF Clients, Shape
<1>5. Rounds(c.misses) \in Nat /\ Rounds(c.misses) =< Rounds(Tolerated)
  BY <1>2, <1>4, RoundsGrow, Constants
<1>6. Spent(c) + MaxStall < TTL
  <2>1. CASE c.pc = "waiting"
    BY <1>0, <1>4, <1>5, <2>1, Constants DEF Spent
  <2>2. CASE c.pc = "heartbeat"
    BY <1>0, <1>2, <1>4, <1>5, <2>2, Constants DEF Spent
  <2> QED
    BY <1>2, <1>3, <2>1, <2>2
<1>7. Relies(c)
  BY <1>2, <1>3, <1>6 DEF Relies
<1>8. 0 \in Nat
  OBVIOUS
<1>9. Node(p) \in DOMAIN removeExpiredLocked(0) /\ nodes[Node(p)].lease = Held(c)
  BY <1>1, <1>7, <1>8, Survives
<1>10. Listed(Node(p))
  BY <1>9 DEF Listed, removeExpiredLocked, Restrict
<1> QED
  BY <1>1, <1>3, <1>9, <1>10

\* A lease whose time to live has room for the tolerated misses, the renewal and a call
\* is never lost to a miss: a running process stays listed under its lease unless
\* another registration took its place or the coordinator forgot it.  The code's values
\* leave room for two misses and nothing more: 15 s are three intervals of 4 s and a
\* call of 3 s.
THEOREM LeaseOutlives ==
    ASSUME TTL >= (Tolerated + 1) * Interval + Timeout, MaxStall < Timeout
    PROVE  Spec => []LeaseOutlivesMisses
<1>1. RegistryInv => LeaseOutlivesMisses
  BY InvOutlives
<1> QED
  BY <1>1, RegistryInvariant, PTL

-----------------------------------------------------------------------------
(* The revision.                                                           *)

\* A revision that fewer changes than its limit were added to is another one.
LEMMA BumpShows ==
    ASSUME RegistryInv, NEW n \in Nat, 0 < n, n < RevisionLimit, Bump(n)
    PROVE  revision' # revision
<1>1. PICK v : v = revision
  OBVIOUS
<1>2. PICK limit : limit = RevisionLimit
  OBVIOUS
<1>3. v \in Nat /\ limit \in Nat /\ limit > 0 /\ v < limit /\ n < limit
  BY <1>1, <1>2, Constants DEF RegistryInv, Typed
<1>4. SUFFICES (v + n) % limit # v
  BY <1>1, <1>2 DEF Bump
<1>5. PICK k \in Int : k = (v + n) \div limit
  BY <1>3
<1>6. v + n = limit * k + ((v + n) % limit)
  BY <1>3, <1>5
<1>7. SUFFICES ASSUME (v + n) % limit = v PROVE FALSE
  OBVIOUS
<1>8. n = limit * k
  BY <1>3, <1>6, <1>7
<1>9. k >= 1
  <2>1. SUFFICES ASSUME k =< 0 PROVE FALSE
    OBVIOUS
  <2>2. limit * k =< 0
    BY <1>3, <2>1
  <2> QED
    BY <1>8, <2>2
<1>10. limit * k >= limit
  BY <1>3, <1>9
<1> QED
  BY <1>3, <1>8, <1>10

LEMMA SameRegistered ==
    ASSUME NEW m, DOMAIN m = DOMAIN nodes, \A id \in DOMAIN nodes : m[id].lease = nodes[id].lease
    PROVE  Registered(m) = Registered(nodes)
  BY DEF Registered

\* If removeExpiredLocked counts nothing, it removes nothing.
LEMMA NothingRemoved ==
    ASSUME RegistryInv, NEW lag, Removed(lag) = 0
    PROVE  /\ DOMAIN removeExpiredLocked(lag) = DOMAIN nodes
           /\ \A id \in DOMAIN nodes : removeExpiredLocked(lag)[id] = nodes[id]
<1>1. PICK gone : gone = {id \in DOMAIN nodes : Expired(id, lag)}
  OBVIOUS
<1>2. gone \subseteq NodeIds /\ Cardinality(gone) = 0
  BY <1>1 DEF RegistryInv, Typed, Removed
<1>3. gone = {}
  <2>1. IsFiniteSet(gone)
    BY <1>2, FiniteNodes, FS_Subset
  <2> QED
    BY <1>2, <2>1, FS_EmptySet
<1> QED
  BY <1>1, <1>3 DEF removeExpiredLocked, Restrict

\* A step of the registry that leaves the revision alone leaves the list alone.
LEMMA ListShows ==
    ASSUME RegistryInv, Cardinality(NodeIds) + 1 < RevisionLimit, NEW lag, NEW n \in {0, 1},
           Bump(Removed(lag) + n), revision' = revision
    PROVE  Removed(lag) = 0 /\ n = 0
<1>1. /\ Removed(lag) \in Nat /\ Removed(lag) =< Cardinality(NodeIds) /\ Cardinality(NodeIds) \in Nat
      /\ RevisionLimit \in Nat
  BY Kept, FiniteNodes, Constants
<1>2. Removed(lag) + n \in Nat /\ Removed(lag) + n < RevisionLimit
  BY <1>1
<1>3. ~ (0 < Removed(lag) + n)
  BY <1>2, BumpShows
<1> QED
  BY <1>1, <1>3

LEMMA ExecuteShows ==
    ASSUME RegistryInv, Cardinality(NodeIds) + 1 < RevisionLimit, NEW r \in requests, Execute(r),
           revision' = revision
    PROVE  Registered(nodes') = Registered(nodes)
<1>1. PICK kept : kept = removeExpiredLocked(r.lag)
  OBVIOUS
<1>2. CASE Register(r)
  <2>1. Bump(Removed(r.lag) + 1)
    BY <1>2 DEF Register
  <2> QED
    BY <2>1, ListShows
<1>3. CASE Heartbeat(r)
  <2>1. Bump(Removed(r.lag) + 0)
    <3>1. Bump(Removed(r.lag)) /\ Removed(r.lag) \in Nat
      BY <1>3, Kept DEF Heartbeat
    <3> QED
      BY <3>1
  <2>2. DOMAIN kept = DOMAIN nodes /\ \A id \in DOMAIN nodes : kept[id] = nodes[id]
    BY <1>1, <2>1, ListShows, NothingRemoved
  <2>3. CASE nodes' = kept
    BY <2>2, <2>3, SameRegistered
  <2>4. CASE /\ Node(r.proc) \in DOMAIN kept /\ kept[Node(r.proc)].lease = r.lease
             /\ nodes' = Put(kept, Node(r.proc), [lease |-> r.lease, left |-> TTL - r.lag])
    <3>1. /\ DOMAIN nodes' = DOMAIN nodes
          /\ \A id \in DOMAIN nodes : nodes'[id].lease = nodes[id].lease
      BY <2>2, <2>4 DEF Put
    <3> QED
      BY <3>1, SameRegistered
  <2> QED
    BY <1>1, <1>3, <2>3, <2>4 DEF Heartbeat
<1>4. CASE Deregister(r)
  <2>1. CASE Bump(Removed(r.lag) + 1)
    BY <2>1, ListShows
  <2>2. CASE Bump(Removed(r.lag)) /\ nodes' = kept
    <3>1. Bump(Removed(r.lag) + 0)
      <4>1. Removed(r.lag) \in Nat
        BY Kept
      <4> QED
        BY <2>2, <4>1
    <3>2. DOMAIN kept = DOMAIN nodes /\ \A id \in DOMAIN nodes : kept[id] = nodes[id]
      BY <1>1, <3>1, ListShows, NothingRemoved
    <3> QED
      BY <2>2, <3>2, SameRegistered
  <2> QED
    BY <1>1, <1>4, <2>1, <2>2 DEF Deregister
<1> QED
  BY <1>2, <1>3, <1>4 DEF Execute

LEMMA StepShows ==
    ASSUME RegistryInv, Cardinality(NodeIds) + 1 < RevisionLimit, Next,
           ~ CoordinatorRestarts, revision' = revision
    PROVE  Registered(nodes') = Registered(nodes)
<1>1. CASE \E r \in requests : Execute(r)
  BY <1>1, ExecuteShows
<1>2. CASE Nodes
  <2>1. nodes' = removeExpiredLocked(0) /\ Bump(Removed(0))
    BY <1>2 DEF Nodes
  <2>2. Bump(Removed(0) + 0)
    <3>1. Removed(0) \in Nat
      BY Kept
    <3> QED
      BY <2>1, <3>1
  <2>3. DOMAIN nodes' = DOMAIN nodes /\ \A id \in DOMAIN nodes : nodes'[id] = nodes[id]
    BY <2>1, <2>2, ListShows, NothingRemoved
  <2> QED
    BY <2>3, SameRegistered
<1>3. CASE Tick
  <2>1. DOMAIN nodes' = DOMAIN nodes
    BY <1>3 DEF Tick
  <2>2. ASSUME NEW id \in DOMAIN nodes PROVE nodes'[id].lease = nodes[id].lease
    <3>1. nodes[id] \in Entry
      BY DEF RegistryInv, Typed
    <3> QED
      BY <1>3, <3>1 DEF Tick, Entry
  <2> QED
    BY <2>1, <2>2, SameRegistered
<1>4. CASE nodes' = nodes
  BY <1>4
<1>5. nodes' = nodes \/ Nodes \/ Tick \/ \E r \in requests : Execute(r)
  BY DEF Next, Arrive, Lose, Start, TickFires, Receive, CallFails, Shutdown, ProcessEnds, Settle
<1> QED
  BY <1>1, <1>2, <1>3, <1>4, <1>5

\* If the revision can count every node and one more, a change of who is registered,
\* be it a registration, a release, a takeover or an expiry, changes the revision, and a
\* renewal that changes nobody's place does not have to.
THEOREM ChangeShows ==
    ASSUME Cardinality(NodeIds) + 1 < RevisionLimit
    PROVE  Spec => RevisionShowsChange
<1>1. RegistryInv /\ [Next]_vars
        => [Registered(nodes') # Registered(nodes) /\ ~ CoordinatorRestarts => revision' # revision]_vars
  BY StepShows DEF vars
<1> QED
  BY <1>1, RegistryInvariant, PTL DEF Spec, RevisionShowsChange

=============================================================================
