---------------------------- MODULE SearchProofs -----------------------------
(***************************************************************************)
(* Proofs about the search: of the coordinator (module QueryExecutor) and  *)
(* of the indexes of a node (module HybridIndex).                          *)
(*                                                                         *)
(* For any nodes, collections and answers: the fan-out and its channels,   *)
(* the choice of a mode, and the merge of the answers in whatever order    *)
(* they come.  For any documents, queries and levels: the two indexes, the *)
(* graph and its search, and the fusion of the two rankings.  Both need    *)
(* sums over finite sets and lists in an order, so they share a module.    *)
(***************************************************************************)
EXTENDS QueryExecutor, HybridIndex, TLAPS, FiniteSetTheorems, SequenceTheorems,
        WellFoundedInduction, NaturalsInduction

-----------------------------------------------------------------------------
(* The inductive invariant.                                                *)

\* A channel is a sequence, of whatever is in it.
IsChannel(s) == s \in Seq(Range(s))

Typed ==
    /\ registered \subseteq Nodes /\ selected \subseteq Nodes /\ pending \subseteq selected
    /\ handler \in {"start", "planned", "reading", "answered", "refused"}
    /\ executor \in {"off", "running", "returned"}
    /\ worker \in [Nodes -> {"off", "searching", "ended"}]
    /\ IsChannel(responses) /\ IsChannel(updates)
    /\ DOMAIN state = {"hits", "scores", "searched", "unavailable"}

\* Nothing has started before Execute, and the handler answers when all is over.
Phases ==
    /\ handler \in {"start", "planned", "refused"} =>
        /\ executor = "off" /\ selected = {} /\ responses = << >> /\ updates = << >>
        /\ worker = [n \in Nodes |-> "off"]
        /\ DOMAIN merged = {} /\ broken = {} /\ state = EmptyState
    /\ handler \in {"reading", "answered"} => executor # "off"
    /\ handler = "answered" => executor = "returned" /\ updates = << >>

\* A goroutine sends one answer: while it searches it is not in the channel and
\* has not been counted.
Goroutines ==
    /\ \A n \in Nodes : worker[n] # "off" => n \in selected
    /\ \A n \in Nodes : worker[n] = "searching" /\ executor = "running" => n \in pending
    /\ \A n \in broken : n \in Nodes /\ worker[n] = "ended"
    /\ \A n \in DOMAIN merged : n \in selected /\ worker[n] = "ended" /\ n \notin broken
    /\ executor = "running" => \A n \in DOMAIN merged : n \notin pending

Answers ==
    /\ \A i \in 1..Len(responses) :
        /\ responses[i].node \in selected /\ worker[responses[i].node] = "ended"
        /\ executor = "running" => responses[i].node \in pending
        /\ responses[i].ok => responses[i].node \notin broken
    /\ \A i, j \in 1..Len(responses) : responses[i].node = responses[j].node => i = j

\* One update per node that is no longer pending.
Counted ==
    executor = "running" => Len(updates) + Cardinality(pending) =< Cardinality(selected)

\* The nodes that the executor has an answer or an error of.
Heard == IF executor = "running" THEN selected \ pending ELSE selected

ShardsOf(nodes) == UNION {shardIDs(n) : n \in nodes}

Accounted ==
    executor # "off" =>
        /\ state.searched = ShardsOf(DOMAIN merged)
        /\ state.unavailable = ShardsOf(Heard \ DOMAIN merged)

\* The update that the handler will end with, once the executor has returned.
Conclusion == IF updates = << >> THEN final ELSE updates[Len(updates)]

Concluded ==
    executor = "returned" =>
        /\ Conclusion.complete /\ Conclusion.searched = state.searched
        /\ Conclusion.unavailable = state.unavailable

QueryInv == Typed /\ Phases /\ Goroutines /\ Answers /\ Counted /\ Accounted /\ Concluded

-----------------------------------------------------------------------------
(* Channels.                                                               *)

LEMMA ChannelFrom ==
    ASSUME NEW S, NEW s \in Seq(S)
    PROVE  IsChannel(s)
<1>1. s \in [1..Len(s) -> Range(s)] /\ Len(s) \in Nat
  BY DEF Range
<1> QED
  BY <1>1 DEF IsChannel

LEMMA EmptyChannel == IsChannel(<< >>)
  BY EmptySeq, ChannelFrom

LEMMA AppendChannel ==
    ASSUME NEW s, IsChannel(s), NEW e
    PROVE  /\ IsChannel(Append(s, e))
           /\ Len(s) \in Nat /\ Len(Append(s, e)) = Len(s) + 1
           /\ \A i \in 1..Len(s) : Append(s, e)[i] = s[i]
           /\ Append(s, e)[Len(s) + 1] = e
           /\ Append(s, e) # << >>
<1>1. s \in Seq(Range(s) \union {e})
  BY SeqMonotonic DEF IsChannel
<1>2. Append(s, e) \in Seq(Range(s) \union {e})
  BY <1>1
<1>3. IsChannel(Append(s, e))
  BY <1>2, ChannelFrom
<1>4. /\ Len(s) \in Nat /\ Len(Append(s, e)) = Len(s) + 1
      /\ \A i \in 1..Len(s) : Append(s, e)[i] = s[i]
      /\ Append(s, e)[Len(s) + 1] = e
  BY <1>1
<1>5. Append(s, e) # << >>
  BY <1>4
<1> QED
  BY <1>3, <1>4, <1>5

LEMMA TailChannel ==
    ASSUME NEW s, IsChannel(s), s # << >>
    PROVE  /\ IsChannel(Tail(s)) /\ Head(s) = s[1]
           /\ Len(s) \in Nat /\ Len(s) >= 1 /\ Len(Tail(s)) = Len(s) - 1
           /\ \A i \in 1..Len(Tail(s)) : Tail(s)[i] = s[i + 1] /\ i + 1 \in 1..Len(s)
           /\ Tail(s) = << >> <=> Len(s) = 1
<1>1. s \in Seq(Range(s))
  BY DEF IsChannel
<1>2. Tail(s) \in Seq(Range(s)) /\ Len(Tail(s)) = Len(s) - 1 /\ Len(s) \in Nat /\ Len(s) >= 1
  BY <1>1
<1>3. IsChannel(Tail(s))
  BY <1>2, ChannelFrom
<1>4. \A i \in 1..Len(Tail(s)) : Tail(s)[i] = s[i + 1] /\ i + 1 \in 1..Len(s)
  BY <1>1, <1>2
<1>5. Tail(s) = << >> <=> Len(s) = 1
  BY <1>2, EmptySeq
<1> QED
  BY <1>1, <1>2, <1>3, <1>4, <1>5

-----------------------------------------------------------------------------
(* Shards.                                                                 *)

LEMMA ShardsUnion ==
    ASSUME NEW A, NEW B
    PROVE  ShardsOf(A \union B) = ShardsOf(A) \union ShardsOf(B)
  BY DEF ShardsOf

\* A shard names its node, so that the shards of different nodes differ.
LEMMA ShardsDisjoint ==
    ASSUME NEW A, NEW B, A \intersect B = {}
    PROVE  ShardsOf(A) \intersect ShardsOf(B) = {}
<1>1. \A n : \A x \in shardIDs(n) : x[1] = n
  BY DEF shardIDs
<1> QED
  BY <1>1 DEF ShardsOf

LEMMA StateAfter ==
    ASSUME Typed, NEW n, NEW hits, NEW nodes
    PROVE  /\ DOMAIN merge(n, hits) = DOMAIN state
           /\ merge(n, hits).searched = state.searched \union shardIDs(n)
           /\ merge(n, hits).unavailable = state.unavailable
           /\ DOMAIN markUnavailable(state, nodes) = DOMAIN state
           /\ markUnavailable(state, nodes).searched = state.searched
           /\ markUnavailable(state, nodes).unavailable = state.unavailable \union ShardsOf(nodes)
<1>1. /\ "hits" \in DOMAIN state /\ "scores" \in DOMAIN state /\ "searched" \in DOMAIN state
      /\ "unavailable" \in DOMAIN state
  BY DEF Typed
<1> QED
  BY <1>1 DEF merge, markUnavailable, ShardsOf

LEMMA UpdateOf ==
    ASSUME NEW s, NEW complete
    PROVE  /\ Update(s, complete).complete = complete
           /\ Update(s, complete).searched = s.searched
           /\ Update(s, complete).unavailable = s.unavailable
  BY DEF Update

-----------------------------------------------------------------------------
(* The channels have room.                                                 *)

LEMMA FiniteNodes ==
    ASSUME Typed
    PROVE  /\ IsFiniteSet(selected) /\ Cardinality(selected) \in Nat
           /\ IsFiniteSet(pending) /\ Cardinality(pending) \in Nat
<1>1. IsFiniteSet(selected)
  BY FS_Subset, ExecutorAssumption DEF Typed
<1>2. IsFiniteSet(pending)
  BY <1>1, FS_Subset DEF Typed
<1> QED
  BY <1>1, <1>2, FS_CardinalityType

\* The answers in the channel are those of different nodes that have ended.
LEMMA RoomForAnswer ==
    ASSUME Typed, Goroutines, Answers, NEW n \in Nodes, worker[n] = "searching"
    PROVE  Len(responses) < Cardinality(selected)
<1> DEFINE others == selected \ {n}
           place == [i \in 1..Len(responses) |-> responses[i].node]
<1>1. Len(responses) \in Nat
  BY DEF Typed, IsChannel
<1>2. n \in selected
  BY DEF Goroutines
<1>3. IsFiniteSet(others) /\ Cardinality(others) = Cardinality(selected) - 1
      /\ Cardinality(selected) \in Nat
  BY <1>2, FiniteNodes, FS_RemoveElement
<1>4. \A i \in 1..Len(responses) : responses[i].node \in others
  BY DEF Answers
<1>5. place \in [1..Len(responses) -> others]
  BY <1>4
<1>6. \A i, j \in 1..Len(responses) : place[i] = place[j] => i = j
  BY DEF Answers
<1>7. place \in Injection(1..Len(responses), others)
  BY <1>5, <1>6 DEF Injection, IsInjective
<1>8. Cardinality(1..Len(responses)) =< Cardinality(others)
  BY <1>3, <1>7, FS_Injection
<1>9. Cardinality(1..Len(responses)) = Len(responses)
  <2>1. \A k \in Nat : Cardinality(1..k) = k
    <3> TAKE k \in Nat
    <3>1. 1 \in Int /\ k \in Int /\ (1 > k => k = 0) /\ k - 1 + 1 = k
      OBVIOUS
    <3>2. Cardinality(1..k) = IF 1 > k THEN 0 ELSE k - 1 + 1
      BY <3>1, FS_Interval, Zenon
    <3> QED
      BY <3>1, <3>2
  <2> QED
    BY <1>1, <2>1
<1> QED
  BY <1>1, <1>3, <1>8, <1>9

LEMMA RoomForUpdate ==
    ASSUME Typed, Counted, executor = "running"
    PROVE  Len(updates) < Capacity
<1>1. Len(updates) \in Nat
  BY DEF Typed, IsChannel
<1> QED
  BY <1>1, FiniteNodes DEF Counted, Capacity

-----------------------------------------------------------------------------
(* The steps.                                                              *)

\* Shards are those of the request, which stays.
LEMMA AccountedKept ==
    ASSUME Accounted, UNCHANGED <<request, selected, pending, executor, state, merged>>
    PROVE  Accounted'
<1>1. Heard' = Heard
  BY DEF Heard
<1>2. /\ ShardsOf(DOMAIN merged)' = ShardsOf(DOMAIN merged)
      /\ ShardsOf(Heard \ DOMAIN merged)' = ShardsOf(Heard \ DOMAIN merged)
  BY <1>1 DEF ShardsOf, shardIDs
<1> QED
  BY <1>2 DEF Accounted

\* Steps that leave the executor and its goroutines alone.
LEMMA KeepsOutside ==
    ASSUME QueryInv, registered' \subseteq Nodes,
           UNCHANGED <<request, selected, pending, executor, worker, responses, updates, state,
                       merged, broken, final>>,
           \/ handler' = handler
           \/ handler = "start" /\ handler' \in {"planned", "refused"}
           \/ handler = "reading" /\ handler' = "answered" /\ executor = "returned" /\ updates = << >>
    PROVE  QueryInv'
<1>1. Typed' /\ Phases' /\ Goroutines' /\ Answers' /\ Counted'
  BY DEF QueryInv, Typed, Phases, Goroutines, Answers, Counted
<1>2. Accounted'
  BY AccountedKept DEF QueryInv
<1>3. Concluded'
  BY DEF QueryInv, Concluded, Conclusion
<1> QED
  BY <1>1, <1>2, <1>3 DEF QueryInv

LEMMA KeepsExecute ==
    ASSUME QueryInv, Execute
    PROVE  QueryInv'
<1>0. Typed /\ Phases
  BY DEF QueryInv
<1>1. /\ executor = "off" /\ selected = {} /\ responses = << >> /\ updates = << >>
      /\ DOMAIN merged = {} /\ broken = {} /\ state = EmptyState
  BY <1>0 DEF Execute, Phases
<1>2. /\ handler' = "reading" /\ selected' = Matching /\ pending' = Matching
      /\ worker' = [n \in Nodes |-> IF n \in Matching THEN "searching" ELSE "off"]
      /\ UNCHANGED <<registered, request, broken, responses, state, final, merged>>
      /\ Matching \subseteq Nodes
  BY <1>0 DEF Execute, Matching, Typed
<1>3. CASE Matching = {}
  <2>1. executor' = "returned" /\ updates' = <<Update(state, TRUE)>>
    BY <1>3 DEF Execute
  <2>2. IsChannel(updates') /\ updates' # << >> /\ updates'[Len(updates')] = Update(state, TRUE)
    <3>1. updates' \in Seq({Update(state, TRUE)}) /\ Len(updates') = 1
          /\ updates'[1] = Update(state, TRUE)
      BY <2>1
    <3> QED
      BY <3>1, ChannelFrom
  <2>3. Typed'
    BY <1>0, <1>2, <2>1, <2>2 DEF Typed
  <2>4. Phases' /\ Goroutines' /\ Answers' /\ Counted'
    BY <1>1, <1>2, <1>3, <2>1 DEF Phases, Goroutines, Answers, Counted
  <2>5. Accounted'
    BY <1>1, <1>2, <1>3 DEF Accounted, ShardsOf, Heard, EmptyState
  <2>6. Concluded'
    <3>1. Conclusion' = Update(state, TRUE) /\ state' = state
      BY <1>2, <2>2 DEF Conclusion
    <3>2. /\ Conclusion'.complete
          /\ Conclusion'.searched = state'.searched
          /\ Conclusion'.unavailable = state'.unavailable
      BY <3>1 DEF Update
    <3> QED
      BY <3>2 DEF Concluded
  <2> QED
    BY <2>3, <2>4, <2>5, <2>6 DEF QueryInv
<1>4. CASE Matching # {}
  <2>1. executor' = "running" /\ updates' = << >>
    BY <1>1, <1>4 DEF Execute
  <2>2. Typed'
    BY <1>0, <1>2, <2>1, EmptyChannel DEF Typed
  <2>3. Phases' /\ Goroutines' /\ Answers'
    BY <1>1, <1>2, <2>1 DEF Phases, Goroutines, Answers
  <2>4. Counted'
    <3>1. Cardinality(Matching) \in Nat
      BY <1>2, FS_Subset, FS_CardinalityType, ExecutorAssumption
    <3> QED
      BY <1>2, <2>1, <3>1 DEF Counted
  <2>5. Accounted' /\ Concluded'
    BY <1>1, <1>2, <2>1 DEF Accounted, ShardsOf, Heard, EmptyState, Concluded
  <2> QED
    BY <2>2, <2>3, <2>4, <2>5 DEF QueryInv
<1> QED
  BY <1>3, <1>4

\* A goroutine ends, with or without an answer.
LEMMA KeepsSend ==
    ASSUME QueryInv, NEW n \in Nodes, NEW ok \in BOOLEAN, NEW hits, Send(n, ok, hits),
           broken' = IF ok THEN broken ELSE broken \union {n}
    PROVE  QueryInv'
<1>0. Typed /\ Phases /\ Goroutines /\ Answers /\ worker[n] = "searching"
  BY DEF QueryInv, Send
<1> DEFINE r == [node |-> n, ok |-> ok, hits |-> hits]
<1>1. /\ responses' = Append(responses, r) /\ worker' = [worker EXCEPT ![n] = "ended"]
      /\ UNCHANGED <<registered, request, selected, handler, executor, pending, state, merged,
                     updates, final>>
  BY DEF Send, requestVars, executorVars
<1>2. r.node = n /\ r.ok = ok
  OBVIOUS
<1> HIDE DEF r
<1>3. /\ IsChannel(responses') /\ Len(responses) \in Nat /\ Len(responses') = Len(responses) + 1
      /\ \A i \in 1..Len(responses) : responses'[i] = responses[i]
      /\ responses'[Len(responses) + 1] = r
  BY <1>0, <1>1, AppendChannel DEF Typed
<1>4. n \in selected /\ (executor = "running" => n \in pending) /\ n \notin broken
      /\ n \notin DOMAIN merged
  BY <1>0 DEF Goroutines
<1>5. worker'[n] = "ended" /\ \A m \in Nodes : m # n => worker'[m] = worker[m]
  BY <1>0, <1>1 DEF Typed
<1>6. Typed'
  BY <1>0, <1>1, <1>3 DEF Typed
<1>7. Phases'
  BY <1>0, <1>1 DEF Phases
<1>8. Goroutines'
  BY <1>0, <1>1, <1>4, <1>5 DEF Goroutines, Typed
<1>9. Answers'
  <2>1. \A i \in 1..Len(responses) : responses[i].node # n /\ responses[i].node \in Nodes
    BY <1>0 DEF Answers, Typed
  <2>2. ASSUME NEW i \in 1..Len(responses')
        PROVE  \/ i \in 1..Len(responses) /\ responses'[i] = responses[i]
               \/ i = Len(responses) + 1 /\ responses'[i] = r
    BY <1>3
  <2>3. ASSUME NEW i \in 1..Len(responses')
        PROVE  /\ responses'[i].node \in selected' /\ worker'[responses'[i].node] = "ended"
               /\ executor' = "running" => responses'[i].node \in pending'
               /\ responses'[i].ok => responses'[i].node \notin broken'
    <3>1. CASE i \in 1..Len(responses) /\ responses'[i] = responses[i]
      BY <1>0, <1>1, <1>5, <2>1, <3>1 DEF Answers
    <3>2. CASE responses'[i] = r
      BY <1>1, <1>2, <1>4, <1>5, <3>2
    <3> QED
      BY <2>2, <3>1, <3>2
  <2>4. ASSUME NEW i \in 1..Len(responses'), NEW j \in 1..Len(responses'),
               responses'[i].node = responses'[j].node
        PROVE  i = j
    <3>1. CASE i \in 1..Len(responses) /\ j \in 1..Len(responses)
      BY <1>0, <1>3, <2>4, <3>1 DEF Answers
    <3>2. CASE i \notin 1..Len(responses) \/ j \notin 1..Len(responses)
      BY <1>2, <1>3, <2>1, <2>2, <2>4, <3>2
    <3> QED
      BY <3>1, <3>2
  <2> QED
    BY <2>3, <2>4 DEF Answers
<1>10. Counted'
  BY <1>1 DEF QueryInv, Counted
<1>11. Accounted'
  BY <1>1, AccountedKept DEF QueryInv
<1>12. Concluded'
  BY <1>1 DEF QueryInv, Concluded, Conclusion
<1> QED
  BY <1>6, <1>7, <1>8, <1>9, <1>10, <1>11, <1>12 DEF QueryInv

LEMMA KeepsGiveUp ==
    ASSUME QueryInv, NEW n \in Nodes, GiveUp(n)
    PROVE  QueryInv'
<1>0. Typed /\ Phases /\ Goroutines /\ Answers /\ worker[n] = "searching"
  BY DEF QueryInv, GiveUp
<1>1. /\ worker' = [worker EXCEPT ![n] = "ended"]
      /\ UNCHANGED <<registered, request, selected, handler, executor, pending, state, merged,
                     updates, final, broken, responses>>
  BY DEF GiveUp, requestVars, executorVars
<1>2. worker'[n] = "ended" /\ \A m \in Nodes : m # n => worker'[m] = worker[m]
  BY <1>0, <1>1 DEF Typed
<1>3. Typed' /\ Phases'
  BY <1>0, <1>1 DEF Typed, Phases
<1>4. Goroutines'
  BY <1>0, <1>1, <1>2 DEF Goroutines, Typed
<1>5. Answers'
  <2>1. \A i \in 1..Len(responses) : responses[i].node \in Nodes
    BY <1>0 DEF Answers, Typed
  <2> QED
    BY <1>0, <1>1, <1>2, <2>1 DEF Answers
<1>6. Counted'
  BY <1>1 DEF QueryInv, Counted
<1>7. Accounted'
  BY <1>1, AccountedKept DEF QueryInv
<1>8. Concluded'
  BY <1>1 DEF QueryInv, Concluded, Conclusion
<1> QED
  BY <1>3, <1>4, <1>5, <1>6, <1>7, <1>8 DEF QueryInv

\* The executor takes an answer from the channel: a node leaves pending and an update
\* goes out, which is complete if no node is pending any more.
LEMMA KeepsReceive ==
    ASSUME QueryInv, Receive
    PROVE  QueryInv'
<1> DEFINE r == Head(responses)
           n == r.node
           rest == pending \ {n}
           s == IF r.ok THEN merge(n, r.hits) ELSE markUnavailable(state, {n})
           u == Update(s, rest = {})
<1>0. Typed /\ Phases /\ Goroutines /\ Answers /\ Counted /\ Accounted
  BY DEF QueryInv
<1>1. /\ executor = "running" /\ responses # << >> /\ pending' = rest /\ state' = s
      /\ merged' = IF r.ok THEN [m \in DOMAIN merged \union {n} |->
                                    IF m = n THEN r.hits ELSE merged[m]]
                   ELSE merged
      /\ updates' = Append(updates, u)
      /\ executor' = IF rest = {} THEN "returned" ELSE "running"
      /\ responses' = Tail(responses)
      /\ UNCHANGED <<registered, request, selected, handler, worker, broken, final>>
  BY DEF Receive, requestVars, callVars
<1>2. /\ IsChannel(responses') /\ r = responses[1] /\ Len(responses) \in Nat /\ Len(responses) >= 1
      /\ \A i \in 1..Len(responses') : responses'[i] = responses[i + 1] /\ i + 1 \in 1..Len(responses)
  BY <1>0, <1>1, TailChannel DEF Typed
<1>3. /\ IsChannel(updates') /\ Len(updates) \in Nat /\ Len(updates') = Len(updates) + 1
      /\ updates'[Len(updates) + 1] = u /\ updates' # << >>
  BY <1>0, <1>1, AppendChannel DEF Typed
<1>4. 1 \in 1..Len(responses)
  BY <1>2
<1>5. n \in pending /\ n \in selected /\ worker[n] = "ended" /\ (r.ok => n \notin broken)
  BY <1>0, <1>1, <1>2, <1>4 DEF Answers
<1>6. /\ u.complete <=> rest = {}
      /\ u.searched = s.searched /\ u.unavailable = s.unavailable
  BY DEF Update
<1>7. /\ DOMAIN s = DOMAIN state
      /\ s.searched = IF r.ok THEN state.searched \union shardIDs(n) ELSE state.searched
      /\ s.unavailable = IF r.ok THEN state.unavailable ELSE state.unavailable \union ShardsOf({n})
  BY <1>0, StateAfter
<1>8. DOMAIN merged' = IF r.ok THEN DOMAIN merged \union {n} ELSE DOMAIN merged
  BY <1>1
<1> HIDE DEF s, u, r
<1>9. Typed'
  BY <1>0, <1>1, <1>2, <1>3, <1>7 DEF Typed
<1>10. Phases'
  BY <1>0, <1>1 DEF Phases
<1>11. Goroutines'
  <2>1. \A m \in Nodes : worker[m] = "searching" /\ executor' = "running" => m \in pending'
    BY <1>0, <1>1, <1>5 DEF Goroutines
  <2>2. \A m \in DOMAIN merged' : m \in selected /\ worker[m] = "ended" /\ m \notin broken
    BY <1>0, <1>5, <1>8 DEF Goroutines
  <2>3. executor' = "running" => \A m \in DOMAIN merged' : m \notin pending'
    BY <1>0, <1>1, <1>8 DEF Goroutines
  <2> QED
    BY <1>0, <1>1, <2>1, <2>2, <2>3 DEF Goroutines
<1>12. Answers'
  <2>1. ASSUME NEW i \in 1..Len(responses')
        PROVE  /\ responses'[i].node \in selected /\ worker[responses'[i].node] = "ended"
               /\ responses'[i].node \in pending'
               /\ responses'[i].ok => responses'[i].node \notin broken
    <3>1. i + 1 \in 1..Len(responses) /\ responses'[i] = responses[i + 1] /\ i + 1 # 1
      BY <1>2
    <3>2. responses[i + 1].node # n
      BY <1>0, <1>2, <1>4, <3>1 DEF Answers
    <3> QED
      BY <1>0, <1>1, <3>1, <3>2 DEF Answers
  <2>2. ASSUME NEW i \in 1..Len(responses'), NEW j \in 1..Len(responses'),
               responses'[i].node = responses'[j].node
        PROVE  i = j
    <3>1. /\ i + 1 \in 1..Len(responses) /\ responses'[i] = responses[i + 1]
          /\ j + 1 \in 1..Len(responses) /\ responses'[j] = responses[j + 1]
      BY <1>2
    <3>2. i + 1 = j + 1
      BY <1>0, <2>2, <3>1 DEF Answers
    <3> QED
      BY <3>2
  <2> QED
    BY <1>1, <2>1, <2>2 DEF Answers
<1>13. Counted'
  <2>1. Cardinality(rest) = Cardinality(pending) - 1 /\ Cardinality(pending) \in Nat
    BY <1>0, <1>5, FiniteNodes, FS_RemoveElement
  <2>2. Cardinality(selected) \in Nat
    BY <1>0, FiniteNodes
  <2>3. Len(updates) + Cardinality(pending) =< Cardinality(selected)
    BY <1>0, <1>1 DEF Counted
  <2>4. Len(updates') + Cardinality(rest) =< Cardinality(selected)
    BY <1>3, <2>1, <2>2, <2>3
  <2> QED
    BY <1>1, <2>4 DEF Counted
<1>14. Accounted'
  <2>1. /\ state.searched = ShardsOf(DOMAIN merged)
        /\ state.unavailable = ShardsOf((selected \ pending) \ DOMAIN merged)
    BY <1>0, <1>1 DEF Accounted, Heard
  <2>2. Heard' = (selected \ pending) \union {n}
    BY <1>1, <1>5 DEF Heard
  <2>3. n \notin DOMAIN merged
    BY <1>0, <1>1, <1>5 DEF Goroutines
  <2>4. /\ state'.searched = ShardsOf(DOMAIN merged')
        /\ state'.unavailable = ShardsOf(Heard' \ DOMAIN merged')
    <3>1. CASE r.ok
      <4>1. DOMAIN merged' = DOMAIN merged \union {n}
        BY <1>8, <3>1
      <4>2. Heard' \ DOMAIN merged' = (selected \ pending) \ DOMAIN merged
        BY <1>5, <2>2, <4>1
      <4>3. ShardsOf({n}) = shardIDs(n)
        BY DEF ShardsOf
      <4>4. /\ state'.searched = ShardsOf(DOMAIN merged) \union ShardsOf({n})
            /\ state'.unavailable = ShardsOf((selected \ pending) \ DOMAIN merged)
        BY <1>1, <1>7, <2>1, <3>1, <4>3
      <4>5. ShardsOf(DOMAIN merged) \union ShardsOf({n}) = ShardsOf(DOMAIN merged')
        BY <4>1, ShardsUnion
      <4> QED
        BY <4>2, <4>4, <4>5
    <3>2. CASE ~r.ok
      <4>1. DOMAIN merged' = DOMAIN merged
        BY <1>8, <3>2
      <4>2. Heard' \ DOMAIN merged' = ((selected \ pending) \ DOMAIN merged) \union {n}
        BY <2>2, <2>3, <4>1
      <4> QED
        BY <1>1, <1>7, <2>1, <3>2, <4>1, <4>2, ShardsUnion
    <3> QED
      BY <3>1, <3>2
  <2>5. /\ ShardsOf(DOMAIN merged)' = ShardsOf(DOMAIN merged')
        /\ ShardsOf(Heard \ DOMAIN merged)' = ShardsOf(Heard' \ DOMAIN merged')
    BY <1>1 DEF ShardsOf, shardIDs
  <2> QED
    BY <2>4, <2>5 DEF Accounted
<1>15. Concluded'
  <2>1. Conclusion' = u
    BY <1>3 DEF Conclusion
  <2> QED
    BY <1>1, <1>6, <2>1 DEF Concluded
<1> QED
  BY <1>9, <1>10, <1>11, <1>12, <1>13, <1>14, <1>15 DEF QueryInv

\* The context has ended: the pending nodes are unavailable.
LEMMA KeepsStop ==
    ASSUME QueryInv, Stop
    PROVE  QueryInv'
<1> DEFINE s == markUnavailable(state, pending)
           u == Update(s, TRUE)
<1>0. Typed /\ Phases /\ Goroutines /\ Answers /\ Accounted
  BY DEF QueryInv
<1>1. /\ executor = "running" /\ executor' = "returned" /\ state' = s
      /\ updates' = Append(updates, u)
      /\ UNCHANGED <<registered, request, selected, handler, worker, broken, final, pending,
                     responses, merged>>
  BY DEF Stop, requestVars, callVars
<1>2. /\ IsChannel(updates') /\ Len(updates) \in Nat /\ Len(updates') = Len(updates) + 1
      /\ updates'[Len(updates) + 1] = u /\ updates' # << >>
  BY <1>0, <1>1, AppendChannel DEF Typed
<1>3. u.complete /\ u.searched = s.searched /\ u.unavailable = s.unavailable
  BY DEF Update
<1>4. /\ DOMAIN s = DOMAIN state /\ s.searched = state.searched
      /\ s.unavailable = state.unavailable \union ShardsOf(pending)
  BY <1>0, StateAfter
<1> HIDE DEF s, u
<1>5. Typed'
  BY <1>0, <1>1, <1>2, <1>4 DEF Typed
<1>6. Phases' /\ Goroutines' /\ Answers' /\ Counted'
  BY <1>0, <1>1 DEF Phases, Goroutines, Answers, Counted
<1>7. Accounted'
  <2>1. /\ state.searched = ShardsOf(DOMAIN merged)
        /\ state.unavailable = ShardsOf((selected \ pending) \ DOMAIN merged)
    BY <1>0, <1>1 DEF Accounted, Heard
  <2>2. ((selected \ pending) \ DOMAIN merged) \union pending = selected \ DOMAIN merged
    BY <1>0, <1>1 DEF Typed, Goroutines
  <2>3. state'.unavailable = ShardsOf(selected \ DOMAIN merged)
    BY <1>1, <1>4, <2>1, <2>2, ShardsUnion
  <2>4. /\ ShardsOf(DOMAIN merged)' = ShardsOf(DOMAIN merged)
        /\ ShardsOf(selected \ DOMAIN merged)' = ShardsOf(selected \ DOMAIN merged)
    BY <1>1 DEF ShardsOf, shardIDs
  <2> QED
    BY <1>1, <1>4, <2>1, <2>3, <2>4 DEF Accounted, Heard
<1>8. Concluded'
  <2>1. Conclusion' = u
    BY <1>2 DEF Conclusion
  <2> QED
    BY <1>1, <1>3, <2>1 DEF Concluded
<1> QED
  BY <1>5, <1>6, <1>7, <1>8 DEF QueryInv

\* Reading an update leaves the last one.
LEMMA ReadConclusion ==
    ASSUME Typed, Read
    PROVE  Conclusion' = Conclusion
<1>1. updates # << >> /\ final' = Head(updates) /\ updates' = Tail(updates)
  BY DEF Read
<1>2. /\ Head(updates) = updates[1]
      /\ Len(updates) \in Nat /\ Len(updates) >= 1 /\ Len(updates') = Len(updates) - 1
      /\ \A i \in 1..Len(updates') : updates'[i] = updates[i + 1]
      /\ updates' = << >> <=> Len(updates) = 1
  BY <1>1, TailChannel DEF Typed
<1>3. CASE Len(updates) = 1
  BY <1>1, <1>2, <1>3 DEF Conclusion
<1>4. CASE Len(updates) # 1
  <2>1. Len(updates') \in 1..Len(updates') /\ Len(updates') + 1 = Len(updates)
    BY <1>2, <1>4
  <2>2. updates'[Len(updates')] = updates[Len(updates)]
    BY <1>2, <2>1
  <2> QED
    BY <1>1, <1>2, <1>4, <2>2 DEF Conclusion
<1> QED
  BY <1>3, <1>4

LEMMA KeepsRead ==
    ASSUME QueryInv, Read
    PROVE  QueryInv'
<1>0. Typed /\ Phases /\ Counted /\ Concluded
  BY DEF QueryInv
<1>1. /\ updates # << >> /\ final' = Head(updates) /\ updates' = Tail(updates)
      /\ handler = "reading"
      /\ UNCHANGED <<registered, request, selected, handler, worker, broken, responses,
                     executor, pending, state, merged>>
  BY DEF Read, requestVars, callVars, executorVars
<1>2. /\ IsChannel(updates') /\ Head(updates) = updates[1]
      /\ Len(updates) \in Nat /\ Len(updates) >= 1 /\ Len(updates') = Len(updates) - 1
      /\ \A i \in 1..Len(updates') : updates'[i] = updates[i + 1]
      /\ updates' = << >> <=> Len(updates) = 1
  BY <1>0, <1>1, TailChannel DEF Typed
<1>3. Typed' /\ Phases'
  BY <1>0, <1>1, <1>2 DEF Typed, Phases
<1>4. Goroutines' /\ Answers'
  BY <1>1 DEF QueryInv, Goroutines, Answers
<1>5. Counted'
  BY <1>0, <1>1, <1>2, FiniteNodes DEF Counted
<1>6. Accounted'
  BY <1>1, AccountedKept DEF QueryInv
<1>7. Concluded'
  <2>1. Conclusion' = Conclusion
    BY <1>0, ReadConclusion
  <2> QED
    BY <1>0, <1>1, <2>1 DEF Concluded
<1> QED
  BY <1>3, <1>4, <1>5, <1>6, <1>7 DEF QueryInv

-----------------------------------------------------------------------------
(* The theorems.                                                           *)

LEMMA QueryInit ==
    ASSUME Init PROVE QueryInv
<1>1. Typed
  BY EmptyChannel DEF Init, Typed, EmptyState
<1>2. Phases /\ Goroutines /\ Answers /\ Counted /\ Accounted /\ Concluded
  BY DEF Init, Phases, Goroutines, Answers, Counted, Accounted, Concluded
<1> QED
  BY <1>1, <1>2 DEF QueryInv

LEMMA QueryStep ==
    ASSUME QueryInv, [Next]_vars PROVE QueryInv'
<1>0. registered \subseteq Nodes
  BY DEF QueryInv, Typed
<1> USE DEF requestVars, executorVars, callVars
<1>1. CASE UNCHANGED vars
  BY <1>0, <1>1, KeepsOutside DEF vars
<1>2. CASE RegistryChanges
  <2>1. registered' \subseteq Nodes
    BY <1>0, <1>2 DEF RegistryChanges, SymDiff
  <2> QED
    BY <1>2, <2>1, KeepsOutside DEF RegistryChanges
<1>3. CASE Refuse
  BY <1>0, <1>3, KeepsOutside DEF Refuse
<1>4. ASSUME NEW ask \in Asks, Plan(ask) PROVE QueryInv'
  <2>1. handler = "start" /\ handler' \in {"planned", "refused"}
    BY <1>4 DEF Plan
  <2> QED
    BY <1>0, <1>4, <2>1, KeepsOutside DEF Plan
<1>5. CASE Execute
  BY <1>5, KeepsExecute
<1>6. CASE ContextEnds
  BY <1>0, <1>6, KeepsOutside DEF ContextEnds
<1>7. ASSUME NEW n \in Nodes, Recv(n) PROVE QueryInv'
  BY <1>0, <1>7, KeepsOutside DEF Recv
<1>8. ASSUME NEW n \in Nodes, Respond(n) PROVE QueryInv'
  BY <1>8, KeepsSend DEF Respond
<1>9. ASSUME NEW n \in Nodes, RespondError(n) PROVE QueryInv'
  BY <1>9, KeepsSend DEF RespondError
<1>10. ASSUME NEW n \in Nodes, GiveUp(n) PROVE QueryInv'
  BY <1>10, KeepsGiveUp
<1>11. CASE Receive
  BY <1>11, KeepsReceive
<1>12. CASE Stop
  BY <1>12, KeepsStop
<1>13. CASE Read
  BY <1>13, KeepsRead
<1>14. CASE AnswerRequest
  BY <1>0, <1>14, KeepsOutside DEF AnswerRequest
<1> QED
  BY <1>1, <1>2, <1>3, <1>4, <1>5, <1>6, <1>7, <1>8, <1>9, <1>10, <1>11, <1>12, <1>13, <1>14 DEF Next

\* The invariant of the fan-out holds for ever: every goroutine sends at most one
\* answer, every selected node is pending, searched or unavailable, and the last
\* update is the state of the merge.
THEOREM QueryInvariant == Spec => []QueryInv
  BY QueryInit, QueryStep, PTL DEF Spec

\* Neither the goroutines nor the executor ever wait for room in a channel, for any
\* number of nodes (make(chan Update, len(nodes)+1), executor.go).
THEOREM ChannelRoom == Spec => []ChannelsHaveRoom
<1>1. ASSUME QueryInv PROVE ChannelsHaveRoom
  BY <1>1, RoomForAnswer, RoomForUpdate DEF QueryInv, ChannelsHaveRoom
<1> QED
  BY <1>1, QueryInvariant, PTL

\* An answer accounts for every shard of every selected node, as searched or as
\* unavailable and not as both, and for none of a broken stream as searched.
THEOREM AnswerCovers == Spec => []AnswerCoversSelection
<1>1. ASSUME QueryInv PROVE AnswerCoversSelection
  <2>1. SUFFICES ASSUME handler = "answered"
                 PROVE  /\ final.complete
                        /\ final.searched \union final.unavailable = Shards
                        /\ final.searched \intersect final.unavailable = {}
                        /\ \A n \in broken \intersect selected : shardIDs(n) \subseteq final.unavailable
    BY DEF AnswerCoversSelection
  <2>2. executor = "returned" /\ updates = << >> /\ DOMAIN merged \subseteq selected
    BY <1>1, <2>1 DEF QueryInv, Phases, Goroutines
  <2>3. final.complete /\ final.searched = state.searched /\ final.unavailable = state.unavailable
    BY <1>1, <2>2 DEF QueryInv, Concluded, Conclusion
  <2>4. /\ state.searched = ShardsOf(DOMAIN merged)
        /\ state.unavailable = ShardsOf(selected \ DOMAIN merged)
    BY <1>1, <2>2 DEF QueryInv, Accounted, Heard
  <2>5. Shards = ShardsOf(DOMAIN merged \union (selected \ DOMAIN merged))
    BY <2>2 DEF Shards, ShardsOf
  <2>6. final.searched \union final.unavailable = Shards
    BY <2>3, <2>4, <2>5, ShardsUnion
  <2>7. final.searched \intersect final.unavailable = {}
    <3>1. DOMAIN merged \intersect (selected \ DOMAIN merged) = {}
      OBVIOUS
    <3> QED
      BY <2>3, <2>4, <3>1, ShardsDisjoint
  <2>8. ASSUME NEW n \in broken \intersect selected PROVE shardIDs(n) \subseteq final.unavailable
    <3>1. n \in selected \ DOMAIN merged
      BY <1>1 DEF QueryInv, Goroutines
    <3> QED
      BY <2>3, <2>4, <3>1 DEF ShardsOf
  <2> QED
    BY <2>3, <2>6, <2>7, <2>8
<1> QED
  BY <1>1, QueryInvariant, PTL

-----------------------------------------------------------------------------
(* The plan: more time, or more nodes ready for vectors, makes no worse.   *)

Healths == {h \in [available : Nat \ {0}, vectorReady : Nat] : h.vectorReady =< h.available}

\* What is expected of a strategy for a query, of a node that serves it.
Quality(strategy, features) == Baseline[strategy].quality + Bonus(strategy, features)
Share(strategy, health) == IF strategy = "lexical" THEN health.available ELSE health.vectorReady

LEMMA Products ==
    ASSUME NEW a \in Nat, NEW b \in Nat, NEW c \in Nat, NEW d \in Nat, a =< b, c =< d
    PROVE  a * c =< b * d /\ a * c \in Nat /\ b * d \in Nat
<1>1. a * c =< b * c
  BY SMT
<1>2. b * c =< b * d
  BY SMT
<1>3. a * c \in Nat /\ b * c \in Nat /\ b * d \in Nat
  BY SMT
<1> QED
  BY <1>1, <1>2, <1>3

LEMMA QualityRange ==
    ASSUME NEW s \in Strategies, NEW f \in Features
    PROVE  Quality(s, f) \in 1..100
<1>1. f.exact \in BOOLEAN /\ f.natural \in BOOLEAN
  BY DEF Features
<1>2. CASE s = "lexical"
  BY <1>1, <1>2 DEF Quality, Baseline, Bonus
<1>3. CASE s = "vector"
  BY <1>1, <1>3 DEF Quality, Baseline, Bonus
<1>4. CASE s = "hybrid"
  BY <1>1, <1>4 DEF Quality, Baseline, Bonus
<1> QED
  BY <1>2, <1>3, <1>4 DEF Strategies

LEMMA ClampIs ==
    ASSUME NEW x \in Nat, NEW y \in Nat, x =< y
    PROVE  Max({0, Min({y, x})}) = x
<1>1. Min({y, x}) = x
  <2>1. \E z \in {y, x} : \A w \in {y, x} : z =< w
    OBVIOUS
  <2>2. Min({y, x}) \in {y, x} /\ \A w \in {y, x} : Min({y, x}) =< w
    BY <2>1 DEF Min
  <2> QED
    BY <2>2
<1>2. Max({0, x}) = x
  <2>1. \E z \in {0, x} : \A w \in {0, x} : z >= w
    OBVIOUS
  <2>2. Max({0, x}) \in {0, x} /\ \A w \in {0, x} : Max({0, x}) >= w
    BY <2>1 DEF Max
  <2> QED
    BY <2>2
<1> QED
  BY <1>1, <1>2

\* No quality is clamped.
LEMMA QualityIs ==
    ASSUME NEW s \in Strategies, NEW f \in Features, NEW h \in Healths
    PROVE  /\ adjustedQuality(s, f, h) = Quality(s, f) * Share(s, h)
           /\ adjustedQuality(s, f, h) \in Nat
<1>1. h.available \in Nat /\ h.vectorReady \in Nat /\ h.vectorReady =< h.available
  BY DEF Healths
<1>2. Share(s, h) \in Nat /\ Share(s, h) =< h.available
  BY <1>1 DEF Share
<1>3. Quality(s, f) \in Nat /\ Quality(s, f) =< 100
  BY QualityRange
<1>4. /\ Quality(s, f) * Share(s, h) =< 100 * h.available
      /\ Quality(s, f) * Share(s, h) \in Nat /\ 100 * h.available \in Nat
  BY <1>1, <1>2, <1>3, Products
<1>5. adjustedQuality(s, f, h) = Max({0, Min({100 * h.available, Quality(s, f) * Share(s, h)})})
  BY DEF adjustedQuality, Quality, Share
<1> QED
  BY <1>4, <1>5, ClampIs

LEMMA ScaleIs ==
    ASSUME NEW h \in Healths
    PROVE  /\ LatencyScale(h) = IF h.vectorReady = 0 THEN 1 ELSE h.vectorReady
           /\ LatencyScale(h) \in Nat /\ LatencyScale(h) >= 1
<1>1. h.vectorReady \in Nat
  BY DEF Healths
<1>2. \E z \in {1, h.vectorReady} : \A w \in {1, h.vectorReady} : z >= w
  BY <1>1
<1>3. /\ LatencyScale(h) \in {1, h.vectorReady}
      /\ \A w \in {1, h.vectorReady} : LatencyScale(h) >= w
  BY <1>2 DEF LatencyScale, Max
<1> QED
  BY <1>1, <1>3

LEMMA LatencyTyped ==
    ASSUME NEW s \in Strategies, NEW h \in Healths
    PROVE  healthAdjustedLatency(s, h) \in Nat
<1>1. Baseline[s].p95 \in Nat
  BY DEF Strategies, Baseline
<1>2. (IF s = "lexical" THEN LatencyScale(h) ELSE h.available) \in Nat
  BY ScaleIs DEF Healths
<1> QED
  BY <1>1, <1>2, Products DEF healthAdjustedLatency

\* The order of the candidates picks one of the best quality.
LEMMA ChoiceIsBest ==
    ASSUME NEW f \in Features, NEW h \in Healths, NEW candidates \in SUBSET Strategies,
           candidates # {}
    PROVE  LET a == CHOOSE x \in candidates :
                        \A b \in candidates \ {x} : Preferred(x, b, f, h)
           IN  /\ a \in candidates
               /\ \A b \in candidates : adjustedQuality(a, f, h) >= adjustedQuality(b, f, h)
<1> DEFINE Beats(x, y) == Preferred(x, y, f, h)
           q(x) == adjustedQuality(x, f, h)
           l(x) == healthAdjustedLatency(x, h)
<1>1. \A x \in Strategies : q(x) \in Nat /\ l(x) \in Nat /\ strategyOrder[x] \in Nat
  <2>1. \A x \in Strategies : strategyOrder[x] \in Nat
    BY DEF Strategies, strategyOrder
  <2> QED
    BY <2>1, QualityIs, LatencyTyped
<1>2. \A x, y \in Strategies : x # y => strategyOrder[x] # strategyOrder[y]
  BY DEF Strategies, strategyOrder
<1>0. (CHOOSE x \in candidates : \A y \in candidates \ {x} : Beats(x, y))
        = CHOOSE x \in candidates : \A b \in candidates \ {x} : Preferred(x, b, f, h)
  OBVIOUS
<1>3. \A x, y \in Strategies : Beats(x, y) <=>
        \/ q(x) > q(y)
        \/ q(x) = q(y) /\ l(x) < l(y)
        \/ q(x) = q(y) /\ l(x) = l(y) /\ strategyOrder[x] < strategyOrder[y]
  BY DEF Preferred
<1> HIDE DEF Beats, q, l
<1>4. \A x, y \in Strategies : x # y => Beats(x, y) \/ Beats(y, x)
  BY <1>1, <1>2, <1>3
<1>5. \A x, y, z \in Strategies : Beats(x, y) /\ Beats(y, z) => Beats(x, z)
  BY <1>1, <1>3
<1>6. \E x \in candidates : \A y \in candidates \ {x} : Beats(x, y)
  <2>1. \A x \in candidates : x \in {"lexical", "vector", "hybrid"}
    BY DEF Strategies
  <2>2. "lexical" \in Strategies /\ "vector" \in Strategies /\ "hybrid" \in Strategies
    BY DEF Strategies
  <2> QED
    BY <1>4, <1>5, <2>1, <2>2
<1>7. PICK a \in candidates : /\ a = CHOOSE x \in candidates : \A y \in candidates \ {x} : Beats(x, y)
                              /\ \A y \in candidates \ {a} : Beats(a, y)
  BY <1>6
<1>8. ASSUME NEW y \in candidates PROVE q(a) >= q(y)
  <2>1. a \in Strategies /\ y \in Strategies /\ q(a) \in Nat /\ q(y) \in Nat
    BY <1>1
  <2>2. CASE y = a
    BY <2>1, <2>2
  <2>3. CASE y # a
    <3>1. Beats(a, y)
      BY <1>7, <2>3
    <3>2. q(a) > q(y) \/ q(a) = q(y)
      BY <1>3, <2>1, <3>1
    <3> QED
      BY <2>1, <3>2
  <2> QED
    BY <2>2, <2>3
<1>9. \A y \in candidates : adjustedQuality(a, f, h) >= adjustedQuality(y, f, h)
  BY <1>8 DEF q
<1> QED
  BY <1>0, <1>7, <1>9

LEMMA Cancel ==
    ASSUME NEW a \in Nat, NEW b \in Nat, NEW c \in Nat, c >= 1, a * c =< b * c
    PROVE  a =< b
<1>1. SUFFICES ASSUME b + 1 =< a PROVE FALSE
  OBVIOUS
<1>2. (b + 1) * c =< a * c
  BY <1>1, Products
<1>3. (b + 1) * c = b * c + c
  BY SMT
<1>4. a * c \in Nat /\ b * c \in Nat
  BY Products
<1> QED
  BY <1>2, <1>3, <1>4

\* The lexical strategy is in time whatever the nodes, or it is not.
LEMMA LexicalBudget ==
    ASSUME NEW h \in Healths, NEW t \in Nat
    PROVE  InBudget("lexical", t, h) <=> 1500 =< 85 * t
<1> DEFINE scale == LatencyScale(h)
<1>1. scale \in Nat /\ scale >= 1
  BY ScaleIs
<1>2. InBudget("lexical", t, h) <=> 100 * (15 * scale) =< 85 * t * scale
  BY DEF InBudget, healthAdjustedLatency, Baseline, deadlineMargin
<1> HIDE DEF scale
<1>3. 100 * (15 * scale) = 1500 * scale /\ 85 * t \in Nat
  BY <1>1
<1>4. 1500 * scale =< (85 * t) * scale => 1500 =< 85 * t
  BY <1>1, <1>3, Cancel
<1>5. 1500 =< 85 * t => 1500 * scale =< (85 * t) * scale
  BY <1>1, <1>3, Products
<1> QED
  BY <1>2, <1>3, <1>4, <1>5

\* The others have to be answered by the nodes that are ready for vectors.
LEMMA VectorBudget ==
    ASSUME NEW h \in Healths, NEW t \in Nat, NEW s \in {"vector", "hybrid"}, h.vectorReady > 0
    PROVE  /\ InBudget(s, t, h) <=>
                (100 * Baseline[s].p95) * h.available =< (85 * t) * h.vectorReady
           /\ 100 * Baseline[s].p95 \in Nat /\ 100 * Baseline[s].p95 >= 1500
<1>1. h.available \in Nat /\ h.vectorReady \in Nat
  BY DEF Healths
<1>2. LatencyScale(h) = h.vectorReady
  BY <1>1, ScaleIs
<1>3. Baseline[s].p95 \in Nat /\ Baseline[s].p95 >= 15
  BY DEF Baseline
<1>4. s # "lexical"
  OBVIOUS
<1>5. InBudget(s, t, h) <=> 100 * (Baseline[s].p95 * h.available) =< 85 * t * h.vectorReady
  BY <1>2, <1>4 DEF InBudget, healthAdjustedLatency, deadlineMargin
<1> DEFINE p == Baseline[s].p95
<1> HIDE DEF p
<1>6. 100 * (p * h.available) = (100 * p) * h.available
  BY <1>1, <1>3 DEF p
<1> QED
  BY <1>3, <1>5, <1>6 DEF p

Candidates(t, h) == {s \in Strategies : healthy(s, h) /\ InBudget(s, t, h)}

\* Whatever is in time stays in time, and the lexical strategy is if any is.
LEMMA CandidatesGrow ==
    ASSUME NEW h \in Healths, NEW better \in Healths, better.available = h.available,
           h.vectorReady =< better.vectorReady, NEW t \in Nat, NEW more \in Nat, t =< more
    PROVE  /\ Candidates(t, h) \subseteq Candidates(more, better)
           /\ Candidates(t, h) # {} => "lexical" \in Candidates(t, h)
<1>1. /\ h.available \in Nat /\ h.available >= 1 /\ h.vectorReady \in Nat /\ better.vectorReady \in Nat
      /\ h.vectorReady =< h.available
  BY DEF Healths
<1>2. 85 * t \in Nat /\ 85 * more \in Nat /\ 85 * t =< 85 * more
  OBVIOUS
<1>3. ASSUME NEW s \in {"vector", "hybrid"}, s \in Candidates(t, h)
      PROVE  s \in Candidates(more, better) /\ 1500 =< 85 * t
  <2> DEFINE p == 100 * Baseline[s].p95
  <2>1. h.vectorReady > 0 /\ better.vectorReady > 0
    BY <1>1, <1>3 DEF Candidates, healthy
  <2>2. /\ p \in Nat /\ p >= 1500 /\ p * h.available =< (85 * t) * h.vectorReady
        /\ InBudget(s, more, better) <=> p * h.available =< (85 * more) * better.vectorReady
    BY <1>3, <2>1, VectorBudget DEF Candidates
  <2> HIDE DEF p
  <2>3. /\ (85 * t) * h.vectorReady =< (85 * more) * better.vectorReady
        /\ (85 * t) * h.vectorReady =< (85 * t) * h.available
        /\ (85 * t) * h.vectorReady \in Nat /\ (85 * more) * better.vectorReady \in Nat
        /\ (85 * t) * h.available \in Nat /\ p * h.available \in Nat
    BY <1>1, <1>2, <2>2, Products
  <2>4. InBudget(s, more, better)
    BY <2>2, <2>3
  <2>5. p * h.available =< (85 * t) * h.available
    BY <2>2, <2>3
  <2>6. p =< 85 * t
    BY <1>1, <1>2, <2>2, <2>5, Cancel
  <2> QED
    BY <1>2, <2>1, <2>2, <2>4, <2>6 DEF Candidates, healthy, Strategies
<1>4. ASSUME "lexical" \in Candidates(t, h) PROVE "lexical" \in Candidates(more, better)
  BY <1>2, <1>4, LexicalBudget DEF Candidates, healthy, Strategies
<1>5. ASSUME 1500 =< 85 * t PROVE "lexical" \in Candidates(t, h)
  BY <1>5, LexicalBudget DEF Candidates, healthy, Strategies
<1>6. \A s \in Candidates(t, h) : s = "lexical" \/ s \in {"vector", "hybrid"}
  BY DEF Candidates, Strategies
<1> QED
  BY <1>3, <1>4, <1>5, <1>6

\* Select for a longer deadline and more nodes that are ready for vectors.
LEMMA SelectImproves ==
    ASSUME NEW h \in Healths, NEW better \in Healths, better.available = h.available,
           h.vectorReady =< better.vectorReady, NEW t \in Nat, NEW more \in Nat, t =< more,
           NEW f \in Features
    PROVE  adjustedQuality(Select(f, more, better), f, better)
                >= adjustedQuality(Select(f, t, h), f, h)
<1> DEFINE now == Candidates(t, h)
           then == Candidates(more, better)
           a == Select(f, t, h)
           b == Select(f, more, better)
<1>1. now \subseteq then /\ (then # {} => "lexical" \in then) /\ then \in SUBSET Strategies
      /\ now \in SUBSET Strategies
  <2>1. now \subseteq then
    BY CandidatesGrow
  <2>2. then # {} => "lexical" \in then
    <3>1. better.vectorReady =< better.vectorReady /\ more =< more
      BY DEF Healths
    <3> QED
      BY <3>1, CandidatesGrow
  <2>3. then \in SUBSET Strategies /\ now \in SUBSET Strategies
    BY DEF Candidates
  <2> QED
    BY <2>1, <2>2, <2>3
<1>2. now = {} => a = "lexical"
  BY DEF Select, Candidates, Fallback
<1>3. then = {} => b = "lexical"
  BY DEF Select, Candidates, Fallback
<1>4. now # {} => a \in now
  <2>1. now # {} => a = CHOOSE x \in now : \A y \in now \ {x} : Preferred(x, y, f, h)
    BY DEF Select, Candidates
  <2> QED
    BY <1>1, <2>1, ChoiceIsBest
<1>5. then # {} => b \in then /\ \A y \in then : adjustedQuality(b, f, better) >= adjustedQuality(y, f, better)
  <2>1. then # {} => b = CHOOSE x \in then : \A y \in then \ {x} : Preferred(x, y, f, better)
    BY DEF Select, Candidates
  <2> QED
    BY <1>1, <2>1, ChoiceIsBest
<1>6. \A x \in Strategies : /\ adjustedQuality(x, f, better) >= adjustedQuality(x, f, h)
                            /\ adjustedQuality(x, f, better) \in Nat /\ adjustedQuality(x, f, h) \in Nat
  <2> SUFFICES ASSUME NEW x \in Strategies
               PROVE  /\ adjustedQuality(x, f, better) >= adjustedQuality(x, f, h)
                      /\ adjustedQuality(x, f, better) \in Nat /\ adjustedQuality(x, f, h) \in Nat
    OBVIOUS
  <2>1. Share(x, h) \in Nat /\ Share(x, better) \in Nat /\ Share(x, h) =< Share(x, better)
    BY DEF Share, Healths
  <2>2. Quality(x, f) \in Nat
    BY QualityRange
  <2> QED
    BY <2>1, <2>2, QualityIs, Products
<1> HIDE DEF now, then, a, b
<1>7. "lexical" \in Strategies
  BY DEF Strategies
<1>8. a \in Strategies /\ b \in Strategies
  BY <1>1, <1>2, <1>3, <1>4, <1>5, <1>7
<1>9. CASE then = {}
  BY <1>1, <1>2, <1>3, <1>6, <1>7, <1>9 DEF a, b
<1>10. CASE then # {}
  <2>1. a \in then
    BY <1>1, <1>2, <1>4, <1>10
  <2>2. /\ adjustedQuality(b, f, better) >= adjustedQuality(a, f, better)
        /\ adjustedQuality(a, f, better) >= adjustedQuality(a, f, h)
        /\ adjustedQuality(b, f, better) \in Nat /\ adjustedQuality(a, f, better) \in Nat
        /\ adjustedQuality(a, f, h) \in Nat
    BY <1>5, <1>6, <1>8, <1>10, <2>1
  <2>3. adjustedQuality(b, f, better) >= adjustedQuality(a, f, h)
    BY <2>2
  <2> QED
    BY <2>3 DEF a, b
<1> QED
  BY <1>9, <1>10

\* What the handler has planned is what Select chose for the nodes it saw.
PlanInv ==
    /\ registered \subseteq Nodes
    /\ handler = "planned" =>
        /\ plan.ask \in Asks /\ TimeoutOf(plan.ask) \in Nat /\ plan.health \in Healths
        /\ plan.mode = selectMode(plan.ask, plan.health)

LEMMA PlanStep ==
    ASSUME PlanInv, [Next]_vars PROVE PlanInv'
<1> USE DEF requestVars, executorVars, callVars
<1>1. ASSUME NEW ask \in Asks, Plan(ask) PROVE PlanInv'
  <2>1. Matching \subseteq Nodes
    BY DEF PlanInv, Matching
  <2>2. IsFiniteSet(Matching) /\ IsFiniteSet(Matching \intersect VectorReady)
        /\ Cardinality(Matching \intersect VectorReady) =< Cardinality(Matching)
    BY <2>1, FS_Subset, ExecutorAssumption
  <2>3. Cardinality(Matching) \in Nat /\ Cardinality(Matching \intersect VectorReady) \in Nat
        /\ (Matching # {} => Cardinality(Matching) # 0)
    BY <2>2, FS_CardinalityType, FS_EmptySet
  <2> DEFINE health == [available |-> Cardinality(Matching),
                        vectorReady |-> Cardinality(Matching \intersect VectorReady)]
  <2>4. Matching # {} => health \in Healths
    <3>1. SUFFICES ASSUME Matching # {} PROVE health \in Healths
      OBVIOUS
    <3>2. health \in [available : Nat \ {0}, vectorReady : Nat]
      BY <2>3, <3>1
    <3>3. health.vectorReady =< health.available
      BY <2>2
    <3> QED
      BY <3>2, <3>3 DEF Healths
  <2>5. TimeoutOf(ask) \in 1..maximumSearchTimeout => TimeoutOf(ask) \in Nat
    <3>1. maximumSearchTimeout \in Nat
      BY DEF maximumSearchTimeout
    <3> HIDE DEF maximumSearchTimeout, TimeoutOf
    <3> QED
      BY <3>1
  <2>6. CASE handler' = "planned"
    <3>1. /\ plan' = [ask |-> ask, health |-> health, mode |-> selectMode(ask, health)]
          /\ TimeoutOf(ask) \in 1..maximumSearchTimeout /\ Matching # {}
      BY <1>1, <2>6 DEF Plan
    <3> HIDE DEF health
    <3>2. plan'.ask = ask /\ plan'.health = health /\ plan'.mode = selectMode(ask, health)
      BY <3>1
    <3>3. registered' = registered
      BY <1>1 DEF Plan
    <3>4. TimeoutOf(plan'.ask) \in Nat /\ plan'.health \in Healths
      BY <2>4, <2>5, <3>1, <3>2
    <3> QED
      BY <3>2, <3>3, <3>4 DEF PlanInv
  <2>7. CASE handler' # "planned"
    BY <1>1, <2>7 DEF Plan, PlanInv
  <2> QED
    BY <2>6, <2>7
<1>2. CASE RegistryChanges
  <2>1. registered' \subseteq Nodes
    BY <1>2 DEF PlanInv, RegistryChanges, SymDiff
  <2> QED
    BY <1>2, <2>1 DEF PlanInv, RegistryChanges
<1>3. CASE \/ UNCHANGED vars \/ ContextEnds \/ Receive \/ Stop \/ Read
           \/ \E n \in Nodes : Recv(n) \/ Respond(n) \/ RespondError(n) \/ GiveUp(n)
  <2>1. UNCHANGED <<registered, plan, handler>>
    BY <1>3 DEF vars, ContextEnds, Receive, Stop, Read, Recv, Respond, RespondError, Send, GiveUp
  <2> QED
    BY <2>1 DEF PlanInv
<1>4. CASE Execute \/ Refuse \/ AnswerRequest
  BY <1>4 DEF PlanInv, Execute, Refuse, AnswerRequest
<1> QED
  BY <1>1, <1>2, <1>3, <1>4 DEF Next

\* A longer timeout, or more nodes that are ready for vectors, never makes the handler
\* choose a mode of which less is expected: for every timeout and number of nodes
\* (Select of planner.go, with the baselines of defaultPlanner).
THEOREM PlanOnlyImproves == Spec => []PlanImproves
<1>1. ASSUME Init PROVE PlanInv
  BY <1>1 DEF Init, PlanInv
<1>2. ASSUME PlanInv PROVE PlanImproves
  <2>1. SUFFICES ASSUME handler = "planned", plan.ask.mode = "auto",
                        NEW k \in plan.health.vectorReady..plan.health.available,
                        NEW ask \in Asks, TimeoutOf(ask) >= TimeoutOf(plan.ask)
                 PROVE  LET health == [plan.health EXCEPT !.vectorReady = k]
                        IN  adjustedQuality(Select(plan.ask.features, TimeoutOf(ask), health),
                                            plan.ask.features, health)
                                >= adjustedQuality(plan.mode, plan.ask.features, plan.health)
    BY DEF PlanImproves
  <2> DEFINE h == plan.health
             health == [plan.health EXCEPT !.vectorReady = k]
  <2>2. /\ plan.ask \in Asks /\ TimeoutOf(plan.ask) \in Nat /\ h \in Healths
        /\ plan.mode = Select(plan.ask.features, TimeoutOf(plan.ask), h)
    BY <1>2, <2>1 DEF PlanInv, selectMode
  <2>3. health \in Healths /\ health.available = h.available /\ health.vectorReady = k
    BY <2>2 DEF Healths
  <2>4. h.vectorReady =< k
    BY <2>2 DEF Healths
  <2>5. TimeoutOf(ask) \in Nat
    <3>1. ask.timeout \in Int
      BY ExecutorAssumption
    <3>2. TimeoutOf(ask) \in Int
      BY <3>1 DEF TimeoutOf, defaultSearchTimeout
    <3> QED
      BY <2>1, <2>2, <3>2
  <2>6. plan.ask.features \in Features
    BY <2>2, ExecutorAssumption
  <2>7. TimeoutOf(plan.ask) =< TimeoutOf(ask)
    BY <2>1, <2>2, <2>5
  <2> HIDE DEF health, h
  <2>8. adjustedQuality(Select(plan.ask.features, TimeoutOf(ask), health), plan.ask.features, health)
            >= adjustedQuality(plan.mode, plan.ask.features, h)
    BY <2>2, <2>3, <2>4, <2>5, <2>6, <2>7, SelectImproves
  <2> QED
    BY <2>8 DEF health, h
<1> QED
  BY <1>1, <1>2, PlanStep, PTL DEF Spec

-----------------------------------------------------------------------------
(* Sums over finite sets: what FoldSet computes in ReferenceScore.         *)

\* In a set of subsets of a finite set there is one with no other inside: this is
\* how the lemmas below argue by induction on a finite set.
LEMMA SmallestSet ==
    ASSUME NEW S, IsFiniteSet(S), NEW F, F \subseteq SUBSET S, F # {}
    PROVE  \E T \in F : \A U \in F : U \subseteq T => U = T
<1>1. IsWellFoundedOn(StrictSubsetOrdering(S), FiniteSubsetsOf(S)) /\ FiniteSubsetsOf(S) = SUBSET S
  BY FS_StrictSubsetOrderingWellFounded, FS_FiniteSubsetsOfFinite
<1>2. PICK T \in F : \A U \in F : ~ (<<U, T>> \in StrictSubsetOrdering(S))
  BY <1>1, WFMin
<1> QED
  BY <1>2 DEF StrictSubsetOrdering

LEMMA LeastNumber ==
    ASSUME NEW T, T \subseteq Nat, T # {}
    PROVE  \E x \in T : \A y \in T : x =< y
<1>1. PICK x \in T : \A y \in T : ~ (<<y, x>> \in OpToRel(<, Nat))
  BY WFMin, NatLessThanWellFounded
<1>2. \A y \in T : ~ (y < x)
  BY <1>1 DEF OpToRel
<1>3. \A y \in T : x \in Nat /\ y \in Nat
  OBVIOUS
<1> QED
  BY <1>2, <1>3

Pick(s) == CHOOSE x \in s : TRUE

LEMMA PickIsOne ==
    ASSUME NEW s, s # {}
    PROVE  Pick(s) \in s
  BY DEF Pick

\* g[s] is the sum of f over s, for every s of D.
AddsOn(g, f, D) == g = [s \in D |-> IF s = {} THEN 0 ELSE g[s \ {Pick(s)}] + f[Pick(s)]]
Adds(g, f, S) == AddsOn(g, f, SUBSET S)

\* There is a function that adds.
LEMMA AddsExists ==
    ASSUME NEW S, IsFiniteSet(S), NEW f
    PROVE  \E g : Adds(g, f, S)
<1> DEFINE Upto(k) == {s \in SUBSET S : Cardinality(s) =< k}
           bad == {k \in Nat : ~ \E g : AddsOn(g, f, Upto(k))}
<1>0. \A s \in SUBSET S : IsFiniteSet(s) /\ Cardinality(s) \in Nat /\ Cardinality(s) =< Cardinality(S)
  BY FS_Subset, FS_CardinalityType
<1>1. ASSUME NEW s \in SUBSET S, s # {}
      PROVE  /\ s \ {Pick(s)} \in SUBSET S
             /\ Cardinality(s \ {Pick(s)}) = Cardinality(s) - 1
             /\ Cardinality(s) >= 1
  <2>1. Pick(s) \in s /\ IsFiniteSet(s) /\ Cardinality(s) \in Nat
    BY <1>0, <1>1, PickIsOne
  <2>2. PICK x : x = Pick(s)
    OBVIOUS
  <2>3. Cardinality(s \ {x}) = Cardinality(s) - 1
    BY <2>1, <2>2, FS_RemoveElement
  <2>4. Cardinality(s) # 0
    BY <1>1, <2>1, FS_EmptySet
  <2> QED
    BY <2>1, <2>2, <2>3, <2>4
<1>2. bad = {}
  <2>1. SUFFICES ASSUME bad # {} PROVE FALSE
    OBVIOUS
  <2>2. PICK k \in bad : \A y \in bad : k =< y
    <3>1. bad \subseteq Nat
      OBVIOUS
    <3> HIDE DEF bad
    <3> QED
      BY <2>1, <3>1, LeastNumber
  <2>3. CASE k = 0
    <3>1. Upto(0) = {{}}
      BY <1>0, FS_EmptySet
    <3>2. PICK g : g = [s \in Upto(0) |-> 0]
      OBVIOUS
    <3>3. AddsOn(g, f, Upto(0))
      BY <3>1, <3>2 DEF AddsOn
    <3> QED
      BY <2>2, <2>3, <3>3
  <2>4. CASE k # 0
    <3>1. k \in Nat /\ k - 1 \in Nat /\ ~ (k - 1 \in bad)
      <4>1. k \in Nat
        OBVIOUS
      <4> HIDE DEF bad
      <4>2. k - 1 \in Nat /\ ~ (k =< k - 1)
        BY <2>4, <4>1
      <4> QED
        BY <2>2, <4>1, <4>2
    <3>2. PICK h : AddsOn(h, f, Upto(k - 1))
      BY <3>1
    <3>3. PICK g : g = [s \in Upto(k) |-> IF s \in Upto(k - 1) THEN h[s]
                                          ELSE h[s \ {Pick(s)}] + f[Pick(s)]]
      OBVIOUS
    <3>4. ASSUME NEW s \in Upto(k)
          PROVE  g[s] = IF s = {} THEN 0 ELSE g[s \ {Pick(s)}] + f[Pick(s)]
      <4>1. CASE s = {}
        <5>1. s \in Upto(k - 1)
          BY <1>0, <3>1, <4>1, FS_EmptySet
        <5>2. h[s] = 0
          BY <3>2, <4>1, <5>1 DEF AddsOn
        <5> QED
          BY <3>3, <4>1, <5>1, <5>2
      <4>2. CASE s # {}
        <5>1. s \ {Pick(s)} \in Upto(k - 1) /\ s \ {Pick(s)} \in Upto(k)
          BY <1>0, <1>1, <3>1, <4>2
        <5>2. g[s \ {Pick(s)}] = h[s \ {Pick(s)}]
          BY <3>3, <5>1
        <5>3. s \in Upto(k - 1) => h[s] = h[s \ {Pick(s)}] + f[Pick(s)]
          BY <3>2, <4>2 DEF AddsOn
        <5> QED
          BY <3>3, <4>2, <5>2, <5>3
      <4> QED
        BY <4>1, <4>2
    <3>5. AddsOn(g, f, Upto(k))
      BY <3>3, <3>4 DEF AddsOn
    <3> QED
      BY <2>2, <3>5
  <2> QED
    BY <2>3, <2>4
<1>3. SUBSET S = Upto(Cardinality(S)) /\ Cardinality(S) \in Nat
  BY <1>0, FS_CardinalityType
<1> QED
  BY <1>2, <1>3 DEF Adds

\* A sum is a number, whatever is taken first.
LEMMA AddsAnyOrder ==
    ASSUME NEW S, IsFiniteSet(S), NEW f, \A n \in S : f[n] \in Nat, NEW g, Adds(g, f, S)
    PROVE  g[S] \in Nat /\ \A n \in S : g[S] = g[S \ {n}] + f[n]
<1> DEFINE Good(s) == g[s] \in Nat /\ \A n \in s : g[s] = g[s \ {n}] + f[n]
           bad == {s \in SUBSET S : ~ Good(s)}
<1>0. /\ g[{}] = 0
      /\ \A s \in SUBSET S : s # {} => g[s] = g[s \ {Pick(s)}] + f[Pick(s)]
  BY DEF Adds, AddsOn
<1>1. SUFFICES ASSUME bad # {} PROVE FALSE
  OBVIOUS
<1>2. PICK s \in bad : \A t \in bad : t \subseteq s => t = s
  <2>1. bad \subseteq SUBSET S
    OBVIOUS
  <2> HIDE DEF bad
  <2> QED
    BY <1>1, <2>1, SmallestSet
<1>3. \A t \in SUBSET s : t # s => Good(t)
  BY <1>2
<1>4. s # {} /\ s \in SUBSET S
  <2>1. Good({})
    BY <1>0
  <2> QED
    BY <1>2, <2>1
<1>5. PICK x \in s : x = Pick(s) /\ g[s] = g[s \ {x}] + f[x]
  BY <1>0, <1>4, PickIsOne
<1>6. Good(s \ {x}) /\ f[x] \in Nat
  BY <1>3, <1>4
<1>7. g[s] \in Nat
  BY <1>5, <1>6
<1>8. ASSUME NEW n \in s PROVE g[s] = g[s \ {n}] + f[n]
  <2>1. CASE n = x
    BY <1>5, <2>1
  <2>2. CASE n # x
    <3>1. Good(s \ {n}) /\ n \in s \ {x} /\ x \in s \ {n} /\ f[n] \in Nat
      BY <1>3, <1>4, <2>2
    <3>2. (s \ {x}) \ {n} = (s \ {n}) \ {x}
      OBVIOUS
    <3>3. /\ g[s \ {x}] = g[(s \ {n}) \ {x}] + f[n]
          /\ g[s \ {n}] = g[(s \ {n}) \ {x}] + f[x]
      BY <1>6, <3>1, <3>2
    <3>4. g[(s \ {n}) \ {x}] \in Nat
      <4>1. (s \ {n}) \ {x} \in SUBSET s /\ (s \ {n}) \ {x} # s
        OBVIOUS
      <4> QED
        BY <1>3, <4>1
    <3> QED
      BY <1>5, <1>6, <3>1, <3>3, <3>4
  <2> QED
    BY <2>1, <2>2
<1> QED
  BY <1>2, <1>7, <1>8

\* The sum over a set does not depend on the larger set it is a part of.
LEMMA AddsAgree ==
    ASSUME NEW S, NEW T, IsFiniteSet(S), S \subseteq T, NEW f, NEW h, \A n \in S : f[n] = h[n],
           NEW g, Adds(g, f, S), NEW k, Adds(k, h, T)
    PROVE  g[S] = k[S]
<1> DEFINE bad == {s \in SUBSET S : g[s] # k[s]}
<1>0. /\ g[{}] = 0
      /\ \A s \in SUBSET S : s # {} => g[s] = g[s \ {Pick(s)}] + f[Pick(s)]
      /\ k[{}] = 0
      /\ \A s \in SUBSET T : s # {} => k[s] = k[s \ {Pick(s)}] + h[Pick(s)]
  BY DEF Adds, AddsOn
<1>1. SUFFICES ASSUME bad # {} PROVE FALSE
  OBVIOUS
<1>2. PICK s \in bad : \A t \in bad : t \subseteq s => t = s
  <2>1. bad \subseteq SUBSET S
    OBVIOUS
  <2> HIDE DEF bad
  <2> QED
    BY <1>1, <2>1, SmallestSet
<1>3. s # {} /\ s \in SUBSET S /\ s \in SUBSET T
  BY <1>0, <1>2
<1>4. Pick(s) \in s
  BY <1>3, PickIsOne
<1>5. g[s \ {Pick(s)}] = k[s \ {Pick(s)}]
  <2>1. s \ {Pick(s)} \in SUBSET S /\ s \ {Pick(s)} \subseteq s /\ s \ {Pick(s)} # s
    BY <1>3, <1>4
  <2> QED
    BY <1>2, <2>1
<1>6. g[s] = k[s]
  BY <1>0, <1>3, <1>4, <1>5
<1> QED
  BY <1>2, <1>6

-----------------------------------------------------------------------------
(* What merge adds to a score, and what ReferenceScore does.               *)

\* Sources and ReferenceScore, as functions of the answers merged.
SourcesIn(m, key) == {n \in DOMAIN m : \E i \in 1..Len(m[n]) : m[n][i] = key}
First(hits, key) == Min({i \in 1..Len(hits) : hits[i] = key})
ScoreIn(m, key) == FoldSet(LAMBDA n, sum : sum + Weight(First(m[n], key)), 0, SourcesIn(m, key))
Points(m, key) == [n \in SourcesIn(m, key) |-> Weight(First(m[n], key))]

LEMMA ReferenceIs ==
    ASSUME NEW key
    PROVE  /\ ReferenceScore(key) = ScoreIn(merged, key)
           /\ Sources(key) = SourcesIn(merged, key)
           /\ ReferenceScore(key)' = ScoreIn(merged', key)
           /\ Sources(key)' = SourcesIn(merged', key)
<1>1. ReferenceScore(key) = ScoreIn(merged, key) /\ Sources(key) = SourcesIn(merged, key)
  BY DEF ReferenceScore, ScoreIn, Sources, SourcesIn, First, FoldSet, MapThenFoldSet
<1>2. ReferenceScore(key)' = ScoreIn(merged', key) /\ Sources(key)' = SourcesIn(merged', key)
  BY DEF ReferenceScore, ScoreIn, Sources, SourcesIn, First, FoldSet, MapThenFoldSet
<1> QED
  BY <1>1, <1>2

LEMMA LeastOf ==
    ASSUME NEW T, T \subseteq Nat, T # {}
    PROVE  Min(T) \in T /\ \A y \in T : Min(T) =< y
<1>1. \E x \in T : \A y \in T : x =< y
  BY LeastNumber
<1> QED
  BY <1>1 DEF Min

LEMMA WeightType == \A i \in Nat : Weight(i) \in Nat
<1>1. \A i \in Nat : 60 + i \in Nat \ {0} /\ 61 * 62 * 63 \in Nat
  OBVIOUS
<1>2. \A a \in Nat, b \in Nat \ {0} : a \div b \in Nat
  OBVIOUS
<1> QED
  BY <1>1, <1>2 DEF Weight

LEMMA FirstIs ==
    ASSUME NEW hits, Len(hits) \in Nat, NEW key, \E i \in 1..Len(hits) : hits[i] = key
    PROVE  /\ First(hits, key) \in 1..Len(hits) /\ hits[First(hits, key)] = key
           /\ Weight(First(hits, key)) \in Nat
           /\ \A j \in 1..Len(hits) : hits[j] = key => First(hits, key) =< j
<1> DEFINE T == {i \in 1..Len(hits) : hits[i] = key}
<1>1. T \subseteq Nat /\ T # {}
  OBVIOUS
<1>2. Min(T) \in T /\ \A y \in T : Min(T) =< y
  <2> HIDE DEF T
  <2> QED
    BY <1>1, LeastOf
<1>3. First(hits, key) = Min(T)
  BY DEF First
<1>4. First(hits, key) \in T /\ \A y \in T : First(hits, key) =< y
  BY <1>2, <1>3
<1> QED
  BY <1>4, WeightType

\* The position that counts in merge is the first one.
LEMMA FirstCounts ==
    ASSUME NEW hits, Len(hits) \in Nat, NEW key
    PROVE  /\ (\E i \in Firsts(hits) : hits[i] = key) <=> (\E i \in 1..Len(hits) : hits[i] = key)
           /\ (\E i \in 1..Len(hits) : hits[i] = key)
                => (CHOOSE i \in Firsts(hits) : hits[i] = key) = First(hits, key)
<1>1. SUFFICES ASSUME \E i \in 1..Len(hits) : hits[i] = key
               PROVE  /\ \E i \in Firsts(hits) : hits[i] = key
                      /\ (CHOOSE i \in Firsts(hits) : hits[i] = key) = First(hits, key)
  BY DEF Firsts
<1>2. PICK k : k = First(hits, key)
  OBVIOUS
<1>3. k \in 1..Len(hits) /\ hits[k] = key /\ \A j \in 1..Len(hits) : hits[j] = key => k =< j
  BY <1>1, <1>2, FirstIs
<1>4. k \in Firsts(hits)
  <2>1. ASSUME NEW j \in 1..(k - 1) PROVE hits[j] # hits[k]
    <3>1. j \in 1..Len(hits) /\ ~ (k =< j)
      BY <1>3
    <3> QED
      BY <1>3, <3>1
  <2> QED
    BY <1>3, <2>1 DEF Firsts
<1>5. ASSUME NEW i \in Firsts(hits), hits[i] = key PROVE i = k
  <2>1. i \in 1..Len(hits) /\ \A j \in 1..(i - 1) : hits[j] # key
    BY <1>5 DEF Firsts
  <2>2. k =< i /\ i \in Nat /\ k \in Nat
    BY <1>3, <1>5, <2>1
  <2>3. ~ (k \in 1..(i - 1))
    BY <1>3, <2>1
  <2> QED
    BY <1>3, <2>2, <2>3
<1>6. PICK c : c = CHOOSE i \in Firsts(hits) : hits[i] = key
  OBVIOUS
<1>7. c \in Firsts(hits) /\ hits[c] = key
  BY <1>3, <1>4, <1>6
<1> QED
  BY <1>2, <1>3, <1>4, <1>5, <1>6, <1>7

\* The fold of ReferenceScore adds the points of the sources.
LEMMA ScoreAdds ==
    ASSUME NEW m, IsFiniteSet(DOMAIN m), NEW key
    PROVE  \E g : /\ Adds(g, Points(m, key), SourcesIn(m, key))
                  /\ ScoreIn(m, key) = g[SourcesIn(m, key)]
<1> DEFINE S == SourcesIn(m, key)
           P(it) == it = [s \in SUBSET S |->
                            IF s = {} THEN 0 ELSE it[s \ {Pick(s)}] + Weight(First(m[Pick(s)], key))]
<1>1. IsFiniteSet(S)
  BY FS_Subset DEF SourcesIn
<1>2. ASSUME NEW s \in SUBSET S, s # {}
      PROVE  Points(m, key)[Pick(s)] = Weight(First(m[Pick(s)], key))
  <2>1. Pick(s) \in S
    BY <1>2, PickIsOne
  <2> QED
    BY <2>1 DEF Points
<1>3. ASSUME NEW it PROVE P(it) <=> Adds(it, Points(m, key), S)
  <2> HIDE DEF S
  <2> QED
    BY <1>2 DEF Adds, AddsOn
<1>4. \E it : P(it)
  <2>1. \E it : Adds(it, Points(m, key), S)
    BY <1>1, AddsExists
  <2> QED
    BY <1>3, <2>1
<1>5. PICK g : g = CHOOSE it : P(it)
  OBVIOUS
<1>6. P(g)
  BY <1>4, <1>5
<1>7. ScoreIn(m, key) = g[S]
  BY <1>5 DEF ScoreIn, FoldSet, MapThenFoldSet, Pick
<1> QED
  BY <1>3, <1>6, <1>7

\* The answers m2 are those of m and hits, of n.
WithAnswer(m2, m, n, hits) == m2 = [x \in DOMAIN m \union {n} |-> IF x = n THEN hits ELSE m[x]]

\* An answer adds the points of its documents, and nothing to the others.
LEMMA ScoreMore ==
    ASSUME NEW m, IsFiniteSet(DOMAIN m), \A x \in DOMAIN m : Len(m[x]) \in Nat,
           NEW n, n \notin DOMAIN m, NEW hits, Len(hits) \in Nat,
           NEW m2, WithAnswer(m2, m, n, hits), NEW key
    PROVE  /\ ScoreIn(m, key) \in Nat
           /\ (\E i \in 1..Len(hits) : hits[i] = key) =>
                /\ SourcesIn(m2, key) = SourcesIn(m, key) \union {n}
                /\ ScoreIn(m2, key) = ScoreIn(m, key) + Weight(First(hits, key))
           /\ ~ (\E i \in 1..Len(hits) : hits[i] = key) =>
                /\ SourcesIn(m2, key) = SourcesIn(m, key)
                /\ ScoreIn(m2, key) = ScoreIn(m, key)
<1> DEFINE S == SourcesIn(m, key)
           S2 == SourcesIn(m2, key)
           f == Points(m, key)
           f2 == Points(m2, key)
<1>m. m2 = [x \in DOMAIN m \union {n} |-> IF x = n THEN hits ELSE m[x]]
  BY DEF WithAnswer
<1>0. IsFiniteSet(DOMAIN m2) /\ IsFiniteSet(S) /\ IsFiniteSet(S2) /\ n \notin S
  <2>1. PICK D : D = DOMAIN m
    OBVIOUS
  <2>2. IsFiniteSet(D \union {n})
    BY <2>1, FS_AddElement
  <2>3. DOMAIN m2 = D \union {n}
    BY <1>m, <2>1
  <2>4. S \subseteq DOMAIN m /\ S2 \subseteq DOMAIN m2
    BY DEF SourcesIn
  <2> HIDE DEF S, S2
  <2> QED
    BY <2>2, <2>3, <2>4, FS_Subset
<1>1. \A x \in DOMAIN m : m2[x] = m[x] /\ x \in DOMAIN m2
  BY <1>m
<1>2. m2[n] = hits /\ DOMAIN m2 = DOMAIN m \union {n}
  BY <1>m
<1>3. ASSUME NEW x \in S PROVE f[x] = f2[x] /\ f[x] \in Nat /\ x \in S2
  <2>1. x \in DOMAIN m /\ \E i \in 1..Len(m[x]) : m[x][i] = key
    BY DEF SourcesIn
  <2>2. x \in S2
    BY <1>1, <2>1 DEF SourcesIn
  <2>3. f[x] = Weight(First(m[x], key)) /\ f2[x] = Weight(First(m2[x], key))
    BY <2>2 DEF Points
  <2> QED
    BY <1>1, <2>1, <2>2, <2>3, FirstIs
<1>4. \A x \in S2 : x \in S \/ x = n
  BY <1>1, <1>2 DEF SourcesIn
<1>5. PICK g : Adds(g, f, S) /\ ScoreIn(m, key) = g[S]
  BY ScoreAdds
<1>6. PICK g2 : Adds(g2, f2, S2) /\ ScoreIn(m2, key) = g2[S2]
  BY <1>0, ScoreAdds
<1>7. g[S] = g2[S]
  <2>1. S \subseteq S2 /\ \A x \in S : f[x] = f2[x]
    BY <1>3
  <2> HIDE DEF S, S2, f, f2
  <2> QED
    BY <1>0, <1>5, <1>6, <2>1, AddsAgree
<1>8. g[S] \in Nat
  <2>1. \A x \in S : f[x] \in Nat
    BY <1>3
  <2> HIDE DEF S, S2, f, f2
  <2> QED
    BY <1>0, <1>5, <2>1, AddsAnyOrder
<1>9. CASE \E i \in 1..Len(hits) : hits[i] = key
  <2>1. n \in S2 /\ S2 = S \union {n} /\ S2 \ {n} = S
    BY <1>0, <1>2, <1>3, <1>4, <1>9 DEF SourcesIn
  <2>2. f2[n] = Weight(First(hits, key)) /\ f2[n] \in Nat
    BY <1>2, <1>9, <2>1, FirstIs DEF Points
  <2>3. \A x \in S2 : f2[x] \in Nat
    BY <1>3, <1>4, <2>2
  <2>4. g2[S2] = g2[S2 \ {n}] + f2[n]
    <3> HIDE DEF S, S2, f, f2
    <3>1. \A y \in S2 : g2[S2] = g2[S2 \ {y}] + f2[y]
      BY <1>0, <1>6, <2>3, AddsAnyOrder
    <3> QED
      BY <2>1, <3>1
  <2> QED
    BY <1>5, <1>6, <1>7, <1>8, <1>9, <2>1, <2>2, <2>4
<1>10. CASE ~ (\E i \in 1..Len(hits) : hits[i] = key)
  <2>1. S2 = S
    BY <1>2, <1>3, <1>4, <1>10 DEF SourcesIn
  <2> QED
    BY <1>5, <1>6, <1>7, <1>8, <1>10, <2>1
<1> QED
  BY <1>9, <1>10

-----------------------------------------------------------------------------
(* Sorting.                                                                *)

\* R puts any two different members of D in an order.
Orders(R, D) ==
    /\ \A a, b \in D : a # b => <<a, b>> \in R \/ <<b, a>> \in R
    /\ \A a, b, c \in D : <<a, b>> \in R /\ <<b, c>> \in R => <<a, c>> \in R
    /\ \A a \in D : ~ (<<a, a>> \in R)

\* The largest member of a finite set.
LEMMA LargestExists ==
    ASSUME NEW D, IsFiniteSet(D), D # {}, NEW R, Orders(R, D)
    PROVE  \E x \in D : \A y \in D : y # x => <<y, x>> \in R
<1> DEFINE HasLargest(T) == \E x \in T : \A y \in T : y # x => <<y, x>> \in R
           bad == {T \in SUBSET D : T # {} /\ ~ HasLargest(T)}
<1>1. SUFFICES ASSUME bad # {} PROVE FALSE
  OBVIOUS
<1>2. PICK T \in bad : \A U \in bad : U \subseteq T => U = T
  <2>1. bad \subseteq SUBSET D
    OBVIOUS
  <2> HIDE DEF bad
  <2> QED
    BY <1>1, <2>1, SmallestSet
<1>3. PICK a \in T : TRUE
  OBVIOUS
<1>4. T \ {a} # {}
  BY <1>2, <1>3
<1>5. HasLargest(T \ {a})
  <2>1. T \ {a} \in SUBSET D /\ T \ {a} \subseteq T /\ T \ {a} # T
    BY <1>2, <1>3
  <2> HIDE DEF HasLargest
  <2> QED
    BY <1>2, <1>4, <2>1
<1>6. PICK x \in T \ {a} : \A y \in T \ {a} : y # x => <<y, x>> \in R
  BY <1>5
<1>7. a \in D /\ x \in D /\ a # x /\ T \subseteq D
  BY <1>2, <1>3, <1>6
<1>8. CASE <<a, x>> \in R
  BY <1>2, <1>6, <1>8
<1>9. CASE <<x, a>> \in R
  <2>1. ASSUME NEW y \in T, y # a PROVE <<y, a>> \in R
    BY <1>6, <1>7, <1>9, <2>1 DEF Orders
  <2> QED
    BY <1>2, <1>3, <2>1
<1> QED
  BY <1>7, <1>8, <1>9 DEF Orders

\* keys lists D in the order of R.
InOrderOf(keys, D, R) ==
    /\ keys \in [1..Cardinality(D) -> D]
    /\ \A i, j \in 1..Cardinality(D) : i < j => <<keys[i], keys[j]>> \in R

LEMMA SortedExists ==
    ASSUME NEW D, IsFiniteSet(D), NEW R, Orders(R, D)
    PROVE  \E keys : InOrderOf(keys, D, R)
<1> DEFINE bad == {T \in SUBSET D : ~ \E keys : InOrderOf(keys, T, R)}
<1>1. SUFFICES ASSUME bad # {} PROVE FALSE
  OBVIOUS
<1>2. PICK T \in bad : \A U \in bad : U \subseteq T => U = T
  <2>1. bad \subseteq SUBSET D
    OBVIOUS
  <2> HIDE DEF bad
  <2> QED
    BY <1>1, <2>1, SmallestSet
<1>3. T # {}
  <2>1. Cardinality({}) = 0
    BY FS_EmptySet
  <2>2. InOrderOf([i \in 1..0 |-> 0], {}, R)
    BY <2>1 DEF InOrderOf
  <2> QED
    BY <1>2, <2>2
<1>4. IsFiniteSet(T) /\ Orders(R, T) /\ T \subseteq D
  <2>1. T \subseteq D
    BY <1>2
  <2> QED
    BY <2>1, FS_Subset DEF Orders
<1>5. PICK x \in T : \A y \in T : y # x => <<y, x>> \in R
  BY <1>3, <1>4, LargestExists
<1>6. PICK U : U = T \ {x}
  OBVIOUS
<1>7. U \in SUBSET D /\ U \subseteq T /\ U # T
  BY <1>4, <1>5, <1>6
<1>8. PICK keys : InOrderOf(keys, U, R)
  BY <1>2, <1>7
<1>9. PICK k \in Nat : Cardinality(U) = k /\ Cardinality(T) = k + 1
  <2>1. IsFiniteSet(U) /\ Cardinality(U) = Cardinality(T) - 1
    BY <1>4, <1>5, <1>6, FS_RemoveElement
  <2>2. Cardinality(U) \in Nat /\ Cardinality(T) \in Nat
    BY <1>4, <2>1, FS_CardinalityType
  <2> QED
    BY <2>1, <2>2
<1>10. PICK longer : longer = [i \in 1..(k + 1) |-> IF i = k + 1 THEN x ELSE keys[i]]
  OBVIOUS
<1>11. \A i \in 1..(k + 1) : i \in 1..k \/ i = k + 1
  OBVIOUS
<1>12. keys \in [1..k -> U] /\ \A i, j \in 1..k : i < j => <<keys[i], keys[j]>> \in R
  BY <1>8, <1>9 DEF InOrderOf
<1>13. longer[k + 1] = x /\ \A i \in 1..k : longer[i] = keys[i] /\ keys[i] \in U
  BY <1>10, <1>12
<1>14. longer \in [1..(k + 1) -> T]
  BY <1>5, <1>7, <1>10, <1>11, <1>13
<1>15. ASSUME NEW i \in 1..(k + 1), NEW j \in 1..(k + 1), i < j
       PROVE  <<longer[i], longer[j]>> \in R
  <2>1. i \in 1..k
    BY <1>15
  <2>2. CASE j \in 1..k
    BY <1>12, <1>13, <1>15, <2>1, <2>2
  <2>3. CASE j = k + 1
    BY <1>5, <1>6, <1>13, <2>1, <2>3
  <2> QED
    BY <1>11, <2>2, <2>3
<1>16. InOrderOf(longer, T, R)
  BY <1>9, <1>14, <1>15 DEF InOrderOf
<1> QED
  BY <1>2, <1>16

\* The order of the results: Before puts any two documents in an order.
BeforeIn(s, D) == {p \in D \X D : Before(s, p[1], p[2])}

LEMMA KeyFacts ==
    ASSUME NEW a \in Keys
    PROVE  a = <<a[1], a[2]>> /\ a[1] \in Nat /\ a[2] \in Nat
<1>1. Collections \subseteq Nat /\ Documents \subseteq Nat
  BY ExecutorAssumption DEF Collections
<1>2. PICK c \in Collections, d \in Documents : a = <<c, d>>
  BY DEF Keys
<1>3. a[1] = c /\ a[2] = d
  BY <1>2
<1> QED
  BY <1>1, <1>2, <1>3

LEMMA BeforeOrders ==
    ASSUME NEW s, NEW D, D \subseteq Keys, \A a \in D : s.scores[a] \in Nat
    PROVE  Orders(BeforeIn(s, D), D)
<1>0. \A a \in D : a = <<a[1], a[2]>> /\ a[1] \in Nat /\ a[2] \in Nat
  BY KeyFacts
<1>1. \A a, b \in D : <<a, b>> \in BeforeIn(s, D) <=> Before(s, a, b)
  BY DEF BeforeIn
<1>2. ASSUME NEW a \in D, NEW b \in D, a # b PROVE Before(s, a, b) \/ Before(s, b, a)
  <2>1. a[1] # b[1] \/ a[2] # b[2]
    BY <1>0, <1>2
  <2> QED
    BY <1>0, <2>1 DEF Before
<1>3. ASSUME NEW a \in D, NEW b \in D, NEW c \in D, Before(s, a, b), Before(s, b, c)
      PROVE  Before(s, a, c)
  BY <1>0, <1>3 DEF Before
<1>4. ASSUME NEW a \in D PROVE ~ Before(s, a, a)
  BY <1>0 DEF Before
<1> QED
  BY <1>1, <1>2, <1>3, <1>4 DEF Orders

\* The documents D of a merge state, with their scores.
Scored(s, D) ==
    /\ DOMAIN s.scores = D /\ IsFiniteSet(D) /\ D \subseteq Keys
    /\ \A a \in D : s.scores[a] \in Nat

\* The sequence that Ranked takes the results from.
OrderOf(s) ==
    CHOOSE keys \in SetToSeqs(DOMAIN s.scores) :
        \A i, j \in DOMAIN keys : i < j => Before(s, keys[i], keys[j])

\* What the sort gives: every document once, in order.
LEMMA OrderIs ==
    ASSUME NEW s, NEW D, Scored(s, D), NEW N, N = Cardinality(D), NEW order, order = OrderOf(s)
    PROVE  /\ N \in Nat /\ order \in [1..N -> D]
           /\ \A i, j \in 1..N : i < j => Before(s, order[i], order[j])
           /\ \A i, j \in 1..N : i # j => order[i] # order[j]
           /\ \A a \in D : \E i \in 1..N : order[i] = a
<1>0. /\ DOMAIN s.scores = D /\ IsFiniteSet(D) /\ D \subseteq Keys
      /\ \A a \in D : s.scores[a] \in Nat
  BY DEF Scored
<1>1. Orders(BeforeIn(s, D), D)
  BY <1>0, BeforeOrders
<1>2. PICK keys : InOrderOf(keys, D, BeforeIn(s, D))
  BY <1>0, <1>1, SortedExists
<1>3. N \in Nat
  BY <1>0, FS_CardinalityType
<1>4. keys \in [1..N -> D] /\ \A i, j \in 1..N : i < j => Before(s, keys[i], keys[j])
  BY <1>2 DEF InOrderOf, BeforeIn
<1>5. \A a \in D : ~ Before(s, a, a)
  BY <1>1 DEF Orders, BeforeIn
<1>6. \A i, j \in 1..N : i # j => keys[i] # keys[j]
  <2>1. ASSUME NEW i \in 1..N, NEW j \in 1..N, i # j PROVE keys[i] # keys[j]
    <3>1. i < j \/ j < i
      BY <1>3, <2>1
    <3> QED
      BY <1>4, <1>5, <3>1
  <2> QED
    BY <2>1
<1>7. SetToSeqs(D) = {f \in [1..N -> D] : \A i, j \in 1..N : i # j => f[i] # f[j]}
  BY DEF SetToSeqs
<1>8. keys \in SetToSeqs(D) /\ \A i, j \in DOMAIN keys : i < j => Before(s, keys[i], keys[j])
  BY <1>4, <1>6, <1>7
<1>9. order \in SetToSeqs(D) /\ \A i, j \in DOMAIN order : i < j => Before(s, order[i], order[j])
  BY <1>0, <1>8 DEF OrderOf
<1>10. /\ order \in [1..N -> D]
       /\ \A i, j \in 1..N : i < j => Before(s, order[i], order[j])
       /\ \A i, j \in 1..N : i # j => order[i] # order[j]
  BY <1>7, <1>9
<1>11. \A a \in D : \E i \in 1..N : order[i] = a
  <2>1. PICK I : I = 1..N
    OBVIOUS
  <2>2. order \in Injection(I, D)
    <3>1. order \in [I -> D] /\ DOMAIN order = I /\ \A i, j \in I : order[i] = order[j] => i = j
      BY <1>10, <2>1
    <3> QED
      BY <3>1 DEF Injection, IsInjective
  <2>3. Cardinality(I) = N
    BY <1>3, <2>1, FS_Interval
  <2>4. order \in Surjection(I, D)
    BY <1>0, <2>2, <2>3, FS_Injection
  <2> QED
    BY <2>1, <2>4 DEF Surjection
<1> QED
  BY <1>3, <1>10, <1>11

\* The documents of some results.
KeysOf(r) == {r[i].key : i \in 1..Len(r)}

\* r lists the first Limit documents of D in order.
TopOf(s, D, r, top) ==
    /\ Len(r) \in Nat /\ Cardinality(top) = Min({Limit, Cardinality(D)}) /\ top \subseteq D
    /\ \A i \in 1..Len(r) : /\ r[i].node = s.hits[r[i].key]
                            /\ r[i].score = s.scores[r[i].key]
                            /\ \A j \in 1..(i - 1) : Before(s, r[j].key, r[i].key)
                            /\ \A a \in D \ top : Before(s, r[i].key, a)

LEMMA RankedIs ==
    ASSUME NEW s, NEW D, Scored(s, D), NEW r, r = Ranked(s),
           NEW top, top = KeysOf(r)
    PROVE  TopOf(s, D, r, top)
<1>1. PICK order : order = OrderOf(s)
  OBVIOUS
<1>2. PICK N : N = Cardinality(D)
  OBVIOUS
<1>3. /\ N \in Nat /\ order \in [1..N -> D]
      /\ \A i, j \in 1..N : i < j => Before(s, order[i], order[j])
      /\ \A i, j \in 1..N : i # j => order[i] # order[j]
      /\ \A a \in D : \E i \in 1..N : order[i] = a
  BY <1>1, <1>2, OrderIs
<1>4. order \in Seq(D) /\ Len(order) = N
  BY <1>3
<1>5. PICK k : k = Min({Limit, N})
  OBVIOUS
<1>6. k \in 0..N /\ k \in Nat
  <2>1. PICK T : T = {Limit, N}
    OBVIOUS
  <2>2. T \subseteq Nat /\ T # {} /\ N \in T
    BY <1>3, <2>1, ExecutorAssumption
  <2>3. Min(T) \in T /\ \A y \in T : Min(T) =< y
    BY <2>2, LeastOf
  <2>4. k = Min(T)
    BY <1>5, <2>1
  <2>5. k \in Nat /\ k =< N
    BY <2>2, <2>3, <2>4
  <2> QED
    BY <1>3, <2>5
<1>7. PICK best : best = SubSeq(order, 1, k)
  OBVIOUS
<1>8. Len(best) = k /\ \A i \in 1..k : best[i] = order[i]
  BY <1>4, <1>6, <1>7, SubSeqProperties
<1>9. r = [i \in 1..Len(best) |-> [key |-> best[i], node |-> s.hits[best[i]], score |-> s.scores[best[i]]]]
  BY <1>1, <1>4, <1>5, <1>7 DEF Ranked, OrderOf
<1>10. /\ r = [i \in 1..k |-> [key |-> order[i], node |-> s.hits[order[i]], score |-> s.scores[order[i]]]]
  BY <1>8, <1>9
<1>11. Len(r) = k /\ \A i \in 1..k : /\ r[i].key = order[i] /\ r[i].node = s.hits[order[i]]
                                    /\ r[i].score = s.scores[order[i]]
  BY <1>6, <1>10
<1>12. \A i \in 1..k : i \in 1..N /\ order[i] \in D
  BY <1>3, <1>6
<1>13. top = {order[i] : i \in 1..k} /\ top \subseteq D
  BY <1>11, <1>12 DEF KeysOf
<1>14. Cardinality(top) = k
  <2>1. PICK I, f : I = 1..k /\ f = [i \in I |-> order[i]]
    OBVIOUS
  <2>2. f \in Bijection(I, top)
    <3>1. DOMAIN f = I /\ f \in [I -> top] /\ \A i \in I : f[i] = order[i] /\ i \in 1..N
      BY <1>12, <1>13, <2>1
    <3>2. \A i, j \in I : f[i] = f[j] => i = j
      BY <1>3, <3>1
    <3>3. \A a \in top : \E i \in I : f[i] = a
      BY <1>13, <2>1, <3>1
    <3> QED
      BY <3>1, <3>2, <3>3 DEF Bijection, Injection, Surjection, IsInjective
  <2>3. IsFiniteSet(I) /\ Cardinality(I) = k
    BY <1>6, <2>1, FS_Interval
  <2> QED
    BY <2>2, <2>3, FS_Bijection DEF ExistsBijection
<1>15. ASSUME NEW i \in 1..k
       PROVE  /\ \A j \in 1..(i - 1) : Before(s, r[j].key, r[i].key)
              /\ \A a \in D \ top : Before(s, r[i].key, a)
  <2>1. ASSUME NEW j \in 1..(i - 1) PROVE Before(s, r[j].key, r[i].key)
    <3>1. j \in 1..k /\ j < i
      BY <1>6
    <3> QED
      BY <1>3, <1>11, <1>12, <3>1
  <2>2. ASSUME NEW a \in D \ top PROVE Before(s, r[i].key, a)
    <3>1. PICK j \in 1..N : order[j] = a
      BY <1>3
    <3>2. ~ (j \in 1..k)
      BY <1>13, <3>1
    <3>3. i < j
      BY <1>3, <1>6, <3>2
    <3> QED
      BY <1>3, <1>11, <1>12, <3>1, <3>3
  <2> QED
    BY <2>1, <2>2
<1>16. \A i \in 1..k : r[i].node = s.hits[r[i].key] /\ r[i].score = s.scores[r[i].key]
  BY <1>11
<1>17. Cardinality(top) = Min({Limit, Cardinality(D)}) /\ Len(r) = k
  BY <1>2, <1>5, <1>11, <1>14
<1> QED
  BY <1>6, <1>13, <1>15, <1>16, <1>17 DEF TopOf

-----------------------------------------------------------------------------
(* The merge state is that of the answers merged, whatever their order.    *)

FoundIn(m) == {key \in Keys : SourcesIn(m, key) # {}}

Merges(s, m) ==
    /\ IsFiniteSet(FoundIn(m)) /\ DOMAIN s.scores = FoundIn(m) /\ DOMAIN s.hits = FoundIn(m)
    /\ \A key \in FoundIn(m) : /\ s.scores[key] = ScoreIn(m, key)
                               /\ s.hits[key] = Min(SourcesIn(m, key))

\* Every answer is one of hits of its node's collections.
AreAnswers(m) == \A n \in DOMAIN m : n \in Nodes /\ m[n] \in Hits(n)

MergeInv ==
    /\ \A n \in Nodes : received[n] \in Hits(n)
    /\ \A i \in 1..Len(responses) : responses[i].hits \in Hits(responses[i].node)
    /\ AreAnswers(merged) /\ Merges(state, merged)
    /\ executor = "returned" => Conclusion.results = Ranked(state)

LEMMA HitsFacts ==
    ASSUME NEW n \in Nodes, NEW hits \in Hits(n)
    PROVE  Len(hits) \in Nat /\ \A i \in 1..Len(hits) : hits[i] \in Keys
<1>1. PICK k \in 0..MaxHits : hits \in [1..k -> Owns(n) \X Documents]
  BY DEF Hits
<1>2. k \in Nat
  BY <1>1, ExecutorAssumption
<1>3. Len(hits) = k
  BY <1>1, <1>2
<1>4. Owns(n) \X Documents \subseteq Keys
  BY DEF Keys, Collections
<1> QED
  BY <1>1, <1>2, <1>3, <1>4

LEMMA NoHits == \A n : << >> \in Hits(n)
<1>1. SUFFICES ASSUME NEW n PROVE << >> \in Hits(n)
  OBVIOUS
<1>2. << >> \in [1..0 -> Owns(n) \X Documents] /\ 0 \in 0..MaxHits
  BY ExecutorAssumption
<1> QED
  BY <1>2 DEF Hits

LEMMA AnswersFinite ==
    ASSUME NEW m, AreAnswers(m)
    PROVE  IsFiniteSet(DOMAIN m) /\ \A x \in DOMAIN m : Len(m[x]) \in Nat
<1>1. DOMAIN m \in SUBSET Nodes
  BY DEF AreAnswers
<1>2. IsFiniteSet(DOMAIN m)
  BY <1>1, FS_Subset, ExecutorAssumption
<1> QED
  BY <1>2, HitsFacts DEF AreAnswers

LEMMA ScoreOfNone ==
    ASSUME NEW m, IsFiniteSet(DOMAIN m), NEW key, SourcesIn(m, key) = {}
    PROVE  ScoreIn(m, key) = 0
<1>1. PICK g : Adds(g, Points(m, key), SourcesIn(m, key)) /\ ScoreIn(m, key) = g[SourcesIn(m, key)]
  BY ScoreAdds
<1> QED
  BY <1>1 DEF Adds, AddsOn

LEMMA LeastWith ==
    ASSUME NEW S, S \subseteq Nat, NEW n \in Nat
    PROVE  Min(S \union {n}) = IF S # {} /\ Min(S) =< n THEN Min(S) ELSE n
<1>1. PICK T : T = S \union {n}
  OBVIOUS
<1>2. Min(T) \in T /\ \A y \in T : Min(T) =< y
  BY <1>1, LeastOf
<1>3. S # {} => Min(S) \in S /\ \A y \in S : Min(S) =< y
  BY LeastOf
<1>4. PICK a, b : a = Min(T) /\ b = Min(S)
  OBVIOUS
<1>5. a \in Nat /\ a =< n /\ (a \in S \/ a = n)
  BY <1>1, <1>2, <1>4
<1>6. S # {} => b \in Nat /\ b \in T /\ a =< b /\ (a \in S => b =< a)
  BY <1>1, <1>2, <1>3, <1>4
<1>7. a = IF S # {} /\ b =< n THEN b ELSE n
  BY <1>5, <1>6
<1> QED
  BY <1>1, <1>4, <1>7

LEMMA MergeKeeps ==
    ASSUME Typed, NEW m, AreAnswers(m), Merges(state, m), NEW n \in Nodes, n \notin DOMAIN m,
           NEW hits \in Hits(n), NEW s, s = merge(n, hits), NEW m2, WithAnswer(m2, m, n, hits)
    PROVE  Merges(s, m2) /\ AreAnswers(m2)
<1>1. Len(hits) \in Nat /\ \A i \in 1..Len(hits) : hits[i] \in Keys
  BY HitsFacts
<1>2. IsFiniteSet(DOMAIN m) /\ \A x \in DOMAIN m : Len(m[x]) \in Nat
  BY AnswersFinite
<1>3. AreAnswers(m2)
  BY DEF AreAnswers, WithAnswer
<1>4. PICK keys, sc, src, all :
        /\ keys = {hits[i] : i \in Firsts(hits)} /\ sc = state.scores /\ src = state.hits
        /\ all = DOMAIN sc \union keys
  OBVIOUS
<1>5. ASSUME NEW key
      PROVE  /\ key \in keys <=> \E i \in 1..Len(hits) : hits[i] = key
             /\ key \in keys => key \in Keys
             /\ key \in keys => (CHOOSE i \in Firsts(hits) : hits[i] = key) = First(hits, key)
  <2>1. key \in keys <=> \E i \in Firsts(hits) : hits[i] = key
    BY <1>4
  <2>2. key \in keys <=> \E i \in 1..Len(hits) : hits[i] = key
    BY <1>1, <2>1, FirstCounts
  <2> QED
    BY <1>1, <2>2, FirstCounts
<1>6. ASSUME NEW key
      PROVE  /\ ScoreIn(m, key) \in Nat
             /\ key \in keys => /\ SourcesIn(m2, key) = SourcesIn(m, key) \union {n}
                                /\ ScoreIn(m2, key) = ScoreIn(m, key) + Weight(First(hits, key))
             /\ key \notin keys => /\ SourcesIn(m2, key) = SourcesIn(m, key)
                                   /\ ScoreIn(m2, key) = ScoreIn(m, key)
  BY <1>1, <1>2, <1>5, ScoreMore
<1>7. /\ IsFiniteSet(FoundIn(m)) /\ DOMAIN sc = FoundIn(m) /\ DOMAIN src = FoundIn(m)
      /\ \A key \in FoundIn(m) : sc[key] = ScoreIn(m, key) /\ src[key] = Min(SourcesIn(m, key))
  BY <1>4 DEF Merges
<1>8. FoundIn(m2) = all
  BY <1>4, <1>5, <1>6, <1>7 DEF FoundIn
<1>9. IsFiniteSet(all)
  <2>1. PICK I, f, l : l = Len(hits) /\ I = 1..l /\ f = [i \in I |-> hits[i]]
    OBVIOUS
  <2>2. f \in Surjection(I, keys)
    <3>1. \A i \in I : f[i] = hits[i] /\ hits[i] \in keys
      BY <1>5, <2>1
    <3>2. f \in [I -> keys] /\ \A key \in keys : \E i \in I : f[i] = key
      BY <1>5, <2>1, <3>1
    <3> QED
      BY <3>2 DEF Surjection
  <2>3. IsFiniteSet(I)
    BY <1>1, <2>1, FS_Interval
  <2>4. IsFiniteSet(keys)
    BY <2>2, <2>3, FS_Surjection
  <2>5. IsFiniteSet(DOMAIN sc)
    BY <1>7
  <2> QED
    BY <1>4, <2>4, <2>5, FS_Union
<1>10. /\ DOMAIN s.scores = all /\ DOMAIN s.hits = all
       /\ \A key \in all :
            /\ s.scores[key] = (IF key \in DOMAIN sc THEN sc[key] ELSE 0)
                               + (IF key \in keys
                                  THEN Weight(CHOOSE i \in Firsts(hits) : hits[i] = key) ELSE 0)
            /\ s.hits[key] = IF key \notin keys THEN src[key]
                             ELSE IF key \in DOMAIN src /\ src[key] =< n THEN src[key] ELSE n
  <2>1. "hits" \in DOMAIN state /\ "scores" \in DOMAIN state /\ "searched" \in DOMAIN state
    BY DEF Typed
  <2>2. s.scores = [key \in all |-> (IF key \in DOMAIN sc THEN sc[key] ELSE 0)
                                    + (IF key \in keys
                                       THEN Weight(CHOOSE i \in Firsts(hits) : hits[i] = key) ELSE 0)]
    BY <1>4, <2>1 DEF merge
  <2>3. s.hits = [key \in all |-> IF key \notin keys THEN src[key]
                                  ELSE IF key \in DOMAIN src /\ src[key] =< n THEN src[key] ELSE n]
    BY <1>4, <2>1 DEF merge
  <2> QED
    BY <2>2, <2>3
<1>11. ASSUME NEW key \in all
       PROVE  s.scores[key] = ScoreIn(m2, key) /\ s.hits[key] = Min(SourcesIn(m2, key))
  <2>1. key \in Keys /\ (key \in DOMAIN sc <=> SourcesIn(m, key) # {}) /\ DOMAIN sc = DOMAIN src
    BY <1>4, <1>5, <1>7 DEF FoundIn
  <2>2. CASE key \notin keys
    <3>1. key \in DOMAIN sc
      BY <1>4, <2>2
    <3>2. s.scores[key] = sc[key] + 0 /\ s.hits[key] = src[key]
      BY <1>10, <2>2, <3>1
    <3>3. sc[key] = ScoreIn(m, key) /\ src[key] = Min(SourcesIn(m, key)) /\ ScoreIn(m, key) \in Nat
      BY <1>6, <1>7, <3>1
    <3> QED
      BY <1>6, <2>2, <3>2, <3>3
  <2>3. CASE key \in keys
    <3>1. PICK w : w = Weight(First(hits, key))
      OBVIOUS
    <3>2. w \in Nat
      BY <1>1, <1>5, <2>3, <3>1, FirstIs
    <3>3. /\ s.scores[key] = (IF key \in DOMAIN sc THEN sc[key] ELSE 0) + w
          /\ s.hits[key] = IF key \in DOMAIN src /\ src[key] =< n THEN src[key] ELSE n
      BY <1>5, <1>10, <2>3, <3>1
    <3>4. ScoreIn(m2, key) = ScoreIn(m, key) + w /\ SourcesIn(m2, key) = SourcesIn(m, key) \union {n}
      BY <1>6, <2>3, <3>1
    <3>5. PICK S : S = SourcesIn(m, key)
      OBVIOUS
    <3>6. S \subseteq Nat /\ n \in Nat
      BY <3>5, ExecutorAssumption DEF SourcesIn, AreAnswers
    <3>7. Min(S \union {n}) = IF S # {} /\ Min(S) =< n THEN Min(S) ELSE n
      BY <3>6, LeastWith
    <3>8. CASE key \in DOMAIN sc
      <4>1. sc[key] = ScoreIn(m, key) /\ src[key] = Min(S) /\ S # {}
        BY <1>7, <2>1, <3>5, <3>8
      <4> QED
        BY <2>1, <3>3, <3>4, <3>5, <3>7, <3>8, <4>1
    <3>9. CASE key \notin DOMAIN sc
      <4>1. S = {} /\ ScoreIn(m, key) = 0
        BY <1>2, <2>1, <3>5, <3>9, ScoreOfNone
      <4> QED
        BY <2>1, <3>2, <3>3, <3>4, <3>5, <3>7, <3>9, <4>1
    <3> QED
      BY <3>8, <3>9
  <2> QED
    BY <2>2, <2>3
<1> QED
  BY <1>3, <1>8, <1>9, <1>10, <1>11 DEF Merges

\* Marking nodes as unavailable changes neither scores nor sources.
LEMMA MarkKeeps ==
    ASSUME Typed, NEW nodes, NEW s, s = markUnavailable(state, nodes), NEW m, Merges(state, m)
    PROVE  Merges(s, m)
<1>1. s.scores = state.scores /\ s.hits = state.hits
  BY DEF Typed, markUnavailable
<1> QED
  BY <1>1 DEF Merges

LEMMA UpdateResults ==
    ASSUME NEW s, NEW complete
    PROVE  Update(s, complete).results = Ranked(s)
  BY DEF Update

-----------------------------------------------------------------------------
(* The steps of a request and the merge.                                   *)

\* Steps that neither take an answer nor merge one.
LEMMA MergeSame ==
    ASSUME MergeInv, \A n \in Nodes : received'[n] \in Hits(n), Conclusion' = Conclusion,
           UNCHANGED <<responses, merged, state, executor>>
    PROVE  MergeInv'
  BY DEF MergeInv

LEMMA MergeSend ==
    ASSUME QueryInv, MergeInv, NEW n \in Nodes, NEW ok, NEW hits \in Hits(n), Send(n, ok, hits)
    PROVE  MergeInv'
<1>1. /\ responses' = Append(responses, [node |-> n, ok |-> ok, hits |-> hits])
      /\ received' = [received EXCEPT ![n] = << >>]
      /\ UNCHANGED <<executor, state, merged, updates, final>>
  BY DEF Send, executorVars
<1>2. \A x \in Nodes : received'[x] \in Hits(x)
  BY <1>1, NoHits DEF MergeInv
<1>3. PICK r : r = [node |-> n, ok |-> ok, hits |-> hits]
  OBVIOUS
<1>4. /\ Len(responses) \in Nat /\ Len(responses') = Len(responses) + 1
      /\ \A i \in 1..Len(responses) : responses'[i] = responses[i]
      /\ responses'[Len(responses) + 1] = r
  BY <1>1, <1>3, AppendChannel DEF QueryInv, Typed
<1>5. r.node = n /\ r.hits = hits
  BY <1>3
<1>6. ASSUME NEW i \in 1..Len(responses')
      PROVE  responses'[i].hits \in Hits(responses'[i].node)
  <2>1. CASE i \in 1..Len(responses)
    BY <1>4, <2>1 DEF MergeInv
  <2>2. CASE i = Len(responses) + 1
    BY <1>4, <1>5, <2>2
  <2> QED
    BY <1>4, <2>1, <2>2
<1>7. Conclusion' = Conclusion
  BY <1>1 DEF Conclusion
<1> QED
  BY <1>1, <1>2, <1>6, <1>7 DEF MergeInv

LEMMA MergeReceive ==
    ASSUME QueryInv, MergeInv, Receive
    PROVE  MergeInv'
<1>1. PICK r, rest, s :
        /\ r = Head(responses) /\ rest = pending \ {r.node}
        /\ s = IF r.ok THEN merge(r.node, r.hits) ELSE markUnavailable(state, {r.node})
  OBVIOUS
<1>2. /\ executor = "running" /\ responses # << >> /\ state' = s
      /\ merged' = IF r.ok THEN [x \in DOMAIN merged \union {r.node} |->
                                    IF x = r.node THEN r.hits ELSE merged[x]]
                   ELSE merged
      /\ updates' = Append(updates, Update(s, rest = {}))
      /\ responses' = Tail(responses) /\ received' = received
  BY <1>1 DEF Receive, callVars
<1>3. Typed /\ Goroutines /\ Answers
  BY DEF QueryInv
<1>4. /\ r = responses[1] /\ Len(responses) \in Nat /\ Len(responses) >= 1
      /\ \A i \in 1..Len(responses') : responses'[i] = responses[i + 1] /\ i + 1 \in 1..Len(responses)
  BY <1>1, <1>2, <1>3, TailChannel DEF Typed
<1>5. 1 \in 1..Len(responses)
  BY <1>4
<1>6. r.node \in pending /\ r.node \in Nodes /\ r.node \notin DOMAIN merged /\ r.hits \in Hits(r.node)
  BY <1>2, <1>3, <1>4, <1>5 DEF Answers, Goroutines, Typed, MergeInv
<1>7. AreAnswers(merged) /\ Merges(state, merged)
  BY DEF MergeInv
<1>8. Merges(s, merged') /\ AreAnswers(merged')
  <2>1. PICK n, hits, m, m2 : n = r.node /\ hits = r.hits /\ m = merged /\ m2 = merged'
    OBVIOUS
  <2>2. n \in Nodes /\ n \notin DOMAIN m /\ hits \in Hits(n) /\ AreAnswers(m) /\ Merges(state, m)
    BY <1>6, <1>7, <2>1
  <2>3. CASE r.ok
    <3>1. s = merge(n, hits) /\ WithAnswer(m2, m, n, hits)
      BY <1>1, <1>2, <2>1, <2>3 DEF WithAnswer
    <3>2. Merges(s, m2) /\ AreAnswers(m2)
      BY <1>3, <2>2, <3>1, MergeKeeps
    <3> QED
      BY <2>1, <3>2
  <2>4. CASE ~ r.ok
    <3>1. s = markUnavailable(state, {n}) /\ m2 = m
      BY <1>1, <1>2, <2>1, <2>4
    <3>2. Merges(s, m)
      BY <1>3, <2>2, <3>1, MarkKeeps
    <3> QED
      BY <2>1, <2>2, <3>1, <3>2
  <2> QED
    BY <2>3, <2>4
<1>9. Conclusion' = Update(s, rest = {})
  <2>1. /\ updates'[Len(updates) + 1] = Update(s, rest = {}) /\ updates' # << >>
        /\ Len(updates') = Len(updates) + 1
    BY <1>2, <1>3, AppendChannel DEF Typed
  <2> QED
    BY <2>1 DEF Conclusion
<1>10. Conclusion'.results = Ranked(state')
  BY <1>2, <1>9, UpdateResults
<1>11. \A i \in 1..Len(responses') : responses'[i].hits \in Hits(responses'[i].node)
  BY <1>4 DEF MergeInv
<1> QED
  BY <1>2, <1>8, <1>10, <1>11 DEF MergeInv

LEMMA MergeStop ==
    ASSUME QueryInv, MergeInv, Stop
    PROVE  MergeInv'
<1>1. PICK s : s = markUnavailable(state, pending)
  OBVIOUS
<1>2. /\ state' = s /\ updates' = Append(updates, Update(s, TRUE))
      /\ UNCHANGED <<received, responses, merged>>
  BY <1>1 DEF Stop, callVars
<1>3. Typed
  BY DEF QueryInv
<1>4. Merges(s, merged)
  <2>1. PICK m, nodes : m = merged /\ nodes = pending
    OBVIOUS
  <2>2. Merges(state, m) /\ s = markUnavailable(state, nodes)
    BY <1>1, <2>1 DEF MergeInv
  <2>3. Merges(s, m)
    BY <1>3, <2>2, MarkKeeps
  <2> QED
    BY <2>1, <2>3
<1>5. Conclusion' = Update(s, TRUE)
  <2>1. /\ updates'[Len(updates) + 1] = Update(s, TRUE) /\ updates' # << >>
        /\ Len(updates') = Len(updates) + 1
    BY <1>2, <1>3, AppendChannel DEF Typed
  <2> QED
    BY <2>1 DEF Conclusion
<1>6. Conclusion'.results = Ranked(state')
  BY <1>2, <1>5, UpdateResults
<1> QED
  BY <1>2, <1>4, <1>6 DEF MergeInv

LEMMA MergeExecute ==
    ASSUME QueryInv, MergeInv, Execute
    PROVE  MergeInv'
<1>1. UNCHANGED <<received, responses, state, merged>>
  BY DEF Execute
<1>2. CASE Matching = {}
  <2>1. updates' = <<Update(state, TRUE)>>
    BY <1>2 DEF Execute
  <2>2. Conclusion' = Update(state, TRUE)
    BY <2>1 DEF Conclusion
  <2>3. Conclusion'.results = Ranked(state')
    BY <1>1, <2>2, UpdateResults
  <2> QED
    BY <1>1, <2>3 DEF MergeInv
<1>3. CASE Matching # {}
  <2>1. executor' = "running"
    BY <1>3 DEF Execute
  <2> QED
    BY <1>1, <2>1 DEF MergeInv
<1> QED
  BY <1>2, <1>3

LEMMA MergeRead ==
    ASSUME QueryInv, MergeInv, Read
    PROVE  MergeInv'
<1>1. /\ updates # << >> /\ final' = Head(updates) /\ updates' = Tail(updates)
      /\ UNCHANGED <<received, responses, executor, state, merged>>
  BY DEF Read, callVars, executorVars
<1>2. Conclusion' = Conclusion
  BY ReadConclusion DEF QueryInv
<1> QED
  BY <1>1, <1>2, MergeSame DEF MergeInv

LEMMA MergeInit ==
    ASSUME Init PROVE MergeInv
<1>1. /\ DOMAIN merged = {} /\ state = EmptyState /\ Len(responses) = 0 /\ executor = "off"
      /\ \A n \in Nodes : received[n] \in Hits(n)
  BY NoHits DEF Init
<1>2. FoundIn(merged) = {} /\ AreAnswers(merged)
  BY <1>1 DEF FoundIn, SourcesIn, AreAnswers
<1>3. Merges(state, merged)
  <2>1. DOMAIN EmptyState.scores = {} /\ DOMAIN EmptyState.hits = {}
    BY DEF EmptyState
  <2> QED
    BY <1>1, <1>2, <2>1, FS_EmptySet DEF Merges
<1> QED
  BY <1>1, <1>2, <1>3 DEF MergeInv

LEMMA MergeStep ==
    ASSUME QueryInv, MergeInv, [Next]_vars PROVE MergeInv'
<1>0. \A n \in Nodes : received[n] \in Hits(n)
  BY DEF MergeInv
<1> USE DEF requestVars, executorVars, callVars
<1>1. ASSUME UNCHANGED <<updates, final, responses, merged, state, executor>>,
             \A n \in Nodes : received'[n] \in Hits(n)
      PROVE  MergeInv'
  <2>1. Conclusion' = Conclusion
    BY <1>1 DEF Conclusion
  <2> QED
    BY <1>1, <2>1, MergeSame
<1>2. CASE UNCHANGED vars \/ RegistryChanges \/ Refuse \/ ContextEnds \/ AnswerRequest
  BY <1>0, <1>1, <1>2 DEF vars, RegistryChanges, Refuse, ContextEnds, AnswerRequest
<1>3. ASSUME NEW ask \in Asks, Plan(ask) PROVE MergeInv'
  BY <1>0, <1>1, <1>3 DEF Plan
<1>4. CASE Execute
  BY <1>4, MergeExecute
<1>5. ASSUME NEW n \in Nodes, Recv(n) PROVE MergeInv'
  <2>1. PICK hits \in Hits(n) : received' = [received EXCEPT ![n] = hits]
    BY <1>5 DEF Recv
  <2>2. \A x \in Nodes : received'[x] \in Hits(x)
    BY <1>0, <2>1
  <2> QED
    BY <1>1, <1>5, <2>2 DEF Recv
<1>6. ASSUME NEW n \in Nodes, Respond(n) PROVE MergeInv'
  <2>1. PICK hits \in Hits(n) : hits = received[n]
    BY <1>0
  <2> QED
    BY <1>6, <2>1, MergeSend DEF Respond
<1>7. ASSUME NEW n \in Nodes, RespondError(n) PROVE MergeInv'
  BY <1>7, NoHits, MergeSend DEF RespondError
<1>8. ASSUME NEW n \in Nodes, GiveUp(n) PROVE MergeInv'
  <2>1. \A x \in Nodes : received'[x] \in Hits(x)
    BY <1>0, <1>8, NoHits DEF GiveUp
  <2> QED
    BY <1>1, <1>8, <2>1 DEF GiveUp
<1>9. CASE Receive
  BY <1>9, MergeReceive
<1>10. CASE Stop
  BY <1>10, MergeStop
<1>11. CASE Read
  BY <1>11, MergeRead
<1> QED
  BY <1>2, <1>3, <1>4, <1>5, <1>6, <1>7, <1>8, <1>9, <1>10, <1>11 DEF Next

\* The merge state that the executor has after any answers, in any order, is the one
\* that the answers define, and the last update shows it.
THEOREM MergeInvariant == Spec => []MergeInv
<1>1. Init => QueryInv /\ MergeInv
  BY QueryInit, MergeInit
<1>2. QueryInv /\ MergeInv /\ [Next]_vars => QueryInv' /\ MergeInv'
  BY QueryStep, MergeStep
<1> QED
  BY <1>1, <1>2, PTL DEF Spec

LEMMA ScoreType ==
    ASSUME NEW m, AreAnswers(m), NEW key
    PROVE  ScoreIn(m, key) \in Nat
<1>1. IsFiniteSet(DOMAIN m) /\ \A x \in DOMAIN m : Len(m[x]) \in Nat
  BY AnswersFinite
<1>2. PICK S, f : S = SourcesIn(m, key) /\ f = Points(m, key)
  OBVIOUS
<1>3. PICK g : Adds(g, f, S) /\ ScoreIn(m, key) = g[S]
  BY <1>1, <1>2, ScoreAdds
<1>4. IsFiniteSet(S)
  BY <1>1, <1>2, FS_Subset DEF SourcesIn
<1>5. ASSUME NEW x \in S PROVE f[x] \in Nat
  <2>1. x \in DOMAIN m /\ (\E i \in 1..Len(m[x]) : m[x][i] = key) /\ f[x] = Weight(First(m[x], key))
    BY <1>2 DEF SourcesIn, Points
  <2> QED
    BY <1>1, <2>1, FirstIs
<1> QED
  BY <1>3, <1>4, <1>5, AddsAnyOrder

\* The results of an answer depend on which nodes answered and not on the order in
\* which the executor received their answers.
THEOREM ResultsOrderFree == Spec => []ResultsAreOrderFree
<1>1. ASSUME QueryInv, MergeInv, handler = "answered"
      PROVE  LET found == {key \in Keys : Sources(key) # {}}
                 results == final.results
                 returned == {results[i].key : i \in 1..Len(results)}
             IN  /\ returned \subseteq found
                 /\ Cardinality(returned) = Min({Limit, Cardinality(found)})
                 /\ \A i \in 1..Len(results) :
                       /\ results[i].score = ReferenceScore(results[i].key)
                       /\ results[i].node = Min(Sources(results[i].key))
                       /\ \A j \in 1..(i - 1) : Above(results[j].key, results[i].key)
                       /\ \A key \in found \ returned : Above(results[i].key, key)
  <2>1. PICK m, s, results, returned, found :
          /\ m = merged /\ s = state /\ results = final.results /\ found = FoundIn(m)
          /\ returned = KeysOf(results)
    OBVIOUS
  <2>2. results = Ranked(s)
    <3>1. executor = "returned" /\ updates = << >>
      BY <1>1 DEF QueryInv, Phases
    <3> QED
      BY <1>1, <2>1, <3>1 DEF MergeInv, Conclusion
  <2>3. AreAnswers(m) /\ Merges(s, m)
    BY <1>1, <2>1 DEF MergeInv
  <2>4. /\ IsFiniteSet(found) /\ DOMAIN s.scores = found /\ found \subseteq Keys
        /\ \A key \in found : /\ s.scores[key] = ScoreIn(m, key) /\ s.scores[key] \in Nat
                              /\ s.hits[key] = Min(SourcesIn(m, key))
    BY <2>1, <2>3, ScoreType DEF Merges, FoundIn
  <2>5. Scored(s, found)
    BY <2>4 DEF Scored
  <2>6. /\ Len(results) \in Nat /\ Cardinality(returned) = Min({Limit, Cardinality(found)})
        /\ returned \subseteq found
        /\ \A i \in 1..Len(results) :
              /\ results[i].node = s.hits[results[i].key] /\ results[i].score = s.scores[results[i].key]
              /\ \A j \in 1..(i - 1) : Before(s, results[j].key, results[i].key)
              /\ \A a \in found \ returned : Before(s, results[i].key, a)
    <3>1. TopOf(s, found, results, returned)
      BY <2>1, <2>2, <2>5, RankedIs
    <3> QED
      BY <3>1 DEF TopOf
  <2>7. found = {key \in Keys : Sources(key) # {}}
    BY <2>1, ReferenceIs DEF FoundIn
  <2>8. ASSUME NEW key \in found
        PROVE  s.scores[key] = ReferenceScore(key) /\ s.hits[key] = Min(Sources(key))
    BY <2>1, <2>4, ReferenceIs
  <2>9. ASSUME NEW a \in found, NEW b \in found, Before(s, a, b) PROVE Above(a, b)
    BY <2>8, <2>9 DEF Before, Above
  <2>10. ASSUME NEW i \in 1..Len(results)
         PROVE  /\ results[i].score = ReferenceScore(results[i].key)
                /\ results[i].node = Min(Sources(results[i].key))
                /\ \A j \in 1..(i - 1) : Above(results[j].key, results[i].key)
                /\ \A key \in found \ returned : Above(results[i].key, key)
    <3>1. \A j \in 1..i : j \in 1..Len(results) /\ results[j].key \in found
      BY <2>1, <2>6 DEF KeysOf
    <3>2. i \in 1..i /\ \A j \in 1..(i - 1) : j \in 1..i
      BY <2>6
    <3> QED
      BY <2>6, <2>8, <2>9, <3>1, <3>2
  <2> QED
    BY <2>1, <2>6, <2>7, <2>10 DEF KeysOf
<1>2. QueryInv /\ MergeInv => ResultsAreOrderFree
  BY <1>1 DEF ResultsAreOrderFree
<1> QED
  BY <1>2, QueryInvariant, MergeInvariant, PTL

-----------------------------------------------------------------------------
(* Loops.  A loop of the index is a recursive function of the round or of  *)
(* the place it has come to.                                               *)

\* After the round i comes step[i] of what was before.
RunsTo(h, n, base, step) == h = [i \in 0..n |-> IF i = 0 THEN base ELSE step[i][h[i - 1]]]

\* What every round keeps holds after all.
LEMMA RoundsKeep ==
    ASSUME NEW n \in Nat, NEW Q, NEW h, h[0] \in Q[0],
           \A i \in 1..n : h[i - 1] \in Q[i - 1] => h[i] \in Q[i]
    PROVE  \A i \in 0..n : h[i] \in Q[i]
<1> DEFINE bad == {i \in 0..n : ~ (h[i] \in Q[i])}
<1>1. SUFFICES ASSUME bad # {} PROVE FALSE
  OBVIOUS
<1>2. PICK k \in bad : \A y \in bad : k =< y
  <2>1. bad \subseteq Nat
    OBVIOUS
  <2> HIDE DEF bad
  <2> QED
    BY <1>1, <2>1, LeastNumber
<1>3. k \in 1..n
  OBVIOUS
<1>4. k - 1 \in 0..n /\ ~ (k =< k - 1)
  BY <1>3
<1>5. h[k - 1] \in Q[k - 1]
  BY <1>2, <1>4
<1> QED
  BY <1>2, <1>3, <1>5

LEMMA RoundsExist ==
    ASSUME NEW n \in Nat, NEW base, NEW step
    PROVE  \E h : RunsTo(h, n, base, step)
<1> DEFINE bad == {k \in 0..n : ~ \E h : RunsTo(h, k, base, step)}
<1>1. SUFFICES ASSUME bad # {} PROVE FALSE
  OBVIOUS
<1>2. PICK k \in bad : \A y \in bad : k =< y
  <2>1. bad \subseteq Nat
    OBVIOUS
  <2> HIDE DEF bad
  <2> QED
    BY <1>1, <2>1, LeastNumber
<1>3. CASE k = 0
  <2>1. PICK h : h = [i \in 0..0 |-> base]
    OBVIOUS
  <2>2. RunsTo(h, 0, base, step)
    BY <2>1 DEF RunsTo
  <2> QED
    BY <1>2, <1>3, <2>2
<1>4. CASE k # 0
  <2>1. k \in 1..n /\ k - 1 \in 0..n /\ ~ (k =< k - 1)
    BY <1>4
  <2>2. PICK g : RunsTo(g, k - 1, base, step)
    BY <1>2, <2>1
  <2>3. PICK h : h = [i \in 0..k |-> IF i = k THEN step[k][g[k - 1]] ELSE g[i]]
    OBVIOUS
  <2>4. ASSUME NEW i \in 0..k PROVE h[i] = IF i = 0 THEN base ELSE step[i][h[i - 1]]
    <3>1. CASE i = k
      <4>1. h[k - 1] = g[k - 1]
        BY <2>1, <2>3
      <4> QED
        BY <2>1, <2>3, <3>1, <4>1
    <3>2. CASE i # k
      <4>1. i \in 0..(k - 1) /\ h[i] = g[i] /\ (i # 0 => i - 1 \in 0..k /\ i - 1 # k)
        BY <2>1, <2>3, <3>2
      <4>2. i # 0 => h[i - 1] = g[i - 1]
        BY <2>3, <4>1
      <4>3. g[i] = IF i = 0 THEN base ELSE step[i][g[i - 1]]
        BY <2>2, <4>1 DEF RunsTo
      <4> QED
        BY <4>1, <4>2, <4>3
    <3> QED
      BY <3>1, <3>2
  <2>5. RunsTo(h, k, base, step)
    BY <2>3, <2>4 DEF RunsTo
  <2> QED
    BY <1>2, <2>5
<1> QED
  BY <1>3, <1>4

\* A loop whose rounds lead from Q[i - 1] to Q[i] ends in Q[n].
LEMMA Rounds ==
    ASSUME NEW n \in Nat, NEW base, NEW step, NEW Q, base \in Q[0],
           \A i \in 1..n : \A s \in Q[i - 1] : step[i][s] \in Q[i]
    PROVE  \E h : RunsTo(h, n, base, step) /\ \A i \in 0..n : h[i] \in Q[i]
<1>1. PICK h : RunsTo(h, n, base, step)
  BY RoundsExist
<1>2. h[0] = base /\ \A i \in 1..n : h[i] = step[i][h[i - 1]]
  BY <1>1 DEF RunsTo
<1>3. \A i \in 1..n : h[i - 1] \in Q[i - 1] => h[i] \in Q[i]
  BY <1>2
<1>4. \A i \in 0..n : h[i] \in Q[i]
  BY <1>2, <1>3, RoundsKeep
<1> QED
  BY <1>1, <1>4

\* From every place outside stop the walk goes on to the next one.
WalksTo(w, D, next, stop, out) == w = [e \in D |-> IF e \in stop THEN out[e] ELSE w[next[e]]]

\* The next place is nearer to the end, by a number m that is below a bound.
Nears(D, next, stop, m, bound) ==
    \A e \in D : m[e] \in Nat /\ m[e] < bound /\ (e \notin stop => next[e] \in D /\ m[next[e]] < m[e])

LEMMA WalkExists ==
    ASSUME NEW D, NEW next, NEW stop, NEW m, NEW bound \in Nat,
           Nears(D, next, stop, m, bound), NEW out
    PROVE  \E w : WalksTo(w, D, next, stop, out)
<1> DEFINE Upto(k) == {e \in D : m[e] < k}
           bad == {k \in Nat : ~ \E w : WalksTo(w, Upto(k), next, stop, out)}
<1>0. \A e \in D : m[e] \in Nat /\ m[e] < bound /\ (e \notin stop => next[e] \in D /\ m[next[e]] < m[e])
  BY DEF Nears
<1>1. bad = {}
  <2>1. SUFFICES ASSUME bad # {} PROVE FALSE
    OBVIOUS
  <2>2. PICK k \in bad : \A y \in bad : k =< y
    <3>1. bad \subseteq Nat
      OBVIOUS
    <3> HIDE DEF bad
    <3> QED
      BY <2>1, <3>1, LeastNumber
  <2>3. CASE k = 0
    <3>1. Upto(0) = {}
      BY <1>0
    <3>2. PICK w : w = [e \in Upto(0) |-> 0]
      OBVIOUS
    <3>3. WalksTo(w, Upto(0), next, stop, out)
      BY <3>1, <3>2 DEF WalksTo
    <3> QED
      BY <2>2, <2>3, <3>3
  <2>4. CASE k # 0
    <3>1. k \in Nat /\ k - 1 \in Nat /\ ~ (k =< k - 1)
      BY <2>4
    <3>2. PICK g : WalksTo(g, Upto(k - 1), next, stop, out)
      BY <2>2, <3>1
    <3>3. PICK w : w = [e \in Upto(k) |-> IF e \in stop THEN out[e] ELSE g[next[e]]]
      OBVIOUS
    <3>4. ASSUME NEW e \in Upto(k), e \notin stop PROVE w[next[e]] = g[next[e]]
      <4>1. next[e] \in Upto(k - 1) /\ next[e] \in Upto(k)
        BY <1>0, <3>1, <3>4
      <4>2. g[next[e]] = IF next[e] \in stop THEN out[next[e]] ELSE g[next[next[e]]]
        BY <3>2, <4>1 DEF WalksTo
      <4> QED
        BY <3>3, <4>1, <4>2
    <3>5. WalksTo(w, Upto(k), next, stop, out)
      BY <3>3, <3>4 DEF WalksTo
    <3> QED
      BY <2>2, <3>5
  <2> QED
    BY <2>3, <2>4
<1>2. Upto(bound) = D
  BY <1>0
<1> QED
  BY <1>1, <1>2

\* A walk ends at a place where it stops, and stays where every step stays.
LEMMA WalkEnds ==
    ASSUME NEW D, NEW next, NEW stop, NEW m, NEW bound \in Nat,
           Nears(D, next, stop, m, bound), NEW out, NEW w, WalksTo(w, D, next, stop, out),
           NEW Q, Q \subseteq D, \A e \in Q : e \notin stop => next[e] \in Q, NEW e \in Q
    PROVE  \E x \in Q : x \in stop /\ w[e] = out[x]
<1> DEFINE Ends(k) == \A f \in Q : m[f] < k => \E x \in Q : x \in stop /\ w[f] = out[x]
           bad == {k \in Nat : ~ Ends(k)}
<1>0. \A f \in D : m[f] \in Nat /\ m[f] < bound /\ (f \notin stop => next[f] \in D /\ m[next[f]] < m[f])
  BY DEF Nears
<1>1. bad = {}
  <2>1. SUFFICES ASSUME bad # {} PROVE FALSE
    OBVIOUS
  <2>2. PICK k \in bad : \A y \in bad : k =< y
    <3>1. bad \subseteq Nat
      OBVIOUS
    <3> HIDE DEF bad
    <3> QED
      BY <2>1, <3>1, LeastNumber
  <2>3. k \in Nat /\ ~ Ends(k)
    BY <2>2
  <2>4. PICK f \in Q : m[f] < k /\ ~ \E x \in Q : x \in stop /\ w[f] = out[x]
    BY <2>3
  <2>5. f \in D /\ w[f] = IF f \in stop THEN out[f] ELSE w[next[f]]
    BY DEF WalksTo
  <2>6. f \notin stop
    BY <2>4, <2>5
  <2>7. k - 1 \in Nat /\ next[f] \in Q /\ m[next[f]] < k - 1 /\ ~ (k =< k - 1)
    BY <1>0, <2>3, <2>4, <2>5, <2>6
  <2>8. Ends(k - 1)
    <3> HIDE DEF Ends
    <3> QED
      BY <2>2, <2>7
  <2> QED
    BY <2>4, <2>5, <2>6, <2>7, <2>8
<1>2. Ends(bound)
  BY <1>1
<1> QED
  BY <1>0, <1>2

-----------------------------------------------------------------------------
(* Sorting.  Every order of the index is one by a number, and by the ID    *)
(* where the numbers are equal.                                            *)

KeyBefore(key, a, b) == key[a] < key[b] \/ (key[a] = key[b] /\ a < b)
IsKey(key, S) == S \subseteq Nat /\ IsFiniteSet(S) /\ \A a \in S : key[a] \in Int
Preds(key, S, a) == {b \in S \ {a} : KeyBefore(key, b, a)}

\* Every place of q has the element with so many before it.
HasRanks(q, S, key) ==
    \A i \in 1..Cardinality(S) : q[i] \in S /\ Cardinality(Preds(key, S, q[i])) = i - 1

IsSorting(q, S, key) ==
    /\ \A i \in 1..Cardinality(S) : q[i] \in S
    /\ \A i, j \in 1..Cardinality(S) : i < j => KeyBefore(key, q[i], q[j])
    /\ \A a \in S : \E i \in 1..Cardinality(S) : q[i] = a

LEMMA RankBelow ==
    ASSUME NEW S, NEW key, IsKey(key, S), NEW a \in S, NEW b \in S, KeyBefore(key, a, b)
    PROVE  Cardinality(Preds(key, S, a)) < Cardinality(Preds(key, S, b))
<1>0. \A x \in S : x \in Nat /\ key[x] \in Int
  BY DEF IsKey
<1>1. PICK A, B : A = Preds(key, S, a) /\ B = Preds(key, S, b)
  OBVIOUS
<1>2. IsFiniteSet(S) /\ A \subseteq S /\ B \subseteq S
  BY <1>1 DEF IsKey, Preds
<1>3. A \subseteq B
  <2>1. ASSUME NEW x \in A PROVE x \in B
    <3>1. x \in S /\ KeyBefore(key, x, a)
      BY <1>1 DEF Preds
    <3>2. x # b /\ KeyBefore(key, x, b)
      BY <1>0, <3>1 DEF KeyBefore
    <3> QED
      BY <1>1, <3>1, <3>2 DEF Preds
  <2> QED
    BY <2>1
<1>4. a \in B /\ a \notin A
  BY <1>0, <1>1 DEF Preds, KeyBefore
<1>5. IsFiniteSet(A) /\ IsFiniteSet(B)
  BY <1>2, FS_Subset
<1>6. Cardinality(A) =< Cardinality(B) /\ Cardinality(A) # Cardinality(B)
  BY <1>3, <1>4, <1>5, FS_Subset
<1>7. Cardinality(A) \in Nat /\ Cardinality(B) \in Nat
  BY <1>5, FS_CardinalityType
<1> QED
  BY <1>1, <1>6, <1>7

LEMMA KeyTotal ==
    ASSUME NEW S, NEW key, IsKey(key, S), NEW a \in S, NEW b \in S, a # b
    PROVE  KeyBefore(key, a, b) \/ KeyBefore(key, b, a)
<1>1. a \in Nat /\ b \in Nat /\ key[a] \in Int /\ key[b] \in Int
  BY DEF IsKey
<1> QED
  BY <1>1 DEF KeyBefore

LEMMA KeyStrict ==
    ASSUME NEW S, NEW key, IsKey(key, S), NEW a \in S, NEW b \in S, KeyBefore(key, a, b)
    PROVE  a # b /\ ~ KeyBefore(key, b, a)
<1>1. a \in Nat /\ b \in Nat /\ key[a] \in Int /\ key[b] \in Int
  BY DEF IsKey
<1> QED
  BY <1>1 DEF KeyBefore

LEMMA KeyTransitive ==
    ASSUME NEW S, NEW key, IsKey(key, S), NEW a \in S, NEW b \in S, NEW c \in S,
           KeyBefore(key, a, b), KeyBefore(key, b, c)
    PROVE  KeyBefore(key, a, c)
<1>1. a \in Nat /\ b \in Nat /\ c \in Nat /\ key[a] \in Int /\ key[b] \in Int /\ key[c] \in Int
  BY DEF IsKey
<1> QED
  BY <1>1 DEF KeyBefore

\* There is an element for every place.
LEMMA RanksFill ==
    ASSUME NEW S, NEW key, IsKey(key, S), NEW i \in 1..Cardinality(S)
    PROVE  \E a \in S : Cardinality(Preds(key, S, a)) = i - 1
<1>1. IsFiniteSet(S) /\ Cardinality(S) \in Nat
  BY FS_CardinalityType DEF IsKey
<1>2. PICK f : f = [a \in S |-> Cardinality(Preds(key, S, a))]
  OBVIOUS
<1>3. PICK T : T = 0..(Cardinality(S) - 1)
  OBVIOUS
<1>4. ASSUME NEW a \in S PROVE f[a] \in T
  <2>1. PICK A : A = Preds(key, S, a)
    OBVIOUS
  <2>2. A \subseteq S /\ a \in S /\ a \notin A
    BY <2>1 DEF Preds
  <2>3. IsFiniteSet(A) /\ Cardinality(A) =< Cardinality(S) /\ Cardinality(A) # Cardinality(S)
    BY <1>1, <2>2, FS_Subset
  <2>4. Cardinality(A) \in Nat
    BY <2>3, FS_CardinalityType
  <2> QED
    BY <1>1, <1>2, <1>3, <2>1, <2>3, <2>4
<1>5. ASSUME NEW a \in S, NEW b \in S, f[a] = f[b] PROVE a = b
  <2>1. KeyBefore(key, a, b) => f[a] < f[b]
    BY <1>2, RankBelow
  <2>2. KeyBefore(key, b, a) => f[b] < f[a]
    BY <1>2, RankBelow
  <2>3. f[a] \in Int /\ f[b] \in Int
    BY <1>1, <1>3, <1>4
  <2> QED
    BY <1>5, <2>1, <2>2, <2>3, KeyTotal
<1>6. f \in Injection(S, T)
  BY <1>2, <1>4, <1>5 DEF Injection, IsInjective
<1>7. IsFiniteSet(T) /\ Cardinality(T) = Cardinality(S)
  BY <1>1, <1>3, FS_Interval
<1>8. f \in Surjection(S, T)
  BY <1>6, <1>7, FS_Injection
<1>9. i - 1 \in T
  BY <1>1, <1>3
<1>10. PICK a \in S : f[a] = i - 1
  BY <1>8, <1>9 DEF Surjection
<1> QED
  BY <1>2, <1>10

LEMMA RanksSort ==
    ASSUME NEW S, NEW key, IsKey(key, S), NEW q, HasRanks(q, S, key)
    PROVE  IsSorting(q, S, key)
<1>1. IsFiniteSet(S) /\ Cardinality(S) \in Nat
  BY FS_CardinalityType DEF IsKey
<1>2. \A i \in 1..Cardinality(S) : q[i] \in S /\ Cardinality(Preds(key, S, q[i])) = i - 1
  BY DEF HasRanks
<1>3. ASSUME NEW i \in 1..Cardinality(S), NEW j \in 1..Cardinality(S), i < j
      PROVE  KeyBefore(key, q[i], q[j])
  <2>1. PICK a, b : a = q[i] /\ b = q[j]
    OBVIOUS
  <2>2. a \in S /\ b \in S /\ Cardinality(Preds(key, S, a)) = i - 1 /\ Cardinality(Preds(key, S, b)) = j - 1
    BY <1>2, <2>1
  <2>3. a # b
    BY <1>3, <2>2
  <2>4. ~ KeyBefore(key, b, a)
    <3>1. SUFFICES ASSUME KeyBefore(key, b, a) PROVE FALSE
      OBVIOUS
    <3>2. Cardinality(Preds(key, S, b)) < Cardinality(Preds(key, S, a))
      BY <2>2, <3>1, RankBelow
    <3> QED
      BY <1>3, <2>2, <3>2
  <2> QED
    BY <2>1, <2>2, <2>3, <2>4, KeyTotal
<1>4. ASSUME NEW a \in S PROVE \E i \in 1..Cardinality(S) : q[i] = a
  <2>1. PICK f : f = [i \in 1..Cardinality(S) |-> q[i]]
    OBVIOUS
  <2>2. PICK T : T = 1..Cardinality(S)
    OBVIOUS
  <2>3. f \in Injection(T, S)
    <3>1. f \in [T -> S]
      BY <1>2, <2>1, <2>2
    <3>2. \A i, j \in T : i # j => f[i] # f[j]
      <4>1. \A i \in T : Cardinality(Preds(key, S, f[i])) = i - 1
        BY <1>2, <2>1, <2>2
      <4> QED
        BY <1>1, <2>2, <4>1
    <3> QED
      BY <3>1, <3>2 DEF Injection, IsInjective
  <2>4. IsFiniteSet(T) /\ Cardinality(T) = Cardinality(S)
    BY <1>1, <2>2, FS_Interval
  <2>5. f \in Surjection(T, S)
    BY <1>1, <2>3, <2>4, FS_Injection
  <2> QED
    BY <2>1, <2>2, <2>5 DEF Surjection
<1> QED
  BY <1>2, <1>3, <1>4 DEF IsSorting

\* In a sorting, an element is behind as many as are before it.
LEMMA SortingRanks ==
    ASSUME NEW S, NEW key, IsKey(key, S), NEW q, IsSorting(q, S, key), NEW i \in 1..Cardinality(S)
    PROVE  Cardinality(Preds(key, S, q[i])) = i - 1
<1>1. IsFiniteSet(S) /\ Cardinality(S) \in Nat
  BY FS_CardinalityType DEF IsKey
<1>2. /\ \A k \in 1..Cardinality(S) : q[k] \in S
      /\ \A k, j \in 1..Cardinality(S) : k < j => KeyBefore(key, q[k], q[j])
      /\ \A a \in S : \E k \in 1..Cardinality(S) : q[k] = a
  BY DEF IsSorting
<1>3. PICK T, P : T = 1..(i - 1) /\ P = Preds(key, S, q[i])
  OBVIOUS
<1>4. PICK f : f = [k \in T |-> q[k]]
  OBVIOUS
<1>5. f \in [T -> P]
  <2>1. ASSUME NEW k \in T PROVE q[k] \in P
    <3>1. k \in 1..Cardinality(S) /\ k < i
      BY <1>1, <1>3
    <3>2. KeyBefore(key, q[k], q[i]) /\ q[k] \in S /\ q[i] \in S
      BY <1>2, <3>1
    <3>3. q[k] # q[i]
      BY <3>2, KeyStrict
    <3> QED
      BY <1>3, <3>2, <3>3 DEF Preds
  <2> QED
    BY <1>4, <2>1
<1>6. ASSUME NEW k \in T, NEW j \in T, f[k] = f[j] PROVE k = j
  <2>1. k \in 1..Cardinality(S) /\ j \in 1..Cardinality(S) /\ q[k] = q[j]
    BY <1>1, <1>3, <1>4, <1>6
  <2>2. \A x, y \in 1..Cardinality(S) : x < y => q[x] # q[y]
    BY <1>2, KeyStrict
  <2> QED
    BY <2>1, <2>2
<1>7. ASSUME NEW a \in P PROVE \E k \in T : f[k] = a
  <2>1. a \in S /\ a # q[i] /\ KeyBefore(key, a, q[i])
    BY <1>3 DEF Preds
  <2>2. PICK k \in 1..Cardinality(S) : q[k] = a
    BY <1>2, <2>1
  <2>3. ~ (i < k)
    <3>1. SUFFICES ASSUME i < k PROVE FALSE
      OBVIOUS
    <3>2. KeyBefore(key, q[i], a) /\ q[i] \in S
      BY <1>2, <2>2, <3>1
    <3> QED
      BY <2>1, <3>2, KeyStrict
  <2>4. k # i
    BY <2>1, <2>2
  <2>5. k \in T
    BY <1>1, <1>3, <2>3, <2>4
  <2> QED
    BY <1>4, <2>2, <2>5
<1>8. f \in Bijection(T, P)
  BY <1>5, <1>6, <1>7 DEF Bijection, Injection, Surjection, IsInjective
<1>9. IsFiniteSet(T) /\ Cardinality(T) = i - 1
  BY <1>1, <1>3, FS_Interval
<1>10. Cardinality(P) = Cardinality(T)
  BY <1>8, <1>9, FS_Bijection DEF ExistsBijection
<1> QED
  BY <1>3, <1>9, <1>10

\* A set has one sorting.
LEMMA SortingUnique ==
    ASSUME NEW S, NEW key, IsKey(key, S), NEW q, IsSorting(q, S, key),
           NEW r, IsSorting(r, S, key), NEW i \in 1..Cardinality(S)
    PROVE  q[i] = r[i]
<1>1. PICK a, b : a = q[i] /\ b = r[i]
  OBVIOUS
<1>2. a \in S /\ b \in S
  BY <1>1 DEF IsSorting
<1>3. Cardinality(Preds(key, S, a)) = i - 1 /\ Cardinality(Preds(key, S, b)) = i - 1
  BY <1>1, SortingRanks
<1>4. IsFiniteSet(S) /\ Cardinality(S) \in Nat
  BY FS_CardinalityType DEF IsKey
<1>5. ~ (Cardinality(Preds(key, S, a)) < Cardinality(Preds(key, S, b)))
      /\ ~ (Cardinality(Preds(key, S, b)) < Cardinality(Preds(key, S, a)))
  BY <1>3, <1>4
<1>6. ~ KeyBefore(key, a, b) /\ ~ KeyBefore(key, b, a)
  BY <1>2, <1>5, RankBelow
<1> QED
  BY <1>1, <1>2, <1>6, KeyTotal

-----------------------------------------------------------------------------
(* The nearest and the order of nodes.                                     *)

DistanceKey(nodes, p, S) == [a \in S |-> Distance(p, nodes[a].vector)]

\* Points that can be compared with p.
Comparable(nodes, p, S) ==
    p \in Int /\ S \subseteq Nat /\ IsFiniteSet(S) /\ \A a \in S : nodes[a].vector \in Int

LEMMA DistanceType == ASSUME NEW p \in Int, NEW q \in Int PROVE Distance(p, q) \in Nat
  BY DEF Distance

LEMMA CloserIs ==
    ASSUME NEW nodes, NEW p, NEW S, Comparable(nodes, p, S)
    PROVE  /\ IsKey(DistanceKey(nodes, p, S), S)
           /\ \A a, b \in S : Closer(nodes, p, a, b) <=> KeyBefore(DistanceKey(nodes, p, S), a, b)
<1>1. \A a \in S : DistanceKey(nodes, p, S)[a] = Distance(p, nodes[a].vector)
  BY DEF DistanceKey
<1>2. ASSUME NEW a \in S PROVE Distance(p, nodes[a].vector) \in Int
  <2>1. p \in Int /\ nodes[a].vector \in Int
    BY DEF Comparable
  <2>2. Distance(p, nodes[a].vector) \in Nat
    BY <2>1, DistanceType
  <2> QED
    BY <2>2
<1>3. IsKey(DistanceKey(nodes, p, S), S)
  BY <1>1, <1>2 DEF IsKey, Comparable
<1>4. \A a, b \in S : Closer(nodes, p, a, b) <=> KeyBefore(DistanceKey(nodes, p, S), a, b)
  BY <1>1 DEF Closer, KeyBefore
<1> QED
  BY <1>3, <1>4

LEMMA ComparableSubset ==
    ASSUME NEW nodes, NEW p, NEW S, Comparable(nodes, p, S), NEW T, T \subseteq S
    PROVE  Comparable(nodes, p, T)
<1>1. IsFiniteSet(S) /\ T \in SUBSET S
  BY DEF Comparable
<1>2. IsFiniteSet(T)
  BY <1>1, FS_Subset
<1> QED
  BY <1>2 DEF Comparable

LEMMA OrderedIs ==
    ASSUME NEW nodes, NEW p, NEW S, Comparable(nodes, p, S)
    PROVE  /\ IsSorting(Ordered(nodes, p, S), S, DistanceKey(nodes, p, S))
           /\ DOMAIN Ordered(nodes, p, S) = 1..Cardinality(S)
           /\ Ordered(nodes, p, S) \in [1..Cardinality(S) -> S]
<1>1. PICK key : key = DistanceKey(nodes, p, S)
  OBVIOUS
<1>2. IsKey(key, S) /\ \A a, b \in S : Closer(nodes, p, a, b) <=> KeyBefore(key, a, b)
  BY <1>1, CloserIs
<1>3. \A a \in S : {b \in S \ {a} : Closer(nodes, p, b, a)} = Preds(key, S, a)
  BY <1>2 DEF Preds
<1>4. PICK q : q = Ordered(nodes, p, S)
  OBVIOUS
<1>5. q = [i \in 1..Cardinality(S) |->
            CHOOSE a \in S : Cardinality({b \in S \ {a} : Closer(nodes, p, b, a)}) = i - 1]
  BY <1>4 DEF Ordered, Sorted
<1>6. ASSUME NEW i \in 1..Cardinality(S)
      PROVE  q[i] \in S /\ Cardinality(Preds(key, S, q[i])) = i - 1
  <2>1. \E a \in S : Cardinality(Preds(key, S, a)) = i - 1
    BY <1>2, RanksFill
  <2>2. \E a \in S : Cardinality({b \in S \ {a} : Closer(nodes, p, b, a)}) = i - 1
    BY <1>3, <2>1
  <2>3. PICK c : c = CHOOSE a \in S : Cardinality({b \in S \ {a} : Closer(nodes, p, b, a)}) = i - 1
    OBVIOUS
  <2>4. c \in S /\ Cardinality({b \in S \ {c} : Closer(nodes, p, b, c)}) = i - 1
    BY <2>2, <2>3
  <2>5. q[i] = c
    BY <1>5, <2>3
  <2> QED
    BY <1>3, <2>4, <2>5
<1>7. HasRanks(q, S, key)
  BY <1>6 DEF HasRanks
<1>8. IsSorting(q, S, key)
  BY <1>2, <1>7, RanksSort
<1> QED
  BY <1>1, <1>4, <1>5, <1>6, <1>8

LEMMA LeastKey ==
    ASSUME NEW S, NEW key, IsKey(key, S), S # {}
    PROVE  \E a \in S : \A b \in S \ {a} : KeyBefore(key, a, b)
<1>1. IsFiniteSet(S) /\ Cardinality(S) \in Nat /\ Cardinality(S) # 0
  BY FS_CardinalityType, FS_EmptySet DEF IsKey
<1>2. 1 \in 1..Cardinality(S)
  BY <1>1
<1>3. PICK a \in S : Cardinality(Preds(key, S, a)) = 1 - 1
  BY <1>2, RanksFill
<1>4. PICK A : A = Preds(key, S, a)
  OBVIOUS
<1>5. A \subseteq S
  BY <1>4 DEF Preds
<1>6. IsFiniteSet(A)
  BY <1>1, <1>5, FS_Subset
<1>7. A = {}
  BY <1>3, <1>4, <1>6, FS_EmptySet
<1>8. \A b \in S \ {a} : ~ KeyBefore(key, b, a)
  BY <1>4, <1>7 DEF Preds
<1> QED
  BY <1>8, KeyTotal

LEMMA NearestIs ==
    ASSUME NEW nodes, NEW p, NEW S, Comparable(nodes, p, S), S # {}
    PROVE  /\ Nearest(nodes, p, S) \in S
           /\ \A b \in S \ {Nearest(nodes, p, S)} : Closer(nodes, p, Nearest(nodes, p, S), b)
<1>1. PICK key : key = DistanceKey(nodes, p, S)
  OBVIOUS
<1>2. IsKey(key, S) /\ \A a, b \in S : Closer(nodes, p, a, b) <=> KeyBefore(key, a, b)
  BY <1>1, CloserIs
<1>3. \E a \in S : \A b \in S \ {a} : Closer(nodes, p, a, b)
  BY <1>2, LeastKey
<1>4. PICK c : c = Nearest(nodes, p, S)
  OBVIOUS
<1>5. c \in S /\ \A b \in S \ {c} : Closer(nodes, p, c, b)
  BY <1>3, <1>4 DEF Nearest
<1> QED
  BY <1>4, <1>5

-----------------------------------------------------------------------------
(* The search of a layer.                                                  *)

\* How one element changes the size of a finite set.
LEMMA OneMore ==
    ASSUME NEW S, IsFiniteSet(S), NEW x
    PROVE  /\ Cardinality(S) \in Nat
           /\ IsFiniteSet(S \union {x}) /\ Cardinality(S \union {x}) \in Nat
           /\ Cardinality(S) =< Cardinality(S \union {x}) /\ Cardinality(S \union {x}) =< Cardinality(S) + 1
           /\ x \notin S => Cardinality(S \union {x}) = Cardinality(S) + 1
           /\ IsFiniteSet(S \ {x}) /\ Cardinality(S \ {x}) \in Nat
           /\ Cardinality(S \ {x}) =< Cardinality(S) /\ Cardinality(S) =< Cardinality(S \ {x}) + 1
           /\ x \in S => Cardinality(S \ {x}) = Cardinality(S) - 1
<1>1. IsFiniteSet(S \union {x}) /\ Cardinality(S \union {x}) = IF x \in S THEN Cardinality(S) ELSE Cardinality(S) + 1
  BY FS_AddElement
<1>2. IsFiniteSet(S \ {x}) /\ Cardinality(S \ {x}) = IF x \in S THEN Cardinality(S) - 1 ELSE Cardinality(S)
  BY FS_RemoveElement
<1>3. Cardinality(S) \in Nat /\ Cardinality(S \union {x}) \in Nat /\ Cardinality(S \ {x}) \in Nat
  BY <1>1, <1>2, FS_CardinalityType
<1> QED
  BY <1>1, <1>2, <1>3

\* The loop over a list of neighbors.
LEMMA VisitAllRounds ==
    ASSUME NEW nodes, NEW p, NEW breadth, NEW s, NEW list, Len(list) \in Nat, NEW Q, s \in Q[0],
           \A i \in 1..Len(list) : \A t \in Q[i - 1] : Visit(nodes, p, breadth, t, list[i]) \in Q[i]
    PROVE  VisitAll(nodes, p, breadth, s, list) \in Q[Len(list)]
<1> DEFINE P(h) == h = [i \in 0..Len(list) |->
                          IF i = 0 THEN s ELSE Visit(nodes, p, breadth, h[i - 1], list[i])]
<1>1. PICK n : n = Len(list) /\ n \in Nat
  OBVIOUS
<1>2. PICK step : step = [i \in 1..n |-> [t \in Q[i - 1] |-> Visit(nodes, p, breadth, t, list[i])]]
  OBVIOUS
<1>3. \A i \in 1..n : \A t \in Q[i - 1] : step[i][t] = Visit(nodes, p, breadth, t, list[i])
  BY <1>2
<1>4. \A i \in 1..n : \A t \in Q[i - 1] : step[i][t] \in Q[i]
  BY <1>1, <1>3
<1>5. PICK h : RunsTo(h, n, s, step) /\ \A i \in 0..n : h[i] \in Q[i]
  BY <1>1, <1>4, Rounds
<1>6. P(h)
  <2>1. h = [i \in 0..n |-> IF i = 0 THEN s ELSE step[i][h[i - 1]]]
    BY <1>5 DEF RunsTo
  <2>2. \A i \in 0..n : i # 0 => i \in 1..n /\ i - 1 \in 0..n
    BY <1>1
  <2>3. \A i \in 0..n : i # 0 => step[i][h[i - 1]] = Visit(nodes, p, breadth, h[i - 1], list[i])
    BY <1>3, <1>5, <2>2
  <2> QED
    BY <1>1, <2>1, <2>3
<1>7. PICK g : g = CHOOSE x : P(x)
  OBVIOUS
<1>8. P(g)
  BY <1>6, <1>7
<1>9. g[0] = s /\ \A i \in 1..n : g[i] = Visit(nodes, p, breadth, g[i - 1], list[i])
  BY <1>1, <1>8
<1>10. \A i \in 1..n : g[i - 1] \in Q[i - 1] => g[i] \in Q[i]
  BY <1>1, <1>9
<1>11. \A i \in 0..n : g[i] \in Q[i]
  BY <1>1, <1>9, <1>10, RoundsKeep
<1>12. VisitAll(nodes, p, breadth, s, list) = g[Len(list)]
  BY <1>7 DEF VisitAll
<1> QED
  BY <1>1, <1>11, <1>12

\* The states of a search among the nodes D, and the work that is left in one.
Searches(D) == [visited : SUBSET D, candidates : SUBSET D, results : SUBSET D]
Work(D, s) == 2 * Cardinality(D \ s.visited) + Cardinality(s.candidates)

LEMMA WorkType ==
    ASSUME NEW D, IsFiniteSet(D), NEW s \in Searches(D)
    PROVE  Work(D, s) \in Nat /\ Work(D, s) < 3 * Cardinality(D) + 1
<1>1. PICK V, C : V = D \ s.visited /\ C = s.candidates
  OBVIOUS
<1>2. V \in SUBSET D /\ C \in SUBSET D
  BY <1>1 DEF Searches
<1>3. /\ IsFiniteSet(V) /\ Cardinality(V) =< Cardinality(D)
      /\ IsFiniteSet(C) /\ Cardinality(C) =< Cardinality(D)
  BY <1>2, FS_Subset
<1>4. Cardinality(V) \in Nat /\ Cardinality(C) \in Nat /\ Cardinality(D) \in Nat
  BY <1>3, FS_CardinalityType
<1> QED
  BY <1>1, <1>3, <1>4 DEF Work

\* A visit adds one candidate at most, and only for a node that was not visited.
LEMMA VisitStays ==
    ASSUME NEW D, IsFiniteSet(D), NEW s \in Searches(D), NEW id \in D,
           NEW nodes, NEW p, NEW breadth \in Nat \ {0}
    PROVE  LET t == Visit(nodes, p, breadth, s, id)
           IN  /\ t \in Searches(D) /\ Work(D, t) =< Work(D, s)
               /\ s.results # {} => t.results # {}
               /\ t.visited = s.visited \union {id}
<1>0. PICK t : t = Visit(nodes, p, breadth, s, id)
  OBVIOUS
<1>1. s.visited \subseteq D /\ s.candidates \subseteq D /\ s.results \subseteq D
      /\ s = [visited |-> s.visited, candidates |-> s.candidates, results |-> s.results]
  BY DEF Searches
<1>2. CASE id \in s.visited
  <2>1. t = s
    BY <1>0, <1>2 DEF Visit
  <2>2. Work(D, s) \in Nat
    BY WorkType
  <2> QED
    BY <1>0, <1>1, <1>2, <2>1, <2>2
<1>3. CASE id \notin s.visited
  <2> DEFINE results == s.results \union {id}
             skip == Cardinality(s.results) >= breadth /\ ~ Closer(nodes, p, id, Furthest(nodes, p, s.results))
             kept == IF Cardinality(results) > breadth THEN results \ {Furthest(nodes, p, results)} ELSE results
  <2>1. t = IF skip THEN [visited |-> s.visited \union {id}, candidates |-> s.candidates, results |-> s.results]
            ELSE [visited |-> s.visited \union {id}, candidates |-> s.candidates \union {id}, results |-> kept]
    <3>1. [s EXCEPT !.visited = s.visited \union {id}]
            = [visited |-> s.visited \union {id}, candidates |-> s.candidates, results |-> s.results]
      BY <1>1
    <3>2. PICK seen : seen = [s EXCEPT !.visited = s.visited \union {id}]
      OBVIOUS
    <3>3. t = IF skip THEN seen ELSE [seen EXCEPT !.candidates = seen.candidates \union {id}, !.results = kept]
      BY <1>0, <1>3, <3>2 DEF Visit
    <3> HIDE DEF kept, skip
    <3>4. CASE skip
      BY <3>1, <3>2, <3>3, <3>4
    <3>5. CASE ~ skip
      <4>1. PICK k : k = kept
        OBVIOUS
      <4>2. t = [seen EXCEPT !.candidates = seen.candidates \union {id}, !.results = k]
        BY <3>3, <3>5, <4>1
      <4>3. seen = [visited |-> s.visited \union {id}, candidates |-> s.candidates, results |-> s.results]
        BY <3>1, <3>2
      <4>4. t = [visited |-> s.visited \union {id}, candidates |-> s.candidates \union {id}, results |-> k]
        BY <4>2, <4>3
      <4> QED
        BY <3>5, <4>1, <4>4
    <3> QED
      BY <3>4, <3>5
  <2>2. IsFiniteSet(s.results) /\ IsFiniteSet(results) /\ Cardinality(results) \in Nat
    <3>1. IsFiniteSet(s.results)
      BY <1>1, FS_Subset
    <3>2. IsFiniteSet(results)
      BY <3>1, FS_AddElement
    <3> QED
      BY <3>1, <3>2, FS_CardinalityType
  <2>3. kept \subseteq D /\ kept # {}
    <3>1. results \subseteq D /\ id \in results
      BY <1>1
    <3>2. CASE Cardinality(results) > breadth
      <4>1. PICK x : x = Furthest(nodes, p, results)
        OBVIOUS
      <4>2. kept = results \ {x}
        BY <3>2, <4>1
      <4>3. IsFiniteSet(results \ {x}) /\ Cardinality(results \ {x}) >= Cardinality(results) - 1
        <5>1. PICK R : R = results
          OBVIOUS
        <5>2. IsFiniteSet(R \ {x}) /\ Cardinality(R) =< Cardinality(R \ {x}) + 1
              /\ Cardinality(R) \in Nat /\ Cardinality(R \ {x}) \in Nat
          BY <2>2, <5>1, OneMore
        <5>3. Cardinality(R \ {x}) >= Cardinality(R) - 1
          BY <5>2
        <5> QED
          BY <5>1, <5>2, <5>3
      <4>4. Cardinality(results \ {x}) # 0
        BY <2>2, <3>2, <4>3
      <4>5. results \ {x} # {}
        BY <4>4, FS_EmptySet
      <4> QED
        BY <3>1, <4>2, <4>5
    <3>3. CASE ~ (Cardinality(results) > breadth)
      BY <3>1, <3>3
    <3> QED
      BY <3>2, <3>3
  <2> HIDE DEF kept, skip, results
  <2>4. t \in Searches(D) /\ t.visited = s.visited \union {id} /\ (s.results # {} => t.results # {})
        /\ (t.candidates = s.candidates \/ t.candidates = s.candidates \union {id})
    BY <1>1, <2>1, <2>3 DEF Searches
  <2>5. Work(D, t) =< Work(D, s)
    <3>1. PICK V, C : V = D \ s.visited /\ C = s.candidates
      OBVIOUS
    <3>2. D \ t.visited = V \ {id} /\ id \in V
      BY <1>3, <2>4, <3>1
    <3>3. IsFiniteSet(V) /\ IsFiniteSet(C)
      BY <1>1, <3>1, FS_Subset
    <3>4. Cardinality(V \ {id}) = Cardinality(V) - 1 /\ Cardinality(C \union {id}) =< Cardinality(C) + 1
          /\ Cardinality(V) \in Nat /\ Cardinality(C) \in Nat /\ Cardinality(C \union {id}) \in Nat
      BY <3>2, <3>3, OneMore
    <3>5. Cardinality(t.candidates) =< Cardinality(C) + 1 /\ Cardinality(t.candidates) \in Nat
      <4>1. t.candidates = C \/ t.candidates = C \union {id}
        BY <2>4, <3>1
      <4>2. CASE t.candidates = C
        BY <3>4, <4>2
      <4>3. CASE t.candidates = C \union {id}
        BY <3>4, <4>3
      <4> QED
        BY <4>1, <4>2, <4>3
    <3>6. Work(D, s) = 2 * Cardinality(V) + Cardinality(C)
      BY <3>1 DEF Work
    <3>7. Work(D, t) = 2 * (Cardinality(V) - 1) + Cardinality(t.candidates)
      BY <3>2, <3>4 DEF Work
    <3> QED
      BY <3>4, <3>5, <3>6, <3>7
  <2> QED
    BY <1>0, <2>4, <2>5
<1> QED
  BY <1>2, <1>3

\* D has the neighbors of its nodes, and a layer is all that is on a level.
Closed(nodes, p, level, D) ==
    Comparable(nodes, p, D) /\ \A n \in D : nodes[n].neighbors[level] \in Seq(D)
Layer(nodes, p, level, D) == D = OnLevel(nodes, level) /\ Closed(nodes, p, level, D)

LEMMA ListFacts ==
    ASSUME NEW D, NEW list \in Seq(D)
    PROVE  /\ Len(list) \in Nat /\ \A i \in 1..Len(list) : list[i] \in D
           /\ Range(list) = {list[i] : i \in 1..Len(list)} /\ Range(list) \subseteq D
  BY DEF Range

LEMMA ExpandStays ==
    ASSUME NEW nodes, NEW p, NEW level, NEW D, Closed(nodes, p, level, D),
           NEW breadth \in Nat \ {0}, NEW s \in Searches(D), s.candidates # {}
    PROVE  LET t == Expand(nodes, p, breadth, level, s)
           IN  /\ t \in Searches(D) /\ Work(D, t) < Work(D, s)
               /\ s.results # {} => t.results # {}
<1>1. IsFiniteSet(D) /\ s.candidates \subseteq D /\ s.visited \subseteq D /\ s.results \subseteq D
  BY DEF Closed, Comparable, Searches
<1>2. PICK c : c = Nearest(nodes, p, s.candidates)
  OBVIOUS
<1>3. c \in s.candidates
  <2>1. Comparable(nodes, p, s.candidates)
    BY <1>1, ComparableSubset DEF Closed
  <2> QED
    BY <1>2, <2>1, NearestIs
<1>4. PICK list : list = nodes[c].neighbors[level] /\ list \in Seq(D)
  BY <1>1, <1>3 DEF Closed
<1>5. PICK u : u = [s EXCEPT !.candidates = s.candidates \ {c}]
  OBVIOUS
<1>6. u \in Searches(D) /\ u.results = s.results /\ u.visited = s.visited /\ u.candidates = s.candidates \ {c}
  BY <1>1, <1>5 DEF Searches
<1>7. Work(D, u) = Work(D, s) - 1 /\ Work(D, u) \in Nat
  <2>1. PICK V, C : V = D \ s.visited /\ C = s.candidates
    OBVIOUS
  <2>2. IsFiniteSet(C) /\ IsFiniteSet(V)
    BY <1>1, <2>1, FS_Subset
  <2>3. Cardinality(C \ {c}) = Cardinality(C) - 1 /\ Cardinality(C) \in Nat /\ Cardinality(V) \in Nat
    BY <1>3, <2>1, <2>2, OneMore
  <2>4. Work(D, s) = 2 * Cardinality(V) + Cardinality(C)
    BY <2>1 DEF Work
  <2>5. Work(D, u) = 2 * Cardinality(V) + (Cardinality(C) - 1)
    BY <1>6, <2>1, <2>3 DEF Work
  <2>6. Work(D, u) \in Nat
    BY <1>1, <1>6, WorkType
  <2> QED
    BY <2>3, <2>4, <2>5, <2>6
<1>8. PICK good : good = {t \in Searches(D) : Work(D, t) =< Work(D, u) /\ (u.results # {} => t.results # {})}
  OBVIOUS
<1>9. PICK Q : Q = [i \in 0..Len(list) |-> good]
  OBVIOUS
<1>10. Len(list) \in Nat /\ \A i \in 1..Len(list) : list[i] \in D
  BY <1>4, ListFacts
<1>11. u \in Q[0]
  BY <1>6, <1>7, <1>8, <1>9, <1>10
<1>12. ASSUME NEW i \in 1..Len(list), NEW t \in Q[i - 1]
       PROVE  Visit(nodes, p, breadth, t, list[i]) \in Q[i]
  <2>1. i - 1 \in 0..Len(list) /\ i \in 0..Len(list) /\ list[i] \in D
    BY <1>10
  <2>2. t \in good
    BY <1>9, <2>1
  <2>3. t \in Searches(D) /\ Work(D, t) =< Work(D, u) /\ (u.results # {} => t.results # {})
    BY <1>8, <2>2
  <2>4. PICK v : v = Visit(nodes, p, breadth, t, list[i])
    OBVIOUS
  <2>5. v \in Searches(D) /\ Work(D, v) =< Work(D, t) /\ (t.results # {} => v.results # {})
    BY <1>1, <2>1, <2>3, <2>4, VisitStays
  <2>6. Work(D, v) \in Nat /\ Work(D, t) \in Nat
    BY <1>1, <2>3, <2>5, WorkType
  <2>7. v \in good
    BY <1>7, <1>8, <2>3, <2>5, <2>6
  <2> QED
    BY <1>9, <2>1, <2>4, <2>7
<1>13. VisitAll(nodes, p, breadth, u, list) \in Q[Len(list)]
  BY <1>10, <1>11, <1>12, VisitAllRounds
<1>14. PICK t : t = Expand(nodes, p, breadth, level, s)
  OBVIOUS
<1>15. t = VisitAll(nodes, p, breadth, u, list)
  BY <1>2, <1>4, <1>5, <1>14 DEF Expand
<1>16. t \in good
  BY <1>9, <1>10, <1>13, <1>15
<1>17. t \in Searches(D) /\ Work(D, t) =< Work(D, u) /\ (s.results # {} => t.results # {})
  BY <1>6, <1>8, <1>16
<1>18. Work(D, t) \in Nat /\ Work(D, s) \in Nat
  BY <1>1, <1>17, WorkType
<1> QED
  BY <1>7, <1>14, <1>17, <1>18

\* A search ends, at a state that no expansion leaves.
LEMMA ExploreEnds ==
    ASSUME NEW nodes, NEW p, NEW level, NEW D, Layer(nodes, p, level, D),
           NEW breadth \in Nat \ {0}, NEW Q, Q \subseteq Searches(D), NEW s \in Q,
           \A x \in Q : ~ Exhausted(nodes, p, breadth, x) => Expand(nodes, p, breadth, level, x) \in Q
    PROVE  \E x \in Q : /\ Exhausted(nodes, p, breadth, x)
                        /\ Explore(nodes, p, breadth, level, s) = x.results
<1> DEFINE P(w) == w = [x \in Searches(D) |->
                          IF Exhausted(nodes, p, breadth, x) THEN x.results
                          ELSE w[Expand(nodes, p, breadth, level, x)]]
<1>1. PICK next : next = [x \in Searches(D) |-> Expand(nodes, p, breadth, level, x)]
  OBVIOUS
<1>2. PICK stop : stop = {x \in Searches(D) : Exhausted(nodes, p, breadth, x)}
  OBVIOUS
<1>3. PICK out : out = [x \in Searches(D) |-> x.results]
  OBVIOUS
<1>4. PICK m : m = [x \in Searches(D) |-> Work(D, x)]
  OBVIOUS
<1>5. PICK S : S = Searches(D)
  OBVIOUS
<1>6. IsFiniteSet(D) /\ Cardinality(D) \in Nat
  BY FS_CardinalityType DEF Layer, Closed, Comparable
<1>7. PICK bound : bound = 3 * Cardinality(D) + 1 /\ bound \in Nat
  BY <1>6
<1>c. Closed(nodes, p, level, D)
  BY DEF Layer
<1>8. Nears(S, next, stop, m, bound)
  <2>1. ASSUME NEW x \in S PROVE m[x] \in Nat /\ m[x] < bound
    BY <1>4, <1>5, <1>6, <1>7, WorkType
  <2>2. ASSUME NEW x \in S, x \notin stop PROVE next[x] \in S /\ m[next[x]] < m[x]
    <3>1. x \in Searches(D) /\ x.candidates # {}
      BY <1>2, <1>5, <2>2 DEF Exhausted
    <3>2. next[x] = Expand(nodes, p, breadth, level, x)
      BY <1>1, <3>1
    <3>3. next[x] \in Searches(D) /\ Work(D, next[x]) < Work(D, x)
      BY <1>c, <3>1, <3>2, ExpandStays
    <3> QED
      BY <1>4, <1>5, <3>1, <3>3
  <2> QED
    BY <2>1, <2>2 DEF Nears
<1>9. ASSUME NEW w PROVE P(w) <=> WalksTo(w, S, next, stop, out)
  <2>1. \A x \in S : /\ (x \in stop <=> Exhausted(nodes, p, breadth, x))
                     /\ out[x] = x.results
                     /\ next[x] = Expand(nodes, p, breadth, level, x)
    BY <1>1, <1>2, <1>3, <1>5
  <2> QED
    BY <1>5, <2>1 DEF WalksTo
<1>10. \E w : P(w)
  <2>1. \E w : WalksTo(w, S, next, stop, out)
    BY <1>7, <1>8, WalkExists
  <2> QED
    BY <1>9, <2>1
<1>11. PICK w : w = CHOOSE x : P(x)
  OBVIOUS
<1>12. P(w)
  BY <1>10, <1>11
<1>13. Explore(nodes, p, breadth, level, s) = w[s]
  <2>1. D = OnLevel(nodes, level)
    BY DEF Layer
  <2> QED
    BY <1>11, <2>1 DEF Explore, Searches
<1>14. WalksTo(w, S, next, stop, out)
  BY <1>9, <1>12
<1>15. Q \subseteq S /\ \A x \in Q : x \notin stop => next[x] \in Q
  BY <1>1, <1>2, <1>5
<1>16. PICK x \in Q : x \in stop /\ w[s] = out[x]
  BY <1>7, <1>8, <1>14, <1>15, WalkEnds
<1> QED
  BY <1>2, <1>3, <1>5, <1>13, <1>15, <1>16

\* The search of a layer finds some of its nodes, in their order.
LEMMA SearchLayerFinds ==
    ASSUME NEW nodes, NEW p, NEW level, NEW D, Layer(nodes, p, level, D),
           NEW E, E \subseteq D, Closed(nodes, p, level, E),
           NEW breadth \in Nat \ {0}, NEW entry \in E
    PROVE  \E R : /\ R \subseteq E /\ R # {}
                  /\ searchLayer(nodes, p, entry, breadth, level) = Ordered(nodes, p, R)
<1>1. PICK s : s = [visited |-> {entry}, candidates |-> {entry}, results |-> {entry}]
  OBVIOUS
<1>2. PICK Q : Q = {x \in Searches(E) : x.results # {}}
  OBVIOUS
<1>3. s \in Q /\ Q \subseteq Searches(E)
  BY <1>1, <1>2 DEF Searches
<1>4. ASSUME NEW x \in Q, ~ Exhausted(nodes, p, breadth, x)
      PROVE  Expand(nodes, p, breadth, level, x) \in Q
  <2>1. x \in Searches(E) /\ x.results # {} /\ x.candidates # {}
    BY <1>2, <1>4 DEF Exhausted
  <2>2. PICK t : t = Expand(nodes, p, breadth, level, x)
    OBVIOUS
  <2>3. t \in Searches(E) /\ t.results # {}
    BY <2>1, <2>2, ExpandStays
  <2> QED
    BY <1>2, <2>2, <2>3
<1>d. Q \subseteq Searches(D)
  BY <1>2 DEF Searches
<1>5. PICK x \in Q : Explore(nodes, p, breadth, level, s) = x.results
  BY <1>3, <1>4, <1>d, ExploreEnds
<1>6. x.results \subseteq E /\ x.results # {}
  BY <1>2, <1>5 DEF Searches
<1> QED
  BY <1>1, <1>5, <1>6 DEF searchLayer

-----------------------------------------------------------------------------
(* The greedy descent.                                                     *)

LEMMA BetterIs ==
    ASSUME NEW nodes, NEW p, NEW level, NEW D, Layer(nodes, p, level, D), NEW n \in D
    PROVE  /\ Better(nodes, p, level, n) \in D
           /\ Better(nodes, p, level, n) # n => Closer(nodes, p, Better(nodes, p, level, n), n)
<1>1. PICK list : list = nodes[n].neighbors[level] /\ list \in Seq(D)
  BY DEF Layer, Closed
<1>2. PICK S : S = {n} \union Range(list)
  OBVIOUS
<1>3. S \subseteq D /\ n \in S
  BY <1>1, <1>2, ListFacts
<1>4. Comparable(nodes, p, S)
  BY <1>3, ComparableSubset DEF Layer, Closed
<1>5. PICK b : b = Nearest(nodes, p, S)
  OBVIOUS
<1>6. b \in S /\ \A x \in S \ {b} : Closer(nodes, p, b, x)
  BY <1>3, <1>4, <1>5, NearestIs
<1>7. Better(nodes, p, level, n) = b
  BY <1>1, <1>2, <1>5 DEF Better
<1> QED
  BY <1>3, <1>6, <1>7

LEMMA GreedyStays ==
    ASSUME NEW nodes, NEW p, NEW level, NEW D, Layer(nodes, p, level, D), NEW entry \in D
    PROVE  greedySearch(nodes, p, entry, level) \in D
<1> DEFINE P(w) == w = [n \in D |-> IF Better(nodes, p, level, n) = n THEN n ELSE w[Better(nodes, p, level, n)]]
<1>1. PICK next : next = [n \in D |-> Better(nodes, p, level, n)]
  OBVIOUS
<1>2. PICK stop : stop = {n \in D : Better(nodes, p, level, n) = n}
  OBVIOUS
<1>3. PICK out : out = [n \in D |-> n]
  OBVIOUS
<1>4. PICK key : key = DistanceKey(nodes, p, D)
  OBVIOUS
<1>5. IsKey(key, D) /\ IsFiniteSet(D) /\ \A a, b \in D : Closer(nodes, p, a, b) <=> KeyBefore(key, a, b)
  <2>1. Comparable(nodes, p, D)
    BY DEF Layer, Closed
  <2> QED
    BY <1>4, <2>1, CloserIs DEF Comparable
<1>6. PICK m : m = [n \in D |-> Cardinality(Preds(key, D, n))]
  OBVIOUS
<1>7. PICK bound : bound = Cardinality(D) + 1 /\ bound \in Nat
  <2>1. Cardinality(D) \in Nat
    BY <1>5, FS_CardinalityType
  <2> QED
    BY <2>1
<1>8. Nears(D, next, stop, m, bound)
  <2>1. ASSUME NEW n \in D PROVE m[n] \in Nat /\ m[n] < bound
    <3>1. PICK A : A = Preds(key, D, n)
      OBVIOUS
    <3>2. A \in SUBSET D
      BY <3>1 DEF Preds
    <3>3. IsFiniteSet(A) /\ Cardinality(A) =< Cardinality(D)
      BY <1>5, <3>2, FS_Subset
    <3>4. Cardinality(A) \in Nat /\ Cardinality(D) \in Nat
      BY <1>5, <3>3, FS_CardinalityType
    <3> QED
      BY <1>6, <1>7, <3>1, <3>3, <3>4
  <2>2. ASSUME NEW n \in D, n \notin stop PROVE next[n] \in D /\ m[next[n]] < m[n]
    <3>1. next[n] \in D /\ Closer(nodes, p, next[n], n)
      BY <1>1, <1>2, <2>2, BetterIs
    <3>2. KeyBefore(key, next[n], n)
      BY <1>5, <3>1
    <3> QED
      BY <1>5, <1>6, <3>1, <3>2, RankBelow
  <2> QED
    BY <2>1, <2>2 DEF Nears
<1>9. ASSUME NEW w PROVE P(w) <=> WalksTo(w, D, next, stop, out)
  <2>1. \A n \in D : /\ (n \in stop <=> Better(nodes, p, level, n) = n)
                     /\ out[n] = n
                     /\ next[n] = Better(nodes, p, level, n)
    BY <1>1, <1>2, <1>3
  <2> QED
    BY <2>1 DEF WalksTo
<1>10. \E w : P(w)
  <2>1. \E w : WalksTo(w, D, next, stop, out)
    BY <1>7, <1>8, WalkExists
  <2> QED
    BY <1>9, <2>1
<1>11. PICK w : w = CHOOSE x : P(x)
  OBVIOUS
<1>12. P(w)
  BY <1>10, <1>11
<1>13. greedySearch(nodes, p, entry, level) = w[entry]
  <2>1. D = OnLevel(nodes, level)
    BY DEF Layer
  <2> QED
    BY <1>11, <2>1 DEF greedySearch
<1>14. WalksTo(w, D, next, stop, out)
  BY <1>9, <1>12
<1>15. \A n \in D : n \notin stop => next[n] \in D
  BY <1>8 DEF Nears
<1>16. PICK x \in D : x \in stop /\ w[entry] = out[x]
  BY <1>7, <1>8, <1>14, <1>15, WalkEnds
<1> QED
  BY <1>3, <1>13, <1>16

\* Every level from low to high can be searched.
Layered(nodes, p, low, high) ==
    \A l \in low..high : Layer(nodes, p, l, OnLevel(nodes, l))

LEMMA OnLevelBelow ==
    ASSUME NEW nodes, \A n \in DOMAIN nodes : nodes[n].level \in Nat, NEW l \in Int, NEW k \in Int, k =< l
    PROVE  OnLevel(nodes, l) \subseteq OnLevel(nodes, k)
  BY DEF OnLevel

LEMMA DescendStays ==
    ASSUME NEW nodes, \A n \in DOMAIN nodes : nodes[n].level \in Nat, NEW p,
           NEW low \in Nat, NEW high \in Nat, Layered(nodes, p, low, high),
           NEW entry \in OnLevel(nodes, high)
    PROVE  /\ low =< high => Descend(nodes, p, entry, high, low) \in OnLevel(nodes, low)
           /\ high < low => Descend(nodes, p, entry, high, low) = entry
<1>1. PICK rounds : rounds = (IF high < low THEN 0 ELSE high - low + 1) /\ rounds \in Nat
  OBVIOUS
<1> DEFINE P(h) == h = [i \in 0..rounds |->
                          IF i = 0 THEN entry ELSE greedySearch(nodes, p, h[i - 1], high - i + 1)]
<1>2. PICK Q : Q = [i \in 0..rounds |-> IF i = 0 THEN {entry} ELSE OnLevel(nodes, high - i + 1)]
  OBVIOUS
<1>3. ASSUME NEW i \in 1..rounds, NEW n \in Q[i - 1]
      PROVE  greedySearch(nodes, p, n, high - i + 1) \in Q[i]
  <2>1. high - i + 1 \in low..high /\ i - 1 \in 0..rounds /\ i \in 0..rounds /\ i # 0
    BY <1>1
  <2>2. n \in OnLevel(nodes, high - i + 1)
    <3>1. CASE i = 1
      BY <1>2, <2>1, <3>1
    <3>2. CASE i # 1
      <4>1. n \in OnLevel(nodes, high - (i - 1) + 1) /\ high - (i - 1) + 1 \in Int /\ high - i + 1 \in Int
            /\ high - i + 1 =< high - (i - 1) + 1
        BY <1>2, <2>1, <3>2
      <4>2. PICK k, l : k = high - i + 1 /\ l = high - (i - 1) + 1
        OBVIOUS
      <4>3. OnLevel(nodes, l) \subseteq OnLevel(nodes, k)
        BY <4>1, <4>2, OnLevelBelow
      <4> QED
        BY <4>1, <4>2, <4>3
    <3> QED
      BY <3>1, <3>2
  <2>3. Layer(nodes, p, high - i + 1, OnLevel(nodes, high - i + 1))
    BY <2>1 DEF Layered
  <2>4. greedySearch(nodes, p, n, high - i + 1) \in OnLevel(nodes, high - i + 1)
    BY <2>2, <2>3, GreedyStays
  <2> QED
    BY <1>2, <2>1, <2>4
<1>4. PICK step : step = [i \in 1..rounds |-> [n \in Q[i - 1] |-> greedySearch(nodes, p, n, high - i + 1)]]
  OBVIOUS
<1>5. \A i \in 1..rounds : \A n \in Q[i - 1] : step[i][n] = greedySearch(nodes, p, n, high - i + 1)
  BY <1>4
<1>6. entry \in Q[0] /\ \A i \in 1..rounds : \A n \in Q[i - 1] : step[i][n] \in Q[i]
  <2>1. entry \in Q[0]
    BY <1>1, <1>2
  <2>2. \A i \in 1..rounds : \A n \in Q[i - 1] : step[i][n] \in Q[i]
    BY <1>3, <1>5
  <2> QED
    BY <2>1, <2>2
<1>7. PICK h : RunsTo(h, rounds, entry, step) /\ \A i \in 0..rounds : h[i] \in Q[i]
  BY <1>1, <1>6, Rounds
<1>8. P(h)
  <2>1. h = [i \in 0..rounds |-> IF i = 0 THEN entry ELSE step[i][h[i - 1]]]
    BY <1>7 DEF RunsTo
  <2>2. \A i \in 0..rounds : i # 0 => i \in 1..rounds /\ i - 1 \in 0..rounds
    BY <1>1
  <2>3. \A i \in 0..rounds : i # 0 => step[i][h[i - 1]] = greedySearch(nodes, p, h[i - 1], high - i + 1)
    BY <1>5, <1>7, <2>2
  <2> QED
    BY <2>1, <2>3
<1>9. PICK g : g = CHOOSE x : P(x)
  OBVIOUS
<1>10. P(g)
  BY <1>8, <1>9
<1>11. g[0] = entry /\ \A i \in 1..rounds : g[i] = greedySearch(nodes, p, g[i - 1], high - i + 1)
  BY <1>1, <1>10
<1>12. \A i \in 1..rounds : g[i - 1] \in Q[i - 1] => g[i] \in Q[i]
  BY <1>3, <1>11
<1>13. \A i \in 0..rounds : g[i] \in Q[i]
  BY <1>1, <1>6, <1>11, <1>12, RoundsKeep
<1>14. Descend(nodes, p, entry, high, low) = g[rounds]
  BY <1>1, <1>9 DEF Descend
<1>15. g[rounds] \in Q[rounds]
  BY <1>1, <1>13
<1>16. low =< high => rounds # 0 /\ high - rounds + 1 = low
  BY <1>1
<1>17. high < low => rounds = 0
  BY <1>1
<1> QED
  BY <1>1, <1>2, <1>14, <1>15, <1>16, <1>17

-----------------------------------------------------------------------------
(* The search of a layer where every node is a neighbor of every other.    *)

LEMMA FurthestIs ==
    ASSUME NEW nodes, NEW p, NEW S, Comparable(nodes, p, S), S # {}
    PROVE  /\ Furthest(nodes, p, S) \in S
           /\ \A b \in S \ {Furthest(nodes, p, S)} : Closer(nodes, p, b, Furthest(nodes, p, S))
<1>1. PICK key : key = DistanceKey(nodes, p, S)
  OBVIOUS
<1>2. IsKey(key, S) /\ \A a, b \in S : Closer(nodes, p, a, b) <=> KeyBefore(key, a, b)
  BY <1>1, CloserIs
<1>3. IsFiniteSet(S) /\ Cardinality(S) \in Nat /\ Cardinality(S) # 0
  BY <1>2, FS_CardinalityType, FS_EmptySet DEF IsKey
<1>4. PICK q : IsSorting(q, S, key)
  BY <1>1, OrderedIs
<1>5. PICK n : n = Cardinality(S) /\ n \in 1..Cardinality(S)
  BY <1>3
<1>6. PICK a : a = q[n]
  OBVIOUS
<1>7. a \in S
  BY <1>4, <1>5, <1>6 DEF IsSorting
<1>8. ASSUME NEW b \in S \ {a} PROVE KeyBefore(key, b, a)
  <2>1. PICK i \in 1..Cardinality(S) : q[i] = b
    BY <1>4 DEF IsSorting
  <2>2. i < n
    BY <1>3, <1>5, <1>6, <2>1
  <2> QED
    BY <1>4, <1>5, <1>6, <2>1, <2>2 DEF IsSorting
<1>9. \E x \in S : \A b \in S \ {x} : Closer(nodes, p, b, x)
  BY <1>2, <1>7, <1>8
<1>10. PICK c : c = Furthest(nodes, p, S)
  OBVIOUS
<1>11. c \in S /\ \A b \in S \ {c} : Closer(nodes, p, b, c)
  BY <1>9, <1>10 DEF Furthest
<1> QED
  BY <1>10, <1>11

\* R is as many of the nearest of V as there is room for.
Top(nodes, p, R, V, breadth) ==
    /\ R \subseteq V /\ Cardinality(R) =< breadth
    /\ Cardinality(R) = breadth \/ R = V
    /\ \A r \in R, x \in V \ R : Closer(nodes, p, r, x)

LEMMA CloserOrder ==
    ASSUME NEW nodes, NEW p, NEW S, Comparable(nodes, p, S), NEW a \in S, NEW b \in S
    PROVE  /\ a # b => Closer(nodes, p, a, b) \/ Closer(nodes, p, b, a)
           /\ Closer(nodes, p, a, b) => a # b /\ ~ Closer(nodes, p, b, a)
           /\ \A c \in S : Closer(nodes, p, a, b) /\ Closer(nodes, p, b, c) => Closer(nodes, p, a, c)
<1>1. PICK key : key = DistanceKey(nodes, p, S)
  OBVIOUS
<1>2. IsKey(key, S) /\ \A x, y \in S : Closer(nodes, p, x, y) <=> KeyBefore(key, x, y)
  BY <1>1, CloserIs
<1> QED
  BY <1>2, KeyTotal, KeyStrict, KeyTransitive

\* A visit keeps the nearest of what was visited.
LEMMA VisitKeepsTop ==
    ASSUME NEW nodes, NEW p, NEW D, Comparable(nodes, p, D), NEW s \in Searches(D), NEW id \in D,
           NEW breadth \in Nat \ {0}, Top(nodes, p, s.results, s.visited, breadth), s.results # {}
    PROVE  LET t == Visit(nodes, p, breadth, s, id) IN Top(nodes, p, t.results, t.visited, breadth)
<1>0. PICK t : t = Visit(nodes, p, breadth, s, id)
  OBVIOUS
<1>1. PICK R, V : R = s.results /\ V = s.visited
  OBVIOUS
<1>2. IsFiniteSet(D) /\ R \subseteq D /\ V \subseteq D /\ R # {}
      /\ s = [visited |-> V, candidates |-> s.candidates, results |-> R]
  BY <1>1 DEF Searches, Comparable
<1>3. /\ R \subseteq V /\ Cardinality(R) =< breadth /\ (Cardinality(R) = breadth \/ R = V)
      /\ \A r \in R, x \in V \ R : Closer(nodes, p, r, x)
  BY <1>1 DEF Top
<1>4. IsFiniteSet(R) /\ Cardinality(R) \in Nat
  BY <1>2, FS_Subset, FS_CardinalityType
<1>5. CASE id \in V
  <2>1. t = s
    BY <1>0, <1>1, <1>5 DEF Visit
  <2> QED
    BY <1>0, <2>1
<1>6. CASE id \notin V
  <2>0. t.visited = V \union {id}
    BY <1>0, <1>1, <1>2, VisitStays
  <2>1. PICK f : f = Furthest(nodes, p, R)
    OBVIOUS
  <2>2. f \in R /\ \A b \in R \ {f} : Closer(nodes, p, b, f)
    <3>1. Comparable(nodes, p, R)
      BY <1>2, ComparableSubset
    <3> QED
      BY <1>2, <2>1, <3>1, FurthestIs
  <2>3. id \notin R /\ f \in D /\ id # f /\ f \in V
    BY <1>2, <1>3, <1>6, <2>2
  <2>4. PICK W : W = R \union {id}
    OBVIOUS
  <2>5. IsFiniteSet(W) /\ Cardinality(W) = Cardinality(R) + 1 /\ W # {} /\ W \subseteq D
    BY <1>2, <1>4, <2>3, <2>4, OneMore
  <2>6. PICK g : g = Furthest(nodes, p, W)
    OBVIOUS
  <2>7. g \in W /\ \A b \in W \ {g} : Closer(nodes, p, b, g)
    <3>1. Comparable(nodes, p, W)
      BY <2>5, ComparableSubset
    <3> QED
      BY <2>5, <2>6, <3>1, FurthestIs
  <2>8. t.results = IF Cardinality(R) >= breadth /\ ~ Closer(nodes, p, id, f) THEN R
                    ELSE IF Cardinality(W) > breadth THEN W \ {g} ELSE W
    <3>1. PICK u : u = [s EXCEPT !.visited = V \union {id}]
      OBVIOUS
    <3>2. u = [visited |-> V \union {id}, candidates |-> s.candidates, results |-> R]
      BY <1>2, <3>1
    <3>3. t = IF Cardinality(R) >= breadth /\ ~ Closer(nodes, p, id, f) THEN u
              ELSE [u EXCEPT !.candidates = u.candidates \union {id},
                             !.results = IF Cardinality(W) > breadth THEN W \ {g} ELSE W]
      BY <1>0, <1>1, <1>6, <2>1, <2>4, <2>6, <3>1 DEF Visit
    <3> QED
      BY <3>2, <3>3
  <2>9. CASE Cardinality(R) >= breadth /\ ~ Closer(nodes, p, id, f)
    <3>1. t.results = R /\ Cardinality(R) = breadth
      BY <1>3, <1>4, <2>8, <2>9
    <3>2. Closer(nodes, p, f, id)
      BY <2>3, <2>9, CloserOrder
    <3>3. ASSUME NEW r \in R, NEW x \in (V \union {id}) \ R PROVE Closer(nodes, p, r, x)
      <4>1. CASE x = id
        <5>1. r \in D /\ (r = f \/ Closer(nodes, p, r, f))
          BY <1>2, <2>2
        <5> QED
          BY <2>3, <3>2, <4>1, <5>1, CloserOrder
      <4>2. CASE x # id
        BY <1>3, <4>2
      <4> QED
        BY <4>1, <4>2
    <3> QED
      BY <1>0, <1>3, <2>0, <3>1, <3>3 DEF Top
  <2>10. CASE Cardinality(R) < breadth
    <3>1. R = V /\ ~ (Cardinality(R) >= breadth) /\ Cardinality(W) =< breadth
      BY <1>3, <1>4, <2>5, <2>10
    <3>2. t.results = W /\ W = V \union {id}
      BY <1>4, <2>4, <2>5, <2>8, <3>1
    <3> QED
      BY <1>0, <2>0, <3>1, <3>2 DEF Top
  <2>11. CASE Cardinality(R) >= breadth /\ Closer(nodes, p, id, f)
    <3>1. Cardinality(R) = breadth /\ Cardinality(W) > breadth
      BY <1>3, <1>4, <2>5, <2>11
    <3>2. t.results = W \ {g}
      BY <2>8, <2>11, <3>1
    <3>3. g = f
      <4>1. SUFFICES ASSUME g # f PROVE FALSE
        OBVIOUS
      <4>2. Closer(nodes, p, f, g) /\ g \in D
        BY <2>2, <2>4, <2>5, <2>7, <4>1
      <4>3. g = id \/ Closer(nodes, p, g, f)
        BY <2>2, <2>4, <2>7, <4>1
      <4> QED
        BY <2>3, <2>11, <4>2, <4>3, CloserOrder
    <3>4. Cardinality(W \ {g}) = breadth
      BY <1>4, <2>5, <2>7, <3>1, OneMore
    <3>5. ASSUME NEW r \in W \ {g}, NEW x \in (V \union {id}) \ (W \ {g}) PROVE Closer(nodes, p, r, x)
      <4>1. r \in D /\ x \in D /\ Closer(nodes, p, r, f)
        BY <1>2, <2>2, <2>3, <2>4, <2>11, <3>3
      <4>2. x = f \/ x \in V \ R
        BY <2>4, <3>3
      <4>3. x \in V \ R => Closer(nodes, p, f, x)
        BY <1>3, <2>2
      <4> QED
        BY <2>3, <4>1, <4>2, <4>3, CloserOrder
    <3>6. W \ {g} \subseteq V \union {id}
      BY <1>3, <2>4
    <3> QED
      BY <1>0, <2>0, <3>2, <3>4, <3>5, <3>6 DEF Top
  <2> QED
    BY <1>4, <2>9, <2>10, <2>11
<1> QED
  BY <1>5, <1>6

\* Every node of E is a neighbor of every other one.
Complete(nodes, level, E) ==
    \A n \in E, m \in E : n # m => m \in Range(nodes[n].neighbors[level])

\* What is expanded is visited, and the nearest are kept.
LEMMA ExpandKeepsTop ==
    ASSUME NEW nodes, NEW p, NEW level, NEW E, Closed(nodes, p, level, E), Complete(nodes, level, E),
           NEW breadth \in Nat \ {0}, NEW s \in Searches(E), s.candidates # {}, s.candidates \subseteq s.visited,
           Top(nodes, p, s.results, s.visited, breadth), s.results # {}
    PROVE  LET t == Expand(nodes, p, breadth, level, s)
           IN  /\ t \in Searches(E) /\ t.visited = E /\ t.results # {}
               /\ Top(nodes, p, t.results, t.visited, breadth)
<1>1. Comparable(nodes, p, E) /\ IsFiniteSet(E) /\ s.candidates \subseteq E /\ s.visited \subseteq E
  BY DEF Closed, Comparable, Searches
<1>2. PICK c : c = Nearest(nodes, p, s.candidates)
  OBVIOUS
<1>3. c \in s.candidates /\ c \in s.visited
  <2>1. Comparable(nodes, p, s.candidates)
    BY <1>1, ComparableSubset
  <2> QED
    BY <1>2, <2>1, NearestIs
<1>4. PICK list : list = nodes[c].neighbors[level] /\ list \in Seq(E)
  BY <1>1, <1>3 DEF Closed
<1>5. Len(list) \in Nat /\ \A i \in 1..Len(list) : list[i] \in E
  BY <1>4, ListFacts
<1>6. PICK u : u = [s EXCEPT !.candidates = s.candidates \ {c}]
  OBVIOUS
<1>7. u \in Searches(E) /\ u.results = s.results /\ u.visited = s.visited
  BY <1>1, <1>6 DEF Searches
<1>8. PICK Q : Q = [i \in 0..Len(list) |->
                      {t \in Searches(E) : /\ t.results # {} /\ Top(nodes, p, t.results, t.visited, breadth)
                                           /\ t.visited = s.visited \union {list[j] : j \in 1..i}}]
  OBVIOUS
<1>9. u \in Q[0]
  <2>1. 0 \in 0..Len(list) /\ {list[j] : j \in 1..0} = {}
    BY <1>5
  <2>2. u.visited = s.visited \union {list[j] : j \in 1..0}
    BY <1>7, <2>1
  <2>3. Top(nodes, p, u.results, u.visited, breadth) /\ u.results # {}
    BY <1>7
  <2> QED
    BY <1>7, <1>8, <2>1, <2>2, <2>3
<1>10. ASSUME NEW i \in 1..Len(list), NEW t \in Q[i - 1]
       PROVE  Visit(nodes, p, breadth, t, list[i]) \in Q[i]
  <2>1. i - 1 \in 0..Len(list) /\ i \in 0..Len(list) /\ list[i] \in E
    BY <1>5
  <2>2. /\ t \in Searches(E) /\ t.results # {} /\ Top(nodes, p, t.results, t.visited, breadth)
        /\ t.visited = s.visited \union {list[j] : j \in 1..(i - 1)}
    BY <1>8, <2>1
  <2>3. PICK v : v = Visit(nodes, p, breadth, t, list[i])
    OBVIOUS
  <2>4. v \in Searches(E) /\ v.results # {} /\ v.visited = t.visited \union {list[i]}
    BY <1>1, <2>1, <2>2, <2>3, VisitStays
  <2>5. Top(nodes, p, v.results, v.visited, breadth)
    BY <1>1, <2>1, <2>2, <2>3, VisitKeepsTop
  <2>6. v.visited = s.visited \union {list[j] : j \in 1..i}
    <3>1. 1..i = (1..(i - 1)) \union {i}
      BY <1>5
    <3>2. {list[j] : j \in 1..i} = {list[j] : j \in 1..(i - 1)} \union {list[i]}
      BY <3>1
    <3> QED
      BY <2>2, <2>4, <3>2
  <2> QED
    BY <1>8, <2>1, <2>3, <2>4, <2>5, <2>6
<1>11. VisitAll(nodes, p, breadth, u, list) \in Q[Len(list)]
  BY <1>5, <1>9, <1>10, VisitAllRounds
<1>12. PICK t : t = Expand(nodes, p, breadth, level, s)
  OBVIOUS
<1>13. t = VisitAll(nodes, p, breadth, u, list)
  BY <1>2, <1>4, <1>6, <1>12 DEF Expand
<1>14. Len(list) \in 0..Len(list)
  BY <1>5
<1>15. /\ t \in Searches(E) /\ t.results # {} /\ Top(nodes, p, t.results, t.visited, breadth)
       /\ t.visited = s.visited \union {list[j] : j \in 1..Len(list)}
  BY <1>8, <1>11, <1>13, <1>14
<1>16. t.visited = E
  <2>1. Range(list) = {list[j] : j \in 1..Len(list)}
    BY <1>4, ListFacts
  <2>2. \A m \in E : m = c \/ m \in Range(list)
    BY <1>1, <1>3, <1>4 DEF Complete
  <2>3. t.visited \subseteq E
    BY <1>15 DEF Searches
  <2> QED
    BY <1>3, <1>15, <2>1, <2>2, <2>3
<1> QED
  BY <1>12, <1>15, <1>16

\* The search of a complete layer finds the nearest nodes of it.
LEMMA CompleteSearch ==
    ASSUME NEW nodes, NEW p, NEW level, NEW D, Layer(nodes, p, level, D),
           NEW E, E \subseteq D, Closed(nodes, p, level, E), Complete(nodes, level, E),
           NEW breadth \in Nat, breadth >= 2, NEW entry \in E
    PROVE  \E R : /\ Top(nodes, p, R, E, breadth) /\ R # {}
                  /\ searchLayer(nodes, p, entry, breadth, level) = Ordered(nodes, p, R)
<1>1. PICK s : s = [visited |-> {entry}, candidates |-> {entry}, results |-> {entry}]
  OBVIOUS
<1>2. PICK Q : Q = {x \in Searches(E) : /\ x.results # {} /\ Top(nodes, p, x.results, x.visited, breadth)
                                        /\ x.candidates \subseteq x.visited
                                        /\ x = s \/ x.visited = E}
  OBVIOUS
<1>3. s \in Q /\ Q \subseteq Searches(D) /\ Cardinality({entry}) = 1
  <2>1. Cardinality({entry}) = 1
    BY FS_Singleton
  <2>2. Top(nodes, p, {entry}, {entry}, breadth)
    BY <2>1 DEF Top
  <2>3. Q \subseteq Searches(D)
    BY <1>2 DEF Searches
  <2>4. s \in Searches(E)
    BY <1>1 DEF Searches
  <2> QED
    BY <1>1, <1>2, <2>1, <2>2, <2>3, <2>4
<1>4. breadth \in Nat \ {0}
  OBVIOUS
<1>5. ASSUME NEW x \in Q, ~ Exhausted(nodes, p, breadth, x)
      PROVE  Expand(nodes, p, breadth, level, x) \in Q
  <2>1. /\ x \in Searches(E) /\ x.results # {} /\ x.candidates # {} /\ x.candidates \subseteq x.visited
        /\ Top(nodes, p, x.results, x.visited, breadth)
    BY <1>2, <1>5 DEF Exhausted
  <2>2. PICK t : t = Expand(nodes, p, breadth, level, x)
    OBVIOUS
  <2>3. /\ t \in Searches(E) /\ t.visited = E /\ t.results # {}
        /\ Top(nodes, p, t.results, t.visited, breadth)
    BY <1>4, <2>1, <2>2, ExpandKeepsTop
  <2>4. t.candidates \subseteq t.visited
    BY <2>3 DEF Searches
  <2> QED
    BY <1>2, <2>2, <2>3, <2>4
<1>6. PICK x \in Q : Exhausted(nodes, p, breadth, x) /\ Explore(nodes, p, breadth, level, s) = x.results
  BY <1>3, <1>4, <1>5, ExploreEnds
<1>7. x # s
  BY <1>1, <1>3, <1>6 DEF Exhausted
<1>8. x.results # {} /\ Top(nodes, p, x.results, E, breadth)
  BY <1>2, <1>6, <1>7
<1> QED
  BY <1>1, <1>6, <1>8 DEF searchLayer

-----------------------------------------------------------------------------
(* Lists of neighbors.                                                     *)

Distinct(list) == \A i, j \in 1..Len(list) : i # j => list[i] # list[j]

\* list is the first of q, of which there are n, up to a limit.
IsCut(list, q, n, limit) ==
    /\ Len(list) = IF n > limit THEN limit ELSE n
    /\ \A i \in 1..Len(list) : list[i] = q[i]

LEMMA TwoNumbers ==
    ASSUME NEW a \in Int, NEW b \in Int
    PROVE  /\ Min({a, b}) = IF a =< b THEN a ELSE b
           /\ Max({a, b}) = IF a >= b THEN a ELSE b
<1>1. PICK m : m = Min({a, b})
  OBVIOUS
<1>2. \E x \in {a, b} : \A y \in {a, b} : x =< y
  OBVIOUS
<1>3. m \in {a, b} /\ \A y \in {a, b} : m =< y
  BY <1>1, <1>2 DEF Min
<1>4. PICK n : n = Max({a, b})
  OBVIOUS
<1>5. \E x \in {a, b} : \A y \in {a, b} : x >= y
  OBVIOUS
<1>6. n \in {a, b} /\ \A y \in {a, b} : n >= y
  BY <1>4, <1>5 DEF Max
<1> QED
  BY <1>1, <1>3, <1>4, <1>6

LEMMA CutIs ==
    ASSUME NEW S, NEW n \in Nat, NEW q \in [1..n -> S], NEW limit \in Nat \ {0}
    PROVE  /\ Limited(q, limit) \in Seq(S) /\ IsCut(Limited(q, limit), q, n, limit)
           /\ SubSeq(q, 1, Min({limit, Len(q)})) \in Seq(S)
           /\ IsCut(SubSeq(q, 1, Min({limit, Len(q)})), q, n, limit)
<1>1. q \in Seq(S) /\ Len(q) = n
  BY LenProperties, SeqDef
<1>2. PICK k : k = (IF n > limit THEN limit ELSE n) /\ k \in 0..n
  OBVIOUS
<1>3. SubSeq(q, 1, k) \in Seq(S) /\ Len(SubSeq(q, 1, k)) = k /\ \A i \in 1..k : SubSeq(q, 1, k)[i] = q[i]
  BY <1>1, <1>2
<1>4. Min({limit, Len(q)}) = k
  BY <1>1, <1>2, TwoNumbers
<1>5. CASE n > limit
  <2>1. Limited(q, limit) = SubSeq(q, 1, k)
    BY <1>1, <1>2, <1>5 DEF Limited
  <2> QED
    BY <1>2, <1>3, <1>4, <2>1 DEF IsCut
<1>6. CASE ~ (n > limit)
  <2>1. Limited(q, limit) = q
    BY <1>1, <1>6 DEF Limited
  <2> QED
    BY <1>1, <1>2, <1>3, <1>4, <1>6, <2>1 DEF IsCut
<1> QED
  BY <1>5, <1>6

\* The first of an order are some of the set, each once, and all of it if there is room.
LEMMA CutOfSorting ==
    ASSUME NEW S, NEW key, IsKey(key, S), NEW q, IsSorting(q, S, key), NEW limit \in Nat,
           NEW list \in Seq(S), IsCut(list, q, Cardinality(S), limit)
    PROVE  /\ Len(list) =< limit /\ Distinct(list)
           /\ Cardinality(S) =< limit => Range(list) = S
<1>1. IsFiniteSet(S) /\ Cardinality(S) \in Nat
  BY FS_CardinalityType DEF IsKey
<1>2. Len(list) = (IF Cardinality(S) > limit THEN limit ELSE Cardinality(S))
      /\ \A i \in 1..Len(list) : list[i] = q[i]
  BY DEF IsCut
<1>3. Len(list) \in Nat /\ Len(list) =< limit /\ 1..Len(list) \subseteq 1..Cardinality(S)
  BY <1>1, <1>2
<1>4. \A i, j \in 1..Cardinality(S) : i < j => q[i] # q[j]
  BY KeyStrict DEF IsSorting
<1>5. Distinct(list)
  BY <1>2, <1>3, <1>4 DEF Distinct
<1>6. ASSUME Cardinality(S) =< limit PROVE Range(list) = S
  <2>1. Len(list) = Cardinality(S)
    BY <1>1, <1>2, <1>6
  <2>2. Range(list) = {list[i] : i \in 1..Len(list)} /\ Range(list) \subseteq S
    BY ListFacts
  <2>3. \A a \in S : \E i \in 1..Len(list) : list[i] = a
    BY <1>2, <2>1 DEF IsSorting
  <2> QED
    BY <2>2, <2>3
<1> QED
  BY <1>3, <1>5, <1>6

-----------------------------------------------------------------------------
(* Connecting a node.                                                      *)

IsNode(node) ==
    /\ node = [vector |-> node.vector, level |-> node.level, neighbors |-> node.neighbors]
    /\ node.vector \in Int /\ node.level \in Nat
    /\ node.neighbors = [l \in 0..node.level |-> node.neighbors[l]]

\* A list of the node n, which names others of D.
GoodList(list, D, n) == list \in Seq(D \ {n}) /\ Len(list) =< MaxConnections /\ Distinct(list)

GoodNodes(nodes) ==
    /\ DOMAIN nodes \subseteq Nat /\ IsFiniteSet(DOMAIN nodes)
    /\ \A n \in DOMAIN nodes : IsNode(nodes[n])
    /\ \A n \in DOMAIN nodes : \A l \in 0..nodes[n].level :
          GoodList(nodes[n].neighbors[l], OnLevel(nodes, l), n)

\* The nodes differ in their lists alone.
SameNodes(nodes, others) ==
    /\ DOMAIN nodes = DOMAIN others
    /\ \A n \in DOMAIN nodes : nodes[n].level = others[n].level /\ nodes[n].vector = others[n].vector

\* A list has room for all the other nodes.
Small(nodes) == Cardinality(DOMAIN nodes) =< MaxConnections + 1

\* The node id is connected on the levels above l.
Linking(s, others, id, l) ==
    /\ GoodNodes(s.nodes) /\ SameNodes(s.nodes, others)
    /\ \A k \in 0..l : \A n \in OnLevel(s.nodes, k) : id \notin Range(s.nodes[n].neighbors[k])
    /\ s.entry \in OnLevel(s.nodes, l) \ {id}
    /\ Small(s.nodes) =>
          \A k \in Nat : Complete(s.nodes, k, IF k > l THEN OnLevel(s.nodes, k)
                                              ELSE OnLevel(s.nodes, k) \ {id})

LEMMA OnLevelFacts ==
    ASSUME NEW nodes, GoodNodes(nodes), NEW l \in Nat, NEW n \in OnLevel(nodes, l)
    PROVE  /\ n \in DOMAIN nodes /\ IsNode(nodes[n]) /\ l \in 0..nodes[n].level
           /\ GoodList(nodes[n].neighbors[l], OnLevel(nodes, l), n)
<1>1. n \in DOMAIN nodes /\ nodes[n].level >= l /\ IsNode(nodes[n])
  BY DEF OnLevel, GoodNodes
<1>2. l \in 0..nodes[n].level
  BY <1>1 DEF IsNode
<1> QED
  BY <1>1, <1>2 DEF GoodNodes

LEMMA GoodComparable ==
    ASSUME NEW nodes, GoodNodes(nodes), NEW p \in Int, NEW S, S \subseteq DOMAIN nodes
    PROVE  Comparable(nodes, p, S) /\ IsFiniteSet(S)
<1>1. IsFiniteSet(DOMAIN nodes) /\ DOMAIN nodes \subseteq Nat /\ S \in SUBSET DOMAIN nodes
  BY DEF GoodNodes
<1>2. IsFiniteSet(S)
  BY <1>1, FS_Subset
<1>3. \A n \in S : nodes[n].vector \in Int
  BY DEF GoodNodes, IsNode
<1> QED
  BY <1>1, <1>2, <1>3 DEF Comparable

\* Every level of sound nodes can be searched.
LEMMA GoodLayer ==
    ASSUME NEW nodes, GoodNodes(nodes), NEW p \in Int, NEW l \in Nat
    PROVE  Layer(nodes, p, l, OnLevel(nodes, l))
<1>1. PICK D : D = OnLevel(nodes, l)
  OBVIOUS
<1>2. D \subseteq DOMAIN nodes
  BY <1>1 DEF OnLevel
<1>3. Comparable(nodes, p, D)
  BY <1>2, GoodComparable
<1>4. ASSUME NEW n \in D PROVE nodes[n].neighbors[l] \in Seq(D)
  <2>1. PICK list : list = nodes[n].neighbors[l] /\ list \in Seq(D \ {n})
    BY <1>1, OnLevelFacts DEF GoodList
  <2>2. list \in Seq(D)
    BY <2>1, SeqMonotonic
  <2> QED
    BY <2>1, <2>2
<1> QED
  BY <1>1, <1>3, <1>4 DEF Layer, Closed

\* What the search for the neighbors of a new node finds.
LEMMA CandidatesAre ==
    ASSUME NEW s, NEW others, NEW id \in DOMAIN s.nodes, NEW l \in Nat,
           Linking(s, others, id, l)
    PROVE  \E R : /\ R \subseteq OnLevel(s.nodes, l) \ {id} /\ R # {} /\ IsFiniteSet(R)
                  /\ Comparable(s.nodes, s.nodes[id].vector, R)
                  /\ searchLayer(s.nodes, s.nodes[id].vector, s.entry, EFConstruction, l)
                        = Ordered(s.nodes, s.nodes[id].vector, R)
                  /\ Small(s.nodes) => R = OnLevel(s.nodes, l) \ {id} /\ Cardinality(R) =< MaxConnections
<1>1. PICK nodes, p, D, E, entry : /\ nodes = s.nodes /\ p = s.nodes[id].vector /\ D = OnLevel(nodes, l)
                                   /\ E = D \ {id} /\ entry = s.entry
  OBVIOUS
<1>2. GoodNodes(nodes) /\ p \in Int /\ entry \in E /\ D \subseteq DOMAIN nodes
  BY <1>1 DEF Linking, GoodNodes, IsNode, OnLevel
<1>3. Layer(nodes, p, l, D)
  BY <1>1, <1>2, GoodLayer
<1>4. Closed(nodes, p, l, E)
  <2>1. Comparable(nodes, p, E)
    BY <1>1, <1>2, GoodComparable
  <2>2. ASSUME NEW n \in E PROVE nodes[n].neighbors[l] \in Seq(E)
    <3>1. n \in D /\ id \notin Range(nodes[n].neighbors[l])
      BY <1>1 DEF Linking
    <3>2. PICK list : list = nodes[n].neighbors[l] /\ list \in Seq(D \ {n})
      BY <1>1, <1>2, <3>1, OnLevelFacts DEF GoodList
    <3>3. \A i \in 1..Len(list) : list[i] \in D /\ list[i] # id
      <4>1. \A i \in 1..Len(list) : list[i] \in D /\ list[i] \in Range(list)
        BY <3>2, ListFacts
      <4> QED
        BY <3>1, <3>2, <4>1
    <3>4. list \in Seq(E)
      <4>1. Len(list) \in Nat /\ list \in [1..Len(list) -> D \ {n}]
        BY <3>2, LenProperties
      <4>2. list \in [1..Len(list) -> E]
        BY <1>1, <3>3, <4>1
      <4> QED
        BY <4>1, <4>2, SeqDef
    <3> QED
      BY <3>2, <3>4
  <2> QED
    BY <2>1, <2>2 DEF Closed
<1>5. EFConstruction \in Nat \ {0} /\ EFConstruction >= 2 /\ EFConstruction >= MaxConnections /\ MaxConnections \in Nat
  BY IndexAssumption
<1>6. E \subseteq D /\ E \subseteq DOMAIN nodes
  BY <1>1, <1>2
<1>7. CASE ~ Small(nodes)
  <2>1. PICK R : R \subseteq E /\ R # {} /\ searchLayer(nodes, p, entry, EFConstruction, l) = Ordered(nodes, p, R)
    BY <1>2, <1>3, <1>4, <1>5, <1>6, SearchLayerFinds
  <2>2. Comparable(nodes, p, R) /\ IsFiniteSet(R)
    BY <1>2, <1>6, <2>1, GoodComparable
  <2> QED
    BY <1>1, <1>7, <2>1, <2>2
<1>8. CASE Small(nodes)
  <2>1. Complete(nodes, l, E)
    BY <1>1, <1>8 DEF Linking
  <2>2. PICK R : /\ Top(nodes, p, R, E, EFConstruction) /\ R # {}
                 /\ searchLayer(nodes, p, entry, EFConstruction, l) = Ordered(nodes, p, R)
    BY <1>2, <1>3, <1>4, <1>5, <1>6, <2>1, CompleteSearch
  <2>3. Cardinality(E) =< MaxConnections /\ IsFiniteSet(E)
    <3>1. PICK all : all = DOMAIN nodes /\ IsFiniteSet(all) /\ id \in all
      BY <1>1, <1>2 DEF GoodNodes
    <3>2. Cardinality(all \ {id}) = Cardinality(all) - 1 /\ IsFiniteSet(all \ {id}) /\ Cardinality(all) \in Nat
      BY <3>1, OneMore
    <3>3. E \in SUBSET (all \ {id})
      BY <1>1, <1>2, <3>1
    <3>4. IsFiniteSet(E) /\ Cardinality(E) =< Cardinality(all \ {id})
      BY <3>2, <3>3, FS_Subset
    <3>5. Cardinality(E) \in Nat
      BY <3>4, FS_CardinalityType
    <3> QED
      BY <1>5, <1>8, <3>1, <3>2, <3>4, <3>5 DEF Small
  <2>4. R = E
    <3>1. R \subseteq E /\ (Cardinality(R) = EFConstruction \/ R = E)
      BY <2>2 DEF Top
    <3>2. Cardinality(R) =< Cardinality(E) /\ (Cardinality(E) = Cardinality(R) => E = R)
      BY <2>3, <3>1, FS_Subset
    <3>3. Cardinality(E) \in Nat
      BY <2>3, FS_CardinalityType
    <3> QED
      BY <1>5, <2>3, <3>1, <3>2, <3>3
  <2>5. Comparable(nodes, p, R)
    BY <1>2, <1>6, <2>4, GoodComparable
  <2> QED
    BY <1>1, <2>2, <2>3, <2>4, <2>5
<1> QED
  BY <1>7, <1>8

LEMMA ReplaceList ==
    ASSUME NEW node, IsNode(node), NEW l \in 0..node.level, NEW list,
           NEW x, x = [node EXCEPT !.neighbors[l] = list]
    PROVE  /\ IsNode(x) /\ x.vector = node.vector /\ x.level = node.level
           /\ \A k \in 0..node.level : x.neighbors[k] = IF k = l THEN list ELSE node.neighbors[k]
<1>1. PICK v, h, f : /\ node = [vector |-> v, level |-> h, neighbors |-> f]
                     /\ v \in Int /\ h \in Nat /\ f = [k \in 0..h |-> f[k]]
  BY DEF IsNode
<1>2. PICK g : g = [f EXCEPT ![l] = list]
  OBVIOUS
<1>3. x = [vector |-> v, level |-> h, neighbors |-> g]
  BY <1>1, <1>2
<1>4. l \in 0..h /\ g = [k \in 0..h |-> g[k]] /\ \A k \in 0..h : g[k] = IF k = l THEN list ELSE f[k]
  BY <1>1, <1>2
<1>5. x.vector = v /\ x.level = h /\ x.neighbors = g
  BY <1>3
<1>6. node.vector = v /\ node.level = h /\ node.neighbors = f
  BY <1>1
<1>7. IsNode(x)
  <2>1. x = [vector |-> x.vector, level |-> x.level, neighbors |-> x.neighbors]
    BY <1>3, <1>5
  <2>2. x.vector \in Int /\ x.level \in Nat
    BY <1>1, <1>5
  <2>3. x.neighbors = [k \in 0..x.level |-> x.neighbors[k]]
    BY <1>4, <1>5
  <2> QED
    BY <2>1, <2>2, <2>3 DEF IsNode
<1> QED
  BY <1>4, <1>5, <1>6, <1>7

\* t is nodes with other lists on the level l, for the nodes that new has a list for.
Relists(t, nodes, l, new) ==
    /\ DOMAIN t = DOMAIN nodes
    /\ \A n \in DOMAIN nodes :
         /\ IsNode(t[n]) /\ t[n].vector = nodes[n].vector /\ t[n].level = nodes[n].level
         /\ \A k \in 0..nodes[n].level :
              t[n].neighbors[k] = IF k = l /\ n \in DOMAIN new THEN new[n] ELSE nodes[n].neighbors[k]

LEMMA RelistGood ==
    ASSUME NEW nodes, GoodNodes(nodes), NEW l \in Nat, NEW t, NEW new, Relists(t, nodes, l, new),
           \A n \in DOMAIN new : GoodList(new[n], OnLevel(nodes, l), n)
    PROVE  GoodNodes(t) /\ SameNodes(t, nodes) /\ \A k \in Int : OnLevel(t, k) = OnLevel(nodes, k)
<1>1. SameNodes(t, nodes)
  BY DEF Relists, SameNodes
<1>2. \A k \in Int : OnLevel(t, k) = OnLevel(nodes, k)
  BY DEF OnLevel, Relists
<1>3. ASSUME NEW n \in DOMAIN nodes, NEW k \in 0..nodes[n].level
      PROVE  GoodList(t[n].neighbors[k], OnLevel(nodes, k), n)
  <2>1. GoodList(nodes[n].neighbors[k], OnLevel(nodes, k), n)
    BY DEF GoodNodes
  <2>2. CASE k = l /\ n \in DOMAIN new
    <3>1. t[n].neighbors[k] = new[n]
      BY <2>2 DEF Relists
    <3> QED
      BY <2>2, <3>1
  <2>3. CASE ~ (k = l /\ n \in DOMAIN new)
    <3>1. t[n].neighbors[k] = nodes[n].neighbors[k]
      BY <2>3 DEF Relists
    <3> QED
      BY <2>1, <3>1
  <2> QED
    BY <2>2, <2>3
<1>4. ASSUME NEW n \in DOMAIN t, NEW k \in 0..t[n].level
      PROVE  GoodList(t[n].neighbors[k], OnLevel(t, k), n)
  <2>1. n \in DOMAIN nodes /\ k \in 0..nodes[n].level /\ k \in Int
    BY DEF Relists
  <2> QED
    BY <1>2, <1>3, <2>1
<1>5. DOMAIN t = DOMAIN nodes /\ \A n \in DOMAIN t : IsNode(t[n])
  BY DEF Relists
<1>6. GoodNodes(t)
  BY <1>4, <1>5 DEF GoodNodes
<1> QED
  BY <1>1, <1>2, <1>6

\* A list that is full drops what is furthest; one that is not takes the new node.
LEMMA PruneIs ==
    ASSUME NEW nodes, GoodNodes(nodes), NEW l \in Nat, NEW n \in OnLevel(nodes, l),
           NEW id \in OnLevel(nodes, l), id # n
    PROVE  LET list == nodes[n].neighbors[l]
               new == prune(nodes, n, Append(list, id))
           IN  /\ GoodList(new, OnLevel(nodes, l), n)
               /\ Small(nodes) => Range(new) = Range(list) \union {id}
<1>1. PICK D, list, p, S, new :
        /\ D = OnLevel(nodes, l) /\ list = nodes[n].neighbors[l] /\ p = nodes[n].vector
        /\ S = Range(list) \union {id} /\ new = prune(nodes, n, Append(list, id))
  OBVIOUS
<1>2. n \in DOMAIN nodes /\ p \in Int /\ list \in Seq(D \ {n}) /\ D \subseteq DOMAIN nodes
  <2>1. n \in DOMAIN nodes /\ IsNode(nodes[n]) /\ GoodList(nodes[n].neighbors[l], OnLevel(nodes, l), n)
    BY OnLevelFacts
  <2>2. p \in Int
    BY <1>1, <2>1 DEF IsNode
  <2>3. list \in Seq(D \ {n})
    BY <1>1, <2>1 DEF GoodList
  <2>4. D \subseteq DOMAIN nodes
    BY <1>1 DEF OnLevel
  <2> QED
    BY <2>1, <2>2, <2>3, <2>4
<1>3. Range(Append(list, id)) = S
  <2>1. Append(list, id) \in Seq(D) /\ Len(list) \in Nat /\ Len(Append(list, id)) = Len(list) + 1
    <3>1. list \in Seq(D)
      BY <1>2, SeqMonotonic
    <3> QED
      BY <1>1, <3>1
  <2>2. \A i \in 1..Len(list) + 1 : Append(list, id)[i] = IF i =< Len(list) THEN list[i] ELSE id
    BY <1>2
  <2>3. Range(Append(list, id)) = {Append(list, id)[i] : i \in 1..Len(list) + 1}
    BY <2>1, ListFacts
  <2>4. Range(list) = {list[i] : i \in 1..Len(list)}
    BY <1>2, ListFacts
  <2>5. \A x \in S : \E i \in 1..Len(list) + 1 : Append(list, id)[i] = x
    <3>1. ASSUME NEW x \in Range(list) PROVE \E i \in 1..Len(list) + 1 : Append(list, id)[i] = x
      <4>1. PICK i \in 1..Len(list) : list[i] = x
        BY <2>4, <3>1
      <4> QED
        BY <2>1, <2>2, <4>1
    <3>2. Len(list) + 1 \in 1..Len(list) + 1 /\ Append(list, id)[Len(list) + 1] = id
      BY <2>1, <2>2
    <3> QED
      BY <1>1, <3>1, <3>2
  <2>6. \A i \in 1..Len(list) + 1 : Append(list, id)[i] \in S
    <3>1. ASSUME NEW i \in 1..Len(list) + 1 PROVE Append(list, id)[i] \in S
      <4>1. CASE i =< Len(list)
        <5>1. i \in 1..Len(list) /\ Append(list, id)[i] = list[i]
          BY <2>1, <2>2, <4>1
        <5> QED
          BY <1>1, <2>4, <5>1
      <4>2. CASE ~ (i =< Len(list))
        BY <1>1, <2>2, <4>2
      <4> QED
        BY <4>1, <4>2
    <3> QED
      BY <3>1
  <2> QED
    BY <2>3, <2>5, <2>6
<1>4. S \subseteq D \ {n}
  <2>1. Range(list) \subseteq D \ {n}
    BY <1>2, ListFacts
  <2> QED
    BY <1>1, <2>1
<1>5. Comparable(nodes, p, S) /\ IsFiniteSet(S)
  BY <1>2, <1>4, GoodComparable
<1>6. PICK q, key : /\ q = Ordered(nodes, p, S) /\ key = DistanceKey(nodes, p, S)
                    /\ IsSorting(q, S, key) /\ IsKey(key, S) /\ q \in [1..Cardinality(S) -> S]
  BY <1>5, OrderedIs, CloserIs
<1>7. new = Limited(q, MaxConnections)
  BY <1>1, <1>3, <1>6 DEF prune
<1>8. MaxConnections \in Nat \ {0} /\ Cardinality(S) \in Nat
  BY IndexAssumption, <1>5, FS_CardinalityType
<1>9. new \in Seq(S) /\ IsCut(new, q, Cardinality(S), MaxConnections)
  BY <1>6, <1>7, <1>8, CutIs
<1>10. /\ Len(new) =< MaxConnections /\ Distinct(new)
       /\ Cardinality(S) =< MaxConnections => Range(new) = S
  BY <1>6, <1>8, <1>9, CutOfSorting
<1>11. new \in Seq(D \ {n})
  BY <1>4, <1>9, SeqMonotonic
<1>12. ASSUME Small(nodes) PROVE Cardinality(S) =< MaxConnections
  <2>1. PICK all : all = DOMAIN nodes /\ IsFiniteSet(all) /\ n \in all
    BY <1>2 DEF GoodNodes
  <2>2. Cardinality(all \ {n}) = Cardinality(all) - 1 /\ IsFiniteSet(all \ {n}) /\ Cardinality(all) \in Nat
    BY <2>1, OneMore
  <2>3. S \in SUBSET (all \ {n})
    BY <1>2, <1>4, <2>1
  <2>4. Cardinality(S) =< Cardinality(all \ {n})
    BY <2>2, <2>3, FS_Subset
  <2> QED
    BY <1>8, <1>12, <2>1, <2>2, <2>4 DEF Small
<1> QED
  BY <1>1, <1>10, <1>11, <1>12 DEF GoodList

\* c has the nodes with the lists of new on the level l, of id and what it connects with.
LinksWith(c, nodes, id, l, new) ==
    /\ Relists(c.nodes, nodes, l, new)
    /\ \A n \in DOMAIN new : GoodList(new[n], OnLevel(nodes, l), n)
    /\ c.entry \in OnLevel(nodes, l) \ {id}
    /\ Small(nodes) =>
         /\ DOMAIN new = OnLevel(nodes, l) /\ Range(new[id]) = OnLevel(nodes, l) \ {id}
         /\ \A n \in OnLevel(nodes, l) \ {id} :
              Range(new[n]) = Range(nodes[n].neighbors[l]) \union {id}

\* What a node is connected with, and what becomes of the lists.
LEMMA ConnectIs ==
    ASSUME NEW s, NEW others, NEW id \in DOMAIN s.nodes, NEW l \in Nat, id \in OnLevel(s.nodes, l),
           Linking(s, others, id, l)
    PROVE  \E new : LinksWith(Connect(id, s, l), s.nodes, id, l, new)
<1>1. PICK nodes, p, D : nodes = s.nodes /\ p = s.nodes[id].vector /\ D = OnLevel(nodes, l)
  OBVIOUS
<1>2. GoodNodes(nodes) /\ D \subseteq DOMAIN nodes
  BY <1>1 DEF Linking, OnLevel
<1>3. PICK R : /\ R \subseteq D \ {id} /\ R # {} /\ IsFiniteSet(R) /\ Comparable(nodes, p, R)
               /\ searchLayer(nodes, p, s.entry, EFConstruction, l) = Ordered(nodes, p, R)
               /\ Small(nodes) => R = D \ {id} /\ Cardinality(R) =< MaxConnections
  BY <1>1, CandidatesAre
<1>4. PICK q, key : /\ q = Ordered(nodes, p, R) /\ key = DistanceKey(nodes, p, R)
                    /\ IsSorting(q, R, key) /\ IsKey(key, R) /\ q \in [1..Cardinality(R) -> R]
  BY <1>3, OrderedIs, CloserIs
<1>5. MaxConnections \in Nat \ {0} /\ Cardinality(R) \in Nat /\ Cardinality(R) >= 1
  BY IndexAssumption, <1>3, FS_CardinalityType, FS_EmptySet
<1>6. PICK chosen : chosen = Connections(q)
  OBVIOUS
<1>7. chosen \in Seq(R) /\ IsCut(chosen, q, Cardinality(R), MaxConnections)
  BY <1>4, <1>5, <1>6, CutIs DEF Connections
<1>8. /\ Len(chosen) =< MaxConnections /\ Distinct(chosen)
      /\ Cardinality(R) =< MaxConnections => Range(chosen) = R
  BY <1>4, <1>5, <1>7, CutOfSorting
<1>9. Range(chosen) \subseteq R
  BY <1>7, ListFacts
<1>10. GoodList(chosen, D, id)
  <2>1. chosen \in Seq(D \ {id})
    BY <1>3, <1>7, SeqMonotonic
  <2> QED
    BY <1>8, <2>1 DEF GoodList
<1>11. PICK t : /\ t = Connect(id, s, l).nodes
                /\ t = [n \in DOMAIN nodes |->
                          IF n = id THEN [nodes[n] EXCEPT !.neighbors[l] = chosen]
                          ELSE IF n \in Range(chosen)
                          THEN [nodes[n] EXCEPT !.neighbors[l] = prune(nodes, n, Append(nodes[n].neighbors[l], id))]
                          ELSE nodes[n]]
  BY <1>1, <1>3, <1>4, <1>6 DEF Connect
<1>12. Connect(id, s, l).entry \in D \ {id}
  <2>1. Connect(id, s, l).entry = q[1]
    BY <1>1, <1>3, <1>4 DEF Connect
  <2>2. q[1] \in R
    BY <1>4, <1>5
  <2> QED
    BY <1>3, <2>1, <2>2
<1>13. PICK new : new = [n \in Range(chosen) \union {id} |->
                          IF n = id THEN chosen ELSE prune(nodes, n, Append(nodes[n].neighbors[l], id))]
  OBVIOUS
<1>14. ASSUME NEW n \in Range(chosen)
       PROVE  /\ new[n] = prune(nodes, n, Append(nodes[n].neighbors[l], id)) /\ n # id
              /\ GoodList(new[n], D, n)
              /\ Small(nodes) => Range(new[n]) = Range(nodes[n].neighbors[l]) \union {id}
  <2>1. n \in D /\ n # id /\ id \in D
    BY <1>1, <1>3, <1>9
  <2>2. new[n] = prune(nodes, n, Append(nodes[n].neighbors[l], id))
    BY <1>13, <2>1
  <2> QED
    BY <1>1, <1>2, <2>1, <2>2, PruneIs
<1>15. new[id] = chosen /\ DOMAIN new = Range(chosen) \union {id}
  BY <1>13
<1>16. Relists(t, nodes, l, new)
  <2>1. DOMAIN t = DOMAIN nodes
    BY <1>11
  <2>2. ASSUME NEW n \in DOMAIN nodes
        PROVE  /\ IsNode(t[n]) /\ t[n].vector = nodes[n].vector /\ t[n].level = nodes[n].level
               /\ \A k \in 0..nodes[n].level :
                    t[n].neighbors[k] = IF k = l /\ n \in DOMAIN new THEN new[n] ELSE nodes[n].neighbors[k]
    <3>1. IsNode(nodes[n])
      BY <1>2 DEF GoodNodes
    <3>2. CASE n = id
      <4>1. t[n] = [nodes[n] EXCEPT !.neighbors[l] = chosen]
        BY <1>11, <3>2
      <4>2. l \in 0..nodes[n].level
        BY <1>1, <1>2, <3>2, OnLevelFacts
      <4>3. /\ IsNode(t[n]) /\ t[n].vector = nodes[n].vector /\ t[n].level = nodes[n].level
            /\ \A k \in 0..nodes[n].level : t[n].neighbors[k] = IF k = l THEN chosen ELSE nodes[n].neighbors[k]
        <5>1. PICK node, x : node = nodes[n] /\ x = t[n]
          OBVIOUS
        <5>2. IsNode(node) /\ l \in 0..node.level /\ x = [node EXCEPT !.neighbors[l] = chosen]
          BY <3>1, <4>1, <4>2, <5>1
        <5>3. /\ IsNode(x) /\ x.vector = node.vector /\ x.level = node.level
              /\ \A k \in 0..node.level : x.neighbors[k] = IF k = l THEN chosen ELSE node.neighbors[k]
          BY <5>2, ReplaceList
        <5> QED
          BY <5>1, <5>3
      <4> QED
        BY <1>15, <3>2, <4>3
    <3>3. CASE n # id /\ n \in Range(chosen)
      <4>1. t[n] = [nodes[n] EXCEPT !.neighbors[l] = new[n]]
        BY <1>11, <1>14, <3>3
      <4>2. l \in 0..nodes[n].level
        BY <1>1, <1>2, <1>3, <1>9, <3>3, OnLevelFacts
      <4>3. /\ IsNode(t[n]) /\ t[n].vector = nodes[n].vector /\ t[n].level = nodes[n].level
            /\ \A k \in 0..nodes[n].level : t[n].neighbors[k] = IF k = l THEN new[n] ELSE nodes[n].neighbors[k]
        <5>1. PICK node, x, list : node = nodes[n] /\ x = t[n] /\ list = new[n]
          OBVIOUS
        <5>2. IsNode(node) /\ l \in 0..node.level /\ x = [node EXCEPT !.neighbors[l] = list]
          BY <3>1, <4>1, <4>2, <5>1
        <5>3. /\ IsNode(x) /\ x.vector = node.vector /\ x.level = node.level
              /\ \A k \in 0..node.level : x.neighbors[k] = IF k = l THEN list ELSE node.neighbors[k]
          BY <5>2, ReplaceList
        <5> QED
          BY <5>1, <5>3
      <4> QED
        BY <1>15, <3>3, <4>3
    <3>4. CASE n # id /\ n \notin Range(chosen)
      <4>1. t[n] = nodes[n]
        BY <1>11, <3>4
      <4> QED
        BY <1>15, <3>1, <3>4, <4>1
    <3> QED
      BY <3>2, <3>3, <3>4
  <2> QED
    BY <2>1, <2>2 DEF Relists
<1>17. \A n \in DOMAIN new : GoodList(new[n], D, n)
  BY <1>10, <1>14, <1>15
<1>18. ASSUME Small(nodes)
       PROVE  /\ DOMAIN new = D /\ Range(new[id]) = D \ {id}
              /\ \A n \in D \ {id} : Range(new[n]) = Range(nodes[n].neighbors[l]) \union {id}
  <2>1. Range(chosen) = D \ {id}
    BY <1>3, <1>8, <1>18
  <2>2. id \in D
    BY <1>1
  <2> QED
    BY <1>14, <1>15, <1>18, <2>1, <2>2
<1>19. PICK c : c = Connect(id, s, l)
  OBVIOUS
<1>20. LinksWith(c, nodes, id, l, new)
  BY <1>1, <1>11, <1>12, <1>16, <1>17, <1>18, <1>19 DEF LinksWith
<1> QED
  BY <1>1, <1>19, <1>20

\* Complete is about the lists alone.
LEMMA CompleteSame ==
    ASSUME NEW nodes, NEW t, NEW k, NEW E, Complete(nodes, k, E),
           \A n \in E : t[n].neighbors[k] = nodes[n].neighbors[k]
    PROVE  Complete(t, k, E)
  BY DEF Complete

LEMMA ConnectStep ==
    ASSUME NEW s, NEW others, NEW id \in DOMAIN s.nodes, NEW l \in Nat, id \in OnLevel(s.nodes, l),
           Linking(s, others, id, l)
    PROVE  Linking(Connect(id, s, l), others, id, l - 1)
<1>1. PICK nodes, D : nodes = s.nodes /\ D = OnLevel(nodes, l)
  OBVIOUS
<1>2. PICK c, t : c = Connect(id, s, l) /\ t = c.nodes
  OBVIOUS
<1>3. PICK new :
        /\ Relists(t, nodes, l, new) /\ \A n \in DOMAIN new : GoodList(new[n], D, n)
        /\ c.entry \in D \ {id}
        /\ Small(nodes) =>
             /\ DOMAIN new = D /\ Range(new[id]) = D \ {id}
             /\ \A n \in D \ {id} : Range(new[n]) = Range(nodes[n].neighbors[l]) \union {id}
  <2>1. PICK new : LinksWith(c, nodes, id, l, new)
    BY <1>1, <1>2, ConnectIs
  <2> QED
    BY <1>1, <1>2, <2>1 DEF LinksWith
<1>4. GoodNodes(nodes) /\ SameNodes(nodes, others) /\ \A n \in DOMAIN nodes : nodes[n].level \in Nat
  BY <1>1 DEF Linking, GoodNodes, IsNode
<1>5. GoodNodes(t) /\ SameNodes(t, nodes) /\ \A k \in Int : OnLevel(t, k) = OnLevel(nodes, k)
  BY <1>1, <1>3, <1>4, RelistGood
<1>6. SameNodes(t, others)
  BY <1>4, <1>5 DEF SameNodes
<1>7. ASSUME NEW k \in Nat, k # l, NEW n \in OnLevel(nodes, k)
      PROVE  t[n].neighbors[k] = nodes[n].neighbors[k]
  <2>1. n \in DOMAIN nodes /\ k \in 0..nodes[n].level
    BY <1>4, <1>7, OnLevelFacts
  <2> QED
    BY <1>3, <1>7, <2>1 DEF Relists
<1>8. ASSUME NEW k \in 0..(l - 1), NEW n \in OnLevel(t, k) PROVE id \notin Range(t[n].neighbors[k])
  <2>1. k \in Nat /\ k # l /\ k \in 0..l /\ n \in OnLevel(nodes, k)
    BY <1>5
  <2>2. t[n].neighbors[k] = nodes[n].neighbors[k]
    BY <1>7, <2>1
  <2> QED
    BY <1>1, <2>1, <2>2 DEF Linking
<1>9. c.entry \in OnLevel(t, l - 1) \ {id}
  <2>1. D \subseteq OnLevel(nodes, l - 1)
    BY <1>1, <1>4, OnLevelBelow
  <2>2. OnLevel(t, l - 1) = OnLevel(nodes, l - 1)
    BY <1>5
  <2> QED
    BY <1>3, <2>1, <2>2
<1>10. ASSUME Small(t), NEW k \in Nat
       PROVE  Complete(t, k, IF k > l - 1 THEN OnLevel(t, k) ELSE OnLevel(t, k) \ {id})
  <2>1. Small(nodes) /\ OnLevel(t, k) = OnLevel(nodes, k)
    BY <1>5, <1>10 DEF Small, SameNodes
  <2>2. Complete(nodes, k, IF k > l THEN OnLevel(nodes, k) ELSE OnLevel(nodes, k) \ {id})
    BY <1>1, <2>1 DEF Linking
  <2>3. CASE k > l
    <3>1. Complete(t, k, OnLevel(nodes, k))
      <4>1. Complete(nodes, k, OnLevel(nodes, k)) /\ k # l
        BY <2>2, <2>3
      <4> QED
        BY <1>7, <4>1, CompleteSame
    <3> QED
      BY <2>1, <2>3, <3>1
  <2>4. CASE k < l
    <3>1. Complete(t, k, OnLevel(nodes, k) \ {id})
      <4>1. Complete(nodes, k, OnLevel(nodes, k) \ {id}) /\ k # l
        BY <2>2, <2>4
      <4>2. PICK E : E = OnLevel(nodes, k) \ {id} /\ Complete(nodes, k, E)
        BY <4>1
      <4>3. \A n \in E : t[n].neighbors[k] = nodes[n].neighbors[k]
        BY <1>7, <4>1, <4>2
      <4> QED
        BY <4>2, <4>3, CompleteSame
    <3>2. ~ (k > l - 1)
      BY <2>4
    <3> QED
      BY <2>1, <3>1, <3>2
  <2>5. CASE k = l
    <3>1. Complete(nodes, l, D \ {id})
      BY <1>1, <2>2, <2>5
    <3>2. ASSUME NEW n \in D PROVE t[n].neighbors[l] = new[n]
      <4>1. n \in DOMAIN nodes /\ l \in 0..nodes[n].level
        BY <1>1, <1>4, OnLevelFacts
      <4> QED
        BY <1>3, <2>1, <4>1 DEF Relists
    <3>3. ASSUME NEW n \in D, NEW m \in D, n # m PROVE m \in Range(t[n].neighbors[l])
      <4>1. CASE n = id
        BY <1>3, <2>1, <3>2, <3>3, <4>1
      <4>2. CASE n # id /\ m = id
        BY <1>3, <2>1, <3>2, <4>2
      <4>3. CASE n # id /\ m # id
        BY <1>3, <2>1, <3>1, <3>2, <3>3, <4>3 DEF Complete
      <4> QED
        BY <4>1, <4>2, <4>3
    <3>4. Complete(t, l, D)
      BY <3>3 DEF Complete
    <3> QED
      BY <1>1, <2>1, <2>5, <3>4
  <2> QED
    BY <2>3, <2>4, <2>5
<1>11. Linking(c, others, id, l - 1)
  BY <1>2, <1>5, <1>6, <1>8, <1>9, <1>10 DEF Linking
<1> QED
  BY <1>2, <1>11

ConnectRounds(h, id, start, high, n) ==
    h = [i \in 0..n |-> IF i = 0 THEN start ELSE Connect(id, h[i - 1], high - i + 1)]

LEMMA ConnectRoundsExist ==
    ASSUME NEW id, NEW start, NEW high, NEW n \in Nat
    PROVE  \E h : ConnectRounds(h, id, start, high, n)
<1> DEFINE bad == {k \in 0..n : ~ \E h : ConnectRounds(h, id, start, high, k)}
<1>1. SUFFICES ASSUME bad # {} PROVE FALSE
  OBVIOUS
<1>2. PICK k \in bad : \A y \in bad : k =< y
  <2>1. bad \subseteq Nat
    OBVIOUS
  <2> HIDE DEF bad
  <2> QED
    BY <1>1, <2>1, LeastNumber
<1>3. CASE k = 0
  <2>1. PICK h : h = [i \in 0..0 |-> start]
    OBVIOUS
  <2>2. ConnectRounds(h, id, start, high, 0)
    BY <2>1 DEF ConnectRounds
  <2> QED
    BY <1>2, <1>3, <2>2
<1>4. CASE k # 0
  <2>1. k \in 1..n /\ k - 1 \in 0..n /\ ~ (k =< k - 1)
    BY <1>4
  <2>2. PICK g : ConnectRounds(g, id, start, high, k - 1)
    BY <1>2, <2>1
  <2>3. PICK h : h = [i \in 0..k |-> IF i = k THEN Connect(id, g[k - 1], high - k + 1) ELSE g[i]]
    OBVIOUS
  <2>4. ASSUME NEW i \in 0..k PROVE h[i] = IF i = 0 THEN start ELSE Connect(id, h[i - 1], high - i + 1)
    <3>1. CASE i = k
      <4>1. h[k - 1] = g[k - 1]
        BY <2>1, <2>3
      <4> QED
        BY <2>1, <2>3, <3>1, <4>1
    <3>2. CASE i # k
      <4>1. i \in 0..(k - 1) /\ h[i] = g[i]
        BY <2>1, <2>3, <3>2
      <4>2. g[i] = IF i = 0 THEN start ELSE Connect(id, g[i - 1], high - i + 1)
        BY <2>2, <4>1 DEF ConnectRounds
      <4>3. i # 0 => h[i - 1] = g[i - 1]
        BY <2>1, <2>3, <4>1
      <4> QED
        BY <4>1, <4>2, <4>3
    <3> QED
      BY <3>1, <3>2
  <2>5. ConnectRounds(h, id, start, high, k)
    BY <2>3, <2>4 DEF ConnectRounds
  <2> QED
    BY <1>2, <2>5
<1> QED
  BY <1>3, <1>4

\* The node is connected on all its levels that there are.
LEMMA ConnectAllLinks ==
    ASSUME NEW others, NEW id \in DOMAIN others, NEW high \in Nat, high =< others[id].level,
           others[id].level \in Nat, NEW start, Linking(start, others, id, high)
    PROVE  Linking(ConnectAll(id, start, high), others, id, -1)
<1>1. PICK n : n = high + 1 /\ n \in Nat
  OBVIOUS
<1>2. PICK h : ConnectRounds(h, id, start, high, n)
  BY <1>1, ConnectRoundsExist
<1> DEFINE P(x) == x = [i \in 0..high + 1 |-> IF i = 0 THEN start ELSE Connect(id, x[i - 1], high - i + 1)]
<1>3. P(h)
  BY <1>1, <1>2 DEF ConnectRounds
<1>4. PICK g : g = CHOOSE x : P(x)
  OBVIOUS
<1>5. P(g)
  BY <1>3, <1>4
<1>6. ConnectAll(id, start, high) = g[high + 1]
  BY <1>4 DEF ConnectAll
<1>7. g[0] = start /\ \A i \in 1..n : g[i] = Connect(id, g[i - 1], high - i + 1)
  BY <1>1, <1>5
<1> HIDE DEF P
<1>8. ASSUME NEW i \in 1..n, Linking(g[i - 1], others, id, high - i + 1)
      PROVE  Linking(g[i], others, id, high - i)
  <2>1. PICK s, l : s = g[i - 1] /\ l = high - i + 1 /\ l \in Nat /\ l =< high
    BY <1>1
  <2>2. Linking(s, others, id, l)
    BY <1>8, <2>1
  <2>3. id \in DOMAIN s.nodes /\ s.nodes[id].level = others[id].level
    BY <2>2 DEF Linking, SameNodes
  <2>4. id \in OnLevel(s.nodes, l)
    BY <2>1, <2>3 DEF OnLevel
  <2>5. Linking(Connect(id, s, l), others, id, l - 1)
    BY <2>1, <2>2, <2>3, <2>4, ConnectStep
  <2>6. g[i] = Connect(id, s, l) /\ l - 1 = high - i
    BY <1>1, <1>7, <2>1
  <2> QED
    BY <2>5, <2>6
<1> DEFINE bad == {i \in 0..n : ~ Linking(g[i], others, id, high - i)}
<1>9. bad = {}
  <2>1. SUFFICES ASSUME bad # {} PROVE FALSE
    OBVIOUS
  <2>2. PICK k \in bad : \A y \in bad : k =< y
    <3>1. bad \subseteq Nat
      OBVIOUS
    <3> HIDE DEF bad
    <3> QED
      BY <2>1, <3>1, LeastNumber
  <2>3. k # 0
    <3>1. 0 \in 0..n /\ high - 0 = high /\ Linking(g[0], others, id, high)
      BY <1>1, <1>7
    <3>2. Linking(g[0], others, id, high - 0)
      BY <3>1
    <3>3. k \in 0..n /\ ~ Linking(g[k], others, id, high - k)
      BY <2>2
    <3> QED
      BY <3>2, <3>3
  <2>4. k \in 1..n /\ k - 1 \in 0..n /\ ~ (k =< k - 1) /\ high - (k - 1) = high - k + 1
    BY <1>1, <2>3
  <2>5. Linking(g[k - 1], others, id, high - (k - 1))
    BY <2>2, <2>4
  <2>6. Linking(g[k], others, id, high - k)
    BY <1>8, <2>4, <2>5
  <2> QED
    BY <2>2, <2>6
<1>10. n \in 0..n /\ high - n = -1
  BY <1>1
<1> QED
  BY <1>1, <1>6, <1>9, <1>10

-----------------------------------------------------------------------------
(* The graph that is built.                                                *)

NewNode(point, level) == [vector |-> point, level |-> level, neighbors |-> [l \in 0..level |-> << >>]]

Adding(nodes, old, id, point, level) == nodes = With(old, id, NewNode(point, level))

\* A new node is not linked yet, and the others are what they were.
LEMMA NewNodes ==
    ASSUME NEW old, GoodNodes(old), NEW id \in Nat \ DOMAIN old, NEW point \in Int, NEW level \in Nat,
           NEW nodes, Adding(nodes, old, id, point, level)
    PROVE  /\ GoodNodes(nodes) /\ DOMAIN nodes = DOMAIN old \union {id}
           /\ nodes[id] = NewNode(point, level) /\ \A n \in DOMAIN old : nodes[n] = old[n]
           /\ \A k \in Nat : /\ OnLevel(nodes, k) \ {id} = OnLevel(old, k)
                             /\ id \in OnLevel(nodes, k) <=> k =< level
<1>1. DOMAIN nodes = DOMAIN old \union {id}
  BY DEF With, Adding
<1>2. PICK new : new = NewNode(point, level)
  OBVIOUS
<1>3. nodes[id] = new /\ \A n \in DOMAIN old : nodes[n] = old[n]
  BY <1>2 DEF With, Adding
<1>4. IsNode(new) /\ new.level = level /\ new.vector = point /\ \A l \in 0..level : new.neighbors[l] = << >>
  BY <1>2 DEF NewNode, IsNode
<1>5. \A k \in Nat : /\ OnLevel(nodes, k) \ {id} = OnLevel(old, k)
                     /\ id \in OnLevel(nodes, k) <=> k =< level
  BY <1>1, <1>3, <1>4 DEF OnLevel
<1>6. ASSUME NEW n \in DOMAIN nodes, NEW l \in 0..nodes[n].level
      PROVE  GoodList(nodes[n].neighbors[l], OnLevel(nodes, l), n)
  <2>1. CASE n = id
    <3>1. nodes[n].neighbors[l] = << >>
      BY <1>3, <1>4, <2>1
    <3>2. GoodList(<< >>, OnLevel(nodes, l), n)
      BY IndexAssumption DEF GoodList, Distinct
    <3> QED
      BY <3>1, <3>2
  <2>2. CASE n # id
    <3>1. n \in DOMAIN old /\ nodes[n] = old[n]
      BY <1>1, <1>3, <2>2
    <3>2. PICK list : list = nodes[n].neighbors[l] /\ GoodList(list, OnLevel(old, l), n)
      BY <3>1 DEF GoodNodes
    <3>3. l \in Nat
      OBVIOUS
    <3>4. OnLevel(old, l) \ {n} \subseteq OnLevel(nodes, l) \ {n}
      BY <1>5, <3>3
    <3>5. list \in Seq(OnLevel(nodes, l) \ {n})
      BY <3>2, <3>4, SeqMonotonic DEF GoodList
    <3>6. GoodList(list, OnLevel(nodes, l), n)
      BY <3>2, <3>5 DEF GoodList
    <3> QED
      BY <3>2, <3>6
  <2> QED
    BY <2>1, <2>2
<1>7. DOMAIN nodes \subseteq Nat /\ IsFiniteSet(DOMAIN nodes)
  <2>1. PICK all : all = DOMAIN old /\ all \subseteq Nat /\ IsFiniteSet(all)
    BY DEF GoodNodes
  <2> QED
    BY <1>1, <2>1, OneMore
<1>8. \A n \in DOMAIN nodes : IsNode(nodes[n])
  BY <1>1, <1>3, <1>4 DEF GoodNodes
<1>9. GoodNodes(nodes)
  BY <1>6, <1>7, <1>8 DEF GoodNodes
<1> QED
  BY <1>1, <1>2, <1>3, <1>5, <1>9

SoundGraph(g) ==
    /\ GoodNodes(g.nodes) /\ g.highestLevel \in Nat
    /\ g.entryID \in OnLevel(g.nodes, g.highestLevel)
    /\ \A n \in DOMAIN g.nodes : g.nodes[n].level =< g.highestLevel
    /\ Small(g.nodes) => \A k \in Nat : Complete(g.nodes, k, OnLevel(g.nodes, k))

\* g is a graph of the points of D.
GraphOf(g, D, points) ==
    /\ DOMAIN g.nodes = D /\ \A n \in D : g.nodes[n].vector = points[n]
    /\ D # {} => SoundGraph(g)

\* The search for the place of a new node ends where connecting begins.
LEMMA StartOfLinking ==
    ASSUME NEW g, SoundGraph(g), NEW id \in Nat \ DOMAIN g.nodes, NEW point \in Int, NEW level \in Nat,
           NEW nodes, Adding(nodes, g.nodes, id, point, level),
           NEW entry, entry = Descend(g.nodes, point, g.entryID, g.highestLevel, level + 1)
    PROVE  LET l == IF level =< g.highestLevel THEN level ELSE g.highestLevel
           IN  Linking([nodes |-> nodes, entry |-> entry], nodes, id, l)
<1>1. PICK old, high, l : /\ old = g.nodes /\ high = g.highestLevel
                          /\ l = IF level =< high THEN level ELSE high
  OBVIOUS
<1>2. GoodNodes(old) /\ high \in Nat /\ l \in Nat /\ \A n \in DOMAIN old : old[n].level \in Nat /\ old[n].level =< high
  BY <1>1 DEF SoundGraph, GoodNodes, IsNode
<1>3. /\ GoodNodes(nodes) /\ DOMAIN nodes = DOMAIN old \union {id}
      /\ nodes[id] = NewNode(point, level) /\ \A n \in DOMAIN old : nodes[n] = old[n]
      /\ \A k \in Nat : /\ OnLevel(nodes, k) \ {id} = OnLevel(old, k)
                        /\ id \in OnLevel(nodes, k) <=> k =< level
  <2>1. id \in Nat \ DOMAIN old /\ Adding(nodes, old, id, point, level)
    BY <1>1
  <2> QED
    BY <1>2, <2>1, NewNodes
<1>4. entry \in OnLevel(old, l)
  <2>1. Layered(old, point, level + 1, high)
    <3>1. \A k \in (level + 1)..high : k \in Nat
      OBVIOUS
    <3> QED
      BY <1>2, <3>1, GoodLayer DEF Layered
  <2>2. /\ level + 1 =< high => entry \in OnLevel(old, level + 1)
        /\ high < level + 1 => entry = g.entryID
    <3>1. g.entryID \in OnLevel(old, high) /\ level + 1 \in Nat
      BY <1>1 DEF SoundGraph
    <3> QED
      BY <1>1, <1>2, <2>1, <3>1, DescendStays
  <2>3. CASE level + 1 =< high
    <3>1. l = level /\ OnLevel(old, level + 1) \subseteq OnLevel(old, level)
      BY <1>1, <1>2, <2>3, OnLevelBelow
    <3> QED
      BY <2>2, <2>3, <3>1
  <2>4. CASE high < level + 1
    <3>1. l = high
      BY <1>1, <1>2, <2>4
    <3> QED
      BY <1>1, <2>2, <2>4, <3>1 DEF SoundGraph
  <2> QED
    BY <1>2, <2>3, <2>4
<1>5. entry \in OnLevel(nodes, l) \ {id}
  BY <1>2, <1>3, <1>4
<1>6. ASSUME NEW k \in 0..l, NEW n \in OnLevel(nodes, k) PROVE id \notin Range(nodes[n].neighbors[k])
  <2>1. CASE n = id
    <3>1. k \in 0..level
      BY <1>1, <1>2
    <3>2. nodes[n].neighbors[k] = << >>
      BY <1>3, <2>1, <3>1 DEF NewNode
    <3> QED
      BY <3>2 DEF Range
  <2>2. CASE n # id
    <3>1. n \in OnLevel(old, k) /\ k \in Nat
      BY <1>3, <2>2
    <3>2. n \in DOMAIN old /\ GoodList(old[n].neighbors[k], OnLevel(old, k), n)
      BY <1>2, <3>1, OnLevelFacts
    <3>3. Range(nodes[n].neighbors[k]) \subseteq DOMAIN old
      <4>1. PICK list : list = nodes[n].neighbors[k] /\ list \in Seq(OnLevel(old, k) \ {n})
        BY <1>3, <3>2 DEF GoodList
      <4>2. Range(list) \subseteq OnLevel(old, k) \ {n}
        BY <4>1, ListFacts
      <4> QED
        BY <4>1, <4>2 DEF OnLevel
    <3> QED
      BY <1>1, <3>3
  <2> QED
    BY <2>1, <2>2
<1>7. ASSUME Small(nodes), NEW k \in Nat
      PROVE  Complete(nodes, k, IF k > l THEN OnLevel(nodes, k) ELSE OnLevel(nodes, k) \ {id})
  <2>1. Small(old)
    <3>1. PICK all : all = DOMAIN old /\ IsFiniteSet(all)
      BY <1>2 DEF GoodNodes
    <3>2. Cardinality(all) =< Cardinality(all \union {id}) /\ Cardinality(all) \in Nat /\ Cardinality(all \union {id}) \in Nat
      BY <3>1, OneMore
    <3> QED
      BY <1>3, <1>7, <3>1, <3>2, IndexAssumption DEF Small
  <2>2. Complete(nodes, k, OnLevel(old, k))
    <3>1. Complete(old, k, OnLevel(old, k))
      BY <1>1, <2>1 DEF SoundGraph
    <3>2. \A n \in OnLevel(old, k) : nodes[n].neighbors[k] = old[n].neighbors[k]
      BY <1>3 DEF OnLevel
    <3> QED
      BY <3>1, <3>2, CompleteSame
  <2>3. CASE k > l
    <3>1. CASE level =< high
      <4>1. OnLevel(nodes, k) = OnLevel(old, k)
        <5>1. ~ (k =< level)
          BY <1>1, <1>2, <2>3, <3>1
        <5>2. PICK A, B : A = OnLevel(nodes, k) /\ B = OnLevel(old, k)
          OBVIOUS
        <5>3. A \ {id} = B /\ ~ (id \in A)
          BY <1>3, <5>1, <5>2
        <5> QED
          BY <5>2, <5>3
      <4> QED
        BY <2>2, <2>3, <4>1
    <3>2. CASE level > high
      <4>1. OnLevel(old, k) = {}
        BY <1>1, <1>2, <2>3, <3>2 DEF OnLevel
      <4>2. \A n, m \in OnLevel(nodes, k) : n = m
        BY <1>3, <4>1
      <4>3. Complete(nodes, k, OnLevel(nodes, k))
        BY <4>2 DEF Complete
      <4> QED
        BY <2>3, <4>3
    <3> QED
      BY <1>2, <3>1, <3>2
  <2>4. CASE ~ (k > l)
    <3>1. OnLevel(nodes, k) \ {id} = OnLevel(old, k)
      BY <1>3
    <3> QED
      BY <2>2, <2>4, <3>1
  <2> QED
    BY <2>3, <2>4
<1>8. PICK s : s = [nodes |-> nodes, entry |-> entry]
  OBVIOUS
<1>9. s.nodes = nodes /\ s.entry = entry /\ SameNodes(nodes, nodes)
  BY <1>8 DEF SameNodes
<1>10. Linking(s, nodes, id, l)
  BY <1>3, <1>5, <1>6, <1>7, <1>9 DEF Linking
<1> QED
  BY <1>1, <1>8, <1>10

LEMMA AddKeeps ==
    ASSUME NEW g, NEW D, NEW points, GraphOf(g, D, points), D \subseteq Nat, IsFiniteSet(D),
           NEW id \in Nat \ D, Level(id) \in Nat, points[id] \in Int
    PROVE  GraphOf(Add(g, id, points[id]), D \union {id}, points)
<1>1. PICK old, point, level, nodes :
        /\ old = g.nodes /\ point = points[id] /\ level = Level(id) /\ Adding(nodes, old, id, point, level)
  BY DEF Adding
<1>2. DOMAIN old = D /\ \A n \in D : old[n].vector = points[n]
  BY <1>1 DEF GraphOf
<1>3. GoodNodes(old)
  <2>1. CASE D = {}
    BY <1>2, <2>1, FS_EmptySet DEF GoodNodes
  <2>2. CASE D # {}
    BY <1>1, <2>2 DEF GraphOf, SoundGraph
  <2> QED
    BY <2>1, <2>2
<1>4. id \in Nat \ DOMAIN old /\ point \in Int /\ level \in Nat
  BY <1>1, <1>2
<1>5. /\ GoodNodes(nodes) /\ DOMAIN nodes = DOMAIN old \union {id}
      /\ nodes[id] = NewNode(point, level) /\ \A n \in DOMAIN old : nodes[n] = old[n]
      /\ \A k \in Nat : /\ OnLevel(nodes, k) \ {id} = OnLevel(old, k)
                        /\ id \in OnLevel(nodes, k) <=> k =< level
  <2>1. Adding(nodes, old, id, point, level)
    BY <1>1
  <2> QED
    BY <1>3, <1>4, <2>1, NewNodes
<1>6. nodes[id].vector = point /\ nodes[id].level = level
  BY <1>5 DEF NewNode
<1>7. DOMAIN nodes = D \union {id} /\ \A n \in D \union {id} : nodes[n].vector = points[n]
  BY <1>1, <1>2, <1>5, <1>6
<1>8. PICK new : new = Add(g, id, points[id])
  OBVIOUS
<1>9. nodes = With(old, id, [vector |-> point, level |-> level, neighbors |-> [l \in 0..level |-> << >>]])
  BY <1>1 DEF Adding, NewNode
<1>10. CASE D = {}
  <2>1. new = [nodes |-> nodes, entryID |-> id, highestLevel |-> level]
    BY <1>1, <1>2, <1>8, <1>9, <1>10 DEF Add
  <2>2. id \in OnLevel(nodes, level) /\ DOMAIN nodes = {id}
    BY <1>4, <1>5, <1>7, <1>10
  <2>3. \A n \in DOMAIN nodes : nodes[n].level =< level
    BY <1>4, <1>6, <2>2
  <2>4. \A k \in Nat : Complete(nodes, k, OnLevel(nodes, k))
    BY <2>2 DEF Complete, OnLevel
  <2>5. SoundGraph(new)
    BY <1>4, <1>5, <2>1, <2>2, <2>3, <2>4 DEF SoundGraph
  <2> QED
    BY <1>7, <1>8, <2>1, <2>5 DEF GraphOf
<1>11. CASE D # {}
  <2>1. SoundGraph(g)
    BY <1>11 DEF GraphOf
  <2>2. PICK high, entry : /\ high = g.highestLevel
                           /\ entry = Descend(old, point, g.entryID, high, level + 1)
    OBVIOUS
  <2>3. high \in Nat /\ \A n \in DOMAIN old : old[n].level =< high
    BY <1>1, <2>1, <2>2 DEF SoundGraph
  <2>4. PICK l, start : /\ l = (IF level =< high THEN level ELSE high)
                        /\ start = [nodes |-> nodes, entry |-> entry]
    OBVIOUS
  <2>5. Linking(start, nodes, id, l)
    <3>1. Linking([nodes |-> nodes, entry |-> entry], nodes, id, IF level =< g.highestLevel THEN level ELSE g.highestLevel)
      BY <1>1, <1>4, <2>1, <2>2, StartOfLinking
    <3> QED
      BY <2>2, <2>4, <3>1
  <2>6. l \in Nat /\ l =< level /\ l = Min({level, high})
    BY <1>4, <2>3, <2>4, TwoNumbers
  <2>7. PICK linked : linked = ConnectAll(id, start, l)
    OBVIOUS
  <2>8. Linking(linked, nodes, id, -1)
    BY <1>4, <1>5, <1>6, <2>5, <2>6, <2>7, ConnectAllLinks
  <2>9. GoodNodes(linked.nodes) /\ SameNodes(linked.nodes, nodes)
    BY <2>8 DEF Linking
  <2>10. ASSUME Small(linked.nodes), NEW k \in Nat PROVE Complete(linked.nodes, k, OnLevel(linked.nodes, k))
    <3>1. Complete(linked.nodes, k, IF k > -1 THEN OnLevel(linked.nodes, k) ELSE OnLevel(linked.nodes, k) \ {id})
      BY <2>8, <2>10 DEF Linking
    <3>2. k > -1
      OBVIOUS
    <3> QED
      BY <3>1, <3>2
  <2>11. new = [nodes |-> linked.nodes,
                entryID |-> IF level > high THEN id ELSE g.entryID,
                highestLevel |-> Max({level, high})]
    <3>1. PICK m, top : m = Min({level, g.highestLevel}) /\ top = Max({level, g.highestLevel})
      OBVIOUS
    <3>2. m = l /\ top = Max({level, high})
      BY <2>2, <2>6, <3>1
    <3>3. linked = ConnectAll(id, [nodes |-> nodes, entry |-> Descend(old, point, g.entryID, g.highestLevel, level + 1)], m)
      BY <2>2, <2>4, <2>7, <3>2
    <3>4. new = [nodes |-> linked.nodes,
                 entryID |-> IF level > g.highestLevel THEN id ELSE g.entryID,
                 highestLevel |-> top]
      BY <1>1, <1>2, <1>8, <1>9, <1>11, <3>1, <3>3 DEF Add
    <3> QED
      BY <2>2, <3>2, <3>4
  <2>12. PICK top : top = Max({level, high}) /\ top = IF level >= high THEN level ELSE high
    <3>1. PICK top : top = Max({level, high})
      OBVIOUS
    <3>2. level \in Int /\ high \in Int
      BY <1>4, <2>3
    <3>3. top = IF level >= high THEN level ELSE high
      BY <3>1, <3>2, TwoNumbers
    <3> QED
      BY <3>1, <3>3
  <2>13. \A n \in DOMAIN nodes : nodes[n].level =< top /\ nodes[n].level \in Nat
    <3>1. \A n \in DOMAIN nodes : nodes[n].level \in Nat
      BY <1>5 DEF GoodNodes, IsNode
    <3>2. \A n \in DOMAIN old : nodes[n].level =< high
      BY <1>5, <2>3
    <3> QED
      BY <1>4, <1>5, <1>6, <2>3, <2>12, <3>1, <3>2
  <2>14. new.entryID \in OnLevel(nodes, top)
    <3>1. CASE level > high
      BY <1>4, <1>5, <2>3, <2>11, <2>12, <3>1
    <3>2. CASE ~ (level > high)
      <4>1. top = high /\ new.entryID = g.entryID
        BY <1>4, <2>3, <2>11, <2>12, <3>2
      <4>2. g.entryID \in OnLevel(old, high)
        BY <1>1, <2>1, <2>2 DEF SoundGraph
      <4> QED
        BY <1>5, <2>3, <4>1, <4>2
    <3> QED
      BY <3>1, <3>2
  <2>15. new.nodes = linked.nodes /\ new.highestLevel = top
    BY <2>11, <2>12
  <2>16. DOMAIN new.nodes = DOMAIN nodes /\ \A n \in DOMAIN nodes : /\ new.nodes[n].vector = nodes[n].vector
                                                                   /\ new.nodes[n].level = nodes[n].level
    BY <2>9, <2>15 DEF SameNodes
  <2>17. new.entryID \in OnLevel(new.nodes, top) /\ \A n \in DOMAIN new.nodes : new.nodes[n].level =< top
    BY <2>13, <2>14, <2>16 DEF OnLevel
  <2>18. top \in Nat
    BY <1>4, <2>3, <2>12
  <2>19. SoundGraph(new)
    BY <2>9, <2>10, <2>15, <2>17, <2>18 DEF SoundGraph
  <2> QED
    BY <1>7, <1>8, <2>16, <2>19 DEF GraphOf
<1> QED
  BY <1>10, <1>11

\* Every number once.
IsListing(q, S) ==
    /\ Len(q) = Cardinality(S) /\ Cardinality(S) \in Nat
    /\ \A i \in 1..Cardinality(S) : q[i] \in S
    /\ \A i, j \in 1..Cardinality(S) : i < j => q[i] # q[j]
    /\ \A a \in S : \E i \in 1..Cardinality(S) : q[i] = a

LEMMA NumbersInOrder ==
    ASSUME NEW S, S \subseteq Nat, IsFiniteSet(S)
    PROVE  IsListing(Ascending(S), S)
<1>1. PICK key : key = [a \in S |-> 0]
  OBVIOUS
<1>2. IsKey(key, S) /\ \A a, b \in S : a < b <=> KeyBefore(key, a, b)
  BY <1>1 DEF IsKey, KeyBefore
<1>3. \A a \in S : {b \in S \ {a} : b < a} = Preds(key, S, a)
  BY <1>2 DEF Preds
<1>4. PICK q : q = Ascending(S)
  OBVIOUS
<1>5. q = [i \in 1..Cardinality(S) |-> CHOOSE a \in S : Cardinality({b \in S \ {a} : b < a}) = i - 1]
  BY <1>4 DEF Ascending, Sorted
<1>6. ASSUME NEW i \in 1..Cardinality(S)
      PROVE  q[i] \in S /\ Cardinality(Preds(key, S, q[i])) = i - 1
  <2>1. \E a \in S : Cardinality(Preds(key, S, a)) = i - 1
    BY <1>2, RanksFill
  <2>2. \E a \in S : Cardinality({b \in S \ {a} : b < a}) = i - 1
    BY <1>3, <2>1
  <2>3. PICK c : c = CHOOSE a \in S : Cardinality({b \in S \ {a} : b < a}) = i - 1
    OBVIOUS
  <2>4. c \in S /\ Cardinality({b \in S \ {c} : b < c}) = i - 1
    BY <2>2, <2>3
  <2>5. q[i] = c
    BY <1>5, <2>3
  <2> QED
    BY <1>3, <2>4, <2>5
<1>7. HasRanks(q, S, key)
  BY <1>6 DEF HasRanks
<1>8. IsSorting(q, S, key)
  BY <1>2, <1>7, RanksSort
<1>9. Cardinality(S) \in Nat
  BY FS_CardinalityType
<1>10. Len(q) = Cardinality(S)
  <2>1. q \in [1..Cardinality(S) -> S]
    BY <1>5, <1>6
  <2> QED
    BY <1>9, <2>1, SeqDef, LenProperties
<1>11. \A i, j \in 1..Cardinality(S) : i < j => q[i] # q[j]
  BY <1>2, <1>8, KeyStrict DEF IsSorting
<1>12. IsListing(q, S)
  BY <1>8, <1>9, <1>10, <1>11 DEF IsListing, IsSorting
<1> QED
  BY <1>4, <1>12

AddRounds(h, order, points, n) ==
    h = [i \in 0..n |-> IF i = 0 THEN EmptyGraph ELSE Add(h[i - 1], order[i], points[order[i]])]

LEMMA AddRoundsExist ==
    ASSUME NEW order, NEW points, NEW n \in Nat
    PROVE  \E h : AddRounds(h, order, points, n)
<1> DEFINE bad == {k \in 0..n : ~ \E h : AddRounds(h, order, points, k)}
<1>1. SUFFICES ASSUME bad # {} PROVE FALSE
  OBVIOUS
<1>2. PICK k \in bad : \A y \in bad : k =< y
  <2>1. bad \subseteq Nat
    OBVIOUS
  <2> HIDE DEF bad
  <2> QED
    BY <1>1, <2>1, LeastNumber
<1>3. CASE k = 0
  <2>1. PICK h : h = [i \in 0..0 |-> EmptyGraph]
    OBVIOUS
  <2>2. AddRounds(h, order, points, 0)
    BY <2>1 DEF AddRounds
  <2> QED
    BY <1>2, <1>3, <2>2
<1>4. CASE k # 0
  <2>1. k \in 1..n /\ k - 1 \in 0..n /\ ~ (k =< k - 1)
    BY <1>4
  <2>2. PICK g : AddRounds(g, order, points, k - 1)
    BY <1>2, <2>1
  <2>3. PICK h : h = [i \in 0..k |-> IF i = k THEN Add(g[k - 1], order[k], points[order[k]]) ELSE g[i]]
    OBVIOUS
  <2>4. ASSUME NEW i \in 0..k PROVE h[i] = IF i = 0 THEN EmptyGraph ELSE Add(h[i - 1], order[i], points[order[i]])
    <3>1. CASE i = k
      <4>1. h[k - 1] = g[k - 1]
        BY <2>1, <2>3
      <4> QED
        BY <2>1, <2>3, <3>1, <4>1
    <3>2. CASE i # k
      <4>1. i \in 0..(k - 1) /\ h[i] = g[i]
        BY <2>1, <2>3, <3>2
      <4>2. g[i] = IF i = 0 THEN EmptyGraph ELSE Add(g[i - 1], order[i], points[order[i]])
        BY <2>2, <4>1 DEF AddRounds
      <4>3. i # 0 => h[i - 1] = g[i - 1]
        BY <2>1, <2>3, <4>1
      <4> QED
        BY <4>1, <4>2, <4>3
    <3> QED
      BY <3>1, <3>2
  <2>5. AddRounds(h, order, points, k)
    BY <2>3, <2>4 DEF AddRounds
  <2> QED
    BY <1>2, <2>5
<1> QED
  BY <1>3, <1>4

\* Points that a graph can be built of.
IsPoints(points) ==
    /\ DOMAIN points \subseteq Nat /\ IsFiniteSet(DOMAIN points)
    /\ \A id \in DOMAIN points : points[id] \in Int /\ Level(id) \in Nat

\* A graph that is rebuilt is sound, and of the points that there are.
LEMMA RebuildGives ==
    ASSUME NEW points, IsPoints(points)
    PROVE  GraphOf(rebuildHNSW(points), DOMAIN points, points)
<1>1. PICK S, order, n : S = DOMAIN points /\ order = Ascending(S) /\ n = Len(order)
  OBVIOUS
<1>2. S \subseteq Nat /\ IsFiniteSet(S) /\ \A id \in S : points[id] \in Int /\ Level(id) \in Nat
  BY <1>1 DEF IsPoints
<1>3. /\ n = Cardinality(S) /\ n \in Nat /\ \A i \in 1..n : order[i] \in S
      /\ \A i, j \in 1..n : i < j => order[i] # order[j]
      /\ \A a \in S : \E i \in 1..n : order[i] = a
  <2>1. IsListing(order, S)
    BY <1>1, <1>2, NumbersInOrder
  <2> QED
    BY <1>1, <2>1 DEF IsListing
<1> DEFINE P(x) == x = [i \in 0..Len(order) |->
                          IF i = 0 THEN EmptyGraph ELSE Add(x[i - 1], order[i], points[order[i]])]
<1>4. PICK h : P(h)
  <2>1. PICK h : AddRounds(h, order, points, n)
    BY <1>3, AddRoundsExist
  <2>2. P(h)
    BY <1>1, <2>1 DEF AddRounds
  <2> QED
    BY <2>2
<1>5. PICK g : g = CHOOSE x : P(x)
  OBVIOUS
<1>6. P(g)
  BY <1>4, <1>5
<1>7. rebuildHNSW(points) = g[n]
  BY <1>1, <1>5 DEF rebuildHNSW
<1>8. g[0] = EmptyGraph /\ \A i \in 1..n : g[i] = Add(g[i - 1], order[i], points[order[i]])
  <2>1. g = [i \in 0..n |-> IF i = 0 THEN EmptyGraph ELSE Add(g[i - 1], order[i], points[order[i]])]
    BY <1>1, <1>6
  <2> HIDE DEF P
  <2>2. 0 \in 0..n /\ \A i \in 1..n : i \in 0..n /\ i # 0
    BY <1>3
  <2> QED
    BY <2>1, <2>2
<1> HIDE DEF P
<1> DEFINE upto(i) == {order[j] : j \in 1..i}
<1>9. ASSUME NEW i \in 1..n, GraphOf(g[i - 1], upto(i - 1), points)
      PROVE  GraphOf(g[i], upto(i), points)
  <2>1. PICK D, id, before : D = upto(i - 1) /\ id = order[i] /\ before = g[i - 1]
    OBVIOUS
  <2>2. D \subseteq S /\ IsFiniteSet(D)
    <3>1. D \subseteq S
      BY <1>3, <2>1
    <3>2. D \in SUBSET S
      BY <3>1
    <3> QED
      BY <1>2, <3>2, FS_Subset
  <2>3. id \in S /\ id \notin D
    BY <1>3, <2>1
  <2>4. upto(i) = D \union {id}
    <3>1. \A j \in 1..i : j \in 1..(i - 1) \/ j = i
      BY <1>3
    <3>2. i \in 1..i /\ \A j \in 1..(i - 1) : j \in 1..i
      BY <1>3
    <3> QED
      BY <2>1, <3>1, <3>2
  <2> HIDE DEF upto
  <2>5. GraphOf(before, D, points)
    BY <1>9, <2>1
  <2>6. id \in Nat \ D /\ Level(id) \in Nat /\ points[id] \in Int /\ D \subseteq Nat
    BY <1>2, <2>2, <2>3
  <2>7. GraphOf(Add(before, id, points[id]), D \union {id}, points)
    BY <2>2, <2>5, <2>6, AddKeeps
  <2> QED
    BY <1>8, <2>1, <2>4, <2>7
<1>10. GraphOf(g[0], upto(0), points)
  <2>1. upto(0) = {}
    OBVIOUS
  <2>2. DOMAIN EmptyGraph.nodes = {}
    BY DEF EmptyGraph, Empty
  <2>3. GraphOf(EmptyGraph, {}, points)
    BY <2>2 DEF GraphOf
  <2> QED
    BY <1>8, <2>1, <2>3
<1> DEFINE good(i) == GraphOf(g[i], upto(i), points)
           bad == {i \in 0..n : ~ good(i)}
<1>11. bad = {}
  <2>1. good(0)
    BY <1>10
  <2>2. ASSUME NEW i \in 1..n, good(i - 1) PROVE good(i)
    BY <1>9, <2>2
  <2> HIDE DEF good
  <2>3. SUFFICES ASSUME bad # {} PROVE FALSE
    OBVIOUS
  <2>4. PICK k \in bad : \A y \in bad : k =< y
    <3>1. bad \subseteq Nat
      OBVIOUS
    <3> HIDE DEF bad
    <3> QED
      BY <2>3, <3>1, LeastNumber
  <2>5. k # 0
    BY <2>1, <2>4
  <2>6. k \in 1..n /\ k - 1 \in 0..n /\ ~ (k =< k - 1)
    BY <1>3, <2>5
  <2>7. good(k - 1)
    BY <2>4, <2>6
  <2> QED
    BY <2>2, <2>4, <2>6, <2>7
<1>12. upto(n) = S
  BY <1>3
<1>13. good(n)
  <2>1. n \in 0..n
    BY <1>3
  <2> HIDE DEF good
  <2> QED
    BY <1>11, <2>1
<1> QED
  BY <1>1, <1>7, <1>12, <1>13

-----------------------------------------------------------------------------
(* The lexical index of some documents.                                    *)

IsDocs(docs) ==
    /\ docs = [id \in DOMAIN docs |-> docs[id]]
    /\ DOMAIN docs \subseteq Ids /\ \A id \in DOMAIN docs : docs[id] \in Contents

TermsIn(docs) == UNION {TermsOf(docs[id]) : id \in DOMAIN docs}
Having(docs, t) == {i \in DOMAIN docs : t \in TermsOf(docs[i])}
PostingsOf(docs) == [t \in TermsIn(docs) |-> [id \in Having(docs, t) |-> PostingOf(t, docs[id])]]

LEMMA TermsInIs ==
    ASSUME NEW docs, NEW t
    PROVE  t \in TermsIn(docs) <=> Having(docs, t) # {}
  BY DEF TermsIn, Having

LEMMA WithoutIs ==
    ASSUME NEW f, NEW id
    PROVE  /\ DOMAIN Without(f, id) = DOMAIN f \ {id}
           /\ \A i \in DOMAIN f \ {id} : Without(f, id)[i] = f[i]
           /\ Without(f, id) = [i \in DOMAIN f \ {id} |-> f[i]]
  BY DEF Without, Restrict

LEMMA WithIs ==
    ASSUME NEW f, NEW id, NEW value
    PROVE  /\ DOMAIN With(f, id, value) = DOMAIN f \union {id}
           /\ With(f, id, value)[id] = value
           /\ \A i \in DOMAIN f : i # id => With(f, id, value)[i] = f[i]
           /\ With(f, id, value) = [i \in DOMAIN f \union {id} |-> IF i = id THEN value ELSE f[i]]
  BY DEF With

\* The postings that a deletion leaves.
Withdrawn(p, terms, id) == [t \in DOMAIN p |-> IF t \in terms THEN Without(p[t], id) ELSE p[t]]
Occupied(p) == Restrict(p, {t \in DOMAIN p : DOMAIN p[t] # {}})

LEMMA DeletePostings ==
    ASSUME NEW docs, NEW id \in DOMAIN docs, NEW d2, d2 = Without(docs, id)
    PROVE  Occupied(Withdrawn(PostingsOf(docs), TermsOf(docs[id]), id)) = PostingsOf(d2)
<1>1. PICK p, w : p = PostingsOf(docs) /\ w = Withdrawn(p, TermsOf(docs[id]), id)
  OBVIOUS
<1>2. DOMAIN d2 = DOMAIN docs \ {id} /\ \A i \in DOMAIN d2 : d2[i] = docs[i]
  BY DEF Without, Restrict
<1>3. \A t : Having(d2, t) = Having(docs, t) \ {id}
  BY <1>2 DEF Having
<1>4. ASSUME NEW t \in TermsIn(docs)
      PROVE  /\ w[t] = [i \in Having(d2, t) |-> PostingOf(t, d2[i])]
             /\ DOMAIN w[t] = Having(d2, t)
  <2>1. PICK H : H = Having(docs, t)
    OBVIOUS
  <2>2. \A i \in H \ {id} : d2[i] = docs[i]
    BY <1>2, <2>1 DEF Having
  <2>3. PICK pt : pt = p[t] /\ pt = [i \in H |-> PostingOf(t, docs[i])]
    BY <1>1, <2>1 DEF PostingsOf
  <2>4. w[t] = IF t \in TermsOf(docs[id]) THEN Without(pt, id) ELSE pt
    BY <1>1, <2>3 DEF Withdrawn, PostingsOf
  <2>5. w[t] = [i \in H \ {id} |-> PostingOf(t, docs[i])]
    <3>1. CASE t \in TermsOf(docs[id])
      <4>1. Without(pt, id) = [i \in DOMAIN pt \ {id} |-> pt[i]]
        BY WithoutIs
      <4>2. DOMAIN pt = H /\ \A i \in H : pt[i] = PostingOf(t, docs[i])
        BY <2>3
      <4> QED
        BY <2>4, <3>1, <4>1, <4>2
    <3>2. CASE t \notin TermsOf(docs[id])
      <4>1. H \ {id} = H
        BY <2>1, <3>2 DEF Having
      <4> QED
        BY <2>3, <2>4, <3>2, <4>1
    <3> QED
      BY <3>1, <3>2
  <2>6. w[t] = [i \in H \ {id} |-> PostingOf(t, d2[i])]
    BY <2>2, <2>5
  <2>7. Having(d2, t) = H \ {id}
    BY <1>3, <2>1
  <2> QED
    BY <2>6, <2>7
<1>5. DOMAIN w = TermsIn(docs)
  BY <1>1 DEF Withdrawn, PostingsOf
<1>6. {t \in DOMAIN w : DOMAIN w[t] # {}} = TermsIn(d2)
  <2>1. ASSUME NEW t \in TermsIn(d2) PROVE t \in TermsIn(docs) /\ Having(d2, t) # {}
    BY <1>3, TermsInIs
  <2>2. \A t \in TermsIn(docs) : Having(d2, t) # {} => t \in TermsIn(d2)
    BY TermsInIs
  <2> QED
    BY <1>4, <1>5, <2>1, <2>2
<1>7. TermsIn(d2) \subseteq TermsIn(docs)
  BY <1>5, <1>6
<1>8. Occupied(w) = [t \in TermsIn(d2) |-> w[t]]
  BY <1>6 DEF Occupied, Restrict
<1>9. \A t \in TermsIn(d2) : w[t] = [i \in Having(d2, t) |-> PostingOf(t, d2[i])]
  BY <1>4, <1>7
<1>10. Occupied(w) = PostingsOf(d2)
  BY <1>8, <1>9 DEF PostingsOf
<1> QED
  BY <1>1, <1>10

\* The postings that a new document makes of those of the others.
Posted(p, terms, id, content) ==
    [t \in DOMAIN p \union terms |->
        IF t \in terms THEN With(At(p, t, Empty), id, PostingOf(t, content)) ELSE p[t]]

LEMMA AddPostings ==
    ASSUME NEW docs, NEW id, id \notin DOMAIN docs, NEW content, NEW d2, d2 = With(docs, id, content)
    PROVE  Posted(PostingsOf(docs), TermsOf(content), id, content) = PostingsOf(d2)
<1>1. PICK p, terms, w : p = PostingsOf(docs) /\ terms = TermsOf(content) /\ w = Posted(p, terms, id, content)
  OBVIOUS
<1>2. DOMAIN d2 = DOMAIN docs \union {id} /\ d2[id] = content /\ \A i \in DOMAIN docs : d2[i] = docs[i]
  BY DEF With
<1>3. \A t : Having(d2, t) = IF t \in terms THEN Having(docs, t) \union {id} ELSE Having(docs, t)
  BY <1>1, <1>2 DEF Having
<1>4. TermsIn(d2) = TermsIn(docs) \union terms
  BY <1>1, <1>2 DEF TermsIn
<1>5. w = [t \in TermsIn(d2) |->
             IF t \in terms THEN With(At(p, t, Empty), id, PostingOf(t, content)) ELSE p[t]]
  BY <1>1, <1>4 DEF Posted, PostingsOf
<1>6. ASSUME NEW t \in TermsIn(d2)
      PROVE  w[t] = [i \in Having(d2, t) |-> PostingOf(t, d2[i])]
  <2>1. PICK H : H = Having(docs, t)
    OBVIOUS
  <2>2. id \notin H /\ \A i \in H : d2[i] = docs[i]
    BY <1>2, <2>1 DEF Having
  <2>3. CASE t \in terms
    <3>1. PICK pt : pt = At(p, t, Empty)
      OBVIOUS
    <3>2. DOMAIN pt = H /\ \A i \in H : pt[i] = PostingOf(t, docs[i])
      <4>1. CASE t \in TermsIn(docs)
        <5>1. pt = [i \in H |-> PostingOf(t, docs[i])]
          BY <1>1, <2>1, <3>1, <4>1 DEF At, PostingsOf
        <5> QED
          BY <5>1
      <4>2. CASE t \notin TermsIn(docs)
        <5>1. pt = Empty
          BY <1>1, <3>1, <4>2 DEF At, PostingsOf
        <5>2. H = {} /\ DOMAIN pt = {}
          BY <2>1, <4>2, <5>1, TermsInIs DEF Empty
        <5> QED
          BY <5>2
      <4> QED
        BY <4>1, <4>2
    <3>3. w[t] = With(pt, id, PostingOf(t, content))
      BY <1>5, <2>3, <3>1
    <3>4. w[t] = [i \in H \union {id} |-> IF i = id THEN PostingOf(t, content) ELSE pt[i]]
      <4>1. PICK x : x = PostingOf(t, content)
        OBVIOUS
      <4>2. With(pt, id, x) = [i \in H \union {id} |-> IF i = id THEN x ELSE pt[i]]
        BY <3>2 DEF With
      <4> QED
        BY <3>3, <4>1, <4>2
    <3>5. \A i \in H \union {id} : (IF i = id THEN PostingOf(t, content) ELSE pt[i]) = PostingOf(t, d2[i])
      BY <1>2, <2>2, <3>2
    <3>6. Having(d2, t) = H \union {id}
      BY <1>3, <2>1, <2>3
    <3> QED
      BY <3>4, <3>5, <3>6
  <2>4. CASE t \notin terms
    <3>1. t \in TermsIn(docs) /\ w[t] = p[t]
      BY <1>4, <1>5, <2>4
    <3>2. p[t] = [i \in H |-> PostingOf(t, docs[i])]
      BY <1>1, <2>1, <3>1 DEF PostingsOf
    <3>3. Having(d2, t) = H
      BY <1>3, <2>1, <2>4
    <3> QED
      BY <2>2, <3>1, <3>2, <3>3
  <2> QED
    BY <2>3, <2>4
<1>7. w = PostingsOf(d2)
  BY <1>5, <1>6 DEF PostingsOf
<1> QED
  BY <1>1, <1>7

-----------------------------------------------------------------------------
(* The totals.                                                             *)

LEMMA SumMore ==
    ASSUME NEW S, IsFiniteSet(S), NEW id, id \notin S, NEW f, NEW h,
           \A n \in S : f[n] \in Nat /\ f[n] = h[n], h[id] \in Nat,
           NEW T, T = S \union {id}, NEW g, Adds(g, f, S), NEW k, Adds(k, h, T)
    PROVE  g[S] \in Nat /\ k[T] = g[S] + h[id]
<1>1. IsFiniteSet(T) /\ \A n \in T : h[n] \in Nat
  BY OneMore
<1>2. k[T] = k[T \ {id}] + h[id]
  BY <1>1, AddsAnyOrder
<1>3. T \ {id} = S
  OBVIOUS
<1>4. g[S] = k[S]
  BY AddsAgree
<1>5. g[S] \in Nat
  BY AddsAnyOrder
<1> QED
  BY <1>2, <1>3, <1>4, <1>5

\* The sum as MapThenSumSet makes it.
SumsUp(c, f, S) == c = [s \in SUBSET S |-> IF s = {} THEN 0 ELSE f[Pick(s)] + c[s \ {Pick(s)}]]

LEMMA SumsAdd ==
    ASSUME NEW S, IsFiniteSet(S), NEW f, \A n \in S : f[n] \in Nat, NEW c
    PROVE  SumsUp(c, f, S) <=> Adds(c, f, S)
<1>1. SUFFICES ASSUME SumsUp(c, f, S) \/ Adds(c, f, S) PROVE SumsUp(c, f, S) <=> Adds(c, f, S)
  OBVIOUS
<1>2. c[{}] = 0
  BY <1>1 DEF SumsUp, Adds, AddsOn
<1>3. ASSUME NEW s \in SUBSET S, s # {}
      PROVE  \/ c[s] = f[Pick(s)] + c[s \ {Pick(s)}]
             \/ c[s] = c[s \ {Pick(s)}] + f[Pick(s)]
  BY <1>1, <1>3 DEF SumsUp, Adds, AddsOn
<1>4. ASSUME NEW s \in SUBSET S, s # {} PROVE f[Pick(s)] \in Nat /\ s \ {Pick(s)} \in SUBSET S /\ s \ {Pick(s)} # s
  <2>1. Pick(s) \in s
    BY <1>4, PickIsOne
  <2> QED
    BY <2>1
<1> DEFINE bad == {s \in SUBSET S : ~ (c[s] \in Nat)}
<1>5. bad = {}
  <2>1. SUFFICES ASSUME bad # {} PROVE FALSE
    OBVIOUS
  <2>2. PICK s \in bad : \A u \in bad : u \subseteq s => u = s
    <3>1. bad \subseteq SUBSET S
      OBVIOUS
    <3> HIDE DEF bad
    <3> QED
      BY <2>1, <3>1, SmallestSet
  <2>3. s \in SUBSET S /\ ~ (c[s] \in Nat)
    BY <2>2
  <2>4. s # {}
    BY <1>2, <2>3
  <2>5. PICK u : u = s \ {Pick(s)} /\ u \in SUBSET S /\ u # s /\ u \subseteq s
    BY <1>4, <2>3, <2>4
  <2>6. c[u] \in Nat
    BY <2>2, <2>5
  <2>7. PICK x : x = f[Pick(s)] /\ x \in Nat
    BY <1>4, <2>3, <2>4
  <2>8. c[s] = x + c[u] \/ c[s] = c[u] + x
    BY <1>3, <2>3, <2>4, <2>5, <2>7
  <2> QED
    BY <2>3, <2>6, <2>7, <2>8
<1>6. ASSUME NEW s \in SUBSET S, s # {}
      PROVE  f[Pick(s)] + c[s \ {Pick(s)}] = c[s \ {Pick(s)}] + f[Pick(s)]
  <2>1. PICK x, y : x = f[Pick(s)] /\ y = c[s \ {Pick(s)}] /\ x \in Nat /\ y \in Nat
    <3>1. PICK u : u = s \ {Pick(s)} /\ u \in SUBSET S
      BY <1>4, <1>6
    <3>2. c[u] \in Nat
      BY <1>5, <3>1
    <3> QED
      BY <1>4, <1>6, <3>1, <3>2
  <2>2. x + y = y + x
    BY <2>1
  <2> QED
    BY <2>1, <2>2
<1> QED
  BY <1>6 DEF SumsUp, Adds, AddsOn

TitleSum(docs) == MapThenSumSet(LAMBDA id : Len(docs[id].title), DOMAIN docs)
BodySum(docs) == MapThenSumSet(LAMBDA id : Len(docs[id].body), DOMAIN docs)
TitleLengths(docs) == [id \in DOMAIN docs |-> Len(docs[id].title)]
BodyLengths(docs) == [id \in DOMAIN docs |-> Len(docs[id].body)]

HasLengths(docs) ==
    /\ IsFiniteSet(DOMAIN docs)
    /\ \A id \in DOMAIN docs : Len(docs[id].title) \in Nat /\ Len(docs[id].body) \in Nat

LEMMA TitlesAdd ==
    ASSUME NEW docs, HasLengths(docs)
    PROVE  \E g : Adds(g, TitleLengths(docs), DOMAIN docs) /\ TitleSum(docs) = g[DOMAIN docs]
<1> DEFINE S == DOMAIN docs
           P(it) == it = [s \in SUBSET S |->
                            IF s = {} THEN 0 ELSE Len(docs[Pick(s)].title) + it[s \ {Pick(s)}]]
<1>1. IsFiniteSet(S) /\ \A n \in S : TitleLengths(docs)[n] \in Nat
  BY DEF TitleLengths, HasLengths
<1>2. ASSUME NEW s \in SUBSET S, s # {}
      PROVE  TitleLengths(docs)[Pick(s)] = Len(docs[Pick(s)].title)
  <2>1. Pick(s) \in S
    BY <1>2, PickIsOne
  <2> QED
    BY <2>1 DEF TitleLengths
<1>3. ASSUME NEW it PROVE P(it) <=> Adds(it, TitleLengths(docs), S)
  <2>1. SumsUp(it, TitleLengths(docs), S) <=> Adds(it, TitleLengths(docs), S)
    BY <1>1, SumsAdd
  <2> HIDE DEF S
  <2>2. P(it) <=> SumsUp(it, TitleLengths(docs), S)
    BY <1>2 DEF SumsUp
  <2> QED
    BY <2>1, <2>2
<1>4. \E it : P(it)
  <2>1. \E it : Adds(it, TitleLengths(docs), S)
    BY <1>1, AddsExists
  <2> QED
    BY <1>3, <2>1
<1>5. PICK g : g = CHOOSE it : P(it)
  OBVIOUS
<1>6. P(g)
  BY <1>4, <1>5
<1>7. TitleSum(docs) = g[S]
  BY <1>5 DEF TitleSum, MapThenSumSet, MapThenFoldSet, Pick
<1> QED
  BY <1>3, <1>6, <1>7

LEMMA BodiesAdd ==
    ASSUME NEW docs, HasLengths(docs)
    PROVE  \E g : Adds(g, BodyLengths(docs), DOMAIN docs) /\ BodySum(docs) = g[DOMAIN docs]
<1> DEFINE S == DOMAIN docs
           P(it) == it = [s \in SUBSET S |->
                            IF s = {} THEN 0 ELSE Len(docs[Pick(s)].body) + it[s \ {Pick(s)}]]
<1>1. IsFiniteSet(S) /\ \A n \in S : BodyLengths(docs)[n] \in Nat
  BY DEF BodyLengths, HasLengths
<1>2. ASSUME NEW s \in SUBSET S, s # {}
      PROVE  BodyLengths(docs)[Pick(s)] = Len(docs[Pick(s)].body)
  <2>1. Pick(s) \in S
    BY <1>2, PickIsOne
  <2> QED
    BY <2>1 DEF BodyLengths
<1>3. ASSUME NEW it PROVE P(it) <=> Adds(it, BodyLengths(docs), S)
  <2>1. SumsUp(it, BodyLengths(docs), S) <=> Adds(it, BodyLengths(docs), S)
    BY <1>1, SumsAdd
  <2> HIDE DEF S
  <2>2. P(it) <=> SumsUp(it, BodyLengths(docs), S)
    BY <1>2 DEF SumsUp
  <2> QED
    BY <2>1, <2>2
<1>4. \E it : P(it)
  <2>1. \E it : Adds(it, BodyLengths(docs), S)
    BY <1>1, AddsExists
  <2> QED
    BY <1>3, <2>1
<1>5. PICK g : g = CHOOSE it : P(it)
  OBVIOUS
<1>6. P(g)
  BY <1>4, <1>5
<1>7. BodySum(docs) = g[S]
  BY <1>5 DEF BodySum, MapThenSumSet, MapThenFoldSet, Pick
<1> QED
  BY <1>3, <1>6, <1>7

\* A document adds its lengths to the totals.
LEMMA TotalsGrow ==
    ASSUME NEW docs, NEW d2, HasLengths(d2), NEW id \in DOMAIN d2, docs = Without(d2, id)
    PROVE  /\ TitleSum(docs) \in Nat /\ TitleSum(d2) = TitleSum(docs) + Len(d2[id].title)
           /\ BodySum(docs) \in Nat /\ BodySum(d2) = BodySum(docs) + Len(d2[id].body)
<1>1. PICK S, T : S = DOMAIN docs /\ T = DOMAIN d2
  OBVIOUS
<1>2. S = T \ {id} /\ \A i \in S : docs[i] = d2[i]
  <2>1. DOMAIN docs = DOMAIN d2 \ {id} /\ \A i \in DOMAIN docs : docs[i] = d2[i]
    BY DEF Without, Restrict
  <2> QED
    BY <1>1, <2>1
<1>3. IsFiniteSet(T) /\ IsFiniteSet(S)
  <2>1. IsFiniteSet(T)
    BY <1>1 DEF HasLengths
  <2> QED
    BY <1>2, <2>1, OneMore
<1>4. HasLengths(docs)
  BY <1>1, <1>2, <1>3 DEF HasLengths
<1>5. T = S \union {id} /\ id \notin S
  BY <1>1, <1>2
<1>6. PICK f, h : f = TitleLengths(docs) /\ h = TitleLengths(d2)
  OBVIOUS
<1>7. PICK g : Adds(g, f, S) /\ TitleSum(docs) = g[S]
  BY <1>1, <1>4, <1>6, TitlesAdd
<1>8. PICK k : Adds(k, h, T) /\ TitleSum(d2) = k[T]
  BY <1>1, <1>6, TitlesAdd
<1>9. (\A n \in S : f[n] \in Nat /\ f[n] = h[n]) /\ h[id] \in Nat /\ h[id] = Len(d2[id].title)
  BY <1>1, <1>2, <1>6 DEF TitleLengths, HasLengths
<1>10. g[S] \in Nat /\ k[T] = g[S] + h[id]
  BY <1>3, <1>5, <1>7, <1>8, <1>9, SumMore
<1>11. PICK fb, hb : fb = BodyLengths(docs) /\ hb = BodyLengths(d2)
  OBVIOUS
<1>12. PICK gb : Adds(gb, fb, S) /\ BodySum(docs) = gb[S]
  BY <1>1, <1>4, <1>11, BodiesAdd
<1>13. PICK kb : Adds(kb, hb, T) /\ BodySum(d2) = kb[T]
  BY <1>1, <1>11, BodiesAdd
<1>14. (\A n \in S : fb[n] \in Nat /\ fb[n] = hb[n]) /\ hb[id] \in Nat /\ hb[id] = Len(d2[id].body)
  BY <1>1, <1>2, <1>11 DEF BodyLengths, HasLengths
<1>15. gb[S] \in Nat /\ kb[T] = gb[S] + hb[id]
  BY <1>3, <1>5, <1>12, <1>13, <1>14, SumMore
<1> QED
  BY <1>7, <1>8, <1>9, <1>10, <1>12, <1>13, <1>14, <1>15

LEMMA TotalsOfNone ==
    ASSUME NEW docs, DOMAIN docs = {}
    PROVE  TitleSum(docs) = 0 /\ BodySum(docs) = 0
<1>1. HasLengths(docs)
  BY FS_EmptySet DEF HasLengths
<1>2. PICK g : Adds(g, TitleLengths(docs), {}) /\ TitleSum(docs) = g[{}]
  BY <1>1, TitlesAdd
<1>3. PICK k : Adds(k, BodyLengths(docs), {}) /\ BodySum(docs) = k[{}]
  BY <1>1, BodiesAdd
<1> QED
  BY <1>2, <1>3 DEF Adds, AddsOn

\* index is the lexical index of docs.
LexicalIs(index, docs) ==
    /\ index = [documents |-> index.documents, postings |-> index.postings,
                documentTerms |-> index.documentTerms, lengths |-> index.lengths,
                totalTitleTerms |-> index.totalTitleTerms, totalBodyTerms |-> index.totalBodyTerms]
    /\ index.documents = docs
    /\ index.postings = PostingsOf(docs)
    /\ index.documentTerms = [id \in DOMAIN docs |-> TermsOf(docs[id])]
    /\ index.lengths = [id \in DOMAIN docs |-> [title |-> Len(docs[id].title), body |-> Len(docs[id].body)]]
    /\ index.totalTitleTerms = TitleSum(docs) /\ index.totalBodyTerms = BodySum(docs)

LEMMA DocsHaveLengths ==
    ASSUME NEW docs, IsDocs(docs)
    PROVE  HasLengths(docs)
<1>1. IsFiniteSet(Ids) /\ DOMAIN docs \in SUBSET Ids
  BY IndexAssumption DEF IsDocs
<1>2. IsFiniteSet(DOMAIN docs)
  BY <1>1, FS_Subset
<1>3. ASSUME NEW id \in DOMAIN docs PROVE Len(docs[id].title) \in Nat /\ Len(docs[id].body) \in Nat
  <2>1. PICK c : c = docs[id] /\ c.title \in Seq(STRING) /\ c.body \in Seq(STRING)
    BY IndexAssumption DEF IsDocs
  <2> QED
    BY <2>1, LenProperties
<1> QED
  BY <1>2, <1>3 DEF HasLengths

LEMMA WithoutDocs ==
    ASSUME NEW docs, IsDocs(docs), NEW id
    PROVE  /\ IsDocs(Without(docs, id))
           /\ id \notin DOMAIN docs => Without(docs, id) = docs
<1>1. PICK d2 : d2 = Without(docs, id)
  OBVIOUS
<1>2. DOMAIN d2 = DOMAIN docs \ {id} /\ (\A i \in DOMAIN d2 : d2[i] = docs[i])
      /\ d2 = [i \in DOMAIN docs \ {id} |-> docs[i]]
  <2>1. DOMAIN d2 = DOMAIN docs \ {id} /\ \A i \in DOMAIN d2 : d2[i] = docs[i]
    BY <1>1 DEF Without, Restrict
  <2>2. Without(docs, id) = [i \in DOMAIN docs \ {id} |-> docs[i]]
    BY WithoutIs
  <2> QED
    BY <1>1, <2>1, <2>2
<1>3. IsDocs(d2)
  BY <1>2 DEF IsDocs
<1>4. ASSUME id \notin DOMAIN docs PROVE d2 = docs
  <2>1. DOMAIN docs \ {id} = DOMAIN docs
    BY <1>4
  <2> QED
    BY <1>2, <2>1 DEF IsDocs
<1> QED
  BY <1>1, <1>3, <1>4

\* A deletion leaves the index of the other documents.
LEMMA DeleteLexical ==
    ASSUME NEW index, NEW docs, IsDocs(docs), LexicalIs(index, docs), NEW id
    PROVE  LexicalIs(deleteLocked(index, id), Without(docs, id))
<1>1. PICK d2, after : d2 = Without(docs, id) /\ after = deleteLocked(index, id)
  OBVIOUS
<1>2. CASE id \notin DOMAIN docs
  <2>1. d2 = docs
    BY <1>1, <1>2, WithoutDocs
  <2>2. after = index
    BY <1>1, <1>2 DEF deleteLocked, LexicalIs
  <2> QED
    BY <1>1, <2>1, <2>2
<1>3. CASE id \in DOMAIN docs
  <2>1. PICK p, terms, w : /\ p = PostingsOf(docs) /\ terms = TermsOf(docs[id])
                           /\ w = Occupied(Withdrawn(p, terms, id))
    OBVIOUS
  <2>2. index.documentTerms[id] = terms /\ index.lengths[id].title = Len(docs[id].title)
        /\ index.lengths[id].body = Len(docs[id].body)
    BY <1>3, <2>1 DEF LexicalIs
  <2>3. after = [documents |-> Without(index.documents, id), postings |-> w,
                 documentTerms |-> Without(index.documentTerms, id), lengths |-> Without(index.lengths, id),
                 totalTitleTerms |-> index.totalTitleTerms - index.lengths[id].title,
                 totalBodyTerms |-> index.totalBodyTerms - index.lengths[id].body]
    <3>1. id \in DOMAIN index.documents /\ index.postings = p
      BY <1>3, <2>1 DEF LexicalIs
    <3>2. w = LET without == [t \in DOMAIN index.postings |->
                                 IF t \in index.documentTerms[id]
                                 THEN Without(index.postings[t], id) ELSE index.postings[t]]
              IN  Restrict(without, {t \in DOMAIN without : DOMAIN without[t] # {}})
      BY <2>1, <2>2, <3>1 DEF Occupied, Withdrawn
    <3> QED
      BY <1>1, <3>1, <3>2 DEF deleteLocked, LexicalIs
  <2>4. w = PostingsOf(d2)
    BY <1>1, <1>3, <2>1, DeletePostings
  <2>5. DOMAIN d2 = DOMAIN docs \ {id} /\ \A i \in DOMAIN d2 : d2[i] = docs[i]
    <3>1. d2 = Without(docs, id)
      BY <1>1
    <3> QED
      BY <3>1 DEF Without, Restrict
  <2>6. Without(index.documentTerms, id) = [i \in DOMAIN d2 |-> TermsOf(d2[i])]
    <3>1. PICK f : f = index.documentTerms /\ f = [i \in DOMAIN docs |-> TermsOf(docs[i])]
      BY DEF LexicalIs
    <3>2. Without(f, id) = [i \in DOMAIN f \ {id} |-> f[i]]
      BY WithoutIs
    <3>3. \A i \in DOMAIN d2 : f[i] = TermsOf(d2[i])
      BY <2>5, <3>1
    <3>4. DOMAIN f \ {id} = DOMAIN d2
      BY <2>5, <3>1
    <3> QED
      BY <3>1, <3>2, <3>3, <3>4
  <2>7. Without(index.lengths, id)
          = [i \in DOMAIN d2 |-> [title |-> Len(d2[i].title), body |-> Len(d2[i].body)]]
    <3>1. PICK f : f = index.lengths
                   /\ f = [i \in DOMAIN docs |-> [title |-> Len(docs[i].title), body |-> Len(docs[i].body)]]
      BY DEF LexicalIs
    <3>2. Without(f, id) = [i \in DOMAIN f \ {id} |-> f[i]]
      BY WithoutIs
    <3>3. \A i \in DOMAIN d2 : f[i] = [title |-> Len(d2[i].title), body |-> Len(d2[i].body)]
      BY <2>5, <3>1
    <3>4. DOMAIN f \ {id} = DOMAIN d2
      BY <2>5, <3>1
    <3> QED
      BY <3>1, <3>2, <3>3, <3>4
  <2>8. HasLengths(docs)
    BY DocsHaveLengths
  <2>9. /\ TitleSum(d2) \in Nat /\ TitleSum(docs) = TitleSum(d2) + Len(docs[id].title)
        /\ BodySum(d2) \in Nat /\ BodySum(docs) = BodySum(d2) + Len(docs[id].body)
    BY <1>1, <1>3, <2>8, TotalsGrow
  <2>10. Len(docs[id].title) \in Nat /\ Len(docs[id].body) \in Nat
    BY <1>3, <2>8 DEF HasLengths
  <2>11. /\ index.totalTitleTerms - index.lengths[id].title = TitleSum(d2)
         /\ index.totalBodyTerms - index.lengths[id].body = BodySum(d2)
    <3>1. index.totalTitleTerms = TitleSum(docs) /\ index.totalBodyTerms = BodySum(docs)
      BY DEF LexicalIs
    <3>2. PICK a, b, t, u : /\ a = Len(docs[id].title) /\ b = Len(docs[id].body)
                            /\ t = TitleSum(d2) /\ u = BodySum(d2)
                            /\ a \in Nat /\ b \in Nat /\ t \in Nat /\ u \in Nat
      BY <2>9, <2>10
    <3>3. (t + a) - a = t /\ (u + b) - b = u
      BY <3>2
    <3>4. index.totalTitleTerms = t + a /\ index.totalBodyTerms = u + b
      BY <2>9, <3>1, <3>2
    <3>5. index.lengths[id].title = a /\ index.lengths[id].body = b
      BY <2>2, <3>2
    <3> QED
      BY <3>2, <3>3, <3>4, <3>5
  <2>12. Without(index.documents, id) = d2
    BY <1>1 DEF LexicalIs
  <2>13. LexicalIs(after, d2)
    BY <2>3, <2>4, <2>6, <2>7, <2>11, <2>12 DEF LexicalIs
  <2> QED
    BY <1>1, <2>13
<1> QED
  BY <1>2, <1>3

LEMMA UpsertLexical ==
    ASSUME NEW index, NEW docs, IsDocs(docs), LexicalIs(index, docs), NEW id \in Ids, NEW content \in Contents
    PROVE  LexicalIs(LexicalUpsert(index, id, content), With(docs, id, content)) /\ IsDocs(With(docs, id, content))
<1>1. PICK d1, kept : d1 = Without(docs, id) /\ kept = deleteLocked(index, id)
  OBVIOUS
<1>2. IsDocs(d1) /\ LexicalIs(kept, d1)
  BY <1>1, WithoutDocs, DeleteLexical
<1>3. PICK d2, after : d2 = With(docs, id, content) /\ after = LexicalUpsert(index, id, content)
  OBVIOUS
<1>4. DOMAIN d1 = DOMAIN docs \ {id} /\ \A i \in DOMAIN d1 : d1[i] = docs[i]
  <2>1. d1 = Without(docs, id)
    BY <1>1
  <2> QED
    BY <2>1 DEF Without, Restrict
<1>5. id \notin DOMAIN d1
  BY <1>4
<1>6. d2 = With(d1, id, content)
  <2>1. With(d1, id, content) = [i \in DOMAIN d1 \union {id} |-> IF i = id THEN content ELSE d1[i]]
    BY DEF With
  <2>2. d2 = [i \in DOMAIN docs \union {id} |-> IF i = id THEN content ELSE docs[i]]
    BY <1>3 DEF With
  <2>3. DOMAIN docs \union {id} = DOMAIN d1 \union {id}
    BY <1>4
  <2>4. \A i \in DOMAIN d1 \union {id} : (IF i = id THEN content ELSE docs[i]) = IF i = id THEN content ELSE d1[i]
    BY <1>4
  <2> QED
    BY <2>1, <2>2, <2>3, <2>4
<1>7. DOMAIN d2 = DOMAIN d1 \union {id} /\ d2[id] = content /\ \A i \in DOMAIN d1 : d2[i] = d1[i]
  BY <1>5, <1>6 DEF With
<1>8. IsDocs(d2)
  <2>1. d2 = [i \in DOMAIN d2 |-> d2[i]]
    BY <1>3 DEF With
  <2> QED
    BY <1>2, <1>7, <2>1 DEF IsDocs
<1>9. PICK terms, lengths : /\ terms = TermsOf(content)
                            /\ lengths = [title |-> Len(content.title), body |-> Len(content.body)]
  OBVIOUS
<1>10. after = [documents |-> With(kept.documents, id, content),
                postings |-> Posted(kept.postings, terms, id, content),
                documentTerms |-> With(kept.documentTerms, id, terms),
                lengths |-> With(kept.lengths, id, lengths),
                totalTitleTerms |-> kept.totalTitleTerms + Len(content.title),
                totalBodyTerms |-> kept.totalBodyTerms + Len(content.body)]
  <2>1. kept = [documents |-> kept.documents, postings |-> kept.postings,
                documentTerms |-> kept.documentTerms, lengths |-> kept.lengths,
                totalTitleTerms |-> kept.totalTitleTerms, totalBodyTerms |-> kept.totalBodyTerms]
    BY <1>2 DEF LexicalIs
  <2> QED
    BY <1>1, <1>3, <1>9, <2>1 DEF LexicalUpsert, Posted
<1>11. Posted(kept.postings, terms, id, content) = PostingsOf(d2)
  <2>1. kept.postings = PostingsOf(d1)
    BY <1>2 DEF LexicalIs
  <2> QED
    BY <1>5, <1>6, <1>9, <2>1, AddPostings
<1>12. With(kept.documentTerms, id, terms) = [i \in DOMAIN d2 |-> TermsOf(d2[i])]
  <2>1. PICK f : f = kept.documentTerms /\ f = [i \in DOMAIN d1 |-> TermsOf(d1[i])]
    BY <1>2 DEF LexicalIs
  <2>2. With(f, id, terms) = [i \in DOMAIN f \union {id} |-> IF i = id THEN terms ELSE f[i]]
    BY DEF With
  <2>3. \A i \in DOMAIN d2 : (IF i = id THEN terms ELSE f[i]) = TermsOf(d2[i])
    BY <1>7, <1>9, <2>1
  <2>4. DOMAIN f \union {id} = DOMAIN d2
    BY <1>7, <2>1
  <2> QED
    BY <2>1, <2>2, <2>3, <2>4
<1>13. With(kept.lengths, id, lengths)
         = [i \in DOMAIN d2 |-> [title |-> Len(d2[i].title), body |-> Len(d2[i].body)]]
  <2>1. PICK f : f = kept.lengths
                 /\ f = [i \in DOMAIN d1 |-> [title |-> Len(d1[i].title), body |-> Len(d1[i].body)]]
    BY <1>2 DEF LexicalIs
  <2>2. With(f, id, lengths) = [i \in DOMAIN f \union {id} |-> IF i = id THEN lengths ELSE f[i]]
    BY DEF With
  <2>3. \A i \in DOMAIN d2 :
          (IF i = id THEN lengths ELSE f[i]) = [title |-> Len(d2[i].title), body |-> Len(d2[i].body)]
    BY <1>7, <1>9, <2>1
  <2>4. DOMAIN f \union {id} = DOMAIN d2
    BY <1>7, <2>1
  <2> QED
    BY <2>1, <2>2, <2>3, <2>4
<1>14. kept.totalTitleTerms + Len(content.title) = TitleSum(d2) /\ kept.totalBodyTerms + Len(content.body) = BodySum(d2)
  <2>1. HasLengths(d2) /\ id \in DOMAIN d2
    BY <1>7, <1>8, DocsHaveLengths
  <2>2. d1 = Without(d2, id)
    <3>1. Without(d2, id) = [i \in DOMAIN d2 \ {id} |-> d2[i]]
      BY WithoutIs
    <3>2. DOMAIN d2 \ {id} = DOMAIN d1
      BY <1>5, <1>7
    <3>3. d1 = [i \in DOMAIN d1 |-> d1[i]]
      BY <1>2 DEF IsDocs
    <3> QED
      BY <1>7, <3>1, <3>2, <3>3
  <2>3. TitleSum(d2) = TitleSum(d1) + Len(d2[id].title) /\ BodySum(d2) = BodySum(d1) + Len(d2[id].body)
    BY <2>1, <2>2, TotalsGrow
  <2>4. kept.totalTitleTerms = TitleSum(d1) /\ kept.totalBodyTerms = BodySum(d1)
    BY <1>2 DEF LexicalIs
  <2> QED
    BY <1>7, <2>3, <2>4
<1>15. With(kept.documents, id, content) = d2
  BY <1>2, <1>6 DEF LexicalIs
<1>16. LexicalIs(after, d2)
  BY <1>10, <1>11, <1>12, <1>13, <1>14, <1>15 DEF LexicalIs
<1> QED
  BY <1>3, <1>8, <1>16

LEMMA EmptyLexicalIs == LexicalIs(EmptyLexical, Empty) /\ IsDocs(Empty)
<1>1. DOMAIN Empty = {} /\ Empty = [x \in DOMAIN Empty |-> Empty[x]]
  BY DEF Empty
<1>2. IsDocs(Empty)
  BY <1>1 DEF IsDocs
<1>3. TitleSum(Empty) = 0 /\ BodySum(Empty) = 0
  BY <1>1, TotalsOfNone
<1>4. TermsIn(Empty) = {}
  BY <1>1 DEF TermsIn
<1>5. PostingsOf(Empty) = Empty
  BY <1>4 DEF PostingsOf, Empty
<1>6. Empty = [id \in DOMAIN Empty |-> TermsOf(Empty[id])]
  BY <1>1 DEF Empty
<1>7. Empty = [id \in DOMAIN Empty |-> [title |-> Len(Empty[id].title), body |-> Len(Empty[id].body)]]
  BY <1>1 DEF Empty
<1> QED
  BY <1>2, <1>3, <1>5, <1>6, <1>7 DEF LexicalIs, EmptyLexical

-----------------------------------------------------------------------------
(* The invariant of the indexes, and what follows from it.                 *)

PointsOf(docs) == [id \in DOMAIN docs |-> Embed(Text(docs[id]))]
VectorsAre(index, points) == index.vectors = points /\ GraphOf(index.graph, DOMAIN points, points)

HaveVectors(docs) == \A id \in DOMAIN docs : normalize(Text(docs[id]))

\* What the lexical index has and a map of documents has not is a document without a
\* vector.
Agree(indexed, docs) ==
    /\ DOMAIN docs \subseteq DOMAIN indexed
    /\ \A id \in DOMAIN indexed :
        normalize(Text(indexed[id])) => id \in DOMAIN docs /\ docs[id] = indexed[id]

\* The lexical index is that of its own documents, the vector index that of the map.
IndexInv ==
    /\ IsDocs(lexical.documents) /\ LexicalIs(lexical, lexical.documents)
    /\ IsDocs(documents) /\ HaveVectors(documents)
    /\ VectorsAre(vectors, PointsOf(documents))
    /\ Agree(lexical.documents, documents)

LEMMA AgreeWith ==
    ASSUME NEW indexed, NEW docs, Agree(indexed, docs), NEW id, NEW content
    PROVE  Agree(With(indexed, id, content), With(docs, id, content))
<1>1. PICK i2, d2 : i2 = With(indexed, id, content) /\ d2 = With(docs, id, content)
  OBVIOUS
<1>2. /\ DOMAIN i2 = DOMAIN indexed \union {id} /\ i2[id] = content
      /\ \A k \in DOMAIN indexed : k # id => i2[k] = indexed[k]
  BY <1>1 DEF With
<1>3. /\ DOMAIN d2 = DOMAIN docs \union {id} /\ d2[id] = content
      /\ \A k \in DOMAIN docs : k # id => d2[k] = docs[k]
  BY <1>1 DEF With
<1>4. ASSUME NEW k \in DOMAIN i2, normalize(Text(i2[k])) PROVE k \in DOMAIN d2 /\ d2[k] = i2[k]
  <2>1. CASE k = id
    BY <1>2, <1>3, <2>1
  <2>2. CASE k # id
    <3>1. k \in DOMAIN indexed /\ normalize(Text(indexed[k]))
      BY <1>2, <1>4, <2>2
    <3>2. k \in DOMAIN docs /\ docs[k] = indexed[k]
      BY <3>1 DEF Agree
    <3> QED
      BY <1>2, <1>3, <2>2, <3>1, <3>2
  <2> QED
    BY <2>1, <2>2
<1>5. DOMAIN d2 \subseteq DOMAIN i2
  BY <1>2, <1>3 DEF Agree
<1>6. Agree(i2, d2)
  BY <1>4, <1>5 DEF Agree
<1> QED
  BY <1>1, <1>6

LEMMA AgreeWithout ==
    ASSUME NEW indexed, NEW docs, Agree(indexed, docs), NEW id
    PROVE  Agree(Without(indexed, id), Without(docs, id))
<1>1. PICK i2, d2 : i2 = Without(indexed, id) /\ d2 = Without(docs, id)
  OBVIOUS
<1>2. DOMAIN i2 = DOMAIN indexed \ {id} /\ \A k \in DOMAIN i2 : i2[k] = indexed[k]
  <2>1. i2 = Without(indexed, id)
    BY <1>1
  <2> QED
    BY <2>1 DEF Without, Restrict
<1>3. DOMAIN d2 = DOMAIN docs \ {id} /\ \A k \in DOMAIN d2 : d2[k] = docs[k]
  <2>1. d2 = Without(docs, id)
    BY <1>1
  <2> QED
    BY <2>1 DEF Without, Restrict
<1>4. Agree(i2, d2)
  BY <1>2, <1>3 DEF Agree
<1> QED
  BY <1>1, <1>4

\* A document without a vector is added to the lexical index alone.
LEMMA AgreeRefused ==
    ASSUME NEW indexed, NEW docs, Agree(indexed, docs), NEW id, NEW content, ~ normalize(Text(content))
    PROVE  Agree(With(indexed, id, content), docs)
<1>1. PICK i2 : i2 = With(indexed, id, content)
  OBVIOUS
<1>2. /\ DOMAIN i2 = DOMAIN indexed \union {id} /\ i2[id] = content
      /\ \A k \in DOMAIN indexed : k # id => i2[k] = indexed[k]
  BY <1>1 DEF With
<1>3. Agree(i2, docs)
  BY <1>2 DEF Agree
<1> QED
  BY <1>1, <1>3

LEMMA DocsHavePoints ==
    ASSUME NEW docs, IsDocs(docs), HaveVectors(docs)
    PROVE  IsPoints(PointsOf(docs))
<1>1. PICK points : points = PointsOf(docs)
  OBVIOUS
<1>2. DOMAIN points = DOMAIN docs /\ \A id \in DOMAIN docs : points[id] = Embed(Text(docs[id]))
  BY <1>1 DEF PointsOf
<1>3. IsFiniteSet(DOMAIN docs)
  BY DocsHaveLengths DEF HasLengths
<1>4. DOMAIN docs \subseteq Nat /\ \A id \in DOMAIN docs : Level(id) \in Nat
  BY IndexAssumption DEF IsDocs
<1>5. ASSUME NEW id \in DOMAIN docs PROVE points[id] \in Int
  <2>1. docs[id] \in Contents /\ normalize(Text(docs[id]))
    BY DEF IsDocs, HaveVectors
  <2>2. Embed(Text(docs[id])) \in Int
    BY <2>1, IndexAssumption DEF Text, normalize
  <2> QED
    BY <1>2, <2>2
<1> QED
  BY <1>1, <1>2, <1>3, <1>4, <1>5 DEF IsPoints

LEMMA IndexStart == IndexInit => IndexInv
<1> SUFFICES ASSUME IndexInit PROVE IndexInv
  OBVIOUS
<1>1. documents = Empty /\ lexical = EmptyLexical /\ vectors = EmptyVectors
  BY DEF IndexInit
<1>2. PointsOf(Empty) = Empty /\ DOMAIN Empty = {}
  BY DEF PointsOf, Empty
<1>3. VectorsAre(EmptyVectors, Empty)
  <2>1. EmptyVectors.vectors = Empty /\ EmptyVectors.graph = EmptyGraph /\ DOMAIN EmptyGraph.nodes = {}
    BY <1>2 DEF EmptyVectors, EmptyGraph
  <2> QED
    BY <1>2, <2>1 DEF VectorsAre, GraphOf
<1>4. HaveVectors(Empty) /\ Agree(Empty, Empty)
  BY <1>2 DEF HaveVectors, Agree
<1>5. LexicalIs(EmptyLexical, Empty) /\ IsDocs(Empty) /\ EmptyLexical.documents = Empty
  BY EmptyLexicalIs DEF EmptyLexical
<1> QED
  BY <1>1, <1>2, <1>3, <1>4, <1>5 DEF IndexInv

LEMMA VectorsOfPoints ==
    ASSUME NEW docs, IsDocs(docs), HaveVectors(docs)
    PROVE  VectorsAre(VectorsOf(PointsOf(docs)), PointsOf(docs))
<1>1. PICK points : points = PointsOf(docs)
  OBVIOUS
<1>2. GraphOf(rebuildHNSW(points), DOMAIN points, points)
  BY <1>1, DocsHavePoints, RebuildGives
<1>3. VectorsAre(VectorsOf(points), points)
  BY <1>2 DEF VectorsOf, VectorsAre
<1> QED
  BY <1>1, <1>3

\* Whatever applyDocument adds, it adds to the lexical index first.
LEMMA LexicalTakes ==
    ASSUME IndexInv, NEW id \in Ids, NEW content \in Contents, lexical' = LexicalUpsert(lexical, id, content)
    PROVE  /\ IsDocs(lexical.documents)' /\ LexicalIs(lexical, lexical.documents)'
           /\ lexical'.documents = With(lexical.documents, id, content)
<1>1. PICK indexed : indexed = lexical.documents /\ IsDocs(indexed) /\ LexicalIs(lexical, indexed)
  BY DEF IndexInv
<1>2. PICK i2 : i2 = With(indexed, id, content)
  OBVIOUS
<1>3. LexicalIs(lexical', i2) /\ IsDocs(i2)
  BY <1>1, <1>2, UpsertLexical
<1>4. lexical'.documents = i2
  BY <1>3 DEF LexicalIs
<1> QED
  BY <1>1, <1>2, <1>3, <1>4

LEMMA IndexUpsert ==
    ASSUME IndexInv, NEW id \in Ids, NEW content \in Contents, Upsert(id, content)
    PROVE  IndexInv'
<1>1. PICK d2 : d2 = With(documents, id, content)
  OBVIOUS
<1>2. documents' = d2 /\ lexical' = LexicalUpsert(lexical, id, content)
  BY <1>1 DEF Upsert
<1>3. IsDocs(d2) /\ HaveVectors(d2)
  <2>1. DOMAIN d2 = DOMAIN documents \union {id} /\ d2[id] = content
        /\ (\A i \in DOMAIN documents : i # id => d2[i] = documents[i])
        /\ d2 = [i \in DOMAIN d2 |-> d2[i]]
    BY <1>1 DEF With
  <2>2. IsDocs(d2)
    BY <2>1 DEF IndexInv, IsDocs
  <2>3. \A i \in DOMAIN d2 : normalize(Text(d2[i]))
    BY <2>1 DEF IndexInv, HaveVectors, Upsert
  <2> QED
    BY <2>2, <2>3 DEF HaveVectors
<1>4. PICK point : point = Embed(Text(content))
  OBVIOUS
<1>5. With(vectors.vectors, id, point) = PointsOf(d2)
  <2>1. PICK f : f = vectors.vectors /\ f = PointsOf(documents)
    BY DEF IndexInv, VectorsAre
  <2>2. DOMAIN f = DOMAIN documents
        /\ \A i \in DOMAIN documents : f[i] = Embed(Text(documents[i]))
    BY <2>1 DEF PointsOf
  <2>3. With(f, id, point) = [i \in DOMAIN documents \union {id} |-> IF i = id THEN point ELSE f[i]]
    BY <2>2 DEF With
  <2>4. DOMAIN d2 = DOMAIN documents \union {id} /\ d2[id] = content
        /\ \A i \in DOMAIN documents : i # id => d2[i] = documents[i]
    BY <1>1 DEF With
  <2>5. \A i \in DOMAIN d2 : (IF i = id THEN point ELSE f[i]) = Embed(Text(d2[i]))
    BY <1>4, <2>2, <2>4
  <2>6. With(f, id, point) = [i \in DOMAIN d2 |-> Embed(Text(d2[i]))]
    BY <2>3, <2>4, <2>5
  <2> QED
    BY <2>1, <2>6 DEF PointsOf
<1>6. vectors' = VectorsOf(PointsOf(d2))
  BY <1>4, <1>5 DEF Upsert, VectorUpsert
<1>7. VectorsAre(vectors', PointsOf(d2))
  BY <1>3, <1>6, VectorsOfPoints
<1>8. Agree(lexical'.documents, documents')
  <2>1. Agree(With(lexical.documents, id, content), With(documents, id, content))
    BY AgreeWith DEF IndexInv
  <2>2. lexical'.documents = With(lexical.documents, id, content)
    BY <1>2, LexicalTakes
  <2> QED
    BY <1>1, <1>2, <2>1, <2>2
<1>9. IsDocs(lexical.documents)' /\ LexicalIs(lexical, lexical.documents)'
  BY <1>2, LexicalTakes
<1> QED
  BY <1>2, <1>3, <1>7, <1>8, <1>9 DEF IndexInv

LEMMA IndexRefused ==
    ASSUME IndexInv, NEW id \in Ids, NEW content \in Contents, UpsertRefused(id, content)
    PROVE  IndexInv'
<1>1. /\ lexical' = LexicalUpsert(lexical, id, content) /\ ~ normalize(Text(content))
      /\ documents' = documents /\ vectors' = vectors
  BY DEF UpsertRefused
<1>2. /\ IsDocs(lexical.documents)' /\ LexicalIs(lexical, lexical.documents)'
      /\ lexical'.documents = With(lexical.documents, id, content)
  BY <1>1, LexicalTakes
<1>3. Agree(With(lexical.documents, id, content), documents)
  BY <1>1, AgreeRefused DEF IndexInv
<1>4. Agree(lexical'.documents, documents')
  BY <1>1, <1>2, <1>3
<1>5. IsDocs(documents') /\ HaveVectors(documents') /\ VectorsAre(vectors', PointsOf(documents'))
  BY <1>1 DEF IndexInv
<1> QED
  BY <1>2, <1>4, <1>5 DEF IndexInv

LEMMA IndexDelete ==
    ASSUME IndexInv, NEW id \in Ids, Delete(id)
    PROVE  IndexInv'
<1>1. PICK d2 : d2 = Without(documents, id)
  OBVIOUS
<1>2. documents' = d2 /\ lexical' = deleteLocked(lexical, id) /\ vectors' = VectorDelete(vectors, id)
  BY <1>1 DEF Delete
<1>3. IsDocs(d2) /\ HaveVectors(d2)
  <2>1. DOMAIN d2 = DOMAIN documents \ {id} /\ \A i \in DOMAIN d2 : d2[i] = documents[i]
    BY <1>1 DEF Without, Restrict
  <2>2. HaveVectors(d2)
    BY <2>1 DEF IndexInv, HaveVectors
  <2> QED
    BY <1>1, <2>2, WithoutDocs DEF IndexInv
<1>4. PICK f : f = vectors.vectors /\ f = PointsOf(documents)
  BY DEF IndexInv, VectorsAre
<1>5. DOMAIN f = DOMAIN documents
      /\ \A i \in DOMAIN documents : f[i] = Embed(Text(documents[i]))
  BY <1>4 DEF PointsOf
<1>6. VectorsAre(vectors', PointsOf(d2))
  <2>1. CASE id \in DOMAIN documents
    <3>1. Without(f, id) = PointsOf(d2)
      <4>1. Without(f, id) = [i \in DOMAIN documents \ {id} |-> f[i]]
        <5>1. Without(f, id) = [i \in DOMAIN f \ {id} |-> f[i]]
          BY WithoutIs
        <5> QED
          BY <1>5, <5>1
      <4>2. DOMAIN d2 = DOMAIN documents \ {id} /\ \A i \in DOMAIN d2 : d2[i] = documents[i]
        BY <1>1 DEF Without, Restrict
      <4>3. \A i \in DOMAIN d2 : f[i] = Embed(Text(d2[i]))
        BY <1>5, <4>2
      <4> QED
        BY <4>1, <4>2, <4>3 DEF PointsOf
    <3>2. vectors' = VectorsOf(PointsOf(d2))
      BY <1>2, <1>4, <1>5, <2>1, <3>1 DEF VectorDelete
    <3> QED
      BY <1>3, <3>2, VectorsOfPoints
  <2>2. CASE id \notin DOMAIN documents
    <3>1. d2 = documents
      BY <1>1, <2>2, WithoutDocs DEF IndexInv
    <3>2. vectors' = vectors
      BY <1>2, <1>4, <1>5, <2>2 DEF VectorDelete
    <3> QED
      BY <3>1, <3>2 DEF IndexInv
  <2> QED
    BY <2>1, <2>2
<1>7. /\ IsDocs(lexical.documents)' /\ LexicalIs(lexical, lexical.documents)'
      /\ lexical'.documents = Without(lexical.documents, id)
  <2>1. PICK indexed : indexed = lexical.documents /\ IsDocs(indexed) /\ LexicalIs(lexical, indexed)
    BY DEF IndexInv
  <2>2. PICK i2 : i2 = Without(indexed, id)
    OBVIOUS
  <2>3. LexicalIs(lexical', i2) /\ IsDocs(i2)
    BY <1>2, <2>1, <2>2, DeleteLexical, WithoutDocs
  <2>4. lexical'.documents = i2
    BY <2>3 DEF LexicalIs
  <2> QED
    BY <2>1, <2>2, <2>3, <2>4
<1>8. Agree(lexical'.documents, documents')
  <2>1. Agree(Without(lexical.documents, id), Without(documents, id))
    BY AgreeWithout DEF IndexInv
  <2> QED
    BY <1>1, <1>2, <1>7, <2>1
<1> QED
  BY <1>2, <1>3, <1>6, <1>7, <1>8 DEF IndexInv

LEMMA IndexStep == IndexInv /\ [IndexNext]_indexVars => IndexInv'
<1> SUFFICES ASSUME IndexInv, [IndexNext]_indexVars PROVE IndexInv'
  OBVIOUS
<1>1. ASSUME NEW id \in Ids, NEW content \in Contents, Upsert(id, content) PROVE IndexInv'
  BY <1>1, IndexUpsert
<1>2. ASSUME NEW id \in Ids, Delete(id) PROVE IndexInv'
  BY <1>2, IndexDelete
<1>3. CASE UNCHANGED indexVars
  BY <1>3 DEF IndexInv, indexVars
<1>4. ASSUME NEW id \in Ids, NEW content \in Contents, UpsertFails(id, content) PROVE IndexInv'
  BY <1>3, <1>4 DEF UpsertFails
<1>5. ASSUME NEW id \in Ids, NEW content \in Contents, UpsertRefused(id, content) PROVE IndexInv'
  BY <1>5, IndexRefused
<1> QED
  BY <1>1, <1>2, <1>3, <1>4, <1>5 DEF IndexNext

\* Whatever is written, replaced and deleted, whenever an embedding fails and whatever the
\* vector index refuses, the lexical index is that of its own documents, the vector
\* index that of the map, and the two differ only by documents without a vector
\* (applyDocument and Delete of engine.go).
THEOREM IndexInvariant == IndexSpec => []IndexInv
  BY IndexStart, IndexStep, PTL DEF IndexSpec

\* The postings, the lengths and the totals are those of an index made of the documents
\* of the lexical index, and the vectors those of the map; the two have the same
\* documents but for those whose text has no vector (Upsert and deleteLocked of
\* search/index.go, VectorIndex of vector/index.go, applyDocument of engine.go).
THEOREM IndexMatchesDocuments == IndexSpec => []IndexIsOfTheDocuments
<1>1. IndexInv => IndexIsOfTheDocuments
  <2> SUFFICES ASSUME IndexInv PROVE IndexIsOfTheDocuments
    OBVIOUS
  <2>1. /\ LexicalIs(lexical, lexical.documents) /\ VectorsAre(vectors, PointsOf(documents))
        /\ Agree(lexical.documents, documents)
    BY DEF IndexInv
  <2>2. DOMAIN vectors.graph.nodes = DOMAIN documents
    BY <2>1 DEF VectorsAre, GraphOf, PointsOf
  <2>3. vectors.vectors = [id \in DOMAIN documents |-> Embed(Text(documents[id]))]
    BY <2>1 DEF VectorsAre, PointsOf
  <2>4. lexical.totalTitleTerms = MapThenSumSet(LAMBDA id : Len(lexical.documents[id].title), DOMAIN lexical.documents)
    BY <2>1 DEF LexicalIs, TitleSum
  <2>5. lexical.totalBodyTerms = MapThenSumSet(LAMBDA id : Len(lexical.documents[id].body), DOMAIN lexical.documents)
    BY <2>1 DEF LexicalIs, BodySum
  <2>6. DOMAIN lexical.lengths = DOMAIN lexical.documents /\ DOMAIN lexical.documentTerms = DOMAIN lexical.documents
    BY <2>1 DEF LexicalIs
  <2>7. lexical.postings =
          [t \in UNION {TermsOf(lexical.documents[id]) : id \in DOMAIN lexical.documents} |->
             [id \in {i \in DOMAIN lexical.documents : t \in TermsOf(lexical.documents[i])} |->
                PostingOf(t, lexical.documents[id])]]
    BY <2>1 DEF LexicalIs, PostingsOf, TermsIn, Having
  <2>8. /\ DOMAIN documents \subseteq DOMAIN lexical.documents
        /\ \A id \in DOMAIN lexical.documents : normalize(Text(lexical.documents[id])) =>
                id \in DOMAIN documents /\ documents[id] = lexical.documents[id]
    BY <2>1 DEF Agree
  <2> QED
    BY <2>2, <2>3, <2>4, <2>5, <2>6, <2>7, <2>8 DEF IndexIsOfTheDocuments
<1> QED
  BY <1>1, IndexInvariant, PTL

LEMMA DistinctCounts ==
    ASSUME NEW D, NEW list \in Seq(D), Distinct(list)
    PROVE  Cardinality(Range(list)) = Len(list)
<1>1. PICK n, S : n = Len(list) /\ S = Range(list) /\ n \in Nat
  BY ListFacts
<1>2. S = {list[i] : i \in 1..n} /\ list \in [1..n -> D]
  BY <1>1, ListFacts, LenProperties
<1>3. list \in [1..n -> S]
  BY <1>2
<1>4. list \in Bijection(1..n, S)
  BY <1>1, <1>2, <1>3 DEF Bijection, Injection, Surjection, IsInjective, Distinct
<1>5. ExistsBijection(1..n, S)
  BY <1>4 DEF ExistsBijection
<1>6. Cardinality(S) = n
  BY <1>1, <1>5, FS_CountingElements
<1> QED
  BY <1>1, <1>6

\* No list of the graph names a node that is not there, the node itself, or one node
\* twice, and the search starts on the highest level (Add and prune of vector/hnsw.go).
THEOREM GraphStaysSound == IndexSpec => []GraphIsSound
<1>1. IndexInv => GraphIsSound
  <2> SUFFICES ASSUME IndexInv, DOMAIN vectors.graph.nodes # {}, NEW g, g = vectors.graph
               PROVE  /\ g.highestLevel = Max({g.nodes[n].level : n \in DOMAIN g.nodes})
                      /\ g.nodes[g.entryID].level = g.highestLevel
                      /\ \A n \in DOMAIN g.nodes : \A l \in 0 .. g.nodes[n].level :
                           LET list == g.nodes[n].neighbors[l]
                           IN  /\ Len(list) =< MaxConnections
                               /\ Cardinality(Range(list)) = Len(list)
                               /\ \A m \in Range(list) : m # n /\ g.nodes[m].level >= l
    BY DEF GraphIsSound
  <2>1. PICK nodes, high : nodes = g.nodes /\ high = g.highestLevel
    OBVIOUS
  <2>2. SoundGraph(g)
    BY <2>1 DEF IndexInv, VectorsAre, GraphOf
  <2>3. /\ GoodNodes(nodes) /\ high \in Nat /\ g.entryID \in OnLevel(nodes, high)
        /\ \A n \in DOMAIN nodes : nodes[n].level =< high
    BY <2>1, <2>2 DEF SoundGraph
  <2>4. \A n \in DOMAIN nodes : nodes[n].level \in Nat
    BY <2>3 DEF GoodNodes, IsNode
  <2>5. g.entryID \in DOMAIN nodes /\ nodes[g.entryID].level = high
    BY <2>3, <2>4 DEF OnLevel
  <2>6. high = Max({nodes[n].level : n \in DOMAIN nodes})
    <3>1. PICK T : T = {nodes[n].level : n \in DOMAIN nodes}
      OBVIOUS
    <3>2. high \in T /\ T \subseteq Nat /\ \A x \in T : high >= x
      BY <2>3, <2>4, <2>5, <3>1
    <3>3. PICK m : m = Max(T)
      OBVIOUS
    <3>4. m \in T /\ \A y \in T : m >= y
      BY <3>2, <3>3 DEF Max
    <3>5. m = high
      BY <3>2, <3>4
    <3> QED
      BY <3>1, <3>3, <3>5
  <2>7. ASSUME NEW n \in DOMAIN nodes, NEW l \in 0..nodes[n].level, NEW list, list = nodes[n].neighbors[l]
        PROVE  /\ Len(list) =< MaxConnections /\ Cardinality(Range(list)) = Len(list)
               /\ \A m \in Range(list) : m # n /\ nodes[m].level >= l
    <3>1. GoodList(list, OnLevel(nodes, l), n)
      BY <2>3, <2>7 DEF GoodNodes
    <3>2. list \in Seq(OnLevel(nodes, l) \ {n}) /\ Len(list) =< MaxConnections /\ Distinct(list)
      BY <3>1 DEF GoodList
    <3>3. Cardinality(Range(list)) = Len(list)
      BY <3>2, DistinctCounts
    <3>4. Range(list) \subseteq OnLevel(nodes, l) \ {n}
      BY <3>2, ListFacts
    <3> QED
      BY <3>2, <3>3, <3>4 DEF OnLevel
  <2>8. \A n \in DOMAIN nodes : \A l \in 0 .. nodes[n].level :
          LET list == nodes[n].neighbors[l]
          IN  /\ Len(list) =< MaxConnections
              /\ Cardinality(Range(list)) = Len(list)
              /\ \A m \in Range(list) : m # n /\ nodes[m].level >= l
    BY <2>7
  <2>9. /\ g.highestLevel = Max({g.nodes[n].level : n \in DOMAIN g.nodes})
        /\ g.nodes[g.entryID].level = g.highestLevel
    BY <2>1, <2>5, <2>6
  <2>10. \A n \in DOMAIN g.nodes : \A l \in 0 .. g.nodes[n].level :
           LET list == g.nodes[n].neighbors[l]
           IN  /\ Len(list) =< MaxConnections
               /\ Cardinality(Range(list)) = Len(list)
               /\ \A m \in Range(list) : m # n /\ g.nodes[m].level >= l
    <3>1. nodes = g.nodes
      BY <2>1
    <3> QED
      BY <2>8, <3>1
  <2> QED
    BY <2>9, <2>10
<1> QED
  BY <1>1, IndexInvariant, PTL

-----------------------------------------------------------------------------
(* The exact search and the search of a small graph.                       *)

\* The first of an order are those that nothing else is before.
LEMMA TopIsFirst ==
    ASSUME NEW D, NEW key, IsKey(key, D), NEW q, IsSorting(q, D, key), NEW R, R \subseteq D,
           \A r \in R, x \in D \ R : KeyBefore(key, r, x)
    PROVE  IsSorting(q, R, key)
<1>1. IsFiniteSet(D) /\ D \subseteq Nat /\ IsFiniteSet(R)
  <2>1. R \in SUBSET D
    OBVIOUS
  <2> QED
    BY <2>1, FS_Subset DEF IsKey
<1>2. PICK N, k : /\ N = Cardinality(D) /\ k = Cardinality(R) /\ N \in Nat /\ k \in Nat /\ k =< N
  <2>1. R \in SUBSET D
    OBVIOUS
  <2> QED
    BY <1>1, <2>1, FS_Subset, FS_CardinalityType
<1>3. \A i \in 1..N : q[i] \in D
  BY <1>2 DEF IsSorting
<1>4. ASSUME NEW i \in 1..k, q[i] \notin R PROVE FALSE
  <2>1. i \in 1..N
    BY <1>2
  <2>2. PICK x, P : x = q[i] /\ P = Preds(key, D, x) /\ Cardinality(P) = i - 1
    BY <1>2, <2>1, SortingRanks
  <2>3. x \in D \ R
    BY <1>3, <1>4, <2>1, <2>2
  <2>4. R \in SUBSET P /\ P \in SUBSET D
    BY <2>2, <2>3 DEF Preds
  <2>5. IsFiniteSet(P)
    BY <1>1, <2>4, FS_Subset
  <2>6. k =< Cardinality(P)
    BY <1>2, <2>4, <2>5, FS_Subset
  <2> QED
    BY <1>2, <2>2, <2>6
<1>5. ASSUME NEW a \in R PROVE \E i \in 1..k : q[i] = a
  <2>1. PICK i \in 1..N : q[i] = a
    BY <1>2 DEF IsSorting
  <2>2. PICK P : P = Preds(key, D, a) /\ Cardinality(P) = i - 1
    BY <1>2, <2>1, SortingRanks
  <2>3. P \subseteq R \ {a}
    <3>1. ASSUME NEW b \in P PROVE b \in R /\ b # a
      <4>1. b \in D /\ b # a /\ KeyBefore(key, b, a)
        BY <2>2, <3>1 DEF Preds
      <4>2. b \in D \ R => KeyBefore(key, a, b)
        OBVIOUS
      <4> QED
        BY <4>1, <4>2, KeyStrict
    <3> QED
      BY <3>1
  <2>4. PICK T : T = R \ {a} /\ Cardinality(T) = k - 1 /\ IsFiniteSet(T)
    BY <1>1, <1>2, OneMore
  <2>5. P \in SUBSET T
    BY <2>3, <2>4
  <2>6. Cardinality(P) =< Cardinality(T)
    BY <2>4, <2>5, FS_Subset
  <2>7. i \in 1..k
    BY <1>2, <2>2, <2>4, <2>6
  <2> QED
    BY <2>1, <2>7
<1>6. ASSUME NEW i \in 1..k, NEW j \in 1..k, i < j PROVE KeyBefore(key, q[i], q[j])
  <2>1. i \in 1..N /\ j \in 1..N
    BY <1>2
  <2> QED
    BY <1>2, <1>6, <2>1 DEF IsSorting
<1> QED
  BY <1>2, <1>4, <1>5, <1>6 DEF IsSorting

Nearer(points, p, a, b) ==
    \/ Distance(p, points[a]) < Distance(p, points[b])
    \/ Distance(p, points[a]) = Distance(p, points[b]) /\ a < b

PointKey(points, p) == [a \in DOMAIN points |-> Distance(p, points[a])]

LEMMA ExactIs ==
    ASSUME NEW points, IsPoints(points), NEW p \in Int
    PROVE  /\ IsKey(PointKey(points, p), DOMAIN points)
           /\ IsSorting(ExactSearch(points, p, 0), DOMAIN points, PointKey(points, p))
           /\ ExactSearch(points, p, 0) \in [1..Cardinality(DOMAIN points) -> DOMAIN points]
<1>1. PICK key, S : key = PointKey(points, p) /\ S = DOMAIN points
  OBVIOUS
<1>2. IsKey(key, S)
  <2>1. \A a \in S : key[a] = Distance(p, points[a]) /\ points[a] \in Int
    BY <1>1 DEF PointKey, IsPoints
  <2>2. \A a \in S : key[a] \in Int
    BY <2>1 DEF Distance
  <2> QED
    BY <1>1, <2>2 DEF IsKey, IsPoints
<1>3. \A a, b \in S : Nearer(points, p, a, b) <=> KeyBefore(key, a, b)
  BY <1>1 DEF PointKey, Nearer, KeyBefore
<1>4. \A a \in S : {b \in S \ {a} : Nearer(points, p, b, a)} = Preds(key, S, a)
  BY <1>3 DEF Preds
<1>5. PICK q : q = [i \in 1..Cardinality(S) |->
                      CHOOSE a \in S : Cardinality({b \in S \ {a} : Nearer(points, p, b, a)}) = i - 1]
  OBVIOUS
<1>6. ASSUME NEW i \in 1..Cardinality(S)
      PROVE  q[i] \in S /\ Cardinality(Preds(key, S, q[i])) = i - 1
  <2>1. \E a \in S : Cardinality(Preds(key, S, a)) = i - 1
    BY <1>2, RanksFill
  <2>2. \E a \in S : Cardinality({b \in S \ {a} : Nearer(points, p, b, a)}) = i - 1
    BY <1>4, <2>1
  <2>3. PICK c : c = CHOOSE a \in S : Cardinality({b \in S \ {a} : Nearer(points, p, b, a)}) = i - 1
    OBVIOUS
  <2>4. c \in S /\ Cardinality({b \in S \ {c} : Nearer(points, p, b, c)}) = i - 1
    BY <2>2, <2>3
  <2>5. q[i] = c
    BY <1>5, <2>3
  <2> QED
    BY <1>4, <2>4, <2>5
<1>7. HasRanks(q, S, key)
  BY <1>6 DEF HasRanks
<1>8. IsSorting(q, S, key)
  BY <1>2, <1>7, RanksSort
<1>9. ExactSearch(points, p, 0) = q
  BY <1>1, <1>5 DEF ExactSearch, Limited, Sorted, Nearer
<1>10. q \in [1..Cardinality(S) -> S]
  BY <1>5, <1>6
<1> QED
  BY <1>1, <1>2, <1>8, <1>9, <1>10

\* A graph in which every node leads to every other one is searched as if the query
\* were compared with every vector.
LEMMA SmallSearch ==
    ASSUME NEW g, NEW points, IsPoints(points), GraphOf(g, DOMAIN points, points), Small(g.nodes),
           NEW p \in Int, NEW limit \in Nat, EFSearch >= 2,
           NEW breadth, breadth = Max({EFSearch, limit})
    PROVE  HNSWSearch(g, p, limit) = Limited(Limited(ExactSearch(points, p, 0), breadth), limit)
<1>1. PICK D, key, q, N : /\ D = DOMAIN points /\ key = PointKey(points, p)
                          /\ q = ExactSearch(points, p, 0) /\ N = Cardinality(D)
  OBVIOUS
<1>2. IsKey(key, D) /\ IsSorting(q, D, key) /\ q \in [1..N -> D]
  BY <1>1, ExactIs
<1>3. D \subseteq Nat /\ IsFiniteSet(D) /\ N \in Nat
  BY <1>1, FS_CardinalityType DEF IsPoints
<1>4. PICK nodes : nodes = g.nodes /\ DOMAIN nodes = D /\ \A n \in D : nodes[n].vector = points[n]
  BY <1>1 DEF GraphOf
<1>5. breadth \in Nat /\ breadth >= 2 /\ breadth \in Nat \ {0}
  <2>1. EFSearch \in Nat
    BY IndexAssumption
  <2>2. breadth = IF EFSearch >= limit THEN EFSearch ELSE limit
    BY <2>1, TwoNumbers
  <2> QED
    BY <2>1, <2>2
<1>6. Limited(q, breadth) \in Seq(D) /\ IsCut(Limited(q, breadth), q, N, breadth)
  BY <1>2, <1>3, <1>5, CutIs
<1>7. CASE D = {}
  <2>1. N = 0
    BY <1>1, <1>7, FS_EmptySet
  <2>2. HNSWSearch(g, p, limit) = << >>
    BY <1>4, <1>7 DEF HNSWSearch
  <2>3. PICK c : c = Limited(q, breadth) /\ c \in Seq(D) /\ Len(c) = 0
    BY <1>5, <1>6, <2>1 DEF IsCut
  <2>4. c = << >>
    BY <2>3, EmptySeq
  <2>5. Limited(<< >>, limit) = << >>
    BY DEF Limited
  <2> QED
    BY <1>1, <2>2, <2>3, <2>4, <2>5
<1>8. CASE D # {}
  <2>1. SoundGraph(g)
    BY <1>1, <1>8 DEF GraphOf
  <2>2. PICK high : high = g.highestLevel
    OBVIOUS
  <2>3. GoodNodes(nodes) /\ high \in Nat /\ g.entryID \in OnLevel(nodes, high)
    BY <1>4, <2>1, <2>2 DEF SoundGraph
  <2>4. \A n \in DOMAIN nodes : nodes[n].level \in Nat
    BY <2>3 DEF GoodNodes, IsNode
  <2>5. OnLevel(nodes, 0) = D
    BY <1>4, <2>4 DEF OnLevel
  <2>6. PICK entry : entry = Descend(nodes, p, g.entryID, high, 1)
    OBVIOUS
  <2>7. entry \in D
    <3>1. Layered(nodes, p, 1, high)
      <4>1. \A l \in 1..high : l \in Nat
        OBVIOUS
      <4> QED
        BY <2>3, <4>1, GoodLayer DEF Layered
    <3>2. /\ 1 =< high => entry \in OnLevel(nodes, 1)
          /\ high < 1 => entry = g.entryID
      BY <2>3, <2>4, <2>6, <3>1, DescendStays
    <3> QED
      BY <1>4, <2>3, <3>2 DEF OnLevel
  <2>8. Layer(nodes, p, 0, D) /\ Closed(nodes, p, 0, D)
    <3>1. Layer(nodes, p, 0, OnLevel(nodes, 0))
      BY <2>3, GoodLayer
    <3> QED
      BY <2>5, <3>1 DEF Layer
  <2>9. Complete(nodes, 0, D)
    <3>1. \A k \in Nat : Complete(nodes, k, OnLevel(nodes, k))
      BY <1>4, <2>1 DEF SoundGraph
    <3> QED
      BY <2>5, <3>1
  <2>10. PICK R : /\ Top(nodes, p, R, D, breadth) /\ R # {}
                  /\ searchLayer(nodes, p, entry, breadth, 0) = Ordered(nodes, p, R)
    BY <1>5, <2>7, <2>8, <2>9, CompleteSearch
  <2>11. /\ R \subseteq D /\ Cardinality(R) =< breadth /\ (Cardinality(R) = breadth \/ R = D)
         /\ \A r \in R, x \in D \ R : Closer(nodes, p, r, x)
    BY <2>10 DEF Top
  <2>12. \A a, b \in D : Closer(nodes, p, a, b) <=> KeyBefore(key, a, b)
    BY <1>1, <1>4 DEF Closer, KeyBefore, PointKey
  <2>13. IsSorting(q, R, key)
    <3>1. \A r \in R, x \in D \ R : KeyBefore(key, r, x)
      BY <2>11, <2>12
    <3> QED
      BY <1>2, <2>11, <3>1, TopIsFirst
  <2>14. Comparable(nodes, p, R)
    BY <1>4, <2>3, <2>11, GoodComparable
  <2>15. PICK r, own, k : /\ r = Ordered(nodes, p, R) /\ own = DistanceKey(nodes, p, R) /\ k = Cardinality(R)
                          /\ IsSorting(r, R, own) /\ IsKey(own, R) /\ r \in [1..k -> R]
    BY <2>14, OrderedIs, CloserIs
  <2>16. \A a, b \in R : KeyBefore(own, a, b) <=> KeyBefore(key, a, b)
    <3>1. \A a \in R : own[a] = key[a]
      BY <1>1, <1>4, <2>11, <2>15 DEF DistanceKey, PointKey
    <3> QED
      BY <3>1 DEF KeyBefore
  <2>17. IsKey(key, R)
    <3>1. IsFiniteSet(R)
      BY <2>14 DEF Comparable
    <3> QED
      BY <1>2, <2>11, <3>1 DEF IsKey
  <2>18. IsSorting(r, R, key)
    <3>1. \A i \in 1..k : r[i] \in R
      BY <2>15 DEF IsSorting
    <3>2. \A i, j \in 1..k : i < j => KeyBefore(own, r[i], r[j])
      BY <2>15 DEF IsSorting
    <3>3. \A i, j \in 1..k : i < j => KeyBefore(key, r[i], r[j])
      BY <2>16, <3>1, <3>2
    <3>4. \A a \in R : \E i \in 1..k : r[i] = a
      BY <2>15 DEF IsSorting
    <3>5. k = Cardinality(R)
      BY <2>15
    <3> QED
      BY <3>1, <3>3, <3>4, <3>5 DEF IsSorting
  <2>19. \A i \in 1..k : q[i] = r[i]
    <3>1. k = Cardinality(R)
      BY <2>15
    <3>2. \A i \in 1..Cardinality(R) : q[i] = r[i]
      BY <2>13, <2>17, <2>18, SortingUnique
    <3> QED
      BY <3>1, <3>2
  <2>20. k \in Nat /\ k = IF N > breadth THEN breadth ELSE N
    <3>1. R \in SUBSET D
      BY <2>11
    <3>2. k =< N /\ k \in Nat /\ (k = N => R = D)
      BY <1>1, <1>3, <2>15, <3>1, FS_Subset, FS_CardinalityType
    <3>3. R = D => k = N
      BY <1>1, <2>15
    <3> QED
      BY <1>3, <1>5, <2>11, <2>15, <3>2, <3>3
  <2>21. PICK c : c = Limited(q, breadth)
    OBVIOUS
  <2>22. c \in Seq(D) /\ Len(c) = k /\ \A i \in 1..k : c[i] = q[i]
    BY <1>6, <2>20, <2>21 DEF IsCut
  <2>23. c = r
    <3>1. c \in [1..k -> D]
      BY <2>22, LenProperties
    <3> QED
      BY <2>15, <2>19, <2>22, <3>1
  <2>24. HNSWSearch(g, p, limit) = Limited(searchLayer(nodes, p, entry, breadth, 0), limit)
    BY <1>4, <1>8, <2>2, <2>6 DEF HNSWSearch
  <2> QED
    BY <1>1, <2>10, <2>15, <2>21, <2>23, <2>24
<1> QED
  BY <1>7, <1>8

\* While a list can hold every other node, the approximate search answers as the exact
\* one does (HNSW.Search).  It takes a search that keeps two nodes: one that keeps one
\* stops where it starts, as nothing is closer than the node it has.
THEOREM SmallGraphExact == EFSearch >= 2 => (IndexSpec => []SmallGraphIsExact)
<1> SUFFICES ASSUME EFSearch >= 2 PROVE IndexSpec => []SmallGraphIsExact
  OBVIOUS
<1>1. IndexInv => SmallGraphIsExact
  <2> SUFFICES ASSUME IndexInv, Cardinality(DOMAIN documents) =< MaxConnections + 1,
                      NEW text \in Answered, NEW limit \in Limits
               PROVE  LET breadth == Max({EFSearch, limit})
                          found == HNSWSearch(vectors.graph, Embed(text), limit)
                      IN  found = Limited(Limited(ExactSearch(vectors.vectors, Embed(text), 0), breadth), limit)
    BY DEF SmallGraphIsExact
  <2>1. PICK g, points, p, breadth : /\ g = vectors.graph /\ points = PointsOf(documents)
                                     /\ p = Embed(text) /\ breadth = Max({EFSearch, limit})
    OBVIOUS
  <2>2. IsPoints(points) /\ GraphOf(g, DOMAIN points, points) /\ vectors.vectors = points
    BY <2>1, DocsHavePoints DEF IndexInv, VectorsAre
  <2>3. Small(g.nodes)
    <3>1. DOMAIN g.nodes = DOMAIN documents
      BY <2>1, <2>2 DEF GraphOf, PointsOf
    <3> QED
      BY <3>1 DEF Small
  <2>4. p \in Int /\ limit \in Nat
    BY <2>1, IndexAssumption DEF Answered, normalize
  <2>5. HNSWSearch(g, p, limit) = Limited(Limited(ExactSearch(points, p, 0), breadth), limit)
    BY <2>1, <2>2, <2>3, <2>4, SmallSearch
  <2> QED
    BY <2>1, <2>2, <2>5
<1> QED
  BY <1>1, IndexInvariant, PTL

-----------------------------------------------------------------------------
(* The fusion of two rankings.                                             *)

\* The positions up to which the scores, which are whole numbers here, tell any two apart.
Positions == 1..1000
Short(S) == Cardinality(S) =< 1000

LEMMA Quotient ==
    ASSUME NEW c \in Nat, NEW n \in Nat \ {0}
    PROVE  c \div n \in Nat /\ (c \div n) * n =< c /\ c < (c \div n) * n + n
  BY SMT

\* A document that is further back gets less.
LEMMA RankScoreFalls ==
    ASSUME NEW i \in Positions, NEW j \in Positions, i < j
    PROVE  RankScore(i) > RankScore(j)
<1>1. PICK n, m, c : n = 60 + i /\ m = 60 + j /\ c = 61 * 62 * 63 * 64 * 65
  OBVIOUS
<1>2. n \in Nat \ {0} /\ m \in Nat \ {0} /\ n + 1 =< m /\ m =< 1060 /\ c \in Nat /\ c = 991186560
  BY <1>1 DEF Positions
<1>3. PICK x, y : x = c \div n /\ y = c \div m
  OBVIOUS
<1>4. x \in Nat /\ x * n =< c /\ c < x * n + n
  BY <1>2, <1>3, Quotient
<1>5. y \in Nat /\ y * m =< c /\ c < y * m + m
  BY <1>2, <1>3, Quotient
<1>6. y >= 1060
  <2>1. SUFFICES ASSUME y < 1060 PROVE FALSE
    BY <1>5
  <2>2. y * m =< 1060 * 1060
    BY <1>2, <1>5, <2>1, Products
  <2> QED
    BY <1>2, <1>5, <2>2
<1>7. y * m >= y * (n + 1)
  <2>1. n + 1 \in Nat
    BY <1>2
  <2> QED
    BY <1>2, <1>5, <2>1, Products
<1>8. y * (n + 1) = y * n + y
  BY <1>2, <1>5, SMT
<1>9. SUFFICES ASSUME x =< y PROVE FALSE
  BY <1>1, <1>3, <1>4, <1>5 DEF RankScore, reciprocalRankConstant
<1>10. x * n =< y * n /\ x * n \in Nat /\ y * n \in Nat /\ y * m \in Nat /\ y * (n + 1) \in Nat
  <2>1. n + 1 \in Nat
    BY <1>2
  <2> QED
    BY <1>2, <1>4, <1>5, <1>9, <2>1, Products
<1>11. PICK a, b : a = x * n /\ b = y * n
  OBVIOUS
<1>12. c < a + n /\ a =< b /\ b + y =< c /\ a \in Nat /\ b \in Nat
  <2>1. PICK d, e : d = y * m /\ e = y * (n + 1) /\ d \in Nat /\ e \in Nat
    BY <1>10
  <2>2. d =< c /\ d >= e /\ e = b + y /\ a \in Nat /\ b \in Nat /\ a =< b /\ c < a + n
    BY <1>4, <1>5, <1>7, <1>8, <1>10, <1>11, <2>1
  <2> QED
    BY <1>2, <1>5, <2>1, <2>2
<1> QED
  BY <1>2, <1>5, <1>6, <1>12

LEMMA RankScoreType ==
    ASSUME NEW i \in Positions
    PROVE  RankScore(i) \in Nat /\ RankScore(i) >= 1
<1>1. PICK n, c : n = 60 + i /\ c = 61 * 62 * 63 * 64 * 65
  OBVIOUS
<1>2. n \in Nat \ {0} /\ n =< 1060 /\ c \in Nat /\ c = 991186560
  BY <1>1 DEF Positions
<1>3. PICK x : x = c \div n
  OBVIOUS
<1>4. x \in Nat /\ c < x * n + n
  BY <1>2, <1>3, Quotient
<1>5. x # 0
  <2>1. 0 * n = 0
    BY <1>2
  <2> QED
    BY <1>2, <1>4, <2>1
<1> QED
  BY <1>1, <1>3, <1>4, <1>5 DEF RankScore, reciprocalRankConstant

\* q has every element of S once.
Lists(q, S) == S \subseteq Nat /\ IsFiniteSet(S) /\ DOMAIN q = 1..Cardinality(S) /\ IsListing(q, S)

LEMMA SortingLists ==
    ASSUME NEW S, NEW key, IsKey(key, S), NEW q \in [1..Cardinality(S) -> S], IsSorting(q, S, key)
    PROVE  Lists(q, S)
<1>1. IsFiniteSet(S) /\ S \subseteq Nat /\ Cardinality(S) \in Nat
  BY FS_CardinalityType DEF IsKey
<1>2. Len(q) = Cardinality(S)
  BY <1>1, SeqDef, LenProperties
<1>3. \A i, j \in 1..Cardinality(S) : i < j => q[i] # q[j]
  BY KeyStrict DEF IsSorting
<1> QED
  BY <1>1, <1>2, <1>3 DEF Lists, IsListing, IsSorting

Position(q, a) == CHOOSE i \in DOMAIN q : q[i] = a

LEMMA Place ==
    ASSUME NEW q, NEW S, Lists(q, S), Short(S), NEW a \in S
    PROVE  /\ Position(q, a) \in Positions /\ Position(q, a) \in DOMAIN q /\ q[Position(q, a)] = a
           /\ \A j \in DOMAIN q : q[j] = a => j = Position(q, a)
<1>1. PICK N : N = Cardinality(S) /\ N \in Nat /\ DOMAIN q = 1..N
  BY DEF Lists, IsListing
<1>2. PICK i \in 1..N : q[i] = a
  BY <1>1 DEF Lists, IsListing
<1>3. ASSUME NEW j \in 1..N, q[j] = a PROVE j = i
  <2>1. i < j => q[i] # q[j]
    BY <1>1 DEF Lists, IsListing
  <2>2. j < i => q[j] # q[i]
    BY <1>1 DEF Lists, IsListing
  <2> QED
    BY <1>1, <1>2, <1>3, <2>1, <2>2
<1>4. PICK c : c = Position(q, a)
  OBVIOUS
<1>5. c \in 1..N /\ q[c] = a
  BY <1>1, <1>2, <1>4 DEF Position
<1>6. c = i
  BY <1>3, <1>5
<1>7. i \in Positions
  BY <1>1 DEF Positions, Short
<1> QED
  BY <1>1, <1>2, <1>3, <1>4, <1>6, <1>7

LEMMA ListsRange ==
    ASSUME NEW q, NEW S, Lists(q, S)
    PROVE  Range(q) = S
<1>1. PICK N : N = Cardinality(S) /\ DOMAIN q = 1..N
  BY DEF Lists
<1>2. (\A i \in 1..N : q[i] \in S) /\ \A a \in S : \E i \in 1..N : q[i] = a
  BY <1>1 DEF Lists, IsListing
<1> QED
  BY <1>1, <1>2 DEF Range

\* A sum over at most two.
LEMMA SumOfTwo ==
    ASSUME NEW K, K \subseteq {1, 2}, NEW f, \A k \in K : f[k] \in Nat, NEW g, Adds(g, f, K)
    PROVE  g[K] = (IF 1 \in K THEN f[1] ELSE 0) + (IF 2 \in K THEN f[2] ELSE 0)
<1>1. g[{}] = 0 /\ \A s \in SUBSET K : s # {} => g[s] = g[s \ {Pick(s)}] + f[Pick(s)]
  BY DEF Adds, AddsOn
<1>2. ASSUME NEW k \in K PROVE g[{k}] = f[k]
  <2>1. Pick({k}) = k
    BY PickIsOne
  <2>2. g[{k}] = g[{k} \ {k}] + f[k]
    BY <1>1, <2>1
  <2>3. {k} \ {k} = {}
    OBVIOUS
  <2>4. PICK x : x = f[k] /\ x \in Nat
    OBVIOUS
  <2>5. 0 + x = x
    BY <2>4
  <2> QED
    BY <1>1, <2>2, <2>3, <2>4, <2>5
<1>3. CASE K = {}
  BY <1>1, <1>3
<1>4. CASE K = {1}
  <2>1. g[K] = f[1] /\ f[1] \in Nat /\ 1 \in K /\ 2 \notin K
    BY <1>2, <1>4
  <2> QED
    BY <2>1
<1>5. CASE K = {2}
  <2>1. g[K] = f[2] /\ f[2] \in Nat /\ 2 \in K /\ 1 \notin K
    BY <1>2, <1>5
  <2> QED
    BY <2>1
<1>6. CASE K = {1, 2}
  <2>1. PICK k : k = Pick(K) /\ k \in K
    BY <1>6, PickIsOne
  <2>2. g[K] = g[K \ {k}] + f[k]
    BY <1>1, <1>6, <2>1
  <2>3. g[{1}] = f[1] /\ g[{2}] = f[2] /\ f[1] \in Nat /\ f[2] \in Nat /\ 1 \in K /\ 2 \in K
    BY <1>2, <1>6
  <2>4. CASE k = 1
    <3>1. K \ {k} = {2}
      BY <1>6, <2>4
    <3>2. g[K] = f[2] + f[1]
      BY <2>2, <2>3, <2>4, <3>1
    <3> QED
      BY <2>3, <3>2
  <2>5. CASE k = 2
    <3>1. K \ {k} = {1}
      BY <1>6, <2>5
    <3>2. g[K] = f[1] + f[2]
      BY <2>2, <2>3, <2>5, <3>1
    <3> QED
      BY <2>3, <3>2
  <2> QED
    BY <1>6, <2>1, <2>4, <2>5
<1> QED
  BY <1>3, <1>4, <1>5, <1>6

\* What a ranking gives to a document.
Gives(q, S, id) == IF id \in S THEN RankScore(Position(q, id)) ELSE 0

LEMMA FusedIs ==
    ASSUME NEW w, NEW S, Lists(w, S), NEW n, NEW T, Lists(n, T),
           Short(S), Short(T), NEW id
    PROVE  FusedScore(<<w, n>>, id) = Gives(w, S, id) + Gives(n, T, id)
<1>1. PICK r, K : r = <<w, n>> /\ K = {k \in DOMAIN r : id \in Range(r[k])}
  OBVIOUS
<1>2. DOMAIN r = {1, 2} /\ r[1] = w /\ r[2] = n
  BY <1>1
<1>3. K \subseteq {1, 2} /\ (1 \in K <=> id \in S) /\ (2 \in K <=> id \in T)
  <2>1. Range(w) = S /\ Range(n) = T
    BY ListsRange
  <2> QED
    BY <1>1, <1>2, <2>1
<1>4. IsFiniteSet(K)
  <2>1. IsFiniteSet({1, 2}) /\ K \in SUBSET {1, 2}
    <3>1. IsFiniteSet({} \union {1})
      BY FS_EmptySet, OneMore
    <3>2. PICK one : one = {} \union {1} /\ IsFiniteSet(one)
      BY <3>1
    <3>3. IsFiniteSet(one \union {2}) /\ one \union {2} = {1, 2}
      BY <3>2, OneMore
    <3> QED
      BY <1>3, <3>3
  <2> QED
    BY <2>1, FS_Subset
<1>5. PICK f : f = [k \in K |-> RankScore(Position(r[k], id))]
  OBVIOUS
<1>6. /\ 1 \in K => f[1] = Gives(w, S, id) /\ f[1] \in Nat
      /\ 2 \in K => f[2] = Gives(n, T, id) /\ f[2] \in Nat
  <2>1. ASSUME 1 \in K PROVE f[1] = Gives(w, S, id) /\ f[1] \in Nat
    <3>1. id \in S /\ f[1] = RankScore(Position(w, id))
      BY <1>2, <1>3, <1>5, <2>1
    <3>2. PICK i : i = Position(w, id) /\ i \in Positions
      BY <3>1, Place
    <3>3. RankScore(i) \in Nat
      BY <3>2, RankScoreType
    <3> QED
      BY <3>1, <3>2, <3>3 DEF Gives
  <2>2. ASSUME 2 \in K PROVE f[2] = Gives(n, T, id) /\ f[2] \in Nat
    <3>1. id \in T /\ f[2] = RankScore(Position(n, id))
      BY <1>2, <1>3, <1>5, <2>2
    <3>2. PICK i : i = Position(n, id) /\ i \in Positions
      BY <3>1, Place
    <3>3. RankScore(i) \in Nat
      BY <3>2, RankScoreType
    <3> QED
      BY <3>1, <3>2, <3>3 DEF Gives
  <2> QED
    BY <2>1, <2>2
<1>7. \A k \in K : f[k] \in Nat
  BY <1>3, <1>6
<1> DEFINE P(it) == it = [s \in SUBSET K |->
                            IF s = {} THEN 0 ELSE RankScore(Position(r[Pick(s)], id)) + it[s \ {Pick(s)}]]
<1>8. ASSUME NEW it PROVE P(it) <=> Adds(it, f, K)
  <2>1. SumsUp(it, f, K) <=> Adds(it, f, K)
    BY <1>4, <1>7, SumsAdd
  <2>2. ASSUME NEW s \in SUBSET K, s # {} PROVE f[Pick(s)] = RankScore(Position(r[Pick(s)], id))
    <3>1. Pick(s) \in K
      BY <2>2, PickIsOne
    <3> QED
      BY <1>5, <3>1
  <2>3. P(it) <=> SumsUp(it, f, K)
    BY <2>2 DEF SumsUp
  <2> QED
    BY <2>1, <2>3
<1>9. \E it : P(it)
  <2>1. \E it : Adds(it, f, K)
    BY <1>4, AddsExists
  <2> QED
    BY <1>8, <2>1
<1>10. PICK g : g = CHOOSE it : P(it)
  OBVIOUS
<1>11. P(g)
  BY <1>9, <1>10
<1>12. FusedScore(r, id) = g[K]
  BY <1>1, <1>10 DEF FusedScore, MapThenSumSet, MapThenFoldSet, Pick, Position
<1>13. Adds(g, f, K)
  BY <1>8, <1>11
<1>14. g[K] = (IF 1 \in K THEN f[1] ELSE 0) + (IF 2 \in K THEN f[2] ELSE 0)
  BY <1>3, <1>7, <1>13, SumOfTwo
<1>15. (IF 1 \in K THEN f[1] ELSE 0) = Gives(w, S, id) /\ (IF 2 \in K THEN f[2] ELSE 0) = Gives(n, T, id)
  BY <1>3, <1>6 DEF Gives
<1> QED
  BY <1>1, <1>12, <1>14, <1>15

LEMMA GivesType ==
    ASSUME NEW q, NEW S, Lists(q, S), Short(S), NEW id
    PROVE  Gives(q, S, id) \in Nat /\ (id \in S => Gives(q, S, id) >= 1)
<1>1. CASE id \in S
  <2>1. PICK i : i = Position(q, id) /\ i \in Positions
    BY <1>1, Place
  <2> QED
    BY <1>1, <2>1, RankScoreType DEF Gives
<1>2. CASE id \notin S
  BY <1>2 DEF Gives
<1> QED
  BY <1>1, <1>2

\* a is in s, and b is not or behind it.
Ahead(s, a, b) == \E i \in DOMAIN s : s[i] = a /\ \A j \in DOMAIN s : s[j] = b => i < j

LEMMA AheadGives ==
    ASSUME NEW q, NEW S, Lists(q, S), Short(S), NEW a, NEW b, Ahead(q, a, b)
    PROVE  a \in S /\ Gives(q, S, a) > Gives(q, S, b)
<1>1. PICK i \in DOMAIN q : q[i] = a /\ \A j \in DOMAIN q : q[j] = b => i < j
  BY DEF Ahead
<1>2. a \in S
  BY <1>1 DEF Lists, IsListing
<1>3. i = Position(q, a) /\ i \in Positions
  BY <1>1, <1>2, Place
<1>4. Gives(q, S, a) = RankScore(i) /\ RankScore(i) \in Nat /\ RankScore(i) >= 1
  BY <1>2, <1>3, RankScoreType DEF Gives
<1>5. CASE b \in S
  <2>1. PICK j : j = Position(q, b) /\ j \in Positions /\ j \in DOMAIN q /\ q[j] = b
    BY <1>5, Place
  <2>2. i < j
    BY <1>1, <2>1
  <2>3. RankScore(i) > RankScore(j)
    <3>1. i \in Positions /\ j \in Positions
      BY <1>3, <2>1
    <3> QED
      BY <2>2, <3>1, RankScoreFalls
  <2>4. Gives(q, S, b) = RankScore(j)
    BY <1>5, <2>1 DEF Gives
  <2> QED
    BY <1>2, <1>4, <2>3, <2>4
<1>6. CASE b \notin S
  <2>1. Gives(q, S, b) = 0
    BY <1>6 DEF Gives
  <2> QED
    BY <1>2, <1>4, <2>1
<1> QED
  BY <1>5, <1>6

FusedBefore(r, a, b) ==
    \/ FusedScore(r, a) > FusedScore(r, b)
    \/ FusedScore(r, a) = FusedScore(r, b) /\ a < b

FusedList(r, U) ==
    [i \in 1..Cardinality(U) |-> CHOOSE a \in U : Cardinality({b \in U \ {a} : FusedBefore(r, b, a)}) = i - 1]

LEMMA FusionSorts ==
    ASSUME NEW r
    PROVE  ReciprocalRankFusion(r, 0) = FusedList(r, AllRanked(r))
  BY DEF ReciprocalRankFusion, Limited, Sorted, FusedBefore, FusedList

\* The fused ranking has what either has, and keeps what both agree on.
LEMMA FusionAgrees ==
    ASSUME NEW w, NEW S, Lists(w, S), NEW n, NEW T, Lists(n, T),
           Short(S), Short(T),
           NEW fused, fused = ReciprocalRankFusion(<<w, n>>, 0)
    PROVE  /\ Range(fused) = Range(w) \union Range(n)
           /\ \A a, b \in Range(fused) : Ahead(w, a, b) /\ Ahead(n, a, b) => Ahead(fused, a, b)
<1>1. PICK r, U, key : r = <<w, n>> /\ U = S \union T /\ key = [id \in U |-> -FusedScore(r, id)]
  OBVIOUS
<1>2. DOMAIN r = {1, 2} /\ r[1] = w /\ r[2] = n
  BY <1>1
<1>3. Range(w) = S /\ Range(n) = T
  BY ListsRange
<1>4. AllRanked(r) = U
  BY <1>1, <1>2, <1>3 DEF AllRanked
<1>5. \A id \in U : FusedScore(r, id) = Gives(w, S, id) + Gives(n, T, id) /\ FusedScore(r, id) \in Nat
  <2>1. ASSUME NEW id \in U
        PROVE  FusedScore(r, id) = Gives(w, S, id) + Gives(n, T, id) /\ FusedScore(r, id) \in Nat
    <3>1. FusedScore(r, id) = Gives(w, S, id) + Gives(n, T, id)
      BY <1>1, FusedIs
    <3>2. Gives(w, S, id) \in Nat /\ Gives(n, T, id) \in Nat
      BY GivesType
    <3> QED
      BY <3>1, <3>2
  <2> QED
    BY <2>1
<1>6. IsKey(key, U)
  <2>1. IsFiniteSet(S) /\ IsFiniteSet(T) /\ U \subseteq Nat
    BY <1>1 DEF Lists
  <2>2. IsFiniteSet(U)
    BY <1>1, <2>1, FS_Union
  <2>3. \A id \in U : key[id] \in Int
    BY <1>1, <1>5
  <2> QED
    BY <2>1, <2>2, <2>3 DEF IsKey
<1>7. \A a, b \in U : FusedBefore(r, a, b) <=> KeyBefore(key, a, b)
  <2>1. ASSUME NEW a \in U, NEW b \in U PROVE FusedBefore(r, a, b) <=> KeyBefore(key, a, b)
    <3>1. PICK x, y : x = FusedScore(r, a) /\ y = FusedScore(r, b) /\ x \in Nat /\ y \in Nat
      BY <1>5
    <3>2. key[a] = -x /\ key[b] = -y
      BY <1>1, <3>1
    <3>3. FusedBefore(r, a, b) <=> (x > y \/ (x = y /\ a < b))
      BY <3>1 DEF FusedBefore
    <3>4. KeyBefore(key, a, b) <=> (-x < -y \/ (-x = -y /\ a < b))
      BY <3>2 DEF KeyBefore
    <3> QED
      BY <3>1, <3>3, <3>4
  <2> QED
    BY <2>1
<1>8. \A a \in U : {b \in U \ {a} : FusedBefore(r, b, a)} = Preds(key, U, a)
  BY <1>7 DEF Preds
<1>9. PICK q : /\ q = FusedList(r, U)
              /\ q = [i \in 1..Cardinality(U) |->
                        CHOOSE a \in U : Cardinality({b \in U \ {a} : FusedBefore(r, b, a)}) = i - 1]
  BY DEF FusedList
<1>10. ASSUME NEW i \in 1..Cardinality(U)
       PROVE  q[i] \in U /\ Cardinality(Preds(key, U, q[i])) = i - 1
  <2>1. \E a \in U : Cardinality(Preds(key, U, a)) = i - 1
    BY <1>6, RanksFill
  <2>2. \E a \in U : Cardinality({b \in U \ {a} : FusedBefore(r, b, a)}) = i - 1
    BY <1>8, <2>1
  <2>3. PICK c : c = CHOOSE a \in U : Cardinality({b \in U \ {a} : FusedBefore(r, b, a)}) = i - 1
    OBVIOUS
  <2>4. c \in U /\ Cardinality({b \in U \ {c} : FusedBefore(r, b, c)}) = i - 1
    BY <2>2, <2>3
  <2>5. q[i] = c
    BY <1>9, <2>3
  <2> QED
    BY <1>8, <2>4, <2>5
<1>11. fused = q
  <2>1. fused = ReciprocalRankFusion(r, 0)
    BY <1>1
  <2> QED
    BY <1>4, <1>9, <2>1, FusionSorts
<1>12. HasRanks(q, U, key)
  BY <1>10 DEF HasRanks
<1>13. IsSorting(q, U, key)
  BY <1>6, <1>12, RanksSort
<1>14. q \in [1..Cardinality(U) -> U]
  BY <1>9, <1>10
<1>15. Lists(q, U)
  BY <1>6, <1>13, <1>14, SortingLists
<1>16. Range(fused) = U
  BY <1>11, <1>15, ListsRange
<1>17. ASSUME NEW a \in U, NEW b \in U, Ahead(w, a, b), Ahead(n, a, b) PROVE Ahead(fused, a, b)
  <2>1. Gives(w, S, a) > Gives(w, S, b)
    BY <1>17, AheadGives
  <2>2. Gives(n, T, a) > Gives(n, T, b)
    BY <1>17, AheadGives
  <2>3. PICK x1, x2, y1, y2 : /\ x1 = Gives(w, S, a) /\ x2 = Gives(n, T, a)
                              /\ y1 = Gives(w, S, b) /\ y2 = Gives(n, T, b)
                              /\ x1 \in Nat /\ x2 \in Nat /\ y1 \in Nat /\ y2 \in Nat
    BY GivesType
  <2>4. x1 + x2 > y1 + y2
    BY <2>1, <2>2, <2>3
  <2>5. key[a] = -(x1 + x2) /\ key[b] = -(y1 + y2)
    BY <1>1, <1>5, <2>3
  <2>6. KeyBefore(key, a, b)
    BY <2>3, <2>4, <2>5 DEF KeyBefore
  <2>7. PICK N : N = Cardinality(U) /\ N \in Nat /\ DOMAIN q = 1..N
    BY <1>15 DEF Lists, IsListing
  <2>8. PICK i \in 1..N : q[i] = a
    BY <1>13, <2>7 DEF IsSorting
  <2>9. ASSUME NEW j \in 1..N, q[j] = b PROVE i < j
    <3>1. a # b /\ ~ KeyBefore(key, b, a)
      BY <1>6, <2>6, KeyStrict
    <3>2. j < i => KeyBefore(key, q[j], q[i])
      BY <1>13, <2>7 DEF IsSorting
    <3>3. i # j
      BY <2>8, <2>9, <3>1
    <3> QED
      BY <2>7, <2>8, <2>9, <3>1, <3>2, <3>3
  <2> QED
    BY <1>11, <2>7, <2>8, <2>9 DEF Ahead
<1> QED
  BY <1>3, <1>1, <1>16, <1>17

-----------------------------------------------------------------------------
(* The lexical ranking.                                                    *)

Counts == [titleFrequency : Nat, bodyFrequency : Nat]
Lengths == [title : Nat, body : Nat]
Totals == [documents : Nat \ {0}, title : Nat, body : Nat]

\* The score of a term is a number that is not negative, for what an index can count.
ScoresAreNumbers ==
    \A p \in Counts, l \in Lengths, t \in Totals : \A n \in 0..t.documents : TermScore(p, l, n, t) \in Nat

\* The summand of score() for the term t.
TermPart(index, id, t) ==
    TermScore(At(At(index.postings, t, Empty), id, [titleFrequency |-> 0, bodyFrequency |-> 0]),
              index.lengths[id],
              Cardinality(DOMAIN At(index.postings, t, Empty)),
              [documents |-> Cardinality(DOMAIN index.documents),
               title |-> index.totalTitleTerms, body |-> index.totalBodyTerms])

LEMMA FrequencyType ==
    ASSUME NEW D, NEW text \in Seq(D), NEW t
    PROVE  Frequency(t, text) \in Nat
<1>1. PICK n, S : n = Len(text) /\ S = {i \in DOMAIN text : text[i] = t} /\ n \in Nat /\ DOMAIN text = 1..n
  BY LenProperties
<1>2. IsFiniteSet(1..n) /\ S \in SUBSET (1..n)
  BY <1>1, FS_Interval
<1>3. IsFiniteSet(S)
  BY <1>2, FS_Subset
<1>4. Cardinality(S) \in Nat
  BY <1>3, FS_CardinalityType
<1> QED
  BY <1>1, <1>4 DEF Frequency

LEMMA TotalsType ==
    ASSUME NEW docs, HasLengths(docs)
    PROVE  TitleSum(docs) \in Nat /\ BodySum(docs) \in Nat
<1>1. IsFiniteSet(DOMAIN docs)
  BY DEF HasLengths
<1>2. TitleSum(docs) \in Nat
  <2>1. PICK f, g, S : /\ f = TitleLengths(docs) /\ S = DOMAIN docs /\ Adds(g, f, S) /\ TitleSum(docs) = g[S]
    BY TitlesAdd
  <2>2. \A n \in S : f[n] \in Nat
    BY <2>1 DEF TitleLengths, HasLengths
  <2>3. g[S] \in Nat
    BY <1>1, <2>1, <2>2, AddsAnyOrder
  <2> QED
    BY <2>1, <2>3
<1>3. BodySum(docs) \in Nat
  <2>1. PICK f, g, S : /\ f = BodyLengths(docs) /\ S = DOMAIN docs /\ Adds(g, f, S) /\ BodySum(docs) = g[S]
    BY BodiesAdd
  <2>2. \A n \in S : f[n] \in Nat
    BY <2>1 DEF BodyLengths, HasLengths
  <2>3. g[S] \in Nat
    BY <1>1, <2>1, <2>2, AddsAnyOrder
  <2> QED
    BY <2>1, <2>3
<1> QED
  BY <1>2, <1>3

\* What is looked up for a term is what the documents have of it.
LEMMA LookupIs ==
    ASSUME NEW docs, NEW t, NEW at, at = At(PostingsOf(docs), t, Empty)
    PROVE  DOMAIN at = Having(docs, t) /\ \A id \in Having(docs, t) : at[id] = PostingOf(t, docs[id])
<1>1. CASE t \in TermsIn(docs)
  BY <1>1 DEF At, PostingsOf
<1>2. CASE t \notin TermsIn(docs)
  <2>1. Having(docs, t) = {}
    BY <1>2, TermsInIs
  <2>2. at = Empty
    BY <1>2 DEF At, PostingsOf
  <2> QED
    BY <2>1, <2>2 DEF Empty
<1> QED
  BY <1>1, <1>2

LEMMA PartType ==
    ASSUME ScoresAreNumbers, NEW index, NEW docs, IsDocs(docs), LexicalIs(index, docs),
           NEW id \in DOMAIN docs, NEW t
    PROVE  TermPart(index, id, t) \in Nat
<1>1. PICK at, p, l, n, total :
        /\ at = At(index.postings, t, Empty)
        /\ p = At(at, id, [titleFrequency |-> 0, bodyFrequency |-> 0])
        /\ l = index.lengths[id]
        /\ n = Cardinality(DOMAIN at)
        /\ total = [documents |-> Cardinality(DOMAIN index.documents),
                    title |-> index.totalTitleTerms, body |-> index.totalBodyTerms]
  OBVIOUS
<1>2. HasLengths(docs) /\ IsFiniteSet(DOMAIN docs)
  BY DocsHaveLengths DEF HasLengths
<1>3. DOMAIN at = Having(docs, t) /\ \A i \in Having(docs, t) : at[i] = PostingOf(t, docs[i])
  <2>1. at = At(PostingsOf(docs), t, Empty)
    BY <1>1 DEF LexicalIs
  <2> QED
    BY <2>1, LookupIs
<1>4. p \in Counts
  <2>1. CASE id \in Having(docs, t)
    <3>1. p = PostingOf(t, docs[id])
      BY <1>1, <1>3, <2>1 DEF At
    <3>2. PICK c : c = docs[id] /\ c.title \in Seq(STRING) /\ c.body \in Seq(STRING)
      BY IndexAssumption DEF IsDocs
    <3>3. Frequency(t, c.title) \in Nat /\ Frequency(t, c.body) \in Nat
      BY <3>2, FrequencyType
    <3> QED
      BY <3>1, <3>2, <3>3 DEF PostingOf, Counts
  <2>2. CASE id \notin Having(docs, t)
    BY <1>1, <1>3, <2>2 DEF At, Counts
  <2> QED
    BY <2>1, <2>2
<1>5. l \in Lengths
  BY <1>1, <1>2 DEF LexicalIs, Lengths, HasLengths
<1>6. PICK N : N = Cardinality(DOMAIN docs) /\ N \in Nat \ {0}
  BY <1>2, FS_CardinalityType, FS_EmptySet
<1>7. n \in 0..N
  <2>1. PICK H : H = Having(docs, t) /\ H \in SUBSET DOMAIN docs
    BY DEF Having
  <2>2. IsFiniteSet(H) /\ Cardinality(H) =< N /\ Cardinality(H) \in Nat
    BY <1>2, <1>6, <2>1, FS_Subset, FS_CardinalityType
  <2> QED
    BY <1>1, <1>3, <1>6, <2>1, <2>2
<1>8. total = [documents |-> N, title |-> TitleSum(docs), body |-> BodySum(docs)]
  BY <1>1, <1>6 DEF LexicalIs
<1>9. total \in Totals /\ total.documents = N
  BY <1>2, <1>6, <1>8, TotalsType DEF Totals
<1>10. TermScore(p, l, n, total) \in Nat
  BY <1>4, <1>5, <1>7, <1>9 DEF ScoresAreNumbers
<1> QED
  BY <1>1, <1>10 DEF TermPart

LEMMA TextScoreType ==
    ASSUME ScoresAreNumbers, NEW index, NEW docs, IsDocs(docs), LexicalIs(index, docs),
           NEW id \in DOMAIN docs, NEW terms, IsFiniteSet(terms)
    PROVE  score(index, id, terms) \in Nat
<1>1. PICK f : f = [t \in terms |-> TermPart(index, id, t)]
  OBVIOUS
<1>2. \A t \in terms : f[t] \in Nat
  BY <1>1, PartType
<1> DEFINE P(it) == it = [s \in SUBSET terms |->
                            IF s = {} THEN 0 ELSE TermPart(index, id, Pick(s)) + it[s \ {Pick(s)}]]
<1>3. ASSUME NEW it PROVE P(it) <=> Adds(it, f, terms)
  <2>1. SumsUp(it, f, terms) <=> Adds(it, f, terms)
    BY <1>2, SumsAdd
  <2>2. ASSUME NEW s \in SUBSET terms, s # {} PROVE f[Pick(s)] = TermPart(index, id, Pick(s))
    <3>1. Pick(s) \in terms
      BY <2>2, PickIsOne
    <3> QED
      BY <1>1, <3>1
  <2>3. P(it) <=> SumsUp(it, f, terms)
    BY <2>2 DEF SumsUp
  <2> QED
    BY <2>1, <2>3
<1>4. \E it : P(it)
  <2>1. \E it : Adds(it, f, terms)
    BY AddsExists
  <2> QED
    BY <1>3, <2>1
<1>5. PICK g : g = CHOOSE it : P(it)
  OBVIOUS
<1>6. P(g)
  BY <1>4, <1>5
<1>7. score(index, id, terms) = g[terms]
  BY <1>5 DEF score, TermPart, MapThenSumSet, MapThenFoldSet, Pick
<1>8. Adds(g, f, terms)
  BY <1>3, <1>6
<1>9. g[terms] \in Nat
  BY <1>2, <1>8, AddsAnyOrder
<1> QED
  BY <1>7, <1>9

\* The order that LexicalSearch sorts by, and its list.
WordsBefore(index, terms, a, b) ==
    \/ score(index, a, terms) > score(index, b, terms)
    \/ score(index, a, terms) = score(index, b, terms) /\ a < b

WordsList(index, terms, U) ==
    [i \in 1..Cardinality(U) |->
        CHOOSE a \in U : Cardinality({b \in U \ {a} : WordsBefore(index, terms, b, a)}) = i - 1]

LEMMA WordsSort ==
    ASSUME NEW index, NEW query
    PROVE  LexicalSearch(index, query, "any", 0)
             = IF Range(query) = {} THEN << >>
               ELSE WordsList(index, Range(query), matchingDocuments(index, Range(query), "any"))
  BY DEF LexicalSearch, Limited, Sorted, WordsBefore, WordsList

LEMMA RangeFinite ==
    ASSUME NEW D, NEW list \in Seq(D)
    PROVE  IsFiniteSet(Range(list))
<1>1. PICK n : n = Len(list) /\ n \in Nat /\ Range(list) = {list[i] : i \in 1..n}
  BY ListFacts
<1>2. IsFiniteSet(1..n)
  BY <1>1, FS_Interval
<1>3. PICK f, S : f = [i \in 1..n |-> list[i]] /\ S = Range(list)
  OBVIOUS
<1>4. f \in Surjection(1..n, S)
  BY <1>1, <1>3 DEF Surjection
<1>5. IsFiniteSet(S)
  BY <1>2, <1>4, FS_Surjection
<1> QED
  BY <1>3, <1>5

LEMMA NothingLists == Lists(<< >>, {})
<1>1. Cardinality({}) = 0 /\ IsFiniteSet({})
  BY FS_EmptySet
<1>2. 1..0 = {} /\ DOMAIN << >> = {} /\ Len(<< >>) = 0
  OBVIOUS
<1> QED
  BY <1>1, <1>2 DEF Lists, IsListing

\* The lexical search has each document it finds once.
LEMMA WordsRanked ==
    ASSUME ScoresAreNumbers, NEW index, NEW docs, IsDocs(docs), LexicalIs(index, docs), NEW query \in Seq(STRING)
    PROVE  \E S : S \subseteq DOMAIN docs /\ Lists(LexicalSearch(index, query, "any", 0), S)
<1>1. PICK terms : terms = Range(query) /\ IsFiniteSet(terms)
  BY RangeFinite
<1>2. CASE terms = {}
  <2>1. LexicalSearch(index, query, "any", 0) = << >>
    BY <1>1, <1>2, WordsSort
  <2> QED
    BY <2>1, NothingLists
<1>3. CASE terms # {}
  <2>1. PICK U : U = matchingDocuments(index, terms, "any")
    OBVIOUS
  <2>2. U \subseteq DOMAIN docs
    <3>1. \A t : DOMAIN At(index.postings, t, Empty) \subseteq DOMAIN docs
      <4>1. ASSUME NEW t PROVE DOMAIN At(index.postings, t, Empty) \subseteq DOMAIN docs
        <5>1. PICK at : at = At(index.postings, t, Empty) /\ at = At(PostingsOf(docs), t, Empty)
          BY DEF LexicalIs
        <5>2. DOMAIN at = Having(docs, t)
          BY <5>1, LookupIs
        <5> QED
          BY <5>1, <5>2 DEF Having
      <4> QED
        BY <4>1
    <3> QED
      BY <2>1, <3>1 DEF matchingDocuments
  <2>3. IsFiniteSet(U) /\ U \subseteq Nat
    <3>1. IsFiniteSet(DOMAIN docs) /\ DOMAIN docs \subseteq Nat
      BY DocsHaveLengths, IndexAssumption DEF HasLengths, IsDocs
    <3>2. U \in SUBSET DOMAIN docs
      BY <2>2
    <3> QED
      BY <3>1, <3>2, FS_Subset
  <2>4. \A id \in U : score(index, id, terms) \in Nat
    BY <1>1, <2>2, TextScoreType
  <2>5. PICK key : key = [id \in U |-> -score(index, id, terms)]
    OBVIOUS
  <2>6. IsKey(key, U)
    <3>1. \A id \in U : key[id] \in Int
      BY <2>4, <2>5
    <3> QED
      BY <2>3, <3>1 DEF IsKey
  <2>7. \A a, b \in U : WordsBefore(index, terms, a, b) <=> KeyBefore(key, a, b)
    <3>1. ASSUME NEW a \in U, NEW b \in U PROVE WordsBefore(index, terms, a, b) <=> KeyBefore(key, a, b)
      <4>1. PICK x, y : /\ x = score(index, a, terms) /\ y = score(index, b, terms)
                        /\ x \in Nat /\ y \in Nat
        BY <2>4
      <4>2. key[a] = -x /\ key[b] = -y
        BY <2>5, <4>1
      <4>3. WordsBefore(index, terms, a, b) <=> (x > y \/ (x = y /\ a < b))
        BY <4>1 DEF WordsBefore
      <4>4. KeyBefore(key, a, b) <=> (-x < -y \/ (-x = -y /\ a < b))
        BY <4>2 DEF KeyBefore
      <4> QED
        BY <4>1, <4>3, <4>4
    <3> QED
      BY <3>1
  <2>8. \A a \in U : {b \in U \ {a} : WordsBefore(index, terms, b, a)} = Preds(key, U, a)
    BY <2>7 DEF Preds
  <2>9. PICK q : /\ q = WordsList(index, terms, U)
                 /\ q = [i \in 1..Cardinality(U) |->
                          CHOOSE a \in U : Cardinality({b \in U \ {a} : WordsBefore(index, terms, b, a)}) = i - 1]
    BY DEF WordsList
  <2>10. ASSUME NEW i \in 1..Cardinality(U)
         PROVE  q[i] \in U /\ Cardinality(Preds(key, U, q[i])) = i - 1
    <3>1. \E a \in U : Cardinality(Preds(key, U, a)) = i - 1
      BY <2>6, RanksFill
    <3>2. \E a \in U : Cardinality({b \in U \ {a} : WordsBefore(index, terms, b, a)}) = i - 1
      BY <2>8, <3>1
    <3>3. PICK c : c = CHOOSE a \in U : Cardinality({b \in U \ {a} : WordsBefore(index, terms, b, a)}) = i - 1
      OBVIOUS
    <3>4. c \in U /\ Cardinality({b \in U \ {c} : WordsBefore(index, terms, b, c)}) = i - 1
      BY <3>2, <3>3
    <3>5. q[i] = c
      BY <2>9, <3>3
    <3> QED
      BY <2>8, <3>4, <3>5
  <2>11. HasRanks(q, U, key)
    BY <2>10 DEF HasRanks
  <2>12. IsSorting(q, U, key)
    BY <2>6, <2>11, RanksSort
  <2>13. q \in [1..Cardinality(U) -> U]
    BY <2>9, <2>10
  <2>14. Lists(q, U)
    BY <2>6, <2>12, <2>13, SortingLists
  <2>15. LexicalSearch(index, query, "any", 0) = q
    BY <1>1, <1>3, <2>1, <2>9, WordsSort
  <2> QED
    BY <2>2, <2>14, <2>15
<1> QED
  BY <1>2, <1>3

-----------------------------------------------------------------------------
(* The ranking by vectors, and the hybrid one.                             *)

\* The search of the graph has each document it finds once.
LEMMA NearRanked ==
    ASSUME NEW g, NEW points, IsPoints(points), GraphOf(g, DOMAIN points, points), NEW p \in Int
    PROVE  \E S : S \subseteq DOMAIN points /\ Lists(HNSWSearch(g, p, 0), S)
<1>1. PICK D, nodes : D = DOMAIN points /\ nodes = g.nodes /\ DOMAIN nodes = D
  BY DEF GraphOf
<1>2. CASE D = {}
  <2>1. HNSWSearch(g, p, 0) = << >>
    BY <1>1, <1>2 DEF HNSWSearch
  <2> QED
    BY <2>1, NothingLists
<1>3. CASE D # {}
  <2>1. SoundGraph(g)
    BY <1>1, <1>3 DEF GraphOf
  <2>2. PICK high : high = g.highestLevel
    OBVIOUS
  <2>3. GoodNodes(nodes) /\ high \in Nat /\ g.entryID \in OnLevel(nodes, high)
    BY <1>1, <2>1, <2>2 DEF SoundGraph
  <2>4. \A n \in DOMAIN nodes : nodes[n].level \in Nat
    BY <2>3 DEF GoodNodes, IsNode
  <2>5. OnLevel(nodes, 0) = D
    <3>1. \A n \in D : n \in DOMAIN nodes /\ nodes[n].level >= 0
      BY <1>1, <2>4
    <3>2. \A n \in OnLevel(nodes, 0) : n \in D
      BY <1>1 DEF OnLevel
    <3>3. \A n \in D : n \in OnLevel(nodes, 0)
      BY <3>1 DEF OnLevel
    <3> QED
      BY <3>2, <3>3
  <2>6. PICK entry : entry = Descend(nodes, p, g.entryID, high, 1)
    OBVIOUS
  <2>7. entry \in D
    <3>1. Layered(nodes, p, 1, high)
      <4>1. \A l \in 1..high : l \in Nat
        OBVIOUS
      <4> QED
        BY <2>3, <4>1, GoodLayer DEF Layered
    <3>2. /\ 1 =< high => entry \in OnLevel(nodes, 1)
          /\ high < 1 => entry = g.entryID
      BY <2>3, <2>4, <2>6, <3>1, DescendStays
    <3> QED
      BY <1>1, <2>3, <3>2 DEF OnLevel
  <2>8. Layer(nodes, p, 0, D) /\ Closed(nodes, p, 0, D)
    <3>1. Layer(nodes, p, 0, OnLevel(nodes, 0))
      BY <2>3, GoodLayer
    <3> QED
      BY <2>5, <3>1 DEF Layer
  <2>9. PICK breadth : breadth = Max({EFSearch, 0}) /\ breadth \in Nat \ {0}
    <3>1. EFSearch \in Nat /\ EFSearch >= 1
      BY IndexAssumption
    <3>2. Max({EFSearch, 0}) = IF EFSearch >= 0 THEN EFSearch ELSE 0
      BY <3>1, TwoNumbers
    <3> QED
      BY <3>1, <3>2
  <2>10. PICK R : R \subseteq D /\ searchLayer(nodes, p, entry, breadth, 0) = Ordered(nodes, p, R)
    BY <2>7, <2>8, <2>9, SearchLayerFinds
  <2>11. Comparable(nodes, p, R)
    BY <1>1, <2>3, <2>10, GoodComparable
  <2>12. PICK r, key : /\ r = Ordered(nodes, p, R) /\ key = DistanceKey(nodes, p, R)
                       /\ IsSorting(r, R, key) /\ IsKey(key, R) /\ r \in [1..Cardinality(R) -> R]
    BY <2>11, OrderedIs, CloserIs
  <2>13. Lists(r, R)
    BY <2>12, SortingLists
  <2>14. HNSWSearch(g, p, 0) = r
    <3>1. HNSWSearch(g, p, 0) = Limited(searchLayer(nodes, p, entry, breadth, 0), 0)
      BY <1>1, <1>3, <2>2, <2>6, <2>9 DEF HNSWSearch
    <3> QED
      BY <2>10, <2>12, <3>1 DEF Limited
  <2> QED
    BY <1>1, <2>10, <2>13, <2>14
<1> QED
  BY <1>2, <1>3

\* A document that both rankings have ahead of another is ahead of it in the hybrid
\* ranking, which has what either has (ReciprocalRankFusion of vector/fusion.go).  It
\* takes scores that are numbers, and no more documents than the ranks of the model
\* tell apart.
THEOREM FusionKeeps == ScoresAreNumbers /\ Short(Ids) => (IndexSpec => []FusionKeepsAgreement)
<1> SUFFICES ASSUME ScoresAreNumbers, Short(Ids) PROVE IndexSpec => []FusionKeepsAgreement
  OBVIOUS
<1>1. IndexInv => FusionKeepsAgreement
  <2> SUFFICES ASSUME IndexInv, NEW text \in Answered,
                      NEW words, words = RankedIDs(text, "lexical"),
                      NEW near, near = RankedIDs(text, "vector"),
                      NEW fused, fused = RankedIDs(text, "hybrid")
               PROVE  /\ Range(fused) = Range(words) \union Range(near)
                      /\ \A a, b \in Range(fused) :
                           Ahead(words, a, b) /\ Ahead(near, a, b) => Ahead(fused, a, b)
    BY DEF FusionKeepsAgreement, Ahead
  <2>1. PICK g, points, p : g = vectors.graph /\ points = PointsOf(documents) /\ p = Embed(text)
    OBVIOUS
  <2>2. IsPoints(points) /\ GraphOf(g, DOMAIN points, points) /\ DOMAIN points = DOMAIN documents
    BY <2>1, DocsHavePoints DEF IndexInv, VectorsAre, PointsOf
  <2>3. p \in Int /\ text \in Seq(STRING)
    BY <2>1, IndexAssumption DEF Answered, normalize
  <2>4. words = LexicalSearch(lexical, text, "any", 0)
    BY DEF RankedIDs
  <2>5. near = HNSWSearch(g, p, 0)
    BY <2>1 DEF RankedIDs
  <2>6. fused = ReciprocalRankFusion(<<words, near>>, 0)
    BY <2>1, <2>4, <2>5 DEF RankedIDs
  <2>7. PICK S : S \subseteq Ids /\ Lists(words, S)
    BY <2>3, <2>4, WordsRanked DEF IndexInv, IsDocs
  <2>8. PICK T : T \subseteq Ids /\ Lists(near, T)
    BY <2>2, <2>3, <2>5, NearRanked DEF IndexInv, IsDocs
  <2>9. ASSUME NEW V, V \subseteq Ids PROVE Short(V)
    <3>1. V \in SUBSET Ids /\ IsFiniteSet(Ids)
      BY <2>9, IndexAssumption
    <3>2. Cardinality(V) =< Cardinality(Ids) /\ Cardinality(V) \in Nat /\ Cardinality(Ids) \in Nat
      BY <3>1, FS_Subset, FS_CardinalityType
    <3> QED
      BY <3>2 DEF Short
  <2>10. Short(S) /\ Short(T)
    BY <2>7, <2>8, <2>9
  <2> QED
    BY <2>6, <2>7, <2>8, <2>10, FusionAgrees
<1> QED
  BY <1>1, IndexInvariant, PTL

=============================================================================
