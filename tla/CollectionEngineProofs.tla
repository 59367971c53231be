----------------------- MODULE CollectionEngineProofs -----------------------
(***************************************************************************)
(* The document engine keeps a durable collection, for every set of        *)
(* documents and every MaxSequence.  Three layers, each on top of the one  *)
(* before:                                                                 *)
(*   what scanLog finds in a log file;                                     *)
(*   the write-ahead log: LogInv is inductive, and implies AckedDurable,   *)
(*   TruncatedStaysGone and NoSequenceReuse;                               *)
(*   the engine: EngineInv says how the log explains what was acknowledged,*)
(*   and every step of the engine is one of DurableCollection.             *)
(***************************************************************************)
EXTENDS CollectionEngine, TLAPS, SequenceTheorems, WellFoundedInduction

-----------------------------------------------------------------------------
(* Least and greatest elements.                                            *)

\* A set of naturals that is not empty has a least element: this is how the
\* lemmas below argue about a file unit by unit, as scanLog reads it.
LEMMA LeastNatural ==
    ASSUME NEW T, T \subseteq Nat, T # {}
    PROVE  \E x \in T : \A y \in T : x =< y
<1>1. PICK x \in T : \A y \in T : ~ (<<y, x>> \in OpToRel(<, Nat))
  BY WFMin, NatLessThanWellFounded
<1>2. \A y \in T : ~ (y < x)
  BY <1>1 DEF OpToRel
<1>3. \A y \in T : x =< y
  <2> SUFFICES ASSUME NEW y \in T PROVE x =< y
    OBVIOUS
  <2>1. x \in Nat /\ y \in Nat
    OBVIOUS
  <2> QED
    BY <1>2, <2>1
<1> QED
  BY <1>3

\* The Max that ScanLast and ScanCommitted take is well defined.
LEMMA MaxOfSequences ==
    ASSUME NEW N \in Nat, NEW S, S \subseteq 0..N, S # {}
    PROVE  Max(S) \in S /\ \A y \in S : y =< Max(S)
<1> DEFINE T == {N - s : s \in S}
<1>0. \A s \in S : s \in Nat /\ s =< N
  OBVIOUS
<1>1. T \subseteq Nat /\ T # {}
  <2>1. \A s \in S : N - s \in Nat
    BY <1>0
  <2> QED
    BY <2>1
<1>2. PICK t \in T : \A y \in T : t =< y
  BY <1>1, LeastNatural
<1>3. PICK s \in S : t = N - s
  BY <1>2
<1>4. \A y \in S : s >= y
  <2> SUFFICES ASSUME NEW y \in S PROVE s >= y
    OBVIOUS
  <2>1. N - y \in T
    OBVIOUS
  <2>2. N - s =< N - y
    BY <1>2, <1>3, <2>1
  <2> QED
    BY <1>0, <2>2
<1> QED
  BY <1>4 DEF Max

-----------------------------------------------------------------------------
(* What a scan finds.                                                      *)

\* The first n units of a file are a header and records that scanLog accepts.
Accepted(u, n) ==
    /\ u \in Seq(Unit)
    /\ n \in 1..Len(u)
    /\ u[1].kind = "header"
    /\ \A i \in 2..n : Accepts(u, i)

\* A unit of a file has the type of a unit.
LEMMA UnitType ==
    ASSUME NEW u \in Seq(Unit), NEW i \in 1..Len(u)
    PROVE  /\ u[i] \in Unit
           /\ u[i].seq \in Sequence /\ u[i].seq \in Nat
           /\ u[i].kind \in {"header", "mutation", "commit", "fragment"}
           /\ u[i].mut \in Mutations \union {NoMutation}
<1>1. u[i] \in Unit
  BY ElementOfSeq
<1>2. /\ u[i].seq \in Sequence
      /\ u[i].kind \in {"header", "mutation", "commit", "fragment"}
      /\ u[i].mut \in Mutations \union {NoMutation}
  BY <1>1 DEF Unit
<1>3. u[i].seq \in Nat
  BY <1>2, LogAssumption DEF Sequence
<1> QED
  BY <1>1, <1>2, <1>3

\* The largest sequence number among the first n units is one of theirs.
LEMMA ScanLastFacts ==
    ASSUME NEW u \in Seq(Unit), NEW n \in 1..Len(u), u[1].kind = "header"
    PROVE  /\ ScanLast(u, n) \in Sequence
           /\ \E j \in 1..n : Numbers(u, j) /\ u[j].seq = ScanLast(u, n)
           /\ \A j \in 1..n : Numbers(u, j) => u[j].seq =< ScanLast(u, n)
<1> DEFINE S == {u[j].seq : j \in {k \in 1..n : Numbers(u, k)}}
<1>1. S \subseteq 0..MaxSequence
  BY UnitType DEF Sequence
<1>2. u[1].seq \in S
  BY DEF Numbers
<1>3. Max(S) \in S /\ \A y \in S : y =< Max(S)
  BY <1>1, <1>2, MaxOfSequences, LogAssumption
<1> HIDE DEF S
<1>4. ScanLast(u, n) = Max(S)
  BY DEF ScanLast, S
<1> USE DEF S
<1> QED
  BY <1>1, <1>3, <1>4 DEF Sequence

\* The same for the commit records.
LEMMA ScanCommittedFacts ==
    ASSUME NEW u \in Seq(Unit), NEW n \in 1..Len(u), u[1].kind = "header"
    PROVE  /\ ScanCommitted(u, n) \in Sequence
           /\ \E j \in 1..n : Commits(u, j) /\ u[j].seq = ScanCommitted(u, n)
           /\ \A j \in 1..n : Commits(u, j) => u[j].seq =< ScanCommitted(u, n)
<1> DEFINE S == {u[j].seq : j \in {k \in 1..n : Commits(u, k)}}
<1>1. S \subseteq 0..MaxSequence
  BY UnitType DEF Sequence
<1>2. u[1].seq \in S
  BY DEF Commits
<1>3. Max(S) \in S /\ \A y \in S : y =< Max(S)
  BY <1>1, <1>2, MaxOfSequences, LogAssumption
<1> HIDE DEF S
<1>4. ScanCommitted(u, n) = Max(S)
  BY DEF ScanCommitted, S
<1> USE DEF S
<1> QED
  BY <1>1, <1>3, <1>4 DEF Sequence

\* The numbered units of an accepted prefix have increasing sequences.
LEMMA Increasing ==
    ASSUME NEW u, NEW n, Accepted(u, n),
           NEW i \in 1..n, Numbers(u, i),
           NEW k \in 1..n, Numbers(u, k), k < i
    PROVE  u[k].seq < u[i].seq
<1> DEFINE Bad == {b \in 1..n : /\ Numbers(u, b)
                                /\ \E c \in 1..n : /\ Numbers(u, c) /\ c < b
                                                   /\ ~ (u[c].seq < u[b].seq)}
<1> SUFFICES ASSUME Bad # {} PROVE FALSE
  OBVIOUS
<1>n. n \in Nat /\ u \in Seq(Unit) /\ Len(u) \in Nat /\ n =< Len(u)
  BY LenProperties DEF Accepted
<1>1. PICK b \in Bad : \A y \in Bad : b =< y
  <2>1. Bad \subseteq Nat
    BY <1>n
  <2> QED
    BY <2>1, LeastNatural
<1>2. PICK c \in 1..n : Numbers(u, c) /\ c < b /\ ~ (u[c].seq < u[b].seq)
  BY <1>1
<1>3. Accepts(u, b) /\ b \in 2..n
  BY <1>n, <1>1, <1>2 DEF Accepted
<1>4. PICK j \in 1..(b - 1) :
         /\ Numbers(u, j)
         /\ u[b].seq = u[j].seq + 1
         /\ \A k_1 \in (j + 1)..(b - 1) : ~ Numbers(u, k_1)
  BY <1>1, <1>3 DEF Accepts, Numbers
<1>5. c =< j /\ j \in 1..n /\ j < b
  <2>1. b \in Nat /\ c \in Nat /\ j \in Nat /\ c \in 1..(b - 1) /\ j \in 1..n /\ j < b
    BY <1>2, <1>3, <1>4, <1>n
  <2>2. ~ (c \in (j + 1)..(b - 1))
    BY <1>2, <1>4
  <2> QED
    BY <2>1, <2>2
<1>6. u[c].seq \in Nat /\ u[j].seq \in Nat
  <2>1. c \in 1..Len(u) /\ j \in 1..Len(u)
    BY <1>n, <1>5
  <2> QED
    BY <1>n, <2>1, UnitType
<1>7. c < j
  BY <1>2, <1>4, <1>5, <1>6, <1>n, SMTT(30)
<1>8. j \notin Bad
  BY <1>1, <1>5
<1>9. u[c].seq < u[j].seq
  BY <1>2, <1>4, <1>5, <1>7, <1>8
<1> QED
  BY <1>2, <1>4, <1>6, <1>9

\* No sequence number is missing below one that was accepted.
LEMMA Contiguous ==
    ASSUME NEW u, NEW n, Accepted(u, n),
           NEW i \in 1..n, Numbers(u, i),
           NEW q \in (u[1].seq + 1)..u[i].seq
    PROVE  \E k \in 1..i : u[k].kind = "mutation" /\ u[k].seq = q
<1> DEFINE Has(b) == \E k \in 1..b : u[k].kind = "mutation" /\ u[k].seq = q
           Bad == {b \in 1..n : Numbers(u, b) /\ q =< u[b].seq /\ ~ Has(b)}
<1>n. n \in Nat /\ u \in Seq(Unit) /\ Len(u) \in Nat /\ n =< Len(u)
  BY LenProperties DEF Accepted
<1>q. q \in Nat /\ u[1].seq \in Nat /\ u[1].seq < q /\ q =< u[i].seq
  <2>1. u[1].seq \in Nat /\ u[i].seq \in Nat
    BY <1>n, UnitType, LogAssumption DEF Sequence
  <2> QED
    BY <2>1
<1> SUFFICES ASSUME Bad # {} PROVE FALSE
  BY <1>q
<1>1. PICK b \in Bad : \A y \in Bad : b =< y
  <2>1. Bad \subseteq Nat
    BY <1>n
  <2> HIDE DEF Bad
  <2> QED
    BY <2>1, LeastNatural
<1>2. b \in 1..n /\ Numbers(u, b) /\ q =< u[b].seq /\ ~ Has(b)
  BY <1>1
<1>3. b # 1
  BY <1>2, <1>q
<1>4. Accepts(u, b) /\ b \in 2..n
  BY <1>n, <1>2, <1>3 DEF Accepted
<1>5. u[b].kind = "mutation"
  BY <1>4, <1>2 DEF Accepts, Numbers
<1>6. PICK j \in 1..(b - 1) : Numbers(u, j) /\ u[b].seq = u[j].seq + 1
  BY <1>4, <1>5 DEF Accepts
<1>7. j \in 1..n /\ j < b /\ u[j].seq \in Nat
  BY <1>n, <1>4, <1>6, UnitType, LogAssumption DEF Sequence
<1>8. q # u[b].seq
  BY <1>2, <1>5, <1>n
<1>9. q =< u[j].seq
  BY <1>2, <1>6, <1>7, <1>8, <1>q
<1>10. ~ Has(j)
  BY <1>2, <1>7, <1>n
<1> QED
  BY <1>1, <1>6, <1>7, <1>9, <1>10

\* ScanLast and ScanCommitted are determined by being attained and being bounds.
LEMMA ScanLastIs ==
    ASSUME NEW u \in Seq(Unit), NEW n \in 1..Len(u), u[1].kind = "header",
           NEW j \in 1..n, Numbers(u, j),
           \A k \in 1..n : Numbers(u, k) => u[k].seq =< u[j].seq
    PROVE  ScanLast(u, n) = u[j].seq
<1>1. PICK i \in 1..n : Numbers(u, i) /\ u[i].seq = ScanLast(u, n)
  BY ScanLastFacts
<1>2. u[j].seq =< ScanLast(u, n) /\ ScanLast(u, n) =< u[j].seq
  BY <1>1, ScanLastFacts
<1>3. u[j].seq \in Nat /\ ScanLast(u, n) \in Nat
  <2>1. i \in 1..Len(u) /\ j \in 1..Len(u)
    BY LenProperties
  <2>2. u[i].seq \in Nat /\ u[j].seq \in Nat
    BY <2>1, UnitType
  <2> QED
    BY <1>1, <2>2
<1> QED
  BY <1>2, <1>3

LEMMA ScanCommittedIs ==
    ASSUME NEW u \in Seq(Unit), NEW n \in 1..Len(u), u[1].kind = "header",
           NEW j \in 1..n, Commits(u, j),
           \A k \in 1..n : Commits(u, k) => u[k].seq =< u[j].seq
    PROVE  ScanCommitted(u, n) = u[j].seq
<1>1. PICK i \in 1..n : Commits(u, i) /\ u[i].seq = ScanCommitted(u, n)
  BY ScanCommittedFacts
<1>2. u[j].seq =< ScanCommitted(u, n) /\ ScanCommitted(u, n) =< u[j].seq
  BY <1>1, ScanCommittedFacts
<1>3. u[j].seq \in Nat /\ ScanCommitted(u, n) \in Nat
  <2>1. i \in 1..Len(u) /\ j \in 1..Len(u)
    BY LenProperties
  <2>2. u[i].seq \in Nat /\ u[j].seq \in Nat
    BY <2>1, UnitType
  <2> QED
    BY <1>1, <2>2
<1> QED
  BY <1>2, <1>3

\* The last numbered unit of an accepted prefix carries its largest sequence.
LEMMA LastNumbered ==
    ASSUME NEW u, NEW n, Accepted(u, n)
    PROVE  \E j \in 1..n : /\ Numbers(u, j)
                           /\ u[j].seq = ScanLast(u, n)
                           /\ \A k \in (j + 1)..n : ~ Numbers(u, k)
<1>n. n \in Nat /\ u \in Seq(Unit) /\ n \in 1..Len(u) /\ u[1].kind = "header"
  BY LenProperties DEF Accepted
<1>1. PICK j \in 1..n : Numbers(u, j) /\ u[j].seq = ScanLast(u, n)
  BY <1>n, ScanLastFacts
<1>2. ASSUME NEW k \in (j + 1)..n, Numbers(u, k) PROVE FALSE
  <2>1. k \in 1..n /\ j < k
    BY <1>n
  <2>2. u[j].seq < u[k].seq
    BY <1>1, <1>2, <2>1, Increasing
  <2>3. u[k].seq =< ScanLast(u, n)
    BY <1>n, <1>2, <2>1, ScanLastFacts
  <2>4. u[k].seq \in Nat /\ u[j].seq \in Nat
    BY <1>n, <2>1, UnitType, LenProperties, LogAssumption DEF Sequence
  <2> QED
    BY <1>1, <2>2, <2>3, <2>4
<1> QED
  BY <1>1, <1>2

\* A commit never exceeds the mutations before it.
LEMMA CommittedBelowLast ==
    ASSUME NEW u, NEW n, Accepted(u, n)
    PROVE  u[1].seq =< ScanCommitted(u, n) /\ ScanCommitted(u, n) =< ScanLast(u, n)
<1>n. n \in Nat /\ u \in Seq(Unit) /\ n \in 1..Len(u) /\ u[1].kind = "header"
  BY LenProperties DEF Accepted
<1>0. u[1].seq =< ScanCommitted(u, n)
  BY <1>n, ScanCommittedFacts DEF Commits
<1>1. PICK c \in 1..n : Commits(u, c) /\ u[c].seq = ScanCommitted(u, n)
  BY <1>n, ScanCommittedFacts
<1>2. \E j \in 1..n : Numbers(u, j) /\ u[c].seq =< u[j].seq
  <2>1. CASE c = 1
    <3>1. u[1].seq \in Nat
      BY <1>n, UnitType, LogAssumption DEF Sequence
    <3> QED
      BY <1>n, <2>1, <3>1 DEF Numbers
  <2>2. CASE c # 1
    <3>1. Accepts(u, c) /\ c \in 2..n
      BY <1>n, <2>2 DEF Accepted
    <3>2. PICK j \in 1..(c - 1) : Numbers(u, j) /\ u[c].seq =< u[j].seq
      BY <1>1, <3>1 DEF Accepts, Commits
    <3> QED
      BY <1>n, <3>1, <3>2
  <2> QED
    BY <2>1, <2>2
<1>3. PICK j \in 1..n : Numbers(u, j) /\ u[c].seq =< u[j].seq
  BY <1>2
<1>4. u[j].seq =< ScanLast(u, n)
  BY <1>n, <1>3, ScanLastFacts
<1>5. u[c].seq \in Nat /\ u[j].seq \in Nat /\ ScanLast(u, n) \in Nat
  BY <1>n, ScanLastFacts, UnitType, LenProperties, LogAssumption DEF Sequence
<1> QED
  BY <1>0, <1>1, <1>3, <1>4, <1>5

\* Every sequence up to a committed one is replayed.
LEMMA CommittedIsReplayed ==
    ASSUME NEW u, NEW n, Accepted(u, n),
           NEW c \in 1..n, Commits(u, c),
           NEW s \in (u[1].seq + 1)..u[c].seq
    PROVE  \E i \in 1..n : /\ u[i].kind = "mutation" /\ u[i].seq = s
                           /\ <<s, u[i].mut>> \in Replay(u, n)
<1>n. n \in Nat /\ u \in Seq(Unit) /\ n \in 1..Len(u) /\ u[1].kind = "header"
  BY LenProperties DEF Accepted
<1>0. u[c].seq \in Nat /\ u[1].seq \in Nat
  BY <1>n, UnitType, LenProperties, LogAssumption DEF Sequence
<1>1. u[c].seq =< ScanCommitted(u, n) /\ ScanCommitted(u, n) =< ScanLast(u, n)
  BY <1>n, ScanCommittedFacts, CommittedBelowLast
<1>2. PICK j \in 1..n : Numbers(u, j) /\ u[j].seq = ScanLast(u, n)
  BY <1>n, ScanLastFacts
<1>3. ScanLast(u, n) \in Nat /\ ScanCommitted(u, n) \in Nat
  BY <1>n, ScanLastFacts, ScanCommittedFacts, LogAssumption DEF Sequence
<1>4. s \in (u[1].seq + 1)..u[j].seq /\ s =< ScanCommitted(u, n)
  BY <1>0, <1>1, <1>2, <1>3
<1>5. PICK i \in 1..j : u[i].kind = "mutation" /\ u[i].seq = s
  BY <1>2, <1>4, Contiguous
<1>6. i \in 1..n
  BY <1>n
<1> QED
  BY <1>4, <1>5, <1>6 DEF Replay, Entries

-----------------------------------------------------------------------------
(* Files that share a prefix, or grow by one unit.                         *)

\* What scanLog does with the first n units depends on those units alone.
LEMMA SamePrefix ==
    ASSUME NEW u, NEW n, Accepted(u, n),
           NEW v \in Seq(Unit), NEW m \in 1..n, m =< Len(v),
           \A i \in 1..m : v[i] = u[i]
    PROVE  /\ Accepted(v, m)
           /\ m = n => /\ ScanLast(v, n) = ScanLast(u, n)
                       /\ ScanCommitted(v, n) = ScanCommitted(u, n)
<1>n. n \in Nat /\ u \in Seq(Unit) /\ n \in 1..Len(u) /\ u[1].kind = "header"
      /\ m \in Nat /\ Len(v) \in Nat /\ m \in 1..Len(v)
  BY LenProperties DEF Accepted
<1>1. ASSUME NEW i \in 2..m PROVE Accepts(v, i)
  <2>1. i \in 2..n /\ i \in 1..m /\ \A k \in 1..(i - 1) : k \in 1..m
    BY <1>n
  <2>2. Accepts(u, i)
    BY <2>1 DEF Accepted
  <2>3. v[i] = u[i] /\ \A k \in 1..(i - 1) : v[k] = u[k]
    BY <2>1
  <2>4. CASE u[i].kind = "mutation"
    <3>1. PICK j \in 1..(i - 1) : /\ Numbers(u, j) /\ u[i].seq = u[j].seq + 1
                                  /\ \A k \in (j + 1)..(i - 1) : ~ Numbers(u, k)
      BY <2>2, <2>4 DEF Accepts
    <3>2. \A k \in (j + 1)..(i - 1) : k \in 1..(i - 1)
      BY <2>1
    <3>3. Numbers(v, j) /\ v[i].seq = v[j].seq + 1
          /\ \A k \in (j + 1)..(i - 1) : ~ Numbers(v, k)
      BY <2>3, <3>1, <3>2 DEF Numbers
    <3> QED
      BY <2>3, <2>4, <3>3 DEF Accepts
  <2>5. CASE u[i].kind = "commit"
    BY <2>2, <2>3, <2>5 DEF Accepts, Numbers, Commits
  <2> QED
    BY <2>2, <2>4, <2>5 DEF Accepts
<1>2. Accepted(v, m)
  BY <1>n, <1>1 DEF Accepted
<1>3. ASSUME m = n PROVE ScanLast(v, n) = ScanLast(u, n)
                         /\ ScanCommitted(v, n) = ScanCommitted(u, n)
  <2>1. {v[j].seq : j \in {k \in 1..n : Numbers(v, k)}}
          = {u[j].seq : j \in {k \in 1..n : Numbers(u, k)}}
    BY <1>3 DEF Numbers
  <2>2. {v[j].seq : j \in {k \in 1..n : Commits(v, k)}}
          = {u[j].seq : j \in {k \in 1..n : Commits(u, k)}}
    BY <1>3 DEF Commits
  <2> QED
    BY <2>1, <2>2 DEF ScanLast, ScanCommitted
<1> QED
  BY <1>2, <1>3

\* A mutation with the next sequence number is accepted, and becomes the last.
LEMMA MutationAccepted ==
    ASSUME NEW u, Accepted(u, Len(u)), NEW m \in Mutations,
           ScanLast(u, Len(u)) # MaxSequence,
           NEW v, v = Append(u, encodeMutation(ScanLast(u, Len(u)) + 1, m))
    PROVE  /\ Accepted(v, Len(v)) /\ Len(v) = Len(u) + 1
           /\ ScanLast(v, Len(v)) = ScanLast(u, Len(u)) + 1
           /\ ScanCommitted(v, Len(v)) = ScanCommitted(u, Len(u))
<1> DEFINE n == Len(u)
           e == encodeMutation(ScanLast(u, n) + 1, m)
<1>n. u \in Seq(Unit) /\ n \in Nat /\ n \in 1..Len(u) /\ u[1].kind = "header"
  BY LenProperties DEF Accepted
<1>0. ScanLast(u, n) \in Sequence /\ ScanLast(u, n) + 1 \in Sequence
  BY <1>n, ScanLastFacts, LogAssumption DEF Sequence
<1>1. e \in Unit
  BY <1>0 DEF encodeMutation, Unit
<1>2. v \in Seq(Unit) /\ Len(v) = n + 1 /\ v[n + 1] = e /\ \A i \in 1..n : v[i] = u[i]
  BY <1>n, <1>1, AppendProperties
<1>e. v[n + 1].kind = "mutation" /\ v[n + 1].seq = ScanLast(u, n) + 1
  BY <1>2 DEF encodeMutation
<1>3. Accepted(v, n)
  <2>1. n \in 1..n /\ n =< Len(v) /\ Accepted(u, n)
    BY <1>n, <1>2
  <2> QED
    BY <1>2, <2>1, SamePrefix
<1>4. PICK j \in 1..n : /\ Numbers(u, j)
                        /\ u[j].seq = ScanLast(u, n)
                        /\ \A k \in (j + 1)..n : ~ Numbers(u, k)
  BY LastNumbered
<1>5. Accepts(v, n + 1)
  <2>1. Numbers(v, j) /\ v[n + 1].seq = v[j].seq + 1
    BY <1>2, <1>e, <1>4 DEF Numbers
  <2>2. \A k \in (j + 1)..n : ~ Numbers(v, k)
    BY <1>n, <1>2, <1>4 DEF Numbers
  <2>3. (n + 1) - 1 = n
    BY <1>n
  <2> QED
    BY <1>e, <2>1, <2>2, <2>3 DEF Accepts
<1>6. Accepted(v, n + 1)
  BY <1>n, <1>2, <1>3, <1>5 DEF Accepted
<1>7. ScanLast(v, n + 1) = ScanLast(u, n) + 1
  <2>1. Numbers(v, n + 1) /\ n + 1 \in 1..(n + 1)
    BY <1>n, <1>e DEF Numbers
  <2>2. \A k \in 1..(n + 1) : Numbers(v, k) => v[k].seq =< v[n + 1].seq
    <3> SUFFICES ASSUME NEW k \in 1..(n + 1), Numbers(v, k)
                 PROVE  v[k].seq =< ScanLast(u, n) + 1
      BY <1>e
    <3>1. CASE k = n + 1
      BY <1>e, <3>1, <1>0, LogAssumption DEF Sequence
    <3>2. CASE k # n + 1
      <4>1. k \in 1..n /\ v[k] = u[k] /\ Numbers(u, k)
        BY <1>n, <1>2, <3>2 DEF Numbers
      <4>2. u[k].seq =< ScanLast(u, n) /\ u[k].seq \in Nat
        <5>1. k \in 1..Len(u)
          BY <1>n, <4>1
        <5>2. u[k].seq \in Nat
          BY <1>n, <5>1, UnitType
        <5> QED
          BY <1>n, <4>1, <5>2, ScanLastFacts
      <4> QED
        BY <4>1, <4>2, <1>0, LogAssumption DEF Sequence
    <3> QED
      BY <3>1, <3>2
  <2> QED
    BY <1>2, <1>6, <1>e, <2>1, <2>2, ScanLastIs DEF Accepted
<1>8. ScanCommitted(v, n + 1) = ScanCommitted(u, n)
  <2>1. PICK c \in 1..n : Commits(u, c) /\ u[c].seq = ScanCommitted(u, n)
    BY <1>n, ScanCommittedFacts
  <2>2. c \in 1..(n + 1) /\ Commits(v, c) /\ v[c].seq = ScanCommitted(u, n)
    BY <1>n, <1>2, <2>1 DEF Commits
  <2>3. \A k \in 1..(n + 1) : Commits(v, k) => v[k].seq =< v[c].seq
    <3> SUFFICES ASSUME NEW k \in 1..(n + 1), Commits(v, k)
                 PROVE  v[k].seq =< v[c].seq
      OBVIOUS
    <3>1. k # n + 1
      BY <1>e DEF Commits
    <3>2. k \in 1..n /\ v[k] = u[k] /\ Commits(u, k)
      BY <1>n, <1>2, <3>1 DEF Commits
    <3> QED
      BY <1>n, <2>2, <3>2, ScanCommittedFacts
  <2> QED
    BY <1>2, <1>6, <2>2, <2>3, ScanCommittedIs DEF Accepted
<1> QED
  BY <1>2, <1>6, <1>7, <1>8

\* A commit record in the range that Commit allows, not below an earlier one.
LEMMA CommitAccepted ==
    ASSUME NEW u, Accepted(u, Len(u)), NEW s \in Sequence,
           s > 0, s =< ScanLast(u, Len(u)),
           \A i \in 1..Len(u) : Commits(u, i) => u[i].seq =< s,
           NEW v, v = Append(u, encodeCommit(s))
    PROVE  /\ Accepted(v, Len(v)) /\ Len(v) = Len(u) + 1
           /\ ScanLast(v, Len(v)) = ScanLast(u, Len(u))
           /\ ScanCommitted(v, Len(v)) = s
<1> DEFINE n == Len(u)
<1>n. u \in Seq(Unit) /\ n \in Nat /\ n \in 1..Len(u) /\ u[1].kind = "header"
  BY LenProperties DEF Accepted
<1>1. encodeCommit(s) \in Unit
  BY DEF encodeCommit, Unit
<1>2. v \in Seq(Unit) /\ Len(v) = n + 1 /\ v[n + 1] = encodeCommit(s)
      /\ \A i \in 1..n : v[i] = u[i]
  BY <1>n, <1>1, AppendProperties
<1>e. v[n + 1].kind = "commit" /\ v[n + 1].seq = s
  BY <1>2 DEF encodeCommit
<1>3. Accepted(v, n)
  <2>1. n \in 1..n /\ n =< Len(v) /\ Accepted(u, n)
    BY <1>n, <1>2
  <2> QED
    BY <1>2, <2>1, SamePrefix
<1>4. PICK j \in 1..n : Numbers(u, j) /\ u[j].seq = ScanLast(u, n)
  BY <1>n, ScanLastFacts
<1>5. Accepts(v, n + 1)
  <2>1. Numbers(v, j) /\ v[n + 1].seq =< v[j].seq
    BY <1>2, <1>e, <1>4 DEF Numbers
  <2>2. \A k \in 1..n : Commits(v, k) => v[k].seq =< v[n + 1].seq
    BY <1>2, <1>e DEF Commits
  <2>3. (n + 1) - 1 = n
    BY <1>n
  <2> QED
    BY <1>e, <2>1, <2>2, <2>3 DEF Accepts
<1>6. Accepted(v, n + 1)
  BY <1>n, <1>2, <1>3, <1>5 DEF Accepted
<1>7. ScanLast(v, n + 1) = ScanLast(u, n)
  <2>1. j \in 1..(n + 1) /\ Numbers(v, j) /\ v[j].seq = ScanLast(u, n)
    BY <1>n, <1>2, <1>4 DEF Numbers
  <2>2. \A k \in 1..(n + 1) : Numbers(v, k) => v[k].seq =< v[j].seq
    <3> SUFFICES ASSUME NEW k \in 1..(n + 1), Numbers(v, k)
                 PROVE  v[k].seq =< v[j].seq
      OBVIOUS
    <3>1. k # n + 1
      BY <1>e DEF Numbers
    <3>2. k \in 1..n /\ v[k] = u[k] /\ Numbers(u, k)
      BY <1>n, <1>2, <3>1 DEF Numbers
    <3> QED
      BY <1>n, <2>1, <3>2, ScanLastFacts
  <2> QED
    BY <1>2, <1>6, <2>1, <2>2, ScanLastIs DEF Accepted
<1>8. ScanCommitted(v, n + 1) = s
  <2>1. Commits(v, n + 1) /\ n + 1 \in 1..(n + 1)
    BY <1>n, <1>e DEF Commits
  <2>2. \A k \in 1..(n + 1) : Commits(v, k) => v[k].seq =< v[n + 1].seq
    <3> SUFFICES ASSUME NEW k \in 1..(n + 1), Commits(v, k)
                 PROVE  v[k].seq =< s
      BY <1>e
    <3>1. CASE k = n + 1
      BY <1>e, <3>1, LogAssumption DEF Sequence
    <3>2. CASE k # n + 1
      <4>1. k \in 1..n /\ v[k] = u[k] /\ Commits(u, k)
        BY <1>n, <1>2, <3>2 DEF Commits
      <4> QED
        BY <4>1
    <3> QED
      BY <3>1, <3>2
  <2> QED
    BY <1>2, <1>6, <1>e, <2>1, <2>2, ScanCommittedIs DEF Accepted
<1> QED
  BY <1>2, <1>6, <1>7, <1>8

-----------------------------------------------------------------------------
(* The file that Truncate writes.                                          *)

\* How many mutations remain, and whether a commit record follows them.
Remaining(u, n, base) == IF ScanLast(u, n) > base THEN ScanLast(u, n) - base ELSE 0
CommitTail(u, n, base) == IF ScanCommitted(u, n) > base THEN 1 ELSE 0

\* What stands at each place of the file v that Rewritten makes of u.
Rewrites(u, n, base, v) ==
    LET remaining == Remaining(u, n, base)
        tail == CommitTail(u, n, base)
    IN     /\ remaining \in Nat /\ tail \in {0, 1}
           /\ v \in Seq(Unit) /\ Len(v) = 1 + remaining + tail
           /\ v[1] = Header(base)
           /\ \A i \in 2..(1 + remaining) :
                 /\ v[i].kind = "mutation" /\ v[i].seq = base + i - 1
                 /\ \E k \in 1..n : /\ u[k].kind = "mutation" /\ u[k].seq = base + i - 1
                                    /\ v[i].mut = u[k].mut
           /\ tail = 1 => v[2 + remaining] = encodeCommit(ScanCommitted(u, n))

\* Its units, one by one.
LEMMA RewrittenUnits ==
    ASSUME NEW u, NEW n, Accepted(u, n), NEW base \in Sequence, u[1].seq =< base
    PROVE  Rewrites(u, n, base, Rewritten(u, n, base))
<1> DEFINE last == ScanLast(u, n)
           committed == ScanCommitted(u, n)
           remaining == Remaining(u, n, base)
           tail == CommitTail(u, n, base)
           v == Rewritten(u, n, base)
<1>n. n \in Nat /\ u \in Seq(Unit) /\ n \in 1..Len(u) /\ u[1].kind = "header" /\ Len(u) \in Nat
  BY LenProperties DEF Accepted
<1>t. last \in Sequence /\ committed \in Sequence /\ u[1].seq \in Sequence
  BY <1>n, ScanLastFacts, ScanCommittedFacts, UnitType
<1>N. last \in Nat /\ committed \in Nat /\ u[1].seq \in Nat /\ base \in Nat
  BY <1>t, LogAssumption DEF Sequence
<1>1. remaining \in Nat /\ tail \in {0, 1}
  BY <1>N DEF Remaining, CommitTail
<1> DEFINE e(i) == encodeMutation(base + i - 1, MutationAt(u, n, base + i - 1))
           f(i) == IF i = 1 THEN Header(base)
                   ELSE IF i =< 1 + remaining THEN e(i) ELSE encodeCommit(committed)
<1>2. v = [i \in 1..(1 + remaining + tail) |-> f(i)]
  BY DEF Rewritten, Remaining, CommitTail
<1>3. ASSUME NEW i \in 2..(1 + remaining)
      PROVE  /\ base + i - 1 \in Sequence
             /\ \E k \in 1..n : /\ u[k].kind = "mutation" /\ u[k].seq = base + i - 1
                                /\ MutationAt(u, n, base + i - 1) = u[k].mut
  <2>1. remaining = last - base /\ last > base
    BY <1>1, <1>N DEF Remaining
  <2>2. base + i - 1 \in Sequence /\ base + i - 1 \in (u[1].seq + 1)..last
    BY <2>1, <1>N, <1>t, LogAssumption DEF Sequence
  <2>3. PICK j \in 1..n : Numbers(u, j) /\ u[j].seq = last
    BY <1>n, ScanLastFacts
  <2>4. PICK k \in 1..j : u[k].kind = "mutation" /\ u[k].seq = base + i - 1
    BY <2>2, <2>3, Contiguous
  <2>5. k \in 1..n
    BY <1>n
  <2> QED
    BY <2>2, <2>4, <2>5 DEF MutationAt
<1>4. ASSUME NEW i \in 2..(1 + remaining) PROVE f(i) = e(i) /\ e(i) \in Unit
  <2>1. PICK k \in 1..n : MutationAt(u, n, base + i - 1) = u[k].mut
    BY <1>3
  <2>2. MutationAt(u, n, base + i - 1) \in Mutations \union {NoMutation}
    <3>1. k \in 1..Len(u)
      BY <1>n
    <3> QED
      BY <1>n, <2>1, <3>1, UnitType
  <2>3. i # 1 /\ i =< 1 + remaining
    BY <1>1
  <2>4. base + i - 1 \in Sequence
    BY <1>3
  <2>5. e(i) \in Unit
    BY <2>2, <2>4 DEF encodeMutation, Unit
  <2> QED
    BY <2>3, <2>5
<1>5. Header(base) \in Unit /\ encodeCommit(committed) \in Unit
  BY <1>t DEF Header, encodeCommit, Unit
<1>6. \A i \in 1..(1 + remaining + tail) : f(i) \in Unit
  <2> SUFFICES ASSUME NEW i \in 1..(1 + remaining + tail) PROVE f(i) \in Unit
    OBVIOUS
  <2>1. CASE i = 1
    BY <2>1, <1>5
  <2>2. CASE i \in 2..(1 + remaining)
    BY <2>2, <1>4
  <2>3. CASE i # 1 /\ ~ (i \in 2..(1 + remaining))
    <3>1. ~ (i =< 1 + remaining)
      BY <2>3, <1>1
    <3> QED
      BY <2>3, <3>1, <1>5
  <2> QED
    BY <2>1, <2>2, <2>3
<1> HIDE DEF f, v, remaining, tail
<1>7. v \in Seq(Unit) /\ Len(v) = 1 + remaining + tail
  <2>1. 1 + remaining + tail \in Nat
    BY <1>1
  <2> QED
    BY <1>2, <1>6, <2>1, IsASeq
<1>8. v[1] = Header(base)
  <2>1. 1 \in 1..(1 + remaining + tail)
    BY <1>1
  <2> QED
    BY <1>2, <2>1 DEF f
<1>9. ASSUME NEW i \in 2..(1 + remaining)
      PROVE  /\ v[i].kind = "mutation" /\ v[i].seq = base + i - 1
             /\ \E k \in 1..n : /\ u[k].kind = "mutation" /\ u[k].seq = base + i - 1
                                /\ v[i].mut = u[k].mut
  <2>1. i \in 1..(1 + remaining + tail)
    BY <1>1
  <2>2. v[i] = e(i)
    BY <1>2, <1>4, <2>1
  <2> QED
    BY <1>3, <2>2 DEF encodeMutation
<1>10. ASSUME tail = 1 PROVE v[2 + remaining] = encodeCommit(committed)
  <2>1. 2 + remaining \in 1..(1 + remaining + tail) /\ 2 + remaining # 1
        /\ ~ (2 + remaining =< 1 + remaining)
    BY <1>1, <1>10
  <2> QED
    BY <1>2, <2>1 DEF f
<1> USE DEF v, remaining, tail
<1> QED
  BY <1>1, <1>7, <1>8, <1>9, <1>10 DEF Rewrites

\* A scan of it accepts every unit and finds the same last sequence, and the
\* same committed sequence unless the base has overtaken it.
LEMMA RewrittenAccepted ==
    ASSUME NEW u, NEW n, Accepted(u, n), NEW base \in Sequence, u[1].seq =< base,
           base =< ScanCommitted(u, n),
           NEW v, v = Rewritten(u, n, base)
    PROVE  /\ Accepted(v, Len(v))
           /\ v[1] = Header(base)
           /\ ScanLast(v, Len(v)) = ScanLast(u, n)
           /\ ScanCommitted(v, Len(v)) = ScanCommitted(u, n)
<1> DEFINE last == ScanLast(u, n)
           committed == ScanCommitted(u, n)
           remaining == Remaining(u, n, base)
           tail == CommitTail(u, n, base)
<1>n. n \in Nat /\ u \in Seq(Unit) /\ n \in 1..Len(u) /\ u[1].kind = "header" /\ Len(u) \in Nat
  BY LenProperties DEF Accepted
<1>N. last \in Nat /\ committed \in Nat /\ base \in Nat /\ base =< committed /\ committed =< last
  BY <1>n, ScanLastFacts, ScanCommittedFacts, CommittedBelowLast, LogAssumption DEF Sequence
<1>r. remaining = last - base /\ remaining \in Nat /\ tail \in {0, 1}
      /\ (tail = 1 => committed > base /\ remaining > 0) /\ (tail = 0 => committed = base)
  BY <1>N DEF Remaining, CommitTail
<1>1. /\ v \in Seq(Unit) /\ Len(v) = 1 + remaining + tail
      /\ v[1] = Header(base)
      /\ \A i \in 2..(1 + remaining) : v[i].kind = "mutation" /\ v[i].seq = base + i - 1
      /\ tail = 1 => v[2 + remaining] = encodeCommit(committed)
  BY RewrittenUnits DEF Rewrites
<1> HIDE DEF last, committed, remaining, tail
<1>2. v[1].kind = "header" /\ v[1].seq = base
  BY <1>1 DEF Header
<1>3. tail = 1 => v[2 + remaining].kind = "commit" /\ v[2 + remaining].seq = committed
  BY <1>1 DEF encodeCommit
<1>4. \A i \in 1..(1 + remaining) : Numbers(v, i) /\ v[i].seq = base + i - 1
  <2> SUFFICES ASSUME NEW i \in 1..(1 + remaining)
               PROVE  Numbers(v, i) /\ v[i].seq = base + i - 1
    OBVIOUS
  <2>1. CASE i = 1
    BY <2>1, <1>2, <1>N DEF Numbers
  <2>2. CASE i # 1
    <3>1. i \in 2..(1 + remaining)
      BY <2>2, <1>r
    <3> QED
      BY <3>1, <1>1 DEF Numbers
  <2> QED
    BY <2>1, <2>2
<1>5. ASSUME NEW i \in 2..(1 + remaining) PROVE Accepts(v, i)
  <2>1. i - 1 \in 1..(i - 1) /\ i - 1 \in 1..(1 + remaining) /\ i \in 1..(1 + remaining)
    BY <1>r
  <2>2. Numbers(v, i - 1) /\ v[i].seq = v[i - 1].seq + 1
    BY <2>1, <1>4, <1>r, <1>N
  <2>3. \A k \in ((i - 1) + 1)..(i - 1) : ~ Numbers(v, k)
    BY <1>r
  <2>4. v[i].kind = "mutation"
    BY <1>1
  <2> QED
    BY <2>1, <2>2, <2>3, <2>4 DEF Accepts
<1>6. ASSUME tail = 1 PROVE Accepts(v, 2 + remaining)
  <2>1. (2 + remaining) - 1 = 1 + remaining /\ 1 + remaining \in 1..(1 + remaining)
    BY <1>r
  <2>2. Numbers(v, 1 + remaining) /\ v[1 + remaining].seq = last
    BY <2>1, <1>4, <1>r, <1>N
  <2>3. \A j \in 1..(1 + remaining) : Commits(v, j) => v[j].seq =< committed
    <3> SUFFICES ASSUME NEW j \in 1..(1 + remaining), Commits(v, j) PROVE v[j].seq =< committed
      OBVIOUS
    <3>1. j = 1
      <4>1. j # 1 => j \in 2..(1 + remaining)
        BY <1>r
      <4> QED
        BY <4>1, <1>1 DEF Commits
    <3> QED
      BY <3>1, <1>2, <1>N
  <2> QED
    BY <2>1, <2>2, <2>3, <1>3, <1>6, <1>N, <1>r DEF Accepts
<1>7. Accepted(v, Len(v))
  <2>1. Len(v) \in 1..Len(v)
    BY <1>1, <1>r
  <2>2. ASSUME NEW i \in 2..Len(v) PROVE Accepts(v, i)
    <3>1. i \in 2..(1 + remaining) \/ (tail = 1 /\ i = 2 + remaining)
      BY <1>1, <1>r
    <3> QED
      BY <3>1, <1>5, <1>6
  <2> QED
    BY <1>1, <1>2, <2>1, <2>2 DEF Accepted
<1>8. ScanLast(v, Len(v)) = last
  <2>1. 1 + remaining \in 1..Len(v) /\ Numbers(v, 1 + remaining) /\ v[1 + remaining].seq = last
    BY <1>1, <1>4, <1>r, <1>N
  <2>2. ASSUME NEW k \in 1..Len(v), Numbers(v, k) PROVE v[k].seq =< last
    <3>1. k \in 1..(1 + remaining)
      <4>1. k \in 1..(1 + remaining) \/ (tail = 1 /\ k = 2 + remaining)
        BY <1>1, <1>r
      <4> QED
        BY <4>1, <1>3, <2>2 DEF Numbers
    <3> QED
      BY <3>1, <1>4, <1>r, <1>N
  <2>3. Len(v) \in 1..Len(v)
    BY <1>1, <1>r
  <2> QED
    BY <1>1, <1>2, <2>1, <2>2, <2>3, ScanLastIs
<1>9. ScanCommitted(v, Len(v)) = committed
  <2>0. Len(v) \in 1..Len(v)
    BY <1>1, <1>r
  <2>1. ASSUME NEW k \in 1..Len(v), Commits(v, k) PROVE k = 1 \/ (tail = 1 /\ k = 2 + remaining)
    <3>1. k = 1 \/ k \in 2..(1 + remaining) \/ (tail = 1 /\ k = 2 + remaining)
      BY <1>1, <1>r
    <3>2. ~ (k \in 2..(1 + remaining))
      BY <1>1, <2>1 DEF Commits
    <3> QED
      BY <3>1, <3>2
  <2>2. CASE tail = 1
    <3>1. 2 + remaining \in 1..Len(v) /\ Commits(v, 2 + remaining) /\ v[2 + remaining].seq = committed
      BY <1>1, <1>3, <1>r, <2>2 DEF Commits
    <3>2. \A k \in 1..Len(v) : Commits(v, k) => v[k].seq =< v[2 + remaining].seq
      BY <2>1, <3>1, <1>2, <1>N
    <3> QED
      BY <1>1, <1>2, <2>0, <3>1, <3>2, ScanCommittedIs
  <2>3. CASE tail = 0
    <3>1. 1 \in 1..Len(v) /\ Commits(v, 1) /\ v[1].seq = committed
      BY <1>1, <1>2, <1>r, <2>3 DEF Commits
    <3>2. \A k \in 1..Len(v) : Commits(v, k) => v[k].seq =< v[1].seq
      BY <2>1, <2>3, <3>1, <1>N
    <3> QED
      BY <1>1, <1>2, <2>0, <3>1, <3>2, ScanCommittedIs
  <2> QED
    BY <1>r, <2>2, <2>3
<1> USE DEF last, committed
<1> QED
  BY <1>1, <1>7, <1>8, <1>9

-----------------------------------------------------------------------------
(* Sound images.                                                           *)

\* Sound, with the history variables it depends on as parameters.
SoundWith(u, k, n, a, fl, h) ==
    /\ Readable(u, n)
    /\ u[1].seq =< fl
    /\ \A i \in 1..n : u[i].kind = "mutation" => u[i].mut = h[u[i].seq]
    /\ a > 0 => \E c \in 1..n : c =< k /\ Commits(u, c) /\ a =< u[c].seq
SoundFor(u, k, a, fl, h) ==
    \/ a = 0 /\ u \in {<< >>, <<Fragment>>}
    \/ \E n \in 1..Len(u) : SoundWith(u, k, n, a, fl, h)

LEMMA SoundIsSoundFor ==
    ASSUME NEW image
    PROVE  Sound(image) <=> SoundFor(image.units, image.synced, acked, floor, history)
  BY DEF Sound, SoundFor, SoundWith

LEMMA ReadableAccepted ==
    ASSUME NEW u \in Seq(Unit), NEW n, Readable(u, n)
    PROVE  Accepted(u, n)
  BY DEF Readable, Accepted

\* A scan stops at one place only.
LEMMA ScanUnique ==
    ASSUME NEW u \in Seq(Unit), NEW n, Readable(u, n), NEW m \in scanLog(u)
    PROVE  m = n
<1>1. n \in 1..Len(u) /\ m \in 1..Len(u) /\ Len(u) \in Nat
  BY LenProperties DEF Readable, scanLog
<1>2. \A i \in 1..Len(u) : Accepts(u, i) => u[i].kind # "fragment"
  BY DEF Accepts
<1>3. ~ (m < n)
  <2> SUFFICES ASSUME m < n PROVE FALSE
    OBVIOUS
  <2>1. m + 1 \in 2..n /\ m + 1 \in 1..Len(u) /\ m # Len(u)
    BY <1>1
  <2>2. Accepts(u, m + 1) /\ u[m + 1].kind = "fragment"
    BY <2>1 DEF Readable, scanLog
  <2> QED
    BY <1>2, <2>1, <2>2
<1>4. ~ (n < m)
  <2> SUFFICES ASSUME n < m PROVE FALSE
    OBVIOUS
  <2>1. n + 1 \in 2..m /\ n + 1 \in 1..Len(u) /\ n # Len(u)
    BY <1>1
  <2>2. Accepts(u, n + 1) /\ u[n + 1].kind = "fragment"
    BY <2>1 DEF Readable, scanLog
  <2> QED
    BY <1>2, <2>1, <2>2
<1> QED
  BY <1>1, <1>3, <1>4

LEMMA ReadableScans ==
    ASSUME NEW u \in Seq(Unit), NEW n, Readable(u, n)
    PROVE  n \in scanLog(u)
  BY DEF Readable, scanLog

\* What is acknowledged is committed in every sound image.
LEMMA AckedBelowCommitted ==
    ASSUME NEW u \in Seq(Unit), NEW k, NEW a \in Sequence, NEW fl, NEW h,
           SoundFor(u, k, a, fl, h), NEW n, Readable(u, n)
    PROVE  a =< ScanCommitted(u, n) /\ SoundWith(u, k, n, a, fl, h)
<1>0. n \in 1..Len(u) /\ u[1].kind = "header" /\ Len(u) \in Nat /\ a \in Nat
  BY LenProperties, LogAssumption DEF Readable, Sequence
<1>1. u # << >> /\ u # <<Fragment>>
  BY <1>0 DEF Fragment
<1>2. PICK m \in 1..Len(u) : SoundWith(u, k, m, a, fl, h)
  BY <1>1 DEF SoundFor
<1>3. m = n
  BY <1>2, ReadableScans, ScanUnique DEF SoundWith
<1>4. ScanCommitted(u, n) \in Nat
  BY <1>0, ScanCommittedFacts, LogAssumption DEF Sequence
<1>5. CASE a = 0
  BY <1>2, <1>3, <1>4, <1>5
<1>6. CASE a > 0
  <2>1. PICK c \in 1..n : Commits(u, c) /\ a =< u[c].seq
    BY <1>2, <1>3, <1>6 DEF SoundWith
  <2>2. u[c].seq =< ScanCommitted(u, n)
    BY <1>0, <2>1, ScanCommittedFacts
  <2>3. u[c].seq \in Nat
    BY <1>0, UnitType, LogAssumption DEF Sequence
  <2> QED
    BY <1>0, <1>2, <1>3, <1>4, <2>1, <2>2, <2>3
<1> QED
  BY <1>0, <1>5, <1>6

\* Soundness survives more syncs, higher floors and later mutations.
LEMMA SoundLater ==
    ASSUME NEW u \in Seq(Unit), NEW k \in Nat, NEW k2 \in Nat, k =< k2,
           NEW a \in Sequence, NEW fl \in Sequence, NEW fl2 \in Sequence, fl =< fl2,
           NEW h, NEW h2,
           \A i \in 1..Len(u) : u[i].kind = "mutation" => h2[u[i].seq] = h[u[i].seq],
           SoundFor(u, k, a, fl, h)
    PROVE  SoundFor(u, k2, a, fl2, h2)
<1>1. CASE a = 0 /\ u \in {<< >>, <<Fragment>>}
  BY <1>1 DEF SoundFor
<1>2. ASSUME NEW n \in 1..Len(u), SoundWith(u, k, n, a, fl, h)
      PROVE  SoundWith(u, k2, n, a, fl2, h2)
  <2>0. Len(u) \in Nat /\ n \in Nat /\ 1 \in 1..Len(u)
    BY LenProperties
  <2>1. u[1].seq =< fl2
    <3>1. u[1].seq \in Nat /\ fl \in Nat /\ fl2 \in Nat
      BY <2>0, UnitType, LogAssumption DEF Sequence
    <3> QED
      BY <1>2, <3>1 DEF SoundWith
  <2>2. \A i \in 1..n : u[i].kind = "mutation" => u[i].mut = h2[u[i].seq]
    BY <1>2, <2>0 DEF SoundWith
  <2>3. a > 0 => \E c \in 1..n : c =< k2 /\ Commits(u, c) /\ a =< u[c].seq
    <3> SUFFICES ASSUME a > 0 PROVE \E c \in 1..n : c =< k2 /\ Commits(u, c) /\ a =< u[c].seq
      OBVIOUS
    <3>1. PICK c \in 1..n : c =< k /\ Commits(u, c) /\ a =< u[c].seq
      BY <1>2 DEF SoundWith
    <3> QED
      BY <2>0, <3>1
  <2> QED
    BY <1>2, <2>1, <2>2, <2>3 DEF SoundWith
<1> QED
  BY <1>1, <1>2 DEF SoundFor

\* The first units of a sound file, with or without a fragment behind them.
LEMMA SoundPrefix ==
    ASSUME NEW u \in Seq(Unit), NEW k \in Nat, NEW n, NEW a \in Sequence, NEW fl, NEW h,
           SoundWith(u, k, n, a, fl, h),
           NEW m \in 1..n, k =< m \/ m = n, NEW k2 \in Nat, k =< k2,
           NEW v \in Seq(Unit), \A i \in 1..m : v[i] = u[i],
           \/ Len(v) = m
           \/ Len(v) = m + 1 /\ v[m + 1].kind = "fragment"
    PROVE  SoundWith(v, k2, m, a, fl, h)
<1>0. n \in 1..Len(u) /\ Len(u) \in Nat /\ Len(v) \in Nat /\ m =< Len(v)
      /\ 1 \in 1..m /\ m \in 1..Len(v) /\ Accepted(u, n)
  <2>1. n \in 1..Len(u) /\ Accepted(u, n)
    BY ReadableAccepted DEF SoundWith, Readable
  <2>2. Len(u) \in Nat /\ Len(v) \in Nat
    BY LenProperties
  <2> QED
    BY <2>1, <2>2
<1>1. Accepted(v, m)
  BY <1>0, SamePrefix
<1>2. Readable(v, m)
  BY <1>0, <1>1 DEF Readable, Accepted
<1>3. v[1].seq =< fl /\ \A i \in 1..m : v[i].kind = "mutation" => v[i].mut = h[v[i].seq]
  BY <1>0 DEF SoundWith
<1>4. ASSUME a > 0 PROVE \E c \in 1..m : c =< k2 /\ Commits(v, c) /\ a =< v[c].seq
  <2>1. PICK c \in 1..n : c =< k /\ Commits(u, c) /\ a =< u[c].seq
    BY <1>4 DEF SoundWith
  <2>2. c \in 1..m /\ c =< k2 /\ v[c] = u[c]
    BY <1>0, <2>1
  <2> QED
    BY <2>1, <2>2 DEF Commits
<1> QED
  BY <1>2, <1>3, <1>4 DEF SoundWith

LEMMA FragmentIsUnit == Fragment \in Unit
  BY LogAssumption DEF Fragment, Unit, Sequence

\* What a power loss leaves of a sound image is sound.
LEMMA SoundSurvives ==
    ASSUME NEW image \in Image, NEW a \in Sequence, NEW fl, NEW h,
           SoundFor(image.units, image.synced, a, fl, h),
           NEW w \in Survivors(image)
    PROVE  SoundFor(w.units, w.synced, a, fl, h)
<1> DEFINE u == image.units
           k == image.synced
<1>0. u \in Seq(Unit) /\ k \in Nat /\ Len(u) \in Nat
  BY LenProperties DEF Image
<1>1. PICK v : /\ w = [units |-> v, synced |-> Len(v)]
               /\ \/ \E m \in k..Len(u) : v = SubSeq(u, 1, m)
                  \/ \E m \in k..(Len(u) - 1) : v = Append(SubSeq(u, 1, m), Fragment)
  BY DEF Survivors
<1>2. PICK m \in k..Len(u) : \/ v = SubSeq(u, 1, m)
                             \/ m =< Len(u) - 1 /\ v = Append(SubSeq(u, 1, m), Fragment)
  <2>1. CASE \E m \in k..Len(u) : v = SubSeq(u, 1, m)
    BY <2>1
  <2>2. CASE \E m \in k..(Len(u) - 1) : v = Append(SubSeq(u, 1, m), Fragment)
    <3>1. PICK m \in k..(Len(u) - 1) : v = Append(SubSeq(u, 1, m), Fragment)
      BY <2>2
    <3>2. m \in k..Len(u) /\ m =< Len(u) - 1
      BY <1>0
    <3> QED
      BY <3>1, <3>2
  <2> QED
    BY <1>1, <2>1, <2>2
<1> DEFINE p == SubSeq(u, 1, m)
<1>m. m \in Nat /\ m =< Len(u) /\ k =< m
  BY <1>0
<1>3. p \in Seq(Unit) /\ Len(p) = m /\ \A i \in 1..m : p[i] = u[i]
  BY <1>0, <1>m, SubSeqProperties
<1>4. /\ v \in Seq(Unit) /\ \A i \in 1..m : v[i] = u[i]
      /\ \/ Len(v) = m
         \/ m =< Len(u) - 1 /\ Len(v) = m + 1 /\ v[m + 1] = Fragment
  <2>1. CASE v = p
    BY <1>3, <2>1
  <2>2. CASE m =< Len(u) - 1 /\ v = Append(p, Fragment)
    BY <1>3, <2>2, FragmentIsUnit, AppendProperties
  <2> QED
    BY <1>2, <2>1, <2>2
<1> HIDE DEF p
<1>5. CASE m = 0
  <2>1. v \in {<< >>, <<Fragment>>}
    BY <1>4, <1>5, EmptySeq, SeqEqual, LenProperties
  <2>2. a = 0
    <3>1. a > 0 => FALSE
      <4> SUFFICES ASSUME a > 0 PROVE FALSE
        OBVIOUS
      <4>1. PICK n \in 1..Len(u) : SoundWith(u, k, n, a, fl, h)
        BY DEF SoundFor
      <4>2. PICK c \in 1..n : c =< k
        BY <4>1 DEF SoundWith
      <4> QED
        BY <1>0, <1>m, <1>5, <4>2
    <3> QED
      BY <3>1, LogAssumption DEF Sequence
  <2> QED
    BY <1>1, <2>1, <2>2 DEF SoundFor
<1>6. CASE m > 0 /\ a = 0 /\ u \in {<< >>, <<Fragment>>}
  <2>0. Len(<< >>) = 0 /\ Len(<<Fragment>>) = 1
    BY EmptySeq
  <2>1. u = <<Fragment>> /\ m = 1 /\ Len(u) = 1
    <3>1. CASE u = << >>
      BY <1>m, <1>6, <2>0, <3>1
    <3>2. CASE u = <<Fragment>>
      <4>1. Len(u) = 1
        BY <2>0, <3>2
      <4> QED
        BY <1>m, <1>6, <3>2, <4>1
    <3> QED
      BY <1>6, <3>1, <3>2
  <2>2. Len(v) = 1 /\ v[1] = Fragment
    BY <1>4, <2>1
  <2>3. v = <<Fragment>>
    BY <1>4, <2>2
  <2> QED
    BY <1>1, <1>6, <2>3 DEF SoundFor
<1>7. CASE m > 0 /\ \E n \in 1..Len(u) : SoundWith(u, k, n, a, fl, h)
  <2>1. PICK n \in 1..Len(u) : SoundWith(u, k, n, a, fl, h)
    BY <1>7
  <2>2. n = Len(u) \/ (n = Len(u) - 1 /\ u[n + 1].kind = "fragment")
    BY <2>1 DEF SoundWith, Readable
  <2>3. CASE m =< n
    <3>1. m \in 1..n /\ (Len(v) = m \/ (Len(v) = m + 1 /\ v[m + 1].kind = "fragment"))
      BY <1>0, <1>m, <1>4, <1>7, <2>3 DEF Fragment
    <3>0. Len(v) \in Nat /\ k =< Len(v)
      BY <1>0, <1>m, <3>1
    <3>2. SoundWith(v, Len(v), m, a, fl, h)
      BY <1>0, <1>m, <1>4, <2>1, <3>0, <3>1, SoundPrefix
    <3>3. m \in 1..Len(v)
      BY <1>m, <1>4, <3>1
    <3> QED
      BY <1>1, <3>2, <3>3 DEF SoundFor
  <2>4. CASE ~ (m =< n)
    <3>1. m = n + 1 /\ n = Len(u) - 1 /\ Len(v) = m /\ m \in 1..m
      BY <1>0, <1>m, <1>4, <2>2, <2>4
    <3>2. v = u
      <4>1. Len(v) = Len(u) /\ \A i \in 1..Len(v) : v[i] = u[i]
        BY <1>0, <1>4, <3>1
      <4> QED
        BY <1>0, <1>4, <4>1, SeqEqual
    <3>3. SoundWith(u, Len(u), n, a, fl, h)
      <4>1. a > 0 => \E c \in 1..n : c =< Len(u) /\ Commits(u, c) /\ a =< u[c].seq
        <5> SUFFICES ASSUME a > 0 PROVE \E c \in 1..n : c =< Len(u) /\ Commits(u, c) /\ a =< u[c].seq
          OBVIOUS
        <5>1. PICK c \in 1..n : Commits(u, c) /\ a =< u[c].seq
          BY <2>1 DEF SoundWith
        <5> QED
          BY <1>0, <2>1, <5>1
      <4> QED
        BY <2>1, <4>1 DEF SoundWith
    <3> QED
      BY <1>1, <2>1, <3>2, <3>3 DEF SoundFor
  <2> QED
    BY <2>3, <2>4
<1> QED
  BY <1>m, <1>5, <1>6, <1>7 DEF SoundFor

\* The mutations of a readable file have sequence numbers from 1.
LEMMA MutationPositive ==
    ASSUME NEW u \in Seq(Unit), NEW n, Readable(u, n),
           NEW i \in 1..Len(u), u[i].kind = "mutation"
    PROVE  i \in 2..n /\ u[i].seq \in 1..MaxSequence
<1>0. n \in 1..Len(u) /\ Len(u) \in Nat /\ u[1].kind = "header" /\ MaxSequence \in Nat
  BY LenProperties, LogAssumption DEF Readable
<1>1. i \in 2..n
  BY <1>0 DEF Readable
<1>2. PICK j \in 1..(i - 1) : u[i].seq = u[j].seq + 1
  BY <1>1 DEF Readable, Accepts
<1>3. j \in 1..Len(u)
  BY <1>0, <1>1
<1>4. u[j].seq \in Nat /\ u[i].seq \in Nat /\ u[i].seq =< MaxSequence
  BY <1>0, <1>3, UnitType DEF Sequence
<1> QED
  BY <1>0, <1>1, <1>2, <1>4

\* A record that is accepted behind a sound file keeps it sound.
LEMMA SoundRecord ==
    ASSUME NEW u \in Seq(Unit), NEW k \in Nat, NEW a \in Sequence, NEW fl, NEW h,
           SoundWith(u, k, Len(u), a, fl, h),
           NEW unit \in Unit, unit.kind = "mutation" => unit.mut = h[unit.seq],
           NEW v, v = Append(u, unit), Accepted(v, Len(v))
    PROVE  SoundWith(v, k, Len(v), a, fl, h)
<1>0. Len(u) \in Nat /\ v \in Seq(Unit) /\ Len(v) = Len(u) + 1 /\ v[Len(u) + 1] = unit
      /\ \A i \in 1..Len(u) : v[i] = u[i]
  BY LenProperties, AppendProperties
<1>1. Len(u) \in 1..Len(u) /\ 1 \in 1..Len(u)
  BY <1>0 DEF SoundWith, Readable
<1>2. Readable(v, Len(v))
  BY DEF Accepted, Readable
<1>3. v[1].seq =< fl
  BY <1>0, <1>1 DEF SoundWith
<1>4. ASSUME NEW i \in 1..Len(v), v[i].kind = "mutation" PROVE v[i].mut = h[v[i].seq]
  <2>1. CASE i \in 1..Len(u)
    BY <1>0, <1>4, <2>1 DEF SoundWith
  <2>2. CASE i = Len(u) + 1
    BY <1>0, <1>4, <2>2
  <2> QED
    BY <1>0, <2>1, <2>2
<1>5. ASSUME a > 0 PROVE \E c \in 1..Len(v) : c =< k /\ Commits(v, c) /\ a =< v[c].seq
  <2>1. PICK c \in 1..Len(u) : c =< k /\ Commits(u, c) /\ a =< u[c].seq
    BY <1>5 DEF SoundWith
  <2>2. c \in 1..Len(v) /\ v[c] = u[c]
    BY <1>0
  <2> QED
    BY <2>1, <2>2 DEF Commits
<1> QED
  BY <1>2, <1>3, <1>4, <1>5 DEF SoundWith

\* A sync makes everything that a scan finds committed durable.
LEMMA SoundSync ==
    ASSUME NEW u \in Seq(Unit), NEW k, NEW n, NEW a, NEW fl, NEW h,
           SoundWith(u, k, n, a, fl, h),
           NEW a2 \in Sequence, a2 =< ScanCommitted(u, n),
           NEW k2 \in Nat, n =< k2
    PROVE  SoundWith(u, k2, n, a2, fl, h)
<1>0. n \in 1..Len(u) /\ Len(u) \in Nat /\ u[1].kind = "header"
  BY LenProperties DEF SoundWith, Readable
<1>1. PICK c \in 1..n : Commits(u, c) /\ u[c].seq = ScanCommitted(u, n)
  BY <1>0, ScanCommittedFacts
<1>2. c =< k2
  BY <1>0
<1> QED
  BY <1>1, <1>2 DEF SoundWith

\* The file that Truncate writes is sound when the one it replaces is.
LEMMA SoundRewritten ==
    ASSUME NEW u \in Seq(Unit), NEW k, NEW n, NEW a \in Sequence, NEW fl \in Sequence, NEW h,
           SoundWith(u, k, n, a, fl, h), a =< ScanCommitted(u, n),
           NEW base \in Sequence, u[1].seq =< base, base =< ScanCommitted(u, n),
           NEW fl2 \in Sequence, base =< fl2,
           NEW v, v = Rewritten(u, n, base)
    PROVE  SoundWith(v, Len(v), Len(v), a, fl2, h)
<1>0. Accepted(u, n) /\ n \in 1..Len(u) /\ Len(u) \in Nat
  BY ReadableAccepted, LenProperties DEF SoundWith, Accepted
<1>1. /\ Accepted(v, Len(v))
      /\ v[1] = Header(base)
      /\ ScanCommitted(v, Len(v)) = ScanCommitted(u, n)
  BY <1>0, RewrittenAccepted
<1>2. Rewrites(u, n, base, v)
  BY <1>0, RewrittenUnits
<1>3. v \in Seq(Unit) /\ Len(v) \in 1..Len(v) /\ v[1].kind = "header"
  BY <1>1 DEF Accepted
<1>4. Readable(v, Len(v))
  BY <1>1 DEF Accepted, Readable
<1>5. v[1].seq =< fl2
  BY <1>1 DEF Header
<1>6. ASSUME NEW i \in 1..Len(v), v[i].kind = "mutation" PROVE v[i].mut = h[v[i].seq]
  <2> DEFINE remaining == Remaining(u, n, base)
             tail == CommitTail(u, n, base)
  <2>1. remaining \in Nat /\ tail \in {0, 1} /\ Len(v) = 1 + remaining + tail
    BY <1>2 DEF Rewrites
  <2>2. i # 1
    BY <1>1, <1>6 DEF Header
  <2>3. ~ (tail = 1 /\ i = 2 + remaining)
    BY <1>2, <1>6 DEF Rewrites, encodeCommit
  <2> HIDE DEF remaining, tail
  <2>4. i \in 2..(1 + remaining)
    BY <2>1, <2>2, <2>3
  <2>5. \E j \in 1..n : u[j].kind = "mutation" /\ u[j].seq = v[i].seq /\ v[i].mut = u[j].mut
    BY <1>2, <2>4 DEF Rewrites, remaining
  <2> QED
    BY <2>5 DEF SoundWith
<1>7. ASSUME a > 0 PROVE \E c \in 1..Len(v) : c =< Len(v) /\ Commits(v, c) /\ a =< v[c].seq
  <2>1. PICK c \in 1..Len(v) : Commits(v, c) /\ v[c].seq = ScanCommitted(v, Len(v))
    BY <1>3, ScanCommittedFacts
  <2>2. c =< Len(v)
    BY <1>3, LenProperties
  <2> QED
    BY <1>1, <2>1, <2>2
<1> QED
  BY <1>4, <1>5, <1>6, <1>7 DEF SoundWith

-----------------------------------------------------------------------------
(* What the parts of the actions do to the file.                           *)

LEMMA FileType ==
    ASSUME LogTypeOK
    PROVE  /\ file.units \in Seq(Unit) /\ file.synced \in Nat /\ Len(file.units) \in Nat
           /\ file = [units |-> file.units, synced |-> file.synced]
           /\ file.synced =< Len(file.units)
  BY LenProperties DEF LogTypeOK, Image

LEMMA WriteFacts ==
    ASSUME LogTypeOK, NEW unit \in Unit
    PROVE  /\ Write(unit) = [units |-> Append(file.units, unit), synced |-> file.synced]
           /\ Write(unit).units = Append(file.units, unit)
           /\ Write(unit).synced = file.synced
           /\ Write(unit) \in Image
           /\ Append(file.units, unit) \in Seq(Unit)
           /\ Len(Append(file.units, unit)) = Len(file.units) + 1
           /\ Append(file.units, unit)[Len(file.units) + 1] = unit
           /\ \A i \in 1..Len(file.units) : Append(file.units, unit)[i] = file.units[i]
<1>1. file.units \in Seq(Unit) /\ file.synced \in Nat /\ Len(file.units) \in Nat
      /\ file = [units |-> file.units, synced |-> file.synced]
  BY FileType
<1>2. Append(file.units, unit) \in Seq(Unit) /\ Len(Append(file.units, unit)) = Len(file.units) + 1
      /\ Append(file.units, unit)[Len(file.units) + 1] = unit
      /\ \A i \in 1..Len(file.units) : Append(file.units, unit)[i] = file.units[i]
  BY <1>1, AppendProperties
<1>3. Write(unit) = [units |-> Append(file.units, unit), synced |-> file.synced]
  BY <1>1, SMTT(30) DEF Write
<1> QED
  BY <1>1, <1>2, <1>3 DEF Image

LEMMA SyncedFacts ==
    ASSUME NEW image \in Image
    PROVE  /\ Synced(image) \in Image
           /\ Synced(image).units = image.units
           /\ Synced(image).synced = Len(image.units)
  BY LenProperties DEF Synced, Image

LEMMA NewFileFacts ==
    ASSUME LogTypeOK, HeaderInv, NEW seq \in Sequence, InTruncateRange(seq),
           NEW n \in scanLog(file.units)
    PROVE  /\ Accepted(file.units, n)
           /\ file.units[1].seq =< seq
           /\ NewFile(n, seq) \in Image
           /\ NewFile(n, seq).units = Rewritten(file.units, n, seq)
           /\ NewFile(n, seq).synced = Len(NewFile(n, seq).units)
           /\ Len(NewFile(n, seq).units) \in Nat \ {0}
           /\ NewFile(n, seq).units[1] = Header(seq)
<1>1. file.units \in Seq(Unit)
  BY FileType
<1>2. Accepted(file.units, n)
  BY <1>1 DEF scanLog, Accepted
<1>3. file.units[1].seq =< seq
  BY DEF HeaderInv, InTruncateRange
<1>4. Rewrites(file.units, n, seq, Rewritten(file.units, n, seq))
  BY <1>2, <1>3, RewrittenUnits
<1> DEFINE v == Rewritten(file.units, n, seq)
<1>5. v \in Seq(Unit) /\ Len(v) \in Nat \ {0} /\ v[1] = Header(seq)
  BY <1>4 DEF Rewrites
<1> HIDE DEF v
<1>6. [units |-> v, synced |-> 0] \in Image
  BY <1>5 DEF Image
<1>7. Synced([units |-> v, synced |-> 0]) \in Image
      /\ Synced([units |-> v, synced |-> 0]).units = v
      /\ Synced([units |-> v, synced |-> 0]).synced = Len(v)
  BY <1>6, SyncedFacts
<1>8. NewFile(n, seq) = Synced([units |-> v, synced |-> 0])
  BY DEF NewFile, v
<1> QED
  BY <1>2, <1>3, <1>5, <1>7, <1>8 DEF v

LEMMA RecordTypes ==
    /\ \A s \in Sequence : Header(s) \in Unit /\ encodeCommit(s) \in Unit
    /\ \A s \in Sequence, m \in Mutations : encodeMutation(s, m) \in Unit
    /\ Fragment \in Unit
    /\ 0 \in Sequence
  BY FragmentIsUnit, LogAssumption DEF Header, encodeCommit, encodeMutation, Unit, Sequence

\* What a power loss leaves is an image, as long as the sync told.
LEMMA SurvivorFacts ==
    ASSUME NEW image \in Image, NEW w \in Survivors(image)
    PROVE  /\ w \in Image /\ w.synced = Len(w.units)
           /\ image.synced =< Len(w.units)
           /\ image.synced >= 1 => w.units[1] = image.units[1]
<1> DEFINE u == image.units
           k == image.synced
<1>0. u \in Seq(Unit) /\ k \in Nat /\ Len(u) \in Nat
  BY LenProperties DEF Image
<1>1. PICK v : /\ w = [units |-> v, synced |-> Len(v)]
               /\ \/ \E m \in k..Len(u) : v = SubSeq(u, 1, m)
                  \/ \E m \in k..(Len(u) - 1) : v = Append(SubSeq(u, 1, m), Fragment)
  BY DEF Survivors
<1>2. PICK m \in k..Len(u) : v = SubSeq(u, 1, m) \/ v = Append(SubSeq(u, 1, m), Fragment)
  <2>1. CASE \E m \in k..Len(u) : v = SubSeq(u, 1, m)
    BY <2>1
  <2>2. CASE \E m \in k..(Len(u) - 1) : v = Append(SubSeq(u, 1, m), Fragment)
    <3>1. PICK m \in k..(Len(u) - 1) : v = Append(SubSeq(u, 1, m), Fragment)
      BY <2>2
    <3>2. m \in k..Len(u)
      BY <1>0
    <3> QED
      BY <3>1, <3>2
  <2> QED
    BY <1>1, <2>1, <2>2
<1> DEFINE p == SubSeq(u, 1, m)
<1>m. m \in Nat /\ m =< Len(u) /\ k =< m
  BY <1>0
<1>3. p \in Seq(Unit) /\ Len(p) = m /\ \A i \in 1..m : p[i] = u[i]
  BY <1>0, <1>m, SubSeqProperties
<1>4. v \in Seq(Unit) /\ Len(v) \in Nat /\ m =< Len(v) /\ \A i \in 1..m : v[i] = u[i]
  <2>1. CASE v = p
    BY <1>3, <1>m, <2>1
  <2>2. CASE v = Append(p, Fragment)
    BY <1>3, <1>m, <2>2, FragmentIsUnit, AppendProperties
  <2> QED
    BY <1>2, <2>1, <2>2
<1>5. k >= 1 => v[1] = u[1]
  <2>1. k >= 1 => 1 \in 1..m
    BY <1>0, <1>m
  <2> QED
    BY <1>4, <2>1
<1> QED
  BY <1>0, <1>1, <1>m, <1>4, <1>5 DEF Image

-----------------------------------------------------------------------------
(* Types.                                                                  *)

\* Every step keeps the types.  The rewritten file needs HeaderInv: only the
\* mutations above the base are in the log.
LEMMA TypeStep ==
    ASSUME LogTypeOK, HeaderInv, [LogNext]_logVars
    PROVE  LogTypeOK'
<1>f. file.units \in Seq(Unit) /\ file.synced \in Nat /\ Len(file.units) \in Nat
      /\ file \in Image /\ file.synced =< Len(file.units)
  BY FileType DEF LogTypeOK
<1>0. 0 \in Sequence /\ MaxSequence \in Nat
  BY RecordTypes, LogAssumption
<1>s. ASSUME NEW n \in scanLog(file.units)
      PROVE  /\ n \in 1..Len(file.units)
             /\ file.units[1].seq \in Sequence
             /\ ScanLast(file.units, n) \in Sequence
             /\ ScanCommitted(file.units, n) \in Sequence
  <2>1. n \in 1..Len(file.units) /\ file.units[1].kind = "header"
    BY DEF scanLog
  <2>2. 1 \in 1..Len(file.units)
    BY <1>f, <2>1
  <2> QED
    BY <1>f, <2>1, <2>2, ScanLastFacts, ScanCommittedFacts, UnitType
<1>w. ASSUME NEW unit \in Unit, file' = Write(unit)
      PROVE  file' \in Image /\ file'.synced =< Len(file'.units)
  BY <1>f, <1>w, WriteFacts
<1>1. CASE OpenNew
  <2>1. <<Header(0)>> \in Seq(Unit) /\ Len(<<Header(0)>>) = 1
    BY RecordTypes
  <2>2. file' \in Image /\ file'.synced =< Len(file'.units)
    BY <1>1, <2>1 DEF OpenNew, Image
  <2> QED
    BY <1>0, <1>1, <2>2 DEF OpenNew, LogTypeOK
<1>2. CASE OpenNewFails
  <2>1. file' \in Image /\ file'.synced =< Len(file'.units)
    BY <1>2, <1>0, <1>w, RecordTypes DEF OpenNewFails
  <2> QED
    BY <1>2, <2>1 DEF OpenNewFails, LogTypeOK, memory, ghosts
<1>3. CASE OpenExisting
  <2>1. PICK n \in scanLog(file.units) :
           /\ IF n < Len(file.units)
                 THEN /\ file' = [units |-> SubSeq(file.units, 1, n), synced |-> n]
                      /\ undo' = {}
                 ELSE UNCHANGED disk
           /\ baseSequence' = file.units[1].seq
           /\ lastSequence' = ScanLast(file.units, n)
           /\ committedSequence' = ScanCommitted(file.units, n)
    BY <1>3 DEF OpenExisting
  <2>2. SubSeq(file.units, 1, n) \in Seq(Unit) /\ Len(SubSeq(file.units, 1, n)) = n /\ n \in Nat
    BY <1>f, <1>s, SubSeqProperties
  <2>3. file' \in Image /\ file'.synced =< Len(file'.units) /\ undo' \subseteq Image
    BY <1>f, <2>1, <2>2 DEF Image, disk, LogTypeOK
  <2> QED
    BY <1>3, <1>s, <2>1, <2>3 DEF OpenExisting, LogTypeOK
<1>4. ASSUME NEW m \in Mutations, LogAppend(m) PROVE LogTypeOK'
  <2>1. lastSequence + 1 \in Sequence /\ lastSequence + 1 \in 1..MaxSequence
    BY <1>0, <1>4 DEF LogAppend, LogTypeOK, Sequence
  <2>2. file' \in Image /\ file'.synced =< Len(file'.units)
    BY <1>4, <1>w, <2>1, RecordTypes DEF LogAppend
  <2>3. history' \in [1..MaxSequence -> Mutations \union {NoMutation}]
    BY <1>4, <2>1 DEF LogAppend, LogTypeOK
  <2> QED
    BY <1>4, <2>1, <2>2, <2>3 DEF LogAppend, LogTypeOK, Wrote
<1>5. CASE LogAppendFails
  <2>1. file' \in Image /\ file'.synced =< Len(file'.units)
    BY <1>5, <1>w, RecordTypes DEF LogAppendFails, Tore
  <2> QED
    BY <1>5, <2>1 DEF LogAppendFails, Tore, LogTypeOK, memory
<1>6. ASSUME NEW seq \in Sequence, LogCommit(seq) PROVE LogTypeOK'
  <2>1. file' \in Image /\ file'.synced =< Len(file'.units)
    <3>1. Synced(file) \in Image /\ Synced(file).synced =< Len(Synced(file).units)
      BY <1>f, SyncedFacts
    <3>2. Synced(Write(encodeCommit(seq))) \in Image
          /\ Synced(Write(encodeCommit(seq))).synced =< Len(Synced(Write(encodeCommit(seq))).units)
      BY WriteFacts, SyncedFacts, RecordTypes, LenProperties DEF Image
    <3> QED
      BY <1>6, <3>1, <3>2 DEF LogCommit
  <2>2. fault' \in {"no", "torn", "damaged"}
    BY <1>6 DEF LogCommit, WroteCommit, LogTypeOK
  <2> QED
    BY <1>6, <2>1, <2>2 DEF LogCommit, LogTypeOK
<1>7. ASSUME NEW seq \in Sequence, LogCommitFails(seq) PROVE LogTypeOK'
  <2>1. file' \in Image /\ file'.synced =< Len(file'.units)
    BY <1>7, <1>w, RecordTypes DEF LogCommitFails, Tore
  <2>2. fault' \in {"no", "torn", "damaged"}
    BY <1>7 DEF LogCommitFails, Tore, WroteCommit
  <2> QED
    BY <1>7, <2>1, <2>2 DEF LogCommitFails, LogTypeOK, memory
<1>8. ASSUME NEW seq \in Sequence, LogTruncate(seq) PROVE LogTypeOK'
  <2>1. PICK n \in scanLog(file.units) :
           /\ file' = NewFile(n, seq)
           /\ lastSequence' = ScanLast(file.units, n)
           /\ committedSequence' = ScanCommitted(file.units, n)
    BY <1>8 DEF LogTruncate
  <2>2. file' \in Image /\ file'.synced =< Len(file'.units)
    BY <1>8, <2>1, NewFileFacts DEF LogTruncate
  <2> QED
    BY <1>8, <1>s, <2>1, <2>2 DEF LogTruncate, LogTypeOK, syncDirectory
<1>9. ASSUME NEW seq \in Sequence, LogTruncateFails(seq) PROVE LogTypeOK'
  <2>1. file' \in Image /\ file'.synced =< Len(file'.units)
    BY <1>9, <1>f, NewFileFacts DEF LogTruncateFails, disk
  <2>2. undo' \subseteq Image
    BY <1>9, <1>f DEF LogTruncateFails, disk, syncDirectory, LogTypeOK
  <2> QED
    BY <1>9, <2>1, <2>2 DEF LogTruncateFails, LogTypeOK, ghosts
<1>10. CASE LogClose
  BY <1>10, <1>0 DEF LogClose, Forget, disk, ghosts, LogTypeOK
<1>11. CASE Kill
  BY <1>11, <1>0 DEF Kill, Forget, disk, ghosts, LogTypeOK
<1>12. CASE PowerLoss
  <2>1. PICK image \in {file} \union undo : file' \in Survivors(image)
    BY <1>12 DEF PowerLoss
  <2>2. image \in Image
    BY <1>f DEF LogTypeOK
  <2>3. file' \in Image /\ file'.synced =< Len(file'.units)
    <3>1. file' \in Image /\ file'.synced = Len(file'.units)
      BY <2>1, <2>2, SurvivorFacts
    <3> QED
      BY <3>1, LenProperties DEF Image
  <2> QED
    BY <1>0, <1>12, <2>3 DEF PowerLoss, Forget, ghosts, LogTypeOK
<1>13. CASE UNCHANGED logVars
  BY <1>13 DEF logVars, disk, memory, ghosts, LogTypeOK
<1> QED
  BY <1>1, <1>2, <1>3, <1>4, <1>5, <1>6, <1>7, <1>8, <1>9, <1>10, <1>11, <1>12, <1>13
  DEF LogNext

-----------------------------------------------------------------------------
(* The header, and the checkpoint that it records.                         *)

\* The base sequence of an open log is that of its file.
LEMMA HeaderStep ==
    ASSUME LogTypeOK, HeaderInv, [LogNext]_logVars
    PROVE  HeaderInv'
<1>f. file.units \in Seq(Unit) /\ Len(file.units) \in Nat /\ file \in Image
  BY FileType DEF LogTypeOK
<1>w. ASSUME handle = "open", handle' = "open", baseSequence' = baseSequence,
             NEW unit \in Unit, file'.units = Append(file.units, unit)
      PROVE  HeaderInv'
  <2>1. Len(file.units) # 0
    BY <1>f, <1>w, EmptySeq DEF HeaderInv
  <2>2. 1 \in 1..Len(file.units)
    BY <1>f, <2>1
  <2>3. file'.units[1] = file.units[1] /\ Len(file'.units) = Len(file.units) + 1
    BY <1>w, <2>2, WriteFacts
  <2>4. file'.units # << >>
    BY <1>f, <2>3, EmptySeq
  <2> QED
    BY <1>w, <2>3, <2>4 DEF HeaderInv
<1>1. CASE OpenNew
  BY <1>1 DEF OpenNew, HeaderInv, Header
<1>2. CASE OpenNewFails
  BY <1>2 DEF OpenNewFails, HeaderInv, memory
<1>3. CASE OpenExisting
  <2>1. PICK n \in scanLog(file.units) :
           /\ IF n < Len(file.units)
                 THEN file' = [units |-> SubSeq(file.units, 1, n), synced |-> n]
                 ELSE file' = file
           /\ baseSequence' = file.units[1].seq
    BY <1>3 DEF OpenExisting, disk
  <2>2. n \in 1..Len(file.units) /\ file.units[1].kind = "header"
    BY DEF scanLog
  <2>3. SubSeq(file.units, 1, n)[1] = file.units[1] /\ SubSeq(file.units, 1, n) # << >>
    <3>1. 1 \in 1..n /\ n \in Nat /\ n =< Len(file.units)
      BY <1>f, <2>2
    <3>2. Len(SubSeq(file.units, 1, n)) = n /\ SubSeq(file.units, 1, n)[1] = file.units[1]
      BY <1>f, <3>1, SubSeqProperties
    <3> QED
      BY <3>1, <3>2, EmptySeq
  <2>4. file.units # << >>
    BY <1>f, <2>2, EmptySeq
  <2> QED
    BY <2>1, <2>2, <2>3, <2>4 DEF HeaderInv
<1>4. ASSUME NEW m \in Mutations, LogAppend(m) PROVE HeaderInv'
  <2>1. lastSequence + 1 \in Sequence
    BY <1>4, LogAssumption DEF LogAppend, LogTypeOK, Sequence
  <2>2. encodeMutation(lastSequence + 1, m) \in Unit
    BY <2>1, RecordTypes
  <2> QED
    BY <1>4, <1>w, <2>2, WriteFacts DEF LogAppend
<1>5. CASE LogAppendFails
  BY <1>5, <1>w, WriteFacts, RecordTypes DEF LogAppendFails, Tore, memory
<1>6. ASSUME NEW seq \in Sequence, LogCommit(seq) PROVE HeaderInv'
  <2>1. CASE seq = committedSequence
    <3>1. file'.units = file.units
      BY <1>6, <1>f, <2>1, SyncedFacts DEF LogCommit
    <3> QED
      BY <1>6, <3>1 DEF LogCommit, HeaderInv, InCommitRange
  <2>2. CASE seq # committedSequence
    <3>1. file'.units = Append(file.units, encodeCommit(seq))
      BY <1>6, <2>2, WriteFacts, SyncedFacts, RecordTypes DEF LogCommit
    <3> QED
      BY <1>6, <3>1, <1>w, RecordTypes DEF LogCommit, InCommitRange
  <2> QED
    BY <2>1, <2>2
<1>7. ASSUME NEW seq \in Sequence, LogCommitFails(seq) PROVE HeaderInv'
  <2>1. \E unit \in {Fragment, encodeCommit(seq)} : file' = Write(unit)
    BY <1>7 DEF LogCommitFails, Tore
  <2>2. PICK unit \in Unit : file' = Write(unit)
    BY <2>1, RecordTypes
  <2>3. file'.units = Append(file.units, unit)
    BY <2>2, WriteFacts
  <2> QED
    BY <1>7, <1>w, <2>3 DEF LogCommitFails, memory, InCommitRange
<1>8. ASSUME NEW seq \in Sequence, LogTruncate(seq) PROVE HeaderInv'
  <2>1. file'.units[1] = Header(seq) /\ Len(file'.units) \in Nat \ {0}
    BY <1>8, NewFileFacts DEF LogTruncate
  <2>2. file'.units # << >>
    BY <2>1, EmptySeq
  <2> QED
    BY <1>8, <2>1, <2>2 DEF LogTruncate, HeaderInv, Header
<1>9. ASSUME NEW seq \in Sequence, LogTruncateFails(seq) PROVE HeaderInv'
  BY <1>9 DEF LogTruncateFails, HeaderInv
<1>10. CASE LogClose \/ Kill \/ PowerLoss
  BY <1>10 DEF LogClose, Kill, PowerLoss, Forget, HeaderInv
<1>11. CASE UNCHANGED logVars
  BY <1>11 DEF logVars, disk, memory, HeaderInv
<1> QED
  BY <1>1, <1>2, <1>3, <1>4, <1>5, <1>6, <1>7, <1>8, <1>9, <1>10, <1>11 DEF LogNext

\* Every image has a durable header at or above the checkpoint.
CheckpointInv == \A image \in {file} \union undo : KeepsCheckpoint(image)

LEMMA CheckpointStep ==
    ASSUME LogTypeOK, HeaderInv, CheckpointInv, [LogNext]_logVars
    PROVE  CheckpointInv'
<1>f. file.units \in Seq(Unit) /\ Len(file.units) \in Nat /\ file \in Image /\ file.synced \in Nat
      /\ checkpoint \in Nat
  BY FileType, LogAssumption DEF LogTypeOK, Sequence
<1>w. ASSUME checkpoint' = checkpoint, undo' \subseteq undo,
             file'.synced \in Nat, file'.synced >= file.synced, file'.units # << >>,
             Len(file.units) # 0 => file'.units[1] = file.units[1]
      PROVE  CheckpointInv'
  <2>1. checkpoint > 0 => file.units # << >> /\ file.synced >= 1 /\ file.units[1].seq >= checkpoint
    BY DEF CheckpointInv, KeepsCheckpoint
  <2>2. checkpoint > 0 => Len(file.units) # 0
    BY <1>f, <2>1, EmptySeq
  <2>3. KeepsCheckpoint(file)'
    BY <1>f, <1>w, <2>1, <2>2 DEF KeepsCheckpoint
  <2> QED
    BY <1>w, <2>3 DEF CheckpointInv, KeepsCheckpoint
<1>a. ASSUME NEW unit \in Unit
      PROVE  /\ Append(file.units, unit) # << >>
             /\ Len(file.units) # 0 => Append(file.units, unit)[1] = file.units[1]
  <2> DEFINE grown == Append(file.units, unit)
  <2>1. grown \in Seq(Unit) /\ Len(grown) = Len(file.units) + 1
        /\ \A i \in 1..Len(file.units) : grown[i] = file.units[i]
    BY WriteFacts
  <2> HIDE DEF grown
  <2>2. Len(grown) # 0 /\ (Len(file.units) # 0 => 1 \in 1..Len(file.units))
    BY <1>f, <2>1
  <2>3. grown # << >>
    BY <2>2, EmptySeq
  <2>4. Len(file.units) # 0 => grown[1] = file.units[1]
    BY <2>1, <2>2
  <2> QED
    BY <2>3, <2>4 DEF grown
<1>1. CASE OpenNew
  <2>1. checkpoint = 0
    BY <1>1, <1>f DEF OpenNew, CheckpointInv, KeepsCheckpoint
  <2> QED
    BY <1>1, <2>1 DEF OpenNew, CheckpointInv, KeepsCheckpoint
<1>2. CASE OpenNewFails
  <2>1. checkpoint = 0
    BY <1>2, <1>f DEF OpenNewFails, CheckpointInv, KeepsCheckpoint
  <2> QED
    BY <1>2, <2>1 DEF OpenNewFails, CheckpointInv, KeepsCheckpoint, ghosts
<1>3. CASE OpenExisting
  <2>1. PICK n \in scanLog(file.units) :
           IF n < Len(file.units)
              THEN file' = [units |-> SubSeq(file.units, 1, n), synced |-> n] /\ undo' = {}
              ELSE file' = file /\ undo' = undo
    BY <1>3 DEF OpenExisting, disk
  <2>2. CASE n < Len(file.units)
    <3>1. 1 \in 1..n /\ n \in Nat /\ n =< Len(file.units) /\ n >= 1
      BY <1>f DEF scanLog
    <3>2. Len(SubSeq(file.units, 1, n)) = n /\ SubSeq(file.units, 1, n)[1] = file.units[1]
      BY <1>f, <3>1, SubSeqProperties
    <3>3. SubSeq(file.units, 1, n) # << >>
      BY <3>1, <3>2, EmptySeq
    <3>4. KeepsCheckpoint(file)'
      BY <1>3, <2>1, <2>2, <3>1, <3>2, <3>3
      DEF OpenExisting, CheckpointInv, KeepsCheckpoint
    <3> QED
      BY <2>1, <2>2, <3>4 DEF CheckpointInv
  <2>3. CASE ~ (n < Len(file.units))
    BY <1>3, <2>1, <2>3 DEF OpenExisting, CheckpointInv, KeepsCheckpoint
  <2> QED
    BY <2>2, <2>3
<1>4. ASSUME NEW m \in Mutations, LogAppend(m) PROVE CheckpointInv'
  <2>1. lastSequence + 1 \in Sequence
    BY <1>4, LogAssumption DEF LogAppend, LogTypeOK, Sequence
  <2>2. encodeMutation(lastSequence + 1, m) \in Unit
    BY <2>1, RecordTypes
  <2>3. file'.units = Append(file.units, encodeMutation(lastSequence + 1, m))
        /\ file'.synced = file.synced
    BY <1>4, <2>2, WriteFacts DEF LogAppend
  <2> QED
    BY <1>4, <1>a, <1>f, <1>w, <2>2, <2>3 DEF LogAppend
<1>5. CASE LogAppendFails
  <2>1. file'.units = Append(file.units, Fragment) /\ file'.synced = file.synced
    BY <1>5, WriteFacts, RecordTypes DEF LogAppendFails, Tore
  <2> QED
    BY <1>5, <1>a, <1>f, <1>w, <2>1, RecordTypes DEF LogAppendFails
<1>6. ASSUME NEW seq \in Sequence, LogCommit(seq) PROVE CheckpointInv'
  <2>1. CASE seq = committedSequence
    <3>1. file'.units = file.units /\ file'.synced = Len(file.units)
      BY <1>6, <1>f, <2>1, SyncedFacts DEF LogCommit
    <3>2. file.synced =< Len(file.units) /\ file.units # << >>
      BY <1>6 DEF LogTypeOK, LogCommit, InCommitRange, HeaderInv
    <3> QED
      BY <1>6, <1>f, <1>w, <3>1, <3>2 DEF LogCommit
  <2>2. CASE seq # committedSequence
    <3>1. file'.units = Append(file.units, encodeCommit(seq)) /\ file'.synced = Len(file.units) + 1
      BY <1>6, <2>2, WriteFacts, SyncedFacts, RecordTypes DEF LogCommit
    <3>2. file.synced =< Len(file.units)
      BY DEF LogTypeOK
    <3> QED
      BY <1>6, <1>a, <1>f, <1>w, <3>1, <3>2, RecordTypes DEF LogCommit
  <2> QED
    BY <2>1, <2>2
<1>7. ASSUME NEW seq \in Sequence, LogCommitFails(seq) PROVE CheckpointInv'
  <2>1. \E unit \in {Fragment, encodeCommit(seq)} : file' = Write(unit)
    BY <1>7 DEF LogCommitFails, Tore
  <2>2. PICK unit \in Unit : file' = Write(unit)
    BY <2>1, RecordTypes
  <2>3. file'.units = Append(file.units, unit) /\ file'.synced = file.synced
    BY <2>2, WriteFacts
  <2> QED
    BY <1>7, <1>a, <1>f, <1>w, <2>3 DEF LogCommitFails
<1>8. ASSUME NEW seq \in Sequence, LogTruncate(seq) PROVE CheckpointInv'
  <2>1. /\ file'.units[1] = Header(seq) /\ Len(file'.units) \in Nat \ {0}
        /\ file'.synced = Len(file'.units)
    BY <1>8, NewFileFacts DEF LogTruncate
  <2>2. file'.units # << >> /\ file'.synced >= 1
    BY <2>1, EmptySeq
  <2>3. checkpoint > 0 => seq >= checkpoint
    <3>1. file.units[1].seq = baseSequence /\ baseSequence =< seq
      BY <1>8 DEF LogTruncate, InTruncateRange, HeaderInv
    <3>2. checkpoint > 0 => file.units[1].seq >= checkpoint
      BY DEF CheckpointInv, KeepsCheckpoint
    <3> QED
      BY <1>f, <3>1, <3>2, LogAssumption DEF LogTypeOK, Sequence
  <2>4. file'.units[1].seq >= checkpoint'
    <3>1. file'.units[1].seq = seq /\ seq \in Nat
      BY <2>1, LogAssumption DEF Header, Sequence
    <3> QED
      BY <1>8, <1>f, <2>3, <3>1 DEF LogTruncate
  <2> QED
    BY <1>8, <2>2, <2>4 DEF LogTruncate, syncDirectory, CheckpointInv, KeepsCheckpoint
<1>9. ASSUME NEW seq \in Sequence, LogTruncateFails(seq) PROVE CheckpointInv'
  <2>1. CASE UNCHANGED <<disk, ghosts>>
    BY <2>1 DEF disk, ghosts, CheckpointInv, KeepsCheckpoint
  <2>2. CASE ~ UNCHANGED <<disk, ghosts>>
    <3>1. PICK n \in scanLog(file.units) : file' = NewFile(n, seq)
      BY <1>9, <2>2 DEF LogTruncateFails
    <3>2. /\ file'.units[1] = Header(seq) /\ Len(file'.units) \in Nat \ {0}
          /\ file'.synced = Len(file'.units)
      BY <1>9, <3>1, NewFileFacts DEF LogTruncateFails
    <3>3. file'.units # << >> /\ file'.synced >= 1
      BY <3>2, EmptySeq
    <3>4. checkpoint > 0 => seq >= checkpoint
      <4>1. file.units[1].seq = baseSequence /\ baseSequence =< seq
        BY <1>9 DEF LogTruncateFails, InTruncateRange, HeaderInv
      <4>2. checkpoint > 0 => file.units[1].seq >= checkpoint
        BY DEF CheckpointInv, KeepsCheckpoint
      <4> QED
        BY <1>f, <4>1, <4>2, LogAssumption DEF LogTypeOK, Sequence
    <3>5. checkpoint' = checkpoint /\ undo' \subseteq undo \union {file}
      BY <1>9, <2>2 DEF LogTruncateFails, syncDirectory
    <3>6. KeepsCheckpoint(file)'
      BY <3>2, <3>3, <3>4, <3>5 DEF KeepsCheckpoint, Header
    <3> QED
      BY <3>5, <3>6 DEF CheckpointInv, KeepsCheckpoint
  <2> QED
    BY <2>1, <2>2
<1>10. CASE LogClose \/ Kill
  BY <1>10 DEF LogClose, Kill, disk, ghosts, CheckpointInv, KeepsCheckpoint
<1>11. CASE PowerLoss
  <2>1. PICK image \in {file} \union undo : file' \in Survivors(image)
    BY <1>11 DEF PowerLoss
  <2>2. image \in Image /\ image.synced \in Nat
    BY <1>f DEF LogTypeOK, Image
  <2>3. /\ file' \in Image /\ file'.synced = Len(file'.units) /\ image.synced =< Len(file'.units)
        /\ image.synced >= 1 => file'.units[1] = image.units[1]
    BY <2>1, <2>2, SurvivorFacts
  <2>4. Len(file'.units) \in Nat
    BY <2>3, LenProperties DEF Image
  <2>5. checkpoint > 0 => image.synced >= 1 /\ image.units[1].seq >= checkpoint
    BY DEF CheckpointInv, KeepsCheckpoint
  <2>6. checkpoint > 0 => file'.units # << >>
    BY <2>2, <2>3, <2>4, <2>5, EmptySeq
  <2>7. checkpoint > 0 => file'.synced >= 1 /\ file'.units[1].seq >= checkpoint
    BY <2>2, <2>3, <2>4, <2>5
  <2> QED
    BY <1>11, <2>6, <2>7 DEF PowerLoss, ghosts, CheckpointInv, KeepsCheckpoint
<1>12. CASE UNCHANGED logVars
  BY <1>12 DEF logVars, disk, ghosts, CheckpointInv, KeepsCheckpoint
<1> QED
  BY <1>1, <1>2, <1>3, <1>4, <1>5, <1>6, <1>7, <1>8, <1>9, <1>10, <1>11, <1>12 DEF LogNext

-----------------------------------------------------------------------------
(* What is acknowledged stays in every image.                              *)

SoundInv == \A image \in {file} \union undo : Sound(image)
BehindInv == \A image \in undo : Behind(image)
OpenInv == handle = "open" => FieldsInv

\* The part of LogInv that an undamaged log satisfies.
UndamagedInv == SoundInv /\ BehindInv /\ OpenInv

LEMMA SoundImages ==
    ASSUME LogTypeOK, SoundInv, NEW image \in {file} \union undo
    PROVE  /\ image \in Image /\ image.units \in Seq(Unit) /\ image.synced \in Nat
           /\ SoundFor(image.units, image.synced, acked, floor, history)
<1>1. image \in Image
  BY FileType DEF LogTypeOK
<1> QED
  BY <1>1, SoundIsSoundFor DEF SoundInv, Image

\* The fields and the file of an open log, with the number of units a scan
\* accepts.
LEMMA OpenFacts ==
    ASSUME LogTypeOK, UndamagedInv, handle = "open"
    PROVE  \E n \in 1..Len(file.units) :
              /\ Readable(file.units, n)
              /\ Accepted(file.units, n)
              /\ lastSequence = ScanLast(file.units, n)
              /\ committedSequence =< ScanCommitted(file.units, n)
              /\ ScanCommitted(file.units, n) =< ScanLast(file.units, n)
              /\ acked =< ScanCommitted(file.units, n)
              /\ SoundWith(file.units, file.synced, n, acked, floor, history)
              /\ fault = "no" => n = Len(file.units)
<1>1. PICK n \in 1..Len(file.units) :
         /\ Readable(file.units, n)
         /\ lastSequence = ScanLast(file.units, n)
         /\ committedSequence =< ScanCommitted(file.units, n)
         /\ fault = "no" => n = Len(file.units)
  BY DEF UndamagedInv, OpenInv, FieldsInv
<1>2. file.units \in Seq(Unit) /\ SoundFor(file.units, file.synced, acked, floor, history)
  BY SoundImages DEF UndamagedInv
<1>3. Accepted(file.units, n)
  BY <1>1, <1>2, ReadableAccepted
<1>4. acked =< ScanCommitted(file.units, n)
      /\ SoundWith(file.units, file.synced, n, acked, floor, history)
  BY <1>1, <1>2, AckedBelowCommitted DEF LogTypeOK
<1> QED
  BY <1>1, <1>3, <1>4, CommittedBelowLast

\* A write leaves the images of undone renames behind the file.
LEMMA BehindGrows ==
    ASSUME LogTypeOK, BehindInv, undo' = undo, NEW unit \in Unit, file' = Write(unit)
    PROVE  BehindInv'
<1> SUFFICES ASSUME NEW image \in undo, NEW i \in 1..Len(image.units), Numbers(image.units, i)
             PROVE  \E j \in 1..Len(file'.units) :
                       Numbers(file'.units, j) /\ image.units[i].seq =< file'.units[j].seq
  BY DEF BehindInv, Behind
<1>1. PICK j \in 1..Len(file.units) :
         Numbers(file.units, j) /\ image.units[i].seq =< file.units[j].seq
  BY DEF BehindInv, Behind
<1>2. file'.units[j] = file.units[j] /\ Len(file'.units) = Len(file.units) + 1
      /\ Len(file.units) \in Nat
  <2>1. file'.units = Append(file.units, unit)
    BY WriteFacts
  <2>2. Len(Append(file.units, unit)) = Len(file.units) + 1
        /\ Append(file.units, unit)[j] = file.units[j]
    BY WriteFacts
  <2>3. Len(file.units) \in Nat
    BY FileType
  <2> QED
    BY <2>1, <2>2, <2>3, Zenon
<1>3. j \in 1..Len(file'.units) /\ Numbers(file'.units, j)
  <2>1. j \in 1..Len(file'.units)
    BY <1>2
  <2>2. Numbers(file'.units, j)
    BY <1>1, <1>2 DEF Numbers
  <2> QED
    BY <2>1, <2>2
<1>4. image.units[i].seq =< file'.units[j].seq
  BY <1>1, <1>2
<1> QED
  BY <1>3, <1>4

\* Steps that leave the history variables but fault alone keep what undo holds.
LEMMA UndoStaysSound ==
    ASSUME SoundInv, undo' \subseteq undo, UNCHANGED <<history, acked, floor>>,
           Sound(file)'
    PROVE  SoundInv'
  BY DEF SoundInv, Sound

\* The next state is sound when each of its images is.
LEMMA SoundInvNext ==
    ASSUME \A image \in {file'} \union undo' :
              SoundFor(image.units, image.synced, acked', floor', history')
    PROVE  SoundInv'
  BY DEF SoundInv, Sound, SoundFor, SoundWith

LEMMA OpenNewKeeps ==
    ASSUME LogTypeOK, UndamagedInv, OpenNew
    PROVE  UndamagedInv'
<1> DEFINE v == <<Header(0)>>
<1>1. v \in Seq(Unit) /\ Len(v) = 1 /\ v[1] = Header(0)
  BY RecordTypes
<1>2. acked = 0
  BY FileType, EmptySeq DEF OpenNew, UndamagedInv, SoundInv, Sound
<1>3. file'.units = v /\ file'.synced = 1 /\ undo' = {}
  BY DEF OpenNew
<1> HIDE DEF v
<1>4. Readable(v, 1) /\ v[1].kind = "header" /\ v[1].seq = 0
  BY <1>1 DEF Readable, Header
<1>5. Sound(file)'
  <2>1. floor >= 0
    BY LogAssumption DEF LogTypeOK, Sequence
  <2>2. SoundWith(v, 1, 1, 0, floor, history)
    BY <1>1, <1>4, <2>1 DEF SoundWith
  <2>3. SoundFor(v, 1, 0, floor, history)
    BY <1>1, <2>2 DEF SoundFor
  <2>4. acked' = 0 /\ floor' = floor /\ history' = history
    BY <1>2 DEF OpenNew
  <2> QED
    BY <1>3, <2>3, <2>4 DEF Sound, SoundFor, SoundWith
<1>6. ScanLast(v, 1) = 0 /\ ScanCommitted(v, 1) = 0
  <2>1. Numbers(v, 1) /\ Commits(v, 1) /\ 1 \in 1..1 /\ \A k \in 1..1 : v[k].seq =< v[1].seq
    BY <1>4 DEF Numbers, Commits
  <2> QED
    BY <1>1, <1>4, <2>1, ScanLastIs, ScanCommittedIs
<1>7. OpenInv'
  BY <1>1, <1>3, <1>4, <1>6 DEF OpenNew, OpenInv, FieldsInv
<1>8. SoundInv' /\ BehindInv'
  BY <1>3, <1>5 DEF SoundInv, BehindInv
<1> QED
  BY <1>7, <1>8 DEF UndamagedInv

LEMMA OpenNewFailsKeeps ==
    ASSUME LogTypeOK, UndamagedInv, OpenNewFails
    PROVE  UndamagedInv'
<1>1. PICK unit \in {Header(0), Fragment} : file' = Write(unit)
  BY DEF OpenNewFails
<1>2. unit \in Unit
  BY RecordTypes
<1>3. acked = 0
  BY FileType, EmptySeq DEF OpenNewFails, UndamagedInv, SoundInv, Sound
<1>4. file'.units = <<unit>>
  <2>1. file'.units = Append(<< >>, unit)
    BY <1>1, <1>2, WriteFacts DEF OpenNewFails
  <2>2. Append(<< >>, unit) = <<unit>>
    OBVIOUS
  <2> QED
    BY <2>1, <2>2
<1>5. undo' = undo /\ UNCHANGED <<history, acked, floor>> /\ handle' = "nil"
  BY DEF OpenNewFails, memory, ghosts
<1>6. Sound(file)'
  <2>1. CASE unit = Fragment
    BY <1>3, <1>4, <1>5, <2>1 DEF Sound
  <2>2. CASE unit = Header(0)
    <3> DEFINE v == <<Header(0)>>
    <3>1. Len(v) = 1 /\ v[1].kind = "header" /\ v[1].seq = 0
      BY DEF Header
    <3>2. floor >= 0
      BY LogAssumption DEF LogTypeOK, Sequence
    <3> HIDE DEF v
    <3>3. Readable(v, 1)
      BY <3>1 DEF Readable
    <3>4. file'.units = v /\ acked' = 0 /\ floor' = floor /\ history' = history
      BY <1>3, <1>4, <1>5, <2>2 DEF v
    <3> QED
      BY <3>1, <3>2, <3>3, <3>4 DEF Sound
  <2> QED
    BY <2>1, <2>2
<1>7. SoundInv' /\ BehindInv'
  BY <1>1, <1>2, <1>5, <1>6, UndoStaysSound, BehindGrows DEF UndamagedInv
<1> QED
  BY <1>5, <1>7 DEF UndamagedInv, OpenInv

LEMMA OpenExistingKeeps ==
    ASSUME LogTypeOK, UndamagedInv, OpenExisting
    PROVE  UndamagedInv'
<1>1. PICK n \in scanLog(file.units) :
         /\ IF n < Len(file.units)
               THEN /\ file' = [units |-> SubSeq(file.units, 1, n), synced |-> n]
                    /\ undo' = {}
               ELSE UNCHANGED disk
         /\ baseSequence' = file.units[1].seq
         /\ lastSequence' = ScanLast(file.units, n)
         /\ committedSequence' = ScanCommitted(file.units, n)
  BY DEF OpenExisting
<1> DEFINE u == file.units
           k == file.synced
<1>2. u \in Seq(Unit) /\ k \in Nat /\ Len(u) \in Nat /\ k =< Len(u)
      /\ SoundFor(u, k, acked, floor, history)
  BY SoundImages, FileType DEF UndamagedInv
<1>3. n \in 1..Len(u) /\ u[1].kind = "header"
  BY DEF scanLog
<1>4. PICK m \in 1..Len(u) : SoundWith(u, k, m, acked, floor, history)
  <2>1. u # << >> /\ u # <<Fragment>>
    BY <1>2, <1>3, EmptySeq DEF Fragment
  <2> QED
    BY <1>2, <2>1 DEF SoundFor
<1>5. m = n
  BY <1>2, <1>4, ScanUnique DEF SoundWith
<1>6. SoundWith(u, k, n, acked, floor, history) /\ Readable(u, n) /\ Accepted(u, n)
  BY <1>2, <1>4, <1>5, ReadableAccepted DEF SoundWith
<1>g. UNCHANGED <<history, acked, floor>>
  BY DEF OpenExisting
<1> HIDE DEF u, k
<1>7. CASE n < Len(u)
  <2> DEFINE v == SubSeq(u, 1, n)
  <2>1. v \in Seq(Unit) /\ Len(v) = n /\ n \in Nat /\ n \in 1..n /\ \A i \in 1..n : v[i] = u[i]
    BY <1>2, <1>3, SubSeqProperties
  <2>2. file'.units = v /\ file'.synced = n /\ undo' = {}
    BY <1>1, <1>7 DEF u
  <2> HIDE DEF v
  <2>3. Accepted(v, n) /\ ScanLast(v, n) = ScanLast(u, n)
        /\ ScanCommitted(v, n) = ScanCommitted(u, n)
    BY <1>6, <2>1, SamePrefix
  <2>4. acked =< ScanCommitted(u, n) /\ acked \in Sequence
    BY <1>2, <1>6, AckedBelowCommitted DEF LogTypeOK
  <2>5. SoundWith(u, Len(u), n, acked, floor, history)
    BY <1>2, <1>3, <1>6, <2>4, SoundSync
  <2>6. Readable(v, n)
    BY <2>1, <2>3 DEF Readable, Accepted
  <2>7. SoundWith(v, n, n, acked, floor, history)
    <3>1. v[1].seq =< floor
      BY <1>6, <2>1 DEF SoundWith
    <3>2. \A i \in 1..n : v[i].kind = "mutation" => v[i].mut = history[v[i].seq]
      BY <1>6, <2>1 DEF SoundWith
    <3>3. acked > 0 => \E c \in 1..n : c =< n /\ Commits(v, c) /\ acked =< v[c].seq
      <4>1. acked > 0 => \E c \in 1..n : Commits(u, c) /\ acked =< u[c].seq
        BY <1>6 DEF SoundWith
      <4>2. \A c \in 1..n : c =< n
        BY <2>1
      <4> QED
        BY <2>1, <4>1, <4>2 DEF Commits
    <3> QED
      BY <2>6, <3>1, <3>2, <3>3 DEF SoundWith
  <2>8. Sound(file)'
    BY <1>g, <2>1, <2>2, <2>7 DEF Sound, SoundWith
  <2>9. OpenInv'
    <3>1. lastSequence' = ScanLast(v, n) /\ committedSequence' = ScanCommitted(v, n)
      BY <1>1, <2>3 DEF u
    <3>2. committedSequence' =< ScanCommitted(v, n)
      BY <3>1, <2>1, <2>3, ScanCommittedFacts, LogAssumption DEF Accepted, Sequence
    <3> QED
      BY <2>1, <2>2, <2>6, <3>1, <3>2 DEF OpenInv, FieldsInv
  <2> QED
    BY <2>2, <2>8, <2>9 DEF UndamagedInv, SoundInv, BehindInv
<1>8. CASE ~ (n < Len(u))
  <2>1. file' = file /\ undo' = undo /\ n = Len(u)
    BY <1>1, <1>2, <1>3, <1>8 DEF disk, u
  <2>2. SoundInv' /\ BehindInv'
    BY <1>g, <2>1 DEF UndamagedInv, SoundInv, Sound, BehindInv, Behind
  <2>3. ScanCommitted(u, n) =< ScanCommitted(u, n)
    BY <1>2, <1>3, ScanCommittedFacts, LogAssumption DEF Sequence
  <2>4. OpenInv'
    BY <1>1, <1>3, <1>6, <2>1, <2>3 DEF OpenInv, FieldsInv, u
  <2> QED
    BY <2>2, <2>4 DEF UndamagedInv
<1> QED
  BY <1>7, <1>8

\* An append gives its mutation a sequence number that no image holds, so the
\* history of every image stays what it was.
LEMMA AppendKeeps ==
    ASSUME LogTypeOK, UndamagedInv, NEW m \in Mutations, LogAppend(m), fault' # "damaged"
    PROVE  UndamagedInv'
<1> DEFINE u == file.units
           s == lastSequence + 1
           unit == encodeMutation(s, m)
           v == Append(u, unit)
<1>0. fault = "no" /\ handle = "open"
  BY DEF LogAppend, Wrote
<1>1. PICK n \in 1..Len(u) :
         /\ Accepted(u, n)
         /\ lastSequence = ScanLast(u, n)
         /\ committedSequence =< ScanCommitted(u, n)
         /\ Readable(u, n)
         /\ n = Len(u)
  BY <1>0, OpenFacts
<1>2. u \in Seq(Unit) /\ Len(u) \in Nat /\ lastSequence \in Nat /\ s \in 1..MaxSequence
      /\ s \in Sequence
  BY FileType, LogAssumption, SMTT(30) DEF LogAppend, LogTypeOK, Sequence
<1>3. unit \in Unit
  BY <1>2, RecordTypes
<1>4. file'.units = v /\ file'.synced = file.synced /\ undo' = undo
      /\ UNCHANGED <<acked, floor, committedSequence>> /\ lastSequence' = s
      /\ history' = [history EXCEPT ![s] = m] /\ file' = Write(unit)
  BY <1>3, WriteFacts DEF LogAppend
<1>5. /\ Accepted(v, Len(v)) /\ Len(v) = Len(u) + 1
      /\ ScanLast(v, Len(v)) = s
      /\ ScanCommitted(v, Len(v)) = ScanCommitted(u, Len(u))
  <2>1. Accepted(u, Len(u)) /\ ScanLast(u, Len(u)) # MaxSequence
        /\ v = Append(u, encodeMutation(ScanLast(u, Len(u)) + 1, m))
    BY <1>1 DEF LogAppend
  <2> HIDE DEF v
  <2> QED
    BY <1>1, <2>1, MutationAccepted
<1>6. ASSUME NEW image \in {file} \union undo, NEW i \in 1..Len(image.units),
             image.units[i].kind = "mutation"
      PROVE  history'[image.units[i].seq] = history[image.units[i].seq]
  <2>1. image.units \in Seq(Unit) /\ SoundFor(image.units, image.synced, acked, floor, history)
        /\ Len(image.units) \in Nat
    BY SoundImages, LenProperties DEF UndamagedInv
  <2>2. PICK q \in 1..Len(image.units) : Readable(image.units, q)
    <3>1. image.units # << >> /\ image.units # <<Fragment>>
      BY <1>6, EmptySeq DEF Fragment
    <3> QED
      BY <2>1, <3>1 DEF SoundFor, SoundWith
  <2>3. image.units[i].seq \in 1..MaxSequence
    BY <1>6, <2>1, <2>2, MutationPositive
  <2>4. PICK j \in 1..Len(u) : Numbers(u, j) /\ image.units[i].seq =< u[j].seq
    <3>1. CASE image = file
      BY <1>6, <2>3, <3>1 DEF Numbers
    <3>2. CASE image \in undo
      BY <1>6, <3>2 DEF UndamagedInv, BehindInv, Behind, Numbers
    <3> QED
      BY <3>1, <3>2
  <2>5. u[j].seq =< lastSequence /\ u[j].seq \in Nat
    <3>1. u[1].kind = "header" /\ j \in 1..n /\ lastSequence = ScanLast(u, n)
      BY <1>1, <2>4 DEF Accepted
    <3>2. u[j].seq =< ScanLast(u, n)
      BY <1>2, <2>4, <3>1, ScanLastFacts
    <3>3. u[j].seq \in Sequence
      BY <1>2, <2>4, UnitType
    <3> QED
      BY <3>1, <3>2, <3>3, LogAssumption DEF Sequence
  <2>6. image.units[i].seq # s
    BY <1>2, <2>3, <2>4, <2>5
  <2> QED
    BY <1>4, <2>3, <2>6 DEF LogTypeOK
<1>7. ASSUME NEW image \in {file} \union undo
      PROVE  SoundFor(image.units, image.synced, acked, floor, history')
  <2>1. image.units \in Seq(Unit) /\ SoundFor(image.units, image.synced, acked, floor, history)
        /\ image.synced \in Nat /\ image.synced =< image.synced
    BY SoundImages DEF UndamagedInv
  <2>2. acked \in Sequence /\ floor \in Sequence /\ floor =< floor
    BY LogAssumption DEF LogTypeOK, Sequence
  <2>3. \A i \in 1..Len(image.units) : image.units[i].kind = "mutation" =>
           history'[image.units[i].seq] = history[image.units[i].seq]
    BY <1>6
  <2> QED
    BY <2>1, <2>2, <2>3, SoundLater
<1>8. SoundWith(v, file.synced, Len(v), acked, floor, history')
  <2>1. SoundWith(u, file.synced, Len(u), acked, floor, history')
    BY <1>1, <1>2, <1>7, AckedBelowCommitted DEF LogTypeOK
  <2>2. unit.kind = "mutation" => unit.mut = history'[unit.seq]
    BY <1>2, <1>4 DEF encodeMutation, LogTypeOK
  <2>3. acked \in Sequence /\ file.synced \in Nat
    BY FileType DEF LogTypeOK
  <2> HIDE DEF unit
  <2> QED
    BY <1>2, <1>3, <1>5, <2>1, <2>2, <2>3, SoundRecord
<1> HIDE DEF v
<1>9. Len(v) \in 1..Len(v) /\ Readable(v, Len(v))
  BY <1>8 DEF SoundWith, Readable
<1>10. SoundInv'
  <2>1. SoundFor(v, file.synced, acked, floor, history')
    BY <1>8, <1>9 DEF SoundFor
  <2>2. ASSUME NEW image \in {file'} \union undo'
        PROVE  SoundFor(image.units, image.synced, acked', floor', history')
    <3>1. CASE image = file'
      BY <1>4, <2>1, <3>1
    <3>2. CASE image \in undo
      BY <1>4, <1>7, <3>2
    <3> QED
      BY <1>4, <3>1, <3>2
  <2> QED
    BY <2>2, SoundInvNext
<1>11. BehindInv'
  BY <1>3, <1>4, BehindGrows DEF UndamagedInv
<1>12. OpenInv'
  BY <1>1, <1>4, <1>5, <1>9 DEF OpenInv, FieldsInv
<1> QED
  BY <1>10, <1>11, <1>12 DEF UndamagedInv

\* A fragment behind whole records changes nothing that a scan finds.
LEMMA TearKeeps ==
    ASSUME LogTypeOK, UndamagedInv, handle = "open", Tore, fault' # "damaged",
           undo' = undo, UNCHANGED <<memory, history, acked, floor>>
    PROVE  UndamagedInv'
<1> DEFINE u == file.units
           v == Append(u, Fragment)
<1>0. fault = "no" /\ fault' = "torn"
  BY DEF Tore
<1>1. PICK n \in 1..Len(u) :
         /\ Accepted(u, n)
         /\ lastSequence = ScanLast(u, n)
         /\ committedSequence =< ScanCommitted(u, n)
         /\ SoundWith(u, file.synced, n, acked, floor, history)
         /\ n = Len(u)
  BY <1>0, OpenFacts
<1>2. u \in Seq(Unit) /\ Len(u) \in Nat /\ file.synced \in Nat /\ acked \in Sequence
  BY FileType DEF LogTypeOK
<1>3. file' = Write(Fragment) /\ file'.units = v /\ file'.synced = file.synced /\ v \in Seq(Unit)
      /\ Len(v) = n + 1 /\ v[n + 1].kind = "fragment" /\ \A i \in 1..n : v[i] = u[i]
  BY <1>1, WriteFacts, RecordTypes DEF Tore, Fragment
<1> HIDE DEF v
<1>4. n \in 1..n /\ n \in 1..Len(v) /\ n =< Len(v) /\ file.synced =< file.synced
  BY <1>1, <1>2, <1>3
<1>5. SoundWith(v, file.synced, n, acked, floor, history)
  BY <1>1, <1>2, <1>3, <1>4, SoundPrefix, SMTT(30)
<1>6. ScanLast(v, n) = ScanLast(u, n) /\ ScanCommitted(v, n) = ScanCommitted(u, n)
  BY <1>1, <1>3, <1>4, SamePrefix
<1>7. Sound(file)'
  BY <1>3, <1>4, <1>5 DEF Sound, SoundWith
<1>8. SoundInv' /\ BehindInv'
  BY <1>3, <1>7, UndoStaysSound, BehindGrows, RecordTypes DEF UndamagedInv
<1>9. OpenInv'
  BY <1>0, <1>1, <1>3, <1>4, <1>5, <1>6 DEF OpenInv, FieldsInv, SoundWith, memory
<1> QED
  BY <1>8, <1>9 DEF UndamagedInv

\* The commit record of a Commit that is not below an earlier commit record.
LEMMA CommitRecordKeeps ==
    ASSUME LogTypeOK, UndamagedInv, NEW seq \in Sequence, InCommitRange(seq),
           seq # committedSequence, WroteCommit(seq), fault' # "damaged",
           NEW v, v = Append(file.units, encodeCommit(seq))
    PROVE  /\ SoundWith(v, file.synced, Len(v), acked, floor, history)
           /\ v \in Seq(Unit) /\ Len(v) \in 1..Len(v)
           /\ lastSequence = ScanLast(v, Len(v))
           /\ ScanCommitted(v, Len(v)) = seq
           /\ acked =< seq
           /\ fault = "no"
<1> DEFINE u == file.units
<1>0. fault = "no" /\ handle = "open" /\ seq >= committedSequence /\ seq =< lastSequence
      /\ \A i \in 1..Len(u) : Commits(u, i) => u[i].seq =< seq
  BY DEF WroteCommit, InCommitRange
<1>1. PICK n \in 1..Len(u) :
         /\ Accepted(u, n)
         /\ lastSequence = ScanLast(u, n)
         /\ acked =< ScanCommitted(u, n)
         /\ SoundWith(u, file.synced, n, acked, floor, history)
         /\ n = Len(u)
  BY <1>0, OpenFacts
<1>2. u \in Seq(Unit) /\ Len(u) \in Nat /\ file.synced \in Nat /\ acked \in Sequence
      /\ u[1].kind = "header"
  BY <1>1, FileType DEF LogTypeOK, Accepted
<1>3. seq > 0 /\ seq \in Nat /\ acked \in Nat
  BY <1>0, LogAssumption DEF LogTypeOK, Sequence
<1>4. encodeCommit(seq) \in Unit /\ encodeCommit(seq).kind # "mutation"
  BY RecordTypes DEF encodeCommit
<1>5. /\ Accepted(v, Len(v)) /\ Len(v) = Len(u) + 1
      /\ ScanLast(v, Len(v)) = ScanLast(u, Len(u))
      /\ ScanCommitted(v, Len(v)) = seq
  BY <1>0, <1>1, <1>3, CommitAccepted
<1>6. SoundWith(v, file.synced, Len(v), acked, floor, history)
  BY <1>1, <1>2, <1>4, <1>5, SoundRecord
<1>7. acked =< seq
  <2>1. PICK c \in 1..n : Commits(u, c) /\ u[c].seq = ScanCommitted(u, n)
    BY <1>1, <1>2, ScanCommittedFacts
  <2>2. u[c].seq =< seq /\ u[c].seq \in Nat
    BY <1>0, <1>1, <1>2, <2>1, UnitType, LogAssumption DEF Sequence
  <2> QED
    BY <1>1, <1>3, <2>1, <2>2
<1> QED
  BY <1>0, <1>1, <1>5, <1>6, <1>7 DEF Accepted

LEMMA CommitKeeps ==
    ASSUME LogTypeOK, UndamagedInv, NEW seq \in Sequence, LogCommit(seq), fault' # "damaged"
    PROVE  UndamagedInv'
<1>g. undo' = {} /\ committedSequence' = seq /\ UNCHANGED <<handle, lastSequence, history, floor>>
      /\ handle = "open" /\ acked' = IF seq > acked THEN seq ELSE acked
  BY DEF LogCommit, InCommitRange
<1>1. CASE seq = committedSequence
  <2> DEFINE u == file.units
  <2>1. PICK n \in 1..Len(u) :
           /\ Readable(u, n)
           /\ lastSequence = ScanLast(u, n)
           /\ committedSequence =< ScanCommitted(u, n)
           /\ acked =< ScanCommitted(u, n)
           /\ SoundWith(u, file.synced, n, acked, floor, history)
           /\ fault = "no" => n = Len(u)
    BY <1>g, OpenFacts
  <2>2. u \in Seq(Unit) /\ Len(u) \in Nat /\ n =< Len(u)
    BY FileType
  <2>3. file'.units = u /\ file'.synced = Len(u) /\ fault' = fault
    BY <1>1, SyncedFacts DEF LogCommit, LogTypeOK
  <2>4. acked' \in Sequence /\ acked' =< ScanCommitted(u, n)
    BY <1>1, <1>g, <2>1 DEF LogTypeOK
  <2>5. SoundWith(u, Len(u), n, acked', floor, history)
    BY <2>1, <2>2, <2>4, SoundSync
  <2> HIDE DEF u
  <2>6. Sound(file)'
    BY <1>g, <2>1, <2>3, <2>5 DEF Sound, SoundWith
  <2>7. OpenInv'
    BY <1>1, <1>g, <2>1, <2>3 DEF OpenInv, FieldsInv
  <2> QED
    BY <1>g, <2>6, <2>7 DEF UndamagedInv, SoundInv, BehindInv
<1>2. CASE seq # committedSequence
  <2> DEFINE v == Append(file.units, encodeCommit(seq))
  <2>1. file'.units = v /\ file'.synced = Len(v) /\ WroteCommit(seq) /\ InCommitRange(seq)
    BY <1>2, WriteFacts, SyncedFacts, RecordTypes DEF LogCommit
  <2>2. /\ SoundWith(v, file.synced, Len(v), acked, floor, history)
        /\ v \in Seq(Unit) /\ Len(v) \in 1..Len(v)
        /\ lastSequence = ScanLast(v, Len(v))
        /\ ScanCommitted(v, Len(v)) = seq
        /\ acked =< seq
    BY <1>2, <2>1, CommitRecordKeeps
  <2> HIDE DEF v
  <2>3. acked' \in Sequence /\ acked' =< seq /\ seq =< seq /\ Len(v) \in Nat /\ Len(v) =< Len(v)
    BY <1>g, <2>2, LenProperties, LogAssumption DEF LogTypeOK, Sequence
  <2>4. SoundWith(v, Len(v), Len(v), acked', floor, history)
    BY <2>2, <2>3, SoundSync
  <2>5. Sound(file)'
    BY <1>g, <2>1, <2>2, <2>4 DEF Sound, SoundWith
  <2>6. OpenInv'
    BY <1>g, <2>1, <2>2, <2>3, <2>4 DEF OpenInv, FieldsInv, SoundWith
  <2> QED
    BY <1>g, <2>5, <2>6 DEF UndamagedInv, SoundInv, BehindInv
<1> QED
  BY <1>1, <1>2

LEMMA CommitFailsKeeps ==
    ASSUME LogTypeOK, UndamagedInv, NEW seq \in Sequence, LogCommitFails(seq),
           fault' # "damaged"
    PROVE  UndamagedInv'
<1>g. handle = "open" /\ undo' = undo /\ UNCHANGED <<memory, history, acked, floor>>
      /\ seq # committedSequence /\ InCommitRange(seq)
  BY DEF LogCommitFails, InCommitRange
<1>1. CASE Tore
  BY <1>1, <1>g, TearKeeps
<1>2. CASE file' = Write(encodeCommit(seq)) /\ WroteCommit(seq)
  <2> DEFINE v == Append(file.units, encodeCommit(seq))
  <2>1. file'.units = v /\ file'.synced = file.synced
    BY <1>2, WriteFacts, RecordTypes
  <2>2. /\ SoundWith(v, file.synced, Len(v), acked, floor, history)
        /\ Len(v) \in 1..Len(v)
        /\ lastSequence = ScanLast(v, Len(v))
        /\ ScanCommitted(v, Len(v)) = seq
    BY <1>2, <1>g, CommitRecordKeeps
  <2> HIDE DEF v
  <2>3. Sound(file)'
    BY <1>g, <2>1, <2>2 DEF Sound, SoundWith
  <2>4. SoundInv' /\ BehindInv'
    BY <1>2, <1>g, <2>3, UndoStaysSound, BehindGrows, RecordTypes DEF UndamagedInv
  <2>5. committedSequence =< seq
    BY <1>g, LogAssumption DEF InCommitRange, LogTypeOK, Sequence
  <2>6. OpenInv'
    BY <1>g, <2>1, <2>2, <2>5 DEF OpenInv, FieldsInv, SoundWith, memory
  <2> QED
    BY <2>4, <2>6 DEF UndamagedInv
<1> QED
  BY <1>1, <1>2 DEF LogCommitFails

\* The file that Truncate writes is sound, and a scan finds in it what a scan
\* of the old file found.
LEMMA RewriteFacts ==
    ASSUME LogTypeOK, HeaderInv, UndamagedInv, NEW seq \in Sequence, InTruncateRange(seq),
           NEW n \in scanLog(file.units), NEW fl \in Sequence, seq =< fl,
           NEW v, v = NewFile(n, seq).units
    PROVE  /\ SoundWith(v, Len(v), Len(v), acked, fl, history)
           /\ v \in Seq(Unit) /\ Len(v) \in 1..Len(v) /\ Len(v) \in Nat
           /\ NewFile(n, seq).synced = Len(v)
           /\ ScanLast(v, Len(v)) = ScanLast(file.units, n)
           /\ ScanCommitted(v, Len(v)) = ScanCommitted(file.units, n)
           /\ ScanCommitted(file.units, n) \in Nat
           /\ \A i \in 1..Len(file.units) : Numbers(file.units, i) =>
                 file.units[i].seq =< ScanLast(v, Len(v))
           /\ \E j \in 1..Len(v) : Numbers(v, j) /\ v[j].seq = ScanLast(v, Len(v))
<1> DEFINE u == file.units
<1>0. handle = "open" /\ u \in Seq(Unit) /\ seq =< committedSequence /\ Len(u) \in Nat
      /\ seq \in Nat /\ committedSequence \in Nat /\ acked \in Sequence /\ floor \in Sequence
  BY FileType, LogAssumption DEF InTruncateRange, LogTypeOK, Sequence
<1>1. PICK q \in 1..Len(u) :
         /\ Readable(u, q)
         /\ Accepted(u, q)
         /\ committedSequence =< ScanCommitted(u, q)
         /\ acked =< ScanCommitted(u, q)
         /\ SoundWith(u, file.synced, q, acked, floor, history)
  BY <1>0, OpenFacts
<1>2. q = n
  BY <1>0, <1>1, ScanUnique
<1>3. /\ u[1].seq =< seq
      /\ v = Rewritten(u, n, seq)
      /\ NewFile(n, seq).synced = Len(v)
      /\ Len(v) \in Nat \ {0}
  BY NewFileFacts
<1>4. ScanCommitted(u, n) \in Nat /\ seq =< ScanCommitted(u, n)
  <2>1. u[1].kind = "header"
    BY <1>1 DEF Accepted
  <2>2. ScanCommitted(u, n) \in Nat
    BY <1>0, <1>1, <1>2, <2>1, ScanCommittedFacts, LogAssumption DEF Sequence
  <2> QED
    BY <1>0, <1>1, <1>2, <2>2
<1>5. SoundWith(v, Len(v), Len(v), acked, fl, history)
  BY <1>0, <1>1, <1>2, <1>3, <1>4, SoundRewritten
<1>6. /\ Accepted(v, Len(v))
      /\ ScanLast(v, Len(v)) = ScanLast(u, n)
      /\ ScanCommitted(v, Len(v)) = ScanCommitted(u, n)
  BY <1>1, <1>2, <1>3, <1>4, RewrittenAccepted
<1>7. v \in Seq(Unit) /\ Len(v) \in 1..Len(v) /\ v[1].kind = "header"
  BY <1>6 DEF Accepted
<1>8. \E j \in 1..Len(v) : Numbers(v, j) /\ v[j].seq = ScanLast(v, Len(v))
  BY <1>7, ScanLastFacts
<1>9. ASSUME NEW i \in 1..Len(u), Numbers(u, i)
      PROVE  u[i].seq =< ScanLast(u, n)
  <2>1. i \in 1..n
    <3>1. n = Len(u) \/ (n = Len(u) - 1 /\ u[n + 1].kind = "fragment")
      BY <1>1, <1>2 DEF Readable
    <3>2. CASE n = Len(u)
      BY <3>2
    <3>3. CASE n = Len(u) - 1 /\ u[n + 1].kind = "fragment"
      <4>1. i # n + 1
        BY <1>9, <3>3 DEF Numbers
      <4> QED
        BY <1>0, <3>3, <4>1
    <3> QED
      BY <3>1, <3>2, <3>3
  <2>2. u[1].kind = "header"
    BY <1>1 DEF Accepted
  <2> QED
    BY <1>0, <1>1, <1>2, <1>9, <2>1, <2>2, ScanLastFacts
<1> QED
  BY <1>3, <1>4, <1>5, <1>6, <1>7, <1>8, <1>9

LEMMA TruncateKeeps ==
    ASSUME LogTypeOK, HeaderInv, UndamagedInv, NEW seq \in Sequence, LogTruncate(seq)
    PROVE  UndamagedInv'
<1>1. PICK n \in scanLog(file.units) :
         /\ file' = NewFile(n, seq)
         /\ lastSequence' = ScanLast(file.units, n)
         /\ committedSequence' = ScanCommitted(file.units, n)
  BY DEF LogTruncate
<1>2. InTruncateRange(seq) /\ undo' = {} /\ UNCHANGED <<handle, history, acked>>
      /\ floor' \in Sequence /\ seq =< floor'
  BY LogAssumption DEF LogTruncate, syncDirectory, LogTypeOK, Sequence
<1> DEFINE v == NewFile(n, seq).units
<1>3. /\ SoundWith(v, Len(v), Len(v), acked, floor', history)
      /\ Len(v) \in 1..Len(v)
      /\ NewFile(n, seq).synced = Len(v)
      /\ ScanLast(v, Len(v)) = ScanLast(file.units, n)
      /\ ScanCommitted(v, Len(v)) = ScanCommitted(file.units, n)
      /\ ScanCommitted(file.units, n) \in Nat
  BY <1>2, RewriteFacts
<1>4. file'.units = v /\ file'.synced = Len(v)
  BY <1>1, <1>3
<1> HIDE DEF v
<1>5. SoundFor(v, Len(v), acked', floor', history')
  BY <1>2, <1>3 DEF SoundFor
<1>6. SoundInv'
  BY <1>2, <1>4, <1>5, SoundInvNext
<1>7. OpenInv'
  <2>1. Readable(v, Len(v))
    BY <1>3 DEF SoundWith
  <2>2. committedSequence' =< ScanCommitted(v, Len(v)) /\ lastSequence' = ScanLast(v, Len(v))
    BY <1>1, <1>3
  <2> QED
    BY <1>3, <1>4, <2>1, <2>2 DEF OpenInv, FieldsInv
<1> QED
  BY <1>2, <1>6, <1>7 DEF UndamagedInv, BehindInv

LEMMA TruncateFailsKeeps ==
    ASSUME LogTypeOK, HeaderInv, UndamagedInv, NEW seq \in Sequence, LogTruncateFails(seq)
    PROVE  UndamagedInv'
<1>0. InTruncateRange(seq) /\ handle' = "stale"
  BY DEF LogTruncateFails
<1>1. OpenInv'
  BY <1>0 DEF OpenInv
<1>2. CASE UNCHANGED <<disk, ghosts>>
  BY <1>1, <1>2 DEF UndamagedInv, SoundInv, Sound, BehindInv, Behind, disk, ghosts
<1>3. ASSUME NEW n \in scanLog(file.units), file' = NewFile(n, seq),
             undo' \in {undo \union {file}, syncDirectory},
             floor' = (IF seq > floor THEN seq ELSE floor),
             UNCHANGED <<history, acked, checkpoint>>
      PROVE  UndamagedInv'
  <2> DEFINE v == NewFile(n, seq).units
  <2>1. floor' \in Sequence /\ seq =< floor' /\ floor =< floor' /\ floor \in Sequence
        /\ acked \in Sequence
    BY <1>3, LogAssumption DEF LogTypeOK, Sequence
  <2>2. /\ SoundWith(v, Len(v), Len(v), acked, floor', history)
        /\ v \in Seq(Unit) /\ Len(v) \in 1..Len(v)
        /\ NewFile(n, seq).synced = Len(v)
        /\ \A i \in 1..Len(file.units) : Numbers(file.units, i) =>
              file.units[i].seq =< ScanLast(v, Len(v))
        /\ \E j \in 1..Len(v) : Numbers(v, j) /\ v[j].seq = ScanLast(v, Len(v))
    BY <1>0, <2>1, RewriteFacts
  <2>3. file'.units = v /\ file'.synced = Len(v) /\ undo' \subseteq {file} \union undo
    BY <1>3, <2>2 DEF syncDirectory
  <2> HIDE DEF v
  <2>4. ASSUME NEW image \in {file'} \union undo'
        PROVE  SoundFor(image.units, image.synced, acked', floor', history')
    <3>1. CASE image = file'
      BY <1>3, <2>2, <2>3, <3>1 DEF SoundFor
    <3>2. CASE image \in {file} \union undo
      <4>1. /\ image.units \in Seq(Unit) /\ image.synced \in Nat /\ image.synced =< image.synced
            /\ SoundFor(image.units, image.synced, acked, floor, history)
        BY <3>2, SoundImages DEF UndamagedInv
      <4> QED
        BY <1>3, <2>1, <4>1, SoundLater
    <3> QED
      BY <2>3, <3>1, <3>2
  <2>5. SoundInv'
    BY <2>4, SoundInvNext
  <2>6. ASSUME NEW image \in undo', NEW i \in 1..Len(image.units), Numbers(image.units, i)
        PROVE  \E j \in 1..Len(v) : Numbers(v, j) /\ image.units[i].seq =< v[j].seq
    <3>1. PICK k \in 1..Len(file.units) :
             Numbers(file.units, k) /\ image.units[i].seq =< file.units[k].seq
      <4>1. image.units[i].seq \in Nat
        <5>1. image.units \in Seq(Unit)
          BY <2>3, SoundImages DEF UndamagedInv
        <5> QED
          BY <5>1, UnitType, LogAssumption DEF Sequence
      <4>2. CASE image = file
        BY <2>6, <4>1, <4>2
      <4>3. CASE image \in undo
        BY <2>6, <4>3 DEF UndamagedInv, BehindInv, Behind
      <4> QED
        BY <2>3, <4>2, <4>3
    <3>2. PICK j \in 1..Len(v) : Numbers(v, j) /\ v[j].seq = ScanLast(v, Len(v))
      BY <2>2
    <3>3. file.units[k].seq \in Nat /\ v[j].seq \in Nat /\ image.units[i].seq \in Nat
      <4>1. image.units \in Seq(Unit)
        BY <2>3, SoundImages DEF UndamagedInv
      <4>2. file.units \in Seq(Unit)
        BY FileType
      <4>3. file.units[k].seq \in Nat
        BY <4>2, UnitType
      <4>4. v[j].seq \in Nat
        BY <2>2, UnitType
      <4>5. image.units[i].seq \in Nat
        BY <4>1, UnitType
      <4> QED
        BY <4>3, <4>4, <4>5
    <3>4. image.units[i].seq =< v[j].seq
      <4>1. file.units[k].seq =< ScanLast(v, Len(v))
        BY <2>2, <3>1
      <4>2. file.units[k].seq =< v[j].seq
        BY <3>2, <4>1
      <4> QED
        BY <3>1, <3>3, <4>2, SMTT(30)
    <3> QED
      BY <3>2, <3>4
  <2>7. BehindInv'
    BY <2>3, <2>6 DEF BehindInv, Behind
  <2> QED
    BY <1>1, <2>5, <2>7 DEF UndamagedInv
<1> QED
  BY <1>2, <1>3 DEF LogTruncateFails

\* The end of the process leaves the images as they are.
LEMMA ForgetKeeps ==
    ASSUME UndamagedInv, Forget, UNCHANGED <<disk, ghosts>>
    PROVE  UndamagedInv'
  BY DEF UndamagedInv, SoundInv, Sound, BehindInv, Behind, OpenInv, Forget, disk, ghosts

LEMMA PowerLossKeeps ==
    ASSUME LogTypeOK, UndamagedInv, PowerLoss
    PROVE  UndamagedInv'
<1>1. undo' = {} /\ handle' = "nil" /\ UNCHANGED <<history, acked, floor>> /\ acked \in Sequence
  BY DEF PowerLoss, Forget, ghosts, LogTypeOK
<1>2. PICK image \in {file} \union undo : file' \in Survivors(image)
  BY DEF PowerLoss
<1>3. image \in Image /\ SoundFor(image.units, image.synced, acked, floor, history)
  BY SoundImages DEF UndamagedInv
<1>4. SoundFor(file'.units, file'.synced, acked', floor', history')
  BY <1>1, <1>2, <1>3, SoundSurvives
<1>5. SoundInv'
  BY <1>1, <1>4, SoundInvNext
<1> QED
  BY <1>1, <1>5 DEF UndamagedInv, BehindInv, OpenInv

\* Nothing repairs a damaged log.
LEMMA DamageStays ==
    ASSUME [LogNext]_logVars, fault' # "damaged"
    PROVE  fault # "damaged"
<1>1. CASE OpenNew
  BY <1>1 DEF OpenNew
<1>2. CASE OpenNewFails
  BY <1>2 DEF OpenNewFails, ghosts
<1>3. CASE OpenExisting
  BY <1>3 DEF OpenExisting
<1>4. ASSUME NEW m \in Mutations, LogAppend(m) PROVE fault # "damaged"
  BY <1>4 DEF LogAppend, Wrote
<1>5. CASE LogAppendFails
  BY <1>5 DEF LogAppendFails, Tore
<1>6. ASSUME NEW seq \in Sequence, LogCommit(seq) PROVE fault # "damaged"
  BY <1>6 DEF LogCommit, WroteCommit
<1>7. ASSUME NEW seq \in Sequence, LogCommitFails(seq) PROVE fault # "damaged"
  BY <1>7 DEF LogCommitFails, WroteCommit, Tore
<1>8. ASSUME NEW seq \in Sequence, LogTruncate(seq) PROVE fault # "damaged"
  BY <1>8 DEF LogTruncate
<1>9. ASSUME NEW seq \in Sequence, LogTruncateFails(seq) PROVE fault # "damaged"
  BY <1>9 DEF LogTruncateFails, ghosts
<1>10. CASE LogClose \/ Kill \/ PowerLoss
  BY <1>10 DEF LogClose, Kill, PowerLoss, ghosts
<1>11. CASE UNCHANGED logVars
  BY <1>11 DEF logVars, ghosts
<1> QED
  BY <1>1, <1>2, <1>3, <1>4, <1>5, <1>6, <1>7, <1>8, <1>9, <1>10, <1>11 DEF LogNext

LEMMA UndamagedStep ==
    ASSUME LogTypeOK, HeaderInv, UndamagedInv, [LogNext]_logVars, fault' # "damaged"
    PROVE  UndamagedInv'
<1>1. CASE OpenNew
  BY <1>1, OpenNewKeeps
<1>2. CASE OpenNewFails
  BY <1>2, OpenNewFailsKeeps
<1>3. CASE OpenExisting
  BY <1>3, OpenExistingKeeps
<1>4. ASSUME NEW m \in Mutations, LogAppend(m) PROVE UndamagedInv'
  BY <1>4, AppendKeeps
<1>5. CASE LogAppendFails
  BY <1>5, TearKeeps DEF LogAppendFails
<1>6. ASSUME NEW seq \in Sequence, LogCommit(seq) PROVE UndamagedInv'
  BY <1>6, CommitKeeps
<1>7. ASSUME NEW seq \in Sequence, LogCommitFails(seq) PROVE UndamagedInv'
  BY <1>7, CommitFailsKeeps
<1>8. ASSUME NEW seq \in Sequence, LogTruncate(seq) PROVE UndamagedInv'
  BY <1>8, TruncateKeeps
<1>9. ASSUME NEW seq \in Sequence, LogTruncateFails(seq) PROVE UndamagedInv'
  BY <1>9, TruncateFailsKeeps
<1>10. CASE LogClose \/ Kill
  BY <1>10, ForgetKeeps DEF LogClose, Kill
<1>11. CASE PowerLoss
  BY <1>11, PowerLossKeeps
<1>12. CASE UNCHANGED logVars
  BY <1>12 DEF UndamagedInv, SoundInv, Sound, BehindInv, Behind, OpenInv, FieldsInv,
               logVars, disk, memory, ghosts
<1> QED
  BY <1>1, <1>2, <1>3, <1>4, <1>5, <1>6, <1>7, <1>8, <1>9, <1>10, <1>11, <1>12 DEF LogNext

-----------------------------------------------------------------------------
(* The theorems.                                                           *)

LEMMA LogInvParts == LogInv <=> /\ HeaderInv
                                /\ CheckpointInv
                                /\ fault # "damaged" => UndamagedInv
  BY DEF LogInv, CheckpointInv, UndamagedInv, SoundInv, BehindInv, OpenInv

LEMMA LogInvInit == LogInit => LogTypeOK /\ LogInv
<1> SUFFICES ASSUME LogInit PROVE LogTypeOK /\ LogInv
  OBVIOUS
<1>1. 0 \in Sequence /\ << >> \in Seq(Unit) /\ Len(<< >>) = 0
  BY LogAssumption, EmptySeq DEF Sequence
<1>2. LogTypeOK
  BY <1>1 DEF LogInit, LogTypeOK, Image
<1>3. LogInv
  BY <1>1 DEF LogInit, LogInv, HeaderInv, KeepsCheckpoint, Sound
<1> QED
  BY <1>2, <1>3

LEMMA LogInvNext ==
    ASSUME LogTypeOK, LogInv, [LogNext]_logVars
    PROVE  LogTypeOK' /\ LogInv'
<1>1. HeaderInv /\ CheckpointInv /\ (fault # "damaged" => UndamagedInv)
  BY LogInvParts
<1>2. LogTypeOK' /\ HeaderInv' /\ CheckpointInv'
  BY <1>1, TypeStep, HeaderStep, CheckpointStep
<1>3. fault' # "damaged" => UndamagedInv'
  BY <1>1, DamageStays, UndamagedStep
<1>4. LogInv'
  BY <1>2, <1>3 DEF LogInv, CheckpointInv, UndamagedInv, SoundInv, BehindInv, OpenInv
<1> QED
  BY <1>2, <1>4

\* Every variable of the log keeps its type, for any number of mutations and
\* any last sequence number.
THEOREM LogTypeCorrect == LogSpec => []LogTypeOK
<1>1. LogInit => LogTypeOK /\ LogInv
  BY LogInvInit
<1>2. LogTypeOK /\ LogInv /\ [LogNext]_logVars => LogTypeOK' /\ LogInv'
  BY LogInvNext
<1> QED
  BY <1>1, <1>2, PTL DEF LogSpec

\* The inductive invariant: every image a crash may leave of the log file holds
\* what was acknowledged in its synced part, no image is ahead of the file, and
\* the fields of an open Log are those a scan of the file would give.
THEOREM LogInvariant == LogSpec => []LogInv
<1>1. LogInit => LogTypeOK /\ LogInv
  BY LogInvInit
<1>2. LogTypeOK /\ LogInv /\ [LogNext]_logVars => LogTypeOK' /\ LogInv'
  BY LogInvNext
<1> QED
  BY <1>1, <1>2, PTL DEF LogSpec

LEMMA SoundIsReplayed ==
    ASSUME LogTypeOK, UndamagedInv
    PROVE  AckedIsReplayed
<1> DEFINE u == file.units
<1> SUFFICES ASSUME acked > 0
             PROVE  \E n \in scanLog(u) :
                       /\ u[1].seq =< floor
                       /\ \A s \in (u[1].seq + 1)..acked : <<s, history[s]>> \in Replay(u, n)
  BY DEF AckedIsReplayed
<1>1. u \in Seq(Unit) /\ acked \in Nat /\ Len(u) \in Nat
  BY FileType, LogAssumption DEF LogTypeOK, Sequence
<1>2. PICK n \in 1..Len(u) : SoundWith(u, file.synced, n, acked, floor, history)
  BY <1>1, SoundImages DEF UndamagedInv, SoundFor
<1>3. n \in scanLog(u) /\ Accepted(u, n)
  BY <1>1, <1>2, ReadableScans, ReadableAccepted DEF SoundWith
<1>4. PICK c \in 1..n : Commits(u, c) /\ acked =< u[c].seq
  BY <1>2 DEF SoundWith
<1>5. u[c].seq \in Nat /\ u[1].seq \in Nat
  <2>1. c \in 1..Len(u) /\ 1 \in 1..Len(u)
    BY <1>1, <1>2, <1>4
  <2> QED
    BY <1>1, <2>1, UnitType, LogAssumption DEF Sequence
<1>6. ASSUME NEW s \in (u[1].seq + 1)..acked
      PROVE  <<s, history[s]>> \in Replay(u, n)
  <2>1. s \in (u[1].seq + 1)..u[c].seq
    BY <1>1, <1>4, <1>5
  <2>2. PICK i \in 1..n : /\ u[i].kind = "mutation" /\ u[i].seq = s
                          /\ <<s, u[i].mut>> \in Replay(u, n)
    BY <1>3, <1>4, <2>1, CommittedIsReplayed
  <2>3. u[i].mut = history[s]
    BY <1>2, <2>2 DEF SoundWith
  <2> QED
    BY <2>2, <2>3
<1> QED
  BY <1>2, <1>3, <1>6 DEF SoundWith

\* What a successful Commit covered is replayed after any crashes and
\* truncations, unless a writer went on behind a write that failed half way.
THEOREM CommitIsDurable == LogSpec => []AckedDurable
<1>1. LogTypeOK /\ LogInv => AckedDurable
  BY LogInvParts, SoundIsReplayed DEF AckedDurable
<1> QED
  BY <1>1, LogTypeCorrect, LogInvariant, PTL

\* Whatever crashes and failed calls happen, the next Open accepts the log, but
\* for a new one whose header was cut off.
THEOREM CrashedLogOpens == LogSpec => []OpensAgain
<1>1. ASSUME LogTypeOK, LogInv, fault # "damaged",
             file.units \notin {<< >>, <<Fragment>>}
      PROVE  scanLog(file.units) # {}
  <2>1. Sound(file)
    BY <1>1 DEF LogInv
  <2>2. PICK n \in 1..Len(file.units) : Readable(file.units, n)
    BY <1>1, <2>1 DEF Sound
  <2> QED
    BY <2>2 DEF Readable, scanLog
<1>2. LogTypeOK /\ LogInv => OpensAgain
  BY <1>1 DEF OpensAgain
<1> QED
  BY <1>2, LogTypeCorrect, LogInvariant, PTL

\* Replay returns nothing that was not appended under that sequence number.
THEOREM ReplayIsFaithful == LogSpec => []ReplayIsHistory
<1>1. ASSUME LogTypeOK, LogInv, fault # "damaged",
             NEW n \in scanLog(file.units), NEW e \in Entries(file.units, n)
      PROVE  e[2] = history[e[1]]
  <2> DEFINE u == file.units
  <2>1. UndamagedInv /\ u \in Seq(Unit) /\ n \in 1..Len(u) /\ Len(u) \in Nat
    BY <1>1, LogInvParts, FileType DEF scanLog
  <2>2. u # << >> /\ u # <<Fragment>>
    <3>1. u[1].kind = "header"
      BY <1>1 DEF scanLog
    <3>2. u # <<Fragment>>
      BY <3>1 DEF Fragment
    <3> QED
      BY <2>1, <3>2, EmptySeq
  <2>3. PICK q \in 1..Len(u) : SoundWith(u, file.synced, q, acked, floor, history)
    BY <1>1, <2>1, <2>2, SoundImages DEF UndamagedInv, SoundFor
  <2>4. q = n
    BY <1>1, <2>1, <2>3, ScanUnique DEF SoundWith
  <2>5. PICK i \in 1..n : u[i].kind = "mutation" /\ e = <<u[i].seq, u[i].mut>>
    BY <1>1 DEF Entries
  <2> QED
    BY <2>3, <2>4, <2>5 DEF SoundWith
<1>2. LogTypeOK /\ LogInv => ReplayIsHistory
  BY <1>1 DEF ReplayIsHistory
<1> QED
  BY <1>2, LogTypeCorrect, LogInvariant, PTL

\* Once Truncate returned, no crash brings back what it discarded: the rename
\* is followed by a sync of the directory.
THEOREM CheckpointIsKept == LogSpec => []TruncatedStaysGone
<1>1. LogInv => TruncatedStaysGone
  BY DEF LogInv, KeepsCheckpoint, TruncatedStaysGone
<1> QED
  BY <1>1, LogInvariant, PTL

\* The fields of an open Log are those a scan of its file would give.
THEOREM FieldsAgree == LogSpec => []FieldsMatchFile
<1>1. ASSUME LogTypeOK, LogInv, handle = "open", fault = "no"
      PROVE  \E n \in scanLog(file.units) :
                /\ n = Len(file.units)
                /\ baseSequence = file.units[1].seq
                /\ lastSequence = ScanLast(file.units, n)
                /\ committedSequence =< ScanCommitted(file.units, n)
  <2>1. UndamagedInv /\ baseSequence = file.units[1].seq
    BY <1>1, LogInvParts DEF HeaderInv
  <2>2. PICK n \in 1..Len(file.units) :
           /\ Readable(file.units, n)
           /\ lastSequence = ScanLast(file.units, n)
           /\ committedSequence =< ScanCommitted(file.units, n)
           /\ n = Len(file.units)
    BY <1>1, <2>1, OpenFacts
  <2>3. n \in scanLog(file.units)
    BY <1>1, <2>2, FileType, ReadableScans
  <2> QED
    BY <2>1, <2>2, <2>3
<1>2. LogTypeOK /\ LogInv => FieldsMatchFile
  BY <1>1 DEF FieldsMatchFile
<1> QED
  BY <1>2, LogTypeCorrect, LogInvariant, PTL

\* Append never gives the sequence number of an acknowledged mutation away again.
THEOREM SequenceIsNotReused == LogSpec => NoSequenceReuse
<1>1. ASSUME LogTypeOK, LogInv, [LogNext]_logVars, fault # "damaged", NEW s \in 1..acked
      PROVE  history'[s] = history[s]
  <2>1. CASE history' = history
    BY <2>1
  <2>2. ASSUME NEW m \in Mutations, LogAppend(m)
        PROVE  history'[s] = history[s]
    <3>1. UndamagedInv /\ handle = "open"
      BY <1>1, <2>2, LogInvParts DEF LogAppend
    <3>2. PICK n \in 1..Len(file.units) :
             /\ Accepted(file.units, n)
             /\ lastSequence = ScanLast(file.units, n)
             /\ ScanCommitted(file.units, n) =< ScanLast(file.units, n)
             /\ acked =< ScanCommitted(file.units, n)
      BY <1>1, <3>1, OpenFacts
    <3>3. ScanCommitted(file.units, n) \in Nat /\ acked \in Nat /\ lastSequence \in Nat
      <4>1. ScanCommitted(file.units, n) \in Sequence
        BY <1>1, <3>2, FileType, ScanCommittedFacts DEF Accepted
      <4> QED
        BY <1>1, <4>1, LogAssumption DEF LogTypeOK, Sequence
    <3>4. s # lastSequence + 1
      BY <3>2, <3>3
    <3>5. s \in 1..MaxSequence
      BY <1>1, LogAssumption DEF LogTypeOK, Sequence
    <3> QED
      BY <1>1, <2>2, <3>4, <3>5 DEF LogAppend, LogTypeOK
  <2>3. history' = history \/ \E m \in Mutations : LogAppend(m)
    BY <1>1 DEF LogNext, OpenNew, OpenNewFails, OpenExisting, LogAppendFails, LogCommit,
                LogCommitFails, LogTruncate, LogTruncateFails, LogClose, Kill, PowerLoss,
                logVars, ghosts
  <2> QED
    BY <2>1, <2>2, <2>3
<1>2. LogTypeOK /\ LogInv /\ [LogNext]_logVars
        => [fault # "damaged" => \A s \in 1..acked : history'[s] = history[s]]_logVars
  BY <1>1
<1> QED
  BY <1>2, LogTypeCorrect, LogInvariant, PTL DEF LogSpec, NoSequenceReuse

-----------------------------------------------------------------------------
(* The engine on top of the log: its invariant.                            *)

\* The value body of id is what the log says of it, for the acknowledged sequence
\* numbers up to ack: the write with number a left it, and the log holds no later write
\* to id but those with a value in unk.
Explained(u, h, ack, id, body, unk) ==
    \E a \in 0..ack :
        /\ a = 0 => body = Absent
        /\ a > 0 => h[a] = [id |-> id, body |-> body]
        /\ \A i \in 1..Len(u) :
              u[i].kind = "mutation" /\ u[i].mut.id = id /\ u[i].seq > a => u[i].mut.body \in unk

\* The write under way is the last one in the log.
WriterInv ==
    writer # Idle =>
        /\ running
        /\ writer.seq \in 1..MaxSequence
        /\ history[writer.seq] = [id |-> writer.id, body |-> writer.doc.body]
        /\ writer.doc.body \in unknown[writer.id]
        /\ \A i \in 1..Len(file.units) :
              file.units[i].kind = "mutation" => file.units[i].seq =< writer.seq
        /\ writer.pc = "committed" => writer.seq =< acked

\* The engine never truncates its log, mutation records carry mutations, and the log
\* explains every acknowledged document.
EngineInv ==
    /\ undo = {} /\ floor = 0
    /\ \A i \in 1..Len(file.units) : file.units[i].kind = "mutation" => file.units[i].mut \in Mutations
    /\ fault # "damaged" =>
          /\ \A id \in Ids : Explained(file.units, history, acked, id, saved[id].body, unknown[id])
          /\ WriterInv

-----------------------------------------------------------------------------
(* The mutation records of a file.                                         *)

\* Every mutation record of v is one of u.
Within(v, u) ==
    \A i \in 1..Len(v) : v[i].kind = "mutation" => \E j \in 1..Len(u) : u[j] = v[i]

LEMMA WithinSelf == \A u : Within(u, u)
  BY DEF Within

LEMMA WithinNothing ==
    ASSUME NEW u, NEW unit, unit.kind # "mutation"
    PROVE  Within(<<unit>>, u)
  BY DEF Within

LEMMA WithinAppend ==
    ASSUME NEW u \in Seq(Unit), NEW unit \in Unit, unit.kind # "mutation",
           NEW v, v = Append(u, unit)
    PROVE  Within(v, u)
<1>1. /\ Len(v) = Len(u) + 1 /\ Len(u) \in Nat /\ v[Len(u) + 1] = unit
      /\ \A i \in 1..Len(u) : v[i] = u[i]
  BY LenProperties, AppendProperties
<1>2. \A i \in 1..Len(v) : i \in 1..Len(u) \/ i = Len(u) + 1
  BY <1>1
<1> QED
  BY <1>1, <1>2 DEF Within

LEMMA WithinPrefix ==
    ASSUME NEW u \in Seq(Unit), NEW n \in 0..Len(u), NEW v, v = SubSeq(u, 1, n)
    PROVE  Within(v, u) /\ v \in Seq(Unit)
<1>1. Len(u) \in Nat /\ n \in Nat /\ n =< Len(u)
  BY LenProperties
<1>2. v \in Seq(Unit) /\ Len(v) = n /\ \A i \in 1..n : v[i] = u[i]
  BY <1>1, SubSeqProperties
<1> QED
  BY <1>1, <1>2 DEF Within

LEMMA WithinSurvivor ==
    ASSUME NEW image \in Image, NEW w \in Survivors(image)
    PROVE  Within(w.units, image.units)
<1>1. PICK u : u = image.units
  OBVIOUS
<1>2. u \in Seq(Unit) /\ image.synced \in Nat /\ Len(u) \in Nat
  BY <1>1, LenProperties DEF Image
<1>3. PICK v : /\ w = [units |-> v, synced |-> Len(v)]
               /\ \/ \E m \in image.synced..Len(u) : v = SubSeq(u, 1, m)
                  \/ \E m \in image.synced..(Len(u) - 1) : v = Append(SubSeq(u, 1, m), Fragment)
  BY <1>1 DEF Survivors
<1>4. w.units = v
  BY <1>3
<1>5. CASE \E m \in image.synced..Len(u) : v = SubSeq(u, 1, m)
  <2>1. PICK m \in image.synced..Len(u) : v = SubSeq(u, 1, m)
    BY <1>5
  <2>2. m \in 0..Len(u)
    BY <1>2
  <2> QED
    BY <1>1, <1>2, <1>4, <2>1, <2>2, WithinPrefix
<1>6. CASE \E m \in image.synced..(Len(u) - 1) : v = Append(SubSeq(u, 1, m), Fragment)
  <2>1. PICK m \in image.synced..(Len(u) - 1) : v = Append(SubSeq(u, 1, m), Fragment)
    BY <1>6
  <2>2. m \in 0..Len(u)
    BY <1>2
  <2>3. PICK p : p = SubSeq(u, 1, m)
    OBVIOUS
  <2>4. Within(p, u) /\ p \in Seq(Unit)
    BY <1>2, <2>2, <2>3, WithinPrefix
  <2>5. Within(v, p)
    <3>1. Fragment.kind # "mutation"
      BY DEF Fragment
    <3> QED
      BY <2>1, <2>3, <2>4, <3>1, FragmentIsUnit, WithinAppend
  <2>6. Within(v, u)
    BY <2>4, <2>5 DEF Within
  <2> QED
    BY <1>1, <1>4, <2>6
<1> QED
  BY <1>3, <1>5, <1>6

\* An explanation outlives what becomes of the log in a step that adds no mutation.
LEMMA ExplainedLater ==
    ASSUME NEW u, NEW v, Within(v, u), NEW ack \in Nat, NEW ack2 \in Nat, ack =< ack2,
           NEW h, NEW h2, \A a \in 1..ack : h2[a] = h[a], NEW id, NEW body, NEW unk, NEW unk2,
           unk \subseteq unk2, Explained(u, h, ack, id, body, unk)
    PROVE  Explained(v, h2, ack2, id, body, unk2)
<1>1. PICK a \in 0..ack :
        /\ a = 0 => body = Absent
        /\ a > 0 => h[a] = [id |-> id, body |-> body]
        /\ \A i \in 1..Len(u) :
              u[i].kind = "mutation" /\ u[i].mut.id = id /\ u[i].seq > a => u[i].mut.body \in unk
  BY DEF Explained
<1>2. a \in 0..ack2 /\ (a > 0 => h2[a] = h[a])
  BY <1>1
<1>3. \A i \in 1..Len(v) :
         v[i].kind = "mutation" /\ v[i].mut.id = id /\ v[i].seq > a => v[i].mut.body \in unk2
  BY <1>1 DEF Within
<1> QED
  BY <1>1, <1>2, <1>3 DEF Explained

\* Every call of the engine on its log but Append leaves the mutation records and what
\* was acknowledged.
LEMMA LogQuiet ==
    ASSUME LogTypeOK, LogTypeOK', undo = {},
           \/ OpenNew \/ OpenNewFails \/ OpenExisting \/ LogAppendFails
           \/ (\E seq \in Sequence : LogCommit(seq)) \/ (\E seq \in Sequence : LogCommitFails(seq))
           \/ LogClose \/ Kill \/ PowerLoss \/ UNCHANGED logVars
    PROVE  /\ Within(file'.units, file.units) /\ undo' = {}
           /\ UNCHANGED <<history, floor>>
           /\ acked \in Nat /\ acked' \in Nat /\ acked =< acked'
<1>0. file.units \in Seq(Unit) /\ Len(file.units) \in Nat /\ file \in Image /\ file.synced \in Nat
  BY FileType DEF LogTypeOK
<1>1. acked \in Nat /\ acked' \in Nat
  BY LogAssumption DEF LogTypeOK, Sequence
<1>2. /\ Fragment \in Unit /\ Fragment.kind # "mutation"
      /\ Header(0) \in Unit /\ Header(0).kind # "mutation"
      /\ \A s \in Sequence : encodeCommit(s) \in Unit /\ encodeCommit(s).kind # "mutation"
  BY RecordTypes DEF Fragment, Header, encodeCommit
<1>3. ASSUME NEW unit \in Unit, unit.kind # "mutation", file'.units = Append(file.units, unit)
      PROVE  Within(file'.units, file.units)
  BY <1>0, <1>3, WithinAppend
<1>4. ASSUME NEW unit \in Unit
      PROVE  Write(unit).units = Append(file.units, unit) /\ Write(unit) \in Image
  BY WriteFacts
<1>5. CASE OpenNew
  <2>1. file'.units = <<Header(0)>>
    BY <1>5 DEF OpenNew
  <2> QED
    BY <1>1, <1>2, <1>5, <2>1, WithinNothing DEF OpenNew
<1>6. CASE OpenNewFails
  <2>1. PICK unit \in {Header(0), Fragment} : file' = Write(unit)
    BY <1>6 DEF OpenNewFails
  <2>2. Within(file'.units, file.units)
    BY <1>2, <1>3, <1>4, <2>1
  <2> QED
    BY <1>1, <1>6, <2>2 DEF OpenNewFails, ghosts
<1>7. CASE OpenExisting
  <2>1. PICK n \in scanLog(file.units) :
           IF n < Len(file.units)
           THEN file' = [units |-> SubSeq(file.units, 1, n), synced |-> n] /\ undo' = {}
           ELSE UNCHANGED disk
    BY <1>7 DEF OpenExisting
  <2>2. CASE n < Len(file.units)
    <3>1. n \in 0..Len(file.units)
      BY <1>0, <2>1 DEF scanLog
    <3>2. file'.units = SubSeq(file.units, 1, n) /\ undo' = {}
      BY <2>1, <2>2
    <3>3. Within(file'.units, file.units)
      BY <1>0, <3>1, <3>2, WithinPrefix
    <3> QED
      BY <1>1, <1>7, <3>2, <3>3 DEF OpenExisting
  <2>3. CASE ~ (n < Len(file.units))
    <3>1. file' = file /\ undo' = undo
      BY <2>1, <2>3 DEF disk
    <3> QED
      BY <1>1, <1>7, <3>1, WithinSelf DEF OpenExisting
  <2> QED
    BY <2>2, <2>3
<1>8. CASE LogAppendFails
  <2>1. file' = Write(Fragment)
    BY <1>8 DEF LogAppendFails, Tore
  <2> QED
    BY <1>1, <1>2, <1>3, <1>4, <1>8, <2>1 DEF LogAppendFails
<1>9. ASSUME NEW seq \in Sequence, LogCommit(seq)
      PROVE  /\ Within(file'.units, file.units) /\ undo' = {} /\ UNCHANGED <<history, floor>>
             /\ acked =< acked'
  <2>1. undo' = {} /\ UNCHANGED <<history, floor>> /\ acked' = IF seq > acked THEN seq ELSE acked
    BY <1>9 DEF LogCommit
  <2>2. seq \in Nat
    BY LogAssumption DEF Sequence
  <2>3. CASE file' = Synced(file)
    <3>1. file'.units = file.units
      BY <1>0, <2>3, SyncedFacts
    <3> QED
      BY <1>1, <2>1, <2>2, <3>1, WithinSelf
  <2>4. CASE file' = Synced(Write(encodeCommit(seq)))
    <3>1. file'.units = Append(file.units, encodeCommit(seq))
      BY <1>2, <1>4, <2>4, SyncedFacts
    <3>2. Within(file'.units, file.units)
      BY <1>2, <1>3, <3>1
    <3> QED
      BY <1>1, <2>1, <2>2, <3>2
  <2> QED
    BY <1>9, <2>3, <2>4 DEF LogCommit
<1>10. ASSUME NEW seq \in Sequence, LogCommitFails(seq)
       PROVE  /\ Within(file'.units, file.units) /\ undo' = {} /\ UNCHANGED <<history, floor, acked>>
  <2>1. PICK unit \in {Fragment, encodeCommit(seq)} : file' = Write(unit)
    BY <1>10 DEF LogCommitFails, Tore
  <2>2. Within(file'.units, file.units)
    BY <1>2, <1>3, <1>4, <2>1
  <2> QED
    BY <1>10, <2>2 DEF LogCommitFails
<1>11. CASE LogClose \/ Kill \/ UNCHANGED logVars
  <2>1. file' = file /\ undo' = undo /\ UNCHANGED <<history, floor, acked>>
    BY <1>11 DEF LogClose, Kill, logVars, disk, ghosts
  <2> QED
    BY <1>1, <2>1, WithinSelf
<1>12. CASE PowerLoss
  <2>1. file' \in Survivors(file) /\ undo' = {} /\ UNCHANGED <<history, floor, acked>>
    BY <1>12 DEF PowerLoss, ghosts
  <2> QED
    BY <1>0, <1>1, <2>1, WithinSurvivor
<1> QED
  BY <1>1, <1>5, <1>6, <1>7, <1>8, <1>9, <1>10, <1>11, <1>12

\* What Open makes of the log is, for every ID, the acknowledged value or that of a
\* later write.
LEMMA RecoveredIsExplained ==
    ASSUME NEW u \in Seq(Unit), NEW k, NEW ack \in Sequence, NEW h, NEW fl, fl = 0,
           Readable(u, Len(u)), SoundFor(u, k, ack, fl, h),
           NEW id \in Ids, NEW body, NEW unk, Explained(u, h, ack, id, body, unk),
           NEW doc, doc = Recovered(Replay(u, Len(u)))[id]
    PROVE  doc.body = body \/ doc.body \in unk
<1> DEFINE n == Len(u)
<1>0. n \in Nat /\ n \in 1..n /\ 1 \in 1..n /\ ack \in Nat /\ Accepted(u, n)
  BY ReadableAccepted, LenProperties, LogAssumption DEF Readable, Sequence
<1>1. SoundWith(u, k, n, ack, fl, h)
  BY AckedBelowCommitted
<1>2. u[1].seq = 0
  BY <1>0, <1>1, UnitType DEF SoundWith
<1>3. PICK a \in 0..ack :
        /\ a = 0 => body = Absent
        /\ a > 0 => h[a] = [id |-> id, body |-> body]
        /\ \A i \in 1..Len(u) :
              u[i].kind = "mutation" /\ u[i].mut.id = id /\ u[i].seq > a => u[i].mut.body \in unk
  BY DEF Explained
<1>4. PICK mine : mine = {e \in Replay(u, n) : e[2].id = id}
  OBVIOUS
<1>5. ASSUME NEW e \in mine
      PROVE  \E i \in 1..n : /\ u[i].kind = "mutation" /\ e[1] = u[i].seq /\ e[2] = u[i].mut
                             /\ u[i].mut.id = id /\ u[i].seq \in 1..MaxSequence
                             /\ u[i].mut = h[u[i].seq]
  <2>1. PICK i \in 1..n : u[i].kind = "mutation" /\ e = <<u[i].seq, u[i].mut>>
    BY <1>4, <1>5 DEF Replay, Entries
  <2>2. e[2].id = id
    BY <1>4, <1>5
  <2>3. u[i].seq \in 1..MaxSequence
    BY <2>1, MutationPositive
  <2>4. u[i].mut = h[u[i].seq]
    BY <1>1, <2>1 DEF SoundWith
  <2> QED
    BY <2>1, <2>2, <2>3, <2>4
<1>6. a > 0 => \E e \in mine : e[1] = a
  <2>1. SUFFICES ASSUME a > 0 PROVE \E e \in mine : e[1] = a
    OBVIOUS
  <2>2. PICK c \in 1..n : Commits(u, c) /\ ack =< u[c].seq
    BY <1>0, <1>1, <1>3, <2>1 DEF SoundWith
  <2>3. a \in (u[1].seq + 1)..u[c].seq
    <3>1. u[c].seq \in Nat
      BY <2>2, UnitType
    <3> QED
      BY <1>0, <1>2, <2>1, <2>2, <3>1
  <2>4. PICK i \in 1..n : u[i].kind = "mutation" /\ u[i].seq = a /\ <<a, u[i].mut>> \in Replay(u, n)
    BY <1>0, <2>2, <2>3, CommittedIsReplayed
  <2>5. u[i].mut = h[a]
    BY <1>1, <2>4 DEF SoundWith
  <2>6. u[i].mut.id = id
    BY <1>3, <2>1, <2>5
  <2>7. <<a, u[i].mut>> \in mine
    BY <1>4, <2>4, <2>6
  <2> QED
    BY <2>7
<1>7. CASE mine = {}
  <2>1. a = 0
    BY <1>0, <1>6, <1>7
  <2>2. doc.body = Absent
    BY <1>4, <1>7 DEF Recovered, NoDocument
  <2> QED
    BY <1>3, <2>1, <2>2
<1>8. CASE mine # {}
  <2>1. \E e \in mine : \A f \in mine : f[1] =< e[1]
    <3> DEFINE S == {e[1] : e \in mine}
    <3>1. S \subseteq 0..MaxSequence /\ S # {} /\ MaxSequence \in Nat
      BY <1>5, <1>8, LogAssumption
    <3>2. Max(S) \in S /\ \A y \in S : y =< Max(S)
      BY <3>1, MaxOfSequences
    <3>3. PICK e \in mine : e[1] = Max(S)
      BY <3>2
    <3> QED
      BY <3>2, <3>3
  <2>2. PICK e : e = CHOOSE x \in mine : \A f \in mine : f[1] =< x[1]
    OBVIOUS
  <2>3. e \in mine /\ \A f \in mine : f[1] =< e[1]
    BY <2>1, <2>2
  <2>4. doc.body = e[2].body
    BY <1>4, <1>8, <2>2 DEF Recovered
  <2>5. PICK i \in 1..n : /\ u[i].kind = "mutation" /\ e[1] = u[i].seq /\ e[2] = u[i].mut
                          /\ u[i].mut.id = id /\ u[i].seq \in 1..MaxSequence
                          /\ u[i].mut = h[u[i].seq]
    BY <1>5, <2>3
  <2>6. CASE u[i].seq > a
    BY <1>3, <2>4, <2>5, <2>6
  <2>7. CASE ~ (u[i].seq > a)
    <3>1. u[i].seq \in Nat /\ a \in Nat /\ u[i].seq >= 1
      BY <1>0, <2>5, LogAssumption
    <3>2. a > 0
      BY <2>7, <3>1
    <3>3. u[i].seq = a
      BY <1>6, <2>3, <2>5, <2>7, <3>1, <3>2
    <3>4. e[2] = [id |-> id, body |-> body]
      BY <1>3, <2>5, <3>2, <3>3
    <3> QED
      BY <2>4, <3>4
  <2> QED
    BY <2>6, <2>7
<1> QED
  BY <1>7, <1>8

-----------------------------------------------------------------------------
(* The steps of the engine.                                                *)

LEMMA DocumentFacts ==
    /\ NoDocument \in Document /\ NoDocument.body = Absent
    /\ \A doc \in Document, id \in Ids : [id |-> id, body |-> doc.body] \in Mutations
    /\ \A body \in Bodies, media \in MediaTypes : [body |-> body, media |-> media] \in Document
  BY EngineAssumption DEF NoDocument, Document

\* The writer of a write under way.
LEMMA WriterFacts ==
    ASSUME TypeOK, writer # Idle
    PROVE  /\ writer \in Writing /\ writer.id \in Ids /\ writer.doc \in Document
           /\ writer.seq \in Sequence /\ writer.doc.body \in Bodies \union {Absent}
           /\ writer = [pc |-> writer.pc, id |-> writer.id, doc |-> writer.doc, seq |-> writer.seq]
  BY DEF TypeOK, Writing, Document

\* Every write is one of a document of the model.
LEMMA BeginOf ==
    ASSUME Upsert \/ Delete
    PROVE  \E id \in Ids, doc \in Document : Begin(id, doc)
<1>1. CASE Upsert
  <2>1. PICK id \in Ids, body \in Bodies, media \in MediaTypes : Begin(id, [body |-> body, media |-> media])
    BY <1>1 DEF Upsert
  <2> QED
    BY <2>1, DocumentFacts
<1>2. CASE Delete
  BY <1>2, DocumentFacts DEF Delete
<1> QED
  BY <1>1, <1>2

\* What the engine does to its log.
LEMMA EngineOnLog ==
    ASSUME TypeOK, [Next]_vars
    PROVE  \/ \E id \in Ids, doc \in Document : Begin(id, doc)
           \/ OpenNew \/ OpenNewFails \/ OpenExisting \/ LogAppendFails
           \/ (\E seq \in Sequence : LogCommit(seq)) \/ (\E seq \in Sequence : LogCommitFails(seq))
           \/ LogClose \/ Kill \/ PowerLoss \/ UNCHANGED logVars
<1>1. CASE Open \/ OpenFails \/ OpenRefused \/ OpenGivesUp
  BY <1>1 DEF Open, OpenFails, OpenRefused, OpenGivesUp
<1>2. CASE Upsert \/ Delete
  BY <1>2, BeginOf
<1>3. CASE BeginFails
  BY <1>3 DEF BeginFails
<1>4. CASE Commit
  <2>1. writer # Idle /\ LogCommit(writer.seq)
    BY <1>4 DEF Commit
  <2> QED
    BY <2>1, WriterFacts
<1>5. CASE CommitFails
  <2>1. writer # Idle /\ (LogCommitFails(writer.seq) \/ UNCHANGED logVars)
    BY <1>5 DEF CommitFails
  <2> QED
    BY <2>1, WriterFacts
<1>6. CASE Apply \/ ApplyFails
  BY <1>6 DEF Apply, ApplyFails
<1>7. CASE Close
  BY <1>7 DEF Close
<1>8. CASE ProcessEnds \/ MachineEnds
  BY <1>8 DEF ProcessEnds, MachineEnds
<1>9. CASE UNCHANGED vars
  BY <1>9 DEF vars
<1> QED
  BY <1>1, <1>2, <1>3, <1>4, <1>5, <1>6, <1>7, <1>8, <1>9 DEF Next

\* A step of the engine is a step of the log.
LEMMA EngineStepsLog ==
    ASSUME TypeOK, [Next]_vars
    PROVE  [LogNext]_logVars
<1>1. ASSUME NEW id \in Ids, NEW doc \in Document, Begin(id, doc) PROVE LogNext
  <2>1. PICK m : m = [id |-> id, body |-> doc.body]
    OBVIOUS
  <2>2. m \in Mutations /\ LogAppend(m)
    BY <1>1, <2>1, DocumentFacts DEF Begin
  <2> QED
    BY <2>2 DEF LogNext
<1> QED
  BY <1>1, EngineOnLog DEF LogNext

\* A mutation is appended behind the others.
LEMMA AppendFacts ==
    ASSUME LogTypeOK, NEW m \in Mutations, LogAppend(m)
    PROVE  /\ lastSequence + 1 \in 1..MaxSequence /\ lastSequence' = lastSequence + 1
           /\ Len(file'.units) = Len(file.units) + 1
           /\ \A i \in 1..Len(file.units) : file'.units[i] = file.units[i]
           /\ file'.units[Len(file.units) + 1] = encodeMutation(lastSequence + 1, m)
           /\ Len(file.units) \in Nat
           /\ history'[lastSequence + 1] = m
           /\ \A s \in 1..MaxSequence : s # lastSequence + 1 => history'[s] = history[s]
<1>1. lastSequence \in 0..MaxSequence /\ lastSequence # MaxSequence /\ MaxSequence \in Nat
  BY LogAssumption DEF LogTypeOK, Sequence, LogAppend
<1>2. lastSequence + 1 \in 1..MaxSequence /\ lastSequence + 1 \in Sequence
  BY <1>1 DEF Sequence
<1>3. encodeMutation(lastSequence + 1, m) \in Unit
  BY <1>2, RecordTypes
<1>4. file'.units = Append(file.units, encodeMutation(lastSequence + 1, m))
  BY <1>3, WriteFacts DEF LogAppend
<1>5. file.units \in Seq(Unit) /\ Len(file.units) \in Nat
  BY FileType
<1> QED
  BY <1>2, <1>3, <1>4, <1>5, AppendProperties DEF LogAppend, LogTypeOK

\* The last number of an undamaged log is that of its last mutation.
LEMMA LastIsLast ==
    ASSUME LogTypeOK, UndamagedInv, handle = "open", fault = "no"
    PROVE  /\ \A i \in 1..Len(file.units) :
                 file.units[i].kind = "mutation" => file.units[i].seq =< lastSequence
           /\ acked =< lastSequence /\ acked \in Nat /\ lastSequence \in Nat
<1>1. PICK n \in 1..Len(file.units) :
         /\ Accepted(file.units, n)
         /\ lastSequence = ScanLast(file.units, n)
         /\ ScanCommitted(file.units, n) =< ScanLast(file.units, n)
         /\ acked =< ScanCommitted(file.units, n)
         /\ n = Len(file.units)
  BY OpenFacts
<1>2. file.units \in Seq(Unit) /\ file.units[1].kind = "header"
  BY <1>1, FileType DEF Accepted
<1>3. \A j \in 1..n : Numbers(file.units, j) => file.units[j].seq =< ScanLast(file.units, n)
  BY <1>1, <1>2, ScanLastFacts
<1>4. ScanCommitted(file.units, n) \in Sequence /\ acked \in Sequence /\ lastSequence \in Sequence
  BY <1>1, <1>2, ScanCommittedFacts DEF LogTypeOK
<1> QED
  BY <1>1, <1>3, <1>4, LogAssumption DEF Numbers, Sequence

LEMMA RecoveredTypes ==
    ASSUME NEW u \in Seq(Unit),
           \A i \in 1..Len(u) : u[i].kind = "mutation" => u[i].mut \in Mutations,
           NEW entries, entries = Replay(u, Len(u))
    PROVE  Recovered(entries) \in [Ids -> Document] /\ LatestOffset(entries) \in Sequence
<1>1. \A e \in entries : e[1] \in 0..MaxSequence /\ e[2] \in Mutations
  <2>1. ASSUME NEW e \in entries PROVE e[1] \in 0..MaxSequence /\ e[2] \in Mutations
    <3>1. PICK i \in 1..Len(u) : u[i].kind = "mutation" /\ e = <<u[i].seq, u[i].mut>>
      BY <2>1 DEF Replay, Entries
    <3> QED
      BY <3>1, UnitType DEF Sequence
  <2> QED
    BY <2>1
<1>2. ASSUME NEW id \in Ids PROVE Recovered(entries)[id] \in Document
  <2>1. PICK mine : mine = {e \in entries : e[2].id = id}
    OBVIOUS
  <2>2. CASE mine = {}
    BY <2>1, <2>2, DocumentFacts DEF Recovered
  <2>3. CASE mine # {}
    <3>1. \E e \in mine : \A f \in mine : f[1] =< e[1]
      <4> DEFINE S == {e[1] : e \in mine}
      <4>1. S \subseteq 0..MaxSequence /\ S # {} /\ MaxSequence \in Nat
        BY <1>1, <2>1, <2>3, LogAssumption
      <4>2. Max(S) \in S /\ \A y \in S : y =< Max(S)
        BY <4>1, MaxOfSequences
      <4>3. PICK e \in mine : e[1] = Max(S)
        BY <4>2
      <4> QED
        BY <4>2, <4>3
    <3>2. PICK e : e = CHOOSE x \in mine : \A f \in mine : f[1] =< x[1]
      OBVIOUS
    <3>3. e \in mine
      BY <3>1, <3>2
    <3>4. Recovered(entries)[id] = [body |-> e[2].body, media |-> DefaultMedia]
      BY <2>1, <2>3, <3>2 DEF Recovered
    <3>5. e[2].body \in Bodies \union {Absent}
      BY <1>1, <2>1, <3>3, EngineAssumption
    <3> QED
      BY <3>4, <3>5, EngineAssumption DEF Document
  <2> QED
    BY <2>2, <2>3
<1>3. Recovered(entries) \in [Ids -> Document]
  BY <1>2 DEF Recovered
<1>4. LatestOffset(entries) \in Sequence
  <2> DEFINE S == {0} \union {e[1] : e \in entries}
  <2>1. S \subseteq 0..MaxSequence /\ S # {} /\ MaxSequence \in Nat
    BY <1>1, LogAssumption
  <2>2. Max(S) \in S
    BY <2>1, MaxOfSequences
  <2> QED
    BY <2>1, <2>2 DEF LatestOffset, Sequence
<1> QED
  BY <1>3, <1>4

\* The parts of EngineInv.
UntouchedInv ==
    /\ undo = {} /\ floor = 0
    /\ \A i \in 1..Len(file.units) : file.units[i].kind = "mutation" => file.units[i].mut \in Mutations
ExplainedInv == \A id \in Ids : Explained(file.units, history, acked, id, saved[id].body, unknown[id])

LEMMA EngineInvParts ==
    EngineInv <=> UntouchedInv /\ (fault # "damaged" => ExplainedInv /\ WriterInv)
  BY DEF EngineInv, UntouchedInv, ExplainedInv

LEMMA UntouchedStep ==
    ASSUME TypeOK, LogTypeOK', UntouchedInv, [Next]_vars
    PROVE  UntouchedInv'
<1>0. LogTypeOK /\ undo = {}
  BY DEF TypeOK, UntouchedInv
<1>1. ASSUME NEW id \in Ids, NEW doc \in Document, Begin(id, doc) PROVE UntouchedInv'
  <2>1. PICK m : m = [id |-> id, body |-> doc.body]
    OBVIOUS
  <2>2. m \in Mutations /\ LogAppend(m)
    BY <1>1, <2>1, DocumentFacts DEF Begin
  <2>3. /\ Len(file'.units) = Len(file.units) + 1 /\ Len(file.units) \in Nat
        /\ \A i \in 1..Len(file.units) : file'.units[i] = file.units[i]
        /\ file'.units[Len(file.units) + 1] = encodeMutation(lastSequence + 1, m)
    BY <1>0, <2>2, AppendFacts
  <2>4. encodeMutation(lastSequence + 1, m).mut = m
    BY DEF encodeMutation
  <2>5. undo' = undo /\ floor' = floor
    BY <2>2 DEF LogAppend
  <2>6. \A i \in 1..Len(file'.units) : i \in 1..Len(file.units) \/ i = Len(file.units) + 1
    BY <2>3
  <2> QED
    BY <2>2, <2>3, <2>4, <2>5, <2>6 DEF UntouchedInv
<1>2. CASE \/ OpenNew \/ OpenNewFails \/ OpenExisting \/ LogAppendFails
           \/ (\E seq \in Sequence : LogCommit(seq)) \/ (\E seq \in Sequence : LogCommitFails(seq))
           \/ LogClose \/ Kill \/ PowerLoss \/ UNCHANGED logVars
  <2>1. Within(file'.units, file.units) /\ undo' = {} /\ floor' = floor
    BY <1>0, <1>2, LogQuiet
  <2> QED
    BY <2>1 DEF UntouchedInv, Within
<1> QED
  BY <1>1, <1>2, EngineOnLog

LEMMA EngineTypes ==
    ASSUME TypeOK, LogTypeOK', UntouchedInv', [Next]_vars
    PROVE  TypeOK'
<1>0. /\ running \in BOOLEAN /\ documents \in [Ids -> Document] /\ offset \in Sequence
      /\ writer = Idle \/ writer \in Writing
      /\ saved \in [Ids -> Document] /\ unknown \in [Ids -> SUBSET (Bodies \union {Absent})]
  BY DEF TypeOK
<1>1. CASE Open
  <2>1. PICK u : u = file'.units
    OBVIOUS
  <2>2. u \in Seq(Unit) /\ \A i \in 1..Len(u) : u[i].kind = "mutation" => u[i].mut \in Mutations
    BY <2>1 DEF LogTypeOK, Image, UntouchedInv
  <2>3. PICK entries : entries = Replay(u, Len(u))
    OBVIOUS
  <2>4. documents' = Recovered(entries) /\ offset' = LatestOffset(entries)
    BY <1>1, <2>1, <2>3 DEF Open
  <2>5. documents' \in [Ids -> Document] /\ offset' \in Sequence
    BY <2>2, <2>3, <2>4, RecoveredTypes
  <2> QED
    BY <1>0, <1>1, <2>5 DEF TypeOK, Open, clientVars
<1>2. ASSUME NEW id \in Ids, NEW doc \in Document, Begin(id, doc) PROVE TypeOK'
  <2>1. lastSequence' \in Sequence
    BY DEF LogTypeOK
  <2>2. doc.body \in Bodies \union {Absent}
    BY DEF Document
  <2>3. writer' \in Writing
    BY <1>2, <2>1 DEF Begin, Writing
  <2>4. unknown' \in [Ids -> SUBSET (Bodies \union {Absent})]
    BY <1>0, <1>2, <2>2 DEF Begin
  <2> QED
    BY <1>0, <1>2, <2>3, <2>4 DEF TypeOK, Begin
<1>3. CASE Commit
  <2>1. writer # Idle
    BY <1>3 DEF Commit
  <2>2. writer' \in Writing
    BY <1>3, <2>1, WriterFacts DEF Commit, Writing
  <2> QED
    BY <1>0, <1>3, <2>2 DEF TypeOK, Commit, clientVars
<1>4. CASE Apply
  <2>1. writer # Idle
    BY <1>4 DEF Apply
  <2>2. writer.id \in Ids /\ writer.doc \in Document /\ writer.seq \in Sequence
    BY <2>1, WriterFacts
  <2> QED
    BY <1>0, <1>4, <2>2 DEF TypeOK, Apply
<1>5. CASE ProcessEnds \/ MachineEnds
  <2>1. Stopped /\ UNCHANGED clientVars
    BY <1>5 DEF ProcessEnds, MachineEnds
  <2>2. 0 \in Sequence
    BY RecordTypes
  <2> QED
    BY <1>0, <2>1, <2>2, DocumentFacts DEF TypeOK, Stopped, clientVars
<1>6. CASE OpenFails \/ OpenRefused \/ OpenGivesUp \/ BeginFails \/ Close \/ UNCHANGED vars
  <2>1. UNCHANGED <<engineVars, clientVars>>
    BY <1>6 DEF OpenFails, OpenRefused, OpenGivesUp, BeginFails, Close, vars
  <2> QED
    BY <1>0, <2>1 DEF TypeOK, engineVars, clientVars
<1>7. CASE CommitFails \/ ApplyFails
  <2>1. UNCHANGED <<running, documents, offset, clientVars>> /\ writer' = Idle
    BY <1>7 DEF CommitFails, ApplyFails
  <2> QED
    BY <1>0, <2>1 DEF TypeOK, clientVars
<1> QED
  BY <1>1, <1>2, <1>3, <1>4, <1>5, <1>6, <1>7, BeginOf DEF Next

\* A write begins: the log explains the documents as before, and the write.
LEMMA BeginExplained ==
    ASSUME TypeOK, UndamagedInv, ExplainedInv, NEW id \in Ids, NEW doc \in Document, Begin(id, doc),
           fault' # "damaged"
    PROVE  ExplainedInv' /\ WriterInv'
<1>1. PICK m : m = [id |-> id, body |-> doc.body]
  OBVIOUS
<1>2. m \in Mutations /\ LogAppend(m) /\ LogTypeOK
  BY <1>1, DocumentFacts DEF Begin, TypeOK
<1>3. handle = "open" /\ fault = "no" /\ acked' = acked
  BY <1>2 DEF LogAppend, Wrote
<1>4. PICK s : s = lastSequence + 1
  OBVIOUS
<1>5. /\ s \in 1..MaxSequence /\ lastSequence' = s
      /\ Len(file'.units) = Len(file.units) + 1 /\ Len(file.units) \in Nat
      /\ \A i \in 1..Len(file.units) : file'.units[i] = file.units[i]
      /\ file'.units[Len(file.units) + 1] = encodeMutation(s, m)
      /\ history'[s] = m
      /\ \A t \in 1..MaxSequence : t # s => history'[t] = history[t]
  BY <1>2, <1>4, AppendFacts
<1>6. /\ \A i \in 1..Len(file.units) :
            file.units[i].kind = "mutation" => file.units[i].seq =< lastSequence
      /\ acked =< lastSequence /\ acked \in Nat /\ lastSequence \in Nat /\ lastSequence =< MaxSequence
      /\ MaxSequence \in Nat
  BY <1>2, <1>3, LastIsLast, LogAssumption DEF LogTypeOK, Sequence
<1>7. encodeMutation(s, m).mut = m /\ encodeMutation(s, m).seq = s
  BY DEF encodeMutation
<1>8. \A i \in 1..Len(file'.units) : i \in 1..Len(file.units) \/ i = Len(file.units) + 1
  BY <1>5
<1>9. /\ unknown \in [Ids -> SUBSET (Bodies \union {Absent})]
      /\ unknown' = [unknown EXCEPT ![id] = @ \union {doc.body}]
      /\ writer' = [pc |-> "appended", id |-> id, doc |-> doc, seq |-> s]
      /\ running' = running /\ running /\ saved' = saved
  BY <1>5 DEF TypeOK, Begin
<1>10. /\ doc.body \in unknown'[id]
       /\ \A i \in Ids : unknown[i] \subseteq unknown'[i]
  BY <1>9
<1>11. ASSUME NEW j \in Ids
       PROVE  Explained(file'.units, history', acked', j, saved'[j].body, unknown'[j])
  <2>1. PICK a \in 0..acked :
          /\ a = 0 => saved[j].body = Absent
          /\ a > 0 => history[a] = [id |-> j, body |-> saved[j].body]
          /\ \A i \in 1..Len(file.units) :
                file.units[i].kind = "mutation" /\ file.units[i].mut.id = j /\ file.units[i].seq > a
                => file.units[i].mut.body \in unknown[j]
    BY DEF ExplainedInv, Explained
  <2>2. a > 0 => history'[a] = history[a]
    <3>1. a > 0 => a \in 1..MaxSequence /\ a # s
      BY <1>4, <1>6, <2>1
    <3> QED
      BY <1>5, <3>1
  <2>3. ASSUME NEW i \in 1..Len(file'.units), file'.units[i].kind = "mutation",
               file'.units[i].mut.id = j, file'.units[i].seq > a
        PROVE  file'.units[i].mut.body \in unknown'[j]
    <3>1. CASE i \in 1..Len(file.units)
      <4>1. file'.units[i] = file.units[i]
        BY <1>5, <3>1
      <4>2. file.units[i].mut.body \in unknown[j]
        BY <2>1, <2>3, <3>1, <4>1
      <4> QED
        BY <1>10, <4>1, <4>2
    <3>2. CASE i = Len(file.units) + 1
      <4>1. file'.units[i].mut = m
        BY <1>5, <1>7, <3>2
      <4>2. j = id /\ m.body = doc.body
        BY <1>1, <2>3, <4>1
      <4> QED
        BY <1>10, <4>1, <4>2
    <3> QED
      BY <1>8, <3>1, <3>2
  <2> QED
    BY <1>3, <1>9, <2>1, <2>2, <2>3 DEF Explained
<1>12. ExplainedInv'
  BY <1>11 DEF ExplainedInv
<1>13. WriterInv'
  <2>1. /\ writer'.pc = "appended" /\ writer'.id = id /\ writer'.doc = doc /\ writer'.seq = s
    BY <1>9
  <2>2. ASSUME NEW i \in 1..Len(file'.units), file'.units[i].kind = "mutation"
        PROVE  file'.units[i].seq =< s
    <3>1. CASE i \in 1..Len(file.units)
      <4>1. file.units[i].seq =< lastSequence /\ file.units[i].seq \in Nat
        BY <1>2, <1>5, <1>6, <2>2, <3>1, FileType, UnitType
      <4>2. file'.units[i] = file.units[i]
        BY <1>5, <3>1
      <4>3. lastSequence =< s /\ s \in Nat
        BY <1>4, <1>6
      <4> QED
        BY <1>6, <4>1, <4>2, <4>3
    <3>2. CASE i = Len(file.units) + 1
      BY <1>5, <1>7, <3>2
    <3> QED
      BY <1>8, <3>1, <3>2
  <2> QED
    BY <1>1, <1>5, <1>9, <1>10, <2>1, <2>2 DEF WriterInv
<1> QED
  BY <1>12, <1>13

\* Nothing is acknowledged and nothing is appended.
LEMMA QuietExplained ==
    ASSUME TypeOK, LogTypeOK', undo = {}, ExplainedInv, UNCHANGED clientVars,
           \/ OpenNew \/ OpenNewFails \/ OpenExisting \/ LogAppendFails
           \/ (\E seq \in Sequence : LogCommit(seq)) \/ (\E seq \in Sequence : LogCommitFails(seq))
           \/ LogClose \/ Kill \/ PowerLoss \/ UNCHANGED logVars
    PROVE  ExplainedInv'
<1>1. /\ Within(file'.units, file.units) /\ history' = history
      /\ acked \in Nat /\ acked' \in Nat /\ acked =< acked'
  BY LogQuiet DEF TypeOK
<1>2. saved' = saved /\ unknown' = unknown
  BY DEF clientVars
<1>3. ASSUME NEW id \in Ids
      PROVE  Explained(file'.units, history', acked', id, saved'[id].body, unknown'[id])
  <2>1. Explained(file.units, history, acked, id, saved[id].body, unknown[id])
    BY DEF ExplainedInv
  <2>2. PICK u, v, h, ack, ack2, body, unk :
          /\ u = file.units /\ v = file'.units /\ h = history /\ ack = acked /\ ack2 = acked'
          /\ body = saved[id].body /\ unk = unknown[id]
    OBVIOUS
  <2>3. /\ Within(v, u) /\ ack \in Nat /\ ack2 \in Nat /\ ack =< ack2
        /\ Explained(u, h, ack, id, body, unk)
    BY <1>1, <2>1, <2>2
  <2>4. (\A a \in 1..ack : h[a] = h[a]) /\ unk \subseteq unk
    OBVIOUS
  <2>5. Explained(v, h, ack2, id, body, unk)
    BY <2>3, <2>4, ExplainedLater
  <2> QED
    BY <1>1, <1>2, <2>2, <2>5
<1> QED
  BY <1>3 DEF ExplainedInv

\* The write under way stays the last one.
LEMMA WriterStays ==
    ASSUME TypeOK, LogTypeOK', undo = {}, WriterInv, UNCHANGED <<running, writer, unknown>>,
           \/ OpenNew \/ OpenNewFails \/ OpenExisting \/ LogAppendFails
           \/ (\E seq \in Sequence : LogCommit(seq)) \/ (\E seq \in Sequence : LogCommitFails(seq))
           \/ LogClose \/ Kill \/ PowerLoss \/ UNCHANGED logVars
    PROVE  WriterInv'
<1>1. /\ Within(file'.units, file.units) /\ history' = history
      /\ acked \in Nat /\ acked' \in Nat /\ acked =< acked'
  BY LogQuiet DEF TypeOK
<1>2. SUFFICES ASSUME writer # Idle
               PROVE  WriterInv'
  BY DEF WriterInv
<1>3. writer.seq \in Nat
  BY <1>2, LogAssumption DEF WriterInv
<1> QED
  BY <1>1, <1>2, <1>3 DEF WriterInv, Within

LEMMA CommitExplained ==
    ASSUME TypeOK, LogTypeOK', undo = {}, ExplainedInv, WriterInv, Commit
    PROVE  ExplainedInv' /\ WriterInv'
<1>0. writer # Idle /\ LogCommit(writer.seq) /\ UNCHANGED clientVars /\ running' = running
  BY DEF Commit
<1>1. writer.seq \in Sequence /\ LogCommit(writer.seq)
      /\ writer = [pc |-> writer.pc, id |-> writer.id, doc |-> writer.doc, seq |-> writer.seq]
  BY <1>0, WriterFacts
<1>2. ExplainedInv'
  BY <1>0, <1>1, QuietExplained
<1>3. /\ Within(file'.units, file.units) /\ history' = history
      /\ acked \in Nat /\ acked' \in Nat /\ acked =< acked'
  BY <1>1, LogQuiet DEF TypeOK
<1>4. writer.seq =< acked' /\ writer.seq \in Nat
  BY <1>1, <1>3, LogAssumption DEF LogCommit, Sequence
<1>5. writer'.id = writer.id /\ writer'.doc = writer.doc /\ writer'.seq = writer.seq
  BY <1>1 DEF Commit
<1>6. unknown' = unknown
  BY <1>0 DEF clientVars
<1>7. WriterInv'
  BY <1>0, <1>3, <1>4, <1>5, <1>6 DEF WriterInv, Within
<1> QED
  BY <1>2, <1>7

\* The write is acknowledged: the log explains its document by its own number.
LEMMA ApplyExplained ==
    ASSUME TypeOK, ExplainedInv, WriterInv, Apply
    PROVE  ExplainedInv' /\ WriterInv'
<1>1. /\ writer # Idle /\ writer.pc = "committed" /\ UNCHANGED logVars /\ writer' = Idle
      /\ saved' = [saved EXCEPT ![writer.id] = writer.doc]
      /\ unknown' = [unknown EXCEPT ![writer.id] = {}]
  BY DEF Apply
<1>2. /\ writer.id \in Ids /\ writer.seq \in 1..MaxSequence /\ writer.seq =< acked /\ acked \in Nat
      /\ history[writer.seq] = [id |-> writer.id, body |-> writer.doc.body]
      /\ \A i \in 1..Len(file.units) :
            file.units[i].kind = "mutation" => file.units[i].seq =< writer.seq
  BY <1>1, WriterFacts, LogAssumption DEF WriterInv, TypeOK, LogTypeOK, Sequence
<1>3. file' = file /\ history' = history /\ acked' = acked
  BY <1>1 DEF logVars, disk, ghosts
<1>4. saved \in [Ids -> Document] /\ unknown \in [Ids -> SUBSET (Bodies \union {Absent})]
      /\ file.units \in Seq(Unit) /\ Len(file.units) \in Nat
  BY FileType DEF TypeOK
<1>5. ASSUME NEW id \in Ids
      PROVE  Explained(file.units, history, acked, id, saved'[id].body, unknown'[id])
  <2>1. CASE id = writer.id
    <3>1. saved'[id] = writer.doc
      BY <1>1, <1>4, <2>1
    <3>2. writer.seq \in 0..acked /\ writer.seq > 0
      BY <1>2, LogAssumption
    <3>3. \A i \in 1..Len(file.units) :
             file.units[i].kind = "mutation" => ~ (file.units[i].seq > writer.seq)
      BY <1>2, <1>4, UnitType, LogAssumption
    <3> QED
      BY <1>2, <2>1, <3>1, <3>2, <3>3 DEF Explained
  <2>2. CASE id # writer.id
    <3>1. saved'[id] = saved[id] /\ unknown'[id] = unknown[id]
      BY <1>1, <1>4, <2>2
    <3> QED
      BY <3>1 DEF ExplainedInv
  <2> QED
    BY <2>1, <2>2
<1>6. ExplainedInv'
  BY <1>3, <1>5 DEF ExplainedInv
<1> QED
  BY <1>1, <1>6 DEF WriterInv

LEMMA ExplainedStep ==
    ASSUME TypeOK, LogTypeOK', UndamagedInv, undo = {}, ExplainedInv, WriterInv, [Next]_vars,
           fault' # "damaged"
    PROVE  ExplainedInv' /\ WriterInv'
<1>1. CASE Open
  <2>1. (OpenNew \/ OpenExisting) /\ UNCHANGED clientVars /\ writer' = Idle
    BY <1>1 DEF Open
  <2> QED
    BY <2>1, QuietExplained DEF WriterInv
<1>2. CASE OpenFails \/ OpenRefused \/ OpenGivesUp
  <2>1. /\ OpenNewFails \/ OpenNew \/ OpenExisting \/ LogClose
        /\ UNCHANGED clientVars /\ UNCHANGED <<running, writer, unknown>>
    BY <1>2 DEF OpenFails, OpenRefused, OpenGivesUp, engineVars, clientVars
  <2> QED
    BY <2>1, QuietExplained, WriterStays
<1>3. CASE Upsert \/ Delete
  <2>1. PICK id \in Ids, doc \in Document : Begin(id, doc)
    BY <1>3, BeginOf
  <2> QED
    BY <2>1, BeginExplained
<1>4. CASE BeginFails
  <2>1. LogAppendFails /\ UNCHANGED clientVars /\ UNCHANGED <<running, writer, unknown>>
    BY <1>4 DEF BeginFails, engineVars, clientVars
  <2> QED
    BY <2>1, QuietExplained, WriterStays
<1>5. CASE Commit
  BY <1>5, CommitExplained
<1>6. CASE CommitFails
  <2>1. writer # Idle /\ writer' = Idle /\ UNCHANGED clientVars
        /\ (LogCommitFails(writer.seq) \/ UNCHANGED logVars)
    BY <1>6 DEF CommitFails
  <2>2. writer.seq \in Sequence
    BY <2>1, WriterFacts
  <2> QED
    BY <2>1, <2>2, QuietExplained DEF WriterInv
<1>7. CASE Apply
  BY <1>7, ApplyExplained
<1>8. CASE ApplyFails
  <2>1. writer' = Idle /\ UNCHANGED clientVars /\ UNCHANGED logVars
    BY <1>8 DEF ApplyFails
  <2> QED
    BY <2>1, QuietExplained DEF WriterInv
<1>9. CASE Close
  <2>1. LogClose /\ UNCHANGED clientVars /\ UNCHANGED <<running, writer, unknown>>
    BY <1>9 DEF Close, engineVars, clientVars
  <2> QED
    BY <2>1, QuietExplained, WriterStays
<1>10. CASE ProcessEnds \/ MachineEnds
  <2>1. (Kill \/ PowerLoss \/ UNCHANGED logVars) /\ UNCHANGED clientVars /\ writer' = Idle
    BY <1>10 DEF ProcessEnds, MachineEnds, Stopped
  <2> QED
    BY <2>1, QuietExplained DEF WriterInv
<1>11. CASE UNCHANGED vars
  <2>1. UNCHANGED logVars /\ UNCHANGED clientVars /\ UNCHANGED <<running, writer, unknown>>
    BY <1>11 DEF vars, engineVars, clientVars
  <2> QED
    BY <2>1, QuietExplained, WriterStays
<1> QED
  BY <1>1, <1>2, <1>3, <1>4, <1>5, <1>6, <1>7, <1>8, <1>9, <1>10, <1>11 DEF Next

LEMMA EngineStep ==
    ASSUME TypeOK, LogInv, EngineInv, [Next]_vars
    PROVE  TypeOK' /\ LogInv' /\ EngineInv'
<1>1. LogTypeOK /\ UntouchedInv /\ undo = {} /\ (fault # "damaged" => ExplainedInv /\ WriterInv)
      /\ (fault # "damaged" => UndamagedInv)
  BY EngineInvParts, LogInvParts DEF TypeOK, UntouchedInv
<1>2. [LogNext]_logVars
  BY EngineStepsLog
<1>3. LogTypeOK' /\ LogInv'
  BY <1>1, <1>2, LogInvNext
<1>4. UntouchedInv' /\ TypeOK'
  BY <1>1, <1>3, UntouchedStep, EngineTypes
<1>5. fault' # "damaged" => ExplainedInv' /\ WriterInv'
  BY <1>1, <1>2, <1>3, DamageStays, ExplainedStep
<1> QED
  BY <1>3, <1>4, <1>5 DEF EngineInv, UntouchedInv, ExplainedInv

LEMMA EngineInit ==
    ASSUME Init
    PROVE  TypeOK /\ LogInv /\ EngineInv
<1>1. LogInit /\ LogTypeOK /\ LogInv
  BY LogInvInit DEF Init
<1>2. 0 \in Sequence
  BY RecordTypes
<1>3. TypeOK
  BY <1>1, <1>2, DocumentFacts DEF Init, TypeOK
<1>4. file.units = << >> /\ undo = {} /\ floor = 0 /\ acked = 0 /\ Len(file.units) = 0
  BY <1>1 DEF LogInit
<1>5. \A id \in Ids : saved[id].body = Absent
  BY DocumentFacts DEF Init
<1>6. \A id \in Ids : Explained(file.units, history, acked, id, saved[id].body, unknown[id])
  BY <1>4, <1>5 DEF Explained
<1> QED
  BY <1>1, <1>3, <1>4, <1>6 DEF EngineInv, WriterInv, Init

-----------------------------------------------------------------------------
(* What holds of the engine.                                               *)

\* The variables of the engine keep their types, whatever happens to its log.
THEOREM EngineTypeCorrect == Spec => []TypeOK
<1>1. Init => TypeOK /\ LogInv /\ EngineInv
  BY EngineInit
<1>2. TypeOK /\ LogInv /\ EngineInv /\ [Next]_vars => TypeOK' /\ LogInv' /\ EngineInv'
  BY EngineStep
<1> QED
  BY <1>1, <1>2, PTL DEF Spec

\* The inductive invariant of the engine: as long as its log is undamaged, the last
\* acknowledged value of every document is the one that the log has under some
\* acknowledged number, and the later writes that the log has are those whose outcome
\* no client knows.
THEOREM EngineInvariant == Spec => [](LogInv /\ EngineInv)
<1>1. Init => TypeOK /\ LogInv /\ EngineInv
  BY EngineInit
<1>2. TypeOK /\ LogInv /\ EngineInv /\ [Next]_vars => TypeOK' /\ LogInv' /\ EngineInv'
  BY EngineStep
<1> QED
  BY <1>1, <1>2, PTL DEF Spec

\* The engine calls its log as the log's specification allows: what is proved of the
\* log holds of the log of an engine.
THEOREM EngineKeepsLog == Spec => LogSpec
<1>1. Init => LogInit
  BY DEF Init
<1>2. TypeOK /\ [Next]_vars => [LogNext]_logVars
  BY EngineStepsLog
<1> QED
  BY <1>1, <1>2, EngineTypeCorrect, PTL DEF Spec, LogSpec


-----------------------------------------------------------------------------
(* The engine implements the durable collection.                           *)

\* What a client of the collection reads of the documents.
LEMMA BodiesFacts ==
    ASSUME NEW docs \in [Ids -> Document], NEW b, b = Bodies_(docs)
    PROVE  /\ b \in [Ids -> Bodies \union {Absent}]
           /\ \A id \in Ids : b[id] = docs[id].body
  BY DEF Bodies_, Document

LEMMA BodiesOfNothing == Bodies_([id \in Ids |-> NoDocument]) = [id \in Ids |-> Absent]
  BY DEF Bodies_, NoDocument

\* One document replaced is one body replaced.
LEMMA BodiesExcept ==
    ASSUME NEW docs \in [Ids -> Document], NEW id \in Ids, NEW doc \in Document
    PROVE  Bodies_([docs EXCEPT ![id] = doc]) = [Bodies_(docs) EXCEPT ![id] = doc.body]
<1> DEFINE a == Bodies_([docs EXCEPT ![id] = doc])
           b == [Bodies_(docs) EXCEPT ![id] = doc.body]
<1>1. /\ a = [i \in Ids |-> a[i]] /\ b = [i \in Ids |-> b[i]]
  BY DEF Bodies_
<1>2. \A i \in Ids : a[i] = b[i]
  BY DEF Bodies_
<1> HIDE DEF a, b
<1>3. a = b
  BY <1>1, <1>2
<1> QED
  BY <1>3 DEF a, b

\* After Open every document is the acknowledged one or that of a later write.
LEMMA OpenStarts ==
    ASSUME TypeOK, TypeOK', LogInv', EngineInv', fault # "damaged", Open
    PROVE  Collection!Start
<1>1. /\ ~ running /\ running' = TRUE /\ saved' = saved /\ unknown' = unknown
      /\ documents' = Recovered(Replay(file'.units, Len(file'.units)))
      /\ OpenNew \/ OpenExisting
  BY DEF Open, clientVars
<1>2. handle' = "open" /\ fault' = "no"
  <2>1. fault \in {"no", "torn"}
    BY DEF TypeOK, LogTypeOK
  <2> QED
    BY <1>1, <2>1 DEF OpenNew, OpenExisting
<1>3. ASSUME NEW id \in Ids
      PROVE  documents'[id].body = saved[id].body \/ documents'[id].body \in unknown[id]
  <2>1. PICK u, k, h, ack, fl, body, unk :
          /\ u = file'.units /\ k = file'.synced /\ h = history' /\ ack = acked' /\ fl = floor'
          /\ body = saved'[id].body /\ unk = unknown'[id]
    OBVIOUS
  <2>2. PICK doc : doc = Recovered(Replay(u, Len(u)))[id]
    OBVIOUS
  <2>3. doc = documents'[id]
    BY <1>1, <2>1, <2>2
  <2>4. u \in Seq(Unit) /\ ack \in Sequence
    BY <2>1 DEF TypeOK, LogTypeOK, Image
  <2>5. fl = 0 /\ Explained(u, h, ack, id, body, unk)
    BY <1>2, <2>1 DEF EngineInv
  <2>6. Readable(u, Len(u)) /\ SoundFor(u, k, ack, fl, h)
    <3>1. Sound(file)' /\ FieldsInv'
      BY <1>2 DEF LogInv
    <3>2. Readable(u, Len(u))
      BY <1>2, <2>1, <3>1 DEF FieldsInv
    <3>3. SoundFor(u, k, ack, fl, h)
      BY <2>1, <3>1 DEF Sound, SoundFor, SoundWith
    <3> QED
      BY <3>2, <3>3
  <2>7. doc.body = body \/ doc.body \in unk
    BY <2>2, <2>4, <2>5, <2>6, RecoveredIsExplained
  <2> QED
    BY <1>1, <2>1, <2>3, <2>7
<1>4. PICK docs, docs2, acks : docs = documents /\ docs2 = documents' /\ acks = saved
  OBVIOUS
<1>5. docs2 \in [Ids -> Document] /\ acks \in [Ids -> Document]
  BY <1>4 DEF TypeOK
<1>6. PICK b2, s : b2 = Bodies_(docs2) /\ s = Bodies_(acks)
  OBVIOUS
<1>7. /\ b2 \in [Ids -> Bodies \union {Absent}]
      /\ \A id \in Ids : b2[id] = docs2[id].body /\ s[id] = acks[id].body
  BY <1>5, <1>6, BodiesFacts
<1>8. \A id \in Ids : b2[id] \in {s[id]} \union unknown[id]
  BY <1>3, <1>4, <1>7
<1>9. Bodies_(documents)' = b2 /\ Bodies_(saved) = s /\ Bodies_(saved)' = s
  BY <1>1, <1>4, <1>6
<1> QED
  BY <1>1, <1>7, <1>8, <1>9 DEF Collection!Start

LEMMA BeginSubmits ==
    ASSUME NEW id \in Ids, NEW doc \in Document, Begin(id, doc)
    PROVE  Collection!CollectionNext
<1>1. PICK v \in Bodies \union {Absent} : v = doc.body
  BY DEF Document
<1>2. /\ running /\ unknown' = [unknown EXCEPT ![id] = @ \union {v}]
      /\ running' = running /\ documents' = documents /\ saved' = saved
  BY <1>1 DEF Begin
<1>3. Bodies_(documents)' = Bodies_(documents) /\ Bodies_(saved)' = Bodies_(saved)
  BY <1>2 DEF Bodies_
<1>4. Collection!Submit(id, v)
  BY <1>2, <1>3 DEF Collection!Submit
<1> QED
  BY <1>4 DEF Collection!CollectionNext

LEMMA ApplyAcknowledges ==
    ASSUME TypeOK, WriterInv, Apply
    PROVE  Collection!CollectionNext
<1>1. writer # Idle
  BY DEF Apply
<1>2. PICK id \in Ids, doc \in Document : id = writer.id /\ doc = writer.doc
  BY <1>1, WriterFacts
<1>3. PICK v \in Bodies \union {Absent} : v = doc.body
  BY <1>2 DEF Document
<1>4. PICK docs \in [Ids -> Document], acks \in [Ids -> Document] : docs = documents /\ acks = saved
  BY DEF TypeOK
<1>5. /\ documents' = [docs EXCEPT ![id] = doc] /\ saved' = [acks EXCEPT ![id] = doc]
      /\ unknown' = [unknown EXCEPT ![id] = {}] /\ running' = running
  BY <1>2, <1>4 DEF Apply
<1>6. running /\ v \in unknown[id]
  BY <1>1, <1>2, <1>3 DEF WriterInv
<1>7. /\ Bodies_([docs EXCEPT ![id] = doc]) = [Bodies_(docs) EXCEPT ![id] = v]
      /\ Bodies_([acks EXCEPT ![id] = doc]) = [Bodies_(acks) EXCEPT ![id] = v]
  BY <1>3, BodiesExcept
<1>8. /\ Bodies_(documents)' = [Bodies_(documents) EXCEPT ![id] = v]
      /\ Bodies_(saved)' = [Bodies_(saved) EXCEPT ![id] = v]
  BY <1>4, <1>5, <1>7
<1>9. Collection!Acknowledge(id, v)
  BY <1>5, <1>6, <1>8 DEF Collection!Acknowledge
<1> QED
  BY <1>9 DEF Collection!CollectionNext

\* As long as the log is not damaged, every step of the engine is one of the collection
\* or none that a client sees.
LEMMA EngineStepsCollection ==
    ASSUME TypeOK, LogInv, EngineInv, fault # "damaged", [Next]_vars
    PROVE  [Collection!CollectionNext]_(Collection!collectionVars)
<1>0. TypeOK' /\ LogInv' /\ EngineInv' /\ WriterInv
  BY EngineStep DEF EngineInv
<1>1. CASE Open
  BY <1>0, <1>1, OpenStarts DEF Collection!CollectionNext
<1>2. CASE Upsert \/ Delete
  BY <1>2, BeginOf, BeginSubmits
<1>3. CASE Apply
  BY <1>0, <1>3, ApplyAcknowledges
<1>4. CASE ProcessEnds \/ MachineEnds
  <2>1. /\ running' = FALSE /\ documents' = [id \in Ids |-> NoDocument]
        /\ saved' = saved /\ unknown' = unknown
    BY <1>4 DEF ProcessEnds, MachineEnds, Stopped, clientVars
  <2>2. Bodies_(documents)' = [id \in Ids |-> Absent] /\ Bodies_(saved)' = Bodies_(saved)
    BY <2>1, BodiesOfNothing DEF Bodies_
  <2> QED
    BY <2>1, <2>2 DEF Collection!Stop, Collection!CollectionNext
<1>5. ASSUME running' = running, documents' = documents, saved' = saved, unknown' = unknown
      PROVE  UNCHANGED Collection!collectionVars
  BY <1>5 DEF Bodies_, Collection!collectionVars
<1>6. CASE \/ OpenFails \/ OpenRefused \/ OpenGivesUp \/ BeginFails \/ Commit \/ CommitFails
           \/ ApplyFails \/ Close \/ UNCHANGED vars
  BY <1>5, <1>6 DEF OpenFails, OpenRefused, OpenGivesUp, BeginFails, Commit, CommitFails, ApplyFails,
                    Close, engineVars, clientVars, vars
<1> QED
  BY <1>1, <1>2, <1>3, <1>4, <1>6 DEF Next

LEMMA EngineInitCollection ==
    ASSUME Init
    PROVE  Collection!CollectionInit
<1>1. /\ documents = [id \in Ids |-> NoDocument] /\ saved = [id \in Ids |-> NoDocument]
      /\ running = FALSE /\ unknown = [id \in Ids |-> {}]
  BY DEF Init
<1>2. Bodies_(documents) = [id \in Ids |-> Absent] /\ Bodies_(saved) = [id \in Ids |-> Absent]
  BY <1>1, BodiesOfNothing
<1> QED
  BY <1>1, <1>2 DEF Collection!CollectionInit

\* Up to the step that damages the log, and that step included, what a client sees of
\* the engine are steps of the durable collection.
THEOREM EngineServesCollection ==
    Spec => /\ Collection!CollectionInit
            /\ [][fault # "damaged" => [Collection!CollectionNext]_(Collection!collectionVars)]_vars
<1>1. Init => Collection!CollectionInit
  BY EngineInitCollection
<1>2. TypeOK /\ LogInv /\ EngineInv /\ [Next]_vars
      => [fault # "damaged" => [Collection!CollectionNext]_(Collection!collectionVars)]_vars
  BY EngineStepsCollection
<1> QED
  BY <1>1, <1>2, EngineTypeCorrect, EngineInvariant, PTL DEF Spec

\* Upsert, Delete and Open keep a durable collection through failed writes, crashes and
\* restarts, in every behaviour that never writes behind a torn record (see AckedDurable).
THEOREM EngineIsDurable == Spec /\ [](fault # "damaged") => ImplementsCollection
<1>1. Init => Collection!CollectionInit
  BY EngineInitCollection
<1>2. TypeOK /\ LogInv /\ EngineInv /\ fault # "damaged" /\ [Next]_vars
      => [Collection!CollectionNext]_(Collection!collectionVars)
  BY EngineStepsCollection
<1> QED
  BY <1>1, <1>2, EngineTypeCorrect, EngineInvariant, PTL
  DEF Spec, ImplementsCollection, Collection!CollectionSpec

=============================================================================
