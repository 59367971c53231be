------------------------- MODULE ReplicationProofs -------------------------
(***************************************************************************)
(* What Replication keeps for every number of nodes, terms and writes:     *)
(* a term has one leader, whatever fails; and as long as no fault of the   *)
(* list in Replication has happened, a mutation that is committed          *)
(* somewhere is agreed on, is on a majority, was not refused and stays.    *)
(***************************************************************************)
EXTENDS Replication, FiniteSetTheorems, TLAPS

-----------------------------------------------------------------------------
(* The inductive invariant of the election.                                *)

\* The latest term belongs to the current node; no later one was granted, and
\* an earlier one to at most one node.
ElectionInv ==
    /\ current.term \in 0..MaxTerm
    /\ terms \in [0..MaxTerm -> SUBSET Nodes]
    /\ \A t \in 0..MaxTerm :
          /\ t = current.term => terms[t] \subseteq {current.node}
          /\ t > current.term => terms[t] = {}
          /\ \A m, n \in terms[t] : m = n

-----------------------------------------------------------------------------
(* The inductive invariant of the log, while nothing failed.               *)

Undecided == {"asking", "rollback", "commit"}
Busy == Undecided \union {"local", "peers"}

\* The replicas that hold the entry of a Write that is not decided yet.
PendingIn(p) == {r \in Nodes : \E n \in Nodes : p[n].pc \in Undecided /\ r \in p[n].acknowledged}
pending == PendingIn(primary)

\* How much of its log a replica will not be asked to roll back by a Write.
settled == [r \in Nodes |-> IF r \in pending THEN Len(replica[r].log) - 1
                                             ELSE Len(replica[r].log)]

\* The target of a CatchUp that may have rolled it back.
Rewritten(r) == catchUp # NoCatchUp /\ catchUp.pc # "target" /\ catchUp.target = r

Replicas(last) == [log : Seq(1..last), committed : Nat, floor : Nat]
Primaries ==
    [pc : Busy \union {"none", "idle"}, term : Nat, offset : Nat, mutation : Nat,
     asked : SUBSET Nodes, acknowledged : SUBSET Nodes]
CatchUps(last) ==
    [pc : {"target", "rollback", "source", "append", "snapshot", "install"},
     source : Nodes, target : Nodes, goal : Nat, from : Nat, entries : Seq(1..last)]
Typed ==
    /\ replica \in [Nodes -> Replicas(writes)]
    /\ primary \in [Nodes -> Primaries]
    /\ catchUp # NoCatchUp => catchUp \in CatchUps(writes)
    /\ writes \in Nat
    /\ refused \subseteq 1..writes

\* One Write at a time, and none during a CatchUp.
Exclusive ==
    /\ \A m, n \in Nodes : primary[m].pc \in Busy /\ primary[n].pc \in Busy => m = n
    /\ \A n \in Nodes : primary[n].pc \in Busy => catchUp = NoCatchUp

\* What is committed is settled, and what is settled is committed somewhere.
Committal ==
    /\ \A r \in Nodes : replica[r].committed =< settled[r]
    /\ \A r \in Nodes : \E s \in Nodes : settled[r] =< replica[s].committed

\* Settled entries are the same everywhere ...
Agreed ==
    \A r, s \in Nodes : \A i \in 1..settled[r] :
        i =< settled[s] => replica[r].log[i] = replica[s].log[i]

\* ... and are on a majority, the target of a CatchUp included.
Backers(i) == {r \in Nodes : i =< settled[r] \/ Rewritten(r)}
Backed == \A r \in Nodes : \A i \in 1..settled[r] : Cardinality(Backers(i)) >= Quorum

\* A refused mutation is not settled.
Unrefused == \A r \in Nodes : \A i \in 1..settled[r] : replica[r].log[i] \notin refused

\* An acknowledged mutation is committed.
Recorded ==
    \A a \in acked : \E r \in Nodes : /\ a[1] \in 1..replica[r].committed
                                      /\ replica[r].log[a[1]] = a[2]

\* A Write: its entry is the last one of the replicas that acknowledged it, and
\* is not settled anywhere before it is committed.
WriteInv(n) ==
    /\ primary[n].pc \in Busy =>
          primary[n].mutation \in (1..writes) \ refused /\ primary[n].offset >= 1
    /\ primary[n].pc \in {"local"} \union Undecided =>
          \A r \in Nodes : \A i \in 1..settled[r] : replica[r].log[i] # primary[n].mutation
    /\ primary[n].pc = "local" => primary[n].offset = Len(replica[n].log) + 1
    /\ primary[n].pc \in Undecided \union {"peers"} =>
          \A r \in primary[n].acknowledged :
              /\ Len(replica[r].log) = primary[n].offset
              /\ replica[r].log[primary[n].offset] = primary[n].mutation
    /\ primary[n].pc \in {"asking", "commit"} => n \in primary[n].acknowledged
    /\ primary[n].pc = "asking" => primary[n].asked \intersect primary[n].acknowledged = {}
    /\ primary[n].pc = "commit" => Cardinality(primary[n].acknowledged) >= Quorum
    /\ primary[n].pc = "peers" =>
          /\ n \notin primary[n].acknowledged
          /\ replica[n].committed = primary[n].offset
          /\ replica[n].log[primary[n].offset] = primary[n].mutation

\* A CatchUp: its source has all that is settled; what the target still lacks
\* is what the CatchUp will copy.
CatchUpInv ==
    LET s == replica[catchUp.source]
        t == replica[catchUp.target]
    IN  catchUp # NoCatchUp =>
          /\ catchUp.source # catchUp.target
          /\ catchUp.goal = s.committed
          /\ \A r \in Nodes : Len(replica[r].log) =< catchUp.goal
          /\ catchUp.pc = "rollback" => catchUp.from = t.committed
          /\ catchUp.pc \in {"source", "snapshot", "append"} => catchUp.from = Len(t.log)
          /\ catchUp.pc \in {"source", "snapshot"} => catchUp.from =< catchUp.goal
          /\ catchUp.pc = "append" =>
                /\ catchUp.from + Len(catchUp.entries) = catchUp.goal
                /\ \A i \in 1..Len(catchUp.entries) :
                      catchUp.entries[i] = s.log[catchUp.from + i]
          /\ catchUp.pc = "install" =>
                /\ Len(catchUp.entries) = catchUp.goal
                /\ \A i \in 1..catchUp.goal : catchUp.entries[i] = s.log[i]

LogInv ==
    /\ Typed /\ Exclusive /\ Committal /\ Agreed /\ Backed /\ Unrefused /\ Recorded
    /\ \A n \in Nodes : WriteInv(n)
    /\ CatchUpInv

-----------------------------------------------------------------------------
(* The election.                                                           *)

LEMMA ElectionStarts == Init => ElectionInv
  <1> SUFFICES ASSUME Init PROVE ElectionInv
    OBVIOUS
  <1>1. current.term = 0 /\ MaxTerm \in Nat
    BY ReplicationAssumption DEF Init
  <1>2. terms = [t \in 0..MaxTerm |-> {}]
    BY DEF Init
  <1> QED
    BY <1>1, <1>2 DEF ElectionInv

\* A grant of the current term to the current node, or of the next term.
LEMMA GrantKeepsElection ==
    ASSUME ElectionInv, NEW n \in Nodes, NEW t \in 0..MaxTerm, Grant(n, t),
           \/ t = current.term /\ n = current.node
           \/ t = current.term + 1
    PROVE  ElectionInv'
  <1>1. current'.node = n /\ current'.term = t
    BY DEF Grant
  <1>2. terms \in [0..MaxTerm -> SUBSET Nodes] /\ current.term \in 0..MaxTerm
    BY DEF ElectionInv
  <1>3. terms' \in [0..MaxTerm -> SUBSET Nodes]
    BY <1>2 DEF Grant
  <1>4. terms'[t] = terms[t] \union {n}
    BY <1>2 DEF Grant
  <1>5. \A u \in 0..MaxTerm : u # t => terms'[u] = terms[u]
    BY <1>2 DEF Grant
  <1>6. terms[t] \subseteq {n}
    BY <1>2, ReplicationAssumption DEF ElectionInv
  <1>7. \A u \in 0..MaxTerm : u > t => u > current.term
    BY <1>2, ReplicationAssumption
  <1> QED
    BY <1>1, <1>2, <1>3, <1>4, <1>5, <1>6, <1>7 DEF ElectionInv

LEMMA ElectionKept ==
    ASSUME ElectionInv, [Next]_vars
    PROVE  ElectionInv'
  <1>1. ASSUME NEW n \in Nodes, Campaign(n)
        PROVE  ElectionInv'
    <2>1. current.term \in 0..MaxTerm
      BY DEF ElectionInv
    <2>2. CASE current.node = n /\ Grant(n, current.term)
      BY <2>1, <2>2, GrantKeepsElection
    <2>3. CASE current.term < MaxTerm /\ Grant(n, current.term + 1)
      <3>1. current.term + 1 \in 0..MaxTerm
        BY <2>1, <2>3, ReplicationAssumption
      <3> QED
        BY <2>3, <3>1, GrantKeepsElection
    <2> QED
      BY <1>1, <2>2, <2>3 DEF Campaign
  <1>2. ASSUME NEW n \in Nodes, Renew(n)
        PROVE  ElectionInv'
    <2>1. current.term \in 0..MaxTerm /\ current.node = n /\ Grant(n, current.term)
      BY <1>2 DEF ElectionInv, Renew
    <2> QED
      BY <2>1, GrantKeepsElection
  <1>3. CASE Expires
    <2>1. terms' = terms /\ current'.term = current.term /\ current'.node = current.node
      BY <1>3 DEF Expires
    <2> QED
      BY <2>1 DEF ElectionInv
  <1>4. CASE UNCHANGED electionVars
    BY <1>4 DEF ElectionInv, electionVars
  <1>5. ASSUME NEW n \in Nodes,
               \/ NewPrimary(n) \/ Write(n) \/ AppendsLocally(n) \/ Decides(n) \/ Refuses(n)
               \/ CommitsLocally(n) \/ Acknowledges(n) \/ PrimaryEnds(n) \/ Compacts(n)
        PROVE  UNCHANGED electionVars
    BY <1>5 DEF NewPrimary, Write, AppendsLocally, Decides, Refuses, CommitsLocally,
                Acknowledges, PrimaryEnds, Compacts
  <1>6. ASSUME NEW n \in Nodes, NEW r \in Nodes,
               \/ AppendsAtPeer(n, r) \/ RollsBack(n, r) \/ CommitsAtPeer(n, r)
               \/ CatchUpStarts(n, r)
        PROVE  UNCHANGED electionVars
    BY <1>6 DEF AppendsAtPeer, RollsBack, CommitsAtPeer, CatchUpStarts
  <1>7. ASSUME \/ CatchUpReadsTarget \/ CatchUpRollsBack \/ CatchUpReadsSource
               \/ CatchUpReadsSnapshot \/ CatchUpInstalls \/ CatchUpAppends
               \/ CatchUpCommits \/ CatchUpFails \/ UNCHANGED vars
        PROVE  UNCHANGED electionVars
    BY <1>7 DEF CatchUpReadsTarget, CatchUpRollsBack, CatchUpReadsSource,
                CatchUpReadsSnapshot, CatchUpInstalls, CatchUpAppends, CatchUpCommits,
                CatchUpFails, vars
  <1> QED
    BY <1>1, <1>2, <1>3, <1>4, <1>5, <1>6, <1>7 DEF Next

\* No term is granted to two nodes: for every number of nodes and terms and
\* with every fault, also when a call of the election read the clock long before
\* it took the lock.
THEOREM OneLeader == Spec => []OneLeaderPerTerm
  <1>1. ElectionInv => OneLeaderPerTerm
    <2> SUFFICES ASSUME ElectionInv, NEW t \in 0..MaxTerm
                 PROVE  Cardinality(terms[t]) =< 1
      BY DEF OneLeaderPerTerm
    <2>1. CASE terms[t] = {}
      BY <2>1, FS_EmptySet
    <2>2. CASE \E n \in terms[t] : TRUE
      <3> PICK n \in terms[t] : TRUE
        BY <2>2
      <3>1. terms[t] = {n}
        BY DEF ElectionInv
      <3>2. Cardinality({n}) = 1
        BY FS_Singleton, Zenon
      <3> QED
        BY <3>1, <3>2
    <2> QED
      BY <2>1, <2>2
  <1> QED
    BY <1>1, ElectionStarts, ElectionKept, PTL DEF Spec

-----------------------------------------------------------------------------
(* Facts about the operators.                                              *)

LEMMA MinOfTwo ==
    ASSUME NEW a \in Int, NEW b \in Int
    PROVE  Min({a, b}) = IF a =< b THEN a ELSE b
  <1> DEFINE m == IF a =< b THEN a ELSE b
  <1>1. m \in {a, b} /\ \A y \in {a, b} : m =< y
    OBVIOUS
  <1>2. \A x \in {a, b} : (\A y \in {a, b} : x =< y) => x = m
    OBVIOUS
  <1>3. Min({a, b}) = CHOOSE x \in {a, b} : \A y \in {a, b} : x =< y
    BY DEF Min
  <1> HIDE DEF m
  <1>4. (CHOOSE x \in {a, b} : \A y \in {a, b} : x =< y) = m
    BY <1>1, <1>2
  <1> QED
    BY <1>3, <1>4 DEF m

\* Two sets of at least a quorum have a node in common.
LEMMA QuorumsMeet ==
    ASSUME NEW S \in SUBSET Nodes, NEW T \in SUBSET Nodes,
           Cardinality(S) >= Quorum, Cardinality(T) >= Quorum
    PROVE  \E r \in S : r \in T
  <1>1. /\ IsFiniteSet(Nodes) /\ IsFiniteSet(S) /\ IsFiniteSet(T) /\ IsFiniteSet(S \union T)
        /\ IsFiniteSet(S \intersect T)
    <2>1. \A U \in SUBSET Nodes : IsFiniteSet(U)
      BY FS_Subset, ReplicationAssumption
    <2> QED
      BY <2>1, ReplicationAssumption
  <1>2. /\ Cardinality(Nodes) \in Nat /\ Cardinality(S) \in Nat /\ Cardinality(T) \in Nat
        /\ Cardinality(S \intersect T) \in Nat
    BY <1>1, FS_CardinalityType
  <1>3. Cardinality(S \union T) = Cardinality(S) + Cardinality(T) - Cardinality(S \intersect T)
    BY <1>1, FS_Union
  <1>4. Cardinality(S \union T) =< Cardinality(Nodes)
    <2>1. S \union T \in SUBSET Nodes
      OBVIOUS
    <2> QED
      BY <1>1, <2>1, FS_Subset
  <1>5. \A k \in Nat : (k \div 2 + 1) + (k \div 2 + 1) > k
    OBVIOUS
  <1>6. Cardinality(S \intersect T) # 0
    BY <1>2, <1>3, <1>4, <1>5 DEF Quorum
  <1>7. S \intersect T # {}
    BY <1>6, FS_EmptySet
  <1> QED
    BY <1>7

LEMMA MoreIsQuorum ==
    ASSUME NEW S \in SUBSET Nodes, NEW T \in SUBSET Nodes, S \subseteq T,
           Cardinality(S) >= Quorum
    PROVE  Cardinality(T) >= Quorum
  <1>1. IsFiniteSet(Nodes) /\ IsFiniteSet(T) /\ IsFiniteSet(S)
    BY FS_Subset, ReplicationAssumption
  <1>2. Cardinality(S) =< Cardinality(T)
    BY <1>1, FS_Subset
  <1>3. Cardinality(S) \in Nat /\ Cardinality(T) \in Nat /\ Cardinality(Nodes) \in Nat
    BY <1>1, FS_CardinalityType
  <1>4. Quorum \in Int
    BY <1>3 DEF Quorum
  <1> QED
    BY <1>2, <1>3, <1>4

LEMMA ElementOf ==
    ASSUME NEW S, NEW s \in Seq(S), NEW i \in 1..Len(s)
    PROVE  s[i] \in S
  OBVIOUS

LEMMA SubSeqIs ==
    ASSUME NEW S, NEW s \in Seq(S), NEW a \in Nat, NEW b \in Nat, a =< b, b =< Len(s)
    PROVE  /\ SubSeq(s, a + 1, b) \in Seq(S)
           /\ Len(SubSeq(s, a + 1, b)) = b - a
           /\ \A i \in 1..(b - a) : SubSeq(s, a + 1, b)[i] = s[a + i]
  <1>1. \A i \in (a + 1)..b : s[i] \in S
    OBVIOUS
  <1>2. SubSeq(s, a + 1, b) \in Seq(S) /\ Len(SubSeq(s, a + 1, b)) = b - a
    BY <1>1
  <1>3. \A i \in 1..(b - a) : SubSeq(s, a + 1, b)[i] = s[(a + 1) + i - 1]
    OBVIOUS
  <1>4. \A i \in 1..(b - a) : (a + 1) + i - 1 = a + i
    OBVIOUS
  <1> QED
    BY <1>2, <1>3, <1>4

LEMMA PrefixIs ==
    ASSUME NEW S, NEW s \in Seq(S), NEW b \in Nat, b =< Len(s)
    PROVE  /\ SubSeq(s, 1, b) \in Seq(S)
           /\ Len(SubSeq(s, 1, b)) = b
           /\ \A i \in 1..b : SubSeq(s, 1, b)[i] = s[i]
  OBVIOUS

LEMMA AppendedIs ==
    ASSUME NEW last \in Nat, NEW rep \in Replicas(last), NEW m \in 1..last
    PROVE  /\ Appended(rep, m) \in Replicas(last)
           /\ Appended(rep, m).committed = rep.committed
           /\ Len(Appended(rep, m).log) = Len(rep.log) + 1
           /\ \A i \in 1..Len(rep.log) : Appended(rep, m).log[i] = rep.log[i]
           /\ Appended(rep, m).log[Len(rep.log) + 1] = m
  <1>1. rep.log \in Seq(1..last) /\ rep.committed \in Nat /\ rep.floor \in Nat
    BY DEF Replicas
  <1>2. Append(rep.log, m) \in Seq(1..last)
    BY <1>1
  <1>3. /\ Appended(rep, m) \in Replicas(last)
        /\ Appended(rep, m).committed = rep.committed
        /\ Appended(rep, m).log = Append(rep.log, m)
    BY <1>2 DEF Appended, Replicas
  <1> QED
    BY <1>1, <1>3

LEMMA CommittedIs ==
    ASSUME NEW last \in Nat, NEW rep \in Replicas(last), NEW offset \in Nat
    PROVE  /\ Committed(rep, offset) \in Replicas(last)
           /\ Committed(rep, offset).committed = offset
           /\ Committed(rep, offset).log = rep.log
  BY DEF Committed, Replicas

LEMMA RolledbackIs ==
    ASSUME NEW last \in Nat, NEW rep \in Replicas(last), NEW offset \in Nat, offset >= 1,
           offset - 1 =< Len(rep.log)
    PROVE  /\ Rolledback(rep, offset) \in Replicas(last)
           /\ Rolledback(rep, offset).committed = rep.committed
           /\ Len(Rolledback(rep, offset).log) = offset - 1
           /\ \A i \in 1..(offset - 1) : Rolledback(rep, offset).log[i] = rep.log[i]
  <1>1. rep.log \in Seq(1..last) /\ Len(rep.log) \in Nat
    BY DEF Replicas
  <1>2. Min({offset - 1, Len(rep.log)}) = offset - 1
    BY <1>1, MinOfTwo
  <1>3. SubSeq(rep.log, 1, offset - 1) \in Seq(1..last)
    BY <1>1
  <1>4. /\ Rolledback(rep, offset) \in Replicas(last)
        /\ Rolledback(rep, offset).committed = rep.committed
        /\ Rolledback(rep, offset).log = SubSeq(rep.log, 1, offset - 1)
    BY <1>2, <1>3 DEF Rolledback, appliedOffsetLocked, Replicas
  <1> QED
    BY <1>1, <1>4

-----------------------------------------------------------------------------
(* What a step keeps when it leaves the settled entries alone.             *)

LEMMA SettledIsInt ==
    ASSUME Typed
    PROVE  /\ settled \in [Nodes -> Int]
           /\ \A r \in Nodes : /\ Len(replica[r].log) \in Nat
                               /\ replica[r].committed \in Nat
                               /\ replica[r].log \in Seq(1..writes)
           /\ \A r \in Nodes : settled[r] \in Int /\ settled[r] =< Len(replica[r].log)
  <1>1. \A r \in Nodes : /\ Len(replica[r].log) \in Nat
                         /\ replica[r].committed \in Nat
                         /\ replica[r].log \in Seq(1..writes)
    BY DEF Typed, Replicas
  <1> QED
    BY <1>1 DEF settled

\* The only Write that runs is the one whose entry is pending.
LEMMA PendingOfOne ==
    ASSUME NEW p, NEW n \in Nodes, p[n].acknowledged \subseteq Nodes,
           \A m \in Nodes \ {n} : p[m].pc \notin Busy
    PROVE  PendingIn(p) = IF p[n].pc \in Undecided THEN p[n].acknowledged ELSE {}
  <1>1. \A m \in Nodes \ {n} : p[m].pc \notin Undecided
    BY DEF Busy
  <1> QED
    BY <1>1 DEF PendingIn

LEMMA PendingOfNone ==
    ASSUME NEW p, \A n \in Nodes : p[n].pc \notin Busy
    PROVE  PendingIn(p) = {}
  BY DEF PendingIn, Busy

SettledSame ==
    /\ settled' = settled
    /\ \A r \in Nodes : replica'[r].committed = replica[r].committed
    /\ \A r \in Nodes : \A i \in 1..settled[r] : replica'[r].log[i] = replica[r].log[i]

\* No committed entry is taken away or replaced.
CommitsKept ==
    \A r \in Nodes : /\ replica[r].committed =< replica'[r].committed
                     /\ \A i \in 1..replica[r].committed : replica'[r].log[i] = replica[r].log[i]

LEMMA SettledSameKeepsCommits ==
    ASSUME Typed, SettledSame, Committal
    PROVE  CommitsKept
  <1> SUFFICES ASSUME NEW r \in Nodes
               PROVE  /\ replica[r].committed =< replica'[r].committed
                      /\ \A i \in 1..replica[r].committed : replica'[r].log[i] = replica[r].log[i]
    BY DEF CommitsKept
  <1>1. /\ replica[r].committed \in Nat /\ settled[r] \in Int
        /\ replica[r].committed =< settled[r]
    BY SettledIsInt DEF Committal
  <1>2. \A i \in 1..replica[r].committed : i \in 1..settled[r]
    BY <1>1
  <1> QED
    BY <1>1, <1>2 DEF SettledSame

LEMMA SettledSameKeeps ==
    ASSUME Typed, SettledSame, Committal, Agreed
    PROVE  Committal' /\ Agreed'
  <1>1. Committal'
    BY DEF SettledSame, Committal
  <1>2. Agreed'
    BY SettledIsInt DEF SettledSame, Agreed
  <1> QED
    BY <1>1, <1>2

\* More replicas count for an entry than before.
LEMMA BackedKept ==
    ASSUME Backed, settled' = settled, \A r \in Nodes : Rewritten(r) => Rewritten(r)'
    PROVE  Backed'
  <1> SUFFICES ASSUME NEW r \in Nodes, NEW i \in 1..settled[r]
               PROVE  Cardinality(Backers(i)') >= Quorum
    BY DEF Backed
  <1>1. Backers(i) \in SUBSET Nodes /\ Backers(i)' \in SUBSET Nodes
    BY DEF Backers
  <1>2. Backers(i) \subseteq Backers(i)'
    BY DEF Backers
  <1>3. Cardinality(Backers(i)) >= Quorum
    BY DEF Backed
  <1> QED
    BY <1>1, <1>2, <1>3, MoreIsQuorum

LEMMA RecordedKept ==
    ASSUME Typed, Committal, Recorded, SettledSame, acked' = acked
    PROVE  Recorded'
  <1> SUFFICES ASSUME NEW a \in acked
               PROVE  \E r \in Nodes : /\ a[1] \in 1..replica'[r].committed
                                       /\ replica'[r].log[a[1]] = a[2]
    BY DEF Recorded
  <1>1. PICK r \in Nodes : a[1] \in 1..replica[r].committed /\ replica[r].log[a[1]] = a[2]
    BY DEF Recorded
  <1>2. settled[r] \in Int /\ replica[r].committed \in Nat /\ replica[r].committed =< settled[r]
    BY SettledIsInt DEF Committal
  <1>3. a[1] \in 1..settled[r]
    BY <1>1, <1>2
  <1> QED
    BY <1>1, <1>3 DEF SettledSame

LEMMA UnrefusedKept ==
    ASSUME Unrefused, SettledSame, refused' = refused
    PROVE  Unrefused'
  BY DEF Unrefused, SettledSame

\* The rest of the invariant after a step of the only Write.
LEMMA OnlyWriter ==
    ASSUME NEW n \in Nodes, catchUp' = NoCatchUp,
           \A m \in Nodes \ {n} : primary'[m].pc \notin Busy
    PROVE  Exclusive' /\ CatchUpInv' /\ \A m \in Nodes \ {n} : WriteInv(m)'
  <1>1. Exclusive'
    BY DEF Exclusive
  <1>2. CatchUpInv'
    BY DEF CatchUpInv, NoCatchUp
  <1>3. ASSUME NEW m \in Nodes \ {n}
        PROVE  WriteInv(m)'
    BY DEF WriteInv, Busy, Undecided
  <1> QED
    BY <1>1, <1>2, <1>3

-----------------------------------------------------------------------------
(* The steps of a Write.                                                   *)

\* While a Write runs, nothing else touches a replica.
LEMMA WriterAlone ==
    ASSUME LogInv, NEW n \in Nodes, primary[n].pc \in Busy
    PROVE  /\ catchUp = NoCatchUp
           /\ \A m \in Nodes \ {n} : primary[m].pc \notin Busy
           /\ pending = IF primary[n].pc \in Undecided THEN primary[n].acknowledged ELSE {}
  <1>1. catchUp = NoCatchUp /\ \A m \in Nodes \ {n} : primary[m].pc \notin Busy
    BY DEF LogInv, Exclusive
  <1>2. primary[n].acknowledged \subseteq Nodes
    BY DEF LogInv, Typed, Primaries
  <1> QED
    BY <1>1, <1>2, PendingOfOne DEF pending

LEMMA NobodyWrites ==
    ASSUME LogInv, ~ Writing
    PROVE  /\ \A n \in Nodes : primary[n].pc \notin Busy
           /\ pending = {}
  <1>1. \A n \in Nodes : primary[n].pc \notin Busy
    BY DEF Writing, Busy, Undecided
  <1> QED
    BY <1>1, PendingOfNone DEF pending

\* A step of the only Write that leaves the settled entries alone.
LEMMA QuietStep ==
    ASSUME LogInv, NEW n \in Nodes, Typed', SettledSame, WriteInv(n)',
           catchUp = NoCatchUp, catchUp' = catchUp, acked' = acked, refused' = refused,
           \A m \in Nodes \ {n} : primary'[m].pc \notin Busy
    PROVE  LogInv' /\ CommitsKept
  <1>1. /\ Typed /\ Committal /\ Agreed /\ Backed /\ Unrefused /\ Recorded
    BY DEF LogInv
  <1>2. Committal' /\ Agreed'
    BY <1>1, SettledSameKeeps
  <1>3. Backed'
    <2>1. settled' = settled
      BY DEF SettledSame
    <2>2. \A r \in Nodes : ~ Rewritten(r)
      BY DEF Rewritten
    <2> QED
      BY <1>1, <2>1, <2>2, BackedKept
  <1>4. Unrefused' /\ Recorded'
    BY <1>1, UnrefusedKept, RecordedKept
  <1>5. Exclusive' /\ CatchUpInv' /\ \A m \in Nodes \ {n} : WriteInv(m)'
    BY OnlyWriter
  <1>6. CommitsKept
    BY <1>1, SettledSameKeepsCommits
  <1> QED
    BY <1>2, <1>3, <1>4, <1>5, <1>6 DEF LogInv

LEMMA WriteStep ==
    ASSUME LogInv, NEW n \in Nodes, Write(n), faults' = {}
    PROVE  LogInv' /\ CommitsKept
  <1> DEFINE p == primary[n]
             q == primary'[n]
  <1>1. ~ Writing /\ catchUp = NoCatchUp
    BY DEF Write, Happens, If
  <1>2. /\ replica' = replica /\ catchUp' = catchUp /\ acked' = acked /\ refused' = refused
        /\ writes' = writes + 1
        /\ p.pc = "idle"
    BY DEF Write
  <1>3. /\ Typed /\ writes \in Nat /\ replica \in [Nodes -> Replicas(writes)]
        /\ primary \in [Nodes -> Primaries] /\ p \in Primaries /\ refused \subseteq 1..writes
    BY DEF LogInv, Typed
  <1>4. Len(replica[n].log) \in Nat
    BY <1>3, SettledIsInt
  <1>5. /\ q = [p EXCEPT !.pc = "local", !.mutation = writes + 1,
                         !.offset = Len(replica[n].log) + 1]
        /\ \A m \in Nodes \ {n} : primary'[m] = primary[m]
    BY <1>3 DEF Write, Goes, appliedOffsetLocked
  <1> HIDE DEF p, q
  <1>6. /\ q \in Primaries
        /\ q.pc = "local" /\ q.mutation = writes + 1 /\ q.offset = Len(replica[n].log) + 1
    <2>1. writes + 1 \in Nat /\ Len(replica[n].log) + 1 \in Nat
      BY <1>3, <1>4
    <2> QED
      BY <1>3, <1>5, <2>1 DEF Primaries, Busy
  <1>7. primary' \in [Nodes -> Primaries]
    BY <1>3, <1>6 DEF Write, Goes, appliedOffsetLocked, p, q
  <1>8. pending = {} /\ \A m \in Nodes : primary[m].pc \notin Busy
    BY <1>1, NobodyWrites
  <1>9. pending' = {}
    <2>1. \A m \in Nodes : primary'[m].pc \notin Undecided
      BY <1>5, <1>6, <1>8 DEF Busy, Undecided, q
    <2> QED
      BY <2>1 DEF pending, PendingIn
  <1>10. SettledSame
    BY <1>2, <1>8, <1>9 DEF SettledSame, settled
  <1>11. Typed'
    <2>1. Seq(1..writes) \subseteq Seq(1..(writes + 1))
      BY <1>3
    <2>2. Replicas(writes) \subseteq Replicas(writes')
      BY <1>2, <2>1 DEF Replicas
    <2>3. replica' \in [Nodes -> Replicas(writes')]
      BY <1>2, <1>3, <2>2
    <2>4. refused' \subseteq 1..writes' /\ writes' \in Nat
      BY <1>2, <1>3
    <2> QED
      BY <1>1, <1>2, <1>7, <2>3, <2>4 DEF Typed
  <1>12. WriteInv(n)'
    <2>1. \A r \in Nodes : \A i \in 1..settled[r] : replica[r].log[i] # writes + 1
      <3> SUFFICES ASSUME NEW r \in Nodes, NEW i \in 1..settled[r]
                   PROVE  replica[r].log[i] # writes + 1
        OBVIOUS
      <3>1. /\ replica[r].log \in Seq(1..writes) /\ settled[r] \in Int
            /\ settled[r] =< Len(replica[r].log) /\ Len(replica[r].log) \in Nat
        BY <1>3, SettledIsInt
      <3>2. i \in 1..Len(replica[r].log)
        BY <3>1
      <3>3. replica[r].log[i] \in 1..writes
        BY <3>1, <3>2, ElementOf
      <3> QED
        BY <1>3, <3>3
    <2>2. \A r \in Nodes : \A i \in 1..settled'[r] : replica'[r].log[i] # q.mutation
      BY <1>2, <1>6, <1>10, <2>1 DEF SettledSame
    <2>3. q.mutation \in (1..writes') \ refused' /\ q.offset >= 1
      BY <1>2, <1>3, <1>4, <1>6
    <2>4. q.offset = Len(replica'[n].log) + 1
      BY <1>2, <1>6
    <2> QED
      BY <1>6, <2>2, <2>3, <2>4 DEF WriteInv, Undecided, q
  <1> QED
    <2>1. \A m \in Nodes \ {n} : primary'[m].pc \notin Busy
      BY <1>5, <1>8
    <2> QED
      BY <1>1, <1>2, <1>10, <1>11, <1>12, <2>1, QuietStep

LEMMA GoesIs ==
    ASSUME primary \in [Nodes -> Primaries], NEW n \in Nodes, NEW q \in Primaries, Goes(n, q)
    PROVE  /\ primary' \in [Nodes -> Primaries]
           /\ primary'[n] = q
           /\ \A m \in Nodes \ {n} : primary'[m] = primary[m]
  BY DEF Goes

LEMMA IdleIsPrimary ==
    ASSUME NEW term \in Nat
    PROVE  Idle(term) \in Primaries /\ Idle(term).pc = "idle"
  BY DEF Idle, Primaries

LEMMA NoPrimaryIsPrimary == NoPrimary \in Primaries /\ NoPrimary.pc = "none"
  <1>1. Idle(0) \in Primaries
    BY IdleIsPrimary
  <1> QED
    BY <1>1 DEF NoPrimary, Primaries

\* A Write that ends leaves the settled entries alone when its entry is on no
\* replica any more, or is settled.
LEMMA WriteEnds ==
    ASSUME LogInv, NEW n \in Nodes, NEW q \in Primaries, Goes(n, q), q.pc \in {"none", "idle"},
           pending = {}, replica' = replica, writes' = writes, refused' = refused,
           catchUp = NoCatchUp, catchUp' = catchUp,
           \A m \in Nodes \ {n} : primary[m].pc \notin Busy
    PROVE  /\ Typed' /\ SettledSame /\ WriteInv(n)'
           /\ \A m \in Nodes \ {n} : primary'[m].pc \notin Busy
  <1>1. Typed
    BY DEF LogInv
  <1>2. /\ primary' \in [Nodes -> Primaries]
        /\ primary'[n] = q
        /\ \A m \in Nodes \ {n} : primary'[m] = primary[m]
    BY <1>1, GoesIs DEF Typed
  <1>3. q.pc \notin Busy
    BY DEF Busy, Undecided
  <1>4. pending' = {}
    <2>1. \A m \in Nodes : primary'[m].pc \notin Busy
      BY <1>2, <1>3
    <2> QED
      BY <2>1, PendingOfNone DEF pending
  <1>5. Typed'
    BY <1>1, <1>2 DEF Typed
  <1>6. SettledSame
    BY <1>4 DEF SettledSame, settled
  <1>7. WriteInv(n)'
    BY <1>2, <1>3 DEF WriteInv, Busy, Undecided
  <1> QED
    BY <1>2, <1>5, <1>6, <1>7

LEMMA AppendsLocallyStep ==
    ASSUME LogInv, NEW n \in Nodes, AppendsLocally(n)
    PROVE  LogInv' /\ CommitsKept
  <1>1. /\ Typed /\ writes \in Nat /\ replica \in [Nodes -> Replicas(writes)]
        /\ primary \in [Nodes -> Primaries] /\ primary[n] \in Primaries
        /\ replica[n] \in Replicas(writes) /\ WriteInv(n)
    BY DEF LogInv, Typed
  <1>2. /\ primary[n].pc = "local" /\ catchUp' = catchUp
        /\ acked' = acked /\ refused' = refused /\ writes' = writes
    BY DEF AppendsLocally, historyVars
  <1>3. /\ catchUp = NoCatchUp /\ pending = {}
        /\ \A m \in Nodes \ {n} : primary[m].pc \notin Busy
    BY <1>2, WriterAlone DEF Busy, Undecided
  <1>4. CASE Returns(n) /\ UNCHANGED replica
    <2>1. Idle(primary[n].term) \in Primaries /\ Idle(primary[n].term).pc = "idle"
      BY <1>1, IdleIsPrimary DEF Primaries
    <2>2. Goes(n, Idle(primary[n].term))
      BY <1>4 DEF Returns
    <2>3. /\ Typed' /\ SettledSame /\ WriteInv(n)'
          /\ \A m \in Nodes \ {n} : primary'[m].pc \notin Busy
      BY <1>2, <1>3, <1>4, <2>1, <2>2, WriteEnds
    <2> QED
      BY <1>2, <1>3, <2>3, QuietStep
  <1>5. CASE /\ CanAppend(replica[n], primary[n].offset)
             /\ replica' = [replica EXCEPT ![n] = Appended(@, primary[n].mutation)]
             /\ Goes(n, [primary[n] EXCEPT !.pc = "asking", !.asked = Peers(n),
                                           !.acknowledged = {n}])
    <2> DEFINE q == [primary[n] EXCEPT !.pc = "asking", !.asked = Peers(n),
                                       !.acknowledged = {n}]
               m == primary[n].mutation
    <2>1. /\ q \in Primaries /\ q.pc = "asking" /\ q.asked = Peers(n) /\ q.acknowledged = {n}
          /\ q.mutation = m /\ q.offset = primary[n].offset
      BY <1>1 DEF Primaries, Peers, Busy, Undecided
    <2>2. Goes(n, q)
      BY <1>5
    <2> HIDE DEF q
    <2>3. /\ primary' \in [Nodes -> Primaries] /\ primary'[n] = q
          /\ \A k \in Nodes \ {n} : primary'[k] = primary[k]
      BY <1>1, <2>1, <2>2, GoesIs
    <2>4. /\ m \in (1..writes) \ refused /\ primary[n].offset = Len(replica[n].log) + 1
          /\ \A r \in Nodes : \A i \in 1..settled[r] : replica[r].log[i] # m
      BY <1>1, <1>2 DEF WriteInv, Busy
    <2>5. /\ replica' \in [Nodes -> Replicas(writes)]
          /\ replica'[n] = Appended(replica[n], m)
          /\ \A r \in Nodes \ {n} : replica'[r] = replica[r]
      <3>1. Appended(replica[n], m) \in Replicas(writes)
        BY <1>1, <2>4, AppendedIs
      <3> QED
        BY <1>1, <1>5, <3>1
    <2>6. /\ replica'[n].committed = replica[n].committed
          /\ Len(replica'[n].log) = Len(replica[n].log) + 1
          /\ \A i \in 1..Len(replica[n].log) : replica'[n].log[i] = replica[n].log[i]
          /\ replica'[n].log[Len(replica[n].log) + 1] = m
      BY <1>1, <2>4, <2>5, AppendedIs
    <2>7. pending' = {n}
      <3>1. \A k \in Nodes \ {n} : primary'[k].pc \notin Busy
        BY <1>3, <2>3
      <3> QED
        BY <2>1, <2>3, <3>1, PendingOfOne DEF pending, Undecided
    <2>8. SettledSame
      <3>1. \A r \in Nodes : settled[r] = Len(replica[r].log) /\ Len(replica[r].log) \in Nat
        BY <1>1, <1>3, SettledIsInt DEF settled
      <3>2. \A r \in Nodes \ {n} : settled'[r] = settled[r]
        BY <2>5, <2>7, <3>1 DEF settled
      <3>3. settled'[n] = settled[n]
        <4>1. settled'[n] = Len(replica'[n].log) - 1
          BY <2>7 DEF settled
        <4> QED
          BY <2>6, <3>1, <4>1
      <3>4. settled' = settled
        BY <3>2, <3>3 DEF settled
      <3> QED
        BY <2>5, <2>6, <3>1, <3>4 DEF SettledSame
    <2>9. Typed'
      BY <1>1, <1>2, <1>3, <2>3, <2>5 DEF Typed
    <2>10. WriteInv(n)'
      <3>1. \A r \in Nodes : \A i \in 1..settled'[r] : replica'[r].log[i] # m
        BY <2>4, <2>8 DEF SettledSame
      <3>2. m \in (1..writes') \ refused' /\ q.offset >= 1
        <4>1. Len(replica[n].log) \in Nat
          BY <1>1, SettledIsInt
        <4> QED
          BY <1>2, <2>1, <2>4, <4>1
      <3>3. \A r \in q.acknowledged : Len(replica'[r].log) = q.offset /\ replica'[r].log[q.offset] = m
        BY <2>1, <2>4, <2>6
      <3>4. n \in q.acknowledged /\ q.asked \intersect q.acknowledged = {}
        BY <2>1 DEF Peers
      <3> QED
        BY <2>1, <2>3, <3>1, <3>2, <3>3, <3>4 DEF WriteInv, Undecided
    <2> QED
      <3>1. \A k \in Nodes \ {n} : primary'[k].pc \notin Busy
        BY <1>3, <2>3
      <3> QED
        BY <1>2, <1>3, <2>8, <2>9, <2>10, <3>1, QuietStep
  <1> QED
    BY <1>4, <1>5 DEF AppendsLocally

\* A step that touches one replica and leaves its settled entries alone.
LEMMA OneReplicaSame ==
    ASSUME NEW r \in Nodes,
           \A s \in Nodes \ {r} : replica'[s] = replica[s] /\ (s \in pending' <=> s \in pending),
           settled'[r] = settled[r], replica'[r].committed = replica[r].committed,
           \A i \in 1..settled[r] : replica'[r].log[i] = replica[r].log[i]
    PROVE  SettledSame
  <1>1. \A s \in Nodes \ {r} : settled'[s] = settled[s]
    BY DEF settled
  <1>2. settled' = settled
    BY <1>1 DEF settled
  <1> QED
    BY <1>2 DEF SettledSame

LEMMA AppendsAtPeerStep ==
    ASSUME LogInv, NEW n \in Nodes, NEW r \in Nodes, AppendsAtPeer(n, r), faults' = {}
    PROVE  LogInv' /\ CommitsKept
  <1> DEFINE m == primary[n].mutation
             answered == [primary[n] EXCEPT !.asked = @ \ {r}]
             with == [answered EXCEPT !.acknowledged = @ \union {r}]
  <1>1. /\ Typed /\ writes \in Nat /\ replica \in [Nodes -> Replicas(writes)]
        /\ primary \in [Nodes -> Primaries] /\ primary[n] \in Primaries
        /\ replica[r] \in Replicas(writes) /\ WriteInv(n)
    BY DEF LogInv, Typed
  <1>2. /\ primary[n].pc = "asking" /\ r \in primary[n].asked /\ catchUp' = catchUp
        /\ acked' = acked /\ refused' = refused /\ writes' = writes
    BY DEF AppendsAtPeer, historyVars
  <1>3. /\ catchUp = NoCatchUp /\ pending = primary[n].acknowledged
        /\ \A k \in Nodes \ {n} : primary[k].pc \notin Busy
    BY <1>2, WriterAlone DEF Busy, Undecided
  <1>4. /\ m \in (1..writes) \ refused /\ primary[n].offset >= 1
        /\ \A s \in Nodes : \A i \in 1..settled[s] : replica[s].log[i] # m
        /\ \A s \in primary[n].acknowledged : /\ Len(replica[s].log) = primary[n].offset
                                              /\ replica[s].log[primary[n].offset] = m
        /\ n \in primary[n].acknowledged
        /\ primary[n].asked \intersect primary[n].acknowledged = {}
    BY <1>1, <1>2 DEF WriteInv, Busy, Undecided
  <1>5. r \notin pending
    BY <1>2, <1>3, <1>4
  <1>6. /\ answered \in Primaries /\ answered.pc = "asking" /\ answered.asked = primary[n].asked \ {r}
        /\ answered.acknowledged = primary[n].acknowledged
        /\ answered.mutation = m /\ answered.offset = primary[n].offset
    BY <1>1, <1>2 DEF Primaries
  <1> HIDE DEF answered
  <1>7. /\ with \in Primaries /\ with.pc = "asking" /\ with.asked = primary[n].asked \ {r}
        /\ with.acknowledged = primary[n].acknowledged \union {r}
        /\ with.mutation = m /\ with.offset = primary[n].offset
    BY <1>6 DEF Primaries
  <1> HIDE DEF with
  <1>8. CASE Goes(n, answered) /\ UNCHANGED replica
    <2>1. /\ primary' \in [Nodes -> Primaries] /\ primary'[n] = answered
          /\ \A k \in Nodes \ {n} : primary'[k] = primary[k]
      BY <1>1, <1>6, <1>8, GoesIs
    <2>2. \A k \in Nodes \ {n} : primary'[k].pc \notin Busy
      BY <1>3, <2>1
    <2>3. pending' = pending
      BY <1>3, <1>6, <2>1, <2>2, PendingOfOne DEF pending, Undecided, Primaries
    <2>4. SettledSame
      BY <1>8, <2>3 DEF SettledSame, settled
    <2>5. Typed'
      BY <1>1, <1>2, <1>3, <1>8, <2>1 DEF Typed
    <2>6. WriteInv(n)'
      BY <1>2, <1>4, <1>6, <1>8, <2>1, <2>4 DEF WriteInv, Undecided, SettledSame
    <2> QED
      BY <1>2, <1>3, <2>2, <2>4, <2>5, <2>6, QuietStep
  <1>9. CASE /\ CanAppend(replica[r], primary[n].offset)
             /\ replica' = [replica EXCEPT ![r] = Appended(@, m)]
             /\ Goes(n, with)
    <2>1. /\ primary' \in [Nodes -> Primaries] /\ primary'[n] = with
          /\ \A k \in Nodes \ {n} : primary'[k] = primary[k]
      BY <1>1, <1>7, <1>9, GoesIs
    <2>2. \A k \in Nodes \ {n} : primary'[k].pc \notin Busy
      BY <1>3, <2>1
    <2>3. pending' = pending \union {r}
      BY <1>3, <1>7, <2>1, <2>2, PendingOfOne DEF pending, Undecided, Primaries
    <2>4. /\ replica' \in [Nodes -> Replicas(writes)]
          /\ replica'[r] = Appended(replica[r], m)
          /\ \A s \in Nodes \ {r} : replica'[s] = replica[s]
      <3>1. Appended(replica[r], m) \in Replicas(writes)
        BY <1>1, <1>4, AppendedIs
      <3> QED
        BY <1>1, <1>9, <3>1
    <2>5. /\ replica'[r].committed = replica[r].committed
          /\ Len(replica'[r].log) = Len(replica[r].log) + 1
          /\ \A i \in 1..Len(replica[r].log) : replica'[r].log[i] = replica[r].log[i]
          /\ replica'[r].log[Len(replica[r].log) + 1] = m
      BY <1>1, <1>4, <2>4, AppendedIs
    <2>6. primary[n].offset = Len(replica[r].log) + 1 /\ Len(replica[r].log) \in Nat
      BY <1>1, <1>9, SettledIsInt DEF CanAppend, appliedOffsetLocked
    <2>7. settled[r] = Len(replica[r].log) /\ settled'[r] = Len(replica'[r].log) - 1
      BY <1>5, <2>3 DEF settled
    <2>8. settled'[r] = settled[r]
      BY <2>5, <2>6, <2>7
    <2>9. SettledSame
      <3>1. \A s \in Nodes \ {r} : s \in pending' <=> s \in pending
        BY <2>3
      <3>2. \A i \in 1..settled[r] : replica'[r].log[i] = replica[r].log[i]
        BY <2>5, <2>7
      <3> QED
        BY <2>4, <2>5, <2>8, <3>1, <3>2, OneReplicaSame
    <2>10. Typed'
      BY <1>1, <1>2, <1>3, <2>1, <2>4 DEF Typed
    <2>11. WriteInv(n)'
      <3>1. \A s \in Nodes : \A i \in 1..settled'[s] : replica'[s].log[i] # m
        BY <1>4, <2>9 DEF SettledSame
      <3>2. m \in (1..writes') \ refused' /\ with.offset >= 1
        BY <1>2, <1>4, <1>7
      <3>3. ASSUME NEW s \in with.acknowledged
            PROVE  Len(replica'[s].log) = with.offset /\ replica'[s].log[with.offset] = m
        <4>1. CASE s = r
          BY <1>7, <2>5, <2>6, <4>1
        <4>2. CASE s # r /\ s \in primary[n].acknowledged
          <5>1. s \in Nodes \ {r}
            BY <1>1, <4>2 DEF Primaries
          <5> QED
            BY <1>4, <1>7, <2>4, <4>2, <5>1
        <4> QED
          BY <1>7, <4>1, <4>2
      <3>4. n \in with.acknowledged /\ with.asked \intersect with.acknowledged = {}
        BY <1>4, <1>7
      <3> QED
        BY <1>7, <2>1, <3>1, <3>2, <3>3, <3>4 DEF WriteInv, Undecided
    <2> QED
      BY <1>2, <1>3, <2>2, <2>9, <2>10, <2>11, QuietStep
  <1>10. ~ Happens({"lostAck"})
    BY DEF Happens
  <1> QED
    BY <1>8, <1>9, <1>10 DEF AppendsAtPeer, answered, with

LEMMA DecidesStep ==
    ASSUME LogInv, NEW n \in Nodes, Decides(n)
    PROVE  LogInv' /\ CommitsKept
  <1> DEFINE enough == Cardinality(primary[n].acknowledged) >= Quorum
             pc == IF Cardinality(primary[n].acknowledged) < Quorum THEN "rollback" ELSE "commit"
             q == [primary[n] EXCEPT !.pc = pc]
  <1>1. /\ Typed /\ writes \in Nat
        /\ primary \in [Nodes -> Primaries] /\ primary[n] \in Primaries /\ WriteInv(n)
    BY DEF LogInv, Typed
  <1>2. /\ primary[n].pc = "asking" /\ catchUp' = catchUp /\ replica' = replica
        /\ acked' = acked /\ refused' = refused /\ writes' = writes /\ Goes(n, q)
    BY DEF Decides, historyVars
  <1>3. /\ catchUp = NoCatchUp /\ pending = primary[n].acknowledged
        /\ \A k \in Nodes \ {n} : primary[k].pc \notin Busy
    BY <1>2, WriterAlone DEF Busy, Undecided
  <1>4. pc \in {"rollback", "commit"} /\ (pc = "commit" => enough)
    <2>1. Cardinality(primary[n].acknowledged) \in Nat /\ Cardinality(Nodes) \in Nat
      <3>1. primary[n].acknowledged \in SUBSET Nodes
        BY <1>1 DEF Primaries
      <3> QED
        BY <3>1, ReplicationAssumption, FS_Subset, FS_CardinalityType
    <2> QED
      BY <2>1 DEF Quorum
  <1> HIDE DEF pc
  <1>5. /\ q \in Primaries /\ q.pc = pc /\ q.acknowledged = primary[n].acknowledged
        /\ q.mutation = primary[n].mutation /\ q.offset = primary[n].offset
    BY <1>1, <1>4 DEF Primaries, Busy, Undecided
  <1> HIDE DEF q
  <1>6. /\ primary' \in [Nodes -> Primaries] /\ primary'[n] = q
        /\ \A k \in Nodes \ {n} : primary'[k] = primary[k]
    BY <1>1, <1>2, <1>5, GoesIs
  <1>7. \A k \in Nodes \ {n} : primary'[k].pc \notin Busy
    BY <1>3, <1>6
  <1>8. pending' = pending
    BY <1>3, <1>4, <1>5, <1>6, <1>7, PendingOfOne DEF pending, Undecided, Primaries
  <1>9. SettledSame
    BY <1>2, <1>8 DEF SettledSame, settled
  <1>10. Typed'
    BY <1>1, <1>2, <1>3, <1>6 DEF Typed
  <1>11. WriteInv(n)'
    <2>1. /\ primary[n].mutation \in (1..writes) \ refused /\ primary[n].offset >= 1
          /\ \A s \in Nodes : \A i \in 1..settled[s] : replica[s].log[i] # primary[n].mutation
          /\ \A s \in primary[n].acknowledged :
                /\ Len(replica[s].log) = primary[n].offset
                /\ replica[s].log[primary[n].offset] = primary[n].mutation
          /\ n \in primary[n].acknowledged
      BY <1>1, <1>2 DEF WriteInv, Busy, Undecided
    <2> QED
      BY <1>2, <1>4, <1>5, <1>6, <1>9, <2>1 DEF WriteInv, Undecided, Busy, SettledSame
  <1> QED
    BY <1>2, <1>3, <1>7, <1>9, <1>10, <1>11, QuietStep

LEMMA RollsBackStep ==
    ASSUME LogInv, NEW n \in Nodes, NEW r \in Nodes, RollsBack(n, r), faults' = {}
    PROVE  LogInv' /\ CommitsKept
  <1> DEFINE m == primary[n].mutation
             offset == primary[n].offset
             q == [primary[n] EXCEPT !.acknowledged = @ \ {r}]
  <1>1. /\ Typed /\ writes \in Nat /\ replica \in [Nodes -> Replicas(writes)]
        /\ primary \in [Nodes -> Primaries] /\ primary[n] \in Primaries
        /\ replica[r] \in Replicas(writes) /\ WriteInv(n) /\ offset \in Nat
    BY DEF LogInv, Typed, Primaries
  <1>2. /\ primary[n].pc = "rollback" /\ r \in primary[n].acknowledged /\ catchUp' = catchUp
        /\ acked' = acked /\ refused' = refused /\ writes' = writes /\ Goes(n, q)
    BY DEF RollsBack, historyVars
  <1>3. /\ catchUp = NoCatchUp /\ pending = primary[n].acknowledged
        /\ \A k \in Nodes \ {n} : primary[k].pc \notin Busy
    BY <1>2, WriterAlone DEF Busy, Undecided
  <1>4. /\ m \in (1..writes) \ refused /\ offset >= 1
        /\ \A s \in Nodes : \A i \in 1..settled[s] : replica[s].log[i] # m
        /\ \A s \in primary[n].acknowledged : /\ Len(replica[s].log) = offset
                                              /\ replica[s].log[offset] = m
    BY <1>1, <1>2 DEF WriteInv, Busy, Undecided
  <1>5. /\ q \in Primaries /\ q.pc = "rollback" /\ q.acknowledged = primary[n].acknowledged \ {r}
        /\ q.mutation = m /\ q.offset = offset
    BY <1>1, <1>2 DEF Primaries
  <1> HIDE DEF q
  <1>6. /\ primary' \in [Nodes -> Primaries] /\ primary'[n] = q
        /\ \A k \in Nodes \ {n} : primary'[k] = primary[k]
    BY <1>1, <1>2, <1>5, GoesIs
  <1>7. \A k \in Nodes \ {n} : primary'[k].pc \notin Busy
    BY <1>3, <1>6
  <1>8. pending' = pending \ {r}
    BY <1>3, <1>5, <1>6, <1>7, PendingOfOne DEF pending, Undecided, Primaries
  <1>9. settled[r] = offset - 1
    BY <1>2, <1>3, <1>4 DEF settled
  <1>10. CanRollback(replica[r], offset)
    <2>1. replica[r].committed =< settled[r] /\ replica[r].committed \in Nat
      BY <1>1, SettledIsInt DEF LogInv, Committal
    <2> QED
      BY <1>1, <1>9, <2>1 DEF CanRollback
  <1>11. replica' = [replica EXCEPT ![r] = Rolledback(@, offset)]
    BY <1>10 DEF RollsBack, Happens, If
  <1>12. /\ Rolledback(replica[r], offset) \in Replicas(writes)
         /\ Rolledback(replica[r], offset).committed = replica[r].committed
         /\ Len(Rolledback(replica[r], offset).log) = offset - 1
         /\ \A i \in 1..(offset - 1) : Rolledback(replica[r], offset).log[i] = replica[r].log[i]
    <2>1. offset - 1 =< Len(replica[r].log)
      BY <1>1, <1>2, <1>4
    <2> QED
      BY <1>1, <1>4, <2>1, RolledbackIs
  <1>13. /\ replica' \in [Nodes -> Replicas(writes)]
         /\ replica'[r] = Rolledback(replica[r], offset)
         /\ \A s \in Nodes \ {r} : replica'[s] = replica[s]
    BY <1>1, <1>11, <1>12
  <1>14. SettledSame
    <2>1. settled'[r] = settled[r]
      BY <1>8, <1>9, <1>12, <1>13 DEF settled
    <2>2. \A s \in Nodes \ {r} : s \in pending' <=> s \in pending
      BY <1>8
    <2>3. \A i \in 1..settled[r] : replica'[r].log[i] = replica[r].log[i]
      BY <1>9, <1>12, <1>13
    <2> QED
      BY <1>12, <1>13, <2>1, <2>2, <2>3, OneReplicaSame
  <1>15. Typed'
    BY <1>1, <1>2, <1>3, <1>6, <1>13 DEF Typed
  <1>16. WriteInv(n)'
    <2>1. \A s \in Nodes : \A i \in 1..settled'[s] : replica'[s].log[i] # m
      BY <1>4, <1>14 DEF SettledSame
    <2>2. \A s \in q.acknowledged : Len(replica'[s].log) = offset /\ replica'[s].log[offset] = m
      BY <1>4, <1>5, <1>13, <1>1 DEF Primaries
    <2> QED
      BY <1>2, <1>4, <1>5, <1>6, <2>1, <2>2 DEF WriteInv, Undecided
  <1> QED
    BY <1>2, <1>3, <1>7, <1>14, <1>15, <1>16, QuietStep

LEMMA RefusesStep ==
    ASSUME LogInv, NEW n \in Nodes, Refuses(n)
    PROVE  LogInv' /\ CommitsKept
  <1> DEFINE m == primary[n].mutation
  <1>1. /\ Typed /\ primary[n] \in Primaries /\ WriteInv(n) /\ refused \subseteq 1..writes
        /\ Committal /\ Agreed /\ Backed /\ Unrefused /\ Recorded
    BY DEF LogInv, Typed
  <1>2. /\ primary[n].pc = "rollback" /\ primary[n].acknowledged = {} /\ catchUp' = catchUp
        /\ acked' = acked /\ refused' = refused \union {m} /\ writes' = writes
        /\ Goes(n, Idle(primary[n].term)) /\ replica' = replica
    BY DEF Refuses, Returns
  <1>3. /\ catchUp = NoCatchUp /\ pending = {}
        /\ \A k \in Nodes \ {n} : primary[k].pc \notin Busy
    BY <1>2, WriterAlone DEF Busy, Undecided
  <1>4. /\ m \in 1..writes
        /\ \A s \in Nodes : \A i \in 1..settled[s] : replica[s].log[i] # m
    BY <1>1, <1>2 DEF WriteInv, Busy, Undecided
  <1>5. Idle(primary[n].term) \in Primaries /\ Idle(primary[n].term).pc = "idle"
    BY <1>1, IdleIsPrimary DEF Primaries
  <1>6. /\ primary' \in [Nodes -> Primaries] /\ primary'[n].pc = "idle"
        /\ \A k \in Nodes \ {n} : primary'[k] = primary[k]
    BY <1>1, <1>2, <1>5, GoesIs DEF Typed
  <1>7. \A k \in Nodes : primary'[k].pc \notin Busy
    BY <1>3, <1>6 DEF Busy, Undecided
  <1>8. pending' = {}
    BY <1>7, PendingOfNone DEF pending
  <1>9. SettledSame
    BY <1>2, <1>3, <1>8 DEF SettledSame, settled
  <1>10. Typed'
    BY <1>1, <1>2, <1>3, <1>4, <1>6 DEF Typed
  <1>11. Committal' /\ Agreed' /\ Recorded'
    BY <1>1, <1>2, <1>9, SettledSameKeeps, RecordedKept
  <1>12. Backed'
    <2>1. settled' = settled /\ \A r \in Nodes : ~ Rewritten(r)
      BY <1>3, <1>9 DEF SettledSame, Rewritten
    <2> QED
      BY <1>1, <2>1, BackedKept
  <1>13. Unrefused'
    BY <1>1, <1>2, <1>4, <1>9 DEF Unrefused, SettledSame
  <1>14. Exclusive' /\ CatchUpInv' /\ \A k \in Nodes : WriteInv(k)'
    <2>1. WriteInv(n)'
      BY <1>6 DEF WriteInv, Busy, Undecided
    <2> QED
      BY <1>2, <1>3, <1>7, <2>1, OnlyWriter
  <1>15. CommitsKept
    BY <1>1, <1>9, SettledSameKeepsCommits
  <1> QED
    BY <1>10, <1>11, <1>12, <1>13, <1>14, <1>15 DEF LogInv

\* The quorum decides: an offset that a majority has just appended at was
\* settled nowhere before, because a majority would hold it already.
LEMMA QuorumIsFirst ==
    ASSUME LogInv, NEW n \in Nodes, primary[n].pc = "commit", NEW s \in Nodes
    PROVE  settled[s] =< primary[n].offset - 1
  <1> DEFINE offset == primary[n].offset
             ack == primary[n].acknowledged
  <1>1. /\ Typed /\ Backed /\ WriteInv(n) /\ offset \in Nat /\ ack \in SUBSET Nodes
    BY DEF LogInv, Typed, Primaries
  <1>2. catchUp = NoCatchUp /\ pending = ack
    BY WriterAlone DEF Busy, Undecided
  <1>3. \A r \in ack : Len(replica[r].log) = offset
    BY <1>1 DEF WriteInv, Undecided
  <1>4. \A r \in ack : settled[r] = offset - 1
    BY <1>1, <1>2, <1>3 DEF settled
  <1>5. Cardinality(ack) >= Quorum /\ offset >= 1
    BY <1>1 DEF WriteInv, Busy, Undecided
  <1>6. settled[s] \in Int
    BY <1>1, SettledIsInt
  <1> SUFFICES ASSUME offset =< settled[s] PROVE FALSE
    BY <1>1, <1>6
  <1>7. Cardinality(Backers(offset)) >= Quorum
    <2>1. offset \in 1..settled[s]
      BY <1>1, <1>5, <1>6
    <2> QED
      BY <1>1, <2>1 DEF Backed
  <1>8. Backers(offset) \in SUBSET Nodes
    BY DEF Backers
  <1>9. PICK r \in ack : r \in Backers(offset)
    BY <1>1, <1>5, <1>7, <1>8, QuorumsMeet
  <1>10. offset =< settled[r]
    BY <1>2, <1>9 DEF Backers, Rewritten
  <1> QED
    BY <1>1, <1>4, <1>10

LEMMA CommitsLocallyStep ==
    ASSUME LogInv, NEW n \in Nodes, CommitsLocally(n), faults' = {}
    PROVE  LogInv' /\ CommitsKept
  <1> DEFINE m == primary[n].mutation
             offset == primary[n].offset
             ack == primary[n].acknowledged
             q == [primary[n] EXCEPT !.pc = "peers", !.acknowledged = @ \ {n}]
  <1>1. /\ Typed /\ writes \in Nat /\ replica \in [Nodes -> Replicas(writes)]
        /\ primary \in [Nodes -> Primaries] /\ primary[n] \in Primaries
        /\ replica[n] \in Replicas(writes) /\ WriteInv(n) /\ offset \in Nat
        /\ ack \in SUBSET Nodes
        /\ Committal /\ Agreed /\ Backed /\ Unrefused /\ Recorded
    BY DEF LogInv, Typed, Primaries
  <1>2. /\ primary[n].pc = "commit" /\ catchUp' = catchUp
        /\ acked' = acked /\ refused' = refused /\ writes' = writes
    BY DEF CommitsLocally, historyVars
  <1>3. /\ catchUp = NoCatchUp /\ pending = ack
        /\ \A k \in Nodes \ {n} : primary[k].pc \notin Busy
    BY <1>2, WriterAlone DEF Busy, Undecided
  <1>4. /\ m \in (1..writes) \ refused /\ offset >= 1
        /\ \A s \in Nodes : \A i \in 1..settled[s] : replica[s].log[i] # m
        /\ \A s \in ack : Len(replica[s].log) = offset /\ replica[s].log[offset] = m
        /\ n \in ack /\ Cardinality(ack) >= Quorum
    BY <1>1, <1>2 DEF WriteInv, Busy, Undecided
  <1>5. /\ \A s \in Nodes : settled[s] \in Int /\ settled[s] =< offset - 1
        /\ \A s \in Nodes : replica[s].committed \in Nat /\ replica[s].committed =< settled[s]
        /\ \A s \in ack : settled[s] = offset - 1
    <2>1. \A s \in ack : settled[s] = offset - 1
      BY <1>1, <1>3, <1>4 DEF settled
    <2> QED
      BY <1>1, <1>2, <2>1, QuorumIsFirst, SettledIsInt DEF Committal
  <1>6. CanCommit(replica[n], offset)
    BY <1>1, <1>4, <1>5 DEF CanCommit, appliedOffsetLocked
  <1>7. /\ replica' = [replica EXCEPT ![n] = Committed(@, offset)]
        /\ Goes(n, q)
    BY <1>6 DEF CommitsLocally, Happens, If
  <1>8. /\ q \in Primaries /\ q.pc = "peers" /\ q.acknowledged = ack \ {n}
        /\ q.mutation = m /\ q.offset = offset
    BY <1>1, <1>2 DEF Primaries, Busy
  <1> HIDE DEF q
  <1>9. /\ primary' \in [Nodes -> Primaries] /\ primary'[n] = q
        /\ \A k \in Nodes \ {n} : primary'[k] = primary[k]
    BY <1>1, <1>7, <1>8, GoesIs
  <1>10. \A k \in Nodes \ {n} : primary'[k].pc \notin Busy
    BY <1>3, <1>9
  <1>11. pending' = {}
    <2>1. q.pc \notin Undecided /\ q.acknowledged \subseteq Nodes
      BY <1>1, <1>8 DEF Undecided
    <2> QED
      BY <1>9, <1>10, <2>1, PendingOfOne DEF pending
  <1>12. /\ replica' \in [Nodes -> Replicas(writes)]
         /\ \A s \in Nodes : replica'[s].log = replica[s].log
         /\ replica'[n].committed = offset
         /\ \A s \in Nodes \ {n} : replica'[s].committed = replica[s].committed
    <2>1. /\ Committed(replica[n], offset) \in Replicas(writes)
          /\ Committed(replica[n], offset).committed = offset
          /\ Committed(replica[n], offset).log = replica[n].log
      BY <1>1, CommittedIs
    <2> QED
      BY <1>1, <1>7, <2>1
  <1>13. /\ \A s \in ack : settled'[s] = offset
         /\ \A s \in Nodes \ ack : settled'[s] = settled[s]
    BY <1>1, <1>3, <1>4, <1>11, <1>12 DEF settled
  <1>14. Typed'
    BY <1>1, <1>2, <1>3, <1>9, <1>12 DEF Typed
  <1>15. Committal'
    <2>1. \A s \in Nodes : replica'[s].committed =< settled'[s]
      BY <1>1, <1>4, <1>5, <1>12, <1>13
    <2>2. \A s \in Nodes : settled'[s] =< replica'[n].committed
      BY <1>1, <1>5, <1>12, <1>13
    <2> QED
      BY <2>1, <2>2 DEF Committal
  <1>16. \A s \in Nodes : \A i \in 1..settled'[s] :
            \/ i \in 1..settled[s]
            \/ s \in ack /\ i = offset /\ replica'[s].log[i] = m
    BY <1>1, <1>4, <1>5, <1>12, <1>13
  <1>17. Agreed'
    <2> SUFFICES ASSUME NEW r \in Nodes, NEW s \in Nodes, NEW i \in 1..settled'[r],
                        i =< settled'[s]
                 PROVE  replica'[r].log[i] = replica'[s].log[i]
      BY DEF Agreed
    <2>1. i \in 1..settled'[s]
      OBVIOUS
    <2>2. CASE i \in 1..settled[r] /\ i \in 1..settled[s]
      BY <1>1, <1>12, <2>2 DEF Agreed
    <2>3. CASE i = offset
      <3>1. i \notin 1..settled[r] /\ i \notin 1..settled[s]
        BY <1>1, <1>5, <2>3
      <3> QED
        BY <1>16, <2>1, <3>1
    <2> QED
      BY <1>16, <2>1, <2>2, <2>3
  <1>18. Backed'
    <2> SUFFICES ASSUME NEW r \in Nodes, NEW i \in 1..settled'[r]
                 PROVE  Cardinality(Backers(i)') >= Quorum
      BY DEF Backed
    <2>1. Backers(i) \in SUBSET Nodes /\ Backers(i)' \in SUBSET Nodes
      BY DEF Backers
    <2>2. CASE i \in 1..settled[r]
      <3>1. \A s \in Nodes : settled[s] =< settled'[s] /\ settled[s] \in Int /\ settled'[s] \in Int
        BY <1>1, <1>5, <1>13
      <3>2. Backers(i) \subseteq Backers(i)'
        BY <1>2, <3>1, <2>2 DEF Backers, Rewritten
      <3> QED
        BY <1>1, <2>1, <2>2, <3>2, MoreIsQuorum DEF Backed
    <2>3. CASE i = offset
      <3>1. ack \subseteq Backers(i)'
        BY <1>1, <1>13, <2>3 DEF Backers
      <3> QED
        BY <1>1, <1>4, <2>1, <3>1, MoreIsQuorum
    <2> QED
      BY <1>16, <2>2, <2>3
  <1>19. Unrefused'
    BY <1>1, <1>2, <1>4, <1>12, <1>16 DEF Unrefused
  <1>20. Recorded'
    <2> SUFFICES ASSUME NEW a \in acked
                 PROVE  \E r \in Nodes : /\ a[1] \in 1..replica'[r].committed
                                         /\ replica'[r].log[a[1]] = a[2]
      BY <1>2 DEF Recorded
    <2>1. PICK r \in Nodes : a[1] \in 1..replica[r].committed /\ replica[r].log[a[1]] = a[2]
      BY <1>1 DEF Recorded
    <2>2. replica[r].committed =< replica'[r].committed /\ replica'[r].committed \in Nat
      BY <1>1, <1>5, <1>12
    <2>3. a[1] \in 1..replica'[r].committed
      BY <1>5, <2>1, <2>2
    <2> QED
      BY <1>12, <2>1, <2>3
  <1>21. WriteInv(n)'
    <2>1. \A s \in q.acknowledged : Len(replica'[s].log) = offset /\ replica'[s].log[offset] = m
      BY <1>1, <1>4, <1>8, <1>12
    <2>2. n \notin q.acknowledged /\ replica'[n].log[offset] = m
      BY <1>4, <1>8, <1>12
    <2> QED
      BY <1>2, <1>4, <1>8, <1>9, <1>12, <2>1, <2>2 DEF WriteInv, Undecided
  <1>22. Exclusive' /\ CatchUpInv' /\ \A k \in Nodes \ {n} : WriteInv(k)'
    BY <1>2, <1>3, <1>10, OnlyWriter
  <1>23. CommitsKept
    BY <1>1, <1>5, <1>12 DEF CommitsKept
  <1> QED
    BY <1>14, <1>15, <1>17, <1>18, <1>19, <1>20, <1>21, <1>22, <1>23 DEF LogInv

\* More of the settled entries is committed than before.
LEMMA CommitGrows ==
    ASSUME LogInv, Typed', settled' = settled, acked' = acked, refused' = refused,
           \A s \in Nodes : replica'[s].log = replica[s].log,
           \A s \in Nodes : /\ replica[s].committed =< replica'[s].committed
                            /\ replica'[s].committed =< settled[s]
    PROVE  Committal' /\ Agreed' /\ Unrefused' /\ Recorded'
  <1>1. Typed /\ Committal /\ Agreed /\ Unrefused /\ Recorded
    BY DEF LogInv
  <1>2. \A s \in Nodes : /\ replica[s].committed \in Nat /\ settled[s] \in Int
    BY <1>1, SettledIsInt
  <1>3. \A s \in Nodes : replica'[s].committed \in Nat
    BY DEF Typed, Replicas
  <1>4. Committal'
    <2> SUFFICES ASSUME NEW r \in Nodes
                 PROVE  \E s \in Nodes : settled[r] =< replica'[s].committed
      BY DEF Committal
    <2>1. PICK s \in Nodes : settled[r] =< replica[s].committed
      BY <1>1 DEF Committal
    <2> QED
      BY <1>2, <1>3, <2>1
  <1>5. Agreed' /\ Unrefused'
    BY <1>1 DEF Agreed, Unrefused
  <1>6. Recorded'
    <2> SUFFICES ASSUME NEW a \in acked
                 PROVE  \E r \in Nodes : /\ a[1] \in 1..replica'[r].committed
                                         /\ replica'[r].log[a[1]] = a[2]
      BY DEF Recorded
    <2>1. PICK r \in Nodes : a[1] \in 1..replica[r].committed /\ replica[r].log[a[1]] = a[2]
      BY <1>1 DEF Recorded
    <2>2. a[1] \in 1..replica'[r].committed
      BY <1>2, <1>3, <2>1
    <2> QED
      BY <2>1, <2>2
  <1> QED
    BY <1>4, <1>5, <1>6

LEMMA CommitsAtPeerStep ==
    ASSUME LogInv, NEW n \in Nodes, NEW r \in Nodes, CommitsAtPeer(n, r)
    PROVE  LogInv' /\ CommitsKept
  <1> DEFINE m == primary[n].mutation
             offset == primary[n].offset
             q == [primary[n] EXCEPT !.acknowledged = @ \ {r}]
  <1>1. /\ Typed /\ writes \in Nat /\ replica \in [Nodes -> Replicas(writes)]
        /\ primary \in [Nodes -> Primaries] /\ primary[n] \in Primaries
        /\ replica[r] \in Replicas(writes) /\ WriteInv(n) /\ offset \in Nat
        /\ Committal /\ Backed
    BY DEF LogInv, Typed, Primaries
  <1>2. /\ primary[n].pc = "peers" /\ r \in primary[n].acknowledged /\ catchUp' = catchUp
        /\ acked' = acked /\ refused' = refused /\ writes' = writes /\ Goes(n, q)
    BY DEF CommitsAtPeer, historyVars
  <1>3. /\ catchUp = NoCatchUp /\ pending = {}
        /\ \A k \in Nodes \ {n} : primary[k].pc \notin Busy
    BY <1>2, WriterAlone DEF Busy, Undecided
  <1>4. /\ m \in (1..writes) \ refused /\ offset >= 1
        /\ \A s \in primary[n].acknowledged : /\ Len(replica[s].log) = offset
                                              /\ replica[s].log[offset] = m
        /\ n \notin primary[n].acknowledged
        /\ replica[n].committed = offset /\ replica[n].log[offset] = m
    BY <1>1, <1>2 DEF WriteInv, Busy, Undecided
  <1>5. /\ q \in Primaries /\ q.pc = "peers" /\ q.acknowledged = primary[n].acknowledged \ {r}
        /\ q.mutation = m /\ q.offset = offset
    BY <1>1, <1>2 DEF Primaries
  <1> HIDE DEF q
  <1>6. /\ primary' \in [Nodes -> Primaries] /\ primary'[n] = q
        /\ \A k \in Nodes \ {n} : primary'[k] = primary[k]
    BY <1>1, <1>2, <1>5, GoesIs
  <1>7. \A k \in Nodes \ {n} : primary'[k].pc \notin Busy
    BY <1>3, <1>6
  <1>8. pending' = {}
    <2>1. q.pc \notin Undecided /\ q.acknowledged \subseteq Nodes
      BY <1>1, <1>5 DEF Undecided, Primaries
    <2> QED
      BY <1>6, <1>7, <2>1, PendingOfOne DEF pending
  <1>9. /\ replica' \in [Nodes -> Replicas(writes)]
        /\ \A s \in Nodes : replica'[s].log = replica[s].log
        /\ replica'[r].committed \in {offset, replica[r].committed}
        /\ \A s \in Nodes \ {r} : replica'[s].committed = replica[s].committed
    <2>1. /\ Committed(replica[r], offset) \in Replicas(writes)
          /\ Committed(replica[r], offset).committed = offset
          /\ Committed(replica[r], offset).log = replica[r].log
      BY <1>1, CommittedIs
    <2>2. CASE replica' = [replica EXCEPT ![r] = Committed(@, offset)]
      BY <1>1, <2>1, <2>2
    <2>3. CASE replica' = replica
      BY <1>1, <2>3
    <2> QED
      BY <2>2, <2>3 DEF CommitsAtPeer
  <1>10. settled' = settled
    BY <1>3, <1>8, <1>9 DEF settled
  <1>11. \A s \in Nodes : /\ replica[s].committed =< replica'[s].committed
                          /\ replica'[s].committed =< settled[s]
    <2>1. \A s \in Nodes : /\ replica[s].committed \in Nat /\ settled[s] \in Int
                           /\ replica[s].committed =< settled[s]
      BY <1>1, SettledIsInt DEF Committal
    <2>2. settled[r] = offset
      BY <1>2, <1>3, <1>4 DEF settled
    <2>3. CASE replica'[r].committed = offset
      BY <1>1, <1>9, <2>1, <2>2, <2>3
    <2>4. CASE replica'[r].committed = replica[r].committed
      BY <1>9, <2>1, <2>4
    <2> QED
      BY <1>9, <2>3, <2>4
  <1>12. Typed'
    BY <1>1, <1>2, <1>3, <1>6, <1>9 DEF Typed
  <1>13. Committal' /\ Agreed' /\ Unrefused' /\ Recorded'
    BY <1>2, <1>9, <1>10, <1>11, <1>12, CommitGrows
  <1>14. Backed'
    <2>1. \A s \in Nodes : ~ Rewritten(s)
      BY <1>3 DEF Rewritten
    <2> QED
      BY <1>1, <1>10, <2>1, BackedKept
  <1>15. WriteInv(n)'
    <2>1. r # n
      BY <1>2, <1>4
    <2>2. \A s \in q.acknowledged : Len(replica'[s].log) = offset /\ replica'[s].log[offset] = m
      BY <1>1, <1>4, <1>5, <1>9 DEF Primaries
    <2>3. n \notin q.acknowledged /\ replica'[n].committed = offset /\ replica'[n].log[offset] = m
      BY <1>4, <1>5, <1>9, <2>1
    <2> QED
      BY <1>2, <1>4, <1>5, <1>6, <2>2, <2>3 DEF WriteInv, Undecided
  <1>16. Exclusive' /\ CatchUpInv' /\ \A k \in Nodes \ {n} : WriteInv(k)'
    BY <1>2, <1>3, <1>7, OnlyWriter
  <1>17. CommitsKept
    BY <1>9, <1>11 DEF CommitsKept
  <1> QED
    BY <1>12, <1>13, <1>14, <1>15, <1>16, <1>17 DEF LogInv

LEMMA AcknowledgesStep ==
    ASSUME LogInv, NEW n \in Nodes, Acknowledges(n)
    PROVE  LogInv' /\ CommitsKept
  <1>1. /\ Typed /\ primary[n] \in Primaries /\ WriteInv(n) /\ primary[n].offset \in Nat
        /\ Committal /\ Agreed /\ Backed /\ Unrefused /\ Recorded
    BY DEF LogInv, Typed, Primaries
  <1>2. /\ primary[n].pc = "peers" /\ catchUp' = catchUp
        /\ acked' = acked \union {<<primary[n].offset, primary[n].mutation>>}
        /\ refused' = refused /\ writes' = writes
        /\ Goes(n, Idle(primary[n].term)) /\ replica' = replica
    BY DEF Acknowledges, Returns
  <1>3. /\ catchUp = NoCatchUp /\ pending = {}
        /\ \A k \in Nodes \ {n} : primary[k].pc \notin Busy
    BY <1>2, WriterAlone DEF Busy, Undecided
  <1>4. /\ primary[n].offset >= 1 /\ replica[n].committed = primary[n].offset
        /\ replica[n].log[primary[n].offset] = primary[n].mutation
    BY <1>1, <1>2 DEF WriteInv, Busy, Undecided
  <1>5. Idle(primary[n].term) \in Primaries /\ Idle(primary[n].term).pc = "idle"
    BY <1>1, IdleIsPrimary DEF Primaries
  <1>6. /\ Typed' /\ SettledSame /\ WriteInv(n)'
        /\ \A k \in Nodes \ {n} : primary'[k].pc \notin Busy
    BY <1>2, <1>3, <1>5, WriteEnds
  <1>7. Committal' /\ Agreed' /\ Unrefused'
    BY <1>1, <1>2, <1>6, SettledSameKeeps, UnrefusedKept
  <1>8. Backed'
    <2>1. settled' = settled /\ \A r \in Nodes : ~ Rewritten(r)
      BY <1>3, <1>6 DEF SettledSame, Rewritten
    <2> QED
      BY <1>1, <2>1, BackedKept
  <1>9. Recorded'
    <2>1. ASSUME NEW a \in acked
          PROVE  \E r \in Nodes : /\ a[1] \in 1..replica'[r].committed
                                  /\ replica'[r].log[a[1]] = a[2]
      BY <1>1, <1>2 DEF Recorded
    <2>2. /\ primary[n].offset \in 1..replica'[n].committed
          /\ replica'[n].log[primary[n].offset] = primary[n].mutation
      BY <1>1, <1>2, <1>4
    <2> QED
      BY <1>2, <2>1, <2>2 DEF Recorded
  <1>10. Exclusive' /\ CatchUpInv' /\ \A k \in Nodes \ {n} : WriteInv(k)'
    BY <1>2, <1>3, <1>6, OnlyWriter
  <1>11. CommitsKept
    BY <1>1, <1>6, SettledSameKeepsCommits
  <1> QED
    BY <1>6, <1>7, <1>8, <1>9, <1>10, <1>11 DEF LogInv

\* A node gets a Primary or loses an idle one.
LEMMA IdleStep ==
    ASSUME LogInv, ElectionInv, NEW n \in Nodes, NewPrimary(n) \/ PrimaryEnds(n), faults' = {}
    PROVE  LogInv' /\ CommitsKept
  <1>1. Typed /\ primary \in [Nodes -> Primaries] /\ current.term \in Nat
    BY ReplicationAssumption DEF LogInv, Typed, ElectionInv
  <1>2. /\ replica' = replica /\ catchUp' = catchUp /\ writes' = writes /\ acked' = acked
        /\ refused' = refused
    BY DEF NewPrimary, PrimaryEnds, historyVars
  <1>3. PICK q \in Primaries : /\ q.pc \in {"none", "idle"}
                               /\ Goes(n, q)
    <2>1. CASE NewPrimary(n)
      BY <1>1, <2>1, IdleIsPrimary DEF NewPrimary, Goes
    <2>2. CASE PrimaryEnds(n)
      BY <2>2, NoPrimaryIsPrimary DEF PrimaryEnds
    <2> QED
      BY <2>1, <2>2
  <1>4. primary[n].pc \in {"none", "idle"}
    BY DEF NewPrimary, PrimaryEnds, Happens, If
  <1>5. /\ primary' \in [Nodes -> Primaries] /\ primary'[n] = q
        /\ \A k \in Nodes \ {n} : primary'[k] = primary[k]
    BY <1>1, <1>3, GoesIs
  <1>6. primary[n].pc \notin Busy /\ primary'[n].pc \notin Busy
    BY <1>3, <1>4, <1>5 DEF Busy, Undecided
  <1>7. pending' = pending
    <2>1. primary[n].pc \notin Undecided /\ primary'[n].pc \notin Undecided
      BY <1>6 DEF Busy
    <2> QED
      BY <1>5, <2>1 DEF pending, PendingIn
  <1>8. SettledSame /\ settled' = settled
    BY <1>2, <1>7 DEF SettledSame, settled
  <1>9. Typed'
    BY <1>1, <1>2, <1>5 DEF Typed
  <1>10. Committal' /\ Agreed' /\ Unrefused' /\ Recorded'
    BY <1>2, <1>8, SettledSameKeeps, UnrefusedKept, RecordedKept DEF LogInv
  <1>11. Backed'
    <2>1. \A r \in Nodes : Rewritten(r) => Rewritten(r)'
      BY <1>2 DEF Rewritten
    <2> QED
      BY <1>8, <2>1, BackedKept DEF LogInv
  <1>12. Exclusive'
    BY <1>2, <1>5, <1>6 DEF LogInv, Exclusive
  <1>13. CatchUpInv'
    BY <1>2 DEF LogInv, CatchUpInv, NoCatchUp
  <1>14. WriteInv(n)'
    BY <1>6 DEF WriteInv, Busy, Undecided
  <1>15. ASSUME NEW k \in Nodes \ {n}
         PROVE  WriteInv(k)'
    BY <1>2, <1>5, <1>8 DEF LogInv, WriteInv
  <1>16. CommitsKept
    BY <1>8, SettledSameKeepsCommits DEF LogInv
  <1> QED
    BY <1>9, <1>10, <1>11, <1>12, <1>13, <1>14, <1>15, <1>16 DEF LogInv

LEMMA CompactsStep ==
    ASSUME LogInv, NEW r \in Nodes, Compacts(r)
    PROVE  LogInv' /\ CommitsKept
  <1>1. /\ Typed /\ replica \in [Nodes -> Replicas(writes)] /\ replica[r] \in Replicas(writes)
    BY DEF LogInv, Typed
  <1>2. /\ primary' = primary /\ catchUp' = catchUp /\ writes' = writes /\ acked' = acked
        /\ refused' = refused
    BY DEF Compacts, historyVars
  <1>3. /\ replica' \in [Nodes -> Replicas(writes)]
        /\ \A s \in Nodes : /\ replica'[s].log = replica[s].log
                            /\ replica'[s].committed = replica[s].committed
    <2> DEFINE rep == [replica[r] EXCEPT !.floor = replica[r].committed]
    <2>1. replica' = [replica EXCEPT ![r] = rep]
      BY DEF Compacts
    <2>2. rep \in Replicas(writes) /\ rep.log = replica[r].log /\ rep.committed = replica[r].committed
      BY <1>1 DEF Replicas
    <2> HIDE DEF rep
    <2> QED
      BY <1>1, <2>1, <2>2
  <1>4. pending' = pending
    BY <1>2 DEF pending
  <1>5. SettledSame /\ settled' = settled
    BY <1>3, <1>4 DEF SettledSame, settled
  <1>6. Typed'
    BY <1>1, <1>2, <1>3 DEF Typed, LogInv
  <1>7. Committal' /\ Agreed' /\ Unrefused' /\ Recorded'
    BY <1>2, <1>5, SettledSameKeeps, UnrefusedKept, RecordedKept DEF LogInv
  <1>8. Backed'
    <2>1. \A s \in Nodes : Rewritten(s) => Rewritten(s)'
      BY <1>2 DEF Rewritten
    <2> QED
      BY <1>5, <2>1, BackedKept DEF LogInv
  <1>9. Exclusive'
    BY <1>2 DEF LogInv, Exclusive
  <1>10. CatchUpInv'
    <2>1. CASE catchUp = NoCatchUp
      BY <1>2, <2>1 DEF CatchUpInv, NoCatchUp
    <2>2. CASE catchUp # NoCatchUp
      <3>1. catchUp.source \in Nodes /\ catchUp.target \in Nodes
        BY <1>1, <2>2 DEF Typed, CatchUps
      <3> QED
        BY <1>2, <1>3, <2>2, <3>1 DEF LogInv, CatchUpInv
    <2> QED
      BY <2>1, <2>2
  <1>11. ASSUME NEW k \in Nodes
         PROVE  WriteInv(k)'
    <2>1. primary[k].acknowledged \subseteq Nodes /\ WriteInv(k)
      BY DEF LogInv, Typed, Primaries
    <2> QED
      BY <1>2, <1>3, <1>5, <2>1 DEF WriteInv
  <1>12. CommitsKept
    BY <1>5, SettledSameKeepsCommits DEF LogInv
  <1> QED
    BY <1>6, <1>7, <1>8, <1>9, <1>10, <1>11, <1>12 DEF LogInv

-----------------------------------------------------------------------------
(* The steps of CatchUp.                                                   *)

\* While a CatchUp runs there is no Write: everything in a log is settled, and
\* the source has all of it.
LEMMA CatchUpAlone ==
    ASSUME LogInv, catchUp # NoCatchUp
    PROVE  /\ \A n \in Nodes : primary[n].pc \notin Busy
           /\ \A r \in Nodes : /\ settled[r] = Len(replica[r].log) /\ settled[r] \in Nat
                               /\ replica[r].committed \in Nat /\ replica[r].committed =< settled[r]
                               /\ settled[r] =< catchUp.goal
                               /\ \A i \in 1..settled[r] :
                                     replica[r].log[i] = replica[catchUp.source].log[i]
           /\ catchUp \in CatchUps(writes)
           /\ catchUp.source \in Nodes /\ catchUp.target \in Nodes
           /\ catchUp.source # catchUp.target
           /\ catchUp.goal \in Nat /\ catchUp.from \in Nat /\ catchUp.entries \in Seq(1..writes)
           /\ replica[catchUp.source].committed = catchUp.goal
           /\ settled[catchUp.source] = catchUp.goal
  <1>1. \A n \in Nodes : primary[n].pc \notin Busy
    BY DEF LogInv, Exclusive
  <1>2. pending = {}
    BY <1>1, PendingOfNone DEF pending
  <1>3. Typed /\ Committal /\ Agreed /\ CatchUpInv
    BY DEF LogInv
  <1>4. \A r \in Nodes : settled[r] = Len(replica[r].log)
    BY <1>2 DEF settled
  <1>5. \A r \in Nodes : /\ settled[r] \in Nat
                         /\ replica[r].committed \in Nat /\ replica[r].committed =< settled[r]
    BY <1>3, <1>4, SettledIsInt DEF Committal
  <1>6. /\ catchUp \in CatchUps(writes)
        /\ catchUp.source \in Nodes /\ catchUp.target \in Nodes
        /\ catchUp.goal \in Nat /\ catchUp.from \in Nat /\ catchUp.entries \in Seq(1..writes)
    BY <1>3 DEF Typed, CatchUps
  <1>7. /\ catchUp.source # catchUp.target
        /\ replica[catchUp.source].committed = catchUp.goal
        /\ \A r \in Nodes : Len(replica[r].log) =< catchUp.goal
    BY <1>3 DEF CatchUpInv
  <1>8. settled[catchUp.source] = catchUp.goal
    <2>1. /\ settled[catchUp.source] \in Nat /\ catchUp.goal =< settled[catchUp.source]
          /\ settled[catchUp.source] =< catchUp.goal
      BY <1>4, <1>5, <1>6, <1>7
    <2> QED
      BY <1>6, <2>1
  <1>9. ASSUME NEW r \in Nodes, NEW i \in 1..settled[r]
        PROVE  replica[r].log[i] = replica[catchUp.source].log[i]
    <2>1. i =< settled[catchUp.source]
      BY <1>4, <1>5, <1>6, <1>7, <1>8
    <2> QED
      BY <1>3, <1>6, <2>1 DEF Agreed
  <1> QED
    BY <1>1, <1>4, <1>5, <1>6, <1>7, <1>8, <1>9

LEMMA NoWriter ==
    ASSUME primary' = primary, \A n \in Nodes : primary[n].pc \notin Busy
    PROVE  /\ Exclusive' /\ pending' = {} /\ \A n \in Nodes : WriteInv(n)'
           /\ \A r \in Nodes : settled'[r] = Len(replica'[r].log)
  <1>1. Exclusive'
    BY DEF Exclusive
  <1>2. pending' = {}
    BY PendingOfNone DEF pending
  <1>3. ASSUME NEW n \in Nodes
        PROVE  WriteInv(n)'
    BY DEF WriteInv, Busy, Undecided
  <1>4. \A r \in Nodes : settled'[r] = Len(replica'[r].log)
    BY <1>2 DEF settled
  <1> QED
    BY <1>1, <1>2, <1>3, <1>4

\* A step of CatchUp that only reads.
LEMMA CatchUpReads ==
    ASSUME LogInv, \A n \in Nodes : primary[n].pc \notin Busy,
           UNCHANGED <<replica, primary, historyVars>>,
           \A r \in Nodes : Rewritten(r) => Rewritten(r)',
           catchUp' # NoCatchUp => catchUp' \in CatchUps(writes), CatchUpInv'
    PROVE  LogInv' /\ CommitsKept
  <1>1. /\ replica' = replica /\ primary' = primary /\ writes' = writes /\ acked' = acked
        /\ refused' = refused
    BY DEF historyVars
  <1>2. Exclusive' /\ \A n \in Nodes : WriteInv(n)'
    BY <1>1, NoWriter
  <1>3. SettledSame /\ settled' = settled
    BY <1>1 DEF SettledSame, settled, pending
  <1>4. Typed'
    BY <1>1 DEF LogInv, Typed, NoCatchUp
  <1>5. Committal' /\ Agreed' /\ Unrefused' /\ Recorded'
    BY <1>1, <1>3, SettledSameKeeps, UnrefusedKept, RecordedKept DEF LogInv
  <1>6. Backed'
    BY <1>3, BackedKept DEF LogInv
  <1>7. CommitsKept
    BY <1>3, SettledSameKeepsCommits DEF LogInv
  <1> QED
    BY <1>2, <1>4, <1>5, <1>6, <1>7 DEF LogInv

\* A step of CatchUp that writes to its target what the source has.
LEMMA CatchUpWrites ==
    ASSUME LogInv, catchUp # NoCatchUp, NEW t \in Nodes, t = catchUp.target, NEW rep,
           replica' = [replica EXCEPT ![t] = rep], rep \in Replicas(writes),
           replica[t].committed =< rep.committed, rep.committed =< Len(rep.log),
           Len(rep.log) =< catchUp.goal,
           \A i \in 1..Len(rep.log) : rep.log[i] = replica[catchUp.source].log[i],
           UNCHANGED <<primary, historyVars>>,
           Rewritten(t)' \/ Len(rep.log) = catchUp.goal,
           catchUp' # NoCatchUp => catchUp' \in CatchUps(writes), CatchUpInv'
    PROVE  LogInv' /\ CommitsKept
  <1> DEFINE s0 == catchUp.source
             goal == catchUp.goal
  <1>1. /\ primary' = primary /\ writes' = writes /\ acked' = acked /\ refused' = refused
    BY DEF historyVars
  <1>2. /\ \A n \in Nodes : primary[n].pc \notin Busy
        /\ s0 \in Nodes /\ s0 # t /\ goal \in Nat
        /\ replica[s0].committed = goal /\ settled[s0] = goal
    BY CatchUpAlone
  <1>3. \A r \in Nodes : /\ settled[r] = Len(replica[r].log) /\ settled[r] \in Nat
                         /\ replica[r].committed \in Nat /\ replica[r].committed =< settled[r]
                         /\ settled[r] =< goal
                         /\ \A i \in 1..settled[r] : replica[r].log[i] = replica[s0].log[i]
    BY CatchUpAlone
  <1>4. /\ Typed /\ writes \in Nat /\ replica \in [Nodes -> Replicas(writes)]
        /\ Backed /\ Unrefused /\ Recorded
    BY DEF LogInv, Typed
  <1>5. /\ replica' \in [Nodes -> Replicas(writes)] /\ replica'[t] = rep
        /\ \A r \in Nodes \ {t} : replica'[r] = replica[r]
    BY <1>4
  <1>6. /\ Exclusive' /\ \A n \in Nodes : WriteInv(n)'
        /\ \A r \in Nodes : settled'[r] = Len(replica'[r].log)
    BY <1>1, <1>2, NoWriter
  <1>7. Typed'
    BY <1>1, <1>4, <1>5 DEF Typed, NoCatchUp
  <1>8. Len(rep.log) \in Nat /\ rep.committed \in Nat
    BY DEF Replicas
  <1>9. /\ settled'[t] = Len(rep.log)
        /\ \A r \in Nodes \ {t} : settled'[r] = settled[r]
    BY <1>3, <1>5, <1>6
  <1>10. \A r \in Nodes : /\ settled'[r] \in Nat /\ settled'[r] =< goal
                          /\ replica'[r].committed =< settled'[r]
    BY <1>2, <1>3, <1>5, <1>8, <1>9
  <1>11. \A r \in Nodes : \A i \in 1..settled'[r] : replica'[r].log[i] = replica[s0].log[i]
    BY <1>3, <1>5, <1>9
  <1>12. Committal'
    <2>1. \A r \in Nodes : settled'[r] =< replica'[s0].committed
      BY <1>2, <1>5, <1>10
    <2> QED
      BY <1>2, <1>10, <2>1 DEF Committal
  <1>13. Agreed'
    BY <1>10, <1>11 DEF Agreed
  <1>14. \A r \in Nodes : \A i \in 1..settled'[r] : i \in 1..settled[s0]
    BY <1>2, <1>10
  <1>15. Unrefused'
    BY <1>1, <1>2, <1>4, <1>11, <1>14 DEF Unrefused
  <1>16. Backed'
    <2> SUFFICES ASSUME NEW r \in Nodes, NEW i \in 1..settled'[r]
                 PROVE  Cardinality(Backers(i)') >= Quorum
      BY DEF Backed
    <2>1. Backers(i) \in SUBSET Nodes /\ Backers(i)' \in SUBSET Nodes
      BY DEF Backers
    <2>2. Cardinality(Backers(i)) >= Quorum
      BY <1>2, <1>4, <1>14 DEF Backed
    <2>3. t \in Backers(i)'
      <3>1. CASE Rewritten(t)'
        BY <3>1 DEF Backers
      <3>2. CASE Len(rep.log) = goal
        <4>1. i =< settled'[t]
          BY <1>2, <1>9, <1>10, <3>2
        <4> QED
          BY <4>1 DEF Backers
      <3> QED
        BY <3>1, <3>2
    <2>4. ASSUME NEW s \in Backers(i), s # t
          PROVE  s \in Backers(i)'
      <3>1. s \in Nodes /\ ~ Rewritten(s)
        BY <2>4 DEF Backers, Rewritten
      <3>2. i =< settled[s]
        BY <3>1 DEF Backers
      <3>3. settled'[s] = settled[s]
        BY <1>9, <2>4, <3>1
      <3> QED
        BY <3>1, <3>2, <3>3 DEF Backers
    <2>5. Backers(i) \subseteq Backers(i)'
      BY <2>3, <2>4
    <2> QED
      BY <2>1, <2>2, <2>5, MoreIsQuorum
  <1>17. Recorded'
    <2> SUFFICES ASSUME NEW a \in acked
                 PROVE  \E r \in Nodes : /\ a[1] \in 1..replica'[r].committed
                                         /\ replica'[r].log[a[1]] = a[2]
      BY <1>1 DEF Recorded
    <2>1. PICK r \in Nodes : a[1] \in 1..replica[r].committed /\ replica[r].log[a[1]] = a[2]
      BY <1>4 DEF Recorded
    <2>2. CASE r # t
      BY <1>5, <2>1, <2>2
    <2>3. CASE r = t
      <3>1. /\ a[1] \in 1..settled[t] /\ a[1] \in 1..rep.committed /\ a[1] \in 1..Len(rep.log)
        BY <1>3, <1>8, <2>1, <2>3
      <3>2. rep.log[a[1]] = a[2]
        BY <1>3, <2>1, <2>3, <3>1
      <3> QED
        BY <1>5, <3>1, <3>2
    <2> QED
      BY <2>2, <2>3
  <1>18. CommitsKept
    <2>1. \A r \in Nodes \ {t} : replica'[r] = replica[r] /\ replica[r].committed \in Nat
      BY <1>3, <1>5
    <2>2. \A i \in 1..replica[t].committed : i \in 1..settled[t] /\ i \in 1..Len(rep.log)
      BY <1>3, <1>8
    <2>3. \A i \in 1..replica[t].committed : rep.log[i] = replica[t].log[i]
      BY <1>3, <2>2
    <2> QED
      BY <1>5, <2>1, <2>3 DEF CommitsKept
  <1> QED
    BY <1>6, <1>7, <1>12, <1>13, <1>15, <1>16, <1>17, <1>18 DEF LogInv

LEMMA CatchUpStartsStep ==
    ASSUME LogInv, NEW source \in Nodes, NEW target \in Nodes, CatchUpStarts(source, target),
           faults' = {}
    PROVE  LogInv' /\ CommitsKept
  <1> DEFINE c == [pc |-> "target", source |-> source, target |-> target,
                   goal |-> replica[source].committed, from |-> 0, entries |-> << >>]
  <1>1. /\ catchUp = NoCatchUp /\ source # target /\ catchUp' = c
        /\ UNCHANGED <<replica, primary, historyVars>>
    BY DEF CatchUpStarts
  <1>2. ~ Writing /\ \A r \in Nodes : ~ (replica[r].committed > replica[source].committed)
    BY DEF CatchUpStarts, Happens, If
  <1>3. /\ \A n \in Nodes : primary[n].pc \notin Busy
        /\ \A r \in Nodes : settled[r] = Len(replica[r].log)
    BY <1>2, NobodyWrites DEF settled
  <1>4. Typed /\ Committal
    BY DEF LogInv
  <1>5. \A r \in Nodes : /\ Len(replica[r].log) \in Nat /\ replica[r].committed \in Nat
    BY <1>4, SettledIsInt
  <1>6. c \in CatchUps(writes)
    BY <1>5 DEF CatchUps
  <1>7. ASSUME NEW r \in Nodes
        PROVE  Len(replica[r].log) =< replica[source].committed
    <2>1. PICK s \in Nodes : settled[r] =< replica[s].committed
      BY <1>4 DEF Committal
    <2> QED
      BY <1>2, <1>3, <1>5, <2>1
  <1>8. CatchUpInv'
    <2>1. /\ c.source = source /\ c.target = target /\ c.goal = replica[source].committed
          /\ c.pc = "target"
      OBVIOUS
    <2> HIDE DEF c
    <2> QED
      BY <1>1, <1>7, <2>1 DEF CatchUpInv
  <1>9. \A r \in Nodes : ~ Rewritten(r)
    BY <1>1 DEF Rewritten
  <1> QED
    BY <1>1, <1>3, <1>6, <1>8, <1>9, CatchUpReads

LEMMA CatchUpReadsTargetStep ==
    ASSUME LogInv, CatchUpReadsTarget
    PROVE  LogInv' /\ CommitsKept
  <1> DEFINE rep == replica[catchUp.target]
             pc == IF Len(rep.log) > rep.committed THEN "rollback" ELSE "source"
             c == [[catchUp EXCEPT !.from = rep.committed] EXCEPT !.pc = pc]
  <1>1. /\ catchUp # NoCatchUp /\ catchUp.pc = "target"
        /\ catchUp' = IF rep.committed >= catchUp.goal THEN NoCatchUp ELSE c
        /\ UNCHANGED <<replica, primary, historyVars>>
    BY DEF CatchUpReadsTarget, appliedOffsetLocked
  <1>2. /\ \A n \in Nodes : primary[n].pc \notin Busy
        /\ catchUp \in CatchUps(writes)
        /\ catchUp.source \in Nodes /\ catchUp.target \in Nodes
        /\ catchUp.source # catchUp.target /\ catchUp.goal \in Nat
        /\ replica[catchUp.source].committed = catchUp.goal
        /\ \A r \in Nodes : settled[r] = Len(replica[r].log) /\ settled[r] =< catchUp.goal
        /\ rep.committed \in Nat /\ Len(rep.log) \in Nat /\ rep.committed =< Len(rep.log)
    BY <1>1, CatchUpAlone
  <1>3. \A r \in Nodes : ~ Rewritten(r)
    BY <1>1 DEF Rewritten
  <1>4. CASE rep.committed >= catchUp.goal
    <2>1. catchUp' = NoCatchUp
      BY <1>1, <1>4
    <2>2. CatchUpInv'
      BY <2>1 DEF CatchUpInv, NoCatchUp
    <2> QED
      BY <1>1, <1>2, <1>3, <2>1, <2>2, CatchUpReads
  <1>5. CASE ~ (rep.committed >= catchUp.goal)
    <2>1. catchUp' = c
      BY <1>1, <1>5
    <2>2. /\ pc \in {"rollback", "source"}
          /\ pc = "source" => rep.committed = Len(rep.log)
      BY <1>2
    <2>3. rep.committed =< catchUp.goal
      BY <1>2, <1>5
    <2> HIDE DEF pc
    <2>4. /\ c \in CatchUps(writes) /\ c.pc = pc /\ c.from = rep.committed
          /\ c.source = catchUp.source /\ c.target = catchUp.target /\ c.goal = catchUp.goal
      BY <1>2, <2>2 DEF CatchUps
    <2> HIDE DEF c
    <2>5. CatchUpInv'
      BY <1>1, <1>2, <2>1, <2>2, <2>3, <2>4 DEF CatchUpInv
    <2> QED
      BY <1>1, <1>2, <1>3, <2>1, <2>4, <2>5, CatchUpReads
  <1> QED
    BY <1>4, <1>5

LEMMA CatchUpReadsSourceStep ==
    ASSUME LogInv, CatchUpReadsSource
    PROVE  LogInv' /\ CommitsKept
  <1> DEFINE rep == replica[catchUp.source]
             from == catchUp.from
             goal == catchUp.goal
             copied == SubSeq(rep.log, from + 1, Min({goal, Len(rep.log)}))
             c == [catchUp EXCEPT !.pc = "append", !.entries = copied]
             d == [catchUp EXCEPT !.pc = "snapshot"]
  <1>1. /\ catchUp # NoCatchUp /\ catchUp.pc = "source"
        /\ catchUp' \in {c, d}
        /\ UNCHANGED <<replica, primary, historyVars>>
    BY DEF CatchUpReadsSource, appliedOffsetLocked
  <1>2. /\ \A n \in Nodes : primary[n].pc \notin Busy
        /\ catchUp \in CatchUps(writes)
        /\ catchUp.source \in Nodes /\ catchUp.target \in Nodes
        /\ catchUp.source # catchUp.target /\ goal \in Nat /\ from \in Nat
        /\ rep.committed = goal /\ Len(rep.log) = goal
        /\ \A r \in Nodes : settled[r] = Len(replica[r].log) /\ settled[r] =< goal
    BY <1>1, CatchUpAlone
  <1>3. from = Len(replica[catchUp.target].log) /\ from =< goal
    BY <1>1 DEF LogInv, CatchUpInv
  <1>4. rep.log \in Seq(1..writes)
    BY <1>2, SettledIsInt DEF LogInv
  <1>5. CASE catchUp' = d
    <2>1. /\ d \in CatchUps(writes) /\ d.pc = "snapshot" /\ d.from = from
          /\ d.source = catchUp.source /\ d.target = catchUp.target /\ d.goal = goal
      BY <1>2 DEF CatchUps
    <2> HIDE DEF d, c
    <2>2. CatchUpInv'
      BY <1>1, <1>2, <1>3, <1>5, <2>1 DEF CatchUpInv
    <2>3. \A r \in Nodes : Rewritten(r) => Rewritten(r)'
      BY <1>5, <2>1 DEF Rewritten, NoCatchUp
    <2> QED
      BY <1>1, <1>2, <1>5, <2>1, <2>2, <2>3, CatchUpReads
  <1>6. CASE catchUp' = c
    <2>1. Min({goal, Len(rep.log)}) = goal
      BY <1>2, MinOfTwo
    <2>2. copied = SubSeq(rep.log, from + 1, goal)
      BY <2>1
    <2> HIDE DEF copied
    <2>3. /\ copied \in Seq(1..writes) /\ from + Len(copied) = goal
          /\ \A i \in 1..Len(copied) : copied[i] = rep.log[from + i]
      <3>1. /\ copied \in Seq(1..writes) /\ Len(copied) = goal - from
            /\ \A i \in 1..(goal - from) : copied[i] = rep.log[from + i]
        <4>1. from =< goal /\ goal =< Len(rep.log) /\ goal \in Nat /\ from \in Nat
          BY <1>2, <1>3
        <4> HIDE DEF rep, from, goal
        <4>2. /\ SubSeq(rep.log, from + 1, goal) \in Seq(1..writes)
              /\ Len(SubSeq(rep.log, from + 1, goal)) = goal - from
              /\ \A i \in 1..(goal - from) :
                    SubSeq(rep.log, from + 1, goal)[i] = rep.log[from + i]
          BY <1>4, <4>1, SubSeqIs
        <4> QED
          BY <2>2, <4>2
      <3> QED
        BY <1>2, <3>1
    <2>4. /\ c \in CatchUps(writes) /\ c.pc = "append" /\ c.from = from /\ c.entries = copied
          /\ c.source = catchUp.source /\ c.target = catchUp.target /\ c.goal = goal
      BY <1>2, <2>3 DEF CatchUps
    <2> HIDE DEF c, d
    <2>5. CatchUpInv'
      BY <1>1, <1>2, <1>3, <1>6, <2>3, <2>4 DEF CatchUpInv
    <2>6. \A r \in Nodes : Rewritten(r) => Rewritten(r)'
      BY <1>6, <2>4 DEF Rewritten, NoCatchUp
    <2> QED
      BY <1>1, <1>2, <1>6, <2>4, <2>5, <2>6, CatchUpReads
  <1> QED
    BY <1>1, <1>5, <1>6

LEMMA CatchUpReadsSnapshotStep ==
    ASSUME LogInv, CatchUpReadsSnapshot
    PROVE  LogInv' /\ CommitsKept
  <1> DEFINE rep == replica[catchUp.source]
             goal == catchUp.goal
             c == [catchUp EXCEPT !.pc = "install", !.entries = Snapshot(rep)]
  <1>1. /\ catchUp # NoCatchUp /\ catchUp.pc = "snapshot" /\ catchUp' = c
        /\ UNCHANGED <<replica, primary, historyVars>>
    BY DEF CatchUpReadsSnapshot
  <1>2. /\ \A n \in Nodes : primary[n].pc \notin Busy
        /\ catchUp \in CatchUps(writes)
        /\ catchUp.source \in Nodes /\ catchUp.target \in Nodes
        /\ catchUp.source # catchUp.target /\ goal \in Nat
        /\ rep.committed = goal /\ Len(rep.log) = goal
        /\ \A r \in Nodes : settled[r] = Len(replica[r].log) /\ settled[r] =< goal
    BY <1>1, CatchUpAlone
  <1>3. rep.log \in Seq(1..writes)
    BY <1>2, SettledIsInt DEF LogInv
  <1>4. /\ Snapshot(rep) \in Seq(1..writes) /\ Len(Snapshot(rep)) = goal
        /\ \A i \in 1..goal : Snapshot(rep)[i] = rep.log[i]
    <2>1. Snapshot(rep) = SubSeq(rep.log, 1, goal) /\ goal =< Len(rep.log)
      BY <1>2 DEF Snapshot
    <2>2. goal \in Nat
      BY <1>2
    <2> HIDE DEF rep, goal
    <2>3. /\ SubSeq(rep.log, 1, goal) \in Seq(1..writes)
          /\ Len(SubSeq(rep.log, 1, goal)) = goal
          /\ \A i \in 1..goal : SubSeq(rep.log, 1, goal)[i] = rep.log[i]
      BY <1>3, <2>1, <2>2, PrefixIs
    <2> QED
      BY <2>1, <2>3
  <1>5. /\ c \in CatchUps(writes) /\ c.pc = "install" /\ c.entries = Snapshot(rep)
        /\ c.source = catchUp.source /\ c.target = catchUp.target /\ c.goal = goal
    BY <1>2, <1>4 DEF CatchUps
  <1> HIDE DEF c
  <1>6. CatchUpInv'
    BY <1>1, <1>2, <1>4, <1>5 DEF CatchUpInv
  <1>7. \A r \in Nodes : Rewritten(r) => Rewritten(r)'
    BY <1>1, <1>5 DEF Rewritten, NoCatchUp
  <1> QED
    BY <1>1, <1>2, <1>5, <1>6, <1>7, CatchUpReads

LEMMA CatchUpFailsStep ==
    ASSUME LogInv, CatchUpFails, faults' = {}
    PROVE  LogInv' /\ CommitsKept
  <1>1. /\ catchUp # NoCatchUp /\ catchUp.pc = "target" /\ catchUp' = NoCatchUp
        /\ UNCHANGED <<replica, primary, historyVars>>
    BY DEF CatchUpFails, Happens, If
  <1>2. \A n \in Nodes : primary[n].pc \notin Busy
    BY <1>1, CatchUpAlone
  <1>3. CatchUpInv'
    BY <1>1 DEF CatchUpInv, NoCatchUp
  <1>4. \A r \in Nodes : ~ Rewritten(r)
    BY <1>1 DEF Rewritten
  <1> QED
    BY <1>1, <1>2, <1>3, <1>4, CatchUpReads

LEMMA CatchUpRollsBackStep ==
    ASSUME LogInv, CatchUpRollsBack
    PROVE  LogInv' /\ CommitsKept
  <1> DEFINE goal == catchUp.goal
             c == [catchUp EXCEPT !.pc = "source"]
  <1>1. catchUp # NoCatchUp /\ catchUp.pc = "rollback" /\ UNCHANGED <<primary, historyVars>>
    BY DEF CatchUpRollsBack
  <1>2. /\ catchUp \in CatchUps(writes)
        /\ catchUp.source \in Nodes /\ catchUp.target \in Nodes
        /\ catchUp.source # catchUp.target /\ goal \in Nat
        /\ replica[catchUp.source].committed = goal
    BY <1>1, CatchUpAlone
  <1>3. PICK t \in Nodes : t = catchUp.target
    BY <1>2
  <1>4. \A r \in Nodes : /\ settled[r] = Len(replica[r].log) /\ settled[r] \in Nat
                         /\ replica[r].committed \in Nat /\ replica[r].committed =< settled[r]
                         /\ settled[r] =< goal
                         /\ \A i \in 1..settled[r] :
                               replica[r].log[i] = replica[catchUp.source].log[i]
    BY <1>1, CatchUpAlone
  <1>5. PICK from \in Nat : from = catchUp.from /\ from = replica[t].committed
    BY <1>1, <1>3, <1>4 DEF LogInv, CatchUpInv
  <1>6. CanRollback(replica[t], from + 1)
    BY <1>5 DEF CanRollback
  <1>7. /\ replica' = [replica EXCEPT ![t] = Rolledback(@, from + 1)]
        /\ catchUp' = c
    BY <1>3, <1>5, <1>6 DEF CatchUpRollsBack
  <1>8. /\ writes \in Nat /\ replica \in [Nodes -> Replicas(writes)]
        /\ replica[t] \in Replicas(writes)
    BY DEF LogInv, Typed
  <1>9. PICK rep : rep = Rolledback(replica[t], from + 1)
    OBVIOUS
  <1>10. /\ rep \in Replicas(writes) /\ rep.committed = from /\ Len(rep.log) = from
         /\ \A i \in 1..from : rep.log[i] = replica[t].log[i]
    <2>1. /\ from + 1 \in Nat /\ from + 1 >= 1 /\ (from + 1) - 1 = from
          /\ (from + 1) - 1 =< Len(replica[t].log)
      BY <1>4, <1>5
    <2> QED
      BY <1>5, <1>8, <1>9, <2>1, RolledbackIs
  <1>11. from =< goal /\ \A i \in 1..from : rep.log[i] = replica[catchUp.source].log[i]
    <2>1. \A i \in 1..from : i \in 1..settled[t]
      BY <1>4, <1>5
    <2> QED
      BY <1>2, <1>4, <1>5, <1>10, <2>1
  <1>12. replica' = [replica EXCEPT ![t] = rep]
    BY <1>7, <1>9
  <1>13. /\ c \in CatchUps(writes) /\ c.pc = "source" /\ c.from = from
         /\ c.source = catchUp.source /\ c.target = t /\ c.goal = goal
    BY <1>2, <1>3, <1>5 DEF CatchUps
  <1> HIDE DEF c
  <1>14. Rewritten(t)'
    BY <1>7, <1>13 DEF Rewritten, NoCatchUp
  <1>15. CatchUpInv'
    <2>1. /\ replica'[t] = rep /\ \A r \in Nodes \ {t} : replica'[r] = replica[r]
      BY <1>8, <1>12
    <2>2. \A r \in Nodes : Len(replica'[r].log) =< goal
      BY <1>4, <1>10, <1>11, <2>1
    <2>3. replica'[catchUp.source].committed = goal /\ Len(replica'[t].log) = from
      BY <1>2, <1>3, <1>10, <2>1
    <2> QED
      BY <1>2, <1>3, <1>7, <1>11, <1>13, <2>2, <2>3 DEF CatchUpInv
  <1> QED
    <2>1. /\ replica[t].committed =< rep.committed /\ rep.committed =< Len(rep.log)
          /\ Len(rep.log) =< goal
          /\ \A i \in 1..Len(rep.log) : rep.log[i] = replica[catchUp.source].log[i]
      BY <1>5, <1>10, <1>11
    <2> QED
      BY <1>1, <1>3, <1>7, <1>10, <1>12, <1>13, <1>14, <1>15, <2>1, CatchUpWrites

LEMMA CatchUpAppendsStep ==
    ASSUME LogInv, CatchUpAppends
    PROVE  LogInv' /\ CommitsKept
  <1> DEFINE goal == catchUp.goal
             entries == catchUp.entries
             c == [catchUp EXCEPT !.from = @ + 1, !.entries = Tail(@)]
  <1>1. /\ catchUp # NoCatchUp /\ catchUp.pc = "append" /\ entries # << >>
        /\ UNCHANGED <<primary, historyVars>>
    BY DEF CatchUpAppends
  <1>2. /\ catchUp \in CatchUps(writes)
        /\ catchUp.source \in Nodes /\ catchUp.target \in Nodes
        /\ catchUp.source # catchUp.target /\ goal \in Nat /\ entries \in Seq(1..writes)
        /\ replica[catchUp.source].committed = goal
    BY <1>1, CatchUpAlone
  <1>3. PICK t \in Nodes : t = catchUp.target
    BY <1>2
  <1>4. \A r \in Nodes : /\ settled[r] = Len(replica[r].log) /\ settled[r] \in Nat
                         /\ replica[r].committed \in Nat /\ replica[r].committed =< settled[r]
                         /\ settled[r] =< goal
                         /\ \A i \in 1..settled[r] :
                               replica[r].log[i] = replica[catchUp.source].log[i]
    BY <1>1, CatchUpAlone
  <1>5. PICK from \in Nat : from = catchUp.from /\ from = Len(replica[t].log)
    BY <1>1, <1>3, <1>4 DEF LogInv, CatchUpInv
  <1>6. /\ from + Len(entries) = goal
        /\ \A i \in 1..Len(entries) : entries[i] = replica[catchUp.source].log[from + i]
    BY <1>1, <1>5 DEF LogInv, CatchUpInv
  <1>7. /\ Len(entries) \in Nat /\ Len(entries) >= 1 /\ Head(entries) = entries[1]
        /\ Head(entries) \in 1..writes /\ Tail(entries) \in Seq(1..writes)
        /\ Len(Tail(entries)) = Len(entries) - 1
        /\ \A i \in 1..(Len(entries) - 1) : Tail(entries)[i] = entries[i + 1]
    <2>1. \A S : \A e \in Seq(S) : e # << >> =>
             /\ Len(e) \in Nat /\ Len(e) >= 1 /\ Head(e) = e[1]
             /\ Head(e) \in S /\ Tail(e) \in Seq(S)
             /\ Len(Tail(e)) = Len(e) - 1
             /\ \A i \in 1..(Len(e) - 1) : Tail(e)[i] = e[i + 1]
      OBVIOUS
    <2> QED
      BY <1>1, <1>2, <2>1, Zenon
  <1>8. /\ replica' = [replica EXCEPT ![t] = Appended(@, Head(entries))]
        /\ catchUp' = c
    <2>1. CanAppend(replica[t], from + 1)
      BY <1>5 DEF CanAppend, appliedOffsetLocked
    <2> QED
      BY <1>3, <1>5, <2>1 DEF CatchUpAppends
  <1>9. /\ writes \in Nat /\ replica \in [Nodes -> Replicas(writes)]
        /\ replica[t] \in Replicas(writes)
    BY DEF LogInv, Typed
  <1>10. PICK rep : rep = Appended(replica[t], Head(entries))
    OBVIOUS
  <1>11. /\ rep \in Replicas(writes) /\ rep.committed = replica[t].committed
         /\ Len(rep.log) = from + 1
         /\ \A i \in 1..from : rep.log[i] = replica[t].log[i]
         /\ rep.log[from + 1] = Head(entries)
    BY <1>5, <1>7, <1>9, <1>10, AppendedIs
  <1>12. /\ from + 1 =< goal
         /\ \A i \in 1..(from + 1) : rep.log[i] = replica[catchUp.source].log[i]
    <2>1. from + 1 =< goal
      BY <1>2, <1>6, <1>7
    <2>2. \A i \in 1..from : rep.log[i] = replica[catchUp.source].log[i]
      BY <1>4, <1>5, <1>11
    <2>3. rep.log[from + 1] = replica[catchUp.source].log[from + 1]
      BY <1>6, <1>7, <1>11
    <2>4. \A i \in 1..(from + 1) : i \in 1..from \/ i = from + 1
      OBVIOUS
    <2> QED
      BY <2>1, <2>2, <2>3, <2>4
  <1>13. replica' = [replica EXCEPT ![t] = rep]
    BY <1>8, <1>10
  <1>14. /\ c \in CatchUps(writes) /\ c.pc = "append" /\ c.from = from + 1
         /\ c.entries = Tail(entries)
         /\ c.source = catchUp.source /\ c.target = t /\ c.goal = goal
    <2>1. PICK tail \in Seq(1..writes) : tail = Tail(entries)
      BY <1>7
    <2>2. c = [catchUp EXCEPT !.from = from + 1, !.entries = tail]
      BY <1>2, <1>5, <2>1 DEF CatchUps
    <2>3. from + 1 \in Nat
      OBVIOUS
    <2> HIDE DEF c
    <2> QED
      BY <1>1, <1>2, <1>3, <2>1, <2>2, <2>3 DEF CatchUps
  <1> HIDE DEF c
  <1>15. Rewritten(t)'
    BY <1>8, <1>14 DEF Rewritten, NoCatchUp
  <1>16. CatchUpInv'
    <2>1. /\ replica'[t] = rep /\ \A r \in Nodes \ {t} : replica'[r] = replica[r]
      BY <1>9, <1>13
    <2>2. \A r \in Nodes : Len(replica'[r].log) =< goal
      BY <1>4, <1>11, <1>12, <2>1
    <2>3. /\ replica'[catchUp.source] = replica[catchUp.source]
          /\ replica'[catchUp.source].committed = goal /\ Len(replica'[t].log) = from + 1
      BY <1>2, <1>3, <1>11, <2>1
    <2>4. (from + 1) + Len(Tail(entries)) = goal
      <3> HIDE DEF entries, goal
      <3>1. \A k \in Nat : (from + 1) + (k - 1) = from + k
        OBVIOUS
      <3> QED
        BY <1>6, <1>7, <3>1
    <2>5. ASSUME NEW i \in 1..Len(Tail(entries))
          PROVE  Tail(entries)[i] = replica'[catchUp.source].log[(from + 1) + i]
      <3>1. i \in 1..(Len(entries) - 1) /\ i + 1 \in 1..Len(entries) /\ (from + 1) + i = from + (i + 1)
        BY <1>7
      <3> QED
        BY <1>6, <1>7, <2>3, <3>1
    <2> QED
      BY <1>2, <1>3, <1>8, <1>14, <2>2, <2>3, <2>4, <2>5 DEF CatchUpInv
  <1> QED
    <2>1. /\ replica[t].committed =< rep.committed /\ rep.committed =< Len(rep.log)
          /\ Len(rep.log) =< goal
          /\ \A i \in 1..Len(rep.log) : rep.log[i] = replica[catchUp.source].log[i]
      BY <1>4, <1>5, <1>11, <1>12
    <2> QED
      BY <1>1, <1>3, <1>8, <1>11, <1>13, <1>14, <1>15, <1>16, <2>1, CatchUpWrites

\* A CatchUp that ends after it made its target as long as the source.
LEMMA CatchUpEnds ==
    ASSUME LogInv, catchUp # NoCatchUp, NEW t \in Nodes, t = catchUp.target,
           NEW rep \in Replicas(writes),
           replica' = [replica EXCEPT ![t] = rep], UNCHANGED <<primary, historyVars>>,
           rep.committed = catchUp.goal, Len(rep.log) = catchUp.goal,
           \A i \in 1..catchUp.goal : rep.log[i] = replica[catchUp.source].log[i],
           catchUp' = NoCatchUp
    PROVE  LogInv' /\ CommitsKept
  <1>1. replica[t].committed =< rep.committed /\ catchUp.goal \in Nat
    <2>1. /\ catchUp.goal \in Nat /\ replica[t].committed \in Nat /\ settled[t] \in Nat
          /\ replica[t].committed =< settled[t] /\ settled[t] =< catchUp.goal
      BY CatchUpAlone
    <2> QED
      BY <2>1
  <1>2. CatchUpInv'
    BY DEF CatchUpInv, NoCatchUp
  <1>3. /\ rep.committed =< Len(rep.log) /\ Len(rep.log) =< catchUp.goal
        /\ \A i \in 1..Len(rep.log) : rep.log[i] = replica[catchUp.source].log[i]
    BY <1>1
  <1>4. catchUp' # NoCatchUp => catchUp' \in CatchUps(writes)
    OBVIOUS
  <1> QED
    BY <1>1, <1>2, <1>3, <1>4, CatchUpWrites

LEMMA CatchUpInstallsStep ==
    ASSUME LogInv, CatchUpInstalls
    PROVE  LogInv' /\ CommitsKept
  <1>1. /\ catchUp # NoCatchUp /\ catchUp.pc = "install" /\ catchUp' = NoCatchUp
        /\ UNCHANGED <<primary, historyVars>>
    BY DEF CatchUpInstalls
  <1>2. PICK t \in Nodes : t = catchUp.target
    BY <1>1, CatchUpAlone
  <1>3. PICK rep : rep = Installed(catchUp.entries)
    OBVIOUS
  <1>4. replica' = [replica EXCEPT ![t] = rep]
    BY <1>2, <1>3 DEF CatchUpInstalls
  <1>5. /\ catchUp.entries \in Seq(1..writes) /\ Len(catchUp.entries) = catchUp.goal
        /\ \A i \in 1..catchUp.goal : catchUp.entries[i] = replica[catchUp.source].log[i]
    BY <1>1, CatchUpAlone DEF LogInv, CatchUpInv
  <1>6. /\ rep \in Replicas(writes) /\ rep.committed = catchUp.goal /\ rep.log = catchUp.entries
    BY <1>3, <1>5 DEF Installed, Replicas
  <1> QED
    BY <1>1, <1>2, <1>4, <1>5, <1>6, CatchUpEnds

LEMMA CatchUpCommitsStep ==
    ASSUME LogInv, CatchUpCommits
    PROVE  LogInv' /\ CommitsKept
  <1>1. /\ catchUp # NoCatchUp /\ catchUp.pc = "append" /\ catchUp.entries = << >>
        /\ catchUp' = NoCatchUp /\ UNCHANGED <<primary, historyVars>>
    BY DEF CatchUpCommits
  <1>2. PICK t \in Nodes : t = catchUp.target
    BY <1>1, CatchUpAlone
  <1>3. /\ settled[t] = Len(replica[t].log) /\ settled[t] \in Nat /\ catchUp.goal \in Nat
        /\ replica[t].committed \in Nat /\ replica[t].committed =< settled[t]
        /\ \A i \in 1..settled[t] : replica[t].log[i] = replica[catchUp.source].log[i]
    BY <1>1, CatchUpAlone
  <1>4. Len(replica[t].log) = catchUp.goal
    BY <1>1, <1>2, <1>3 DEF LogInv, CatchUpInv
  <1>5. PICK rep : rep = Committed(replica[t], catchUp.goal)
    OBVIOUS
  <1>6. replica' = [replica EXCEPT ![t] = rep]
    <2>1. CanCommit(replica[t], catchUp.goal)
      BY <1>3, <1>4 DEF CanCommit, appliedOffsetLocked
    <2> QED
      BY <1>2, <1>5, <2>1 DEF CatchUpCommits
  <1>7. /\ rep \in Replicas(writes) /\ rep.committed = catchUp.goal /\ rep.log = replica[t].log
    <2>1. writes \in Nat /\ replica[t] \in Replicas(writes)
      BY DEF LogInv, Typed
    <2> QED
      BY <1>3, <1>5, <2>1, CommittedIs
  <1>8. /\ Len(rep.log) = catchUp.goal
        /\ \A i \in 1..catchUp.goal : rep.log[i] = replica[catchUp.source].log[i]
    BY <1>3, <1>4, <1>7
  <1> QED
    BY <1>1, <1>2, <1>6, <1>7, <1>8, CatchUpEnds

-----------------------------------------------------------------------------
(* The theorems about the log.                                             *)

LEMMA LogStarts == Init => LogInv
  <1> SUFFICES ASSUME Init PROVE LogInv
    OBVIOUS
  <1>1. /\ replica = [r \in Nodes |-> [log |-> << >>, committed |-> 0, floor |-> 0]]
        /\ primary = [n \in Nodes |-> NoPrimary]
        /\ catchUp = NoCatchUp /\ writes = 0 /\ acked = {} /\ refused = {}
    BY DEF Init
  <1>2. \A r \in Nodes : /\ replica[r] \in Replicas(writes)
                         /\ replica[r].log = << >> /\ replica[r].committed = 0
    BY <1>1 DEF Replicas
  <1>3. \A n \in Nodes : primary[n] \in Primaries /\ primary[n].pc \notin Busy
    BY <1>1, NoPrimaryIsPrimary DEF Busy, Undecided
  <1>4. Typed
    <2>1. replica \in [Nodes -> Replicas(writes)] /\ primary \in [Nodes -> Primaries]
      BY <1>1, <1>2, <1>3
    <2> QED
      BY <1>1, <2>1 DEF Typed
  <1>5. pending = {}
    BY <1>3, PendingOfNone DEF pending
  <1>6. \A r \in Nodes : settled[r] = 0
    BY <1>2, <1>5 DEF settled
  <1>7. Committal
    BY <1>2, <1>6 DEF Committal
  <1>8. Agreed /\ Backed /\ Unrefused
    BY <1>6 DEF Agreed, Backed, Unrefused
  <1>9. Recorded
    BY <1>1 DEF Recorded
  <1>10. Exclusive
    BY <1>3 DEF Exclusive
  <1>11. CatchUpInv
    BY <1>1 DEF CatchUpInv
  <1>12. ASSUME NEW n \in Nodes
         PROVE  WriteInv(n)
    BY <1>3 DEF WriteInv, Busy, Undecided
  <1> QED
    BY <1>4, <1>7, <1>8, <1>9, <1>10, <1>11, <1>12 DEF LogInv

\* A step that changes none of what LogInv is about.
LEMMA NothingHappens ==
    ASSUME LogInv, UNCHANGED <<replica, primary, catchUp, historyVars>>
    PROVE  LogInv' /\ CommitsKept
  <1>1. /\ replica' = replica /\ primary' = primary /\ catchUp' = catchUp /\ writes' = writes
        /\ acked' = acked /\ refused' = refused
    BY DEF historyVars
  <1>2. settled' = settled /\ \A r \in Nodes : Rewritten(r) <=> Rewritten(r)'
    BY <1>1 DEF settled, pending, Rewritten
  <1>3. Typed' /\ Exclusive' /\ Committal' /\ Agreed' /\ Unrefused' /\ Recorded'
    BY <1>1, <1>2 DEF LogInv, Typed, Exclusive, Committal, Agreed, Unrefused, Recorded
  <1>4. Backed'
    BY <1>2, BackedKept DEF LogInv
  <1>5. CatchUpInv' /\ \A n \in Nodes : WriteInv(n)'
    BY <1>1, <1>2 DEF LogInv, CatchUpInv, WriteInv
  <1>6. CommitsKept
    <2>1. SettledSame
      BY <1>1, <1>2 DEF SettledSame
    <2> QED
      BY <2>1, SettledSameKeepsCommits DEF LogInv
  <1> QED
    BY <1>3, <1>4, <1>5, <1>6 DEF LogInv

LEMMA LogKept ==
    ASSUME ElectionInv, LogInv, [Next]_vars, faults' = {}
    PROVE  LogInv' /\ CommitsKept
  <1>1. CASE Expires \/ UNCHANGED vars
    BY <1>1, NothingHappens DEF Expires, vars
  <1>2. ASSUME NEW n \in Nodes, Campaign(n) \/ Renew(n)
        PROVE  LogInv' /\ CommitsKept
    BY <1>2, NothingHappens DEF Campaign, Renew
  <1>3. ASSUME NEW n \in Nodes,
               \/ NewPrimary(n) \/ Write(n) \/ AppendsLocally(n) \/ Decides(n) \/ Refuses(n)
               \/ CommitsLocally(n) \/ Acknowledges(n) \/ PrimaryEnds(n) \/ Compacts(n)
        PROVE  LogInv' /\ CommitsKept
    BY <1>3, IdleStep, WriteStep, AppendsLocallyStep, DecidesStep, RefusesStep,
       CommitsLocallyStep, AcknowledgesStep, CompactsStep
  <1>4. ASSUME NEW n \in Nodes, NEW r \in Nodes,
               \/ AppendsAtPeer(n, r) \/ RollsBack(n, r) \/ CommitsAtPeer(n, r)
               \/ CatchUpStarts(n, r)
        PROVE  LogInv' /\ CommitsKept
    BY <1>4, AppendsAtPeerStep, RollsBackStep, CommitsAtPeerStep, CatchUpStartsStep
  <1>5. CASE \/ CatchUpReadsTarget \/ CatchUpRollsBack \/ CatchUpReadsSource
             \/ CatchUpReadsSnapshot \/ CatchUpInstalls \/ CatchUpAppends
             \/ CatchUpCommits \/ CatchUpFails
    BY <1>5, CatchUpReadsTargetStep, CatchUpRollsBackStep, CatchUpReadsSourceStep,
       CatchUpReadsSnapshotStep, CatchUpInstallsStep, CatchUpAppendsStep, CatchUpCommitsStep,
       CatchUpFailsStep
  <1> QED
    BY <1>1, <1>2, <1>3, <1>4, <1>5 DEF Next

\* A fault that happened has happened.
LEMMA FaultsStay ==
    ASSUME [Next]_vars, faults' = {}
    PROVE  faults = {}
  <1>1. ASSUME NEW some, Happens(some)
        PROVE  faults = {}
    BY <1>1 DEF Happens
  <1>2. CASE Expires \/ UNCHANGED vars
    BY <1>2 DEF Expires, vars
  <1>3. ASSUME NEW n \in Nodes,
               \/ Campaign(n) \/ Renew(n) \/ NewPrimary(n) \/ AppendsLocally(n) \/ Decides(n)
               \/ Refuses(n) \/ Acknowledges(n) \/ Compacts(n)
        PROVE  faults = {}
    BY <1>3 DEF Campaign, Renew, NewPrimary, AppendsLocally, Decides, Refuses, Acknowledges,
                Compacts
  <1>4. ASSUME NEW n \in Nodes, Write(n) \/ CommitsLocally(n) \/ PrimaryEnds(n)
        PROVE  faults = {}
    BY <1>1, <1>4 DEF Write, CommitsLocally, PrimaryEnds
  <1>5. ASSUME NEW n \in Nodes, NEW r \in Nodes,
               \/ AppendsAtPeer(n, r) \/ RollsBack(n, r) \/ CommitsAtPeer(n, r)
               \/ CatchUpStarts(n, r)
        PROVE  faults = {}
    BY <1>1, <1>5 DEF AppendsAtPeer, RollsBack, CommitsAtPeer, CatchUpStarts
  <1>6. CASE \/ CatchUpReadsTarget \/ CatchUpRollsBack \/ CatchUpReadsSource
             \/ CatchUpReadsSnapshot \/ CatchUpInstalls \/ CatchUpAppends \/ CatchUpCommits
    BY <1>6 DEF CatchUpReadsTarget, CatchUpRollsBack, CatchUpReadsSource, CatchUpReadsSnapshot,
                CatchUpInstalls, CatchUpAppends, CatchUpCommits
  <1>7. CASE CatchUpFails
    BY <1>1, <1>7 DEF CatchUpFails
  <1> QED
    BY <1>2, <1>3, <1>4, <1>5, <1>6, <1>7 DEF Next

\* The invariant of the whole: the election's whatever fails, the log's as long
\* as nothing failed.
ReplicationInv == ElectionInv /\ (faults = {} => LogInv)

\* For every number of nodes, terms and writes, as long as no fault of the list
\* happened: what is settled is agreed on, backed by a majority and committed
\* somewhere, and a running Write or CatchUp is where the code assumes it to be.
THEOREM ReplicationInvariant == Spec => []ReplicationInv
  <1>1. Init => ReplicationInv
    BY ElectionStarts, LogStarts DEF ReplicationInv
  <1>2. ReplicationInv /\ [Next]_vars => ReplicationInv'
    BY ElectionKept, LogKept, FaultsStay DEF ReplicationInv
  <1> QED
    BY <1>1, <1>2, PTL DEF Spec

\* Replicas agree on what they have both committed.
THEOREM ReplicasAgree == Spec => []CommittedAgree
  <1>1. ReplicationInv => CommittedAgree
    <2> SUFFICES ASSUME LogInv, NEW r \in Nodes, NEW s \in Nodes, NEW i \in 1..Common(r, s)
                 PROVE  replica[r].log[i] = replica[s].log[i]
      BY DEF ReplicationInv, CommittedAgree
    <2>1. Typed /\ Committal /\ Agreed
      BY DEF LogInv
    <2>2. /\ replica[r].committed \in Nat /\ replica[s].committed \in Nat
          /\ settled[r] \in Int /\ settled[s] \in Int
          /\ replica[r].committed =< settled[r] /\ replica[s].committed =< settled[s]
      BY <2>1, SettledIsInt DEF Committal
    <2>3. Common(r, s) = IF replica[r].committed =< replica[s].committed
                            THEN replica[r].committed ELSE replica[s].committed
      BY <2>2, MinOfTwo DEF Common
    <2>4. i \in 1..settled[r] /\ i =< settled[s]
      BY <2>2, <2>3
    <2> QED
      BY <2>1, <2>4 DEF Agreed
  <1> QED
    BY <1>1, ReplicationInvariant, PTL

\* A Write that returned an offset has its mutation there on a majority.
THEOREM AcknowledgedIsOnMajority == Spec => []AckedOnMajority
  <1>1. ReplicationInv => AckedOnMajority
    <2> SUFFICES ASSUME LogInv, NEW a \in acked
                 PROVE  Cardinality({r \in Nodes : Holds(r, a[1], a[2]) \/ CaughtUp(r)}) >= Quorum
      BY DEF ReplicationInv, AckedOnMajority
    <2> DEFINE holders == {r \in Nodes : Holds(r, a[1], a[2]) \/ CaughtUp(r)}
    <2>1. Typed /\ Committal /\ Agreed /\ Backed /\ Recorded
      BY DEF LogInv
    <2>2. PICK r \in Nodes : a[1] \in 1..replica[r].committed /\ replica[r].log[a[1]] = a[2]
      BY <2>1 DEF Recorded
    <2>3. a[1] \in 1..settled[r]
      <3>1. /\ replica[r].committed \in Nat /\ settled[r] \in Int
            /\ replica[r].committed =< settled[r]
        BY <2>1, SettledIsInt DEF Committal
      <3> QED
        BY <2>2, <3>1
    <2>4. Cardinality(Backers(a[1])) >= Quorum
      BY <2>1, <2>3 DEF Backed
    <2>5. ASSUME NEW s \in Backers(a[1])
          PROVE  s \in holders
      <3>1. CASE Rewritten(s)
        BY <3>1 DEF Backers, Rewritten, CaughtUp
      <3>2. CASE s \in Nodes /\ a[1] =< settled[s]
        <4>1. replica[s].log[a[1]] = a[2]
          BY <2>1, <2>2, <2>3, <3>2 DEF Agreed
        <4>2. settled[s] \in Int /\ settled[s] =< Len(replica[s].log) /\ Len(replica[s].log) \in Nat
          BY <2>1, <3>2, SettledIsInt
        <4>3. a[1] =< Len(replica[s].log)
          BY <2>2, <3>2, <4>2
        <4> QED
          BY <3>2, <4>1, <4>3 DEF Holds
      <3> QED
        BY <3>1, <3>2 DEF Backers
    <2>6. Backers(a[1]) \in SUBSET Nodes /\ holders \in SUBSET Nodes
      BY DEF Backers
    <2> QED
      BY <2>4, <2>5, <2>6, MoreIsQuorum
  <1> QED
    BY <1>1, ReplicationInvariant, PTL

\* A Write that was refused is committed nowhere.
THEOREM RefusedIsNotCommitted == Spec => []RefusedNotCommitted
  <1>1. ReplicationInv => RefusedNotCommitted
    <2> SUFFICES ASSUME LogInv, NEW r \in Nodes, NEW i \in 1..replica[r].committed
                 PROVE  replica[r].log[i] \notin refused
      BY DEF ReplicationInv, RefusedNotCommitted
    <2>1. /\ replica[r].committed \in Nat /\ settled[r] \in Int
          /\ replica[r].committed =< settled[r]
      BY SettledIsInt DEF LogInv, Committal
    <2>2. i \in 1..settled[r]
      BY <2>1
    <2> QED
      BY <2>2 DEF LogInv, Unrefused
  <1> QED
    BY <1>1, ReplicationInvariant, PTL

LEMMA LongerPrefix ==
    ASSUME NEW S, NEW s \in Seq(S), NEW T, NEW u \in Seq(T), NEW c \in Nat, NEW d \in Nat,
           c =< Len(s), d =< Len(u), c =< d, \A i \in 1..c : u[i] = s[i]
    PROVE  IsPrefix(SubSeq(s, 1, c), SubSeq(u, 1, d))
  <1> DEFINE a == SubSeq(s, 1, c)
             b == SubSeq(u, 1, d)
  <1>1. /\ a \in Seq(S) /\ Len(a) = c /\ \A i \in 1..c : a[i] = s[i]
    BY PrefixIs
  <1>2. /\ b \in Seq(T) /\ Len(b) = d /\ \A i \in 1..d : b[i] = u[i]
    BY PrefixIs
  <1> HIDE DEF a, b
  <1>3. /\ SubSeq(a, 1, c) \in Seq(S) /\ Len(SubSeq(a, 1, c)) = c
        /\ \A i \in 1..c : SubSeq(a, 1, c)[i] = a[i]
    BY <1>1, PrefixIs
  <1>4. /\ SubSeq(b, 1, c) \in Seq(T) /\ Len(SubSeq(b, 1, c)) = c
        /\ \A i \in 1..c : SubSeq(b, 1, c)[i] = b[i]
    BY <1>2, PrefixIs
  <1>5. \A i \in 1..c : SubSeq(a, 1, c)[i] = SubSeq(b, 1, c)[i]
    <2>1. \A i \in 1..c : i \in 1..d
      OBVIOUS
    <2> QED
      BY <1>1, <1>2, <1>3, <1>4, <2>1
  <1>6. SubSeq(a, 1, c) = SubSeq(b, 1, c)
    <2>1. \A i \in 1..c : SubSeq(a, 1, c)[i] \in T
      BY <1>4, <1>5
    <2>2. SubSeq(a, 1, c) \in Seq(S \union T) /\ SubSeq(b, 1, c) \in Seq(S \union T)
      BY <1>3, <1>4
    <2> QED
      BY <1>3, <1>4, <1>5, <2>2
  <1> QED
    BY <1>1, <1>2, <1>6 DEF IsPrefix, a, b

\* No step takes a committed entry away from a replica or replaces it.
THEOREM CommitsStay == Spec => CommittedIsKept
  <1>1. ReplicationInv /\ ReplicationInv' /\ [Next]_vars =>
           [faults' = {} => \A r \in Nodes : IsPrefix(Snapshot(replica[r]), Snapshot(replica'[r]))]_vars
    <2> SUFFICES ASSUME ReplicationInv, ReplicationInv', [Next]_vars, faults' = {}, NEW r \in Nodes
                 PROVE  IsPrefix(Snapshot(replica[r]), Snapshot(replica'[r]))
      OBVIOUS
    <2>1. LogInv /\ LogInv' /\ CommitsKept
      BY FaultsStay, LogKept DEF ReplicationInv
    <2>2. /\ replica[r].log \in Seq(1..writes) /\ replica[r].committed \in Nat
          /\ replica[r].committed =< Len(replica[r].log)
      <3>1. /\ replica[r].log \in Seq(1..writes) /\ replica[r].committed \in Nat
            /\ settled[r] \in Int /\ settled[r] =< Len(replica[r].log)
            /\ Len(replica[r].log) \in Nat /\ replica[r].committed =< settled[r]
        BY <2>1, SettledIsInt DEF LogInv, Committal
      <3> QED
        BY <3>1
    <2>3. /\ replica'[r].log \in Seq(1..writes') /\ replica'[r].committed \in Nat
          /\ replica'[r].committed =< Len(replica'[r].log)
      <3>1. /\ replica'[r].log \in Seq(1..writes') /\ replica'[r].committed \in Nat
            /\ Len(replica'[r].log) \in Nat
        BY <2>1 DEF LogInv, Typed, Replicas
      <3>2. settled'[r] =< Len(replica'[r].log) /\ settled'[r] \in Int
        BY <3>1 DEF settled
      <3>3. replica'[r].committed =< settled'[r]
        BY <2>1 DEF LogInv, Committal
      <3> QED
        BY <3>1, <3>2, <3>3
    <2>4. /\ replica[r].committed =< replica'[r].committed
          /\ \A i \in 1..replica[r].committed : replica'[r].log[i] = replica[r].log[i]
      BY <2>1 DEF CommitsKept
    <2> QED
      BY <2>2, <2>3, <2>4, LongerPrefix DEF Snapshot
  <1> QED
    BY <1>1, ReplicationInvariant, PTL DEF Spec, CommittedIsKept

=============================================================================
