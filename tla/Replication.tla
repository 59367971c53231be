---------------------------- MODULE Replication ----------------------------
(***************************************************************************)
(* Replicated writes of one shard: the election (election.go), Primary     *)
(* and CatchUp (protocol.go) of internal/replication, over replicas that   *)
(* behave as the one in replication_test.go, the only implementation of    *)
(* the Replica interface in the repository.                                *)
(*                                                                         *)
(* Every call on a replica is a step of its own and may fail.  A Write     *)
(* holds p.mu of its Primary, but a node that lost its lease may still be  *)
(* in the middle of one while the next leader writes.  Faults names what   *)
(* else may happen, and the variable faults what has:                      *)
(*   "lostAck"   a replica appends an entry and its answer is lost         *)
(*   "rollback"  a Rollback does not reach its replica                     *)
(*   "commit"    the primary's own Commit fails                            *)
(*   "crash"     the process of a primary ends in the middle of a Write    *)
(*   "catchUp"   CatchUp ends early because a call on the target failed    *)
(*   "overlap"   CatchUp runs while a Write runs                           *)
(*   "lagging"   CatchUp copies from a replica that is itself behind       *)
(*   "overtaken" a new leader writes before the Write of the last one ends *)
(*                                                                         *)
(* Time is abstract: a lease is live or it is not.                         *)
(***************************************************************************)
EXTENDS Integers, Sequences, SequencesExt, FiniteSets, FiniteSetsExt

CONSTANTS
    Nodes,          \* each holds a replica and may lead
    NoNode,
    Faults,
    MaxTerm,        \* bound on the terms
    MaxWrites       \* bound on the calls of Write

ASSUME ReplicationAssumption ==
    /\ IsFiniteSet(Nodes) /\ Nodes # {}
    /\ NoNode \notin Nodes
    /\ Faults \subseteq {"lostAck", "rollback", "commit", "crash", "catchUp",
                   "overlap", "lagging", "overtaken"}
    /\ MaxTerm \in Nat /\ MaxWrites \in Nat

VARIABLES
    current,    \* e.current: node, term, and whether the lease is live
    replica,    \* log: mutations by offset; committed; floor: historyFloor
    primary,    \* the Primary of each node and its Write
    catchUp,    \* the running CatchUp
    writes,     \* calls of Write so far; the n-th writes mutation n
    \* history variables
    faults,     \* the faults so far
    terms,      \* the nodes that each term was granted to
    acked,      \* the offset and mutation of each Write that returned an offset
    refused     \* the mutations whose Write returned ErrQuorumUnavailable

electionVars == <<current, terms>>
historyVars == <<writes, acked, refused>>
vars == <<electionVars, replica, primary, catchUp, historyVars, faults>>

\* A step that amounts to these faults.
Happens(some) == some \subseteq Faults /\ faults' = faults \union some
If(condition, fault) == IF condition THEN {fault} ELSE {}

-----------------------------------------------------------------------------
(* The election.                                                           *)

Grant(node, term) ==
    /\ current' = [node |-> node, term |-> term, live |-> TRUE]
    /\ terms' = [terms EXCEPT ![term] = @ \union {node}]

\* Mutant: a new leader takes over the term.
CampaignSameTerm(n) ==
    /\ current.live => current.node = n
    /\ Grant(n, current.term)
    /\ UNCHANGED <<replica, primary, catchUp, historyVars, faults>>

\* The clock is read before e.mu is taken: a node whose lease has just expired
\* may still get it extended.
Campaign(n) ==
    /\ current.live => current.node = n
    /\ \/ current.node = n /\ Grant(n, current.term)
       \/ /\ ~ current.live
          /\ current.term < MaxTerm
          /\ Grant(n, current.term + 1)
    /\ UNCHANGED <<replica, primary, catchUp, historyVars, faults>>

Renew(n) ==
    /\ current.node = n /\ current.term = primary[n].term
    /\ Grant(n, current.term)
    /\ UNCHANGED <<replica, primary, catchUp, historyVars, faults>>

Expires ==
    /\ current.live
    /\ current' = [current EXCEPT !.live = FALSE]
    /\ UNCHANGED <<terms, replica, primary, catchUp, historyVars, faults>>

Validate(n, term) == current = [node |-> n, term |-> term, live |-> TRUE]

-----------------------------------------------------------------------------
(* A replica: what the methods accept and what they do.                    *)

appliedOffsetLocked(rep) == Len(rep.log)
\* Mutant: no check that an entry follows the last one.
CanAppendAnywhere(rep, offset) == offset > rep.committed

CanAppend(rep, offset) == offset = appliedOffsetLocked(rep) + 1
Appended(rep, mutation) == [rep EXCEPT !.log = Append(@, mutation)]

CanCommit(rep, offset) == rep.committed =< offset /\ offset =< appliedOffsetLocked(rep)
Committed(rep, offset) == [rep EXCEPT !.committed = offset]

CanRollback(rep, offset) == offset > rep.committed
\* Mutants: one entry too few, one too many.
RolledbackShort(rep, offset) ==
    [rep EXCEPT !.log = SubSeq(@, 1, Min({offset, appliedOffsetLocked(rep)}))]
RolledbackFurther(rep, offset) ==
    LET last == Max({0, offset - 2})
    IN  [rep EXCEPT !.log = SubSeq(@, 1, Min({last, Len(@)})), !.committed = Min({last, @})]

Rolledback(rep, offset) ==
    [rep EXCEPT !.log = SubSeq(@, 1, Min({offset - 1, appliedOffsetLocked(rep)}))]

\* Entries(after) answers with entries and not with "not available".
HasEntries(rep, after) == after >= rep.floor

\* A snapshot is the effect of the committed mutations.
Snapshot(rep) == SubSeq(rep.log, 1, rep.committed)
Installed(snapshot) ==
    [log |-> snapshot, committed |-> Len(snapshot), floor |-> Len(snapshot)]

\* A replica forgets the entries behind its snapshot.
Compacts(r) ==
    /\ replica[r].floor < replica[r].committed
    /\ replica' = [replica EXCEPT ![r].floor = replica[r].committed]
    /\ UNCHANGED <<electionVars, primary, catchUp, historyVars, faults>>

-----------------------------------------------------------------------------
(* Primary.                                                                *)

Peers(n) == Nodes \ {n}
\* Mutant: half of the replicas.
QuorumHalf == Cardinality(Nodes) \div 2

Quorum == Cardinality(Nodes) \div 2 + 1

Idle(term) == [pc |-> "idle", term |-> term, offset |-> 0, mutation |-> 0, asked |-> {}, acknowledged |-> {}]
NoPrimary == [Idle(0) EXCEPT !.pc = "none"]
NoCatchUp == [pc |-> "none"]

Writing == \E n \in Nodes : primary[n].pc \notin {"none", "idle"}

\* One Primary of a node at a time.  The code lets a second one be made during a Write
\* of the first; if both write at once, that is excluded as "overtaken" is.
NewPrimary(n) ==
    /\ primary[n].pc \in {"none", "idle"}
    /\ Validate(n, current.term)
    /\ primary' = [primary EXCEPT ![n] = Idle(current.term)]
    /\ UNCHANGED <<electionVars, replica, catchUp, historyVars, faults>>

Goes(n, fields) == primary' = [primary EXCEPT ![n] = fields]
Returns(n) == Goes(n, Idle(primary[n].term))

\* Validate, and the status of the local replica.
Write(n) ==
    /\ primary[n].pc = "idle"
    /\ Validate(n, primary[n].term)
    /\ writes < MaxWrites
    /\ Happens(If(catchUp # NoCatchUp, "overlap") \union If(Writing, "overtaken"))
    /\ writes' = writes + 1
    /\ Goes(n, [primary[n] EXCEPT !.pc = "local", !.mutation = writes + 1,
                                  !.offset = appliedOffsetLocked(replica[n]) + 1])
    /\ UNCHANGED <<electionVars, replica, catchUp, acked, refused>>

AppendsLocally(n) ==
    /\ primary[n].pc = "local"
    /\ \/ /\ CanAppend(replica[n], primary[n].offset)
          /\ replica' = [replica EXCEPT ![n] = Appended(@, primary[n].mutation)]
          /\ Goes(n, [primary[n] EXCEPT !.pc = "asking", !.asked = Peers(n), !.acknowledged = {n}])
       \/ Returns(n) /\ UNCHANGED replica
    /\ UNCHANGED <<electionVars, catchUp, historyVars, faults>>

\* The goroutine of a peer: it appends, or returns an error.
AppendsAtPeer(n, r) ==
    LET answered == [primary[n] EXCEPT !.asked = @ \ {r}]
    IN  /\ primary[n].pc = "asking"
        /\ r \in primary[n].asked
        /\ \/ /\ CanAppend(replica[r], primary[n].offset)
              /\ replica' = [replica EXCEPT ![r] = Appended(@, primary[n].mutation)]
              /\ \/ Goes(n, [answered EXCEPT !.acknowledged = @ \union {r}]) /\ UNCHANGED faults
                 \/ Goes(n, answered) /\ Happens({"lostAck"})
           \/ Goes(n, answered) /\ UNCHANGED <<replica, faults>>
        /\ UNCHANGED <<electionVars, catchUp, historyVars>>

Decides(n) ==
    /\ primary[n].pc = "asking"
    /\ primary[n].asked = {}
    /\ Goes(n, [primary[n] EXCEPT !.pc =
                  IF Cardinality(primary[n].acknowledged) < Quorum THEN "rollback" ELSE "commit"])
    /\ UNCHANGED <<electionVars, replica, catchUp, historyVars, faults>>

\* Rollback of one acknowledged replica; its error is ignored.
RollsBack(n, r) ==
    /\ primary[n].pc = "rollback"
    /\ r \in primary[n].acknowledged
    /\ \/ /\ CanRollback(replica[r], primary[n].offset)
          /\ replica' = [replica EXCEPT ![r] = Rolledback(@, primary[n].offset)]
          /\ UNCHANGED faults
       \/ /\ Happens(If(CanRollback(replica[r], primary[n].offset), "rollback"))
          /\ UNCHANGED replica
    /\ Goes(n, [primary[n] EXCEPT !.acknowledged = @ \ {r}])
    /\ UNCHANGED <<electionVars, catchUp, historyVars>>

Refuses(n) ==
    /\ primary[n].pc = "rollback"
    /\ primary[n].acknowledged = {}
    /\ refused' = refused \union {primary[n].mutation}
    /\ Returns(n)
    /\ UNCHANGED <<electionVars, replica, catchUp, writes, acked, faults>>

CommitsLocally(n) ==
    /\ primary[n].pc = "commit"
    /\ \/ /\ CanCommit(replica[n], primary[n].offset)
          /\ replica' = [replica EXCEPT ![n] = Committed(@, primary[n].offset)]
          /\ Goes(n, [primary[n] EXCEPT !.pc = "peers", !.acknowledged = @ \ {n}])
          /\ UNCHANGED faults
       \/ /\ Happens(If(CanCommit(replica[n], primary[n].offset), "commit"))
          /\ Returns(n)
          /\ UNCHANGED replica
    /\ UNCHANGED <<electionVars, catchUp, historyVars>>

\* Commit of one acknowledged peer; its error is ignored.
CommitsAtPeer(n, r) ==
    /\ primary[n].pc = "peers"
    /\ r \in primary[n].acknowledged
    /\ \/ /\ CanCommit(replica[r], primary[n].offset)
          /\ replica' = [replica EXCEPT ![r] = Committed(@, primary[n].offset)]
       \/ UNCHANGED replica
    /\ Goes(n, [primary[n] EXCEPT !.acknowledged = @ \ {r}])
    /\ UNCHANGED <<electionVars, catchUp, historyVars, faults>>

Acknowledges(n) ==
    /\ primary[n].pc = "peers"
    /\ primary[n].acknowledged = {}
    /\ acked' = acked \union {<<primary[n].offset, primary[n].mutation>>}
    /\ Returns(n)
    /\ UNCHANGED <<electionVars, replica, catchUp, writes, refused, faults>>

PrimaryEnds(n) ==
    /\ primary[n].pc # "none"
    /\ Happens(If(primary[n].pc # "idle", "crash"))
    /\ Goes(n, NoPrimary)
    /\ UNCHANGED <<electionVars, replica, catchUp, historyVars>>

-----------------------------------------------------------------------------
(* CatchUp.                                                                *)

\* The status of the source.
CatchUpStarts(source, target) ==
    /\ catchUp = NoCatchUp
    /\ source # target
    /\ LET behind == \E r \in Nodes : replica[r].committed > replica[source].committed
       IN  Happens(If(Writing, "overlap") \union If(behind, "lagging"))
    /\ catchUp' = [pc |-> "target", source |-> source, target |-> target,
                   goal |-> replica[source].committed, from |-> 0, entries |-> << >>]
    /\ UNCHANGED <<electionVars, replica, primary, historyVars>>

\* The status of the target.
CatchUpReadsTarget ==
    LET rep == replica[catchUp.target]
        next == [catchUp EXCEPT !.from = rep.committed]
    IN  /\ catchUp # NoCatchUp /\ catchUp.pc = "target"
        /\ catchUp' = IF rep.committed >= catchUp.goal THEN NoCatchUp
                      ELSE [next EXCEPT !.pc = IF appliedOffsetLocked(rep) > rep.committed
                                               THEN "rollback" ELSE "source"]
        /\ UNCHANGED <<electionVars, replica, primary, historyVars, faults>>

\* The rollback of what the target has not committed.
CatchUpRollsBack ==
    /\ catchUp # NoCatchUp /\ catchUp.pc = "rollback"
    /\ IF CanRollback(replica[catchUp.target], catchUp.from + 1)
          THEN /\ replica' = [replica EXCEPT ![catchUp.target] = Rolledback(@, catchUp.from + 1)]
               /\ catchUp' = [catchUp EXCEPT !.pc = "source"]
          ELSE catchUp' = NoCatchUp /\ UNCHANGED replica
    /\ UNCHANGED <<electionVars, primary, historyVars, faults>>

\* Entries of the source up to its committed offset, if it has them.
CatchUpReadsSource ==
    LET rep == replica[catchUp.source]
    IN  /\ catchUp # NoCatchUp /\ catchUp.pc = "source"
        /\ catchUp' = IF HasEntries(rep, catchUp.from)
              THEN [catchUp EXCEPT !.pc = "append",
                       !.entries = SubSeq(rep.log, catchUp.from + 1,
                                          Min({catchUp.goal, appliedOffsetLocked(rep)}))]
              ELSE [catchUp EXCEPT !.pc = "snapshot"]
        /\ UNCHANGED <<electionVars, replica, primary, historyVars, faults>>

CatchUpReadsSnapshot ==
    /\ catchUp # NoCatchUp /\ catchUp.pc = "snapshot"
    /\ catchUp' = [catchUp EXCEPT !.pc = "install", !.entries = Snapshot(replica[catchUp.source])]
    /\ UNCHANGED <<electionVars, replica, primary, historyVars, faults>>

CatchUpInstalls ==
    /\ catchUp # NoCatchUp /\ catchUp.pc = "install"
    /\ replica' = [replica EXCEPT ![catchUp.target] = Installed(catchUp.entries)]
    /\ catchUp' = NoCatchUp
    /\ UNCHANGED <<electionVars, primary, historyVars, faults>>

CatchUpAppends ==
    /\ catchUp # NoCatchUp /\ catchUp.pc = "append" /\ catchUp.entries # << >>
    /\ IF CanAppend(replica[catchUp.target], catchUp.from + 1)
          THEN /\ replica' = [replica EXCEPT ![catchUp.target] = Appended(@, Head(catchUp.entries))]
               /\ catchUp' = [catchUp EXCEPT !.from = @ + 1, !.entries = Tail(@)]
          ELSE catchUp' = NoCatchUp /\ UNCHANGED replica
    /\ UNCHANGED <<electionVars, primary, historyVars, faults>>

CatchUpCommits ==
    LET rep == replica[catchUp.target]
    IN  /\ catchUp # NoCatchUp /\ catchUp.pc = "append" /\ catchUp.entries = << >>
        /\ replica' = IF CanCommit(rep, catchUp.goal)
                         THEN [replica EXCEPT ![catchUp.target] = Committed(@, catchUp.goal)]
                         ELSE replica
        /\ catchUp' = NoCatchUp
        /\ UNCHANGED <<electionVars, primary, historyVars, faults>>

\* A call of CatchUp returned an error.  Before the rollback that is harmless.
CatchUpFails ==
    /\ catchUp # NoCatchUp
    /\ Happens(If(catchUp.pc # "target", "catchUp"))
    /\ catchUp' = NoCatchUp
    /\ UNCHANGED <<electionVars, replica, primary, historyVars>>

-----------------------------------------------------------------------------
Init ==
    /\ current = [node |-> NoNode, term |-> 0, live |-> FALSE]
    /\ terms = [t \in 0..MaxTerm |-> {}]
    /\ replica = [r \in Nodes |-> [log |-> << >>, committed |-> 0, floor |-> 0]]
    /\ primary = [n \in Nodes |-> NoPrimary]
    /\ catchUp = NoCatchUp
    /\ writes = 0
    /\ acked = {}
    /\ refused = {}
    /\ faults = {}

Next ==
    \/ Expires
    \/ \E n \in Nodes :
          \/ Campaign(n) \/ Renew(n) \/ NewPrimary(n)
          \/ Write(n) \/ AppendsLocally(n) \/ Decides(n) \/ Refuses(n)
          \/ CommitsLocally(n) \/ Acknowledges(n) \/ PrimaryEnds(n)
          \/ Compacts(n)
          \/ \E r \in Nodes : \/ AppendsAtPeer(n, r) \/ RollsBack(n, r) \/ CommitsAtPeer(n, r)
                              \/ CatchUpStarts(n, r)
    \/ CatchUpReadsTarget \/ CatchUpRollsBack \/ CatchUpReadsSource
    \/ CatchUpReadsSnapshot \/ CatchUpInstalls \/ CatchUpAppends \/ CatchUpCommits \/ CatchUpFails

Spec == Init /\ [][Next]_vars

-----------------------------------------------------------------------------
(* Properties.                                                             *)

\* Every variable has its type; what a replica committed it has.
TypeOK ==
    /\ current.node \in Nodes \union {NoNode} /\ current.term \in 0..MaxTerm
    /\ \A r \in Nodes : /\ replica[r].log \in Seq(1..MaxWrites)
                        /\ replica[r].committed \in 0..Len(replica[r].log)
                        /\ replica[r].floor \in 0..replica[r].committed
    /\ \A n \in Nodes : /\ primary[n].pc \in {"none", "idle", "local", "asking", "rollback",
                                               "commit", "peers"}
                        /\ primary[n].asked \subseteq Peers(n)
                        /\ primary[n].acknowledged \subseteq Nodes
    /\ writes \in 0..MaxWrites

\* "monotonically fenced leadership": no term is granted to two nodes, also
\* when calls of the election read the clock long before they take its lock.
OneLeaderPerTerm == \A t \in 0..MaxTerm : Cardinality(terms[t]) =< 1

\* Without faults, through changes of the leader, refused calls, lost commits of
\* peers, compactions and CatchUp, replicas agree on what they have both
\* committed.
Common(r, s) == Min({replica[r].committed, replica[s].committed})
CommittedAgree ==
    faults = {} => \A r, s \in Nodes : \A i \in 1..Common(r, s) :
                      replica[r].log[i] = replica[s].log[i]

\* Without faults, a Write that returned an offset has its mutation there on a
\* majority, except that a CatchUp under way may have rolled it back on its
\* target.
Holds(r, offset, mutation) ==
    offset =< Len(replica[r].log) /\ replica[r].log[offset] = mutation
CaughtUp(r) == catchUp # NoCatchUp /\ catchUp.target = r
AckedOnMajority ==
    faults = {} => \A a \in acked :
        Cardinality({r \in Nodes : Holds(r, a[1], a[2]) \/ CaughtUp(r)}) >= Quorum

\* Without faults, a Write that returned ErrQuorumUnavailable is never committed
\* anywhere.
RefusedNotCommitted ==
    faults = {} => \A r \in Nodes :
        \A i \in 1..replica[r].committed : replica[r].log[i] \notin refused

\* Without faults, no call takes a committed entry away from a replica or
\* replaces it.
CommittedIsKept ==
    [][faults' = {} => \A r \in Nodes : IsPrefix(Snapshot(replica[r]), Snapshot(replica'[r]))]_vars

=============================================================================
