------------------------- MODULE AccessControlProofs -------------------------
(***************************************************************************)
(* Proofs about module AccessControl, for any documents, principals,       *)
(* policies, handlers and requests.                                        *)
(***************************************************************************)
EXTENDS AccessControl, TLAPS, FiniteSetTheorems, SequenceTheorems

-----------------------------------------------------------------------------
(* The inductive invariant.                                                *)

Deciding == {"collection", "document", "audit"}
Statuses == {"ok", "unauthenticated", "invalid", "notfound", "denied", "failed"}
Halves == [collection : SUBSET BOOLEAN, document : [Documents -> SUBSET BOOLEAN]]

Calls == [pc : {"lock", "done"} \union Deciding, op : Reads \union Writes,
          principal : Principals \union {Nobody}, limit : Nat,
          document : Documents, content : Contents, status : Statuses,
          seen : [Documents -> Contents \union {Absent}], ranked : Seq(Documents),
          next : Nat, allowed : BOOLEAN, hits : Seq(Hits)]

\* The variables that the argument is about are in their sets.
CallTypes ==
    /\ documentPolicy \in [Documents -> Policies \union {NoPolicy}]
    /\ documents \in [Documents -> Contents \union {Absent}]
    /\ readers \subseteq Handlers
    /\ call \in [Handlers -> {Idle} \union Calls]
    /\ audited \in [Handlers -> SUBSET Documents]
    /\ grants \in [Handlers -> Halves]

\* A call that is under way has not failed, and one that decides has a candidate;
\* Get has one only.
Progress(c) ==
    /\ c.pc # "done" => c.status = "ok"
    /\ c.status # "ok" => c.hits = << >>
    /\ c.pc = "lock" => c.op # "filter" /\ c.hits = << >> /\ c.ranked = << >> /\ c.next = 1
    /\ c.pc \in Deciding => c.op \in Reads /\ c.next \in 1..Len(c.ranked)
    /\ c.pc \in Deciding /\ c.op = "get" => c.next = Len(c.ranked) /\ c.hits = << >>

\* Search and Get hold the lock while they decide, so the documents are still those
\* they ranked or looked up.
Locked(h, c) ==
    /\ c.pc \in Deciding /\ c.op # "filter" => h \in readers /\ c.seen = documents
    /\ c.op # "filter" => \A i \in 1..Len(c.ranked) : c.seen[c.ranked[i]] # Absent

\* What a hit is made of.
Sound(h, c) ==
    \A j \in 1..Len(c.hits) :
        /\ c.hits[j].document \in audited[h]
        /\ c.op # "filter" => /\ c.hits[j].content = c.seen[c.hits[j].document]
                              /\ c.hits[j].content # Absent
        /\ TRUE \in grants[h].collection
        /\ TRUE \in grants[h].document[c.hits[j].document]

CallInv(h) ==
    /\ call[h].pc # "idle" => Progress(call[h]) /\ Locked(h, call[h]) /\ Sound(h, call[h])
    /\ h \in readers => call[h].pc \in {"lock"} \union Deciding /\ call[h].op \in {"search", "get"}

\* Both halves have had the values they have now, and the decision on a candidate
\* is made of values that they have had.
GrantInv(h) ==
    LET c == call[h]
    IN  /\ h \in Reading =>
            /\ CollectionAllows(collectionPolicy, c.principal, Action(c.op)) \in grants[h].collection
            /\ \A d \in Documents : DocumentAllows(documentPolicy[d], c.principal, Action(c.op))
                                        \in grants[h].document[d]
        /\ c.pc = "document" => TRUE \in grants[h].collection
        /\ c.pc = "audit" =>
            IF c.allowed
            THEN TRUE \in grants[h].collection /\ TRUE \in grants[h].document[Candidate(c)]
            ELSE FALSE \in grants[h].collection \/ FALSE \in grants[h].document[Candidate(c)]

\* A candidate was denied some time, or it is in the answer.
Settled(h, c, i) ==
    \/ FALSE \in grants[h].collection
    \/ FALSE \in grants[h].document[c.ranked[i]]
    \/ \E j \in 1..Len(c.hits) : c.hits[j].document = c.ranked[i]

\* Every hit is a candidate among the first n.
Among(c, n) ==
    \A j \in 1..Len(c.hits) : \E k \in 1..n : c.ranked[k] = c.hits[j].document

\* The candidates before the next one are settled; at the end all are, or the answer
\* is full.
WithheldInv(h) ==
    LET c == call[h]
    IN  /\ c.pc \in Deciding =>
            Among(c, c.next - 1) /\ \A i \in 1..(c.next - 1) : Settled(h, c, i)
        /\ c.pc = "done" /\ c.op \in Reads /\ c.status = "ok" =>
            \E n \in 0..Len(c.ranked) :
                /\ Among(c, n)
                /\ \A i \in 1..n : Settled(h, c, i)
                /\ n < Len(c.ranked) => c.op = "search" /\ Len(c.hits) = c.limit

AccessInv ==
    /\ CallTypes
    /\ \A h \in Handlers : CallInv(h) /\ GrantInv(h) /\ WithheldInv(h)

-----------------------------------------------------------------------------
(* Facts about the operators.                                              *)

\* A list of all members of a finite set is a sequence of distinct members.
LEMMA ListOf ==
    ASSUME NEW S, IsFiniteSet(S), NEW list \in SetToSeqs(S)
    PROVE  /\ list \in Seq(S)
           /\ \A i, j \in 1..Len(list) : list[i] = list[j] => i = j
<1>1. Cardinality(S) \in Nat
  BY FS_CardinalityType
<1>2. list \in [1..Cardinality(S) -> S]
  BY DEF SetToSeqs
<1>3. list \in Seq(S) /\ Len(list) = Cardinality(S)
  BY <1>1, <1>2
<1> QED
  BY <1>2, <1>3 DEF SetToSeqs

\* A ranking of documents is a sequence of some of them.
LEMMA RankingOf ==
    ASSUME NEW S, IsFiniteSet(S), NEW list \in SetToAllKPermutations(S)
    PROVE  list \in Seq(S)
<1>1. PICK T \in SUBSET S : list \in SetToSeqs(T)
  BY DEF SetToAllKPermutations
<1>2. IsFiniteSet(T)
  BY FS_Subset
<1>3. list \in Seq(T)
  BY <1>1, <1>2, ListOf
<1> QED
  BY <1>3, SeqMonotonic

\* A decision is a yes or a no.
LEMMA AllowsBoolean ==
    ASSUME NEW policy, NEW principal, NEW action
    PROVE  /\ CollectionAllows(policy, principal, action) \in BOOLEAN
           /\ DocumentAllows(policy, principal, action) \in BOOLEAN
  BY DEF CollectionAllows, DocumentAllows, evaluatePolicy

\* A handler that is not idle is in a call.
LEMMA InCall ==
    ASSUME CallTypes, NEW h \in Handlers, call[h].pc # "idle"
    PROVE  call[h] \in Calls
  BY DEF CallTypes, Idle

-----------------------------------------------------------------------------
(* Steps of others.                                                        *)

\* What is true of a handler stays true while nothing of it changes.
LEMMA Frame ==
    ASSUME AccessInv, NEW h \in Handlers,
           UNCHANGED <<collectionPolicy, documentPolicy, documents>>,
           call'[h] = call[h], audited'[h] = audited[h], grants'[h] = grants[h],
           h \in readers' <=> h \in readers
    PROVE  CallInv(h)' /\ GrantInv(h)' /\ WithheldInv(h)'
<1> USE DEF AccessInv
<1>1. CallInv(h)'
  <2> DEFINE c == call[h]
  <2>1. c.pc # "idle" =>
           Progress(c) /\ (Locked(h, c) /\ documents' = documents) /\ Sound(h, c)
    BY DEF CallInv
  <2>2. Locked(h, c) => Locked(h, c)'
    BY DEF Locked
  <2>3. Progress(c) => Progress(c)'
    BY DEF Progress
  <2>4. Sound(h, c) => Sound(h, c)'
    BY DEF Sound
  <2> QED
    BY <2>1, <2>2, <2>3, <2>4 DEF CallInv
<1>2. GrantInv(h)'
  BY DEF GrantInv, Reading, Candidate
<1>3. WithheldInv(h)'
  <2>1. \A n : Among(call[h], n)' <=> Among(call[h], n)
    BY DEF Among
  <2>2. \A i : Settled(h, call[h], i)' <=> Settled(h, call[h], i)
    BY DEF Settled
  <2> QED
    BY <2>1, <2>2 DEF WithheldInv
<1> QED
  BY <1>1, <1>2, <1>3

\* A handler that leaves the engine with no hits has nothing to answer for.
LEMMA FrameEnd ==
    ASSUME NEW h \in Handlers, call'[h].pc = "done", call'[h].hits = << >>, h \notin readers',
           call'[h].op # "filter" => \A i \in 1..Len(call'[h].ranked) :
                                        call'[h].seen[call'[h].ranked[i]] # Absent,
           call'[h].status = "ok" => call'[h].ranked = << >>
    PROVE  CallInv(h)' /\ GrantInv(h)' /\ WithheldInv(h)'
<1>1. CallInv(h)'
  <2>1. Progress(call[h])'
    BY DEF Progress, Deciding
  <2>2. Locked(h, call[h])'
    BY DEF Locked, Deciding
  <2>3. Sound(h, call[h])'
    BY DEF Sound
  <2> QED
    BY <2>1, <2>2, <2>3 DEF CallInv
<1>2. GrantInv(h)'
  BY DEF GrantInv, Reading
<1>3. WithheldInv(h)'
  BY DEF WithheldInv, Among, Deciding
<1> QED
  BY <1>1, <1>2, <1>3

-----------------------------------------------------------------------------
(* The beginning and the end of a call.                                    *)

\* A call that starts is typed.
LEMMA StartedTyped ==
    ASSUME NEW h \in Handlers, NEW r \in Requests[h], NEW pc \in {"lock", "done", "collection"},
           NEW status \in Statuses, NEW list \in Seq(Documents)
    PROVE  Started(r, pc, list, status) \in Calls
<1>1. /\ r.op \in Reads \union Writes /\ r.principal \in Principals \union {Nobody}
      /\ r.limit \in Nat /\ r.document \in Documents /\ r.content \in Contents
  BY AccessAssumption DEF Reads, Writes
<1>2. [d \in Documents |-> Absent] \in [Documents -> Contents \union {Absent}]
  OBVIOUS
<1>3. << >> \in Seq(Hits)
  BY EmptySeq
<1>4. pc \in {"lock", "done"} \union Deciding
  BY DEF Deciding
<1> QED
  BY <1>1, <1>2, <1>3, <1>4 DEF Started, Calls

LEMMA GrantsTyped ==
    ASSUME NEW c, NEW collection, NEW byDocument
    PROVE  Grants(c, collection, byDocument) \in Halves
  BY AllowsBoolean DEF Grants, Halves

LEMMA KeepsCall ==
    ASSUME AccessInv, NEW h \in Handlers, NEW r \in Requests[h], Call(h, r)
    PROVE  AccessInv'
<1>0. CallTypes
  BY DEF AccessInv
<1>1. PICK list \in Seq(Documents), pc \in {"lock", "collection"} :
        /\ call' = [call EXCEPT ![h] = Started(r, pc, list, "ok")]
        /\ pc = "lock" => r.op # "filter" /\ list = << >>
        /\ pc = "collection" => r.op = "filter" /\ list # << >>
  <2>1. CASE r.op # "filter"
    <3>1. << >> \in Seq(Documents)
      BY EmptySeq
    <3> QED
      BY <2>1, <3>1 DEF Call
  <2>2. CASE r.op = "filter"
    <3>1. PICK list \in SetToSeqs(Documents) :
            call' = [call EXCEPT ![h] = Started(r, "collection", list, "ok")]
      BY <2>2 DEF Call
    <3>2. list \in Seq(Documents)
      BY ListOf, AccessAssumption
    <3>3. list # << >>
      <4>1. r.document \in Documents
        BY AccessAssumption
      <4>2. Cardinality(Documents) \in Nat /\ Cardinality(Documents) # 0
        BY <4>1, FS_CardinalityType, FS_EmptySet, AccessAssumption
      <4>3. Len(list) = Cardinality(Documents)
        BY <4>2, <3>2 DEF SetToSeqs
      <4> QED
        BY <4>2, <4>3
    <3> QED
      BY <2>2, <3>1, <3>2, <3>3
  <2> QED
    BY <2>1, <2>2
<1> DEFINE c == Started(r, pc, list, "ok")
<1>2. c \in Calls
  BY StartedTyped DEF Statuses
<1>3. call'[h] = c
  BY <1>0, <1>1 DEF CallTypes
<1>4. Grants(Started(r, "lock", << >>, "ok"), collectionPolicy, documentPolicy) \in Halves
  BY GrantsTyped
<1>5. CallTypes'
  BY <1>0, <1>1, <1>2, <1>4 DEF Call, CallTypes, storeVars
<1>6. ASSUME NEW g \in Handlers, g # h PROVE CallInv(g)' /\ GrantInv(g)' /\ WithheldInv(g)'
  BY <1>0, <1>1, <1>6, Frame DEF CallTypes, Call, storeVars
<1>7. /\ c.pc = pc /\ c.status = "ok" /\ c.hits = << >> /\ c.ranked = list /\ c.next = 1
      /\ c.op = r.op /\ c.principal = r.principal
  BY DEF Started
<1>8. h \notin readers /\ readers' = readers
  BY <1>0 DEF AccessInv, CallInv, Call, Deciding
<1>9. CallInv(h)'
  <2>1. Progress(c)
    BY <1>1, <1>7 DEF Progress, Deciding, Reads
  <2>2. Locked(h, c)'
    BY <1>1, <1>7, <1>8 DEF Locked, Deciding
  <2>3. Sound(h, c)'
    BY <1>7 DEF Sound
  <2> QED
    BY <1>3, <1>8, <2>1, <2>2, <2>3 DEF CallInv
<1>10. GrantInv(h)'
  <2>1. grants'[h] = Grants(Started(r, "lock", << >>, "ok"), collectionPolicy, documentPolicy)
    BY <1>0 DEF Call, CallTypes
  <2>2. collectionPolicy' = collectionPolicy /\ documentPolicy' = documentPolicy
    BY DEF Call, storeVars
  <2>3. /\ grants'[h].collection = {CollectionAllows(collectionPolicy, r.principal, Action(r.op))}
        /\ \A d \in Documents : grants'[h].document[d] =
                {DocumentAllows(documentPolicy[d], r.principal, Action(r.op))}
    BY <2>1 DEF Grants, Started
  <2> QED
    BY <1>1, <1>3, <1>7, <2>2, <2>3 DEF GrantInv
<1>11. WithheldInv(h)'
  BY <1>1, <1>3, <1>7 DEF WithheldInv, Among
<1> QED
  BY <1>5, <1>6, <1>9, <1>10, <1>11 DEF AccessInv

LEMMA KeepsRefuse ==
    ASSUME AccessInv, NEW h \in Handlers, NEW r \in Requests[h], Refuse(h, r)
    PROVE  AccessInv'
<1>0. CallTypes
  BY DEF AccessInv
<1> DEFINE c == Started(r, "done", << >>, Status(r))
<1>1. Status(r) \in Statuses
  BY DEF Status, SearchStatus, GetStatus, WriteStatus, Statuses
<1>2. c \in Calls
  BY <1>1, StartedTyped, EmptySeq
<1>3. call'[h] = c
  BY <1>0 DEF CallTypes, Refuse
<1>5. CallTypes'
  BY <1>0, <1>2 DEF Refuse, CallTypes, storeVars, historyVars
<1>6. ASSUME NEW g \in Handlers, g # h PROVE CallInv(g)' /\ GrantInv(g)' /\ WithheldInv(g)'
  BY <1>0, <1>6, Frame DEF CallTypes, Refuse, storeVars, historyVars
<1>7. c.pc = "done" /\ c.hits = << >> /\ c.ranked = << >>
  BY DEF Started
<1>8. h \notin readers /\ readers' = readers
  BY <1>0 DEF AccessInv, CallInv, Refuse, Deciding
<1>9. CallInv(h)'
  <2>1. Progress(c)
    BY <1>7 DEF Progress, Deciding
  <2>2. Locked(h, c)'
    BY <1>7 DEF Locked, Deciding
  <2>3. Sound(h, c)'
    BY <1>7 DEF Sound
  <2> QED
    BY <1>3, <1>8, <2>1, <2>2, <2>3 DEF CallInv
<1>10. GrantInv(h)'
  BY <1>3, <1>7 DEF GrantInv, Reading
<1>11. WithheldInv(h)'
  BY <1>3, <1>7 DEF WithheldInv, Among, Deciding
<1> QED
  BY <1>5, <1>6, <1>9, <1>10, <1>11 DEF AccessInv

LEMMA KeepsReturn ==
    ASSUME AccessInv, NEW h \in Handlers, Return(h)
    PROVE  AccessInv'
<1>0. CallTypes
  BY DEF AccessInv
<1>1. NoGrants \in Halves
  BY DEF NoGrants, Halves
<1>2. CallTypes'
  BY <1>0, <1>1 DEF Return, CallTypes, storeVars
<1>3. ASSUME NEW g \in Handlers, g # h PROVE CallInv(g)' /\ GrantInv(g)' /\ WithheldInv(g)'
  BY <1>0, <1>3, Frame DEF CallTypes, Return, storeVars
<1>4. call'[h].pc = "idle"
  BY <1>0 DEF CallTypes, Return, Idle
<1>5. h \notin readers /\ readers' = readers
  BY DEF AccessInv, CallInv, Return, Deciding
<1>6. CallInv(h)' /\ GrantInv(h)' /\ WithheldInv(h)'
  BY <1>4, <1>5 DEF CallInv, GrantInv, Reading, WithheldInv, Deciding
<1> QED
  BY <1>2, <1>3, <1>6 DEF AccessInv

-----------------------------------------------------------------------------
(* The lock.                                                               *)

LEMMA KeepsRLock ==
    ASSUME AccessInv, NEW h \in Handlers, RLock(h)
    PROVE  AccessInv'
<1>0. CallTypes
  BY DEF AccessInv
<1>1. CallTypes'
  BY <1>0 DEF RLock, CallTypes, storeVars, historyVars
<1>2. ASSUME NEW g \in Handlers, g # h PROVE CallInv(g)' /\ GrantInv(g)' /\ WithheldInv(g)'
  BY <1>0, <1>2, Frame DEF CallTypes, RLock, storeVars, historyVars
<1>3. call[h].pc = "lock" /\ call[h].op \in {"search", "get"} /\ call' = call
  BY DEF RLock, Waiting, AccessInv, CallInv, Progress, Reads
<1>4. CallInv(h)'
  <2>1. Progress(call[h]) /\ Locked(h, call[h]) /\ Sound(h, call[h])
    BY <1>3 DEF AccessInv, CallInv
  <2>2. Locked(h, call[h])' /\ Sound(h, call[h])'
    BY <1>3, <2>1 DEF Locked, Sound, Deciding, RLock, historyVars
  <2> QED
    BY <1>3, <2>1, <2>2 DEF CallInv
<1>5. GrantInv(h)'
  BY <1>3 DEF AccessInv, GrantInv, Reading, RLock, storeVars, historyVars
<1>6. WithheldInv(h)'
  BY <1>3 DEF WithheldInv, Deciding
<1> QED
  BY <1>1, <1>2, <1>4, <1>5, <1>6 DEF AccessInv

\* No call that decides is in the way of a write: it would hold the lock.
LEMMA KeepsWrite ==
    ASSUME AccessInv, NEW h \in Handlers, Write(h)
    PROVE  AccessInv'
<1>0. CallTypes
  BY DEF AccessInv
<1>1. call[h] \in Calls /\ call[h].pc = "lock" /\ call[h].op \in Writes
  BY <1>0, InCall DEF Write, Waiting
<1>2. call'[h] = [call[h] EXCEPT !.pc = "done"] /\ call'[h] \in Calls
  BY <1>0, <1>1 DEF Write, CallTypes, Calls
<1>3. CallTypes'
  <2>1. documents' \in [Documents -> Contents \union {Absent}]
    BY <1>0, <1>1 DEF Write, CallTypes, Calls
  <2>2. call' \in [Handlers -> {Idle} \union Calls]
    BY <1>0, <1>2 DEF Write, CallTypes
  <2> QED
    BY <1>0, <2>1, <2>2 DEF Write, CallTypes, storeVars, historyVars, Waiting
<1>4. ASSUME NEW g \in Handlers, g # h PROVE CallInv(g)' /\ GrantInv(g)' /\ WithheldInv(g)'
  <2>1. /\ call'[g] = call[g] /\ audited' = audited /\ grants' = grants
        /\ collectionPolicy' = collectionPolicy /\ documentPolicy' = documentPolicy
    BY <1>0, <1>4 DEF CallTypes, Write, storeVars, historyVars
  <2>2. CallInv(g)'
    <3>1. readers = {} /\ readers' = Waiting(Reads)
      BY DEF Write
    <3>2. CallInv(g)
      BY DEF AccessInv
    <3>3. call[g].pc # "idle" => Locked(g, call[g])'
      BY <3>1, <3>2, <2>1 DEF CallInv, Locked
    <3>4. call[g].pc # "idle" => Progress(call[g]) /\ Sound(g, call[g])'
      BY <3>2, <2>1 DEF CallInv, Sound
    <3>5. g \in readers' => call[g].pc = "lock" /\ call[g].op \in {"search", "get"}
      BY <3>1, <3>2 DEF CallInv, Waiting, Progress, Reads
    <3> QED
      BY <2>1, <3>3, <3>4, <3>5 DEF CallInv
  <2>3. GrantInv(g)'
    BY <2>1 DEF AccessInv, GrantInv, Reading, Candidate
  <2>4. WithheldInv(g)'
    <3>1. \A n : Among(call[g], n)' <=> Among(call[g], n)
      BY <2>1 DEF Among
    <3>2. \A i : Settled(g, call[g], i)' <=> Settled(g, call[g], i)
      BY <2>1 DEF Settled
    <3> QED
      BY <2>1, <3>1, <3>2 DEF AccessInv, WithheldInv
  <2> QED
    BY <2>2, <2>3, <2>4
<1>5. /\ call'[h].pc = "done" /\ call'[h].status = "ok" /\ call'[h].hits = << >>
      /\ call'[h].ranked = << >> /\ call'[h].op \in Writes
  BY <1>1, <1>2 DEF AccessInv, CallInv, Progress, Calls
<1>6. h \notin readers'
  BY <1>1 DEF Write, Waiting, Reads, Writes
<1>7. CallInv(h)'
  BY <1>5, <1>6 DEF CallInv, Progress, Locked, Sound, Deciding
<1>8. GrantInv(h)' /\ WithheldInv(h)'
  BY <1>5 DEF GrantInv, Reading, WithheldInv, Deciding, Reads, Writes
<1> QED
  BY <1>3, <1>4, <1>7, <1>8 DEF AccessInv

LEMMA KeepsRetrieve ==
    ASSUME AccessInv, NEW h \in Handlers, Retrieve(h)
    PROVE  AccessInv'
<1> DEFINE c == [call[h] EXCEPT !.seen = documents]
           stored == {d \in Documents : documents[d] # Absent}
<1>0. CallTypes
  BY DEF AccessInv
<1>1. /\ call[h] \in Calls /\ call[h].pc = "lock" /\ h \in readers
      /\ call[h].op \in {"search", "get"}
      /\ Progress(call[h]) /\ Locked(h, call[h]) /\ Sound(h, call[h])
  BY <1>0, InCall DEF Retrieve, AccessInv, CallInv
<1>2. /\ c \in Calls /\ c.seen = documents /\ c.op = call[h].op /\ c.hits = << >> /\ c.next = 1
      /\ c.status = "ok" /\ c.ranked = << >>
  BY <1>0, <1>1 DEF Calls, CallTypes, Progress
<1>3. UNCHANGED <<collectionPolicy, documentPolicy, documents, audited, grants>>
  BY DEF Retrieve, storeVars, historyVars
<1>4. PICK list \in (IF c.op = "get" THEN SetToSeqs(stored \intersect {c.document})
                     ELSE SetToAllKPermutations(stored)) :
        \/ /\ list # << >>
           /\ call' = [call EXCEPT ![h] = [c EXCEPT !.pc = "collection", !.ranked = list]]
           /\ readers' = readers
        \/ /\ list = << >>
           /\ Leave(h, IF c.op = "get" THEN [c EXCEPT !.status = "notfound"] ELSE c)
  BY DEF Retrieve
<1>5. list \in Seq(stored) /\ (call[h].op = "get" => Len(list) \in {0, 1})
  <2>1. IsFiniteSet(stored) /\ IsFiniteSet(stored \intersect {c.document})
    BY AccessAssumption, FS_Subset
  <2>2. CASE c.op = "get"
    <3>1. /\ list \in Seq(stored \intersect {c.document})
          /\ \A i, j \in 1..Len(list) : list[i] = list[j] => i = j
      BY <1>4, <2>1, <2>2, ListOf
    <3>2. list \in Seq(stored)
      BY <3>1, SeqMonotonic
    <3>3. Len(list) \in Nat /\ \A i \in 1..Len(list) : list[i] = c.document
      BY <3>1
    <3>4. Len(list) = 0 \/ Len(list) = 1
      <4>0. \A n \in Nat : n = 0 \/ n = 1 \/ n >= 2
        OBVIOUS
      <4>1. SUFFICES ASSUME Len(list) >= 2 PROVE FALSE
        BY <3>3, <4>0, Zenon
      <4>2. 1 \in 1..Len(list) /\ 2 \in 1..Len(list)
        BY <3>3, <4>1
      <4> QED
        BY <3>1, <3>3, <4>2
    <3> QED
      BY <3>2, <3>4
  <2>3. CASE c.op # "get"
    BY <1>2, <1>4, <2>1, <2>3, RankingOf
  <2> QED
    BY <2>2, <2>3
<1>6. ASSUME NEW g \in Handlers, g # h PROVE CallInv(g)' /\ GrantInv(g)' /\ WithheldInv(g)'
  <2>1. call'[g] = call[g] /\ (g \in readers' <=> g \in readers)
    BY <1>0, <1>4, <1>6 DEF CallTypes, Leave
  <2> QED
    BY <1>3, <2>1, Frame
<1>7. list \in Seq(Documents) /\ \A i \in 1..Len(list) : documents[list[i]] # Absent
  BY <1>5, SeqMonotonic
<1>8. CASE list # << >>
  <2> DEFINE e == [c EXCEPT !.pc = "collection", !.ranked = list]
  <2>1. call' = [call EXCEPT ![h] = e] /\ readers' = readers
    BY <1>4, <1>8
  <2>2. call'[h] = e
    BY <1>0, <2>1 DEF CallTypes
  <2>3. /\ e \in Calls /\ e.pc = "collection" /\ e.ranked = list /\ e.seen = documents
        /\ e.op = call[h].op /\ e.hits = << >> /\ e.next = 1 /\ e.status = "ok"
        /\ e.principal = call[h].principal
    BY <1>2, <1>7 DEF Calls, Deciding
  <2> HIDE DEF e
  <2>4. CallTypes'
    BY <1>0, <1>3, <2>1, <2>3 DEF CallTypes
  <2>5. CallInv(h)'
    <3>1. Len(list) \in Nat /\ Len(list) # 0
      BY <1>5, <1>8, EmptySeq
    <3>2. call[h].op = "get" => Len(list) = 1
      BY <1>5, <3>1, Zenon
    <3>3. call[h].op \in Reads
      BY <1>1 DEF Reads
    <3>4. Progress(call[h])'
      BY <2>2, <2>3, <3>1, <3>2, <3>3 DEF Progress, Deciding
    <3>5. Locked(h, call[h])'
      BY <1>1, <1>3, <1>7, <2>1, <2>2, <2>3 DEF Locked
    <3>6. Sound(h, call[h])'
      BY <2>2, <2>3 DEF Sound
    <3> QED
      BY <1>1, <2>2, <2>3, <3>4, <3>5, <3>6 DEF CallInv, Deciding
  <2>6. GrantInv(h)'
    <3>1. h \in Reading
      BY <1>1 DEF Reading, Reads
    <3>2. GrantInv(h)
      BY DEF AccessInv
    <3> QED
      BY <1>3, <2>2, <2>3, <3>1, <3>2 DEF GrantInv
  <2>7. WithheldInv(h)'
    BY <2>2, <2>3 DEF WithheldInv, Among
  <2> QED
    BY <1>6, <2>4, <2>5, <2>6, <2>7 DEF AccessInv
<1>9. CASE list = << >>
  <2> DEFINE e == [(IF c.op = "get" THEN [c EXCEPT !.status = "notfound"] ELSE c) EXCEPT !.pc = "done"]
  <2>1. call' = [call EXCEPT ![h] = e] /\ readers' = readers \ {h}
    BY <1>4, <1>9 DEF Leave
  <2>2. call'[h] = e
    BY <1>0, <2>1 DEF CallTypes
  <2>3. e \in Calls /\ e.pc = "done" /\ e.hits = << >> /\ e.ranked = << >>
    BY <1>2 DEF Calls, Deciding, Statuses
  <2> HIDE DEF e
  <2>4. CallTypes'
    BY <1>0, <1>3, <2>1, <2>3 DEF CallTypes
  <2>5. CallInv(h)' /\ GrantInv(h)' /\ WithheldInv(h)'
    BY <2>1, <2>2, <2>3, FrameEnd
  <2> QED
    BY <1>6, <2>4, <2>5 DEF AccessInv
<1> QED
  BY <1>8, <1>9

\* A handler that leaves the engine with an error.
LEMMA KeepsLeave ==
    ASSUME AccessInv, NEW h \in Handlers, call[h].pc \in {"lock", "audit"},
           Leave(h, [call[h] EXCEPT !.status = "failed", !.hits = << >>]),
           UNCHANGED <<storeVars, documents, historyVars>>
    PROVE  AccessInv'
<1> DEFINE e == [[call[h] EXCEPT !.status = "failed", !.hits = << >>] EXCEPT !.pc = "done"]
<1>0. CallTypes
  BY DEF AccessInv
<1>1. call[h] \in Calls /\ Locked(h, call[h])
  BY <1>0, InCall DEF AccessInv, CallInv
<1>2. call' = [call EXCEPT ![h] = e] /\ readers' = readers \ {h}
  BY DEF Leave
<1>3. call'[h] = e
  BY <1>0, <1>2 DEF CallTypes
<1>4. /\ e \in Calls /\ e.pc = "done" /\ e.hits = << >> /\ e.status = "failed"
      /\ e.ranked = call[h].ranked /\ e.seen = call[h].seen /\ e.op = call[h].op
  BY <1>1, EmptySeq DEF Calls, Deciding, Statuses
<1> HIDE DEF e
<1>5. CallTypes'
  BY <1>0, <1>2, <1>4 DEF CallTypes, storeVars, historyVars
<1>6. ASSUME NEW g \in Handlers, g # h PROVE CallInv(g)' /\ GrantInv(g)' /\ WithheldInv(g)'
  <2>1. call'[g] = call[g] /\ (g \in readers' <=> g \in readers)
    BY <1>0, <1>2, <1>6 DEF CallTypes
  <2> QED
    BY <2>1, Frame DEF storeVars, historyVars
<1>7. CallInv(h)' /\ GrantInv(h)' /\ WithheldInv(h)'
  BY <1>1, <1>2, <1>3, <1>4, FrameEnd DEF Locked
<1> QED
  BY <1>5, <1>6, <1>7 DEF AccessInv

LEMMA KeepsFailures ==
    ASSUME AccessInv, NEW h \in Handlers, RetrieveFails(h) \/ AuditFails(h)
    PROVE  AccessInv'
<1>1. CASE AuditFails(h)
  BY <1>1, KeepsLeave DEF AuditFails
<1>2. CASE RetrieveFails(h)
  <2>1. call[h] \in Calls /\ call[h].hits = << >> /\ call[h].pc = "lock"
    BY <1>2, InCall DEF RetrieveFails, AccessInv, CallInv, Progress
  <2>2. [call[h] EXCEPT !.status = "failed"] = [call[h] EXCEPT !.status = "failed", !.hits = << >>]
    BY <2>1 DEF Calls
  <2> QED
    BY <1>2, <2>1, <2>2, KeepsLeave DEF RetrieveFails
<1> QED
  BY <1>1, <1>2

-----------------------------------------------------------------------------
(* Decisions.                                                              *)

\* A handler goes on with a decision: the candidates and the hits stay.
LEMMA KeepsDeciding ==
    ASSUME AccessInv, NEW h \in Handlers, NEW e \in Calls,
           call[h].pc \in Deciding, e.pc \in Deciding, call' = [call EXCEPT ![h] = e],
           e.op = call[h].op, e.principal = call[h].principal, e.status = call[h].status,
           e.seen = call[h].seen, e.ranked = call[h].ranked, e.next = call[h].next,
           e.hits = call[h].hits, e.limit = call[h].limit,
           UNCHANGED <<storeVars, documents, readers, historyVars>>,
           e.pc = "document" => TRUE \in grants[h].collection,
           e.pc = "audit" =>
                IF e.allowed
                THEN TRUE \in grants[h].collection /\ TRUE \in grants[h].document[Candidate(e)]
                ELSE FALSE \in grants[h].collection \/ FALSE \in grants[h].document[Candidate(e)]
    PROVE  AccessInv'
<1>0. CallTypes /\ CallInv(h) /\ GrantInv(h) /\ WithheldInv(h)
  BY DEF AccessInv
<1>1. call'[h] = e
  BY <1>0 DEF CallTypes
<1>2. CallTypes'
  BY <1>0 DEF CallTypes, storeVars, historyVars
<1>3. ASSUME NEW g \in Handlers, g # h PROVE CallInv(g)' /\ GrantInv(g)' /\ WithheldInv(g)'
  BY <1>0, <1>3, Frame DEF CallTypes, storeVars, historyVars
<1>4. Progress(call[h]) /\ Locked(h, call[h]) /\ Sound(h, call[h])
  BY <1>0 DEF CallInv, Deciding
<1>5. CallInv(h)'
  <2>1. Progress(call[h])'
    BY <1>1, <1>4 DEF Progress, Deciding
  <2>2. Locked(h, call[h])'
    BY <1>1, <1>4 DEF Locked
  <2>3. Sound(h, call[h])'
    <3>1. audited' = audited /\ grants' = grants
      BY DEF historyVars
    <3>2. Sound(h, e)
      BY <1>4 DEF Sound
    <3> QED
      BY <1>1, <3>1, <3>2 DEF Sound
  <2>4. h \in readers' => call'[h].pc \in {"lock"} \union Deciding /\ call'[h].op \in {"search", "get"}
    BY <1>0, <1>1 DEF CallInv
  <2> QED
    BY <2>1, <2>2, <2>3, <2>4 DEF CallInv
<1>6. GrantInv(h)'
  <2>1. h \in Reading
    BY <1>4 DEF Reading, Progress, Deciding
  <2> QED
    BY <1>0, <1>1, <2>1 DEF GrantInv, storeVars, historyVars
<1>7. WithheldInv(h)'
  <2>1. \A n : Among(call[h], n)' <=> Among(call[h], n)
    BY <1>1 DEF Among
  <2>2. \A i : Settled(h, call[h], i)' <=> Settled(h, call[h], i)
    BY <1>1 DEF Settled, historyVars
  <2> QED
    BY <1>0, <1>1, <2>1, <2>2 DEF WithheldInv, Deciding
<1> QED
  BY <1>2, <1>3, <1>5, <1>6, <1>7 DEF AccessInv

LEMMA KeepsReadCollectionPolicy ==
    ASSUME AccessInv, NEW h \in Handlers, ReadCollectionPolicy(h)
    PROVE  AccessInv'
<1> DEFINE yes == CollectionAllows(collectionPolicy, call[h].principal, Action(call[h].op))
           e == IF yes THEN [call[h] EXCEPT !.pc = "document"]
                ELSE [call[h] EXCEPT !.pc = "audit", !.allowed = FALSE]
<1>0. CallTypes /\ GrantInv(h) /\ call[h].pc = "collection"
  BY DEF AccessInv, ReadCollectionPolicy
<1>1. call[h] \in Calls /\ Progress(call[h])
  BY <1>0, InCall DEF AccessInv, CallInv
<1>2. call' = [call EXCEPT ![h] = e]
  BY <1>0 DEF ReadCollectionPolicy, CallTypes
<1>3. h \in Reading
  BY <1>0, <1>1 DEF Reading, Progress, Deciding
<1>4. yes \in BOOLEAN /\ yes \in grants[h].collection
  BY <1>0, <1>3, AllowsBoolean DEF GrantInv
<1>5. /\ e \in Calls /\ e.op = call[h].op /\ e.principal = call[h].principal
      /\ e.status = call[h].status /\ e.seen = call[h].seen /\ e.ranked = call[h].ranked
      /\ e.next = call[h].next /\ e.hits = call[h].hits /\ e.limit = call[h].limit
      /\ e.pc = IF yes THEN "document" ELSE "audit"
      /\ ~yes => e.allowed = FALSE
  BY <1>1 DEF Calls, Deciding
<1> HIDE DEF e, yes
<1>6. call[h].pc \in Deciding /\ e.pc \in Deciding
  BY <1>0, <1>5 DEF Deciding
<1>7. UNCHANGED <<storeVars, documents, readers, historyVars>>
  BY DEF ReadCollectionPolicy
<1>8. /\ e.pc = "document" => TRUE \in grants[h].collection
      /\ e.pc = "audit" => e.allowed = FALSE /\ FALSE \in grants[h].collection
  <2>1. CASE yes
    <3>1. yes = TRUE /\ e.pc = "document"
      BY <1>4, <1>5, <2>1
    <3> QED
      BY <1>4, <3>1
  <2>2. CASE ~yes
    <3>1. yes = FALSE /\ e.pc = "audit" /\ e.allowed = FALSE
      BY <1>4, <1>5, <2>2
    <3> QED
      BY <1>4, <3>1
  <2> QED
    BY <2>1, <2>2
<1> QED
  BY <1>2, <1>5, <1>6, <1>7, <1>8, KeepsDeciding

LEMMA KeepsReadDocumentPolicy ==
    ASSUME AccessInv, NEW h \in Handlers, ReadDocumentPolicy(h)
    PROVE  AccessInv'
<1> DEFINE yes == DocumentAllows(documentPolicy[Candidate(call[h])], call[h].principal,
                                 Action(call[h].op))
           e == [call[h] EXCEPT !.pc = "audit", !.allowed = yes]
<1>0. CallTypes /\ GrantInv(h) /\ call[h].pc = "document"
  BY DEF AccessInv, ReadDocumentPolicy
<1>1. call[h] \in Calls /\ Progress(call[h])
  BY <1>0, InCall DEF AccessInv, CallInv
<1>2. call' = [call EXCEPT ![h] = e]
  BY <1>0, <1>1 DEF ReadDocumentPolicy, CallTypes
<1>3. h \in Reading
  BY <1>0, <1>1 DEF Reading, Progress, Deciding
<1>4. Candidate(call[h]) \in Documents
  BY <1>0, <1>1 DEF Candidate, Calls, Progress, Deciding
<1>5. /\ yes \in BOOLEAN /\ yes \in grants[h].document[Candidate(call[h])]
      /\ TRUE \in grants[h].collection
  BY <1>0, <1>3, <1>4, AllowsBoolean DEF GrantInv
<1> HIDE DEF yes
<1>6. /\ e \in Calls /\ e.op = call[h].op /\ e.principal = call[h].principal
      /\ e.status = call[h].status /\ e.seen = call[h].seen /\ e.ranked = call[h].ranked
      /\ e.next = call[h].next /\ e.hits = call[h].hits /\ e.limit = call[h].limit
      /\ e.pc = "audit" /\ e.allowed = yes
  BY <1>1, <1>5 DEF Calls, Deciding
<1>7. Candidate(e) = Candidate(call[h])
  BY <1>6 DEF Candidate
<1> HIDE DEF e
<1> QED
  BY <1>0, <1>2, <1>5, <1>6, <1>7, KeepsDeciding, ZenonT(60) DEF ReadDocumentPolicy, Deciding

\* What the decision on a candidate makes of a call: Search has found the candidate's
\* document under the lock, so that an allowed candidate is a hit.
LEMMA DecidedFacts ==
    ASSUME AccessInv, NEW h \in Handlers, call[h].pc = "audit"
    PROVE  LET c == call[h]
               new == Decided(c)
           IN  /\ new \in Calls /\ Hit(c) \in Hits /\ Hit(c).document = Candidate(c)
               /\ c.op # "filter" => /\ Hit(c).content = c.seen[Candidate(c)]
                                     /\ Hit(c).content # Absent
               /\ new.hits = IF c.allowed THEN Append(c.hits, Hit(c)) ELSE c.hits
               /\ new.pc = IF c.next = Len(c.ranked) \/ (c.op = "search" /\ Len(new.hits) = c.limit)
                           THEN "done" ELSE "collection"
               /\ new.status = IF c.op = "get" /\ ~c.allowed THEN "denied" ELSE c.status
               /\ new.next = c.next + 1 /\ new.op = c.op /\ new.principal = c.principal
               /\ new.seen = c.seen /\ new.ranked = c.ranked /\ new.limit = c.limit
<1> DEFINE c == call[h]
           d == Candidate(c)
           usable == c.allowed /\ (c.op # "search" \/ documents[d] # Absent)
           hits == IF c.allowed THEN Append(c.hits, Hit(c)) ELSE c.hits
           ended == c.next = Len(c.ranked) \/ (c.op = "search" /\ Len(hits) = c.limit)
           pc == IF ended THEN "done" ELSE "collection"
           status == IF c.op = "get" /\ ~c.allowed THEN "denied" ELSE c.status
<1>0. CallTypes
  BY DEF AccessInv
<1>1. c \in Calls /\ Progress(c) /\ Locked(h, c)
  BY <1>0, InCall DEF AccessInv, CallInv
<1>2. /\ c.next \in 1..Len(c.ranked) /\ c.op \in {"search", "get", "filter"} /\ d \in Documents
      /\ c.seen \in [Documents -> Contents \union {Absent}]
  BY <1>1 DEF Progress, Deciding, Calls, Candidate, Reads
<1>3. c.op # "filter" => c.seen = documents /\ c.seen[d] # Absent
  BY <1>1, <1>2 DEF Locked, Deciding, Candidate
<1>4. usable <=> c.allowed
  BY <1>3
<1>5. /\ Hit(c).document = d
      /\ Hit(c).content = CASE c.op = "search" -> documents[d]
                            [] c.op = "get" -> c.seen[d]
                            [] OTHER -> Absent
  BY DEF Hit
<1>6. Hit(c).content \in Contents \union {Absent}
  BY <1>0, <1>2, <1>5 DEF CallTypes
<1>7. Hit(c) \in Hits
  BY <1>2, <1>5, <1>6 DEF Hit, Hits
<1>8. c.op # "filter" => Hit(c).content = c.seen[d] /\ Hit(c).content # Absent
  BY <1>2, <1>3, <1>5
<1>9. hits \in Seq(Hits) /\ pc \in {"lock", "done"} \union Deciding /\ status \in Statuses
      /\ c.next + 1 \in Nat
  BY <1>1, <1>2, <1>7 DEF Calls, Deciding, Statuses
<1>10. Decided(c) = [c EXCEPT !.hits = hits, !.next = c.next + 1, !.pc = pc, !.status = status]
  BY <1>4 DEF Decided
<1> HIDE DEF hits, pc, status
<1>11. /\ Decided(c) \in Calls /\ Decided(c).hits = hits /\ Decided(c).pc = pc
       /\ Decided(c).status = status /\ Decided(c).next = c.next + 1 /\ Decided(c).op = c.op
       /\ Decided(c).principal = c.principal /\ Decided(c).seen = c.seen
       /\ Decided(c).ranked = c.ranked /\ Decided(c).limit = c.limit
  BY <1>1, <1>9, <1>10, ZenonT(60) DEF Calls
<1> QED
  BY <1>5, <1>7, <1>8, <1>11 DEF hits, pc, status

LEMMA KeepsAuthorize ==
    ASSUME AccessInv, NEW h \in Handlers, Authorize(h)
    PROVE  AccessInv'
<1> DEFINE c == call[h]
           new == Decided(c)
           d == Candidate(c)
<1>0. CallTypes /\ CallInv(h) /\ GrantInv(h) /\ WithheldInv(h) /\ c.pc = "audit"
  BY DEF AccessInv, Authorize
<1>1. c \in Calls /\ Progress(c) /\ Locked(h, c) /\ Sound(h, c)
  BY <1>0, InCall DEF CallInv
<1>2. /\ c.next \in 1..Len(c.ranked) /\ c.op \in Reads /\ d \in Documents
      /\ c.hits \in Seq(Hits) /\ c.ranked \in Seq(Documents) /\ c.status = "ok"
      /\ c.op = "get" => c.next = Len(c.ranked) /\ c.hits = << >>
  BY <1>0, <1>1 DEF Progress, Deciding, Calls, Candidate
<1>3. call' = [call EXCEPT ![h] = new] /\ call'[h] = new
  BY <1>0 DEF Authorize, CallTypes
<1>4. /\ new \in Calls /\ Hit(c) \in Hits /\ Hit(c).document = d
      /\ c.op # "filter" => Hit(c).content = c.seen[d] /\ Hit(c).content # Absent
      /\ new.hits = IF c.allowed THEN Append(c.hits, Hit(c)) ELSE c.hits
      /\ new.pc = IF c.next = Len(c.ranked) \/ (c.op = "search" /\ Len(new.hits) = c.limit)
                  THEN "done" ELSE "collection"
      /\ new.status = IF c.op = "get" /\ ~c.allowed THEN "denied" ELSE c.status
      /\ new.next = c.next + 1 /\ new.op = c.op /\ new.principal = c.principal
      /\ new.seen = c.seen /\ new.ranked = c.ranked /\ new.limit = c.limit
  BY <1>0, DecidedFacts
<1>5. /\ audited' = [audited EXCEPT ![h] = @ \union (IF c.allowed THEN {d} ELSE {})]
      /\ readers' = IF new.pc = "done" THEN readers \ {h} ELSE readers
      /\ UNCHANGED <<collectionPolicy, documentPolicy, documents, grants>>
  BY DEF Authorize, storeVars
<1> HIDE DEF new, d
<1>6. CallTypes'
  BY <1>0, <1>2, <1>3, <1>4, <1>5 DEF CallTypes
<1>7. ASSUME NEW g \in Handlers, g # h PROVE CallInv(g)' /\ GrantInv(g)' /\ WithheldInv(g)'
  <2>1. /\ call'[g] = call[g] /\ audited'[g] = audited[g] /\ grants'[g] = grants[g]
        /\ g \in readers' <=> g \in readers
    BY <1>0, <1>3, <1>5, <1>7 DEF CallTypes
  <2> QED
    BY <1>5, <2>1, Frame
<1>8. /\ \A j \in 1..Len(new.hits) :
            \/ j \in 1..Len(c.hits) /\ new.hits[j] = c.hits[j]
            \/ c.allowed /\ new.hits[j] = Hit(c)
      /\ \A j \in 1..Len(c.hits) : j \in 1..Len(new.hits) /\ new.hits[j] = c.hits[j]
      /\ c.allowed => \E j \in 1..Len(new.hits) : new.hits[j] = Hit(c)
  <2>1. CASE c.allowed
    <3>1. new.hits = Append(c.hits, Hit(c))
      BY <1>4, <2>1
    <3>2. /\ Len(c.hits) \in Nat /\ Len(new.hits) = Len(c.hits) + 1
          /\ \A j \in 1..Len(c.hits) : new.hits[j] = c.hits[j]
          /\ new.hits[Len(c.hits) + 1] = Hit(c)
      BY <1>2, <1>4, <3>1
    <3>3. \A j \in 1..Len(new.hits) : j \in 1..Len(c.hits) \/ j = Len(c.hits) + 1
      BY <3>2
    <3>4. Len(c.hits) + 1 \in 1..Len(new.hits) /\ 1..Len(c.hits) \subseteq 1..Len(new.hits)
      BY <3>2
    <3> QED
      BY <2>1, <3>2, <3>3, <3>4
  <2>2. CASE ~c.allowed
    BY <1>4, <2>2
  <2> QED
    BY <2>1, <2>2
<1>9. CallInv(h)'
  <2>1. Progress(call[h])'
    BY <1>2, <1>3, <1>4 DEF Progress, Deciding
  <2>2. Locked(h, call[h])'
    <3>1. c.op # "filter" => h \in readers /\ c.seen = documents
      BY <1>0, <1>1 DEF Locked, Deciding
    <3>2. c.op # "filter" => \A i \in 1..Len(c.ranked) : c.seen[c.ranked[i]] # Absent
      BY <1>1 DEF Locked
    <3> QED
      BY <1>3, <1>4, <1>5, <3>1, <3>2 DEF Locked, Deciding
  <2>3. Sound(h, call[h])'
    <3>1. audited'[h] = audited[h] \union (IF c.allowed THEN {d} ELSE {})
      BY <1>0, <1>5 DEF CallTypes
    <3>2. c.allowed => TRUE \in grants[h].collection /\ TRUE \in grants[h].document[d]
      BY <1>0 DEF GrantInv, d
    <3>3. ASSUME NEW j \in 1..Len(new.hits)
          PROVE  /\ new.hits[j].document \in audited'[h]
                 /\ new.op # "filter" => /\ new.hits[j].content = new.seen[new.hits[j].document]
                                         /\ new.hits[j].content # Absent
                 /\ TRUE \in grants[h].collection
                 /\ TRUE \in grants[h].document[new.hits[j].document]
      <4>1. CASE j \in 1..Len(c.hits) /\ new.hits[j] = c.hits[j]
        BY <1>1, <1>4, <3>1, <4>1 DEF Sound
      <4>2. CASE c.allowed /\ new.hits[j] = Hit(c)
        BY <1>4, <3>1, <3>2, <4>2
      <4> QED
        BY <1>8, <4>1, <4>2
    <3> QED
      BY <1>3, <1>5, <3>3 DEF Sound
  <2>4. h \in readers' => call'[h].pc \in {"lock"} \union Deciding /\ call'[h].op \in {"search", "get"}
    BY <1>0, <1>3, <1>4, <1>5 DEF CallInv, Deciding
  <2> QED
    BY <2>1, <2>2, <2>3, <2>4 DEF CallInv
<1>10. GrantInv(h)'
  <2>1. h \in Reading
    BY <1>0, <1>2 DEF Reading
  <2> QED
    BY <1>0, <1>3, <1>4, <1>5, <2>1 DEF GrantInv
<1>11. WithheldInv(h)'
  <2>1. Among(c, c.next - 1) /\ \A i \in 1..(c.next - 1) : Settled(h, c, i)
    BY <1>0 DEF WithheldInv, Deciding
  <2>2. c.next \in Nat /\ c.next >= 1 /\ Len(c.ranked) \in Nat
    BY <1>2
  <2>3. Among(new, c.next)
    <3>1. ASSUME NEW j \in 1..Len(new.hits)
          PROVE  \E k \in 1..c.next : c.ranked[k] = new.hits[j].document
      <4>1. CASE j \in 1..Len(c.hits) /\ new.hits[j] = c.hits[j]
        BY <2>1, <2>2, <4>1 DEF Among
      <4>2. CASE new.hits[j] = Hit(c)
        <5>1. c.next \in 1..c.next /\ c.ranked[c.next] = d
          BY <2>2 DEF d, Candidate
        <5> QED
          BY <1>4, <4>2, <5>1
      <4> QED
        BY <1>8, <4>1, <4>2
    <3> QED
      BY <1>4, <3>1 DEF Among
  <2>4. ASSUME NEW i \in 1..c.next PROVE Settled(h, new, i)
    <3>1. CASE i = c.next
      <4>1. CASE c.allowed
        BY <1>4, <1>8, <3>1, <4>1, ZenonT(60) DEF Settled, d, Candidate
      <4>2. CASE ~c.allowed
        BY <1>0, <1>4, <3>1, <4>2 DEF GrantInv, Settled, Candidate
      <4> QED
        BY <4>1, <4>2
    <3>2. CASE i # c.next
      <4>1. i \in 1..(c.next - 1)
        BY <2>2, <3>2
      <4>2. Settled(h, c, i)
        BY <2>1, <4>1
      <4>3. CASE \E j \in 1..Len(c.hits) : c.hits[j].document = c.ranked[i]
        BY <1>4, <1>8, <4>3, ZenonT(60) DEF Settled
      <4>4. CASE ~ \E j \in 1..Len(c.hits) : c.hits[j].document = c.ranked[i]
        BY <1>4, <4>2, <4>4 DEF Settled
      <4> QED
        BY <4>3, <4>4
    <3> QED
      BY <3>1, <3>2
  <2>5. \A i \in 1..c.next : Settled(h, call[h], i)'
    BY <1>3, <1>5, <2>4 DEF Settled
  <2>6. Among(call'[h], c.next)
    BY <1>3, <2>3
  <2>7. CASE new.pc = "collection"
    <3>1. call'[h].next - 1 = c.next
      BY <1>3, <1>4, <2>2
    <3> QED
      BY <1>3, <2>5, <2>6, <2>7, <3>1 DEF WithheldInv
  <2>8. CASE new.pc = "done"
    <3>1. c.next \in 0..Len(call'[h].ranked)
      BY <1>2, <1>3, <1>4
    <3>2. c.next < Len(call'[h].ranked) => call'[h].op = "search" /\ Len(call'[h].hits) = call'[h].limit
      <4>1. c.next = Len(c.ranked) \/ (c.op = "search" /\ Len(new.hits) = c.limit)
        BY <1>4, <2>8
      <4>2. c.next < Len(c.ranked) => c.next # Len(c.ranked)
        BY <2>2
      <4> QED
        BY <1>3, <1>4, <4>1, <4>2, Zenon
    <3> QED
      BY <1>3, <2>5, <2>6, <2>8, <3>1, <3>2 DEF WithheldInv, Deciding
  <2> QED
    BY <1>4, <2>7, <2>8
<1> QED
  BY <1>6, <1>7, <1>9, <1>10, <1>11 DEF AccessInv

-----------------------------------------------------------------------------
(* A change of the policies.                                               *)

\* The history of the two halves only grows, and takes in what they are now.
LEMMA KeepsWiden ==
    ASSUME AccessInv, NEW byDocument \in [Documents -> Policies \union {NoPolicy}],
           NEW collection, collectionPolicy' = collection, documentPolicy' = byDocument,
           Widen(collection, byDocument), UNCHANGED <<documents, readers, call, audited>>
    PROVE  AccessInv'
<1>0. CallTypes
  BY DEF AccessInv
<1>1. ASSUME NEW h \in Handlers, h \in Reading
      PROVE  /\ grants'[h] \in Halves
             /\ grants'[h].collection = grants[h].collection \union
                    {CollectionAllows(collection, call[h].principal, Action(call[h].op))}
             /\ \A d \in Documents : grants'[h].document[d] = grants[h].document[d] \union
                    {DocumentAllows(byDocument[d], call[h].principal, Action(call[h].op))}
  <2> DEFINE new == Grants(call[h], collection, byDocument)
  <2>1. grants'[h] = [collection |-> grants[h].collection \union new.collection,
                      document |-> [d \in Documents |-> grants[h].document[d] \union new.document[d]]]
    BY <1>1 DEF Widen
  <2>2. /\ new.collection = {CollectionAllows(collection, call[h].principal, Action(call[h].op))}
        /\ \A d \in Documents : new.document[d] =
                {DocumentAllows(byDocument[d], call[h].principal, Action(call[h].op))}
    BY DEF Grants
  <2>3. new \in Halves /\ grants[h] \in Halves
    BY <1>0, GrantsTyped DEF CallTypes
  <2> HIDE DEF new
  <2> QED
    BY <2>1, <2>2, <2>3 DEF Halves
<1>2. \A h \in Handlers : h \notin Reading => grants'[h] = grants[h]
  BY DEF Widen
<1>3. CallTypes'
  <2>1. grants' = [h \in Handlers |-> grants'[h]]
    BY DEF Widen
  <2>2. \A h \in Handlers : grants'[h] \in Halves
    BY <1>0, <1>1, <1>2 DEF CallTypes
  <2>3. grants' \in [Handlers -> Halves]
    BY <2>1, <2>2
  <2> QED
    BY <1>0, <2>3 DEF CallTypes
<1>4. ASSUME NEW h \in Handlers
      PROVE  /\ grants[h].collection \subseteq grants'[h].collection
             /\ \A d \in Documents : grants[h].document[d] \subseteq grants'[h].document[d]
  BY <1>1, <1>2
<1>5. ASSUME NEW h \in Handlers PROVE CallInv(h)' /\ GrantInv(h)' /\ WithheldInv(h)'
  <2>0. CallInv(h) /\ GrantInv(h) /\ WithheldInv(h)
    BY DEF AccessInv
  <2>1. /\ call' = call /\ readers' = readers /\ documents' = documents /\ audited' = audited
        /\ Reading' = Reading
    BY DEF Reading
  <2>2. CallInv(h)'
    <3>1. SUFFICES ASSUME call[h].pc # "idle" PROVE Sound(h, call[h])'
      BY <2>0, <2>1 DEF CallInv, Locked
    <3>2. call[h] \in Calls /\ Sound(h, call[h])
      BY <1>0, <2>0, <3>1, InCall DEF CallInv
    <3>3. \A j \in 1..Len(call[h].hits) : call[h].hits[j].document \in Documents
      <4>1. call[h].hits \in Seq(Hits)
        BY <3>2 DEF Calls
      <4>2. \A j \in 1..Len(call[h].hits) : call[h].hits[j] \in Hits
        BY <4>1
      <4> QED
        BY <4>2 DEF Hits
    <3> QED
      BY <1>4, <2>1, <3>2, <3>3 DEF Sound
  <2>3. GrantInv(h)'
    <3>1. h \in Reading =>
            /\ CollectionAllows(collection, call[h].principal, Action(call[h].op)) \in grants'[h].collection
            /\ \A d \in Documents :
                    DocumentAllows(byDocument[d], call[h].principal, Action(call[h].op))
                        \in grants'[h].document[d]
      BY <1>1
    <3>2. call[h].pc = "audit" => Candidate(call[h]) \in Documents
      BY <1>0, <2>0, InCall DEF CallInv, Progress, Deciding, Calls, Candidate
    <3>3. call[h].pc = "document" => TRUE \in grants'[h].collection
      BY <1>4, <2>0 DEF GrantInv
    <3>4. call[h].pc = "audit" =>
            IF call[h].allowed
            THEN TRUE \in grants'[h].collection /\ TRUE \in grants'[h].document[Candidate(call[h])]
            ELSE FALSE \in grants'[h].collection \/ FALSE \in grants'[h].document[Candidate(call[h])]
      BY <1>4, <2>0, <3>2 DEF GrantInv
    <3> QED
      BY <2>1, <3>1, <3>3, <3>4 DEF GrantInv, Candidate
  <2>4. WithheldInv(h)'
    <3>1. SUFFICES ASSUME call[h].pc # "idle" PROVE WithheldInv(h)'
      BY <2>1 DEF WithheldInv, Deciding
    <3>2. call[h] \in Calls
      BY <1>0, <3>1, InCall
    <3>3. ASSUME NEW i \in 1..Len(call[h].ranked), Settled(h, call[h], i)
          PROVE  Settled(h, call[h], i)'
      <4>1. call[h].ranked[i] \in Documents
        BY <3>2 DEF Calls
      <4> QED
        BY <1>4, <2>1, <3>3, <4>1 DEF Settled
    <3>4. CASE call[h].pc \in Deciding
      <4>1. call[h].next - 1 \in Nat /\ call[h].next - 1 < Len(call[h].ranked) /\ Len(call[h].ranked) \in Nat
        BY <2>0, <3>2, <3>4 DEF CallInv, Progress, Deciding, Calls
      <4>2. \A i \in 1..(call[h].next - 1) : i \in 1..Len(call[h].ranked)
        BY <4>1
      <4> QED
        BY <2>0, <2>1, <3>3, <3>4, <4>2 DEF WithheldInv, Deciding
    <3>5. CASE call[h].pc = "done" /\ call[h].op \in Reads /\ call[h].status = "ok"
      <4>1. PICK n \in 0..Len(call[h].ranked) :
                /\ Among(call[h], n)
                /\ \A i \in 1..n : Settled(h, call[h], i)
                /\ n < Len(call[h].ranked) => call[h].op = "search" /\ Len(call[h].hits) = call[h].limit
        BY <2>0, <3>5 DEF WithheldInv
      <4>2. \A i \in 1..n : i \in 1..Len(call[h].ranked)
        BY <3>2 DEF Calls
      <4>3. \A i \in 1..n : Settled(h, call[h], i)'
        BY <3>3, <4>1, <4>2
      <4> QED
        BY <2>1, <3>5, <4>1, <4>3 DEF WithheldInv, Deciding
    <3> QED
      BY <2>1, <3>4, <3>5 DEF WithheldInv
  <2> QED
    BY <2>2, <2>3, <2>4
<1> QED
  BY <1>3, <1>5 DEF AccessInv

LEMMA KeepsPolicies ==
    ASSUME AccessInv, NEW policy \in Policies,
           \/ SetCollectionPolicy(policy)
           \/ \E d \in Documents : SetDocumentPolicy(d, policy)
    PROVE  AccessInv'
<1>0. documentPolicy \in [Documents -> Policies \union {NoPolicy}]
  BY DEF AccessInv, CallTypes
<1>1. CASE SetCollectionPolicy(policy)
  BY <1>0, <1>1, KeepsWiden DEF SetCollectionPolicy
<1>2. ASSUME NEW d \in Documents, SetDocumentPolicy(d, policy) PROVE AccessInv'
  <2>1. [documentPolicy EXCEPT ![d] = policy] \in [Documents -> Policies \union {NoPolicy}]
    BY <1>0
  <2> QED
    BY <1>2, <2>1, KeepsWiden DEF SetDocumentPolicy
<1> QED
  BY <1>1, <1>2

-----------------------------------------------------------------------------
(* The theorems.                                                           *)

LEMMA AccessInit ==
    ASSUME Init PROVE AccessInv
<1>1. NoGrants \in Halves
  BY DEF NoGrants, Halves
<1>2. CallTypes
  BY <1>1, AccessAssumption DEF Init, CallTypes
<1>3. \A h \in Handlers : call[h].pc = "idle"
  BY DEF Init, Idle
<1>4. \A h \in Handlers : CallInv(h) /\ GrantInv(h) /\ WithheldInv(h)
  BY <1>3 DEF Init, CallInv, GrantInv, Reading, WithheldInv, Deciding
<1> QED
  BY <1>2, <1>4 DEF AccessInv

LEMMA AccessStep ==
    ASSUME AccessInv, [Next]_vars PROVE AccessInv'
<1>1. CASE UNCHANGED vars
  <2>1. CallTypes'
    BY <1>1 DEF AccessInv, CallTypes, vars, storeVars, historyVars
  <2>2. ASSUME NEW h \in Handlers PROVE CallInv(h)' /\ GrantInv(h)' /\ WithheldInv(h)'
    BY <1>1, Frame DEF vars, storeVars, historyVars
  <2> QED
    BY <2>1, <2>2 DEF AccessInv
<1>2. ASSUME NEW policy \in Policies, SetCollectionPolicy(policy) PROVE AccessInv'
  BY <1>2, KeepsPolicies
<1>3. ASSUME NEW policy \in Policies, NEW d \in Documents, SetDocumentPolicy(d, policy)
      PROVE  AccessInv'
  BY <1>3, KeepsPolicies
<1>4. ASSUME NEW h \in Handlers, NEW r \in Requests[h], Call(h, r) \/ Refuse(h, r)
      PROVE  AccessInv'
  BY <1>4, KeepsCall, KeepsRefuse
<1>5. ASSUME NEW h \in Handlers, Step(h) \/ Return(h) PROVE AccessInv'
  BY <1>5, KeepsRLock, KeepsWrite, KeepsRetrieve, KeepsReadCollectionPolicy,
     KeepsReadDocumentPolicy, KeepsAuthorize, KeepsFailures, KeepsReturn DEF Step
<1> QED
  BY <1>1, <1>2, <1>3, <1>4, <1>5 DEF Next

\* The invariant holds for ever: what each handler has got to, what its hits are made
\* of, what the two halves of a decision have been, which candidates are settled.
THEOREM AccessInvariant == Spec => []AccessInv
  BY AccessInit, AccessStep, PTL DEF Spec

\* The members of a sequence, by their places.
LEMMA MembersByPlace ==
    ASSUME NEW S, NEW s \in Seq(S)
    PROVE  \A x \in ToSet(s) : \E j \in 1..Len(s) : x = s[j]
  BY DEF ToSet

\* A document is in an answer only if both halves of evaluate allowed it some time
\* during the call.
THEOREM AnswersAllowed == Spec => []AnswersWereAllowed
<1>1. ASSUME AccessInv PROVE AnswersWereAllowed
  <2>1. ASSUME NEW h \in Handlers, call[h].pc # "idle", NEW hit \in ToSet(call[h].hits)
        PROVE  TRUE \in grants[h].collection /\ TRUE \in grants[h].document[hit.document]
    <3>1. call[h] \in Calls /\ Sound(h, call[h])
      BY <1>1, <2>1, InCall DEF AccessInv, CallInv
    <3>2. call[h].hits \in Seq(Hits)
      BY <3>1 DEF Calls
    <3>3. PICK j \in 1..Len(call[h].hits) : hit = call[h].hits[j]
      BY <3>2, MembersByPlace
    <3> QED
      BY <2>1, <3>1, <3>3 DEF Sound
  <2> QED
    BY <2>1 DEF AnswersWereAllowed
<1> QED
  BY <1>1, AccessInvariant, PTL

\* Every document of an answer has been recorded as allowed, and a call that failed
\* discloses nothing (policy.go Authorize).
THEOREM AnswersAudited == Spec => []AnswersAreAudited
<1>1. ASSUME AccessInv PROVE AnswersAreAudited
  <2>1. ASSUME NEW h \in Handlers, call[h].pc # "idle"
        PROVE  /\ \A hit \in ToSet(call[h].hits) : hit.document \in audited[h]
               /\ call[h].status # "ok" => call[h].hits = << >>
    <3>1. call[h] \in Calls /\ Progress(call[h]) /\ Sound(h, call[h])
      BY <1>1, <2>1, InCall DEF AccessInv, CallInv
    <3>2. call[h].hits \in Seq(Hits)
      BY <3>1 DEF Calls
    <3>3. ASSUME NEW hit \in ToSet(call[h].hits) PROVE hit.document \in audited[h]
      <4>1. PICK j \in 1..Len(call[h].hits) : hit = call[h].hits[j]
        BY <3>2, MembersByPlace
      <4> QED
        BY <3>1, <4>1 DEF Sound
    <3> QED
      BY <3>1, <3>3 DEF Progress
  <2> QED
    BY <2>1 DEF AnswersAreAudited
<1> QED
  BY <1>1, AccessInvariant, PTL

\* A document is disclosed with the content it had when it was ranked or looked up:
\* the lock keeps writes out (engine.go Search and Get).
THEOREM HitsMatched == Spec => []HitsAreWhatMatched
<1>1. ASSUME AccessInv PROVE HitsAreWhatMatched
  <2>1. ASSUME NEW h \in Handlers, call[h].pc # "idle", call[h].op # "filter",
               NEW hit \in ToSet(call[h].hits)
        PROVE  hit.content = call[h].seen[hit.document] /\ hit.content # Absent
    <3>1. call[h] \in Calls /\ Sound(h, call[h])
      BY <1>1, <2>1, InCall DEF AccessInv, CallInv
    <3>2. call[h].hits \in Seq(Hits)
      BY <3>1 DEF Calls
    <3>3. PICK j \in 1..Len(call[h].hits) : hit = call[h].hits[j]
      BY <3>2, MembersByPlace
    <3> QED
      BY <2>1, <3>1, <3>3 DEF Sound
  <2> QED
    BY <2>1 DEF HitsAreWhatMatched
<1> QED
  BY <1>1, AccessInvariant, PTL

\* A candidate the caller may see throughout the call is missing from an answer of
\* Search only if the answer is full of candidates that rank before it.
THEOREM CandidatesKept == Spec => []NothingWithheld
<1>1. ASSUME AccessInv PROVE NothingWithheld
  <2>1. ASSUME NEW h \in Handlers,
               call[h].pc = "done" /\ call[h].op \in Reads /\ call[h].status = "ok",
               NEW i \in DOMAIN call[h].ranked,
               grants[h].collection = {TRUE}, grants[h].document[call[h].ranked[i]] = {TRUE},
               ~ \E j \in DOMAIN call[h].hits : call[h].hits[j].document = call[h].ranked[i]
        PROVE  /\ call[h].op = "search" /\ Len(call[h].hits) = call[h].limit
               /\ \A hit \in ToSet(call[h].hits) :
                    \E j \in 1..(i - 1) : call[h].ranked[j] = hit.document
    <3>1. call[h] \in Calls /\ call[h].hits \in Seq(Hits) /\ call[h].ranked \in Seq(Documents)
      BY <1>1, <2>1, InCall DEF AccessInv, Calls
    <3>2. DOMAIN call[h].hits = 1..Len(call[h].hits) /\ i \in 1..Len(call[h].ranked)
          /\ Len(call[h].ranked) \in Nat
      BY <3>1
    <3>3. PICK n \in 0..Len(call[h].ranked) :
                /\ Among(call[h], n)
                /\ \A k \in 1..n : Settled(h, call[h], k)
                /\ n < Len(call[h].ranked) => call[h].op = "search" /\ Len(call[h].hits) = call[h].limit
      BY <1>1, <2>1 DEF AccessInv, WithheldInv
    <3>4. ~Settled(h, call[h], i)
      BY <2>1, <3>2 DEF Settled
    <3>5. n < i
      BY <3>2, <3>3, <3>4
    <3>6. \A k \in 1..n : k \in 1..(i - 1)
      BY <3>2, <3>5
    <3>7. n < Len(call[h].ranked)
      BY <3>2, <3>5
    <3>8. \A hit \in ToSet(call[h].hits) : \E j \in 1..(i - 1) : call[h].ranked[j] = hit.document
      <4>1. TAKE hit \in ToSet(call[h].hits)
      <4>2. PICK j \in 1..Len(call[h].hits) : hit = call[h].hits[j]
        BY <3>1, MembersByPlace
      <4>3. PICK k \in 1..n : call[h].ranked[k] = call[h].hits[j].document
        BY <3>3 DEF Among
      <4> QED
        BY <3>6, <4>2, <4>3
    <3> QED
      BY <3>3, <3>7, <3>8
  <2> QED
    BY <2>1 DEF NothingWithheld
<1> QED
  BY <1>1, AccessInvariant, PTL

=============================================================================
