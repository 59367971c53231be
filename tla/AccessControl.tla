---------------------------- MODULE AccessControl ----------------------------
(***************************************************************************)
(* Who sees which document at a search node: the handlers of               *)
(* internal/searchnode/service.go, Engine.Search and Engine.Get, and the   *)
(* policies of internal/authorization/policy.go.                           *)
(*                                                                         *)
(* The engine's lock e.mu keeps documents still while a handler ranks them *)
(* and copies them out.  Policies are behind another lock, which evaluate  *)
(* takes twice for one document, so they may change between two candidates *)
(* of one answer and between the two halves of one decision.  Rules and    *)
(* the lists in them are sets: the loops over them do not stop early in a  *)
(* way that depends on the order.  Which documents match a query, and in   *)
(* which order, is the subject of module HybridIndex; here it is any order *)
(* of any of the stored documents.  There is one map of documents here, so *)
(* a document is ranked by what is stored; behind a write that the vector  *)
(* index refused, the lexical index ranks by the text that was refused and *)
(* may name a document that is not in the map, which Search skips.         *)
(***************************************************************************)
EXTENDS Naturals, FiniteSets, SequencesExt

CONSTANTS
    Documents,              \* document IDs
    Contents,               \* what a document may hold
    Absent,                 \* no document
    Stored,                 \* the documents Open may find in the log
    Principals,             \* records [subject, groups, scopes] out of Authenticate
    Nobody,                 \* the token was missing or did not verify
    Policies,               \* policies that are offered to the store
    NoPolicy,               \* the store has none
    Handlers,               \* RPCs the server runs at once
    Requests,               \* the requests each handler gets
    MaximumResultLimit,
    MaxChanges              \* bound: policy changes in a behaviour

ASSUME AccessAssumption ==
    /\ IsFiniteSet(Documents)
    /\ Absent \notin Contents
    /\ Stored \subseteq [Documents -> Contents \union {Absent}]
    /\ Nobody \notin Principals
    /\ NoPolicy \notin Policies
    /\ MaximumResultLimit \in Nat /\ MaxChanges \in Nat
    /\ \A h \in Handlers : \A r \in Requests[h] :
        /\ r.op \in {"search", "get", "filter", "upsert", "delete"}
        /\ r.principal \in Principals \union {Nobody}
        /\ r.serves \in BOOLEAN              \* it names the collection of this node, or none
        /\ r.limit \in Nat
        /\ r.document \in Documents
        /\ r.content \in Contents

VARIABLES
    collectionPolicy,       \* s.collections[e.collectionID]
    documentPolicy,         \* s.documents, by document
    documents,              \* e.documents
    readers,                \* handlers that hold e.mu for reading
    call,                   \* what each handler is doing
    changes,                \* policy changes so far
    \* history variables, of the call each handler is in
    audited,                \* documents recorded as allowed
    grants                  \* what each half of the decision was during the call

storeVars == <<collectionPolicy, documentPolicy, changes>>
historyVars == <<audited, grants>>
vars == <<storeVars, documents, readers, call, historyVars>>

Reads == {"search", "get", "filter"}
Writes == {"upsert", "delete"}
Action(op) == IF op = "get" THEN "read" ELSE "search"

Idle == [pc |-> "idle"]

-----------------------------------------------------------------------------
(* Policies.                                                               *)

ruleMatches(rule, principal, action) ==
    /\ action \in rule.actions
    /\ rule.scopes \subseteq principal.scopes
    /\ \/ rule.subjects = {} /\ rule.groups = {}
       \/ principal.subject \in rule.subjects
       \/ rule.groups \intersect principal.groups # {}

\* A policy allows what some rule matches and no matching rule denies.
evaluatePolicy(policy, principal, action) ==
    LET matching == {rule \in policy : ruleMatches(rule, principal, action)}
    IN  matching # {} /\ \A rule \in matching : rule.effect # "deny"

validatePolicy(policy) ==
    /\ policy # {}
    /\ \A rule \in policy :
        /\ rule.effect \in {"allow", "deny"}
        /\ rule.actions # {} /\ rule.actions \subseteq {"search", "read"}

\* The two halves of evaluate.  Without a policy a collection is closed and a
\* document is as open as its collection.
CollectionAllows(policy, principal, action) ==
    policy # NoPolicy /\ evaluatePolicy(policy, principal, action)

DocumentAllows(policy, principal, action) ==
    policy = NoPolicy \/ evaluatePolicy(policy, principal, action)

\* What each half is now, for a call c.
Grants(c, collection, byDocument) ==
    [collection |-> {CollectionAllows(collection, c.principal, Action(c.op))},
     document |-> [d \in Documents |->
                    {DocumentAllows(byDocument[d], c.principal, Action(c.op))}]]

NoGrants == [collection |-> {}, document |-> [d \in Documents |-> {}]]

\* The handlers that are inside a read.
Reading == {h \in Handlers : call[h].pc \notin {"idle", "done"} /\ call[h].op \in Reads}

\* History: the halves take the values they have with the new policies, too.
Widen(collection, byDocument) ==
    grants' = [h \in Handlers |->
        IF h \notin Reading THEN grants[h]
        ELSE LET new == Grants(call[h], collection, byDocument)
             IN  [collection |-> grants[h].collection \union new.collection,
                  document |-> [d \in Documents |-> grants[h].document[d] \union new.document[d]]]]

SetCollectionPolicy(policy) ==
    /\ changes < MaxChanges
    /\ validatePolicy(policy)
    /\ collectionPolicy' = policy
    /\ changes' = changes + 1
    /\ Widen(policy, documentPolicy)
    /\ UNCHANGED <<documentPolicy, documents, readers, call, audited>>

SetDocumentPolicy(d, policy) ==
    /\ changes < MaxChanges
    /\ validatePolicy(policy)
    /\ documentPolicy' = [documentPolicy EXCEPT ![d] = policy]
    /\ changes' = changes + 1
    /\ Widen(collectionPolicy, [documentPolicy EXCEPT ![d] = policy])
    /\ UNCHANGED <<collectionPolicy, documents, readers, call, audited>>

-----------------------------------------------------------------------------
(* A handler checks its request before it touches the engine.              *)

hasScope(principal, scope) == scope \in principal.scopes

SearchStatus(r) ==
    IF r.principal = Nobody THEN "unauthenticated"
    ELSE IF r.serves /\ r.limit \notin 1..MaximumResultLimit THEN "invalid"
    ELSE "ok"

GetStatus(r) ==
    IF ~r.serves THEN "notfound"
    ELSE IF r.principal = Nobody THEN "unauthenticated"
    ELSE "ok"

\* A document that is too large is refused as one for another collection is.
WriteStatus(r) ==
    IF r.principal = Nobody THEN "unauthenticated"
    ELSE IF ~hasScope(r.principal, "documents.write") THEN "denied"
    ELSE IF ~r.serves THEN "invalid"
    ELSE "ok"

Status(r) ==
    CASE r.op = "search" -> SearchStatus(r)
      [] r.op = "get" -> GetStatus(r)
      [] r.op \in Writes -> WriteStatus(r)
      [] OTHER -> "ok"

\* A call of the request r that has got to pc, with its candidates.
Started(r, pc, list, status) ==
    [pc |-> pc, op |-> r.op, principal |-> r.principal, limit |-> r.limit,
     document |-> r.document, content |-> r.content, status |-> status,
     seen |-> [d \in Documents |-> Absent], ranked |-> list, next |-> 1,
     allowed |-> FALSE, hits |-> <<>>]

\* The request passes the checks.  Filter, which takes no lock, gets its
\* candidates from its caller.
Call(h, r) ==
    /\ call[h].pc = "idle"
    /\ Status(r) = "ok" /\ r.serves
    /\ r.op = "filter" => r.principal # Nobody
    /\ \/ /\ r.op # "filter"
          /\ call' = [call EXCEPT ![h] = Started(r, "lock", <<>>, "ok")]
       \/ /\ r.op = "filter"
          /\ \E list \in SetToSeqs(Documents) :
                call' = [call EXCEPT ![h] = Started(r, "collection", list, "ok")]
    /\ grants' = [grants EXCEPT ![h] =
                    Grants(Started(r, "lock", <<>>, "ok"), collectionPolicy, documentPolicy)]
    /\ UNCHANGED <<storeVars, documents, readers, audited>>

\* It does not, or asks this node for another collection: nothing is looked at.
Refuse(h, r) ==
    /\ call[h].pc = "idle"
    /\ r.op # "filter"
    /\ Status(r) # "ok" \/ ~r.serves
    /\ call' = [call EXCEPT ![h] = Started(r, "done", <<>>, Status(r))]
    /\ UNCHANGED <<storeVars, documents, readers, historyVars>>

Return(h) ==
    /\ call[h].pc = "done"
    /\ call' = [call EXCEPT ![h] = Idle]
    /\ audited' = [audited EXCEPT ![h] = {}]
    /\ grants' = [grants EXCEPT ![h] = NoGrants]
    /\ UNCHANGED <<storeVars, documents, readers>>

-----------------------------------------------------------------------------
(* The engine's lock, a sync.RWMutex: a waiting writer keeps new readers   *)
(* out, and lets in the ones that wait when it is done.                    *)

Waiting(ops) == {h \in Handlers : call[h].pc = "lock" /\ call[h].op \in ops /\ h \notin readers}

RLock(h) ==
    /\ h \in Waiting(Reads)
    /\ Waiting(Writes) = {}
    /\ readers' = readers \union {h}
    /\ UNCHANGED <<storeVars, documents, call, historyVars>>

\* The handler leaves the engine, by its deferred RUnlock.
Leave(h, c) ==
    /\ call' = [call EXCEPT ![h] = [c EXCEPT !.pc = "done"]]
    /\ readers' = readers \ {h}

\* Mutant: a write does not wait for the readers.
WriteUnlocked(h) ==
    /\ h \in Waiting(Writes)
    /\ documents' = [documents EXCEPT ![call[h].document] =
                        IF call[h].op = "upsert" THEN call[h].content ELSE Absent]
    /\ readers' = readers \union Waiting(Reads)
    /\ call' = [call EXCEPT ![h].pc = "done"]
    /\ UNCHANGED <<storeVars, historyVars>>

\* Engine.Upsert and Engine.Delete.  Their steps, and their failures, are in
\* module CollectionEngine.
Write(h) ==
    /\ h \in Waiting(Writes)
    /\ readers = {}
    /\ documents' = [documents EXCEPT ![call[h].document] =
                        IF call[h].op = "upsert" THEN call[h].content ELSE Absent]
    /\ readers' = Waiting(Reads)
    /\ call' = [call EXCEPT ![h].pc = "done"]
    /\ UNCHANGED <<storeVars, historyVars>>

\* Engine.Search ranks the candidates, all of them; Engine.Get looks its
\* document up.
Retrieve(h) ==
    LET c == [call[h] EXCEPT !.seen = documents]
        stored == {d \in Documents : documents[d] # Absent}
    IN  /\ call[h].pc = "lock" /\ h \in readers
        /\ \E list \in (IF c.op = "get" THEN SetToSeqs(stored \intersect {c.document})
                        ELSE SetToAllKPermutations(stored)) :
              \/ /\ list # <<>>
                 /\ call' = [call EXCEPT ![h] = [c EXCEPT !.pc = "collection", !.ranked = list]]
                 /\ UNCHANGED readers
              \/ /\ list = <<>>
                 /\ Leave(h, IF c.op = "get" THEN [c EXCEPT !.status = "notfound"] ELSE c)
        /\ UNCHANGED <<storeVars, documents, historyVars>>

\* The context is done, and the query cannot be embedded.
RetrieveFails(h) ==
    /\ call[h].pc = "lock" /\ h \in readers
    /\ call[h].op = "search"
    /\ Leave(h, [call[h] EXCEPT !.status = "failed"])
    /\ UNCHANGED <<storeVars, documents, historyVars>>

-----------------------------------------------------------------------------
(* Enforcer.Authorize on the next candidate: two reads of the store, then  *)
(* the audit record, then the handler uses the decision.                   *)

Candidate(c) == c.ranked[c.next]

ReadCollectionPolicy(h) ==
    /\ call[h].pc = "collection"
    /\ call' = [call EXCEPT ![h] =
            IF CollectionAllows(collectionPolicy, @.principal, Action(@.op))
            THEN [@ EXCEPT !.pc = "document"]
            ELSE [@ EXCEPT !.pc = "audit", !.allowed = FALSE]]
    /\ UNCHANGED <<storeVars, documents, readers, historyVars>>

\* Mutant: the policy of the document is not looked at.
ReadNoDocumentPolicy(h) ==
    /\ call[h].pc = "document"
    /\ call' = [call EXCEPT ![h].pc = "audit", ![h].allowed = TRUE]
    /\ UNCHANGED <<storeVars, documents, readers, historyVars>>

ReadDocumentPolicy(h) ==
    /\ call[h].pc = "document"
    /\ call' = [call EXCEPT ![h].pc = "audit", ![h].allowed =
            DocumentAllows(documentPolicy[Candidate(call[h])], call[h].principal, Action(call[h].op))]
    /\ UNCHANGED <<storeVars, documents, readers, historyVars>>

\* What the candidate adds to the answer.  Search copies the document now, Get
\* has read it before the decision, Filter lists its ID.
Hit(c) ==
    LET d == Candidate(c)
        content == CASE c.op = "search" -> documents[d]
                     [] c.op = "get" -> c.seen[d]
                     [] OTHER -> Absent
    IN  [document |-> d, content |-> content]

\* Mutant: the answer is cut before candidates are authorized.
DecidedEarlyCut(c) ==
    LET usable == c.allowed /\ (c.op # "search" \/ documents[Candidate(c)] # Absent)
        hits == IF usable THEN Append(c.hits, Hit(c)) ELSE c.hits
        ended == c.next = Len(c.ranked) \/ (c.op = "search" /\ c.next = c.limit)
    IN  [c EXCEPT !.hits = hits, !.next = @ + 1,
            !.pc = IF ended THEN "done" ELSE "collection",
            !.status = IF c.op = "get" /\ ~c.allowed THEN "denied" ELSE @]

\* The call after the decision on a candidate: the rest of the loop's body.
Decided(c) ==
    LET usable == c.allowed /\ (c.op # "search" \/ documents[Candidate(c)] # Absent)
        hits == IF usable THEN Append(c.hits, Hit(c)) ELSE c.hits
        ended == c.next = Len(c.ranked) \/ (c.op = "search" /\ Len(hits) = c.limit)
    IN  [c EXCEPT !.hits = hits, !.next = @ + 1,
            !.pc = IF ended THEN "done" ELSE "collection",
            !.status = IF c.op = "get" /\ ~c.allowed THEN "denied" ELSE @]

\* Mutant: the decision is used although it could not be recorded.
AuthorizeUnrecorded(h) ==
    /\ call[h].pc = "audit"
    /\ call' = [call EXCEPT ![h] = Decided(@)]
    /\ readers' = IF Decided(call[h]).pc = "done" THEN readers \ {h} ELSE readers
    /\ \/ audited' = [audited EXCEPT ![h] = @ \union
                        (IF call[h].allowed THEN {Candidate(call[h])} ELSE {})]
       \/ UNCHANGED audited
    /\ UNCHANGED <<storeVars, documents, grants>>

Authorize(h) ==
    /\ call[h].pc = "audit"
    /\ call' = [call EXCEPT ![h] = Decided(@)]
    /\ readers' = IF Decided(call[h]).pc = "done" THEN readers \ {h} ELSE readers
    /\ audited' = [audited EXCEPT ![h] = @ \union
                    (IF call[h].allowed THEN {Candidate(call[h])} ELSE {})]
    /\ UNCHANGED <<storeVars, documents, grants>>

\* Mutant: the lock is not released on the way out of an error.
AuditFailsLocked(h) ==
    /\ call[h].pc = "audit"
    /\ call' = [call EXCEPT ![h].pc = "done", ![h].status = "failed", ![h].hits = <<>>]
    /\ UNCHANGED <<storeVars, documents, readers, historyVars>>

\* The sink fails: there is no decision, and no answer either.
AuditFails(h) ==
    /\ call[h].pc = "audit"
    /\ Leave(h, [call[h] EXCEPT !.status = "failed", !.hits = <<>>])
    /\ UNCHANGED <<storeVars, documents, historyVars>>

-----------------------------------------------------------------------------
Init ==
    /\ collectionPolicy \in {p \in Policies : validatePolicy(p)} \union {NoPolicy}
    /\ documentPolicy = [d \in Documents |-> NoPolicy]
    /\ documents \in Stored
    /\ readers = {}
    /\ call = [h \in Handlers |-> Idle]
    /\ changes = 0
    /\ audited = [h \in Handlers |-> {}]
    /\ grants = [h \in Handlers |-> NoGrants]

\* The steps a handler takes by itself.
Step(h) ==
    \/ RLock(h) \/ Write(h) \/ Retrieve(h) \/ RetrieveFails(h)
    \/ ReadCollectionPolicy(h) \/ ReadDocumentPolicy(h)
    \/ Authorize(h) \/ AuditFails(h)

Next ==
    \/ \E policy \in Policies : SetCollectionPolicy(policy)
    \/ \E d \in Documents, policy \in Policies : SetDocumentPolicy(d, policy)
    \/ \E h \in Handlers : \E r \in Requests[h] : Call(h, r) \/ Refuse(h, r)
    \/ \E h \in Handlers : Step(h) \/ Return(h)

\* The scheduler runs every handler that can go on.
Spec == Init /\ [][Next]_vars /\ \A h \in Handlers : WF_vars(Step(h))

-----------------------------------------------------------------------------
(* Properties.                                                             *)

Hits == [document : Documents, content : Contents \union {Absent}]

\* Every variable is in its set; an answer is no longer than was asked for, and
\* only a handler inside Search or Get holds the lock.
TypeOK ==
    /\ {collectionPolicy} \union {documentPolicy[d] : d \in Documents} \subseteq Policies \union {NoPolicy}
    /\ documents \in [Documents -> Contents \union {Absent}]
    /\ \A h \in readers : h \in Reading
    /\ changes \in 0..MaxChanges
    /\ audited \in [Handlers -> SUBSET Documents]
    /\ grants \in [Handlers -> [collection : SUBSET BOOLEAN, document : [Documents -> SUBSET BOOLEAN]]]
    /\ \A h \in Handlers : call[h].pc # "idle" =>
        /\ call[h].pc \in {"lock", "collection", "document", "audit", "done"}
        /\ ToSet(call[h].hits) \subseteq Hits
        /\ call[h].op = "search" /\ call[h].hits # <<>> => Len(call[h].hits) =< call[h].limit

\* A document is in an answer only if, some time during the call, the policy of
\* the collection allowed it and, some time during the call, its own policy did
\* (policy.go evaluate; the two times may differ).
AnswersWereAllowed ==
    \A h \in Handlers : call[h].pc # "idle" =>
        \A hit \in ToSet(call[h].hits) :
            /\ TRUE \in grants[h].collection
            /\ TRUE \in grants[h].document[hit.document]

\* A candidate that the caller was allowed to see throughout the call is missing
\* from the answer of Search only if the answer is full of candidates that rank
\* before it: candidates are authorized before the ranking is cut
\* (engine.go Search), and denied ones take no place.
NothingWithheld ==
    \A h \in Handlers :
        LET c == call[h]
        IN  c.pc = "done" /\ c.op \in Reads /\ c.status = "ok" =>
            \A i \in DOMAIN c.ranked :
                \/ grants[h].collection # {TRUE}
                \/ grants[h].document[c.ranked[i]] # {TRUE}
                \/ \E j \in DOMAIN c.hits : c.hits[j].document = c.ranked[i]
                \/ /\ c.op = "search" /\ Len(c.hits) = c.limit
                   /\ \A hit \in ToSet(c.hits) : \E j \in 1..(i - 1) : c.ranked[j] = hit.document

\* Nothing is disclosed that is not in the audit log: every document of an
\* answer, also of one that is still being put together, has been recorded as
\* allowed for this request, and a call that failed discloses nothing
\* (policy.go Authorize).
AnswersAreAudited ==
    \A h \in Handlers : call[h].pc # "idle" =>
        /\ \A hit \in ToSet(call[h].hits) : hit.document \in audited[h]
        /\ call[h].status # "ok" => call[h].hits = <<>>

\* A document is disclosed with the content that was stored when it was ranked or
\* looked up: no write comes between (e.mu in engine.go Search and Get).
HitsAreWhatMatched ==
    \A h \in Handlers : call[h].pc # "idle" /\ call[h].op # "filter" =>
        \A hit \in ToSet(call[h].hits) :
            hit.content = call[h].seen[hit.document] /\ hit.content # Absent

\* Every call ends: no handler waits for ever for the engine's lock, whichever
\* way the handlers before it leave it.
EveryCallEnds ==
    \A h \in Handlers : call[h].pc \notin {"idle", "done"} ~> call[h].pc = "done"

=============================================================================
