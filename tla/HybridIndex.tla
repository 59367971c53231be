----------------------------- MODULE HybridIndex -----------------------------
(***************************************************************************)
(* The two indexes of a search node and the ranking made of them: the      *)
(* lexical index (internal/search), the vector index with its proximity    *)
(* graph (internal/vector), and their use in the document engine           *)
(* (applyDocument, Delete and Search, internal/searchnode/engine.go).      *)
(*                                                                         *)
(* The engine changes both indexes under e.mu and reads both under it, so  *)
(* a write is one step here and a search is an operator on a state.  A     *)
(* write may stop between the two: the vector index takes no zero vector,  *)
(* which the embedder gives to texts whose features cancel each other.     *)
(*                                                                         *)
(* A text is a sequence of terms.  A vector is a point on a half circle,   *)
(* where the cosine distance orders pairs of points as the difference of   *)
(* their angles does.                                                      *)
(***************************************************************************)
EXTENDS Integers, FiniteSets, Sequences, SequencesExt, FiniteSetsExt, Functions

CONSTANTS
    Ids,                \* document IDs, trimmed and not empty: numbers, in their order
    Contents,           \* what may be stored: title and body
    Queries,            \* the texts that are searched for
    Embed(_),           \* the embedder: the angle of a text
    IsZero(_),          \* the text has no angle: its vector is zero
    Level(_),           \* levelForID
    TermScore(_, _, _, _),  \* the summand of score(), for one term of one document
    Limits,             \* limits of a search, with 0 for none
    MaxConnections, EFConstruction, EFSearch

ASSUME IndexAssumption ==
    /\ Ids \subseteq Nat /\ IsFiniteSet(Ids)
    /\ \A c \in Contents : c.title \in Seq(STRING) /\ c.body \in Seq(STRING)
    /\ \A id \in Ids : Level(id) \in Nat
    /\ \A c \in Contents : IsZero(c.title \o c.body) \in BOOLEAN
    /\ \A c \in Contents : ~ IsZero(c.title \o c.body) => Embed(c.title \o c.body) \in Int
    /\ \A q \in Queries : q \in Seq(STRING)
    /\ \A q \in Queries : ~ IsZero(q) => Embed(q) \in Int
    /\ Limits \subseteq Nat
    /\ {MaxConnections, EFConstruction, EFSearch} \subseteq Nat
    \* NewHNSW refuses other options
    /\ MaxConnections >= 2 /\ EFConstruction >= MaxConnections /\ EFSearch >= 1

VARIABLES
    documents,          \* e.documents
    lexical,            \* e.lexical
    vectors             \* e.vectors

indexVars == <<documents, lexical, vectors>>

Empty == [x \in {} |-> 0]
Without(f, id) == Restrict(f, DOMAIN f \ {id})
With(f, id, value) == [i \in DOMAIN f \union {id} |-> IF i = id THEN value ELSE f[i]]
At(f, x, default) == IF x \in DOMAIN f THEN f[x] ELSE default

\* The elements of S in the order of a comparison: behind those that come before it.
Sorted(S, before(_, _)) ==
    [i \in 1 .. Cardinality(S) |->
        CHOOSE a \in S : Cardinality({b \in S \ {a} : before(b, a)}) = i - 1]

-----------------------------------------------------------------------------
(* The lexical index.                                                      *)

EmptyLexical ==
    [documents |-> Empty, postings |-> Empty, documentTerms |-> Empty, lengths |-> Empty,
     totalTitleTerms |-> 0, totalBodyTerms |-> 0]

Frequency(term, text) == Cardinality({i \in DOMAIN text : text[i] = term})

\* mergeTerms of what analyze finds in the two fields.
TermsOf(content) == Range(content.title) \union Range(content.body)

PostingOf(term, content) ==
    [titleFrequency |-> Frequency(term, content.title), bodyFrequency |-> Frequency(term, content.body)]

\* Mutant: the totals keep the lengths of the document that goes.
DeletedKeepsTotals(index, id) ==
    IF id \notin DOMAIN index.documents THEN index
    ELSE LET without == [t \in DOMAIN index.postings |->
                            IF t \in index.documentTerms[id]
                            THEN Without(index.postings[t], id) ELSE index.postings[t]]
         IN  [index EXCEPT
                !.postings = Restrict(without, {t \in DOMAIN without : DOMAIN without[t] # {}}),
                !.lengths = Without(@, id),
                !.documentTerms = Without(@, id),
                !.documents = Without(@, id)]

deleteLocked(index, id) ==
    IF id \notin DOMAIN index.documents THEN index
    ELSE LET without == [t \in DOMAIN index.postings |->
                            IF t \in index.documentTerms[id]
                            THEN Without(index.postings[t], id) ELSE index.postings[t]]
         IN  [index EXCEPT
                !.postings = Restrict(without, {t \in DOMAIN without : DOMAIN without[t] # {}}),
                !.totalTitleTerms = @ - index.lengths[id].title,
                !.totalBodyTerms = @ - index.lengths[id].body,
                !.lengths = Without(@, id),
                !.documentTerms = Without(@, id),
                !.documents = Without(@, id)]

LexicalUpsert(index, id, content) ==
    LET kept == deleteLocked(index, id)
        terms == TermsOf(content)
    IN  [kept EXCEPT
            !.documents = With(@, id, content),
            !.documentTerms = With(@, id, terms),
            !.lengths = With(@, id, [title |-> Len(content.title), body |-> Len(content.body)]),
            !.totalTitleTerms = @ + Len(content.title),
            !.totalBodyTerms = @ + Len(content.body),
            !.postings = [t \in DOMAIN @ \union terms |->
                IF t \in terms THEN With(At(@, t, Empty), id, PostingOf(t, content)) ELSE @[t]]]

matchingDocuments(index, terms, mode) ==
    LET ids(t) == DOMAIN At(index.postings, t, Empty)
    IN  IF mode = "any" THEN UNION {ids(t) : t \in terms}
        ELSE {id \in DOMAIN index.documents : \A t \in terms : id \in ids(t)}

\* Every unique term of the query adds to the score, also one the document lacks.
score(index, id, terms) ==
    MapThenSumSet(LAMBDA t :
        TermScore(At(At(index.postings, t, Empty), id, [titleFrequency |-> 0, bodyFrequency |-> 0]),
                  index.lengths[id],
                  Cardinality(DOMAIN At(index.postings, t, Empty)),
                  [documents |-> Cardinality(DOMAIN index.documents),
                   title |-> index.totalTitleTerms, body |-> index.totalBodyTerms]),
        terms)

Limited(s, limit) == IF limit > 0 /\ Len(s) > limit THEN SubSeq(s, 1, limit) ELSE s

LexicalSearch(index, query, mode, limit) ==
    LET terms == Range(query)
        better(a, b) == \/ score(index, a, terms) > score(index, b, terms)
                        \/ score(index, a, terms) = score(index, b, terms) /\ a < b
    IN  IF terms = {} THEN << >>
        ELSE Limited(Sorted(matchingDocuments(index, terms, mode), better), limit)

-----------------------------------------------------------------------------
(* The proximity graph.  A node has a list of neighbors for every level up *)
(* to its own.                                                             *)

Distance(p, q) == IF p > q THEN p - q ELSE q - p

\* closer, for the distances of nodes to the point p.
Closer(nodes, p, a, b) ==
    LET da == Distance(p, nodes[a].vector)
        db == Distance(p, nodes[b].vector)
    IN  da < db \/ (da = db /\ a < b)

Nearest(nodes, p, S) == CHOOSE a \in S : \A b \in S \ {a} : Closer(nodes, p, a, b)
Furthest(nodes, p, S) == CHOOSE a \in S : \A b \in S \ {a} : Closer(nodes, p, b, a)
Ordered(nodes, p, S) == Sorted(S, LAMBDA a, b : Closer(nodes, p, a, b))

\* The nodes that have a list of neighbors on the level.
OnLevel(nodes, level) == {n \in DOMAIN nodes : nodes[n].level >= level}

Better(nodes, p, level, n) == Nearest(nodes, p, {n} \union Range(nodes[n].neighbors[level]))

greedySearch(nodes, p, entry, level) ==
    LET walk[n \in OnLevel(nodes, level)] ==
            IF Better(nodes, p, level, n) = n THEN n ELSE walk[Better(nodes, p, level, n)]
    IN  walk[entry]

\* The greedy searches on the levels from high down to low.
Descend(nodes, p, entry, high, low) ==
    LET rounds == IF high < low THEN 0 ELSE high - low + 1
        after[i \in 0 .. rounds] ==
            IF i = 0 THEN entry ELSE greedySearch(nodes, p, after[i - 1], high - i + 1)
    IN  after[rounds]

\* A neighbor is looked at once, and kept if there is room or it is closer than
\* the furthest that was kept.
Visit(nodes, p, breadth, s, id) ==
    IF id \in s.visited THEN s
    ELSE LET seen == [s EXCEPT !.visited = @ \union {id}]
             results == s.results \union {id}
         IN  IF /\ Cardinality(s.results) >= breadth
                /\ ~ Closer(nodes, p, id, Furthest(nodes, p, s.results))
             THEN seen
             ELSE [seen EXCEPT
                    !.candidates = @ \union {id},
                    !.results = IF Cardinality(results) > breadth
                                THEN results \ {Furthest(nodes, p, results)} ELSE results]

VisitAll(nodes, p, breadth, s, list) ==
    LET after[i \in 0 .. Len(list)] ==
            IF i = 0 THEN s ELSE Visit(nodes, p, breadth, after[i - 1], list[i])
    IN  after[Len(list)]

\* No candidate is left, or the nearest one is not closer than what was kept.
Exhausted(nodes, p, breadth, s) ==
    \/ s.candidates = {}
    \/ /\ Cardinality(s.results) >= breadth
       /\ ~ Closer(nodes, p, Nearest(nodes, p, s.candidates), Furthest(nodes, p, s.results))

Expand(nodes, p, breadth, level, s) ==
    LET c == Nearest(nodes, p, s.candidates)
    IN  VisitAll(nodes, p, breadth, [s EXCEPT !.candidates = @ \ {c}], nodes[c].neighbors[level])

Explore(nodes, p, breadth, level, start) ==
    LET ids == SUBSET OnLevel(nodes, level)
        walk[s \in [visited : ids, candidates : ids, results : ids]] ==
            IF Exhausted(nodes, p, breadth, s) THEN s.results
            ELSE walk[Expand(nodes, p, breadth, level, s)]
    IN  walk[start]

searchLayer(nodes, p, entry, breadth, level) ==
    Ordered(nodes, p, Explore(nodes, p, breadth, level,
        [visited |-> {entry}, candidates |-> {entry}, results |-> {entry}]))

\* Mutant: a list that grew too long stays so.
PruneSortsOnly(nodes, node, list) == Ordered(nodes, nodes[node].vector, Range(list))

\* Mutant: a list is cut before it is full.
PruneShorter(nodes, node, list) ==
    Limited(Ordered(nodes, nodes[node].vector, Range(list)), MaxConnections - 1)

prune(nodes, node, list) ==
    Limited(Ordered(nodes, nodes[node].vector, Range(list)), MaxConnections)

\* The candidates that a new node is connected with.
Connections(candidates) == SubSeq(candidates, 1, Min({MaxConnections, Len(candidates)}))

\* The new node and what it connects with, on one level of s.nodes.
Connect(id, s, level) ==
    LET candidates == searchLayer(s.nodes, s.nodes[id].vector, s.entry, EFConstruction, level)
        chosen == Connections(candidates)
    IN  [nodes |-> [n \in DOMAIN s.nodes |->
                        IF n = id THEN [s.nodes[n] EXCEPT !.neighbors[level] = chosen]
                        ELSE IF n \in Range(chosen)
                        THEN [s.nodes[n] EXCEPT !.neighbors[level] = prune(s.nodes, n, Append(@, id))]
                        ELSE s.nodes[n]],
         entry |-> candidates[1]]

\* The new node is connected on the levels from high down to 0.
ConnectAll(id, start, high) ==
    LET after[i \in 0 .. high + 1] ==
            IF i = 0 THEN start ELSE Connect(id, after[i - 1], high - i + 1)
    IN  after[high + 1]

Add(graph, id, point) ==
    LET level == Level(id)
        nodes == With(graph.nodes, id, [vector |-> point, level |-> level,
                                        neighbors |-> [l \in 0 .. level |-> << >>]])
        entry == Descend(graph.nodes, point, graph.entryID, graph.highestLevel, level + 1)
        linked == ConnectAll(id, [nodes |-> nodes, entry |-> entry], Min({level, graph.highestLevel}))
    IN  IF DOMAIN graph.nodes = {}
        THEN [nodes |-> nodes, entryID |-> id, highestLevel |-> level]
        ELSE [nodes |-> linked.nodes,
              entryID |-> IF level > graph.highestLevel THEN id ELSE graph.entryID,
              highestLevel |-> Max({level, graph.highestLevel})]

EmptyGraph == [nodes |-> Empty, entryID |-> 0, highestLevel |-> 0]

\* The IDs in their order.
Ascending(S) == Sorted(S, <)

rebuildHNSW(points) ==
    LET order == Ascending(DOMAIN points)
        after[i \in 0 .. Len(order)] ==
            IF i = 0 THEN EmptyGraph ELSE Add(after[i - 1], order[i], points[order[i]])
    IN  after[Len(order)]

HNSWSearch(graph, p, limit) ==
    LET entry == Descend(graph.nodes, p, graph.entryID, graph.highestLevel, 1)
    IN  IF DOMAIN graph.nodes = {} THEN << >>
        ELSE Limited(searchLayer(graph.nodes, p, entry, Max({EFSearch, limit}), 0), limit)

-----------------------------------------------------------------------------
(* The vector index.                                                       *)

EmptyVectors == [vectors |-> Empty, graph |-> EmptyGraph]

\* What applyDocument has embedded.
Text(content) == content.title \o content.body

\* normalize accepts the vector of the text.
normalize(text) == ~ IsZero(text)

VectorsOf(points) == [vectors |-> points, graph |-> rebuildHNSW(points)]

VectorUpsert(index, id, point) == VectorsOf(With(index.vectors, id, point))

VectorDelete(index, id) ==
    IF id \in DOMAIN index.vectors THEN VectorsOf(Without(index.vectors, id)) ELSE index

\* ExactIndex.Search compares the query with every vector.
ExactSearch(points, p, limit) ==
    LET better(a, b) == \/ Distance(p, points[a]) < Distance(p, points[b])
                        \/ Distance(p, points[a]) = Distance(p, points[b]) /\ a < b
    IN  Limited(Sorted(DOMAIN points, better), limit)

-----------------------------------------------------------------------------
(* The ranking of the engine.                                              *)

\* 1 / (60 + position) as an integer; exact for up to five positions.
reciprocalRankConstant == 60
RankScore(position) == (61 * 62 * 63 * 64 * 65) \div (reciprocalRankConstant + position)

\* Mutant: the last ranking that has an ID decides.
FusedScoreLast(rankings, id) ==
    LET has == {k \in DOMAIN rankings : id \in Range(rankings[k])}
    IN  RankScore(CHOOSE i \in DOMAIN rankings[Max(has)] : rankings[Max(has)][i] = id)

\* The rankings have no ID twice.
FusedScore(rankings, id) ==
    MapThenSumSet(LAMBDA k : RankScore(CHOOSE i \in DOMAIN rankings[k] : rankings[k][i] = id),
                  {k \in DOMAIN rankings : id \in Range(rankings[k])})

\* The IDs that some ranking has.
AllRanked(rankings) == UNION {Range(rankings[k]) : k \in DOMAIN rankings}

ReciprocalRankFusion(rankings, limit) ==
    LET better(a, b) == \/ FusedScore(rankings, a) > FusedScore(rankings, b)
                        \/ FusedScore(rankings, a) = FusedScore(rankings, b) /\ a < b
    IN  Limited(Sorted(AllRanked(rankings), better), limit)

\* The queries that Search answers: in every mode it returns the error of vectorSearch.
Answered == {q \in Queries : normalize(q)}

\* What Search ranks, before documents are left out and the limit is applied.
RankedIDs(query, mode) ==
    LET lexicalIDs == LexicalSearch(lexical, query, "any", 0)
        vectorIDs == HNSWSearch(vectors.graph, Embed(query), 0)
    IN  CASE mode = "lexical" -> lexicalIDs
          [] mode = "vector" -> vectorIDs
          [] mode = "hybrid" -> ReciprocalRankFusion(<<lexicalIDs, vectorIDs>>, 0)

-----------------------------------------------------------------------------
(* Writes.                                                                 *)

IndexInit == documents = Empty /\ lexical = EmptyLexical /\ vectors = EmptyVectors

\* applyDocument: the embedder answers and both indexes take the document.
Upsert(id, content) ==
    /\ normalize(Text(content))
    /\ lexical' = LexicalUpsert(lexical, id, content)
    /\ vectors' = VectorUpsert(vectors, id, Embed(Text(content)))
    /\ documents' = With(documents, id, content)

\* Mutant: the lexical index is changed before the embedder is asked.
UpsertFailsHalfway(id, content) ==
    /\ lexical' = LexicalUpsert(lexical, id, content)
    /\ UNCHANGED <<vectors, documents>>

\* applyDocument, when the context is done: the embedder comes first.
UpsertFails(id, content) == UNCHANGED indexVars

\* applyDocument, when the vector index returns an error: the lexical index has the
\* document by then, and keeps it.
UpsertRefused(id, content) ==
    /\ ~ normalize(Text(content))
    /\ lexical' = LexicalUpsert(lexical, id, content)
    /\ UNCHANGED <<vectors, documents>>

Delete(id) ==
    /\ lexical' = deleteLocked(lexical, id)
    /\ vectors' = VectorDelete(vectors, id)
    /\ documents' = Without(documents, id)

IndexNext == \E id \in Ids :
    \/ \E content \in Contents :
        Upsert(id, content) \/ UpsertFails(id, content) \/ UpsertRefused(id, content)
    \/ Delete(id)

IndexSpec == IndexInit /\ [][IndexNext]_indexVars

-----------------------------------------------------------------------------
(* Properties.                                                             *)

\* The vector index holds what the map of documents holds, and so does the lexical index,
\* also after an embedding that failed; the one exception is a document of the
\* lexical index that the vector index refused, beside which the map may have an
\* earlier one or none, until the next successful Upsert or Delete of its ID
\* (applyDocument and Delete of engine.go).  After any insertions, replacements
\* and deletions the postings, the lengths and the totals are those of an index
\* that was made of the documents of the lexical index alone (Upsert and
\* deleteLocked of search/index.go).
IndexIsOfTheDocuments ==
    LET indexed == lexical.documents
        ids == DOMAIN indexed
        terms == UNION {TermsOf(indexed[id]) : id \in ids}
    IN  /\ DOMAIN documents \subseteq ids
        /\ \A id \in ids : normalize(Text(indexed[id])) =>
                id \in DOMAIN documents /\ documents[id] = indexed[id]
        /\ vectors.vectors = [id \in DOMAIN documents |-> Embed(Text(documents[id]))]
        /\ DOMAIN vectors.graph.nodes = DOMAIN documents
        /\ lexical.postings =
            [t \in terms |-> [id \in {i \in ids : t \in TermsOf(indexed[i])} |->
                                PostingOf(t, indexed[id])]]
        /\ lexical.totalTitleTerms = MapThenSumSet(LAMBDA id : Len(indexed[id].title), ids)
        /\ lexical.totalBodyTerms = MapThenSumSet(LAMBDA id : Len(indexed[id].body), ids)
        /\ DOMAIN lexical.lengths = ids
        /\ DOMAIN lexical.documentTerms = ids

\* The graph can be walked without a fault: a list on a level names other nodes that
\* are on that level, each once, and at most MaxConnections of them; and the search
\* starts at a node of the highest level there is (Add and prune of vector/hnsw.go,
\* which index neighbors[level] without a check).
GraphIsSound ==
    LET g == vectors.graph
    IN  DOMAIN g.nodes # {} =>
            /\ g.highestLevel = Max({g.nodes[n].level : n \in DOMAIN g.nodes})
            /\ g.nodes[g.entryID].level = g.highestLevel
            /\ \A n \in DOMAIN g.nodes : \A l \in 0 .. g.nodes[n].level :
                LET list == g.nodes[n].neighbors[l]
                IN  /\ Len(list) =< MaxConnections
                    /\ Cardinality(Range(list)) = Len(list)
                    /\ \A m \in Range(list) : m # n /\ g.nodes[m].level >= l

\* While a list can hold every other node, the approximate index answers as the
\* exact one does, for every query and limit, in its order (HNSW.Search).  One
\* document more and a document may be without a link that leads to it.
SmallGraphIsExact ==
    Cardinality(DOMAIN documents) =< MaxConnections + 1 =>
        \A q \in Answered, limit \in Limits :
            LET breadth == Max({EFSearch, limit})
                found == HNSWSearch(vectors.graph, Embed(q), limit)
            IN  found = Limited(Limited(ExactSearch(vectors.vectors, Embed(q), 0), breadth), limit)

\* A document that both indexes find, and neither behind another one, is not behind
\* that one in the hybrid ranking; and the ranking has what either index finds
\* (ReciprocalRankFusion).
FusionKeepsAgreement ==
    \A q \in Answered :
        LET words == RankedIDs(q, "lexical")
            near == RankedIDs(q, "vector")
            fused == RankedIDs(q, "hybrid")
            Before(s, a, b) == \E i \in DOMAIN s : s[i] = a /\ \A j \in DOMAIN s : s[j] = b => i < j
        IN  /\ Range(fused) = Range(words) \union Range(near)
            /\ \A a, b \in Range(fused) :
                Before(words, a, b) /\ Before(near, a, b) => Before(fused, a, b)

=============================================================================
