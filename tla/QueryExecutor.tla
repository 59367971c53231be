---------------------------- MODULE QueryExecutor ----------------------------
(***************************************************************************)
(* One search request on the coordinator: the handler of the HTTP API      *)
(* (search, internal/coordinator/api.go), which chooses a retrieval mode   *)
(* (module Planner), the executor that fans the query out and merges the   *)
(* answers (internal/distributed/executor.go), and one goroutine per       *)
(* selected node with its call of the node                                 *)
(* (Search, internal/rpcclient/client.go).                                 *)
(*                                                                         *)
(* The handler reads the registry twice, once itself and once through the  *)
(* executor; nodes come and go in between.  The goroutines, the executor   *)
(* and the handler run concurrently, joined by two channels, and the       *)
(* context of the request may end at any time.  The mode goes to the nodes *)
(* with the query and nothing here depends on it any more.                 *)
(***************************************************************************)
EXTENDS Planner, Sequences, SequencesExt

CONSTANTS
    Nodes,          \* node IDs, as numbers: the code compares them
    Owns(_),        \* the collections of a node, as numbers
    Documents,      \* document IDs, as numbers
    VectorReady,    \* nodes without the label that disables vectors
    Asks,           \* mode, timeout in milliseconds and features of the query, as asked for
    Limit,          \* the limit of the request
    MaxHits         \* the longest answer of a node that is explored

ASSUME ExecutorAssumption ==
    /\ Nodes \subseteq Nat /\ IsFiniteSet(Nodes) /\ Documents \subseteq Nat
    /\ \A n \in Nodes : Owns(n) \subseteq Nat
    /\ VectorReady \subseteq Nodes
    /\ \A ask \in Asks : ask.timeout \in Int /\ ask.features \in Features
    /\ Limit \in Nat \ {0}
    /\ MaxHits \in 0..3

Collections == UNION {Owns(n) : n \in Nodes}

VARIABLES
    registered, \* the nodes that the registry lists
    request,    \* the requested collections; none stands for all
    handler,    \* where the handler is: "start", "planned", "reading", "answered", "refused"
    plan,       \* what the handler has chosen, until it calls the executor
    context,    \* "live" or "done"
    selected,   \* the nodes that the executor asks
    worker,     \* the goroutine of each node
    received,   \* the hits of the last message on the stream of each node
    responses,  \* the channel from the goroutines to the executor
    executor,   \* "off", "running" or "returned"
    pending,    \* pending
    state,      \* the merge state
    updates,    \* the channel from the executor to the handler
    final,      \* the last update that the handler read
    \* history variables
    merged,     \* the answers merged so far, by node
    broken      \* nodes whose call failed, also after messages

requestVars == <<registered, request, selected>>
executorVars == <<executor, pending, state, merged>>
callVars == <<worker, received, broken>>
vars == <<requestVars, plan, handler, context, callVars, responses, executorVars, updates, final>>

-----------------------------------------------------------------------------
(* Merging.                                                                *)

Keys == Collections \X Documents
Hits(n) == UNION {[1..k -> Owns(n) \X Documents] : k \in 0..MaxHits}

\* 1 / (reciprocalRankConstant + position), in units that keep it exact.
Weight(position) == (61 * 62 * 63) \div (60 + position)

\* The positions that count: the first of each document.
Firsts(hits) == {i \in 1..Len(hits) : \A j \in 1..(i - 1) : hits[j] # hits[i]}

shardIDs(n) ==
    LET wanted == {c \in Owns(n) : request = {} \/ c \in request}
    IN  IF wanted = {} THEN {<<n>>} ELSE {<<n, c>> : c \in wanted}

EmptyState == [hits |-> << >>, scores |-> << >>, searched |-> {}, unavailable |-> {}]

\* Mutant: a document keeps the source that was merged last.
mergeLastSource(n, hits) ==
    LET keys == {hits[i] : i \in Firsts(hits)}
        all == DOMAIN state.scores \union keys
        gain(key) == IF key \in keys
                        THEN Weight(CHOOSE i \in Firsts(hits) : hits[i] = key) ELSE 0
        score(key) == IF key \in DOMAIN state.scores THEN state.scores[key] ELSE 0
    IN  [state EXCEPT !.hits = [key \in all |-> IF key \in keys THEN n ELSE state.hits[key]],
                      !.scores = [key \in all |-> score(key) + gain(key)],
                      !.searched = @ \union shardIDs(n)]

\* The best source of each document and its score, after an answer.
merge(n, hits) ==
    LET keys == {hits[i] : i \in Firsts(hits)}
        all == DOMAIN state.scores \union keys
        gain(key) == IF key \in keys
                        THEN Weight(CHOOSE i \in Firsts(hits) : hits[i] = key) ELSE 0
        score(key) == IF key \in DOMAIN state.scores THEN state.scores[key] ELSE 0
        source(key) == IF key \notin keys THEN state.hits[key]
                       ELSE IF key \in DOMAIN state.hits /\ state.hits[key] =< n
                            THEN state.hits[key] ELSE n
    IN  [state EXCEPT !.hits = [key \in all |-> source(key)],
                      !.scores = [key \in all |-> score(key) + gain(key)],
                      !.searched = @ \union shardIDs(n)]

markUnavailable(s, nodes) ==
    [s EXCEPT !.unavailable = @ \union UNION {shardIDs(n) : n \in nodes}]

\* Results by falling score, then by collection and document.
Before(s, a, b) ==
    \/ s.scores[a] > s.scores[b]
    \/ s.scores[a] = s.scores[b] /\ (a[1] < b[1] \/ (a[1] = b[1] /\ a[2] < b[2]))
Ranked(s) ==
    LET order == CHOOSE keys \in SetToSeqs(DOMAIN s.scores) :
                    \A i, j \in DOMAIN keys : i < j => Before(s, keys[i], keys[j])
        top == SubSeq(order, 1, Min({Limit, Len(order)}))
    IN  [i \in 1..Len(top) |-> [key |-> top[i], node |-> s.hits[top[i]], score |-> s.scores[top[i]]]]

Update(s, complete) ==
    [results |-> Ranked(s), searched |-> s.searched, unavailable |-> s.unavailable,
     complete |-> complete]
NoUpdate == [results |-> << >>, searched |-> {}, unavailable |-> {}, complete |-> FALSE]

defaultSearchTimeout == 1500
maximumSearchTimeout == 10000
TimeoutOf(ask) == IF ask.timeout = 0 THEN defaultSearchTimeout ELSE ask.timeout

Modes == Strategies \union {"auto"}
selectMode(ask, health) ==
    IF ask.mode = "auto" THEN Select(ask.features, TimeoutOf(ask), health) ELSE ask.mode
NoPlan == [mode |-> "none"]

\* registry.Nodes for the requested collections.
Matching == {n \in registered : request = {} \/ Owns(n) \intersect request # {}}

\* Mutant: room for one update.
CapacityOne == 1

\* make(chan Update, len(nodes)+1)
Capacity == Cardinality(selected) + 1

-----------------------------------------------------------------------------
Init ==
    /\ registered \in SUBSET Nodes
    /\ request \in SUBSET Collections
    /\ handler = "start"
    /\ plan = NoPlan
    /\ context = "live"
    /\ selected = {}
    /\ worker = [n \in Nodes |-> "off"]
    /\ received = [n \in Nodes |-> << >>]
    /\ responses = << >>
    /\ executor = "off"
    /\ pending = {}
    /\ state = EmptyState
    /\ updates = << >>
    /\ final = NoUpdate
    /\ merged = << >>
    /\ broken = {}

\* A node registers, or its lease ends.
RegistryChanges ==
    /\ handler \in {"start", "planned"}
    /\ \E n \in Nodes : registered' = SymDiff(registered, {n})
    /\ UNCHANGED <<request, selected, plan, handler, context, callVars, responses, executorVars,
                   updates, final>>

\* The request has no principal, is not what the API takes, or gets no ID.
Refuse ==
    /\ handler = "start"
    /\ handler' = "refused"
    /\ UNCHANGED <<requestVars, plan, context, callVars, responses, executorVars, updates, final>>

\* The handler's own look at the registry, and the choice of a mode for the nodes
\* it sees.
Plan(ask) ==
    LET health == [available |-> Cardinality(Matching),
                   vectorReady |-> Cardinality(Matching \intersect VectorReady)]
    IN  /\ handler = "start"
        /\ IF TimeoutOf(ask) \in 1..maximumSearchTimeout /\ Matching # {} /\ ask.mode \in Modes
              THEN /\ handler' = "planned"
                   /\ plan' = [ask |-> ask, health |-> health, mode |-> selectMode(ask, health)]
              ELSE handler' = "refused" /\ UNCHANGED plan
        /\ UNCHANGED <<requestVars, context, callVars, responses, executorVars, updates, final>>

\* Execute: the executor's look at the registry, and a goroutine per node.  With
\* no node there is one update and nothing more.
Execute ==
    /\ handler = "planned"
    /\ handler' = "reading"
    /\ selected' = Matching
    /\ pending' = Matching
    /\ worker' = [n \in Nodes |-> IF n \in Matching THEN "searching" ELSE "off"]
    /\ IF Matching = {}
          THEN executor' = "returned" /\ updates' = <<Update(state, TRUE)>>
          ELSE executor' = "running" /\ UNCHANGED updates
    /\ context' = IF Matching = {} THEN "done" ELSE context
    /\ plan' = NoPlan
    /\ UNCHANGED <<registered, request, received, broken, responses, state, final, merged>>

\* The timeout of the request, or its client goes away.
ContextEnds ==
    /\ context = "live"
    /\ handler = "reading"
    /\ context' = "done"
    /\ UNCHANGED <<requestVars, plan, handler, callVars, responses, executorVars, updates, final>>

\* A message arrives on the stream; its hits replace those of the one before.
Recv(n) ==
    /\ worker[n] = "searching"
    /\ \E hits \in Hits(n) : received' = [received EXCEPT ![n] = hits]
    /\ UNCHANGED <<requestVars, plan, handler, context, worker, broken, responses, executorVars,
                   updates, final>>

\* The goroutine sends what Search returned.  The channel has room for every node.
Send(n, ok, hits) ==
    /\ worker[n] = "searching"
    /\ Len(responses) < Cardinality(selected)
    /\ responses' = Append(responses, [node |-> n, ok |-> ok, hits |-> hits])
    /\ worker' = [worker EXCEPT ![n] = "ended"]
    /\ received' = [received EXCEPT ![n] = << >>]
    /\ UNCHANGED <<requestVars, plan, handler, context, executorVars, updates, final>>

\* The stream ends as it should.
Respond(n) == Send(n, TRUE, received[n]) /\ UNCHANGED broken

\* Mutant: what came before the error is taken for the answer.
RespondPart(n) == Send(n, TRUE, received[n]) /\ broken' = broken \union {n}

\* There is no connection or no token, or the stream breaks.
RespondError(n) == Send(n, FALSE, << >>) /\ broken' = broken \union {n}

\* Search returns after the end of the context and nobody is told.
GiveUp(n) ==
    /\ worker[n] = "searching"
    /\ context = "done"
    /\ worker' = [worker EXCEPT ![n] = "ended"]
    /\ received' = [received EXCEPT ![n] = << >>]
    /\ UNCHANGED <<requestVars, plan, handler, context, broken, responses, executorVars, updates, final>>

\* The executor receives an answer.  It cancels the context when it returns.
Receive ==
    /\ executor = "running"
    /\ responses # << >>
    /\ Len(updates) < Capacity
    /\ LET r == Head(responses)
           rest == pending \ {r.node}
           s == IF r.ok THEN merge(r.node, r.hits) ELSE markUnavailable(state, {r.node})
       IN  /\ pending' = rest
           /\ state' = s
           /\ merged' = IF r.ok THEN [n \in DOMAIN merged \union {r.node} |->
                                         IF n = r.node THEN r.hits ELSE merged[n]]
                        ELSE merged
           /\ updates' = Append(updates, Update(s, rest = {}))
           /\ executor' = IF rest = {} THEN "returned" ELSE "running"
           /\ context' = IF rest = {} THEN "done" ELSE context
    /\ responses' = Tail(responses)
    /\ UNCHANGED <<requestVars, plan, handler, callVars, final>>

\* Mutant: the nodes without an answer are not listed.
StopUnlisted ==
    /\ executor = "running"
    /\ context = "done"
    /\ Len(updates) < Capacity
    /\ updates' = Append(updates, Update(state, TRUE))
    /\ executor' = "returned"
    /\ UNCHANGED <<requestVars, plan, handler, context, callVars, responses, pending, state, final, merged>>

\* Mutant: the executor waits for every node, whatever the context.
StopIgnored == FALSE /\ UNCHANGED vars

\* The executor sees the end of the context; answers in the channel are lost.
Stop ==
    /\ executor = "running"
    /\ context = "done"
    /\ Len(updates) < Capacity
    /\ state' = markUnavailable(state, pending)
    /\ updates' = Append(updates, Update(state', TRUE))
    /\ executor' = "returned"
    /\ UNCHANGED <<requestVars, plan, handler, context, callVars, responses, pending, final, merged>>

\* The handler reads updates until the channel is closed and answers with the last.
Read ==
    /\ handler = "reading"
    /\ updates # << >>
    /\ final' = Head(updates)
    /\ updates' = Tail(updates)
    /\ UNCHANGED <<requestVars, plan, handler, context, callVars, responses, executorVars>>

AnswerRequest ==
    /\ handler = "reading"
    /\ updates = << >>
    /\ executor = "returned"
    /\ handler' = "answered"
    /\ UNCHANGED <<requestVars, plan, context, callVars, responses, executorVars, updates, final>>

Next ==
    \/ RegistryChanges
    \/ Refuse
    \/ \E ask \in Asks : Plan(ask)
    \/ Execute
    \/ ContextEnds
    \/ \E n \in Nodes : Recv(n) \/ Respond(n) \/ RespondError(n) \/ GiveUp(n)
    \/ Receive
    \/ Stop
    \/ Read
    \/ AnswerRequest

\* The request has a positive timeout, so its context ends; a search returns
\* once its context has ended; goroutines that can go on do.
Fairness ==
    /\ WF_vars(\E ask \in Asks : Plan(ask)) /\ WF_vars(Execute) /\ WF_vars(ContextEnds)
    /\ \A n \in Nodes : WF_vars(GiveUp(n))
    /\ WF_vars(Receive) /\ WF_vars(Stop) /\ WF_vars(Read) /\ WF_vars(AnswerRequest)

Spec == Init /\ [][Next]_vars /\ Fairness

-----------------------------------------------------------------------------
(* Properties.                                                             *)

\* Every variable has its type.
TypeOK ==
    /\ registered \subseteq Nodes /\ selected \subseteq Nodes /\ pending \subseteq selected
    /\ request \subseteq Collections
    /\ handler \in {"start", "planned", "reading", "answered", "refused"}
    /\ plan.mode \in Strategies \union {"none"}
    /\ context \in {"live", "done"}
    /\ \A n \in Nodes : received[n] \in Hits(n)
    /\ worker \in [Nodes -> {"off", "searching", "ended"}]
    /\ executor \in {"off", "running", "returned"}
    /\ DOMAIN state.hits \subseteq Keys /\ DOMAIN state.scores = DOMAIN state.hits
    /\ Len(updates) =< Capacity /\ Len(responses) =< Cardinality(selected)

\* Neither the goroutines nor the executor ever wait for room in a channel, even
\* if the handler stops reading.
ChannelsHaveRoom ==
    /\ executor = "running" => Len(updates) < Capacity
    /\ \A n \in Nodes : worker[n] = "searching" => Len(responses) < Cardinality(selected)

\* The answer accounts for every shard of every selected node, as searched or
\* as unavailable and not as both, however the answers and the end of the
\* context were interleaved; and no node whose stream broke counts as searched.
Shards == UNION {shardIDs(n) : n \in selected}
AnswerCoversSelection ==
    handler = "answered" =>
        /\ final.complete
        /\ final.searched \union final.unavailable = Shards
        /\ final.searched \intersect final.unavailable = {}
        /\ \A n \in broken \intersect selected : shardIDs(n) \subseteq final.unavailable

\* A longer timeout, or more nodes that are ready for vectors, never makes the
\* handler choose a mode of which less is expected: what it falls back to when no
\* mode is in time is the fastest one (Select of planner.go, defaultPlanner).
PlanImproves ==
    handler = "planned" /\ plan.ask.mode = "auto" =>
        LET features == plan.ask.features
            better == {[plan.health EXCEPT !.vectorReady = k] :
                            k \in plan.health.vectorReady..plan.health.available}
        IN  \A health \in better, ask \in Asks : TimeoutOf(ask) >= TimeoutOf(plan.ask) =>
                adjustedQuality(Select(features, TimeoutOf(ask), health), features, health)
                    >= adjustedQuality(plan.mode, features, plan.health)

\* The results depend on which nodes answered and not on the order: a document
\* scores the sum over the nodes that returned it, comes from the smallest of
\* them, and stands above those with a smaller score or, of those with the same
\* score, with a larger collection and document ID.
Sources(key) == {n \in DOMAIN merged : \E i \in 1..Len(merged[n]) : merged[n][i] = key}
ReferenceScore(key) ==
    LET first(n) == Min({i \in 1..Len(merged[n]) : merged[n][i] = key})
    IN  FoldSet(LAMBDA n, sum : sum + Weight(first(n)), 0, Sources(key))
Above(a, b) ==
    \/ ReferenceScore(a) > ReferenceScore(b)
    \/ ReferenceScore(a) = ReferenceScore(b) /\ (a[1] < b[1] \/ (a[1] = b[1] /\ a[2] < b[2]))
ResultsAreOrderFree ==
    handler = "answered" =>
        LET found == {key \in Keys : Sources(key) # {}}
            results == final.results
            returned == {results[i].key : i \in 1..Len(results)}
        IN  /\ returned \subseteq found
            /\ Cardinality(returned) = Min({Limit, Cardinality(found)})
            /\ \A i \in 1..Len(results) :
                  /\ results[i].score = ReferenceScore(results[i].key)
                  /\ results[i].node = Min(Sources(results[i].key))
                  /\ \A j \in 1..(i - 1) : Above(results[j].key, results[i].key)
                  /\ \A key \in found \ returned : Above(results[i].key, key)

\* Every request is answered, and no goroutine outlives it for ever.
EveryRequestEnds ==
    <>[](handler \in {"answered", "refused"} /\ \A n \in Nodes : worker[n] # "searching")

=============================================================================
