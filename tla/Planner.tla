------------------------------- MODULE Planner -------------------------------
(***************************************************************************)
(* The choice of a retrieval strategy: internal/planner/planner.go, with   *)
(* the baselines that the coordinator starts it with (defaultPlanner,      *)
(* internal/coordinator/runtime.go).  Nothing in the program records an    *)
(* observation, so the baselines stay the priors.                          *)
(*                                                                         *)
(* The code calculates with floating-point numbers.  Here a quality is in  *)
(* hundredths and multiplied by the number of available nodes, and a       *)
(* latency, in milliseconds, is multiplied by the number of nodes ready    *)
(* for vectors: exact integers that compare as the real numbers do.        *)
(***************************************************************************)
EXTENDS Integers, FiniteSets, FiniteSetsExt

Strategies == {"lexical", "vector", "hybrid"}

strategyOrder == [lexical |-> 0, vector |-> 1, hybrid |-> 2]

Baseline ==
    [lexical |-> [quality |-> 78, p95 |-> 15],
     vector |-> [quality |-> 82, p95 |-> 35],
     hybrid |-> [quality |-> 91, p95 |-> 60]]

deadlineMargin == 85

\* A query is what ExtractFeatures tells of it: it has a quoted phrase or looks like
\* an ID, and it looks like natural language.
Features == [exact : BOOLEAN, natural : BOOLEAN]

\* What the features of a query add to the quality of a strategy.
Bonus(strategy, features) ==
    (IF features.exact THEN [lexical |-> 8, vector |-> -8, hybrid |-> -6][strategy] ELSE 0)
    + (IF features.natural THEN [lexical |-> -2, vector |-> 5, hybrid |-> 4][strategy] ELSE 0)

adjustedQuality(strategy, features, health) ==
    LET quality == Baseline[strategy].quality + Bonus(strategy, features)
        share == IF strategy = "lexical" THEN health.available ELSE health.vectorReady
    IN  Max({0, Min({100 * health.available, quality * share})})

healthy(strategy, health) == strategy = "lexical" \/ health.vectorReady > 0

LatencyScale(health) == Max({1, health.vectorReady})

healthAdjustedLatency(strategy, health) ==
    Baseline[strategy].p95 * (IF strategy = "lexical" THEN LatencyScale(health) ELSE health.available)

InBudget(strategy, deadline, health) ==
    100 * healthAdjustedLatency(strategy, health) =< deadlineMargin * deadline * LatencyScale(health)

\* The order of the candidates.
Preferred(a, b, features, health) ==
    LET qa == adjustedQuality(a, features, health)
        qb == adjustedQuality(b, features, health)
        la == healthAdjustedLatency(a, health)
        lb == healthAdjustedLatency(b, health)
    IN  \/ qa > qb
        \/ qa = qb /\ la < lb
        \/ qa = qb /\ la = lb /\ strategyOrder[a] < strategyOrder[b]

\* Mutant: the best strategy when none is in time.
FallbackBest == "hybrid"

\* The strategy when none is in time.
Fallback == "lexical"

Select(features, deadline, health) ==
    LET candidates == {s \in Strategies : healthy(s, health) /\ InBudget(s, deadline, health)}
    IN  IF candidates = {} THEN Fallback
        ELSE CHOOSE a \in candidates :
                \A b \in candidates \ {a} : Preferred(a, b, features, health)

=============================================================================
