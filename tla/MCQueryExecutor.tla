-------------------------- MODULE MCQueryExecutor --------------------------
(* Model-checking instances of QueryExecutor.                               *)
EXTENDS QueryExecutor, TLC

\* Collections as numbers: node 2 holds a copy of what nodes 1 and 3 hold.
MCOwns(n) == <<{1}, {1, 2}, {2}>>[n]

Timeouts == {0, 10, 20, 50, 100, 250, 10001}
MCAsks ==
    [mode : {"auto"}, timeout : Timeouts, features : Features]
        \union [mode : {"vector", "other"}, timeout : {0}, features : {[exact |-> FALSE, natural |-> FALSE]}]

=============================================================================
