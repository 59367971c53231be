--------------------------- MODULE MCAccessControl ---------------------------
(* An instance of AccessControl: a reader, who is in a group, and an author *)
(* who may write; policies that allow by scope and deny by subject or group.*)
EXTENDS AccessControl

CONSTANTS d1, c1, c2, h1, h2

Reader == [subject |-> "ada", groups |-> {"staff"}, scopes |-> {"search"}]
Author == [subject |-> "bob", groups |-> {}, scopes |-> {"documents.write"}]
MCPrincipals == {Reader, Author}

Rule(effect, subjects, groups, scopes) ==
    [effect |-> effect, actions |-> {"search", "read"},
     subjects |-> subjects, groups |-> groups, scopes |-> scopes]

Open == {Rule("allow", {}, {}, {"search"})}
Closed == Open \union {Rule("deny", {"eve"}, {"staff"}, {})}
MCPolicies == {Open, Closed, {}}

Ask(op, principal, serves, limit, d, c) ==
    [op |-> op, principal |-> principal, serves |-> serves, limit |-> limit,
     document |-> d, content |-> c]

MCStored == {[d \in Documents |-> c1]}

MCRequests ==
    (h1 :> {Ask("search", Reader, TRUE, 1, d1, c1), Ask("search", Reader, TRUE, 2, d1, c1),
            Ask("search", Nobody, FALSE, 1, d1, c1),
            Ask("get", Reader, TRUE, 1, d1, c1), Ask("filter", Reader, TRUE, 1, d1, c1)}) @@
    (h2 :> {Ask("upsert", Author, TRUE, 1, d1, c2), Ask("delete", Author, TRUE, 1, d1, c1),
            Ask("upsert", Reader, TRUE, 1, d1, c1), Ask("get", Reader, TRUE, 1, d1, c1)})
=============================================================================
