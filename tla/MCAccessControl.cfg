SPECIFICATION Spec
CONSTANTS
    d1 = d1
    h1 = h1
    h2 = h2
    c1 = c1
    c2 = c2
    Documents = {d1, d2}
    Contents = {c1, c2}
    Absent = Absent
    Stored <- MCStored
    Principals <- MCPrincipals
    Nobody = Nobody
    Policies <- MCPolicies
    NoPolicy = NoPolicy
    Handlers = {h1, h2}
    Requests <- MCRequests
    MaximumResultLimit = 2
    MaxChanges = 1
INVARIANTS AnswersWereAllowed NothingWithheld AnswersAreAudited HitsAreWhatMatched
PROPERTY EveryCallEnds
