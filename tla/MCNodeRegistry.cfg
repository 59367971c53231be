SPECIFICATION Spec
CONSTANTS
    Processes = {p1}
    Node <- OneNode
    LeaseIds = {1, 2, 3, 4, 5, 6}
    TTL = 15
    Interval = 4
    Timeout = 3
    MaxStall = 1
    MaxLate = 1
    RevisionLimit = 3
    Tolerated = 2
CONSTRAINT BeforeCalm
INVARIANT LeaseOutlivesMisses
PROPERTY RevisionShowsChange
