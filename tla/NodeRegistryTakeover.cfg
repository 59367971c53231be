SPECIFICATION Spec
CONSTANTS
    Processes = {p1, p2}
    Node <- OneNode
    LeaseIds = {1, 2, 3, 4, 5, 6}
    TTL = 4
    Interval = 2
    Timeout = 1
    MaxStall = 0
    MaxLate = 0
    RevisionLimit = 1
    Tolerated = 0
PROPERTY ListBecomesRight
