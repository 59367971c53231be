SPECIFICATION Spec
CONSTANTS
    Nodes = {n1, n2, n3}
    NoNode = NoNode
    Faults = {"lostAck", "rollback", "commit", "crash", "catchUp", "overlap", "lagging", "overtaken"}
    MaxTerm = 2
    MaxWrites = 3
SYMMETRY Symmetry
CONSTRAINT NoFaultYet
INVARIANTS
    OneLeaderPerTerm
    CommittedAgree
    AckedOnMajority
    RefusedNotCommitted
PROPERTY
    CommittedIsKept
