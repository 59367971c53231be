SPECIFICATION LogSpec
CONSTANTS
    Mutations = {m1, m2}
    NoMutation = NoMutation
    MaxSequence = 3
    MaxUnits = 5
    MaxUndo = 1
SYMMETRY Symmetry
CONSTRAINT Undamaged
INVARIANTS
    LogTypeOK
    AckedDurable
    ReplayIsHistory
    TruncatedStaysGone
    OpensAgain
    LogInv
PROPERTY NoSequenceReuse
