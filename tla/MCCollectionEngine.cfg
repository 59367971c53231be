SPECIFICATION Spec
CONSTANTS
    Ids = {d1, d2}
    Bodies = {b1, b0}
    Directionless = {b0}
    MediaTypes = {plain}
    DefaultMedia = plain
    Absent = Absent
    Mutations <- MCMutations
    NoMutation = NoMutation
    MaxSequence = 3
    MaxUnits = 7
SYMMETRY Symmetry
CONSTRAINT Undamaged
PROPERTY ImplementsCollection
