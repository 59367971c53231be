SPECIFICATION Spec
CONSTANTS
    Ids = {d1, d2, d3}
    Values = {v1}
    Deleted = Deleted
    TooLong = {}
    MaxRecordCount = 2
    MaxGeneration = 4
    MaxSegments = 1
    OrderedDirectory = TRUE
SYMMETRY Symmetry
INVARIANTS
    TypeOK
    DocumentsAreLatest
PROPERTY OnlyPublishChangesDocuments
CONSTRAINT PlainBatches
