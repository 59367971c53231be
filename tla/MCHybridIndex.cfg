SPECIFICATION IndexSpec
CONSTANTS
    Ids = {1, 2, 3, 4}
    Contents <- SomeContents
    Queries <- SomeQueries
    Embed <- AngleOf
    IsZero <- HasZ
    Level <- LevelOf
    TermScore <- Relevance
    Limits = {0, 1, 2}
    MaxConnections = 2
    EFConstruction = 2
    EFSearch = 3
INVARIANTS
    IndexIsOfTheDocuments
    GraphIsSound
    SmallGraphIsExact
    FusionKeepsAgreement
