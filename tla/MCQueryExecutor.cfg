SPECIFICATION Spec
CONSTANTS
    Nodes = {1, 2, 3}
    Owns <- MCOwns
    Documents = {1}
    VectorReady = {1, 2}
    Asks <- MCAsks
    Limit = 1
    MaxHits = 2
INVARIANTS
    ChannelsHaveRoom
    AnswerCoversSelection
    PlanImproves
    ResultsAreOrderFree
PROPERTY
    EveryRequestEnds
CHECK_DEADLOCK FALSE
