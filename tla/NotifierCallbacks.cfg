SPECIFICATION FairSpec
CONSTANTS
    MaxToken = 4
    MaxVersion = 2
INVARIANTS
    CountStaysInRange
    PackagedIsDelivered
    FlagTellsCallbacks
PROPERTIES
    InitialCallComes
CHECK_DEADLOCK FALSE
