SPECIFICATION FairSpec
CONSTANTS
    NoPoint = NoPoint
    NoId = NoId
    Answers <- MCAnswers
    Statuses <- MCStatuses
    MaxNet = 2
    MaxWork = 3
INVARIANTS
    MapShowsOneRoute
    ListIsRecent
PROPERTY
    SpinnerStops
CHECK_DEADLOCK FALSE
