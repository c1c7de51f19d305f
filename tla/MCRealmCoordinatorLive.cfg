SPECIFICATION FairSpec
CONSTANTS
    h1 = h1
    h2 = h2
    n1 = n1
    n2 = n2
    NoHandle = NoHandle
    Handles <- MCOneHandle
    Notifiers <- MCOneNotifier
    Lists <- MCNone
    Suppressed <- MCOneNotifier
    Invalidated <- MCOneHandle
    OpenMayFail = TRUE
    CommitMayFail = TRUE
    CallbacksWrite = TRUE
    OtherProcess = TRUE
    MaxVersion = 3
INVARIANTS
    OnlyAskedCommitsAreDropped
PROPERTIES
    WaitsEnd
    CommitsAreHeardOf
CHECK_DEADLOCK FALSE
