SPECIFICATION Spec
CONSTANTS
    h1 = h1
    h2 = h2
    n1 = n1
    n2 = n2
    NoHandle = NoHandle
    Handles <- MCHandles
    Notifiers <- MCNotifiers
    Lists <- MCNotifiers
    Suppressed <- MCNone
    Invalidated <- MCNone
    OpenMayFail = FALSE
    CommitMayFail = FALSE
    CallbacksWrite = FALSE
    OtherProcess = FALSE
    MaxVersion = 3
SYMMETRY MCSymmetry
INVARIANTS
    WorkerAssertions
    EveryCommitOnce
PROPERTIES
    CallbacksSeeTheirVersion
CHECK_DEADLOCK FALSE
