SPECIFICATION FairSpec
INVARIANTS
    PermissionComesFirst
PROPERTIES
    StartUpEnds
    ListAppears
