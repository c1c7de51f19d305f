SPECIFICATION Spec
CONSTANTS
    r1 = r1
    r2 = r2
    Routes = {r1, r2}
    Threads = {main, worker}
    NoThread = NoThread
    NoIssue = NoIssue
    Texts <- MCTexts
    ValidEmails <- MCValidEmails
    Requests <- MCRequests
INVARIANTS
    TypeOK
    OneIssuePerRoute
    CrashNeedsFault
    QueriesAreDurable
    PendingWriteIsTheCall
PROPERTY
    ImplementsIssueStore
