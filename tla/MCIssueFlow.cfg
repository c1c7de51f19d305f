SPECIFICATION FairFlowSpec
CONSTANTS
    Routes = {r1, r2}
    Main = main
    Threads = {main}
    NoThread = NoThread
    NoIssue = NoIssue
    Texts <- MCTexts
    ValidEmails <- MCValidEmails
    Requests <- MCRequests
    Drafts <- MCDrafts
    MaxForms = 2
    MaxQueue = 2
    MaxNow = 2
INVARIANTS
    BadgeCountsIssues
    FormsAreFresh
    DismissHitsItsForm
    DismissMeansStored
PROPERTIES
    ConfirmingChangesNothing
    SavedFormCloses
