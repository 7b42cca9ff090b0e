\* Two clients that poll, vanish, are deleted and come back, two groups, edits
\* that raise half way; write() on a finished request is ignored.
SPECIFICATION Spec
CONSTANTS
    h1 = h1
    h2 = h2
    h3 = h3
    g1 = g1
    Host = {h1, h2}
    WebGroup = {g1}
    NoGroup = NoGroup
    Config = {{}, {"shutdown"}}
    PageOrder = {"poweroff"}
    FinishedRaises = FALSE
    MaxRequests = 2
    MaxGroups = 2
SYMMETRY Symmetry
INVARIANTS
    TypeOK
    OwnRequest
    WaitingHasTimer
    StatusTellsRequest
    GroupMembership
    NextAutoGroupFree
    SnapshotCurrent
PROPERTIES
    AnswersHeld
