\* Two hosts that come and go in one group, with losses and restarts.
SPECIFICATION FairSpec
CONSTANTS
    h1 = h1
    h2 = h2
    h3 = h3
    g1 = g1
    g2 = g2
    NoGroup = NoGroup
    Host = {h1, h2}
    Group = {g1}
    Status = {"Conectado"}
    MaxQueued = 1
    MaxRequests = 1
CHECK_DEADLOCK FALSE
INVARIANTS
    TypeOK
    OneStore
PROPERTIES
    ListedShown
    PageConverges
