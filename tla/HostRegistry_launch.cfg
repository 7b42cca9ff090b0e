\* A member whose connection was lost stops the launch of the others.
SPECIFICATION Spec
CONSTANTS
    h1 = h1
    h2 = h2
    h3 = h3
    g1 = g1
    Host = {h1, h2, h3}
    WebGroup = {g1}
    NoGroup = NoGroup
    Config <- MCConfig
    PageOrder = {}
    FinishedRaises = TRUE
    MaxRequests = 3
    MaxGroups = 1
PROPERTY
    LaunchReachesTheRest
