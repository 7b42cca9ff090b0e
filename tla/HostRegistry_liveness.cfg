\* Timers and periodic status under the reactor's fairness.
SPECIFICATION FairSpec
CONSTANTS
    h1 = h1
    h2 = h2
    h3 = h3
    g1 = g1
    Host = {h1}
    WebGroup = {g1}
    NoGroup = NoGroup
    Config = {{}}
    PageOrder = {"reboot"}
    FinishedRaises = TRUE
    MaxRequests = 3
    MaxGroups = 1
PROPERTIES
    EveryPollEnds
    LastingStatusShown
