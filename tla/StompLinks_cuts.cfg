\* A page that connects while four lists are published; chunks of any length.
SPECIFICATION Spec
CONSTANT
    MaxPublished = 4
CHECK_DEADLOCK FALSE
INVARIANTS
    TypeOK
    PublishedWhole
    NothingHeldBack
PROPERTIES
    PageFramesHandled
    BrokerFramesShown
