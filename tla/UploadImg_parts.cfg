\* Three connections, parts of two bytes, pieces of one or two.
SPECIFICATION Spec
CONSTANTS
    c1 = c1
    c2 = c2
    c3 = c3
    Conn = {c1, c2, c3}
    SplitSize = 2
    Digits = 2
    MaxChunk = 2
    MaxData = 4
SYMMETRY Connections
CHECK_DEADLOCK FALSE
INVARIANTS
    TypeOK
    PartsFit
    PartsHold
    ServedAsSent
