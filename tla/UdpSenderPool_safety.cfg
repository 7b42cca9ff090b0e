\* Three senders of at most one image: threads that leave under scans.
SPECIFICATION Spec
CONSTANTS
    b1 = b1
    b2 = b2
    a1 = a1
    a2 = a2
    Backup = {b1}
    Address = {a1}
    Foreign = {}
    MaxSenders = 3
    MaxImgs = 1
CHECK_DEADLOCK FALSE
INVARIANTS
    TypeOK
    ActivePortsDistinct
    GatherAtOne
