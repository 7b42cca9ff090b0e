\* An aborted sender goes on with the next image.
SPECIFICATION Spec
CONSTANTS
    b1 = b1
    b2 = b2
    a1 = a1
    a2 = a2
    Backup = {b1}
    Address = {a1}
    Foreign = {}
    MaxSenders = 1
    MaxImgs = 2
CHECK_DEADLOCK FALSE
PROPERTY
    NoFileAfterAbort
