\* Two senders of up to two images, of two backups; port 0 is held by another program.
SPECIFICATION FairSpec
CONSTANTS
    b1 = b1
    b2 = b2
    a1 = a1
    a2 = a2
    Backup = {b1, b2}
    Address = {a1}
    Foreign = {0}
    MaxSenders = 2
    MaxImgs = 2
CHECK_DEADLOCK FALSE
INVARIANT
    OneProcessPerSender
PROPERTIES
    NextAfterSuccess
    GoodSendersLeave
