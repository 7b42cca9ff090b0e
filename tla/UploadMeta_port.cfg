\* One connection with a stream of up to two files.
SPECIFICATION Spec
CONSTANTS
    u1 = u1
    c1 = c1
    c2 = c2
    f1 = f1
    f2 = f2
    f3 = f3
    f4 = f4
    nopath = nopath
    Put = {u1}
    Conn = {c1}
    Name = {f1, f2, f3, f4}
    NoPath = nopath
    Streams <- Sent
    MaxSize = 14
    MaxFiles = 2
CHECK_DEADLOCK FALSE
INVARIANT
    PortClosesAtEnd
