\* Two connections, streams of up to four files; three are exactly MAXSIZE.
SPECIFICATION Spec
CONSTANTS
    u1 = u1
    c1 = c1
    c2 = c2
    f1 = f1
    f2 = f2
    f3 = f3
    f4 = f4
    nopath = nopath
    Put = {u1}
    Conn = {c1, c2}
    Name = {f1, f2, f3, f4}
    NoPath = nopath
    Streams <- Sent
    MaxSize = 22
    MaxFiles = 4
SYMMETRY Symmetry
CHECK_DEADLOCK FALSE
INVARIANTS
    TypeOK
    NamesHoldTheirOwn
PROPERTY
    WholePackStored
