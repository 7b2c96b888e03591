SPECIFICATION Spec
CONSTANTS
    p1 = p1
    p2 = p2
    t1 = t1
    t2 = t2
    a0 = a0
    a1 = a1
    other = other
    ha0 = ha0
    ha1 = ha1
    hx = hx
    hy = hy
    None = none
    Procs = {p1, p2}
    Threads = {t1, t2}
    ProcOf <- OneEach
    Ends <- TwoEnds
    Peer <- Facing
    Handles <- Made
    Object <- ObjectOf
    Rights <- RightsOf
    Objects = {other}
    KernelHandles <- Made
    KeyCount = 2
    MaxHandles = 1
    Lengths = {1}
    Buffers <- SomeBuffers
    MaxQueue = 1
    MaxWrite = 2
SYMMETRY TwoOthers
CHECK_DEADLOCK FALSE
INVARIANTS
    OnePlace
PROPERTIES
    HandlesNotDropped
    TransferNeedsRight
