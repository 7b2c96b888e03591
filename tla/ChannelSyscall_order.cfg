SPECIFICATION Spec
CONSTANTS
    p1 = p1
    p2 = p2
    t1 = t1
    t2 = t2
    a0 = a0
    a1 = a1
    other = other
    ha0 = ha0
    ha1 = ha1
    hx = hx
    hy = hy
    None = none
    Procs = {p1}
    Threads = {t1, t2}
    ProcOf <- TwoInOne
    Ends <- TwoEnds
    Peer <- Facing
    Handles <- Made
    Object <- ObjectOf
    Rights <- RightsOf
    Objects = {other}
    KernelHandles = {}
    KeyCount = 2
    MaxHandles = 1
    Lengths = {0, 1}
    Buffers <- OneBuffer
    MaxQueue = 2
    MaxWrite = 1
SYMMETRY TwoThreads
CHECK_DEADLOCK FALSE
PROPERTIES
    PipeSpec
