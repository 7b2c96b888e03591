SPECIFICATION Spec
CONSTANTS
    Threads = {t1, t2}
    Logs = {d1, d2}
    HeaderSize = 32
    MaxData = 224
    BufferSize = 256
    Lengths = {0, 3, 300}
    MaxRecords = 3
    None = none
CHECK_DEADLOCK FALSE
INVARIANTS
    NoSliceOutOfRange
    EachRecordOnce
