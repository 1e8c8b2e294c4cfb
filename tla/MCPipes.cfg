CONSTANTS
    MaxTid = 3
    MaxPipe = 1
    MaxFd = 6
    Fd = {3, 4, 5}
    MaxBytes = 2
    Count = {0, 1, 2}
SPECIFICATION MCSpec
INVARIANTS
    FdInv
    PipeFifo
    NoMissedWrite
PROPERTY DataDelivered
CHECK_DEADLOCK FALSE
