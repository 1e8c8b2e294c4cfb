CONSTANTS
    MaxTid = 2
    MaxPipe = 1
    MaxFd = 5
    Fd = {3, 4}
    MaxBytes = 1
    Count = {1}
SPECIFICATION MCSpec
PROPERTY EofDelivered
CHECK_DEADLOCK FALSE
