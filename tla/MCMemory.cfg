CONSTANTS
    Proc = {p1, p2}
    InitProc = p1
    NbFrames = 20
    MaxAllocs = 4
    Dists = {0, 1, 4096, 4097, 12289}
    Stored = {3, 6}
    Image = Image
    Junk = Junk
    Data = {d}
    Fan = 2
    ProgramPage = 2
    HeapPage = 3
    StackPages = {7}
    WordBits = 2
    Large = 4
    KernelFan = 3
    KernelFrames = 14
    BootFrames = {0, 1, 2}
    NbSlots = 5
    Touched = {4, 12}
SPECIFICATION MCSpec
INVARIANTS
    MemInv
    HeapMapped
    ActiveAlive
    MapExact
    FramesExclusive
PROPERTY ImplementsAddressSpaces
CHECK_DEADLOCK FALSE
