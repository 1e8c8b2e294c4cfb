SPECIFICATION MCSpec
CONSTANTS
    NDirect = 1
    NLevels = 2
    PerBlock = 2
    NGroups = 2
    BlocksPerGroup = 6
    NInodes = 2
    InodesPerGroup = 1
    Reserved = {0, 6}
    Addr = {0, 3, 9}
    Lengths = {3}
    DirBlockSize = 32
    Name = {"a", "c"}
    MoreName = {"a", "b", "c"}
INVARIANTS
    VolumeSound
    ReadsBack
    ChainTiles
    LinksExact
    TreeKept
