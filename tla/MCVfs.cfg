SPECIFICATION Spec
CONSTANTS
    Name = {"a", "tmp"}
    MaxIno = 2
    Fd = {f1, f2}
    MaxSize = 1
    MaxLinks = 4
SYMMETRY Descriptors
CHECK_DEADLOCK FALSE
INVARIANTS
    EntriesSound
    PathsAgree
    OffsetsInside
