CONSTANTS
    MaxWords = 12
    Sizes = {1, 2}
    Client = {c1, c2, c3, c4}
    Value = {a, b}
    Keys = {1, 2, 3, 4, 5, 6}
    Default = d
    MaxLen = 6
SPECIFICATION MCSpec
INVARIANTS
    HeapInv
    ContentIntact
    NoLeak
    ContainersSound
PROPERTY
    ImplementsCollections
SYMMETRY Symmetry
