CONSTANTS
    Terminal = {}
    MaxTid = 4
    MaxFIFO = 4
SPECIFICATION Spec
INVARIANT NoLostOrphan
