CONSTANTS
    Terminal = {tty}
    MaxTid = 4
    MaxFIFO = 4
SPECIFICATION Spec
CONSTRAINT Bounds
INVARIANTS ObjectInv ThreadInv RootedAtInit WaitInv
PROPERTY ImplementsLife
