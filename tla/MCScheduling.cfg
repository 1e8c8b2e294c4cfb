CONSTANTS
    processQuantum = 5
    renderingQuantum = 60
    Terminal = {tty}
    MaxTid = 3
    MaxFIFO = 4
SPECIFICATION MCSpec
INVARIANTS QuantumRespected NobodyForgotten
PROPERTIES ReadyRuns WaitServed ScreenServed
