CONSTANTS
    Procs <- MCProcs
    Server = 1
    Slots = 4
    Size = 2
    MaxBacklog = 2
    MaxWrite = 3
    MaxCalls = 7
SPECIFICATION Spec
CONSTRAINT UpToFirstHole
INVARIANTS StreamIsWhole SleeperHasReason ClientIsQueued
