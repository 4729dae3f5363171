CONSTANTS
    Procs <- MCProcs
    Image <- MCImage
    FrameCount = 17
    TableSize = 2
    HeapBase = 2
    MmapBase = 4
    ShmBase = 6
    StackTop = 12
    Slots = 2
    MaxCalls = 5
SPECIFICATION Spec
CONSTRAINT UpToFirstHole
INVARIANTS FramesHaveOneOwner NoFrameIsLost HeapIsWhole
