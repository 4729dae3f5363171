SPECIFICATION Spec
CONSTANTS
    MaxNodes = 6
    MaxArrays = 2
    MaxEntries = 2
    MaxRam = 2
    MaxMounts = 2
    MountPoints <- MCPoints
    RamFile = "a"
    Procs = {1, 2}
    InitProc = 1
    FdCount = 5
    MaxOpen = 3
    Paths <- MCPaths
    Targets <- MCTargets
    MaxCalls = 4
CONSTRAINT UpToFirstHole
INVARIANTS ReferencesBalance OpenFilesAreCounted TreesAreSound
