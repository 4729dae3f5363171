CONSTANTS
    p1 = p1
    p2 = p2
    v1 = v1
    v2 = v2
    Procs <- MCProcs
    Sectors = 5
    SectorSize = 2
    OffMod = 8
    CountMod = 3
    BounceCap = 2
    Slots = 2
    MaxParts = 2
    Tables <- MCTables
    Offsets <- MCOffsets
    Sizes <- MCSizes
    Vals <- MCVals
    MaxOps = 3
SYMMETRY MCSymmetry
SPECIFICATION Spec
CONSTRAINT UpToFirstHole
INVARIANTS TransfersAreRight PartitionsAreKept
