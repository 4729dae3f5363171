CONSTANTS
    r1 = r1
    r2 = r2
    Readers <- MCReaders
    Letters <- MCLetters
    Others <- MCOthers
    Shifts <- MCShifts
    Arrows <- MCArrows
    LeftCtrl = "lctrl"
    RightCtrl = "rctrl"
    EvCap = 2
    IevCap = 2
    LineSize = 3
    MaxInputs = 4
    MaxWire = 2
SYMMETRY MCSymmetry
SPECIFICATION Spec
CONSTRAINT UpToFirstHole
INVARIANTS KeysArriveAsTyped NothingSticks InterruptSparesReader MouseIsTracked
