SPECIFICATION Spec
CONSTANTS
    NULL = NULL
    Proc = {p1, p2, p3}
    p1 = p1
    p2 = p2
    p3 = p3
    Held <- MCHeld
    Readers = {p1, p2}
    Writers = {p3}
    Poked = {p1}
    PIPE_BUF_SIZE = 2
    Sizes = {2}
    CountMod = 8
INVARIANTS
    RingIsFifo
    QueuesAreSound
    ReadySleeperWasSkipped
PROPERTIES
    EndOfFileMeansClosed
CHECK_DEADLOCK FALSE
