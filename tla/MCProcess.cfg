SPECIFICATION Spec
CONSTANTS
    MAX_PROCESSES = 4
    Killers = {1}
    Pidwaiters = {1}
    Blockers = {2}
INVARIANTS
    FamilyIsSound
    MissedOnlyInWindow
PROPERTIES
    DeadUntilCollected
CHECK_DEADLOCK FALSE
