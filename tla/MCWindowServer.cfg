CONSTANTS
    Width = 3
    CursorWidth = 1
    MaxClients = 2
    MaxWindows = 2
    MaxSegs = 2
    MaxApps = 3
    MaxCalls = 5
    MaxMoves = 1
    MaxPending = 1
    Places <- MCPlaces
    Spots <- MCSpots
    Resizes <- MCResizes
    Widths <- MCWidths
SPECIFICATION Spec
INVARIANTS ScreenIsCurrent WindowsAreBacked
PROPERTIES RequestIsAnswered
