SPECIFICATION Spec
CONSTANTS
    N = 4
    MaxCalls = 4
    CS = 2
    Slots = 3
    RootSlots = 2
    Names <- MCNames
    Short <- MCShort
    Handles = {1}
    MaxOffset = 3
    MaxWrite = 2
CONSTRAINT UpToFirstHole
INVARIANTS ChainsAreSound NamesAreKept SpaceIsAccountedFor
