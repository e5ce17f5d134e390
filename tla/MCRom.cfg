CONSTANTS
    PAGE_SIZE = 4
    RamSize = 64
    ArenaSize = 32
    StackSize = 8
    Veneer <- MCVeneer
    Trampoline <- MCTrampoline
    FixedClaims <- MCFixed
    ArenaClaims <- MCArena
    TwoTo31 = 4
    DiskLen = 3
    DiskSectors = 3
    MaxSectors = 3
    Offsets = {1, 2, 7, 9}
    MaxClaims = 6
SPECIFICATION Spec
INVARIANTS
    AvailableWellFormed
    ClaimedNotAvailable
    ClaimsDisjoint
    FileAgrees
    ReadsRight
