CONSTANTS
    PAGE_SIZE = 4
    RamSize = 64
    ArenaSize = 32
    StackSize = 8
    Veneer <- MCVeneer
    Trampoline <- MCTrampoline
    FixedClaims = {}
    ArenaClaims = {}
    TwoTo31 = 8
    DiskLen = 6
    DiskSectors = 3
    MaxSectors = 3
    Offsets = {1, 3, 7, 15, 18}
    MaxClaims = 3
SPECIFICATION Spec
INVARIANT BufferKept
