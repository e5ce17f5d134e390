CONSTANTS
    LARGE = 4
    DROP = 2
    SEG = 8
    TERA = 16
    HASHES = 32
    VSID_STEP = 8
    PTEGS = 8
    PTES_PER_GROUP = 4
    TLB_SIZE = 1
    HV_VSID = 2
    AIL_VSID = 10
    GRM_VSID = 3
    HtabPages <- MCHtabPages
    ImagePages <- MCImagePages
    AilPages <- MCAilPages
    SEGMENTS = 2
    RamStart = 12
    RamSize = 4
    HvEnd = 12
    ClientMaps <- MCClientMaps
    MixedMaps <- MCMixedMaps
    Unmaps <- MCUnmaps
SPECIFICATION Spec
INVARIANTS
    TranslationCorrect
    TlbCoherent
    OnePerSegment
    NoBug
