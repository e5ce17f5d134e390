SPECIFICATION Spec
CONSTANTS
    SectorSize = 2
    SPC = 2
    EntriesPerFatSector = 4
    FatSectors = 2
    VolClusters = 4
    RootSectors = 5
    FAT_BUFFERS = 1
    Names = {"a", "b", "d"}
    Parts <- MCParts
    Base <- MCBase
    MaxParts = 2
    MaxTail = 2
    Handles = {1, 2}
    Types = {16, 32}
    FilePaths <- MCFilePaths
    DirPaths <- MCDirPaths
    Modes = {"w", "a+"}
    Writes <- MCWrites
    Reads = {3}
    Seeks <- MCSeeks
    MaxSize = 6
    MaxCalls <- MCMaxCalls
INVARIANTS ChainsDisjoint NoLostClusters BuffersCoherent FilesFound ListingComplete
 
CHECK_DEADLOCK FALSE
