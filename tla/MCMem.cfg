CONSTANTS
    Page = 4
    Chunk = 4
    Lengths = {4, 8}
    Nodes <- MCNodes
    Image <- MCImage
    Vectors <- MCVectors
    Fdt <- MCFdt
    Reservations <- MCReservations
    EarlyChunks = 1
SPECIFICATION Spec
INVARIANTS
    ListOrdered
    IteratorsLive
    PagesExclusive
    NothingLost
PROPERTY CallsReturn
