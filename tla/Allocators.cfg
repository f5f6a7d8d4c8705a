CONSTANTS
    MemMap <- GappedMap
    PAGE_SIZE = 8
    RefLimit = 4
    MaxRefs = 3
    NO_FRAME = NO_FRAME
    NULL = NULL
    HEADER = 16
    SIZE_LIMIT = 65536
    MIN_ALLOC_UNITS = 4
    HeapStart = 2
    HeapEnd = 16
    Sizes <- AskedSizes
SPECIFICATION AllocatorsSpec
INVARIANTS CountsHolders NoLeak Tiled ListOrdered Coalesced
PROPERTIES AllocLowest HeapSpec Returns
