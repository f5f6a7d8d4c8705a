CONSTANTS
    Pages = 3
    NULL = NULL
    PAGE_SIZE = 4096
    DATA_START = 64
    CACHE_SIZES <- LargeCaches
    Sizes = {0, 1024, 1025, 2048, 2049}
SPECIFICATION Spec
INVARIANTS ChunksAccounted LinksSound NoSlabLeak NullOnlyWhenExhausted
PROPERTY HeapSpec
