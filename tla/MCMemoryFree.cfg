SPECIFICATION AllSpec
\* Four pages of six bytes, a header of two, a limit of two and a half pages.
CONSTANTS
    Header = 2
    PAGE_SIZE = 6
    INITIAL_HEAP_SIZE = 6
    MAX_HEAP_SIZE = 15
    Pages = {1, 2, 3, 4}
    Sizes = {1, 2, 4, 6}
INVARIANTS
    FreeReturns
\* A panic stops the virtual memory manager.
CHECK_DEADLOCK FALSE
