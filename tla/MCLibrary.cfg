SPECIFICATION AllSpec
CONSTANTS
    Lists = {q1, q2}
    Nodes = {n1, n2, n3, n4}
    Data = {d1, d2}
    null = null
    junk = junk
    BITS = 3
    Pool = 5
    PageCount = 8
    Counts = {1, 2, 5}
INVARIANTS
    BitsMatchSlots SearchIsFirstFit
PROPERTIES
    ImplementsRanges ImplementsLists FunctionsCorrect
\* A string function is called once, vsnprintf returns, a null dereference stops the kernel.
CHECK_DEADLOCK FALSE
