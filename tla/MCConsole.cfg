SPECIFICATION AllSpec
CONSTANTS
    Capacity = 3
    Element = 0
\* Half of the FIFO, the reset value of UARTIFLS.
    FifoDepth = 4
    Trigger = 2
    MaxArrivals = 7
    Char <- MCChar
\* An arena of two events and three message bytes: either can run out first.
    Backends = {uart, screen}
    Lengths = {1, 3, 4}
    Modes = {TRUE, FALSE}
    EventCount = 2
    MsgSize = 3
    MaxBatch = 2
    MaxEvents = 5
    Trees <- AllTrees
    HeapFaults = {"UART", "device", "backend"}
    MmioFaults = TRUE
    Garbage = {"stale"}
    MaxCalls = 3
INVARIANTS
    Delivered AllOrNothing
PROPERTIES
    ImplementsQueue EventuallyHandled
\* Input ends with the last character; a failed ASSERT or probe stops the kernel.
CHECK_DEADLOCK FALSE
