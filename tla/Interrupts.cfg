SPECIFICATION FairSpec
CONSTANTS
    Cpus = {c0, c1, c2}
    BootCpu = c0
    Timer = 2
    Uart = 5
    SpiBase = 4
    Count = 8
    MAX_IRQ = 16
    Spurious = 15
    Removes = TRUE
    MaxArrivals = 2
INVARIANTS
    ActiveWhileServed HandlerFindsCharacter HandlerWithItsData
PROPERTIES
    AllServed
