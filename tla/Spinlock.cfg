\* Two CPUs, the two locks that nest, and one that an interrupt shares with the
\* thread (console.read_lock, in pl011's receive handler).
SPECIFICATION FairSpec
CONSTANTS
    kheap = kheap
    kmem = kmem
    NULL = NULL
    CPUs = {boot, cpu1}
    BootCpu = boot
    Locks = {kheap, kmem, console_read}
    IrqLocks = {console_read}
    Nests <- KernelNests
INVARIANTS
    NoPanic InterruptsExact
PROPERTIES
    SpinningProgress ImplementsMutex
