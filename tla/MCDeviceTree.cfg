SPECIFICATION AllSpec
INVARIANTS
    ReadsAgree KernelReads
PROPERTIES
    WalkInside ImplementsTree
\* A walk ends, a finished blob is left alone, and the kernel asks once.
CHECK_DEADLOCK FALSE
