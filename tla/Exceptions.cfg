SPECIFICATION Spec
CONSTANTS
    MaxDepth = 3
    UsesX18 = FALSE
PROPERTIES
    ResumesWhereInterrupted RegistersPreserved
\* A panic stops the CPU.
CHECK_DEADLOCK FALSE
