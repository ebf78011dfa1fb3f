SPECIFICATION FairSpec
CONSTANTS
    CpuCount = 3
    MAX_CPU_COUNT = 4
    MaxTasks = 2
INVARIANTS
    AllReadyAfterWait IdentifiersUnique
PROPERTIES
    PicksLeast BootCompletes
\* Booted CPUs run tasks, which are modelled elsewhere.
CHECK_DEADLOCK FALSE
