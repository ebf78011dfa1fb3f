SPECIFICATION FairSpec
CONSTANTS
    IDLE = IDLE
    NULL = NULL
    CPUs = {c0, c1}
    BootCpu = c0
    Tasks = {t1, t2, t3}
    WaitQueues = {q1}
    RemoteDequeue = FALSE
INVARIANTS
    OnePlace FieldsAgree
PROPERTIES
    OnlyForward QueuedRuns
\* Every task may have exited.
CHECK_DEADLOCK FALSE
