SPECIFICATION FairSpec
CONSTANTS
    IDLE = IDLE
    NULL = NULL
    CPUs = {c0, c1}
    BootCpu = c0
    Tasks = {t1, t2}
    WaitQueues = {q1}
    RemoteDequeue = FALSE
PROPERTIES
    WokenResumes
\* Every task may have exited.
CHECK_DEADLOCK FALSE
