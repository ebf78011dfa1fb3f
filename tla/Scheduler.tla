------------------------------ MODULE Scheduler -----------------------------
(***************************************************************************)
(* The cooperative per-CPU scheduler: kernel/sched/scheduler.c with its    *)
(* round robin policy, the run queues and wait queues of kernel/sync, and  *)
(* the life of a task in kernel/core/task.c and task_manager.c.            *)
(*                                                                         *)
(* A queue operation runs under the queue's spinlock and is one step; what *)
(* happens between two of them, unlocked, is where other CPUs interleave.  *)
(* A list is the sequence of its tasks (module IntrusiveList) together     *)
(* with the count field, which the unlocked emptiness tests read.          *)
(***************************************************************************)
EXTENDS Integers, Sequences, Functions

CONSTANTS CPUs,             \* the processors, all online
          BootCpu,          \* the one that runs kernel_main
          Tasks,            \* the tasks besides the idle ones
          WaitQueues,
          IDLE,             \* the idle task of whichever CPU is meant
          NULL,             \* the null pointer
          RemoteDequeue     \* may a task be dequeued from another CPU?

ASSUME SchedulerAssumption ==
    /\ BootCpu \in CPUs
    /\ IDLE \notin Tasks /\ NULL \notin Tasks /\ IDLE # NULL
    /\ NULL \notin CPUs \cup WaitQueues
    /\ RemoteDequeue \in BOOLEAN

VARIABLES
    state, waiting_on, cpu, \* fields of each Task; cpu is NULL until created
    runnables, count,       \* Cpu.runnable_tasks: the list and its count
    waiters,                \* the list of each wait queue
    current,                \* Cpu.current
    pc,                     \* where each CPU is in the code
    arg,                    \* the task that code works on
    wq,                     \* the wait queue it works on
    idle_started,           \* the idle task has been switched to before
    parked,                 \* tasks created or dequeued, kept by a caller
    fault                   \* line of the failed ASSERT of each CPU, or 0

taskVars == <<state, waiting_on, cpu, parked>>
queueVars == <<runnables, count, waiters>>
cpuVars == <<current, pc, arg, wq, idle_started, fault>>
vars == <<taskVars, queueVars, cpuVars>>

States == {"READY", "RUNNING", "BLOCKED", "DEAD"}

PCs == {"run", "enqueue", "insert", "remove", "wait", "wake", "switch",
        "requeue", "pick", "dequeue", "commit", "first", "idle", "wfi",
        "panic"}

Created == {t \in Tasks : cpu[t] # NULL}

(* The secondary CPUs are in the yield that ends init_secondary_cpu, the   *)
(* boot CPU in kernel_main before scheduler_init.                          *)
Init ==
    /\ state = [t \in Tasks |-> "READY"]
    /\ waiting_on = [t \in Tasks |-> NULL]
    /\ cpu = [t \in Tasks |-> NULL]
    /\ parked = {}
    /\ runnables = [c \in CPUs |-> <<>>]
    /\ count = [c \in CPUs |-> 0]
    /\ waiters = [q \in WaitQueues |-> <<>>]
    /\ current = [c \in CPUs |-> NULL]
    /\ pc = [c \in CPUs |-> IF c = BootCpu THEN "run" ELSE "switch"]
    /\ arg = [c \in CPUs |-> NULL]
    /\ wq = [c \in CPUs |-> NULL]
    /\ idle_started = [c \in CPUs |-> FALSE]
    /\ fault = [c \in CPUs |-> 0]

Goto(c, to) == pc' = [pc EXCEPT ![c] = to] /\ UNCHANGED fault

(* A failed ASSERT panics: the CPU stops in the exception that brk raises. *)
Panic(c, failed) ==
    /\ pc' = [pc EXCEPT ![c] = "panic"]
    /\ fault' = [fault EXCEPT ![c] = CHOOSE l \in failed : \A m \in failed : l <= m]

(* The line of an ASSERT whose condition is false. *)
Failing(line, condition) == IF condition THEN {} ELSE {line}

-----------------------------------------------------------------------------
(* Creating, queueing and dequeueing tasks.  The caller is kernel_main on  *)
(* the boot CPU or a running task.                                         *)

(* Allocation succeeds; the caller or scheduler_pick_cpu chooses the CPU.  *)
task_manager_create_with_cpu(c, t, d) ==
    /\ pc[c] = "run"
    /\ t \notin Created
    /\ state' = [state EXCEPT ![t] = "READY"]
    /\ waiting_on' = [waiting_on EXCEPT ![t] = NULL]
    /\ cpu' = [cpu EXCEPT ![t] = d]
    /\ parked' = parked \cup {t}
    /\ UNCHANGED <<queueVars, cpuVars>>

CallEnqueue(c, t) ==
    /\ pc[c] = "run"
    /\ t \in parked
    /\ parked' = parked \ {t}
    /\ arg' = [arg EXCEPT ![c] = t]
    /\ Goto(c, "enqueue")
    /\ UNCHANGED <<state, waiting_on, cpu, queueVars, current, wq,
                   idle_started>>

scheduler_enqueue(c) ==
    LET t == arg[c]
        failed == Failing(28, cpu[t] # NULL)
                  \cup Failing(29, state[t] # "RUNNING")
                  \cup Failing(30, state[t] # "BLOCKED")
                  \cup Failing(31, waiting_on[t] = NULL)
    IN  /\ pc[c] = "enqueue"
        /\ IF failed # {}
           THEN Panic(c, failed) /\ UNCHANGED <<state, waiting_on>>
           ELSE /\ waiting_on' = [waiting_on EXCEPT ![t] = NULL]
                /\ state' = [state EXCEPT ![t] = "READY"]
                /\ Goto(c, "insert")
        /\ UNCHANGED <<cpu, parked, queueVars, current, arg, wq, idle_started>>

(* Variant: the task goes to the front of the queue. *)
EnqueueAtHead(c, t, to) ==
    /\ runnables' = [runnables EXCEPT ![cpu[t]] = <<t>> \o @]
    /\ count' = [count EXCEPT ![cpu[t]] = @ + 1]
    /\ Goto(c, to)

(* Line 15 is in run_queue.c. *)
runqueue_enqueue(c, t, to) ==
    IF state[t] # "READY"
    THEN Panic(c, {15}) /\ UNCHANGED <<runnables, count>>
    ELSE /\ runnables' = [runnables EXCEPT ![cpu[t]] = Append(@, t)]
         /\ count' = [count EXCEPT ![cpu[t]] = @ + 1]
         /\ Goto(c, to)

(* Returns to the caller, or to the loop of scheduler_wake_all. *)
Insert(c) ==
    /\ pc[c] = "insert"
    /\ runqueue_enqueue(c, arg[c], IF wq[c] = NULL THEN "run" ELSE "wake")
    /\ arg' = [arg EXCEPT ![c] = NULL]
    /\ UNCHANGED <<taskVars, waiters, current, wq, idle_started>>

(* A caller takes a READY task off its queue.  It never does so to a task  *)
(* that a caller holds already.                                            *)
Held == parked \cup {arg[d] : d \in {e \in CPUs :
                                  pc[e] \in {"enqueue", "insert", "remove"}}}

scheduler_dequeue(c, t) ==
    LET failed == Failing(45, cpu[t] # NULL)
                  \cup Failing(46, state[t] = "READY")
                  \cup Failing(47, waiting_on[t] = NULL)
    IN  /\ pc[c] = "run"
        /\ t \in Created \ Held
        /\ IF RemoteDequeue THEN state[t] = "READY"
                            ELSE t \in Range(runnables[c])
        /\ IF failed # {} THEN Panic(c, failed) /\ UNCHANGED arg
                          ELSE /\ arg' = [arg EXCEPT ![c] = t]
                               /\ Goto(c, "remove")
        /\ UNCHANGED <<taskVars, queueVars, current, wq, idle_started>>

(* A list without its i-th node. *)
Without(s, i) == SubSeq(s, 1, i - 1) \o SubSeq(s, i + 1, Len(s))

(* Removing a node that is in no list has null links on both sides, which  *)
(* empties the list; count is a usize, -1 stands for its wrapped value.    *)
runqueue_remove(c) ==
    LET t == arg[c]
    IN  /\ pc[c] = "remove"
        /\ runnables' = [runnables EXCEPT ![cpu[t]] =
                             IF t \in Range(@)
                             THEN Without(@, CHOOSE i \in DOMAIN @ : @[i] = t) ELSE <<>>]
        /\ count' = [count EXCEPT ![cpu[t]] = @ - 1]
        /\ parked' = parked \cup {t}
        /\ arg' = [arg EXCEPT ![c] = NULL]
        /\ Goto(c, "run")
        /\ UNCHANGED <<state, waiting_on, cpu, waiters, current, wq,
                       idle_started>>

-----------------------------------------------------------------------------
(* Blocking and waking.                                                    *)

scheduler_block_current(c, q) ==
    LET t == current[c]
        failed == Failing(64, cpu[t] = c)
                  \cup Failing(66, state[t] = "RUNNING")
                  \cup Failing(67, waiting_on[t] = NULL)
    IN  /\ pc[c] = "run"
        /\ t \in Tasks
        /\ IF failed # {}
           THEN Panic(c, failed) /\ UNCHANGED <<state, wq>>
           ELSE /\ state' = [state EXCEPT ![t] = "BLOCKED"]
                /\ wq' = [wq EXCEPT ![c] = q]
                /\ Goto(c, "wait")
        /\ UNCHANGED <<waiting_on, cpu, parked, queueVars, current, arg,
                       idle_started>>

(* Line 16 is in wait_queue.c; the call is followed by scheduler_switch. *)
waitqueue_enqueue(c) ==
    LET t == current[c]
    IN  /\ pc[c] = "wait"
        /\ IF state[t] = "READY"
           THEN Panic(c, {16}) /\ UNCHANGED <<waiters, waiting_on>>
           ELSE /\ waiters' = [waiters EXCEPT ![wq[c]] = Append(@, t)]
                /\ waiting_on' = [waiting_on EXCEPT ![t] = wq[c]]
                /\ Goto(c, "switch")
        /\ wq' = [wq EXCEPT ![c] = NULL]
        /\ UNCHANGED <<state, cpu, parked, runnables, count, current, arg,
                       idle_started>>

(* Variant: waiting_on is not cleared. *)
WakeKeepsWaitingOn(c, q, line, loop) ==
    /\ waiters[q] # <<>>
    /\ waiters' = [waiters EXCEPT ![q] = Tail(@)]
    /\ arg' = [arg EXCEPT ![c] = Head(waiters[q])]
    /\ wq' = [wq EXCEPT ![c] = loop]
    /\ Goto(c, "enqueue")
    /\ UNCHANGED <<taskVars, runnables, count, current, idle_started>>

(* waitqueue_dequeue and the ASSERT after it, at the given line (the next  *)
(* one holds as waiting_on has just been cleared); the task goes on to     *)
(* scheduler_enqueue, and the caller to the queue "loop" after that.       *)
Wake(c, q, line, loop) ==
    LET t == Head(waiters[q])
    IN  /\ IF waiters[q] = <<>>
           THEN /\ Goto(c, "run")
                /\ wq' = [wq EXCEPT ![c] = NULL]
                /\ UNCHANGED <<waiters, waiting_on, arg>>
           ELSE /\ waiters' = [waiters EXCEPT ![q] = Tail(@)]
                /\ waiting_on' = [waiting_on EXCEPT ![t] = NULL]
                /\ arg' = [arg EXCEPT ![c] = t]
                /\ wq' = [wq EXCEPT ![c] = loop]
                /\ IF state[t] # "BLOCKED" THEN Panic(c, {line})
                                           ELSE Goto(c, "enqueue")
        /\ UNCHANGED <<state, cpu, parked, runnables, count, current,
                       idle_started>>

scheduler_wake_one(c, q) == pc[c] = "run" /\ Wake(c, q, 90, NULL)

(* Called from "run"; each turn of its loop starts at "wake". *)
scheduler_wake_all(c, q) ==
    /\ wq[c] \in {NULL, q}
    /\ pc[c] = IF wq[c] = NULL THEN "run" ELSE "wake"
    /\ Wake(c, q, 110, q)

-----------------------------------------------------------------------------
(* scheduler_switch.  current[c] is its local prev until "commit", arg[c]  *)
(* its local next.                                                         *)

(* yield of a task, and scheduler_init of kernel_main *)
yield(c) ==
    /\ pc[c] = "run"
    /\ Goto(c, "switch")
    /\ UNCHANGED <<taskVars, queueVars, current, arg, wq, idle_started>>

task_exit(c) ==
    /\ pc[c] = "run"
    /\ current[c] \in Tasks
    /\ state' = [state EXCEPT ![current[c]] = "DEAD"]
    /\ Goto(c, "switch")
    /\ UNCHANGED <<waiting_on, cpu, parked, queueVars, current, arg, wq,
                   idle_started>>

(* The ASSERTs on prev, which an idle prev passes; a prev still running    *)
(* becomes READY.                                                          *)
scheduler_switch(c) ==
    LET p == current[c]
        failed == IF p \notin Tasks THEN {} ELSE
                  Failing(128, cpu[p] = c)
                  \cup Failing(131, state[p] # "BLOCKED" \/ waiting_on[p] # NULL)
                  \cup Failing(135, state[p] = "BLOCKED" \/ waiting_on[p] = NULL)
                  \cup Failing(139, state[p] # "READY" \/ waiting_on[p] = NULL)
        requeue == p \in Tasks /\ state[p] = "RUNNING"
    IN  /\ pc[c] = "switch"
        /\ IF failed # {} THEN Panic(c, failed)
                          ELSE Goto(c, IF requeue THEN "requeue" ELSE "pick")
        /\ state' = IF failed = {} /\ requeue
                    THEN [state EXCEPT ![p] = "READY"] ELSE state
        /\ UNCHANGED <<waiting_on, cpu, parked, queueVars, current, arg, wq,
                       idle_started>>

Requeue(c) ==
    /\ pc[c] = "requeue"
    /\ runqueue_enqueue(c, current[c], "pick")
    /\ UNCHANGED <<taskVars, waiters, current, arg, wq, idle_started>>

(* runqueue_is_empty, without the lock *)
scheduler_policy_pick_next(c) ==
    /\ pc[c] = "pick"
    /\ arg' = [arg EXCEPT ![c] = IF count[c] = 0 THEN IDLE ELSE @]
    /\ Goto(c, IF count[c] = 0 THEN "commit" ELSE "dequeue")
    /\ UNCHANGED <<taskVars, queueVars, current, wq, idle_started>>

(* Variant: the first task is looked at, not removed. *)
DequeuePeeks(c) ==
    /\ pc[c] = "dequeue"
    /\ arg' = [arg EXCEPT ![c] = Head(runnables[c])]
    /\ Goto(c, "commit")
    /\ UNCHANGED <<taskVars, queueVars, current, wq, idle_started>>

runqueue_dequeue(c) ==
    LET empty == runnables[c] = <<>>
    IN  /\ pc[c] = "dequeue"
        /\ arg' = [arg EXCEPT ![c] = IF empty THEN IDLE ELSE Head(runnables[c])]
        /\ runnables' = [runnables EXCEPT ![c] = IF empty THEN @ ELSE Tail(@)]
        /\ count' = [count EXCEPT ![c] = IF empty THEN @ ELSE @ - 1]
        /\ Goto(c, "commit")
        /\ UNCHANGED <<taskVars, waiters, current, wq, idle_started>>

(* Where the task n of CPU c resumes: a task in its own code, the idle     *)
(* task at its start or after the yield that left it, before wfi.          *)
Resume(c, n) == IF n \in Tasks THEN "run"
                ELSE IF idle_started[c] THEN "wfi" ELSE "idle"

(* The ASSERTs on next, the switch of cpu->current and, unless this is the *)
(* first switch of the CPU, of the context.                                *)
Commit(c) ==
    LET n == arg[c]
        failed == IF n \notin Tasks THEN {} ELSE
                  Failing(165, cpu[n] = c)
                  \cup Failing(166, state[n] = "READY")
                  \cup Failing(169, waiting_on[n] = NULL)
    IN  /\ pc[c] = "commit"
        /\ IF failed # {}
           THEN Panic(c, failed) /\ UNCHANGED <<state, current, idle_started>>
           ELSE /\ state' = IF n \in Tasks THEN [state EXCEPT ![n] = "RUNNING"]
                                           ELSE state
                /\ current' = [current EXCEPT ![c] = n]
                /\ Goto(c, IF current[c] = NULL THEN "first" ELSE Resume(c, n))
                /\ idle_started' = [idle_started EXCEPT
                                    ![c] = @ \/ (n = IDLE /\ current[c] # NULL)]
        /\ arg' = [arg EXCEPT ![c] = NULL]
        /\ UNCHANGED <<waiting_on, cpu, parked, queueVars, wq>>

(* The first switch re-reads the run queue before it leaves for good. *)
FirstSwitch(c) ==
    LET n == current[c]
        ok == n # IDLE \/ count[c] = 0
    IN  /\ pc[c] = "first"
        /\ IF ok THEN Goto(c, Resume(c, n)) ELSE Panic(c, {200})
        /\ idle_started' = [idle_started EXCEPT ![c] = ok /\ n = IDLE]
        /\ UNCHANGED <<taskVars, queueVars, current, arg, wq>>

(* One turn of the idle loop: an unlocked look at the queue, then wfi. *)
task_idle(c) ==
    /\ pc[c] = "idle"
    /\ Goto(c, IF count[c] # 0 THEN "switch" ELSE "wfi")
    /\ UNCHANGED <<taskVars, queueVars, current, arg, wq, idle_started>>

(* Variant: the idle loop does not look at the queue after wfi. *)
TickBackToWfi(c) == pc[c] = "wfi" /\ UNCHANGED vars

(* The periodic timer interrupt ends wfi; its handler only re-arms itself. *)
timer_tick(c) ==
    /\ pc[c] = "wfi"
    /\ Goto(c, "idle")
    /\ UNCHANGED <<taskVars, queueVars, current, arg, wq, idle_started>>

-----------------------------------------------------------------------------
(* Code of the scheduler that CPU c is executing, which runs to its end. *)
KernelStep(c) ==
    \/ scheduler_enqueue(c) \/ Insert(c) \/ runqueue_remove(c)
    \/ waitqueue_enqueue(c)
    \/ scheduler_switch(c) \/ Requeue(c) \/ scheduler_policy_pick_next(c)
    \/ runqueue_dequeue(c) \/ Commit(c) \/ FirstSwitch(c) \/ task_idle(c)

(* What a running task, or kernel_main, does next. *)
Call(c) ==
    \/ \E t \in Tasks, d \in CPUs : task_manager_create_with_cpu(c, t, d)
    \/ \E t \in Tasks : CallEnqueue(c, t) \/ scheduler_dequeue(c, t)
    \/ \E q \in WaitQueues : scheduler_wake_one(c, q) \/ scheduler_wake_all(c, q)

Leave(c) ==
    yield(c) \/ task_exit(c) \/ \E q \in WaitQueues : scheduler_block_current(c, q)

Next == \E c \in CPUs : KernelStep(c) \/ Call(c) \/ Leave(c) \/ timer_tick(c)

Spec == Init /\ [][Next]_vars

(* CPUs run, timers tick, and tasks are cooperative: each eventually gives *)
(* up its CPU, however many other calls it makes in between.               *)
Fairness ==
    \A c \in CPUs : /\ WF_vars(KernelStep(c))
                    /\ WF_vars(timer_tick(c))
                    /\ SF_vars(Leave(c))

FairSpec == Spec /\ Fairness

-----------------------------------------------------------------------------
(* Every variable has its type. *)
TypeOK ==
    /\ state \in [Tasks -> States]
    /\ waiting_on \in [Tasks -> WaitQueues \cup {NULL}]
    /\ cpu \in [Tasks -> CPUs \cup {NULL}]
    /\ parked \subseteq Tasks
    /\ DOMAIN runnables = CPUs /\ \A c \in CPUs : runnables[c] \in Seq(Tasks)
    /\ count \in [CPUs -> Int]
    /\ DOMAIN waiters = WaitQueues
    /\ \A q \in WaitQueues : waiters[q] \in Seq(Tasks)
    /\ current \in [CPUs -> Tasks \cup {IDLE, NULL}]
    /\ pc \in [CPUs -> PCs]
    /\ arg \in [CPUs -> Tasks \cup {IDLE, NULL}]
    /\ wq \in [CPUs -> WaitQueues \cup {NULL}]
    /\ idle_started \in [CPUs -> BOOLEAN]
    /\ fault \in [CPUs -> Nat]

(* Where a task is: in a run queue, in a wait queue, kept by a caller, in  *)
(* a local variable of code that moves it, or executing.                   *)
Places(t) ==
    {<<"runnable", c>> : c \in {d \in CPUs : t \in Range(runnables[d])}}
    \cup {<<"waiting", q>> : q \in {r \in WaitQueues : t \in Range(waiters[r])}}
    \cup {<<"local", c>> : c \in {d \in CPUs : arg[d] = t /\ pc[d] # "remove"}}
    \cup {<<"on_cpu", c>> : c \in {d \in CPUs : /\ current[d] = t
                                               /\ \/ state[t] = "RUNNING"
                                                  \/ pc[d] \in {"requeue", "wait"}}}
    \cup (IF t \in parked THEN {<<"parked", t>>} ELSE {})

(* No interleaving of enqueue, dequeue, yield, block and wake loses a live *)
(* task or puts it in two places; a dead or uncreated one is nowhere, the  *)
(* lists repeat no task, and count is the length of the list.              *)
OnePlace ==
    /\ \A t \in Tasks :
           IF t \in Created /\ state[t] # "DEAD"
           THEN \E p \in Places(t) : Places(t) = {p}
           ELSE Places(t) = {}
    /\ \A c \in CPUs : IsInjective(runnables[c]) /\ count[c] = Len(runnables[c])
    /\ \A q \in WaitQueues : IsInjective(waiters[q])

(* The fields of a task agree with the list it is in: a runnable one is    *)
(* READY on its own CPU, a waiting one BLOCKED and pointing at its queue.  *)
FieldsAgree ==
    \A t \in Created :
        /\ \A c \in CPUs : t \in Range(runnables[c]) =>
               cpu[t] = c /\ state[t] = "READY" /\ waiting_on[t] = NULL
        /\ \A q \in WaitQueues :
               t \in Range(waiters[q]) <=> waiting_on[t] = q
        /\ waiting_on[t] # NULL => state[t] = "BLOCKED"
        /\ state[t] = "RUNNING" => current[cpu[t]] = t

(* The ASSERTs of the scheduler and its queues hold, but for three that    *)
(* other CPUs or the wake functions can break (see the README): 30, 131    *)
(* and 200.                                                                *)
AssertsHold == \A c \in CPUs : fault[c] \in {0, 30, 131, 200}

(* scheduler_switch never queues or resumes a task that has exited. *)
DeadStaysDead ==
    [][\A t \in Tasks : state[t] = "DEAD" =>
           /\ state'[t] = "DEAD"
           /\ \A c \in CPUs : current'[c] = t => current[c] = t]_vars

(* Round robin: while a task waits in a run queue it only moves forward,   *)
(* nobody is queued in front of it.                                        *)
OnlyForward ==
    [][\A c \in CPUs : \A i \in DOMAIN runnables[c], j \in DOMAIN runnables'[c] :
           runnables[c][i] = runnables'[c][j] => j <= i]_vars

(* A queued task gets its CPU, even when it was queued by another CPU just *)
(* after the idle task looked and before its wfi; unless a caller takes it *)
(* off the queue again, or its CPU has panicked.                           *)
QueuedRuns ==
    \A t \in Tasks, c \in CPUs :
        t \in Range(runnables[c]) ~>
            state[t] = "RUNNING" \/ t \in parked \/ pc[c] = "panic"

-----------------------------------------------------------------------------
(* Properties the code states and does not have.                           *)

(* The comment at the end of scheduler_block_current: a task that a wake   *)
(* takes off its wait queue is eventually made runnable.                   *)
WokenResumes ==
    \A t \in Tasks, c \in CPUs :
        pc[c] = "enqueue" /\ arg[c] = t ~> state[t] = "READY"

=============================================================================
