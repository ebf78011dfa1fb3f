-------------------------------- MODULE Boot --------------------------------
(***************************************************************************)
(* Bringing up the CPUs and creating tasks: kernel_main from               *)
(* task_manager_init on, secondary_entry.S, kernel/core/cpu.c,             *)
(* task_manager.c, and scheduler_pick_cpu.  The boot CPU releases the      *)
(* others, which initialise themselves while it does the same for itself,  *)
(* and waits until all have reported.  After that any CPU creates tasks    *)
(* for whichever CPU looks least busy.                                     *)
(*                                                                         *)
(* Creating a task holds task_manager.lock around three steps: read the    *)
(* identifier, write its successor, link the task.  scheduler_pick_cpu     *)
(* reads one CPU's queue length after another without any lock.            *)
(***************************************************************************)
EXTENDS Integers, Sequences

CONSTANTS CpuCount,         \* CPUs the boot loader reports, 0 being the boot CPU
          MAX_CPU_COUNT,    \* size of CPUS
          MaxTasks          \* bound on the tasks created after boot

ASSUME CountAssumption == MAX_CPU_COUNT \in Nat /\ CpuCount \in 1..MAX_CPU_COUNT

VARIABLES main,     \* what each CPU does next
          released, \* CPUs whose goto_address is set
          enabled,  \* cpus_enabled_count
          cpus,     \* CPUS: online, queue initialised, idle task, queue length
          lock,     \* holder of task_manager.lock, or Nobody
          manager,  \* task_id_count and the list of task identifiers
          local     \* a CPU's locals: tid, next index, best CPU and count, quiet

vars == <<main, released, enabled, cpus, lock, manager, local>>

Cpus == 0..CpuCount - 1
Slots == 0..MAX_CPU_COUNT - 1
Nobody == -1

Locals == [tid |-> 0, next |-> 0, best |-> Nobody, count |-> 0, quiet |-> TRUE]

(* The state after task_manager_init and the store to the boot CPU's       *)
(* online.  CPUS is zero until a CPU fills its own element.                *)
Init ==
    /\ main = [c \in Cpus |-> IF c = 0 THEN "wake" ELSE "parked"]
    /\ released = {}
    /\ enabled = 1
    /\ cpus = [s \in Slots |-> [online |-> s = 0, ready |-> FALSE, idle |-> 0, count |-> 0]]
    /\ lock = Nobody
    /\ manager = [task_id_count |-> 1, tasks |-> <<>>]
    /\ local = [c \in Cpus |-> Locals]

Goto(c, from, to) == main[c] = from /\ main' = [main EXCEPT ![c] = to]

-----------------------------------------------------------------------------
(* Variant: the loop over the CPUs ends one early. *)
WakeAllButLast ==
    LET c == local[0].next + 1
    IN  /\ main[0] = "wake"
        /\ IF c + 1 \in Cpus
           THEN /\ released' = released \cup {c}
                /\ local' = [local EXCEPT ![0].next = c]
                /\ UNCHANGED main
           ELSE /\ main' = [main EXCEPT ![0] = "queue"]
                /\ UNCHANGED <<released, local>>
        /\ UNCHANGED <<enabled, cpus, lock, manager>>

wake_secondary_cpu ==
    LET c == local[0].next + 1
    IN  /\ main[0] = "wake"
        /\ IF c \in Cpus
           THEN /\ released' = released \cup {c}
                /\ local' = [local EXCEPT ![0].next = c]
                /\ UNCHANGED main
           ELSE /\ main' = [main EXCEPT ![0] = "queue"]
                /\ UNCHANGED <<released, local>>
        /\ UNCHANGED <<enabled, cpus, lock, manager>>

(* init_secondary_cpu up to its tasks.  Nothing it does here is shared.    *)
init_secondary_cpu(c) ==
    /\ c \in released
    /\ Goto(c, "parked", "queue")
    /\ UNCHANGED <<released, enabled, cpus, lock, manager, local>>

(* The two ends of common_cpu_init_tasks, around the creation of idle. *)
common_cpu_init_tasks(c) ==
    \/ /\ Goto(c, "queue", "create")
       /\ cpus' = [cpus EXCEPT ![c].ready = TRUE]
       /\ UNCHANGED <<released, enabled, lock, manager, local>>
    \/ /\ Goto(c, "online", IF c = 0 THEN "wait" ELSE "enable")
       /\ cpus' = [cpus EXCEPT ![c].idle = local[c].tid, ![c].online = TRUE]
       /\ UNCHANGED <<released, enabled, lock, manager, local>>

(* Variant: nothing keeps two creators apart. *)
AcquireNothing(c) ==
    /\ Goto(c, "create", "read tid")
    /\ UNCHANGED <<released, enabled, cpus, lock, manager, local>>

spinlock_acquire(c) ==
    /\ lock = Nobody
    /\ Goto(c, "create", "read tid")
    /\ lock' = c
    /\ UNCHANGED <<released, enabled, cpus, manager, local>>

(* tid = task_id_count++, then the link, then the scope ends. *)
task_manager_create_with_cpu(c) ==
    \/ /\ Goto(c, "read tid", "write tid")
       /\ local' = [local EXCEPT ![c].tid = manager.task_id_count]
       /\ UNCHANGED <<released, enabled, cpus, lock, manager>>
    \/ /\ Goto(c, "write tid", "insert")
       /\ manager' = [manager EXCEPT !.task_id_count = local[c].tid + 1]
       /\ UNCHANGED <<released, enabled, cpus, lock, local>>
    \/ /\ Goto(c, "insert", IF cpus[c].idle = 0 THEN "online" ELSE "enqueue")
       /\ manager' = [manager EXCEPT !.tasks = Append(@, local[c].tid)]
       /\ lock' = Nobody
       /\ UNCHANGED <<released, enabled, cpus, local>>

atomic_fetch_add(c) ==
    /\ Goto(c, "enable", "run")
    /\ enabled' = enabled + 1
    /\ UNCHANGED <<released, cpus, lock, manager, local>>

(* Variant: the boot CPU does not wait for the last one. *)
WaitForAllButOne ==
    /\ enabled + 1 >= CpuCount
    /\ Goto(0, "wait", "run")
    /\ UNCHANGED <<released, enabled, cpus, lock, manager, local>>

wait_for_cpus ==
    /\ CpuCount = enabled
    /\ Goto(0, "wait", "run")
    /\ UNCHANGED <<released, enabled, cpus, lock, manager, local>>

-----------------------------------------------------------------------------
(* Tasks after boot.  A change of any queue ends the quiet of every pick   *)
(* in progress.                                                            *)

Disturb(c) == [d \in Cpus |-> IF d # c /\ main[d] = "pick" THEN [local[d] EXCEPT !.quiet = FALSE]
                              ELSE local[d]]

task_manager_create(c) ==
    /\ main[0] = "run"
    /\ Len(manager.tasks) < CpuCount + MaxTasks
    /\ Goto(c, "run", "pick")
    /\ local' = [local EXCEPT ![c] = Locals]
    /\ UNCHANGED <<released, enabled, cpus, lock, manager>>

(* Variant: the best count is not remembered. *)
PickLast(c) ==
    LET s == local[c].next
        better == s \in Slots /\ cpus[s].online
    IN  /\ main[c] = "pick"
        /\ main' = [main EXCEPT ![c] = IF s \in Slots THEN "pick" ELSE "create"]
        /\ local' = [local EXCEPT ![c].next = s + 1, ![c].best = IF better THEN s ELSE @]
        /\ UNCHANGED <<released, enabled, cpus, lock, manager>>

(* One element of CPUS at a time.  No queue has the INT64_MAX tasks that   *)
(* best_count starts from: the first CPU online is better than none.       *)
scheduler_pick_cpu(c) ==
    LET s == local[c].next
        better == /\ s \in Slots /\ cpus[s].online
                  /\ local[c].best = Nobody \/ cpus[s].count < local[c].count
    IN  /\ main[c] = "pick"
        /\ main' = [main EXCEPT ![c] = IF s \in Slots THEN "pick" ELSE "create"]
        /\ local' = [local EXCEPT ![c].next = s + 1, ![c].best = IF better THEN s ELSE @,
                                  ![c].count = IF better THEN cpus[s].count ELSE @]
        /\ UNCHANGED <<released, enabled, cpus, lock, manager>>

(* The new task joins the queue of the CPU that was picked. *)
scheduler_enqueue(c) ==
    /\ Goto(c, "enqueue", "run")
    /\ cpus' = [cpus EXCEPT ![local[c].best].count = @ + 1]
    /\ local' = Disturb(c)
    /\ UNCHANGED <<released, enabled, lock, manager>>

(* A CPU takes a task from its own queue. *)
scheduler_switch(c) ==
    /\ main[c] = "run"
    /\ cpus[c].count > 0
    /\ cpus' = [cpus EXCEPT ![c].count = @ - 1]
    /\ local' = Disturb(c)
    /\ UNCHANGED <<main, released, enabled, lock, manager>>

Bringup(c) ==
    \/ c = 0 /\ (wake_secondary_cpu \/ wait_for_cpus)
    \/ c # 0 /\ init_secondary_cpu(c)
    \/ common_cpu_init_tasks(c)
    \/ spinlock_acquire(c)
    \/ task_manager_create_with_cpu(c)
    \/ atomic_fetch_add(c)

Next ==
    \E c \in Cpus :
        \/ Bringup(c)
        \/ task_manager_create(c)
        \/ scheduler_pick_cpu(c)
        \/ scheduler_enqueue(c)
        \/ scheduler_switch(c)

Spec == Init /\ [][Next]_vars

(* Released CPUs execute.  The lock admits each waiting CPU in the end:    *)
(* few CPUs create few tasks, and each holds the lock for three steps.     *)
FairSpec == Spec /\ \A c \in Cpus : WF_vars(Bringup(c)) /\ SF_vars(spinlock_acquire(c))

-----------------------------------------------------------------------------
TypeOK ==
    /\ enabled \in 1..CpuCount
    /\ \A c \in Cpus : local[c].next \in 0..MAX_CPU_COUNT + 1
    /\ \A s \in Slots : cpus[s].count \in Nat
    /\ (lock = Nobody) = \A c \in Cpus : main[c] \notin {"read tid", "write tid", "insert"}

(* When the boot CPU goes on, every CPU is online, with its queue and its  *)
(* idle task in place, on whatever path the CPUs got there.                *)
AllReadyAfterWait ==
    main[0] \in {"run", "pick"} =>
        \A c \in Cpus : cpus[c].online /\ cpus[c].ready /\ cpus[c].idle # 0

(* Two tasks never get the same identifier, and the manager's list holds   *)
(* each task created, in the order of identifiers.                         *)
IdentifiersUnique ==
    \A i \in 1..Len(manager.tasks) : manager.tasks[i] = i

(* The idle tasks of two CPUs are two tasks. *)
IdlePerCpu ==
    \A c, d \in Cpus : c # d /\ cpus[c].idle # 0 => cpus[c].idle # cpus[d].idle

(* "no cpu was picked" and "cpu is null": scheduler_pick_cpu returns a CPU *)
(* whose queue is initialised; and the one with the shortest queue if no   *)
(* queue changed while it read their lengths, one after the other.         *)
PicksLeast ==
    [][ \A c \in Cpus : main[c] = "pick" /\ main'[c] = "create" =>
          /\ local'[c].best \in Cpus /\ cpus[local'[c].best].ready
          /\ local[c].quiet =>
                 \A d \in Cpus : cpus[local'[c].best].count <= cpus[d].count ]_vars

(* Boot completes: the boot CPU gets past its wait. *)
BootCompletes == <>(main[0] = "run")
=============================================================================
