----------------------------- MODULE BootProofs -----------------------------
(* Proofs about modules Boot and Devices: the CPUs and tasks, and the      *)
(* devices, that kernel_main brings up.  For any number of CPUs and tasks  *)
(* and any device tree.                                                    *)
EXTENDS Boot, Devices, FiniteSetTheorems, TLAPS

Places == {"wake", "parked", "queue", "create", "read tid", "write tid", "insert",
           "online", "enable", "wait", "run", "pick", "enqueue"}

CpuType == [online : BOOLEAN, ready : BOOLEAN, idle : Nat, count : Int]
LocalType == [tid : Nat, next : Int, best : Int, count : Int, quiet : BOOLEAN]

(* The fields the invariant speaks of have their types. *)
Types ==
    /\ main \in [Cpus -> Places]
    /\ enabled \in Nat
    /\ cpus \in [Slots -> CpuType]
    /\ lock \in Cpus \cup {Nobody}
    /\ manager \in [task_id_count : Nat, tasks : Seq(Nat)]
    /\ local \in [Cpus -> LocalType]

(* task_manager.lock is held by the CPU inside the three steps. *)
Locked ==
    \A c \in Cpus : main[c] \in {"read tid", "write tid", "insert"} <=> lock = c

Listed == Len(manager.tasks)

(* The counter is one ahead of the list, two between its store and the     *)
(* link, and the identifier read is the next of the list.                  *)
Counter ==
    /\ \A c \in Cpus : main[c] = "write tid" => local[c].tid = Listed + 1
    /\ \A c \in Cpus : main[c] = "insert" =>
           local[c].tid = Listed + 1 /\ manager.task_id_count = Listed + 2
    /\ (\A c \in Cpus : main[c] # "insert") => manager.task_id_count = Listed + 1

(* An idle task is recorded after it is listed, by the CPU that made it;   *)
(* until then nobody else has its identifier.                              *)
Idle ==
    \A c \in Cpus :
        /\ cpus[c].idle <= Listed
        /\ main[c] = "online" => local[c].tid \in 1..Listed /\ cpus[c].idle = 0
        /\ \A d \in Cpus \ {c} :
               /\ main[c] = "online" => cpus[d].idle # local[c].tid
               /\ main[c] = "online" /\ main[d] = "online" => local[c].tid # local[d].tid
               /\ cpus[c].idle # 0 => cpus[c].idle # cpus[d].idle

(* Where a CPU is says which of its parts are in place. *)
Progress ==
    \A c \in Cpus :
        /\ main[c] \in {"wake", "wait"} => c = 0
        /\ main[c] \in {"parked", "enable"} => c # 0
        /\ main[c] \notin {"wake", "parked", "queue"} => cpus[c].ready
        /\ main[c] \in {"wake", "parked", "queue", "online"} => cpus[c].idle = 0
        /\ main[c] \in {"enable", "wait", "run", "pick", "enqueue"} => cpus[c].idle # 0
        /\ cpus[c].idle # 0 => cpus[c].online

(* The secondary CPUs that have added one to cpus_enabled_count. *)
Reported == {c \in Cpus \ {0} : cpus[c].idle # 0 /\ main[c] # "enable"}

Counted == enabled = 1 + Cardinality(Reported)

(* Past its wait the boot CPU knows that all CPUs have their idle task. *)
Waited == cpus[0].idle # 0 /\ main[0] # "wait" => \A c \in Cpus : cpus[c].idle # 0

(* What a CPU in the middle of scheduler_pick_cpu knows: all CPUs are up,  *)
(* it has picked one as soon as it looked at one, and unless a queue       *)
(* changed that one has the shortest queue of those it looked at.          *)
Picks(c) ==
    /\ \A d \in Cpus : cpus[d].idle # 0
    /\ local[c].next \in Nat
    /\ IF local[c].next = 0 THEN local[c].best = Nobody ELSE local[c].best \in Cpus
    /\ local[c].next > 0 /\ local[c].quiet =>
          /\ local[c].count = cpus[local[c].best].count
          /\ \A d \in Cpus : d < local[c].next => local[c].count <= cpus[d].count

(* Elements of CPUS without a CPU never look online. *)
Picking ==
    /\ \A s \in Slots \ Cpus : ~cpus[s].online
    /\ \A c \in Cpus : main[c] = "pick" => Picks(c)

Inv ==
    /\ Types /\ Locked /\ IdentifiersUnique /\ Counter
    /\ Idle /\ Progress /\ Counted /\ Waited

-----------------------------------------------------------------------------
USE DEF Nobody

(* The CPUs are numbered from 0 and each has an element of CPUS. *)
LEMMA CpuFacts ==
    0 \in Cpus /\ Cpus \subseteq Slots /\ Cpus \subseteq Nat /\ Nobody \notin Cpus
  BY CountAssumption DEF Cpus, Slots

(* The secondary CPUs, and those of them that reported, can be counted. *)
LEMMA Countable ==
    /\ IsFiniteSet(Cpus \ {0}) /\ Cardinality(Cpus \ {0}) = CpuCount - 1
    /\ IsFiniteSet(Reported) /\ Cardinality(Reported) \in Nat
  <1>1. IsFiniteSet(Cpus) /\ Cardinality(Cpus) = CpuCount
    BY CountAssumption, FS_Interval DEF Cpus
  <1>2. IsFiniteSet(Cpus \ {0}) /\ Cardinality(Cpus \ {0}) = CpuCount - 1
    BY <1>1, CpuFacts, FS_RemoveElement
  <1>3. Reported \in SUBSET (Cpus \ {0})
    BY DEF Reported
  <1> QED
    BY <1>2, <1>3, FS_Subset, FS_CardinalityType

(* The state in which kernel_main starts the other CPUs satisfies Inv. *)
LEMMA InitInv == Init => Inv
  <1> SUFFICES ASSUME Init PROVE Inv
    OBVIOUS
  <1> USE CpuFacts
  <1>1. Types
    BY DEF Init, Types, CpuType, LocalType, Places, Locals
  <1>2. Locked /\ IdentifiersUnique /\ Counter
    BY DEF Init, Locked, IdentifiersUnique, Counter, Listed
  <1>3. Idle /\ Progress /\ Waited
    BY DEF Init, Idle, Progress, Waited, Listed
  <1>4. Counted
    <2>1. Reported = {}
      BY DEF Init, Reported
    <2> QED
      BY <2>1, FS_EmptySet DEF Counted, Init
  <1> QED
    BY <1>1, <1>2, <1>3, <1>4 DEF Inv

-----------------------------------------------------------------------------
(* Steps that leave the tasks and everybody's progress alone: the wake-up  *)
(* loop, a secondary CPU that starts, the reading of queue lengths.        *)

(* The set of CPUs that reported depends on main and cpus only. *)
LEMMA SameReported ==
    ASSUME Counted, enabled' = enabled, Reported' = Reported
    PROVE  Counted'
  BY DEF Counted

(* The facts about idle tasks depend on these only. *)
LEMMA SameIdle ==
    ASSUME Idle, Listed' = Listed,
           \A d \in Cpus : cpus'[d].idle = cpus[d].idle,
           \A d \in Cpus : main'[d] = "online" =>
                             main[d] = "online" /\ local'[d].tid = local[d].tid
    PROVE  Idle'
  <1> SUFFICES ASSUME NEW d \in Cpus PROVE Idle!(d)'
    BY DEF Idle
  <1> QED
    BY DEF Idle

(* Releasing a CPU, or going on to its own tasks, keeps Inv. *)
LEMMA WakeInv == ASSUME Inv, wake_secondary_cpu PROVE Inv'
  <1> USE CpuFacts DEF Inv
  <1>0. /\ main[0] = "wake"
        /\ main' = main \/ main' = [main EXCEPT ![0] = "queue"]
        /\ local' = local \/ local' = [local EXCEPT ![0].next = local[0].next + 1]
        /\ UNCHANGED <<enabled, cpus, lock, manager>>
    BY DEF wake_secondary_cpu
  <1>1. local' \in [Cpus -> LocalType] /\ \A d \in Cpus : local'[d].tid = local[d].tid
    <2>1. CASE local' = local
      BY <2>1 DEF Types
    <2>2. CASE local' = [local EXCEPT ![0].next = local[0].next + 1]
      <3>1. local \in [Cpus -> LocalType] /\ local[0] \in LocalType
        BY DEF Types
      <3>2. local[0].next + 1 \in Int
        BY <3>1 DEF LocalType
      <3>3. [local[0] EXCEPT !.next = local[0].next + 1] \in LocalType
        BY <3>1, <3>2 DEF LocalType
      <3>4. [local[0] EXCEPT !.next = local[0].next + 1].tid = local[0].tid
        BY <3>1 DEF LocalType
      <3> QED
        BY <2>2, <3>1, <3>3, <3>4
    <2> QED
      BY <1>0, <2>1, <2>2
  <1>2. Types'
    BY <1>0, <1>1 DEF Types, Places
  <1>3. Locked' /\ IdentifiersUnique' /\ Counter'
    BY <1>0, <1>1 DEF Types, Locked, IdentifiersUnique, Counter, Listed
  <1>4. Idle'
    BY <1>0, <1>1 DEF Types, Idle, Listed
  <1>5. Progress' /\ Waited'
    BY <1>0 DEF Types, Progress, Waited
  <1>6. Counted'
    BY <1>0, SameReported DEF Types, Reported
  <1> QED
    BY <1>2, <1>3, <1>4, <1>5, <1>6

(* A released CPU that enters init_secondary_cpu keeps Inv. *)
LEMMA StartInv == ASSUME Inv, NEW c \in Cpus, c # 0, init_secondary_cpu(c) PROVE Inv'
  <1> USE CpuFacts DEF init_secondary_cpu, Goto, Inv
  <1>1. Types'
    BY DEF Types, Places
  <1>2. Locked' /\ IdentifiersUnique' /\ Counter'
    BY DEF Types, Locked, IdentifiersUnique, Counter, Listed
  <1>3. Idle'
    BY DEF Types, Idle, Listed
  <1>5. Progress' /\ Waited'
    BY DEF Types, Progress, Waited
  <1>4. Counted'
    BY SameReported DEF Types, Reported, Progress
  <1> QED
    BY <1>1, <1>2, <1>3, <1>4, <1>5

(* Initialising the run queue keeps Inv. *)
LEMMA QueueInv ==
    ASSUME Inv, NEW c \in Cpus, Goto(c, "queue", "create"),
           cpus' = [cpus EXCEPT ![c].ready = TRUE],
           UNCHANGED <<released, enabled, lock, manager, local>>
    PROVE  Inv'
  <1> USE CpuFacts DEF Inv
  <1>0. /\ cpus' \in [Slots -> CpuType]
        /\ cpus'[c].ready
        /\ \A d \in Cpus : /\ cpus'[d].idle = cpus[d].idle
                           /\ cpus'[d].online = cpus[d].online
                           /\ d # c => cpus'[d] = cpus[d]
    BY DEF Types, CpuType
  <1>1. main[c] = "queue" /\ main' = [main EXCEPT ![c] = "create"]
    BY DEF Goto
  <1> HIDE DEF Inv
  <1>2. Types'
    BY <1>0, <1>1 DEF Inv, Types, Places
  <1>3. Locked' /\ IdentifiersUnique' /\ Counter'
    BY <1>1 DEF Inv, Types, Locked, IdentifiersUnique, Counter, Listed
  <1>4. Idle'
    BY <1>0, <1>1 DEF Inv, Types, Idle, Listed
  <1>5. Progress'
    BY <1>0, <1>1 DEF Inv, Types, Progress
  <1>6. Waited'
    BY <1>0, <1>1 DEF Inv, Types, Waited, Progress
  <1>7. Counted'
    BY <1>0, <1>1, SameReported DEF Inv, Types, Reported
  <1> QED
    BY <1>2, <1>3, <1>4, <1>5, <1>6, <1>7 DEF Inv

(* Recording the idle task keeps Inv: nobody else has its identifier. *)
LEMMA OnlineInv ==
    ASSUME Inv, NEW c \in Cpus, Goto(c, "online", IF c = 0 THEN "wait" ELSE "enable"),
           cpus' = [cpus EXCEPT ![c].idle = local[c].tid, ![c].online = TRUE],
           UNCHANGED <<released, enabled, lock, manager, local>>
    PROVE  Inv'
  <1> USE CpuFacts
  <1>0. /\ cpus' \in [Slots -> CpuType]
        /\ cpus'[c].idle = local[c].tid /\ cpus'[c].online /\ cpus'[c].ready = cpus[c].ready
        /\ \A d \in Cpus : d # c => cpus'[d] = cpus[d]
    BY DEF Inv, Types, CpuType, LocalType
  <1>1. main[c] = "online" /\ main' = [main EXCEPT ![c] = IF c = 0 THEN "wait" ELSE "enable"]
    BY DEF Goto
  <1>2. Types'
    BY <1>0, <1>1 DEF Inv, Types, Places
  <1>3. Locked' /\ IdentifiersUnique' /\ Counter'
    BY <1>1 DEF Inv, Types, Locked, IdentifiersUnique, Counter, Listed
  <1>8. local[c].tid \in 1..Listed /\ local[c].tid # 0 /\ cpus[c].idle = 0
    BY <1>1 DEF Inv, Types, Idle, Listed
  <1>9. \A d \in Cpus \ {c} : /\ cpus[d].idle # local[c].tid
                              /\ main[d] = "online" => local[d].tid # local[c].tid
    BY <1>1 DEF Inv, Idle
  <1>4. Idle'
    <2> SUFFICES ASSUME NEW d \in Cpus PROVE Idle!(d)'
      BY DEF Idle
    <2>1. CASE d = c
      BY <1>0, <1>1, <1>8, <1>9, <2>1 DEF Inv, Types, Listed
    <2>2. CASE d # c
      BY <1>0, <1>1, <1>8, <1>9, <2>2, SMTT(30) DEF Inv, Types, Idle, Listed
    <2> QED
      BY <2>1, <2>2
  <1>5. Progress'
    BY <1>0, <1>1, <1>8 DEF Inv, Types, Progress
  <1>6. Waited'
    BY <1>0, <1>1 DEF Inv, Types, Waited, Progress, Idle
  <1>7. Counted'
    BY <1>0, <1>1, SameReported DEF Inv, Types, Reported, Progress
  <1> QED
    BY <1>2, <1>3, <1>4, <1>5, <1>6, <1>7 DEF Inv

(* Taking task_manager.lock keeps Inv. *)
LEMMA AcquireInv == ASSUME Inv, NEW c \in Cpus, spinlock_acquire(c) PROVE Inv'
  <1> USE CpuFacts DEF spinlock_acquire, Goto, Inv
  <1>1. Types'
    BY DEF Types, Places
  <1>2. Locked' /\ IdentifiersUnique' /\ Counter'
    BY DEF Types, Locked, IdentifiersUnique, Counter, Listed
  <1>3. Idle'
    BY DEF Types, Idle, Listed
  <1>5. Progress' /\ Waited'
    BY DEF Types, Progress, Waited
  <1>4. Counted'
    BY SameReported DEF Types, Reported, Progress
  <1> QED
    BY <1>1, <1>2, <1>3, <1>4, <1>5

-----------------------------------------------------------------------------
(* The three steps under task_manager.lock. *)

(* Arithmetic of the counter. *)
LEMMA Successor == \A n \in Nat : n + 1 \in Nat /\ (n + 1) + 1 = n + 2
  OBVIOUS

(* The numbers the three steps work with are natural numbers. *)
LEMMA NumberTypes ==
    ASSUME Types, NEW c \in Cpus
    PROVE  /\ local[c].tid \in Nat /\ manager.task_id_count \in Nat
           /\ manager.tasks \in Seq(Nat) /\ Listed \in Nat /\ cpus[c].idle \in Nat
  <1>1. local[c].tid \in Nat
    BY DEF Types, LocalType
  <1>2. cpus[c].idle \in Nat
    BY CpuFacts DEF Types, CpuType
  <1>3. manager.task_id_count \in Nat /\ manager.tasks \in Seq(Nat)
    BY DEF Types
  <1> QED
    BY <1>1, <1>2, <1>3 DEF Listed

(* Reading the counter keeps Inv. *)
LEMMA ReadTidInv ==
    ASSUME Inv, NEW c \in Cpus, Goto(c, "read tid", "write tid"),
           local' = [local EXCEPT ![c].tid = manager.task_id_count],
           UNCHANGED <<released, enabled, cpus, lock, manager>>
    PROVE  Inv'
  <1> USE CpuFacts
  <1>0. /\ local' \in [Cpus -> LocalType]
        /\ local'[c].tid = manager.task_id_count
        /\ \A d \in Cpus : d # c => local'[d] = local[d]
    BY DEF Inv, Types, LocalType
  <1>1. main[c] = "read tid" /\ main' = [main EXCEPT ![c] = "write tid"]
    BY DEF Goto
  <1>2. Types'
    BY <1>0, <1>1 DEF Inv, Types, Places
  <1>3. \A d \in Cpus : main[d] # "insert"
    BY <1>1 DEF Inv, Locked
  <1>4. Locked' /\ IdentifiersUnique'
    BY <1>1 DEF Inv, Types, Locked, IdentifiersUnique
  <1>5. Counter'
    BY <1>0, <1>1, <1>3 DEF Inv, Types, Counter, Listed
  <1>6. Idle'
    <2>1. \A d \in Cpus : main'[d] = "online" =>
              main[d] = "online" /\ local'[d].tid = local[d].tid
      BY <1>0, <1>1 DEF Inv, Types
    <2> QED
      BY <2>1, SameIdle DEF Inv, Listed
  <1>7. Progress' /\ Waited'
    BY <1>1 DEF Inv, Types, Progress, Waited
  <1>8. Counted'
    BY <1>1, SameReported DEF Inv, Types, Reported
  <1> QED
    BY <1>2, <1>4, <1>5, <1>6, <1>7, <1>8 DEF Inv

(* Storing its successor keeps Inv. *)
LEMMA WriteTidInv ==
    ASSUME Inv, NEW c \in Cpus, Goto(c, "write tid", "insert"),
           manager' = [manager EXCEPT !.task_id_count = local[c].tid + 1],
           UNCHANGED <<released, enabled, cpus, lock, local>>
    PROVE  Inv'
  <1> USE CpuFacts
  <1>0. /\ manager'.task_id_count = local[c].tid + 1
        /\ manager'.tasks = manager.tasks
        /\ manager' \in [task_id_count : Nat, tasks : Seq(Nat)]
    <2>1. Types
      BY DEF Inv
    <2>2. local[c].tid \in Nat
      BY <2>1, NumberTypes
    <2>3. local[c].tid + 1 \in Nat
      BY <2>2, Successor, Zenon
    <2> QED
      BY <2>1, <2>3 DEF Types
  <1>1. main[c] = "write tid" /\ main' = [main EXCEPT ![c] = "insert"]
    BY DEF Goto
  <1>2. Types'
    BY <1>0, <1>1 DEF Inv, Types, Places
  <1>3. \A d \in Cpus \ {c} : main[d] \notin {"write tid", "insert"}
    BY <1>1 DEF Inv, Locked
  <1>4. Locked' /\ IdentifiersUnique'
    BY <1>0, <1>1 DEF Inv, Types, Locked, IdentifiersUnique
  <1>5. Counter'
    <2>1. local[c].tid = Listed + 1 /\ Listed' = Listed
      BY <1>0, <1>1 DEF Inv, Counter, Listed
    <2>2. manager'.task_id_count = Listed + 2
      <3>1. Listed \in Nat
        BY NumberTypes DEF Inv
      <3>2. (Listed + 1) + 1 = Listed + 2
        BY <3>1, Successor, Zenon
      <3> QED
        BY <1>0, <2>1, <3>2, Zenon
    <2> QED
      BY <1>1, <1>3, <2>1, <2>2 DEF Inv, Types, Counter
  <1>6. Idle'
    BY <1>0, <1>1 DEF Inv, Types, Idle, Listed
  <1>7. Progress' /\ Waited'
    BY <1>1 DEF Inv, Types, Progress, Waited
  <1>8. Counted'
    BY <1>1, SameReported DEF Inv, Types, Reported
  <1> QED
    BY <1>2, <1>4, <1>5, <1>6, <1>7, <1>8 DEF Inv

(* Linking the task and releasing the lock keep Inv: its identifier is the *)
(* next of the list, so no idle task and no other new task has it.         *)
LEMMA InsertInv ==
    ASSUME Inv, NEW c \in Cpus,
           Goto(c, "insert", IF cpus[c].idle = 0 THEN "online" ELSE "enqueue"),
           manager' = [manager EXCEPT !.tasks = Append(@, local[c].tid)],
           lock' = Nobody,
           UNCHANGED <<released, enabled, cpus, local>>
    PROVE  Inv'
  <1> USE CpuFacts
  <1> DEFINE to == IF cpus[c].idle = 0 THEN "online" ELSE "enqueue"
  <1>0. main[c] = "insert" /\ main' = [main EXCEPT ![c] = to] /\ to \in {"online", "enqueue"}
    BY DEF Goto
  <1>1. local[c].tid = Listed + 1 /\ manager.task_id_count = Listed + 2 /\ Listed \in Nat
    BY <1>0, NumberTypes DEF Inv, Counter
  <1>2. /\ manager'.task_id_count = manager.task_id_count
        /\ manager'.tasks = Append(manager.tasks, local[c].tid)
        /\ manager' \in [task_id_count : Nat, tasks : Seq(Nat)]
    <2>1. /\ manager \in [task_id_count : Nat, tasks : Seq(Nat)]
          /\ Append(manager.tasks, local[c].tid) \in Seq(Nat)
      BY NumberTypes DEF Inv, Types
    <2> QED
      BY <2>1
  <1>3. Listed' = Listed + 1
    BY <1>2 DEF Inv, Types, Listed
  <1>4. \A d \in Cpus \ {c} : main[d] \notin {"read tid", "write tid", "insert"}
    BY <1>0 DEF Inv, Locked
  <1>5. Types'
    BY <1>0, <1>2 DEF Inv, Types, Places
  <1>6. Locked'
    BY <1>0, <1>4 DEF Inv, Types, Locked
  <1>7. IdentifiersUnique'
    BY <1>1, <1>2, <1>3 DEF Inv, Types, IdentifiersUnique, Listed
  <1>8. Counter'
    <2>1. manager'.task_id_count = Listed' + 1
      BY <1>1, <1>2, <1>3
    <2>2. \A d \in Cpus : main'[d] \notin {"write tid", "insert"}
      BY <1>0, <1>4 DEF Inv, Types
    <2> QED
      BY <2>1, <2>2 DEF Counter
  <1>9. Idle'
    <2> SUFFICES ASSUME NEW d \in Cpus PROVE Idle!(d)'
      BY DEF Idle
    <2>0. \A e \in Cpus : /\ cpus[e].idle \in Nat /\ cpus[e].idle <= Listed
                          /\ local[e].tid \in Nat
                          /\ main[e] = "online" => local[e].tid \in 1..Listed
      BY NumberTypes DEF Inv, Idle
    <2>3. /\ main'[c] = "online" => cpus[c].idle = 0
          /\ \A e \in Cpus : e # c => main'[e] = main[e]
      BY <1>0 DEF Inv, Types
    <2>4. Idle
      BY DEF Inv
    <2>1. CASE d = c
      BY <1>1, <1>3, <2>0, <2>1, <2>3, <2>4 DEF Idle
    <2>2. CASE d # c
      <3>1. cpus'[d].idle <= Listed'
        BY <1>1, <1>3, <2>0
      <3>2. main'[d] = "online" => local'[d].tid \in 1..Listed' /\ cpus'[d].idle = 0
        BY <1>1, <1>3, <2>0, <2>2, <2>3, <2>4 DEF Idle
      <3>3. ASSUME NEW e \in Cpus \ {d}
            PROVE  /\ main'[d] = "online" => cpus'[e].idle # local'[d].tid
                   /\ main'[d] = "online" /\ main'[e] = "online" =>
                          local'[d].tid # local'[e].tid
                   /\ cpus'[d].idle # 0 => cpus'[d].idle # cpus'[e].idle
        <4>1. CASE e = c
          BY <1>1, <2>0, <2>2, <2>3, <2>4, <4>1 DEF Idle
        <4>2. CASE e # c
          BY <2>2, <2>3, <2>4, <4>2 DEF Idle
        <4> QED
          BY <4>1, <4>2
      <3> QED
        BY <3>1, <3>2, <3>3
    <2> QED
      BY <2>1, <2>2
  <1>10. Progress'
    BY <1>0 DEF Inv, Types, Progress
  <1>11. Waited'
    BY <1>0 DEF Inv, Types, Waited
  <1>12. Counted'
    BY <1>0, SameReported DEF Inv, Types, Reported
  <1> QED
    BY <1>5, <1>6, <1>7, <1>8, <1>9, <1>10, <1>11, <1>12 DEF Inv

-----------------------------------------------------------------------------
(* Reporting and waiting. *)

(* A CPU that adds one to cpus_enabled_count had not done so before. *)
LEMMA ReportInv == ASSUME Inv, NEW c \in Cpus, atomic_fetch_add(c) PROVE Inv'
  <1> USE CpuFacts
  <1>0. /\ main[c] = "enable" /\ main' = [main EXCEPT ![c] = "run"]
        /\ enabled' = enabled + 1
        /\ UNCHANGED <<cpus, lock, manager, local>>
    BY DEF atomic_fetch_add, Goto
  <1>1. c # 0 /\ cpus[c].idle # 0
    BY <1>0 DEF Inv, Progress
  <1>2. Types'
    <2>1. enabled' \in Nat
      BY <1>0 DEF Inv, Types
    <2>2. main' \in [Cpus -> Places]
      BY <1>0 DEF Inv, Types, Places
    <2> QED
      BY <1>0, <2>1, <2>2 DEF Inv, Types
  <1>3. Locked' /\ IdentifiersUnique' /\ Counter'
    BY <1>0 DEF Inv, Types, Locked, IdentifiersUnique, Counter, Listed
  <1>4. Idle'
    BY <1>0 DEF Inv, Types, Idle, Listed
  <1>5. Progress' /\ Waited'
    BY <1>0, <1>1 DEF Inv, Types, Progress, Waited
  <1>6. Counted'
    <2>1. c \notin Reported /\ Reported' = Reported \cup {c}
      BY <1>0, <1>1 DEF Inv, Types, Reported
    <2>2. Cardinality(Reported') = Cardinality(Reported) + 1
      BY <2>1, Countable, FS_AddElement
    <2> QED
      BY <1>0, <2>2, Countable DEF Inv, Counted
  <1> QED
    BY <1>2, <1>3, <1>4, <1>5, <1>6 DEF Inv

(* The boot CPU leaves its wait when every secondary CPU has reported. *)
LEMMA WaitInv == ASSUME Inv, wait_for_cpus PROVE Inv'
  <1> USE CpuFacts
  <1>0. /\ main[0] = "wait" /\ main' = [main EXCEPT ![0] = "run"]
        /\ CpuCount = enabled
        /\ UNCHANGED <<enabled, cpus, lock, manager, local>>
    BY DEF wait_for_cpus, Goto
  <1>1. Reported = Cpus \ {0}
    <2>1. Cardinality(Reported) = CpuCount - 1
      BY <1>0, Countable, CountAssumption DEF Inv, Counted
    <2>2. Reported \in SUBSET (Cpus \ {0})
      BY DEF Reported
    <2> QED
      BY <2>1, <2>2, Countable, FS_Subset
  <1>2. \A c \in Cpus : cpus[c].idle # 0
    BY <1>0, <1>1 DEF Inv, Progress, Reported
  <1>3. Types'
    BY <1>0 DEF Inv, Types, Places
  <1>4. Locked' /\ IdentifiersUnique' /\ Counter'
    BY <1>0 DEF Inv, Types, Locked, IdentifiersUnique, Counter, Listed
  <1>5. Idle'
    BY <1>0 DEF Inv, Types, Idle, Listed
  <1>6. Progress' /\ Waited'
    BY <1>0, <1>2 DEF Inv, Types, Progress, Waited
  <1>7. Counted'
    BY <1>0, SameReported DEF Inv, Types, Reported
  <1> QED
    BY <1>3, <1>4, <1>5, <1>6, <1>7 DEF Inv

-----------------------------------------------------------------------------
(* Creating tasks after boot. *)

(* A step of one CPU among the places after boot, which changes no more    *)
(* than queue lengths and locals of a pick, keeps Inv.                     *)
LEMMA AfterBootInv ==
    ASSUME Inv, NEW c \in Cpus, NEW to \in {"run", "pick", "create"},
           main[c] \in {"run", "pick", "enqueue"},
           main' = [main EXCEPT ![c] = to],
           UNCHANGED <<enabled, lock, manager>>,
           cpus' \in [Slots -> CpuType],
           \A s \in Slots : /\ cpus'[s].online = cpus[s].online
                            /\ cpus'[s].ready = cpus[s].ready
                            /\ cpus'[s].idle = cpus[s].idle,
           local' \in [Cpus -> LocalType],
           \A d \in Cpus : d = c \/ local'[d].tid = local[d].tid
    PROVE  Inv'
  <1> USE CpuFacts
  <1>1. cpus[c].idle # 0
    BY DEF Inv, Progress
  <1>2. Types'
    BY DEF Inv, Types, Places
  <1>3. Locked' /\ IdentifiersUnique' /\ Counter'
    BY DEF Inv, Types, Locked, IdentifiersUnique, Counter, Listed
  <1>4. Idle'
    <2>1. \A d \in Cpus : cpus'[d].idle = cpus[d].idle
      OBVIOUS
    <2>2. \A d \in Cpus : main'[d] = "online" =>
              main[d] = "online" /\ local'[d].tid = local[d].tid
      BY DEF Inv, Types
    <2> QED
      BY <2>1, <2>2, SameIdle DEF Inv, Listed
  <1>5. Progress'
    BY <1>1 DEF Inv, Types, Progress
  <1>6. Waited'
    BY <1>1 DEF Inv, Types, Waited
  <1>7. Counted'
    BY <1>1, SameReported DEF Inv, Types, Reported
  <1> QED
    BY <1>2, <1>3, <1>4, <1>5, <1>6, <1>7 DEF Inv

(* task_manager_create keeps Inv. *)
LEMMA CreateInv == ASSUME Inv, NEW c \in Cpus, task_manager_create(c) PROVE Inv'
  <1>1. /\ main[c] = "run" /\ main' = [main EXCEPT ![c] = "pick"]
        /\ local' = [local EXCEPT ![c] = Locals]
        /\ UNCHANGED <<enabled, cpus, lock, manager>>
    BY DEF task_manager_create, Goto
  <1>2. Locals \in LocalType
    BY DEF Locals, LocalType
  <1>3. local' \in [Cpus -> LocalType] /\ \A d \in Cpus : d = c \/ local'[d] = local[d]
    BY <1>1, <1>2 DEF Inv, Types
  <1>4. cpus' \in [Slots -> CpuType]
    BY <1>1 DEF Inv, Types
  <1> QED
    BY <1>1, <1>3, <1>4, AfterBootInv

(* A step of scheduler_pick_cpu keeps Inv. *)
LEMMA PickInv == ASSUME Inv, NEW c \in Cpus, scheduler_pick_cpu(c) PROVE Inv'
  <1> DEFINE s == local[c].next
             to == IF s \in Slots THEN "pick" ELSE "create"
             better == /\ s \in Slots /\ cpus[s].online
                       /\ local[c].best = Nobody \/ cpus[s].count < local[c].count
             best == IF better THEN s ELSE local[c].best
             count == IF better THEN cpus[s].count ELSE local[c].count
  <1>1. /\ main[c] = "pick" /\ main' = [main EXCEPT ![c] = to]
        /\ local' = [local EXCEPT ![c].next = s + 1, ![c].best = best, ![c].count = count]
        /\ UNCHANGED <<enabled, cpus, lock, manager>>
    BY DEF scheduler_pick_cpu
  <1>2. to \in {"run", "pick", "create"}
    OBVIOUS
  <1>3. local \in [Cpus -> LocalType] /\ local[c] \in LocalType /\ cpus' \in [Slots -> CpuType]
    BY <1>1 DEF Inv, Types
  <1>4. s + 1 \in Int /\ best \in Int /\ count \in Int
    <2>1. s \in Int /\ local[c].best \in Int /\ local[c].count \in Int
      BY <1>3 DEF LocalType
    <2>2. s \in Slots => cpus[s].count \in Int
      BY DEF Inv, Types, CpuType
    <2> QED
      BY <2>1, <2>2
  <1> HIDE DEF s, to, better, best, count
  <1>5. [local[c] EXCEPT !.next = s + 1, !.best = best, !.count = count] \in LocalType
    BY <1>3, <1>4 DEF LocalType
  <1>6. local' \in [Cpus -> LocalType] /\ \A d \in Cpus : d = c \/ local'[d] = local[d]
    BY <1>1, <1>3, <1>5
  <1> QED
    BY <1>1, <1>2, <1>3, <1>6, AfterBootInv

(* The local variables of other CPUs after a queue changed. *)
LEMMA DisturbFacts ==
    ASSUME Inv, NEW c \in Cpus
    PROVE  /\ Disturb(c) \in [Cpus -> LocalType]
           /\ \A d \in Cpus : Disturb(c)[d].tid = local[d].tid
  <1>1. \A d \in Cpus : /\ local[d] \in LocalType
                        /\ [local[d] EXCEPT !.quiet = FALSE] \in LocalType
                        /\ [local[d] EXCEPT !.quiet = FALSE].tid = local[d].tid
    BY DEF Inv, Types, LocalType
  <1> QED
    BY <1>1 DEF Disturb

(* A changed queue length leaves the other fields of a CPU. *)
LEMMA CountFacts ==
    ASSUME Inv, NEW s, NEW n, s \in Slots => n \in Int,
           cpus' = [cpus EXCEPT ![s].count = n]
    PROVE  /\ cpus' \in [Slots -> CpuType]
           /\ \A t \in Slots : /\ cpus'[t].online = cpus[t].online
                               /\ cpus'[t].ready = cpus[t].ready
                               /\ cpus'[t].idle = cpus[t].idle
  <1>1. cpus \in [Slots -> CpuType] /\ \A t \in Slots : cpus[t] \in CpuType
    BY DEF Inv, Types
  <1>2. CASE s \in Slots
    BY <1>1, <1>2 DEF CpuType
  <1>3. CASE s \notin Slots
    BY <1>1, <1>3
  <1> QED
    BY <1>2, <1>3

(* Enqueueing the new task keeps Inv. *)
LEMMA EnqueueInv == ASSUME Inv, NEW c \in Cpus, scheduler_enqueue(c) PROVE Inv'
  <1>1. /\ main[c] = "enqueue" /\ main' = [main EXCEPT ![c] = "run"]
        /\ cpus' = [cpus EXCEPT ![local[c].best].count = cpus[local[c].best].count + 1]
        /\ local' = Disturb(c)
        /\ UNCHANGED <<enabled, lock, manager>>
    BY DEF scheduler_enqueue, Goto
  <1>2. local[c].best \in Slots => cpus[local[c].best].count + 1 \in Int
    <2>1. \A s \in Slots : cpus[s].count \in Int
      BY DEF Inv, Types, CpuType
    <2> QED
      BY <2>1
  <1>3. /\ cpus' \in [Slots -> CpuType]
        /\ \A t \in Slots : /\ cpus'[t].online = cpus[t].online
                            /\ cpus'[t].ready = cpus[t].ready
                            /\ cpus'[t].idle = cpus[t].idle
    BY <1>1, <1>2, CountFacts
  <1> QED
    BY <1>1, <1>3, DisturbFacts, AfterBootInv

(* Taking a task from the own queue keeps Inv. *)
LEMMA SwitchInv == ASSUME Inv, NEW c \in Cpus, scheduler_switch(c) PROVE Inv'
  <1>1. /\ main[c] = "run" /\ main' = main
        /\ cpus' = [cpus EXCEPT ![c].count = cpus[c].count - 1]
        /\ local' = Disturb(c)
        /\ UNCHANGED <<enabled, lock, manager>>
    BY DEF scheduler_switch
  <1>2. main' = [main EXCEPT ![c] = "run"]
    BY <1>1 DEF Inv, Types
  <1>3. cpus[c].count - 1 \in Int
    <2>1. \A s \in Slots : cpus[s].count \in Int
      BY DEF Inv, Types, CpuType
    <2> QED
      BY <2>1, CpuFacts
  <1>4. /\ cpus' \in [Slots -> CpuType]
        /\ \A t \in Slots : /\ cpus'[t].online = cpus[t].online
                            /\ cpus'[t].ready = cpus[t].ready
                            /\ cpus'[t].idle = cpus[t].idle
    BY <1>1, <1>3, CountFacts
  <1> QED
    BY <1>1, <1>2, <1>4, DisturbFacts, AfterBootInv

-----------------------------------------------------------------------------
(* Inv holds throughout: bring-up of any number of CPUs, and the creation  *)
(* of tasks by all of them afterwards, preserve it step by step.           *)
THEOREM Invariance == Spec => []Inv
  <1>1. ASSUME Inv, [Next]_vars PROVE Inv'
    <2>1. CASE UNCHANGED vars
      <3>1. UNCHANGED <<main, released, enabled, cpus, lock, manager, local>>
        BY <2>1 DEF vars
      <3> QED
        BY <1>1, <3>1 DEF Inv, Types, Locked, IdentifiersUnique, Counter, Idle, Progress,
                          Counted, Reported, Waited, Listed
    <2>2. ASSUME NEW c \in Cpus, Bringup(c) PROVE Inv'
      <3>1. CASE c = 0 /\ (wake_secondary_cpu \/ wait_for_cpus)
        BY <1>1, <3>1, WakeInv, WaitInv
      <3>2. CASE c # 0 /\ init_secondary_cpu(c)
        BY <1>1, <3>2, StartInv
      <3>3. CASE common_cpu_init_tasks(c)
        BY <1>1, <3>3, QueueInv, OnlineInv DEF common_cpu_init_tasks
      <3>4. CASE spinlock_acquire(c)
        BY <1>1, <3>4, AcquireInv
      <3>5. CASE task_manager_create_with_cpu(c)
        BY <1>1, <3>5, ReadTidInv, WriteTidInv, InsertInv DEF task_manager_create_with_cpu
      <3>6. CASE atomic_fetch_add(c)
        BY <1>1, <3>6, ReportInv
      <3> QED
        BY <2>2, <3>1, <3>2, <3>3, <3>4, <3>5, <3>6 DEF Bringup
    <2> QED
      BY <1>1, <2>1, <2>2, CreateInv, PickInv, EnqueueInv, SwitchInv DEF Next
  <1> QED
    BY <1>1, InitInv, PTL DEF Spec

(* No two tasks get one identifier, whichever CPUs create them at the same *)
(* time: task_manager.lock covers the read, the store and the link.        *)
THEOREM UniqueIdentifiers == Spec => []IdentifiersUnique
  <1>1. Inv => IdentifiersUnique
    BY DEF Inv
  <1> QED
    BY <1>1, Invariance, PTL

(* The idle tasks of any two CPUs are two tasks, although the CPUs create  *)
(* them concurrently and record them after the lock is released.           *)
THEOREM SeparateIdle == Spec => []IdlePerCpu
  <1>1. Inv => IdlePerCpu
    BY DEF Inv, Idle, IdlePerCpu
  <1> QED
    BY <1>1, Invariance, PTL

(* When the boot CPU goes past wake_secondary_cpus_and_wait, every CPU has *)
(* its queue and its idle task and is online: cpus_enabled_count counts    *)
(* each secondary CPU once, after it finished.                             *)
THEOREM ReadyAfterWait == Spec => []AllReadyAfterWait
  <1>1. Inv => AllReadyAfterWait
    <2> SUFFICES ASSUME Inv, main[0] \in {"run", "pick"}, NEW c \in Cpus
                 PROVE  cpus[c].online /\ cpus[c].ready /\ cpus[c].idle # 0
      BY DEF AllReadyAfterWait
    <2>1. cpus[c].idle # 0
      BY CpuFacts DEF Inv, Waited, Progress
    <2> QED
      BY <2>1 DEF Inv, Progress
  <1> QED
    BY <1>1, Invariance, PTL

-----------------------------------------------------------------------------
(* A step that leaves queue lengths and the locals of picking CPUs alone   *)
(* does not disturb a pick.                                                *)
LEMMA KeepsPicking ==
    ASSUME Picking,
           \A d \in Cpus : main'[d] = "pick" => main[d] = "pick" /\ local'[d] = local[d],
           \A s \in Slots : cpus'[s].count = cpus[s].count,
           \A s \in Slots \ Cpus : cpus'[s].online = cpus[s].online,
           \A d \in Cpus : cpus[d].idle # 0 => cpus'[d].idle # 0
    PROVE  Picking'
  <1>1. ASSUME NEW c \in Cpus, main'[c] = "pick" PROVE Picks(c)'
    <2>1. Picks(c) /\ local'[c] = local[c] /\ Cpus \subseteq Slots
      BY <1>1, CpuFacts DEF Picking
    <2> QED
      BY <2>1 DEF Picks
  <1> QED
    BY <1>1 DEF Picking

(* A changed queue ends the quiet of every pick in progress, and leaves    *)
(* what the picks hold otherwise.                                          *)
LEMMA DisturbsPicking ==
    ASSUME Inv, Picking, NEW c \in Cpus, main[c] # "pick", main'[c] # "pick",
           \A d \in Cpus \ {c} : main'[d] = main[d],
           local' = Disturb(c),
           \A s \in Slots : cpus'[s].online = cpus[s].online /\ cpus'[s].idle = cpus[s].idle
    PROVE  Picking'
  <1>1. ASSUME NEW d \in Cpus, main'[d] = "pick" PROVE Picks(d)'
    <2>1. d # c /\ main[d] = "pick" /\ Picks(d) /\ Cpus \subseteq Slots
      BY <1>1, CpuFacts DEF Picking
    <2>2. local[d] \in LocalType /\ local'[d] = [local[d] EXCEPT !.quiet = FALSE]
      BY <2>1 DEF Disturb, Inv, Types
    <2>3. /\ ~local'[d].quiet /\ local'[d].next = local[d].next
          /\ local'[d].best = local[d].best
      BY <2>2 DEF LocalType
    <2> QED
      BY <2>1, <2>3 DEF Picks
  <1> QED
    BY <1>1 DEF Picking
(* The look at one element of CPUS keeps Picking, and the last one finds   *)
(* the CPU picked among those that are up.                                 *)
LEMMA LookPicking ==
    ASSUME Inv, Picking, NEW c \in Cpus, scheduler_pick_cpu(c)
    PROVE  /\ Picking'
           /\ main'[c] = "create" =>
                 /\ local'[c].best \in Cpus /\ cpus[local'[c].best].ready
                 /\ local[c].quiet =>
                        \A d \in Cpus : cpus[local'[c].best].count <= cpus[d].count
  <1> DEFINE s == local[c].next
             better == /\ s \in Slots /\ cpus[s].online
                       /\ local[c].best = Nobody \/ cpus[s].count < local[c].count
             best == IF better THEN s ELSE local[c].best
             count == IF better THEN cpus[s].count ELSE local[c].count
  <1>1. /\ main[c] = "pick" /\ cpus' = cpus
        /\ main' = [main EXCEPT ![c] = IF s \in Slots THEN "pick" ELSE "create"]
        /\ local' = [local EXCEPT ![c].next = s + 1, ![c].best = best, ![c].count = count]
    BY DEF scheduler_pick_cpu
  <1>2. Picks(c)
    BY <1>1 DEF Picking
  <1>3. /\ \A d \in Cpus : cpus[d].online /\ cpus[d].ready /\ cpus[d].count \in Int
        /\ \A t \in Slots : cpus[t].online => t \in Cpus
    <2>1. \A d \in Cpus : cpus[d].idle # 0
      BY <1>2, Zenon DEF Picks
    <2>2. \A d \in Cpus : cpus[d].online /\ cpus[d].ready
      <3>1. \A d \in Cpus : main[d] \notin {"wake", "parked", "queue"}
        BY <2>1 DEF Inv, Progress
      <3> QED
        BY <2>1, <3>1 DEF Inv, Progress
    <2>3. \A d \in Cpus : cpus[d].count \in Int
      BY CpuFacts DEF Inv, Types, CpuType
    <2> QED
      BY <2>2, <2>3, Zenon DEF Picking
  <1>4. local[c] \in LocalType /\ main \in [Cpus -> Places] /\ local \in [Cpus -> LocalType]
    BY DEF Inv, Types
  <1>5. s \in Nat /\ 0 \in Cpus /\ Cpus \subseteq Slots /\ Cpus \subseteq Nat
    BY <1>2, CpuFacts DEF Picks
  <1>6. /\ local'[c].next = s + 1 /\ local'[c].best = best /\ local'[c].count = count
        /\ local'[c].quiet = local[c].quiet
        /\ \A d \in Cpus \ {c} : local'[d] = local[d] /\ main'[d] = main[d]
        /\ main'[c] = IF s \in Slots THEN "pick" ELSE "create"
    BY <1>1, <1>4 DEF LocalType
  <1>7. best \in Cpus
    <2>1. CASE s = 0
      <3>1. local[c].best = Nobody /\ better
        BY <2>1, <1>2, <1>3, <1>5 DEF Picks
      <3> QED
        BY <3>1, <2>1, <1>5
    <2>2. CASE s # 0
      BY <2>2, <1>2, <1>3, <1>5, SMTT(30) DEF Picks
    <2> QED
      BY <2>1, <2>2
  <1>8. ASSUME local[c].quiet
        PROVE  count = cpus[best].count /\ \A d \in Cpus : d < s + 1 => count <= cpus[d].count
    <2>1. CASE s = 0
      <3>1. better
        BY <2>1, <1>2, <1>3, <1>5 DEF Picks
      <3>2. \A d \in Cpus : d < s + 1 => d = 0
        <4>1. s + 1 = 1
          BY <2>1
        <4>2. \A d \in Cpus : d < 1 => d = 0
          BY CountAssumption DEF Cpus
        <4> QED
          BY <4>1, <4>2, Zenon
      <3>3. count = cpus[s].count /\ best = s
        BY <3>1
      <3>4. cpus[0].count <= cpus[0].count
        BY <1>3, <1>5, SMTT(30)
      <3> HIDE DEF s, better, best, count
      <3> QED
        BY <3>2, <3>3, <3>4, <2>1
    <2>2. CASE s # 0
      <3>1. /\ local[c].best \in Cpus /\ local[c].count = cpus[local[c].best].count
            /\ \A d \in Cpus : d < s => local[c].count <= cpus[d].count
        BY <2>2, <1>2, <1>5, <1>8 DEF Picks
      <3>2. \A d \in Cpus : d < s + 1 => d < s \/ d = s
        BY <1>5
      <3>3. local[c].best # Nobody
        BY <3>1, CpuFacts
      <3>4. s \in Cpus => (better <=> cpus[s].count < local[c].count)
        BY <3>3, <1>3, <1>5
      <3>5. CASE better
        <4>1. s \in Cpus /\ cpus[s].count < local[c].count
          BY <3>4, <3>5, <1>3
        <4>2. count = cpus[s].count /\ best = s
          BY <3>5
        <4> HIDE DEF s, better, best, count
        <4>3. \A d \in Cpus : d < s + 1 => cpus[s].count <= cpus[d].count
          BY <4>1, <3>1, <3>2, <1>3
        <4> QED
          BY <4>2, <4>3
      <3>6. CASE ~better
        <4>1. count = local[c].count /\ best = local[c].best
          BY <3>6
        <4>2. s \in Cpus => ~(cpus[s].count < local[c].count)
          BY <3>4, <3>6
        <4> HIDE DEF s, better, best, count
        <4>3. \A d \in Cpus : d < s + 1 => local[c].count <= cpus[d].count
          BY <4>2, <3>1, <3>2, <1>3
        <4> QED
          BY <4>1, <4>3, <3>1
      <3> QED
        BY <3>5, <3>6
    <2> QED
      BY <2>1, <2>2
  <1> HIDE DEF s, better, best, count
  <1>9. Picks(c)'
    <2>1. \A d \in Cpus : cpus'[d].idle # 0
      BY <1>1, <1>2, Zenon DEF Picks
    <2>2. local'[c].next \in Nat /\ local'[c].next # 0
      BY <1>5, <1>6
    <2>3. local'[c].best \in Cpus
      BY <1>6, <1>7, Zenon
    <2>4. ASSUME local'[c].quiet
          PROVE  /\ local'[c].count = cpus'[local'[c].best].count
                 /\ \A d \in Cpus : d < local'[c].next => local'[c].count <= cpus'[d].count
      BY <2>4, <1>1, <1>6, <1>8, Zenon
    <2> QED
      BY <2>1, <2>2, <2>3, <2>4, Zenon DEF Picks
  <1>10. Picking'
    <2>1. ASSUME NEW d \in Cpus, main'[d] = "pick", d # c PROVE Picks(d)'
      <3>1. Picks(d) /\ local'[d] = local[d]
        BY <2>1, <1>6 DEF Picking
      <3> QED
        BY <3>1, <1>1 DEF Picks
    <2> QED
      BY <2>1, <1>1, <1>9 DEF Picking
  <1>11. ASSUME main'[c] = "create"
         PROVE  /\ best \in Cpus /\ cpus[best].ready
                /\ local[c].quiet => \A d \in Cpus : cpus[best].count <= cpus[d].count
    <2>1. s \notin Slots
      BY <1>6, <1>11
    <2>2. \A d \in Cpus : d < s + 1
      BY <2>1, <1>5, CountAssumption DEF Cpus, Slots
    <2> QED
      BY <2>2, <1>3, <1>7, <1>8
  <1> QED
    BY <1>6, <1>10, <1>11
(* A picking CPU knows what Picks says of it, whatever the other CPUs      *)
(* create, queue and run meanwhile.                                        *)
THEOREM PickingInvariance == Spec => []Picking
  <1>1. Init => Picking
    BY CpuFacts DEF Init, Picking
  <1>2. ASSUME Inv, Picking, [Next]_vars PROVE Picking'
    <2>1. CASE UNCHANGED vars
      BY <2>1, <1>2 DEF vars, Picking, Picks
    <2>2. ASSUME NEW c \in Cpus, Bringup(c) PROVE Picking'
      <3>1. /\ main[c] # "pick" /\ main'[c] # "pick"
            /\ \A d \in Cpus \ {c} : main'[d] = main[d] /\ local'[d] = local[d]
        BY <1>2, <2>2, CpuFacts
           DEF Bringup, wake_secondary_cpu, wait_for_cpus, init_secondary_cpu, Goto,
               common_cpu_init_tasks, spinlock_acquire, task_manager_create_with_cpu,
               atomic_fetch_add, Inv, Types
      <3>2. /\ \A s \in Slots : cpus'[s].count = cpus[s].count
            /\ \A s \in Slots \ Cpus : cpus'[s].online = cpus[s].online
            /\ \A d \in Cpus : cpus[d].idle # 0 => cpus'[d].idle # 0
        <4>1. CASE UNCHANGED cpus
          BY <4>1
        <4>2. CASE common_cpu_init_tasks(c)
          <5>1. CASE Goto(c, "queue", "create") /\ cpus' = [cpus EXCEPT ![c].ready = TRUE]
            BY <1>2, <5>1, CpuFacts DEF Inv, Types, CpuType
          <5>2. CASE /\ main[c] = "online"
                     /\ cpus' = [cpus EXCEPT ![c].idle = local[c].tid, ![c].online = TRUE]
            <6>1. local[c].tid # 0 /\ cpus \in [Slots -> CpuType] /\ c \in Slots
              BY <1>2, <5>2, CpuFacts DEF Inv, Idle, Types
            <6>2. /\ \A s \in Slots \ {c} : cpus'[s] = cpus[s]
                  /\ cpus'[c].idle = local[c].tid /\ cpus'[c].count = cpus[c].count
              BY <6>1, <5>2 DEF CpuType
            <6> QED
              BY <6>1, <6>2, CpuFacts, Zenon
          <5> QED
            BY <4>2, <5>1, <5>2 DEF common_cpu_init_tasks, Goto
        <4> QED
          BY <2>2, <4>1, <4>2
             DEF Bringup, wake_secondary_cpu, wait_for_cpus, init_secondary_cpu,
                 spinlock_acquire, task_manager_create_with_cpu, atomic_fetch_add
      <3> QED
        BY <1>2, <3>1, <3>2, KeepsPicking
    <2>3. ASSUME NEW c \in Cpus, task_manager_create(c) PROVE Picking'
      <3>1. /\ main[0] = "run" /\ cpus' = cpus
            /\ main' = [main EXCEPT ![c] = "pick"] /\ local' = [local EXCEPT ![c] = Locals]
        BY <2>3 DEF task_manager_create, Goto
      <3>2. \A d \in Cpus : cpus[d].idle # 0
        BY <1>2, <3>1, CpuFacts DEF Inv, Progress, Waited
      <3>3. local'[c] = Locals /\ \A d \in Cpus \ {c} : local'[d] = local[d] /\ main'[d] = main[d]
        BY <1>2, <3>1 DEF Inv, Types
      <3>4. Picks(c)'
        <4>1. /\ local'[c].next = 0 /\ local'[c].best = Nobody
          BY <3>3 DEF Locals
        <4> QED
          BY <3>1, <3>2, <4>1 DEF Picks
      <3>5. ASSUME NEW d \in Cpus, d # c, main'[d] = "pick" PROVE Picks(d)'
        <4>1. Picks(d) /\ local'[d] = local[d]
          BY <1>2, <3>3, <3>5 DEF Picking
        <4> QED
          BY <4>1, <3>1 DEF Picks
      <3> QED
        BY <1>2, <3>1, <3>4, <3>5 DEF Picking
    <2>4. ASSUME NEW c \in Cpus, scheduler_enqueue(c) PROVE Picking'
      <3>1. /\ main[c] = "enqueue" /\ main' = [main EXCEPT ![c] = "run"]
            /\ cpus' = [cpus EXCEPT ![local[c].best].count = cpus[local[c].best].count + 1]
            /\ local' = Disturb(c)
        BY <2>4 DEF scheduler_enqueue, Goto
      <3>2. \A s \in Slots : cpus'[s].online = cpus[s].online /\ cpus'[s].idle = cpus[s].idle
        BY <1>2, <3>1 DEF Inv, Types, CpuType
      <3>3. main'[c] = "run" /\ \A d \in Cpus \ {c} : main'[d] = main[d]
        BY <1>2, <3>1 DEF Inv, Types
      <3> QED
        BY <1>2, <3>1, <3>2, <3>3, DisturbsPicking
    <2>5. ASSUME NEW c \in Cpus, scheduler_switch(c) PROVE Picking'
      <3>1. /\ main[c] = "run" /\ main' = main /\ local' = Disturb(c)
            /\ cpus' = [cpus EXCEPT ![c].count = cpus[c].count - 1]
        BY <2>5 DEF scheduler_switch
      <3>2. \A s \in Slots : cpus'[s].online = cpus[s].online /\ cpus'[s].idle = cpus[s].idle
        BY <1>2, <3>1 DEF Inv, Types, CpuType
      <3> QED
        BY <1>2, <3>1, <3>2, DisturbsPicking
    <2> QED
      BY <1>2, <2>1, <2>2, <2>3, <2>4, <2>5, LookPicking DEF Next
  <1> QED
    BY <1>1, <1>2, Invariance, PTL DEF Spec

(* scheduler_pick_cpu never returns a null or an unready CPU, and returns  *)
(* the one with the shortest queue if no queue changed while it looked.    *)
THEOREM PickIsLeast == Spec => PicksLeast
  <1>1. ASSUME Inv, Picking, [Next]_vars
        PROVE  [\A c \in Cpus : main[c] = "pick" /\ main'[c] = "create" =>
                  /\ local'[c].best \in Cpus /\ cpus[local'[c].best].ready
                  /\ local[c].quiet =>
                         \A d \in Cpus : cpus[local'[c].best].count <= cpus[d].count]_vars
    <2> SUFFICES ASSUME Next, NEW c \in Cpus, main[c] = "pick", main'[c] = "create"
                 PROVE  /\ local'[c].best \in Cpus /\ cpus[local'[c].best].ready
                        /\ local[c].quiet =>
                               \A d \in Cpus : cpus[local'[c].best].count <= cpus[d].count
      BY <1>1
    <2>1. scheduler_pick_cpu(c)
      <3>1. PICK e \in Cpus : \/ Bringup(e) \/ task_manager_create(e) \/ scheduler_pick_cpu(e)
                              \/ scheduler_enqueue(e) \/ scheduler_switch(e)
        BY DEF Next
      <3>2. main'[e] # "create" \/ main[e] # "pick" \/ scheduler_pick_cpu(e)
        BY <1>1, <3>1, CpuFacts
           DEF Bringup, wake_secondary_cpu, wait_for_cpus, init_secondary_cpu, Goto,
               common_cpu_init_tasks, spinlock_acquire, task_manager_create_with_cpu,
               atomic_fetch_add, task_manager_create, scheduler_enqueue, scheduler_switch
      <3>3. \A d \in Cpus \ {e} : main'[d] = main[d]
        BY <1>1, <3>1, CpuFacts
           DEF Bringup, wake_secondary_cpu, wait_for_cpus, init_secondary_cpu, Goto,
               common_cpu_init_tasks, spinlock_acquire, task_manager_create_with_cpu,
               atomic_fetch_add, task_manager_create, scheduler_enqueue, scheduler_switch,
               scheduler_pick_cpu, Inv, Types
      <3> QED
        BY <3>2, <3>3
    <2> QED
      BY <1>1, <2>1, LookPicking
  <1> QED
    BY <1>1, Invariance, PickingInvariance, PTL DEF Spec, PicksLeast

-----------------------------------------------------------------------------
(* The devices. *)

DeviceType == [node : 1..Len(tree), driver : 1..3, state : {"DISCOVERED", "READY"},
               data : Garbage \cup {"live"}, ops : BOOLEAN]
Listing == 1..Len(devices)
Before == {"dmanager_init", "irq_controller_init", "uart", "console_register"}

DeviceTypes == tree \in Seq(Nodes) /\ devices \in Seq(DeviceType)

(* No node is discovered twice, so that a block or a mapping is one        *)
(* device's.                                                               *)
OneDevice == \A i, j \in Listing : devices[i].node = devices[j].node => i = j

(* A device that is not ready is not in use. *)
Unready ==
    \A i \in Listing :
        IF devices[i].state = "READY" THEN devices[i].data = "live"
        ELSE ~devices[i].ops /\ devices[i].node \notin irqs /\ devices[i].node \notin backends

Manager == DeviceTypes /\ OneDevice /\ Unready /\ NothingLeaked

(* What kernel_main has reached says what there is. *)
Reached ==
    /\ pc = "dmanager_init" => /\ devices = <<>> /\ heap = {} /\ mmio = {}
                               /\ irqs = {} /\ backends = {}
    /\ pc \in Before => backends = {}
    /\ pc = "console_register" =>
           \A k \in dmanager_get_by_class("UART") : devices[k].state = "READY"

DevicesInv == Manager /\ Reached

(* What a ready device has beyond its own block. *)
DataOf(d) == IF Class(d) \in {"UART", "IRQCHIP"} THEN {<<"data", d.node>>} ELSE {}
RangesOf(d) == IF Class(d) = "UART" THEN {<<d.node, 1>>}
               ELSE IF Class(d) = "IRQCHIP" THEN {<<d.node, 1>>, <<d.node, 2>>} ELSE {}

(* The drivers have three classes. *)
LEMMA Classes ==
    ASSUME NEW d, d.driver \in 1..3
    PROVE  Class(d) \in {"UART", "IRQCHIP", "TIMER"}
  <1>1. d.driver = 1 \/ d.driver = 2 \/ d.driver = 3
    OBVIOUS
  <1>2. /\ Drivers[1].class = "UART" /\ Drivers[2].class = "IRQCHIP"
        /\ Drivers[3].class = "TIMER"
    BY DEF Drivers
  <1> QED
    BY <1>1, <1>2 DEF Class

(* A driver that is found is one of the three. *)
LEMMA FoundDriver ==
    ASSUME NEW c, find_compat_driver(c) # {}
    PROVE  (CHOOSE i \in find_compat_driver(c) : TRUE) \in 1..3
  <1>1. Len(Drivers) = 3
    BY DEF Drivers
  <1>2. find_compat_driver(c) \subseteq 1..3
    BY <1>1, Zenon DEF find_compat_driver
  <1> QED
    BY <1>2, Zenon

(* At most one device is the first of its class. *)
LEMMA OneFirst ==
    ASSUME DeviceTypes, NEW class
    PROVE  /\ dmanager_get_by_class(class) \subseteq Listing
           /\ \A i, j \in dmanager_get_by_class(class) : i = j
  <1>1. dmanager_get_by_class(class) \subseteq Listing
    BY Zenon DEF dmanager_get_by_class, Listing
  <1>2. ASSUME NEW i \in dmanager_get_by_class(class), NEW j \in dmanager_get_by_class(class)
        PROVE  i = j
    <2>1. i \in Nat /\ j \in Nat /\ i > 0 /\ j > 0
      BY <1>1 DEF DeviceTypes, Listing
    <2>2. i \notin 1..j - 1 /\ j \notin 1..i - 1
      BY <1>2, Zenon DEF dmanager_get_by_class
    <2> QED
      BY <2>1, <2>2
  <1> QED
    BY <1>1, <1>2, Zenon

(* Which it is depends on the drivers of the devices only. *)
LEMMA SameByClass ==
    ASSUME DeviceTypes, Len(devices') = Len(devices), NEW class,
           \A i \in Listing : devices'[i].driver = devices[i].driver
    PROVE  dmanager_get_by_class(class)' = dmanager_get_by_class(class)
  <1>1. \A i \in Listing : Class(devices'[i]) = Class(devices[i])
    BY Zenon DEF Class
  <1>2. \A k \in Listing : 1..k - 1 \subseteq Listing
    BY DEF DeviceTypes, Listing
  <1>3. ASSUME NEW k \in Listing
        PROVE  (/\ Class(devices'[k]) = class
                /\ \A j \in 1..k - 1 : Class(devices'[j]) # class)
               <=> (/\ Class(devices[k]) = class
                    /\ \A j \in 1..k - 1 : Class(devices[j]) # class)
    BY <1>1, <1>2, Zenon
  <1>4. dmanager_get_by_class(class)' =
            {k \in 1..Len(devices) : /\ Class(devices'[k]) = class
                                     /\ \A j \in 1..k - 1 : Class(devices'[j]) # class}
    BY Zenon DEF dmanager_get_by_class, Class
  <1> QED
    BY <1>3, <1>4, Zenon DEF dmanager_get_by_class, Listing

(* What a device holds, in terms of its class. *)
LEMMA Holds ==
    ASSUME NEW d, d.driver \in 1..3
    PROVE  /\ HeldBy(d).heap = {<<"device", d.node>>}
                                 \cup (IF d.state = "READY" THEN DataOf(d) ELSE {})
           /\ HeldBy(d).mmio = IF d.state = "READY" THEN RangesOf(d) ELSE {}
  <1>1. CASE Class(d) = "UART"
    <2>1. 1..1 = {1} /\ 1 > 0
      OBVIOUS
    <2>2. {<<d.node, i>> : i \in 1..1} = {<<d.node, 1>>}
      BY <2>1, Zenon
    <2> QED
      BY <1>1, <2>1, <2>2 DEF HeldBy, DataOf, RangesOf
  <1>2. CASE Class(d) = "IRQCHIP"
    <2>1. 1..2 = {1, 2} /\ 2 > 0
      OBVIOUS
    <2>2. {<<d.node, i>> : i \in 1..2} = {<<d.node, 1>>, <<d.node, 2>>}
      BY <2>1, Zenon
    <2> QED
      BY <1>2, <2>1, <2>2 DEF HeldBy, DataOf, RangesOf
  <1>3. CASE Class(d) = "TIMER"
    BY <1>3 DEF HeldBy, DataOf, RangesOf
  <1> QED
    BY <1>1, <1>2, <1>3, Classes, Zenon

(* The blocks and the ranges in use are those of some device. *)
LEMMA Owners ==
    ASSUME NothingLeaked, DeviceTypes
    PROVE  /\ \A x : x \in heap <=> \/ \E i \in Listing : x \in HeldBy(devices[i]).heap
                                    \/ \E n \in backends : x = <<"backend", n>>
           /\ \A x : x \in mmio <=> \E i \in Listing : x \in HeldBy(devices[i]).mmio
  BY Zenon DEF NothingLeaked, DeviceSet, Listing

(* What a device would take is not in use until it is ready. *)
LEMMA Untaken ==
    ASSUME Manager, NEW k \in Listing, devices[k].state # "READY"
    PROVE  <<"data", devices[k].node>> \notin heap /\ <<devices[k].node, 1>> \notin mmio
  <1>1. \A i \in Listing : devices[i] \in DeviceType /\ devices[i].driver \in 1..3
    <2>1. \A i \in Listing : devices[i] \in DeviceType
      BY DEF Manager, DeviceTypes, Listing
    <2> QED
      BY <2>1 DEF DeviceType
  <1> DEFINE n == devices[k].node
  <1>2. ASSUME NEW i \in Listing
        PROVE  <<"data", n>> \notin HeldBy(devices[i]).heap /\ <<n, 1>> \notin HeldBy(devices[i]).mmio
    <2>1. /\ HeldBy(devices[i]).heap =
                 {<<"device", devices[i].node>>}
                     \cup (IF devices[i].state = "READY" THEN DataOf(devices[i]) ELSE {})
          /\ HeldBy(devices[i]).mmio =
                 IF devices[i].state = "READY" THEN RangesOf(devices[i]) ELSE {}
      BY <1>1, Holds, Zenon
    <2>2. <<"data", n>> # <<"device", devices[i].node>>
      OBVIOUS
    <2>3. CASE devices[i].state = "READY"
      <3>1. devices[i].node # n
        BY <2>3, Zenon DEF Manager, OneDevice
      <3>2. <<"data", devices[i].node>> # <<"data", n>>
        BY <3>1
      <3>3. <<"data", n>> \notin DataOf(devices[i])
        BY <3>2, Zenon DEF DataOf
      <3>4. <<n, 1>> # <<devices[i].node, 1>> /\ <<n, 1>> # <<devices[i].node, 2>>
        BY <3>1
      <3>5. <<n, 1>> \notin RangesOf(devices[i])
        BY <3>4, Zenon DEF RangesOf
      <3> QED
        BY <2>1, <2>2, <2>3, <3>3, <3>5, Zenon
    <2>4. CASE devices[i].state # "READY"
      BY <2>1, <2>2, <2>4, Zenon
    <2> QED
      BY <2>3, <2>4, Zenon
  <1>3. \A b \in backends : <<"data", n>> # <<"backend", b>>
    OBVIOUS
  <1> QED
    BY <1>2, <1>3, Owners, Zenon DEF Manager

(* A probe that succeeds takes what its device holds when ready, and one   *)
(* that fails leaves all as it was.                                        *)
Probed(d, r) ==
    IF r.ok THEN r.heap = heap \cup DataOf(d) /\ r.mmio = mmio \cup RangesOf(d)
                 /\ irqs \subseteq r.irqs /\ r.irqs \subseteq irqs \cup {d.node}
    ELSE r.heap = heap /\ r.mmio = mmio /\ r.irqs = irqs

LEMMA Probe ==
    ASSUME NEW d, NEW f, d.driver \in 1..3, d.data # "error",
           <<"data", d.node>> \notin heap, <<d.node, 1>> \notin mmio
    PROVE  Probed(d, probe(d, f))
  <1> DEFINE b == <<"data", d.node>>
             p == <<d.node, 1>>
  <1>1. (heap \cup {b}) \ {b} = heap /\ heap \ {b} = heap /\ (mmio \cup {p}) \ {p} = mmio
    <2> HIDE DEF b, p
    <2>1. b \notin heap /\ p \notin mmio
      BY DEF b, p
    <2> QED
      BY <2>1
  <1>2. \A w : Probed(d, Result(FALSE, heap, mmio, irqs, w))
    BY DEF Probed, Result
  <1>3. CASE Class(d) = "UART"
    <2>1. probe(d, f) = pl011_probe(d, f)
      BY <1>3, Zenon DEF probe
    <2>2. DataOf(d) = {b} /\ RangesOf(d) = {p}
      BY <1>3, Zenon DEF DataOf, RangesOf
    <2>3. irqs \subseteq irqs \cup {d.node} /\ irqs \cup {d.node} \subseteq irqs \cup {d.node}
      OBVIOUS
    <2>4. \/ probe(d, f) = Fail(heap, mmio)
          \/ probe(d, f) = Fail((heap \cup {b}) \ {b}, mmio)
          \/ probe(d, f) = Result(TRUE, heap \cup {b}, mmio \cup {p}, irqs \cup {d.node}, wild)
      BY <2>1, Zenon DEF pl011_probe
    <2> HIDE DEF b, p
    <2>5. \/ probe(d, f) = Result(FALSE, heap, mmio, irqs, wild)
          \/ probe(d, f) = Result(TRUE, heap \cup {b}, mmio \cup {p}, irqs \cup {d.node}, wild)
      BY <1>1, <2>4, Zenon DEF Fail
    <2>6. Probed(d, Result(TRUE, heap \cup {b}, mmio \cup {p}, irqs \cup {d.node}, wild))
      BY ONLY <2>2, <2>3 DEF Probed, Result
    <2> QED
      BY <1>2, <2>5, <2>6, Zenon
  <1>4. CASE Class(d) = "IRQCHIP"
    <2>1. probe(d, f) = armgicv2_probe(d, f)
      BY <1>4, Zenon DEF probe
    <2>2. DataOf(d) = {b} /\ RangesOf(d) = {p, <<d.node, 2>>}
      BY <1>4, Zenon DEF DataOf, RangesOf
    <2>3. \/ probe(d, f) = Fail((heap \cup {b}) \ {b}, mmio)
          \/ probe(d, f) = Fail(heap \ {b}, mmio)
          \/ probe(d, f) = Result(FALSE, heap, mmio, irqs, TRUE)
          \/ probe(d, f) = Fail((heap \cup {b}) \ {b}, (mmio \cup {p}) \ {p})
          \/ probe(d, f) = Result(TRUE, heap \cup {b}, (mmio \cup {p}) \cup {<<d.node, 2>>},
                                  irqs, wild)
      BY <2>1, Zenon DEF armgicv2_probe
    <2>4. (mmio \cup {p}) \cup {<<d.node, 2>>} = mmio \cup {p, <<d.node, 2>>}
      BY Zenon
    <2> HIDE DEF b, p
    <2>5. \/ \E w : probe(d, f) = Result(FALSE, heap, mmio, irqs, w)
          \/ probe(d, f) = Result(TRUE, heap \cup {b}, mmio \cup {p, <<d.node, 2>>}, irqs, wild)
      BY <1>1, <2>3, <2>4, Zenon DEF Fail
    <2>6. irqs \subseteq irqs /\ irqs \subseteq irqs \cup {d.node}
      OBVIOUS
    <2>7. Probed(d, Result(TRUE, heap \cup {b}, mmio \cup {p, <<d.node, 2>>}, irqs, wild))
      BY ONLY <2>2, <2>6 DEF Probed, Result
    <2> QED
      BY <1>2, <2>5, <2>7, Zenon
  <1>5. CASE Class(d) = "TIMER"
    <2>1. probe(d, f) = Result(TRUE, heap, mmio, irqs, wild)
      BY <1>5, Zenon DEF probe, armv8_timer_probe
    <2>2. DataOf(d) = {} /\ RangesOf(d) = {}
      BY <1>5 DEF DataOf, RangesOf
    <2>3. heap \cup {} = heap /\ mmio \cup {} = mmio /\ irqs \subseteq irqs
          /\ irqs \subseteq irqs \cup {d.node}
      BY Zenon
    <2>4. Probed(d, Result(TRUE, heap, mmio, irqs, wild))
      BY ONLY <2>2, <2>3 DEF Probed, Result
    <2> QED
      BY <2>1, <2>4, Zenon
  <1> QED
    BY <1>3, <1>4, <1>5, Classes, Zenon

(* A device that becomes ready takes what it holds from then on. *)
LEMMA Taking ==
    ASSUME Manager, DeviceTypes', NEW k \in Listing, devices[k].state # "READY",
           Len(devices') = Len(devices), backends' = backends,
           \A i \in Listing : i # k => devices'[i] = devices[i],
           devices'[k].state = "READY", devices'[k].node = devices[k].node,
           devices'[k].driver = devices[k].driver,
           heap' = heap \cup DataOf(devices[k]), mmio' = mmio \cup RangesOf(devices[k])
    PROVE  NothingLeaked'
  <1> DEFINE d == devices[k]
             e == devices'[k]
  <1>1. Listing' = Listing /\ d.driver \in 1..3
    <2>1. Listing' = Listing /\ d \in DeviceType
      BY DEF Manager, DeviceTypes, Listing
    <2> QED
      BY <2>1 DEF DeviceType
  <1>2. DataOf(e) = DataOf(d) /\ RangesOf(e) = RangesOf(d)
    BY Zenon DEF DataOf, RangesOf, Class
  <1>3. HeldBy(e).heap = HeldBy(d).heap \cup DataOf(d) /\ HeldBy(e).mmio = RangesOf(d)
        /\ HeldBy(d).mmio = {}
    <2>1. /\ HeldBy(e).heap = {<<"device", e.node>>} \cup DataOf(e)
          /\ HeldBy(e).mmio = RangesOf(e)
      BY <1>1, Holds
    <2>2. HeldBy(d).heap = {<<"device", d.node>>} \cup {} /\ HeldBy(d).mmio = {}
      BY <1>1, Holds
    <2>3. {<<"device", d.node>>} \cup {} = {<<"device", d.node>>}
      BY Zenon
    <2> QED
      BY <1>2, <2>1, <2>2, <2>3, Zenon
  <1> HIDE DEF d, e
  <1>4. heap' = (UNION {HeldBy(x).heap : x \in DeviceSet'})
                    \cup {<<"backend", n>> : n \in backends'}
    <2>1. \A x : x \in heap' <=> \/ \E i \in Listing : x \in HeldBy(devices[i]).heap
                                 \/ \E n \in backends : x = <<"backend", n>>
                                 \/ x \in DataOf(d)
      BY Owners, Zenon DEF Manager, d
    <2>2. ASSUME NEW x
          PROVE  (\E i \in Listing : x \in HeldBy(devices'[i]).heap)
                     <=> (\E i \in Listing : x \in HeldBy(devices[i]).heap) \/ x \in DataOf(d)
      BY <1>3, Zenon DEF d, e
    <2>3. \A x : x \in UNION {HeldBy(y).heap : y \in DeviceSet'}
                     <=> \E i \in Listing : x \in HeldBy(devices'[i]).heap
      BY <1>1, Zenon DEF DeviceSet, Listing
    <2> QED
      BY <2>1, <2>2, <2>3, Zenon
  <1>5. mmio' = UNION {HeldBy(x).mmio : x \in DeviceSet'}
    <2>1. \A x : x \in mmio' <=> \/ \E i \in Listing : x \in HeldBy(devices[i]).mmio
                                 \/ x \in RangesOf(d)
      BY Owners, Zenon DEF Manager, d
    <2>2. ASSUME NEW x
          PROVE  (\E i \in Listing : x \in HeldBy(devices'[i]).mmio)
                     <=> (\E i \in Listing : x \in HeldBy(devices[i]).mmio) \/ x \in RangesOf(d)
      BY <1>3, Zenon DEF d, e
    <2>3. \A x : x \in UNION {HeldBy(y).mmio : y \in DeviceSet'}
                     <=> \E i \in Listing : x \in HeldBy(devices'[i]).mmio
      BY <1>1, Zenon DEF DeviceSet, Listing
    <2> QED
      BY <2>1, <2>2, <2>3, Zenon
  <1> QED
    BY <1>4, <1>5, Zenon DEF NothingLeaked

(* Readying a device keeps the manager's invariant; when kernel_main goes  *)
(* on as if it were ready, it is.                                          *)
LEMMA Readying ==
    ASSUME Manager, "error" \notin Garbage, tree' = tree, backends' = backends,
           NEW class, NEW ok, NEW bad,
           dmanager_get_by_class_and_ready(class, ok, bad)
    PROVE  /\ Manager'
           /\ pc' = bad \/ /\ pc' = ok
                           /\ \A k \in dmanager_get_by_class(class)' : devices'[k].state = "READY"
  <1> DEFINE K == dmanager_get_by_class(class)
  <1>0. ASSUME UNCHANGED <<devices, heap, mmio, irqs, wild>>
        PROVE  Manager' /\ dmanager_get_by_class(class)' = K /\ Listing' = Listing
    <2>1. DeviceTypes' /\ OneDevice' /\ Unready' /\ NothingLeaked'
      BY <1>0 DEF Manager, DeviceTypes, OneDevice, Unready, NothingLeaked, DeviceSet,
                 DeviceType, Listing
    <2>2. dmanager_get_by_class(class)' = K
      BY <1>0, SameByClass, Zenon DEF Manager
    <2> QED
      BY <1>0, <2>1, <2>2 DEF Manager, Listing
  <1>1. CASE K = {}
    <2>1. pc' = bad /\ UNCHANGED <<devices, heap, mmio, irqs, wild>>
      BY <1>1, Zenon DEF dmanager_get_by_class_and_ready
    <2> QED
      BY <1>0, <2>1, Zenon
  <1>2. CASE K # {}
    <2>1. PICK k \in K, f \in Faults(class) : dmanager_ready_device(k, f, ok, bad)
      BY <1>2, Zenon DEF dmanager_get_by_class_and_ready
    <2>0. k \in Listing /\ \A i \in K : i = k
      BY <2>1, OneFirst, Zenon DEF Manager
    <2> HIDE DEF K
    <2>2. CASE devices[k].state = "READY"
      <3>1. pc' = ok /\ UNCHANGED <<devices, heap, mmio, irqs, wild>>
        BY <2>1, <2>2, Zenon DEF dmanager_ready_device
      <3> QED
        BY <1>0, <2>0, <2>2, <3>1
    <2>3. CASE devices[k].state # "READY"
      <3> DEFINE d == devices[k]
                 r == probe(d, f)
      <3>1. /\ devices' = IF r.ok THEN [devices EXCEPT ![k].state = "READY", ![k].ops = TRUE,
                                                      ![k].data = "live"]
                          ELSE devices
            /\ heap' = r.heap /\ mmio' = r.mmio /\ irqs' = r.irqs /\ wild' = r.wild
            /\ pc' = IF r.ok THEN ok ELSE bad
        BY <2>1, <2>3, Zenon DEF dmanager_ready_device
      <3>2. \A i \in Listing : devices[i] \in DeviceType
        BY DEF Manager, DeviceTypes, Listing
      <3>3. d.driver \in 1..3 /\ d.data # "error"
        BY <2>0, <3>2 DEF DeviceType
      <3>4. Probed(d, r)
        <4>1. <<"data", d.node>> \notin heap /\ <<d.node, 1>> \notin mmio
          BY <2>0, <2>3, Untaken, Zenon
        <4> QED
          BY <3>3, <4>1, Probe, Zenon
      <3> HIDE DEF r
      <3>5. CASE ~r.ok
        <4>1. UNCHANGED <<devices, heap, mmio, irqs>> /\ pc' = bad
          BY <3>1, <3>4, <3>5, Zenon DEF Probed
        <4>2. DeviceTypes' /\ OneDevice' /\ Unready' /\ NothingLeaked'
          BY <4>1 DEF Manager, DeviceTypes, OneDevice, Unready, NothingLeaked, DeviceSet,
                 DeviceType, Listing
        <4> QED
          BY <4>1, <4>2 DEF Manager
      <3>6. CASE r.ok
        <4>0. /\ heap' = heap \cup DataOf(d) /\ mmio' = mmio \cup RangesOf(d)
              /\ irqs' \subseteq irqs \cup {d.node} /\ pc' = ok
          BY <3>1, <3>4, <3>6, Zenon DEF Probed
        <4>1. devices' = [devices EXCEPT ![k].state = "READY", ![k].ops = TRUE,
                                         ![k].data = "live"]
          BY <3>1, <3>6, Zenon
        <4>2. /\ devices' \in Seq(DeviceType) /\ Len(devices') = Len(devices)
              /\ \A i \in Listing : i # k => devices'[i] = devices[i]
              /\ devices'[k] = [d EXCEPT !.state = "READY", !.ops = TRUE, !.data = "live"]
          <5> DEFINE e == [d EXCEPT !.state = "READY", !.ops = TRUE, !.data = "live"]
          <5>1. e \in DeviceType
            BY <2>0, <3>2 DEF DeviceType
          <5>2. devices' = [devices EXCEPT ![k] = e]
            BY <4>1
          <5> HIDE DEF e
          <5>3. /\ devices' \in Seq(DeviceType) /\ Len(devices') = Len(devices)
                /\ \A i \in Listing : i # k => devices'[i] = devices[i]
                /\ devices'[k] = e
            BY <2>0, <5>1, <5>2 DEF Manager, DeviceTypes, Listing
          <5> QED
            BY <5>3, Zenon DEF e
        <4>3. /\ devices'[k].state = "READY" /\ devices'[k].data = "live"
              /\ devices'[k].node = d.node /\ devices'[k].driver = d.driver
          BY <2>0, <3>2, <4>2 DEF DeviceType
        <4>4. DeviceTypes' /\ Listing' = Listing
          BY <4>2 DEF Manager, DeviceTypes, DeviceType, Listing
        <4>5. \A i \in Listing : /\ devices'[i].node = devices[i].node
                                 /\ devices'[i].driver = devices[i].driver
          BY <4>2, <4>3, Zenon
        <4>6. OneDevice'
          <5>1. ASSUME NEW i \in Listing, NEW j \in Listing, devices'[i].node = devices'[j].node
                PROVE  i = j
            BY <4>5, <5>1, Zenon DEF Manager, OneDevice
          <5> QED
            BY <4>4, <5>1, Zenon DEF OneDevice
        <4>7. Unready'
          <5>1. ASSUME NEW i \in Listing, i # k, devices[i].state # "READY"
                PROVE  /\ ~devices'[i].ops /\ devices'[i].node \notin irqs'
                       /\ devices'[i].node \notin backends'
            <6>1. devices[i].node # d.node
              BY <2>0, <5>1, Zenon DEF Manager, OneDevice
            <6> QED
              BY <4>0, <4>2, <5>1, <6>1, Zenon DEF Manager, Unready
          <5>2. \A i \in Listing : i # k /\ devices[i].state = "READY" => devices'[i].data = "live"
            BY <4>2, Zenon DEF Manager, Unready
          <5> QED
            BY <4>2, <4>3, <4>4, <5>1, <5>2, Zenon DEF Unready
        <4>8. NothingLeaked'
          BY <2>0, <2>3, <4>0, <4>2, <4>3, <4>4, Taking, Zenon
        <4>9. dmanager_get_by_class(class)' = K
          BY <4>2, <4>5, SameByClass, Zenon DEF Manager, K
        <4> QED
          BY <2>0, <4>0, <4>3, <4>4, <4>6, <4>7, <4>8, <4>9, Zenon DEF Manager
      <3> QED
        BY <3>5, <3>6, Zenon
    <2> QED
      BY <2>2, <2>3, Zenon
  <1> QED
    BY <1>1, <1>2, Zenon

(* dmanager_init lists each node with a driver once, none of them ready. *)
LEMMA Discovery ==
    ASSUME DevicesInv, dmanager_init
    PROVE  Manager' /\ backends' = {}
  <1>10. PICK found \in Discovered :
            /\ \E garbage \in [found -> Garbage], N \in 0..Len(tree) :
               \E order \in [1..N -> found] :
                  /\ {order[k] : k \in 1..N} = found
                  /\ \A i, j \in 1..N : i < j => order[i] > order[j]
                  /\ devices' = [k \in 1..N |-> Device(order[k], garbage[order[k]])]
            /\ heap' = {<<"device", n>> : n \in found}
    BY Zenon DEF dmanager_init
  <1>11. found \subseteq Compatible
    BY Zenon DEF Discovered
  <1>0. /\ pc = "dmanager_init" /\ tree' = tree /\ mmio' = {} /\ irqs' = {} /\ backends' = {}
        /\ tree \in Seq(Nodes)
    BY DEF dmanager_init, DevicesInv, Reached, Manager, DeviceTypes
  <1>2. PICK garbage \in [found -> Garbage], N \in 0..Len(tree) :
        \E order \in [1..N -> found] :
            /\ {order[k] : k \in 1..N} = found
            /\ \A i, j \in 1..N : i < j => order[i] > order[j]
            /\ devices' = [k \in 1..N |-> Device(order[k], garbage[order[k]])]
    BY <1>10, Zenon
  <1>1. N \in Nat
    BY <1>0
  <1>9. PICK order \in [1..N -> found] :
            /\ {order[k] : k \in 1..N} = found
            /\ \A i, j \in 1..N : i < j => order[i] > order[j]
            /\ devices' = [k \in 1..N |-> Device(order[k], garbage[order[k]])]
    BY <1>2, Zenon
  <1>3. ASSUME NEW k \in 1..N
        PROVE  /\ order[k] \in 1..Len(tree) /\ devices'[k] \in DeviceType
               /\ devices'[k].node = order[k] /\ devices'[k].state = "DISCOVERED"
               /\ devices'[k].driver \in 1..3 /\ devices'[k].ops = FALSE
    <2>1. /\ order[k] \in 1..Len(tree) /\ find_compat_driver(tree[order[k]].compat) # {}
          /\ order[k] \in found
      BY <1>9, <1>11, Zenon DEF Compatible
    <2>2. (CHOOSE i \in find_compat_driver(tree[order[k]].compat) : TRUE) \in 1..3
          /\ garbage[order[k]] \in Garbage
      BY <1>9, <2>1, FoundDriver, Zenon
    <2>3. devices'[k] = Device(order[k], garbage[order[k]])
      BY <1>9, Zenon
    <2> QED
      BY <2>1, <2>2, <2>3 DEF Device, DeviceType
  <1>4. /\ devices' \in Seq(DeviceType) /\ Len(devices') = N
    <2>1. devices' \in [1..N -> DeviceType]
      BY <1>9, <1>3, Zenon
    <2> QED
      BY ONLY <1>1, <2>1
  <1>5. DeviceTypes' /\ Listing' = 1..N
    <2>1. DeviceType' = DeviceType
      BY <1>0 DEF DeviceType
    <2> QED
      BY <1>0, <1>4, <2>1 DEF DeviceTypes, Listing
  <1>6. OneDevice'
    <2>1. ASSUME NEW i \in 1..N, NEW j \in 1..N, order[i] = order[j]
          PROVE  i = j
      <3>1. order[i] \in Nat /\ i \in Nat /\ j \in Nat
        <4>1. Len(tree) \in Nat
          BY <1>0
        <4>2. order[i] \in 1..Len(tree)
          BY <1>3, Zenon
        <4> QED
          BY <1>1, <4>1, <4>2
      <3>2. ~(order[i] > order[j]) /\ ~(order[j] > order[i])
        BY <2>1, <3>1
      <3>3. ~(i < j) /\ ~(j < i)
        BY <1>9, <3>2, Zenon
      <3> QED
        BY <3>1, <3>3
    <2>2. \A i \in 1..N : devices'[i].node = order[i]
      BY <1>3, Zenon
    <2>3. \A i, j \in 1..N : devices'[i].node = devices'[j].node => i = j
      BY <2>1, <2>2, Zenon
    <2> QED
      BY <1>5, <2>3, Zenon DEF OneDevice
  <1>7. Unready'
    <2>1. ASSUME NEW k \in 1..N
          PROVE  /\ devices'[k].state # "READY" /\ ~devices'[k].ops
                 /\ devices'[k].node \notin irqs' /\ devices'[k].node \notin backends'
      BY <1>0, <1>3, Zenon
    <2> QED
      BY <1>5, <2>1, Zenon DEF Unready
  <1>8. NothingLeaked'
    <2>1. ASSUME NEW k \in 1..N
          PROVE  /\ HeldBy(devices'[k]).heap = {<<"device", devices'[k].node>>}
                 /\ HeldBy(devices'[k]).mmio = {}
      <3>1. /\ HeldBy(devices'[k]).heap = {<<"device", devices'[k].node>>} \cup {}
            /\ HeldBy(devices'[k]).mmio = {}
        BY <1>3, Holds, Zenon
      <3> QED
        BY <3>1, Zenon
    <2>2. \A x : x \in heap' <=> \E k \in 1..N : x = <<"device", devices'[k].node>>
      <3>1. \A k \in 1..N : devices'[k].node = order[k]
        BY <1>3, Zenon
      <3>2. \A n : n \in found <=> \E k \in 1..N : n = order[k]
        BY <1>9, Zenon
      <3>3. \A x : x \in heap' <=> \E n \in found : x = <<"device", n>>
        BY <1>10, Zenon
      <3>4. ASSUME NEW x, x \in heap' PROVE \E k \in 1..N : x = <<"device", devices'[k].node>>
        <4>1. PICK n \in found : x = <<"device", n>>
          BY <3>3, <3>4, Zenon
        <4>2. PICK k \in 1..N : n = order[k]
          BY <3>2, <4>1, Zenon
        <4>3. x = <<"device", devices'[k].node>>
          BY <3>1, <4>1, <4>2
        <4> QED
          BY <4>3, Zenon
      <3>5. ASSUME NEW k \in 1..N PROVE <<"device", devices'[k].node>> \in heap'
        <4>1. devices'[k].node \in found
          BY <3>1, <3>2, Zenon
        <4> QED
          BY <3>3, <4>1, Zenon
      <3> QED
        BY <3>4, <3>5, Zenon
    <2>3. /\ \A x : x \in UNION {HeldBy(d).heap : d \in DeviceSet'}
                        <=> \E k \in 1..N : x \in HeldBy(devices'[k]).heap
          /\ \A x : x \in UNION {HeldBy(d).mmio : d \in DeviceSet'}
                        <=> \E k \in 1..N : x \in HeldBy(devices'[k]).mmio
      BY <1>4, Zenon DEF DeviceSet
    <2>4. heap' = (UNION {HeldBy(d).heap : d \in DeviceSet'})
                      \cup {<<"backend", n>> : n \in backends'}
      <3>1. {<<"backend", n>> : n \in backends'} = {}
        BY <1>0
      <3>2. heap' = UNION {HeldBy(d).heap : d \in DeviceSet'}
        <4>0. \A k \in 1..N : \A x :
                  x \in HeldBy(devices'[k]).heap <=> x = <<"device", devices'[k].node>>
          BY <2>1, Zenon
        <4>1. \A x : x \in heap' <=> \E k \in 1..N : x \in HeldBy(devices'[k]).heap
          BY <2>2, <4>0, Zenon
        <4> QED
          BY <2>3, <4>1, Zenon
      <3> QED
        BY <3>1, <3>2
    <2>5. mmio' = UNION {HeldBy(d).mmio : d \in DeviceSet'}
      BY <1>0, <2>1, <2>3, Zenon
    <2> QED
      BY <2>4, <2>5, Zenon DEF NothingLeaked
  <1> QED
    BY <1>0, <1>5, <1>6, <1>7, <1>8, Zenon DEF Manager

(* console_register adds one backend, with its block, for a UART that is   *)
(* ready.                                                                  *)
LEMMA Registering ==
    ASSUME DevicesInv, kernel_main_console, pc' = "timer_init"
    PROVE  Manager'
  <1>1. /\ pc = "console_register" /\ backends = {}
        /\ \A k \in dmanager_get_by_class("UART") : devices[k].state = "READY"
        /\ backends' = {devices[k].node : k \in dmanager_get_by_class("UART")}
        /\ heap' = heap \cup {<<"backend", n>> : n \in backends'}
        /\ UNCHANGED <<tree, devices, mmio, irqs>>
    BY DEF kernel_main_console, DevicesInv, Reached, Before
  <1>2. DeviceTypes' /\ OneDevice' /\ Listing' = Listing
    BY <1>1 DEF DevicesInv, Manager, DeviceTypes, DeviceType, OneDevice, Listing
  <1>3. Unready'
    <2>1. ASSUME NEW i \in Listing, devices[i].state # "READY"
          PROVE  devices[i].node \notin backends'
      <3>1. dmanager_get_by_class("UART") \subseteq Listing
        BY OneFirst, Zenon DEF DevicesInv, Manager
      <3> QED
        BY <1>1, <2>1, <3>1, Zenon DEF DevicesInv, Manager, OneDevice
    <2>2. ASSUME NEW i \in Listing
          PROVE  IF devices'[i].state = "READY" THEN devices'[i].data = "live"
                 ELSE /\ ~devices'[i].ops /\ devices'[i].node \notin irqs'
                      /\ devices'[i].node \notin backends'
      BY <1>1, <2>1 DEF DevicesInv, Manager, Unready
    <2> QED
      BY <1>2, <2>2, Zenon DEF Unready
  <1>4. NothingLeaked'
    <2>1. heap = (UNION {HeldBy(d).heap : d \in DeviceSet}) \cup {}
      BY <1>1 DEF DevicesInv, Manager, NothingLeaked
    <2>2. DeviceSet' = DeviceSet
      BY <1>1 DEF DeviceSet
    <2> QED
      BY <1>1, <2>1, <2>2, Zenon DEF DevicesInv, Manager, NothingLeaked
  <1> QED
    BY <1>2, <1>3, <1>4, Zenon DEF Manager

LEMMA DevicesInvariance ==
    ASSUME "error" \notin Garbage
    PROVE  DevicesSpec => []DevicesInv
  <1>1. ASSUME DevicesInit PROVE DevicesInv
    <2>1. /\ pc = "dmanager_init" /\ devices = <<>> /\ heap = {} /\ mmio = {} /\ irqs = {}
          /\ backends = {} /\ tree \in Seq(Nodes)
      BY <1>1, TreesAssumption DEF DevicesInit
    <2>2. Listing = {} /\ DeviceTypes
      BY <2>1 DEF Listing, DeviceTypes
    <2>3. OneDevice /\ Unready
      BY <2>2, Zenon DEF OneDevice, Unready
    <2>4. NothingLeaked
      <3>1. DeviceSet = {}
        BY <2>2, Zenon DEF DeviceSet, Listing
      <3>2. /\ UNION {HeldBy(d).heap : d \in {}} = {} /\ UNION {HeldBy(d).mmio : d \in {}} = {}
            /\ {<<"backend", n>> : n \in {}} = {} /\ {} \cup {} = {}
        OBVIOUS
      <3> QED
        BY <2>1, <3>1, <3>2, Zenon DEF NothingLeaked
    <2>5. Reached
      BY <2>1, Zenon DEF Reached
    <2> QED
      BY <2>2, <2>3, <2>4, <2>5, Zenon DEF DevicesInv, Manager
  <1>2. ASSUME DevicesInv, [DevicesNext]_devicesVars PROVE DevicesInv'
    <2>0. Manager /\ Reached
      BY <1>2 DEF DevicesInv
    <2>1. CASE dmanager_init
      <3>1. Manager' /\ backends' = {} /\ pc' \in {"irq_controller_init", "panic"}
        BY <1>2, <2>1, Discovery, Zenon DEF dmanager_init
      <3> QED
        BY <3>1 DEF DevicesInv, Reached
    <2>2. CASE irq_controller_init
      <3>1. /\ dmanager_get_by_class_and_ready("IRQCHIP", "uart", "panic")
            /\ tree' = tree /\ backends' = backends /\ backends = {}
        BY <2>0, <2>2 DEF irq_controller_init, Reached, Before
      <3>2. Manager' /\ pc' \in {"uart", "panic"}
        BY <2>0, <3>1, Readying, Zenon
      <3> QED
        BY <3>1, <3>2 DEF DevicesInv, Reached
    <2>3. CASE kernel_main_uart
      <3>1. /\ dmanager_get_by_class_and_ready("UART", "console_register", "timer_init")
            /\ tree' = tree /\ backends' = backends /\ backends = {}
        BY <2>0, <2>3 DEF kernel_main_uart, Reached, Before
      <3>2. /\ Manager'
            /\ pc' = "timer_init" \/ /\ pc' = "console_register"
                                     /\ \A k \in dmanager_get_by_class("UART")' :
                                            devices'[k].state = "READY"
        BY <2>0, <3>1, Readying, Zenon
      <3> QED
        BY <3>1, <3>2 DEF DevicesInv, Reached, Before
    <2>4. CASE kernel_main_console
      <3>1. CASE pc' = "timer_init"
        <4>1. Manager'
          BY <1>2, <2>4, <3>1, Registering, Zenon
        <4> QED
          BY <3>1, <4>1 DEF DevicesInv, Reached, Before
      <3>2. CASE pc' = "panic"
        <4>1. UNCHANGED <<tree, devices, heap, mmio, irqs, backends>>
          BY <2>4, <3>2 DEF kernel_main_console
        <4>2. Manager'
          BY <2>0, <4>1 DEF Manager, DeviceTypes, DeviceType, OneDevice, Unready, Listing,
                            NothingLeaked, DeviceSet
        <4> QED
          BY <3>2, <4>2 DEF DevicesInv, Reached, Before
      <3> QED
        BY <2>4, <3>1, <3>2 DEF kernel_main_console
    <2>5. CASE timer_init
      <3>1. /\ dmanager_get_by_class_and_ready("TIMER", "run", "panic")
            /\ tree' = tree /\ backends' = backends
        BY <2>5 DEF timer_init
      <3>2. Manager' /\ pc' \in {"run", "panic"}
        BY <2>0, <3>1, Readying, Zenon
      <3> QED
        BY <3>1, <3>2 DEF DevicesInv, Reached, Before
    <2>6. CASE Later
      <3>1. PICK class : /\ dmanager_get_by_class_and_ready(class, "run", "run")
                         /\ tree' = tree /\ backends' = backends
        BY <2>6 DEF Later
      <3>2. Manager' /\ pc' = "run"
        BY <2>0, <3>1, Readying, Zenon
      <3> QED
        BY <3>2 DEF DevicesInv, Reached, Before
    <2>7. CASE UNCHANGED devicesVars
      <3>1. UNCHANGED <<pc, tree, devices, heap, mmio, irqs, backends>>
        BY <2>7 DEF devicesVars
      <3>2. Manager' /\ Listing' = Listing
        BY <2>0, <3>1 DEF Manager, DeviceTypes, DeviceType, OneDevice, Unready, NothingLeaked,
                          DeviceSet, Listing
      <3>3. dmanager_get_by_class("UART")' = dmanager_get_by_class("UART")
        BY <2>0, <3>1, SameByClass, Zenon DEF Manager
      <3> QED
        BY <2>0, <3>1, <3>2, <3>3 DEF DevicesInv, Reached, Before
    <2> QED
      BY <1>2, <2>1, <2>2, <2>3, <2>4, <2>5, <2>6, <2>7, Zenon DEF DevicesNext
  <1> QED
    BY <1>1, <1>2, PTL DEF DevicesSpec

(* Whatever tree the boot loader gives and whichever steps of the probes   *)
(* fail, as long as armgicv2_probe does not take what a new Device holds   *)
(* for an error: what is allocated and mapped is exactly what the ready    *)
(* devices hold, and only those are used.                                  *)
THEOREM ProbesAllOrNothing == "error" \notin Garbage => (DevicesSpec => []AllOrNothing)
  <1> SUFFICES ASSUME "error" \notin Garbage PROVE DevicesSpec => []AllOrNothing
    OBVIOUS
  <1>1. ASSUME DevicesInv PROVE AllOrNothing
    <2>1. Manager
      BY <1>1 DEF DevicesInv
    <2>2. ASSUME NEW d \in DeviceSet, d.ops \/ d.node \in irqs \/ d.node \in backends
          PROVE  d.state = "READY" /\ d.data = "live" /\ HeldBy(d).heap \subseteq heap
      <3>1. PICK i \in Listing : d = devices[i]
        BY Zenon DEF DeviceSet, Listing
      <3>2. d.state = "READY" /\ d.data = "live"
        BY <2>1, <2>2, <3>1 DEF Manager, Unready
      <3>3. HeldBy(d).heap \subseteq heap
        BY <2>1, <3>1, Owners, Zenon DEF Manager
      <3> QED
        BY <3>2, <3>3, Zenon
    <2> QED
      BY <2>1, <2>2, Zenon DEF Manager, AllOrNothing, UsedOnlyReady
  <1> QED
    BY <1>1, DevicesInvariance, PTL

=============================================================================
