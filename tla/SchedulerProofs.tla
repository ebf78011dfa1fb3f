-------------------------- MODULE SchedulerProofs ---------------------------
(***************************************************************************)
(* What module Scheduler promises, for any CPUs, tasks and wait queues, as *)
(* long as tasks are dequeued by their own CPU only.  First its inductive  *)
(* invariant, what the queue operations do to the lists and what a step    *)
(* leaves alone; then that the calls tasks make keep the invariant, and    *)
(* scheduler_switch, step by step, and the idle loop; then the theorems.   *)
(***************************************************************************)
EXTENDS Scheduler, TLAPS


(* The parts of Places. *)
RunAt(t)   == {c \in CPUs : t \in Range(runnables[c])}
WaitAt(t)  == {q \in WaitQueues : t \in Range(waiters[q])}
LocalAt(t) == {c \in CPUs : arg[c] = t /\ pc[c] # "remove"}
ExecAt(t)  == {c \in CPUs : /\ current[c] = t
                            /\ state[t] = "RUNNING" \/ pc[c] \in {"requeue", "wait"}}

(* Exactly one of the parts has a member, and only one. *)
Single(t, r, w, l, x, K) ==
    \/ (\E c \in r : r = {c}) /\ w = {} /\ l = {} /\ x = {} /\ t \notin K
    \/ r = {} /\ (\E q \in w : w = {q}) /\ l = {} /\ x = {} /\ t \notin K
    \/ r = {} /\ w = {} /\ (\E c \in l : l = {c}) /\ x = {} /\ t \notin K
    \/ r = {} /\ w = {} /\ l = {} /\ (\E c \in x : x = {c}) /\ t \notin K
    \/ r = {} /\ w = {} /\ l = {} /\ x = {} /\ t \in K

Live(t) == t \in Created /\ state[t] # "DEAD"

InOne(t) == Single(t, RunAt(t), WaitAt(t), LocalAt(t), ExecAt(t), parked)
InNone(t) == RunAt(t) = {} /\ WaitAt(t) = {} /\ LocalAt(t) = {} /\ ExecAt(t) = {} /\ t \notin parked

(* A live task is in one place and any other task in none. *)
Placed == \A t \in Tasks : (Live(t) => InOne(t)) /\ (~Live(t) => InNone(t))

(* The lists repeat no task, and count is the length of the list. *)
Lists ==
    /\ \A c \in CPUs : IsInjective(runnables[c]) /\ count[c] = Len(runnables[c])
    /\ \A q \in WaitQueues : IsInjective(waiters[q])

(* What CPU c's place in the code says of its current task. *)
CurrentFits(c) ==
    /\ current[c] \in Tasks =>
          /\ cpu[current[c]] = c
          /\ pc[c] \in {"run", "enqueue", "insert", "remove", "wake", "first"} =>
                state[current[c]] = "RUNNING"
          /\ pc[c] \in {"pick", "dequeue", "commit"} => state[current[c]] # "RUNNING"
    /\ pc[c] = "wait" =>
          current[c] \in Tasks /\ state[current[c]] = "BLOCKED" /\ wq[c] \in WaitQueues
    /\ pc[c] = "requeue" => current[c] \in Tasks /\ state[current[c]] = "READY"

(* What it says of the task its code works on. *)
ArgFits(c) ==
    /\ pc[c] \in {"enqueue", "insert", "remove"} => arg[c] \in Tasks
    /\ pc[c] = "insert" => state[arg[c]] = "READY"
    /\ pc[c] = "remove" => cpu[arg[c]] = c /\ arg[c] \in Range(runnables[c])
    /\ pc[c] = "commit" /\ arg[c] \in Tasks => cpu[arg[c]] = c /\ state[arg[c]] = "READY"
    /\ pc[c] \notin {"enqueue", "insert", "remove", "commit", "panic"} => arg[c] \notin Tasks

Fits == \A c \in CPUs : CurrentFits(c) /\ ArgFits(c)

IInv == TypeOK /\ Placed /\ Lists /\ FieldsAgree /\ Fits /\ AssertsHold

-----------------------------------------------------------------------------
(* Places. *)

(* Places, put together from its parts. *)
PlacesOf(t, r, w, l, x, K) ==
    {<<"runnable", c>> : c \in r} \cup {<<"waiting", q>> : q \in w}
    \cup {<<"local", c>> : c \in l} \cup {<<"on_cpu", c>> : c \in x}
    \cup (IF t \in K THEN {<<"parked", t>>} ELSE {})

(* The parts of Places decide whether it has one element. *)
LEMMA OneElement ==
    ASSUME NEW t \in Tasks, InOne(t)
    PROVE  \E p : Places(t) = {p}
  <1> DEFINE r == RunAt(t)
             w == WaitAt(t)
             l == LocalAt(t)
             x == ExecAt(t)
             P == PlacesOf(t, r, w, l, x, parked)
  <1>0. Single(t, r, w, l, x, parked) /\ Places(t) = P
    BY Zenon DEF InOne, Places, PlacesOf, RunAt, WaitAt, LocalAt, ExecAt
  <1> HIDE DEF r, w, l, x
  <1>1. CASE (\E c \in r : r = {c}) /\ w = {} /\ l = {} /\ x = {} /\ t \notin parked
    <2>1. PICK c \in r : r = {c}
      BY <1>1, Zenon
    <2>2. P = {<<"runnable", c>>}
      BY <1>1, <2>1, Zenon DEF PlacesOf
    <2> QED
      BY <1>0, <2>2, Zenon
  <1>2. CASE r = {} /\ (\E q \in w : w = {q}) /\ l = {} /\ x = {} /\ t \notin parked
    <2>1. PICK q \in w : w = {q}
      BY <1>2, Zenon
    <2>2. P = {<<"waiting", q>>}
      BY <1>2, <2>1, Zenon DEF PlacesOf
    <2> QED
      BY <1>0, <2>2, Zenon
  <1>3. CASE r = {} /\ w = {} /\ (\E c \in l : l = {c}) /\ x = {} /\ t \notin parked
    <2>1. PICK c \in l : l = {c}
      BY <1>3, Zenon
    <2>2. P = {<<"local", c>>}
      BY <1>3, <2>1, Zenon DEF PlacesOf
    <2> QED
      BY <1>0, <2>2, Zenon
  <1>4. CASE r = {} /\ w = {} /\ l = {} /\ (\E c \in x : x = {c}) /\ t \notin parked
    <2>1. PICK c \in x : x = {c}
      BY <1>4, Zenon
    <2>2. P = {<<"on_cpu", c>>}
      BY <1>4, <2>1, Zenon DEF PlacesOf
    <2> QED
      BY <1>0, <2>2, Zenon
  <1>5. CASE r = {} /\ w = {} /\ l = {} /\ x = {} /\ t \in parked
    <2>1. P = {<<"parked", t>>}
      BY <1>5, Zenon DEF PlacesOf
    <2> QED
      BY <1>0, <2>1, Zenon
  <1> QED
    BY <1>0, <1>1, <1>2, <1>3, <1>4, <1>5, Zenon DEF Single

(* The invariant says of Places what OnePlace does. *)
LEMMA PlacedMeans == ASSUME Placed, Lists PROVE OnePlace
  <1>1. ASSUME NEW t \in Tasks
        PROVE  IF t \in Created /\ state[t] # "DEAD"
               THEN \E p \in Places(t) : Places(t) = {p} ELSE Places(t) = {}
    <2>1. Places(t) = PlacesOf(t, RunAt(t), WaitAt(t), LocalAt(t), ExecAt(t), parked)
      BY Zenon DEF Places, PlacesOf, RunAt, WaitAt, LocalAt, ExecAt
    <2>2. CASE Live(t)
      <3>1. \E p : Places(t) = {p}
        BY <2>2, OneElement, Zenon DEF Placed
      <3> QED
        BY <2>2, <3>1, Zenon DEF Live
    <2>3. CASE ~Live(t)
      BY <2>1, <2>3, Zenon DEF PlacesOf, Placed, InNone, Live
    <2> QED
      BY <2>2, <2>3, Zenon
  <1> QED
    BY <1>1, Zenon DEF OnePlace, Lists

(* A task in one part is live and in no other. *)
LEMMA PlaceIs ==
    ASSUME Placed, NEW t \in Tasks
    PROVE  /\ \A c \in RunAt(t) : /\ Live(t) /\ RunAt(t) = {c} /\ WaitAt(t) = {}
                                  /\ LocalAt(t) = {} /\ ExecAt(t) = {} /\ t \notin parked
           /\ \A q \in WaitAt(t) : /\ Live(t) /\ RunAt(t) = {} /\ WaitAt(t) = {q}
                                   /\ LocalAt(t) = {} /\ ExecAt(t) = {} /\ t \notin parked
           /\ \A c \in LocalAt(t) : /\ Live(t) /\ RunAt(t) = {} /\ WaitAt(t) = {}
                                    /\ LocalAt(t) = {c} /\ ExecAt(t) = {} /\ t \notin parked
           /\ \A c \in ExecAt(t) : /\ Live(t) /\ RunAt(t) = {} /\ WaitAt(t) = {}
                                   /\ LocalAt(t) = {} /\ ExecAt(t) = {c} /\ t \notin parked
           /\ t \in parked => /\ Live(t) /\ RunAt(t) = {} /\ WaitAt(t) = {}
                              /\ LocalAt(t) = {} /\ ExecAt(t) = {}
  BY DEF Placed, InOne, InNone, Single

(* The runnable part is what the run queues say. *)
LEMMA SameRun == ASSUME runnables' = runnables, NEW t PROVE RunAt(t)' = RunAt(t)
  BY Zenon DEF RunAt

(* The waiting part is what the wait queues say. *)
LEMMA SameWait == ASSUME waiters' = waiters, NEW t PROVE WaitAt(t)' = WaitAt(t)
  BY Zenon DEF WaitAt

(* A step of CPU c that does not change what its own code works on leaves  *)
(* the local part alone.                                                   *)
LEMMA SameLocal ==
    ASSUME NEW c \in CPUs, NEW t, \A d \in CPUs \ {c} : arg'[d] = arg[d] /\ pc'[d] = pc[d],
           (arg'[c] = t /\ pc'[c] # "remove") <=> (arg[c] = t /\ pc[c] # "remove")
    PROVE  LocalAt(t)' = LocalAt(t)
  BY Zenon DEF LocalAt

(* A step of CPU c that does not change what executes on it leaves the     *)
(* executing part alone.                                                   *)
LEMMA SameExec ==
    ASSUME NEW c \in CPUs, NEW t, \A d \in CPUs \ {c} : current'[d] = current[d] /\ pc'[d] = pc[d],
           \A d \in CPUs \ {c} : current[d] = t => (state'[t] = "RUNNING" <=> state[t] = "RUNNING"),
           (current'[c] = t /\ (state'[t] = "RUNNING" \/ pc'[c] \in {"requeue", "wait"}))
               <=> (current[c] = t /\ (state[t] = "RUNNING" \/ pc[c] \in {"requeue", "wait"}))
    PROVE  ExecAt(t)' = ExecAt(t)
  BY Zenon DEF ExecAt

-----------------------------------------------------------------------------
(* The lists that queue operations produce. *)

(* s2 has the elements of s in their order, each no further back. *)
Forward(s, s2) == \A i \in 1..Len(s), j \in 1..Len(s2) : s[i] = s2[j] => j <= i

(* A task that is not in a list is appended to it. *)
LEMMA AppendList ==
    ASSUME NEW S, NEW s \in Seq(S), NEW e \in S, e \notin Range(s), IsInjective(s)
    PROVE  /\ Append(s, e) \in Seq(S) /\ Len(Append(s, e)) = Len(s) + 1
           /\ Range(Append(s, e)) = Range(s) \cup {e} /\ IsInjective(Append(s, e))
           /\ Forward(s, Append(s, e))
  <1> DEFINE a == Append(s, e)
  <1>1. /\ a \in Seq(S) /\ Len(a) = Len(s) + 1 /\ Len(s) \in Nat /\ a[Len(s) + 1] = e
        /\ \A i \in 1..Len(s) : a[i] = s[i]
        /\ DOMAIN s = 1..Len(s) /\ DOMAIN a = 1..Len(s) + 1
    OBVIOUS
  <1> HIDE DEF a
  <1>2. \A i \in 1..Len(s) : s[i] # e
    BY <1>1, Zenon DEF Range
  <1>3. \A i \in 1..Len(s) + 1 : i \in 1..Len(s) \/ i = Len(s) + 1
    BY <1>1
  <1>4. Range(a) = Range(s) \cup {e}
    <2>1. Range(a) \subseteq Range(s) \cup {e}
      BY <1>1, <1>3, Zenon DEF Range
    <2>2. \A i \in 1..Len(s) : i \in 1..Len(s) + 1
      BY <1>1
    <2>3. Len(s) + 1 \in 1..Len(s) + 1
      BY <1>1
    <2>4. Range(s) \cup {e} \subseteq Range(a)
      BY <1>1, <2>2, <2>3, Zenon DEF Range
    <2> QED
      BY <2>1, <2>4, Zenon
  <1>5. IsInjective(a)
    BY <1>1, <1>2, <1>3, Zenon DEF IsInjective
  <1>6. Forward(s, a)
    <2>1. ASSUME NEW i \in 1..Len(s), NEW j \in 1..Len(s) + 1, s[i] = a[j] PROVE j <= i
      <3>1. j \in 1..Len(s)
        BY <1>1, <1>2, <1>3, <2>1, Zenon
      <3>2. s[i] = s[j]
        BY <1>1, <2>1, <3>1, Zenon
      <3>3. i = j
        BY <1>1, <3>1, <3>2, Zenon DEF IsInjective
      <3> QED
        BY <3>1, <3>3
    <2> QED
      BY <1>1, <2>1, Zenon DEF Forward
  <1> QED
    BY <1>1, <1>4, <1>5, <1>6, Zenon DEF a

(* The first task is taken off a list. *)
LEMMA TailList ==
    ASSUME NEW S, NEW s \in Seq(S), s # <<>>, IsInjective(s)
    PROVE  /\ Tail(s) \in Seq(S) /\ Len(Tail(s)) = Len(s) - 1
           /\ Head(s) \in S /\ Head(s) \in Range(s)
           /\ Range(Tail(s)) = Range(s) \ {Head(s)} /\ IsInjective(Tail(s))
           /\ Forward(s, Tail(s))
  <1> DEFINE a == Tail(s)
  <1>1. /\ a \in Seq(S) /\ Len(a) = Len(s) - 1 /\ Len(s) \in Nat \ {0} /\ Head(s) = s[1]
        /\ \A i \in 1..Len(s) - 1 : a[i] = s[i + 1]
        /\ DOMAIN s = 1..Len(s) /\ DOMAIN a = 1..Len(s) - 1
    OBVIOUS
  <1> HIDE DEF a
  <1>2. \A i \in 1..Len(s) - 1 : i + 1 \in 1..Len(s) /\ i + 1 # 1
    BY <1>1
  <1>3. 1 \in 1..Len(s) /\ \A i \in 1..Len(s) : i # 1 => i - 1 \in 1..Len(s) - 1 /\ (i - 1) + 1 = i
    BY <1>1
  <1>4. Head(s) \in S /\ Head(s) \in Range(s)
    BY <1>1, <1>3 DEF Range
  <1>5. Range(a) \subseteq Range(s) \ {Head(s)}
    <2>1. ASSUME NEW i \in 1..Len(s) - 1 PROVE a[i] \in Range(s) /\ a[i] # Head(s)
      BY <1>1, <1>2, <1>3 DEF Range, IsInjective
    <2> QED
      BY <1>1, <2>1, Zenon DEF Range
  <1>6. Range(s) \ {Head(s)} \subseteq Range(a)
    <2>1. ASSUME NEW i \in 1..Len(s), s[i] # Head(s) PROVE s[i] \in Range(a)
      <3>1. i # 1
        BY <1>1, <2>1, Zenon
      <3>2. i - 1 \in 1..Len(s) - 1 /\ a[i - 1] = s[i]
        BY <1>1, <1>3, <3>1, Zenon
      <3> QED
        BY <1>1, <3>2, Zenon DEF Range
    <2> QED
      BY <1>1, <2>1, Zenon DEF Range
  <1>7. IsInjective(a)
    <2>1. ASSUME NEW i \in 1..Len(s) - 1, NEW j \in 1..Len(s) - 1, a[i] = a[j] PROVE i = j
      <3>0. i + 1 \in DOMAIN s /\ j + 1 \in DOMAIN s /\ s[i + 1] = s[j + 1]
        BY <1>1, <1>2, <2>1, Zenon
      <3>1. i + 1 = j + 1
        BY <3>0, Zenon DEF IsInjective
      <3> QED
        BY <3>1
    <2> QED
      BY <1>1, <2>1, Zenon DEF IsInjective
  <1>8. Forward(s, a)
    <2>1. ASSUME NEW i \in 1..Len(s), NEW j \in 1..Len(s) - 1, s[i] = a[j] PROVE j <= i
      <3>1. i = j + 1
        BY <1>1, <1>2, <2>1, Zenon DEF IsInjective
      <3> QED
        BY <3>1
    <2> QED
      BY <1>1, <2>1, Zenon DEF Forward
  <1> QED
    BY <1>1, <1>4, <1>5, <1>6, <1>7, <1>8, Zenon DEF a

(* The parts of a list before and after a place in it. *)
LEMMA Parts ==
    ASSUME NEW S, NEW s \in Seq(S), NEW m \in 1..Len(s) + 1, NEW q \in 0..Len(s), m <= q + 1
    PROVE  /\ SubSeq(s, m, q) \in Seq(S) /\ Len(SubSeq(s, m, q)) = q - m + 1
           /\ \A i \in 1..q - m + 1 : SubSeq(s, m, q)[i] = s[m + i - 1]
  OBVIOUS

(* Two lists in a row, place by place. *)
LEMMA InARow ==
    ASSUME NEW S, NEW u \in Seq(S), NEW v \in Seq(S)
    PROVE  /\ u \o v \in Seq(S) /\ Len(u \o v) = Len(u) + Len(v)
           /\ \A i \in 1..Len(u) + Len(v) : (u \o v)[i] = IF i <= Len(u) THEN u[i] ELSE v[i - Len(u)]
  OBVIOUS

(* A list without the element at place k: elements after it move up. *)
LEMMA WithoutOne ==
    ASSUME NEW S, NEW s \in Seq(S), NEW k \in 1..Len(s)
    PROVE  /\ Without(s, k) \in Seq(S) /\ Len(Without(s, k)) = Len(s) - 1
           /\ \A i \in 1..Len(s) - 1 : Without(s, k)[i] = s[IF i < k THEN i ELSE i + 1]
  <1>1. PICK p \in 0..Len(s), m \in 1..Len(s) + 1, n \in Nat : p = k - 1 /\ m = k + 1 /\ n = Len(s)
    <2>1. k - 1 \in 0..Len(s) /\ k + 1 \in 1..Len(s) + 1 /\ Len(s) \in Nat
      OBVIOUS
    <2> QED
      BY <2>1, Zenon
  <1> DEFINE u == SubSeq(s, 1, p)
             v == SubSeq(s, m, n)
  <1>2. u \in Seq(S) /\ Len(u) = p /\ \A i \in 1..p : u[i] = s[i]
    <2>1. 1 \in 1..Len(s) + 1 /\ 1 <= p + 1
      BY <1>1
    <2>2. u \in Seq(S) /\ Len(u) = p - 1 + 1 /\ \A i \in 1..p - 1 + 1 : u[i] = s[1 + i - 1]
      BY <2>1, Parts, Zenon
    <2> HIDE DEF u
    <2>3. p - 1 + 1 = p /\ \A i \in 1..p : 1 + i - 1 = i
      BY <1>1
    <2> QED
      BY <2>2, <2>3, Zenon
  <1>3. v \in Seq(S) /\ Len(v) = n - k /\ \A i \in 1..n - k : v[i] = s[k + i]
    <2>1. n \in 0..Len(s) /\ m <= n + 1
      BY <1>1
    <2>2. v \in Seq(S) /\ Len(v) = n - m + 1 /\ \A i \in 1..n - m + 1 : v[i] = s[m + i - 1]
      BY <2>1, Parts, Zenon
    <2> HIDE DEF v
    <2>3. n - m + 1 = n - k /\ \A i \in 1..n - k : m + i - 1 = k + i
      BY <1>1
    <2> QED
      BY <2>2, <2>3, Zenon
  <1>4. Without(s, k) = u \o v
    BY <1>1, Zenon DEF Without
  <1> HIDE DEF u, v
  <1>5. k \in 1..n /\ p = k - 1 /\ n = Len(s)
    BY <1>1, Zenon
  <1>6. /\ u \o v \in Seq(S) /\ Len(u \o v) = n - 1
        /\ \A i \in 1..n - 1 : (u \o v)[i] = (IF i <= p THEN u[i] ELSE v[i - p])
    <2>1. Len(u) = p /\ Len(u) + Len(v) = n - 1
      BY <1>2, <1>3, <1>5
    <2>2. /\ u \o v \in Seq(S) /\ Len(u \o v) = Len(u) + Len(v)
          /\ \A i \in 1..Len(u) + Len(v) : (u \o v)[i] = IF i <= Len(u) THEN u[i] ELSE v[i - Len(u)]
      BY <1>2, <1>3, InARow, Zenon
    <2> QED
      BY <2>1, <2>2, Zenon
  <1>7. ASSUME NEW i \in 1..n - 1 PROVE (u \o v)[i] = s[IF i < k THEN i ELSE i + 1]
    <2>1. CASE i < k
      <3>1. i \in 1..p /\ i <= p
        BY <1>5, <2>1
      <3> QED
        BY <1>2, <1>6, <2>1, <3>1, Zenon
    <2>2. CASE ~(i < k)
      <3>1. i - p \in 1..n - k /\ ~(i <= p) /\ k + (i - p) = i + 1
        BY <1>5, <2>2
      <3> QED
        BY <1>3, <1>6, <2>2, <3>1, Zenon
    <2> QED
      BY <2>1, <2>2, Zenon
  <1> QED
    BY <1>4, <1>5, <1>6, <1>7, Zenon

(* A task is taken out of the middle of a list. *)
LEMMA RemoveList ==
    ASSUME NEW S, NEW s \in Seq(S), NEW k \in 1..Len(s), NEW e, e = s[k], IsInjective(s)
    PROVE  /\ Without(s, k) \in Seq(S) /\ Len(Without(s, k)) = Len(s) - 1
           /\ Range(Without(s, k)) = Range(s) \ {e} /\ IsInjective(Without(s, k))
           /\ Forward(s, Without(s, k))
  <1> DEFINE a == Without(s, k)
             n == Len(s)
             f(i) == IF i < k THEN i ELSE i + 1
  <1>1. k \in 1..n /\ s[k] = e /\ n \in Nat /\ DOMAIN s = 1..n /\ \A i \in 1..n : s[i] \in S
    OBVIOUS
  <1>5. /\ a \in Seq(S) /\ Len(a) = n - 1 /\ DOMAIN a = 1..n - 1
        /\ \A i \in 1..n - 1 : a[i] = s[f(i)] /\ f(i) \in 1..n /\ f(i) # k
    <2>1. a \in Seq(S) /\ Len(a) = n - 1 /\ \A i \in 1..n - 1 : a[i] = s[f(i)]
      BY <1>1, WithoutOne, Zenon
    <2> HIDE DEF a
    <2>2. DOMAIN a = 1..n - 1
      BY <2>1
    <2>3. \A i \in 1..n - 1 : f(i) \in 1..n /\ f(i) # k
      BY <1>1
    <2> QED
      BY <2>1, <2>2, <2>3, Zenon
  <1> HIDE DEF a
  <1>6. \A i, j \in 1..n - 1 : f(i) = f(j) => i = j
    BY <1>1
  <1>7. Range(a) \subseteq Range(s) \ {e}
    <2>1. ASSUME NEW i \in 1..n - 1 PROVE a[i] \in Range(s) /\ a[i] # e
      BY <1>1, <1>5, Zenon DEF Range, IsInjective
    <2> QED
      BY <1>5, <2>1, Zenon DEF Range
  <1>8. Range(s) \ {e} \subseteq Range(a)
    <2>1. ASSUME NEW i \in 1..n, s[i] # e PROVE s[i] \in Range(a)
      <3>1. CASE i < k
        <4>1. i \in 1..n - 1 /\ a[i] = s[i]
          BY <1>1, <1>5, <3>1
        <4> QED
          BY <1>5, <4>1, Zenon DEF Range
      <3>2. CASE i > k
        <4>1. i - 1 \in 1..n - 1 /\ f(i - 1) = i
          BY <1>1, <3>2
        <4>2. a[i - 1] = s[i]
          BY <1>5, <4>1, Zenon
        <4> QED
          BY <1>5, <4>1, <4>2, Zenon DEF Range
      <3> QED
        BY <1>1, <2>1, <3>1, <3>2
    <2> QED
      BY <1>1, <2>1, Zenon DEF Range
  <1>9. IsInjective(a)
    BY <1>1, <1>5, <1>6, Zenon DEF IsInjective
  <1>10. Forward(s, a)
    <2>1. ASSUME NEW i \in 1..n, NEW j \in 1..n - 1, s[i] = a[j] PROVE j <= i
      <3>1. i = f(j)
        BY <1>1, <1>5, <2>1, Zenon DEF IsInjective
      <3> QED
        BY <1>1, <3>1
    <2> QED
      BY <1>5, <2>1, Zenon DEF Forward
  <1> QED
    BY <1>5, <1>7, <1>8, <1>9, <1>10, Zenon DEF a

-----------------------------------------------------------------------------
(* What a step does not touch. *)

(* The fields of task t agree with the list it is in. *)
Agrees(t) ==
    /\ \A c \in RunAt(t) : cpu[t] = c /\ state[t] = "READY" /\ waiting_on[t] = NULL
    /\ \A q \in WaitQueues : q \in WaitAt(t) <=> waiting_on[t] = q
    /\ waiting_on[t] # NULL => state[t] = "BLOCKED"
    /\ state[t] = "RUNNING" => current[cpu[t]] = t

Good(t) ==
    /\ Live(t) => InOne(t)
    /\ ~Live(t) => InNone(t)
    /\ t \in Created => Agrees(t)

(* Task t and where it is do not change. *)
Same(t) ==
    /\ RunAt(t)' = RunAt(t) /\ WaitAt(t)' = WaitAt(t) /\ LocalAt(t)' = LocalAt(t)
    /\ ExecAt(t)' = ExecAt(t) /\ (t \in parked' <=> t \in parked)
    /\ state'[t] = state[t] /\ waiting_on'[t] = waiting_on[t] /\ cpu'[t] = cpu[t]

(* FieldsAgree, task by task. *)
LEMMA AgreesIs == FieldsAgree <=> \A t \in Created : Agrees(t)
  BY Zenon DEF FieldsAgree, Agrees, RunAt, WaitAt

(* Placed and FieldsAgree, task by task. *)
LEMMA GoodIs == Placed /\ FieldsAgree <=> \A t \in Tasks : Good(t)
  BY AgreesIs, Zenon DEF Placed, Good, Created

(* The same in the next state. *)
LEMMA GoodIsNext == Placed' /\ FieldsAgree' <=> \A t \in Tasks : Good(t)'
  <1>1. FieldsAgree' <=> \A t \in Created' : Agrees(t)'
    BY Zenon DEF FieldsAgree, Agrees, RunAt, WaitAt
  <1> QED
    BY <1>1, Zenon DEF Placed, Good, Created

(* A task that does not change stays as it should be. *)
LEMMA SameGood == ASSUME TypeOK, NEW t \in Tasks, Good(t), Same(t) PROVE Good(t)'
  <1>1. Live(t)' <=> Live(t)
    BY Zenon DEF Live, Created, Same
  <1>2. (Live(t) => InOne(t))' /\ (~Live(t) => InNone(t))'
    BY <1>1, Zenon DEF Good, Same, InOne, InNone, Single
  <1>3. ASSUME t \in Created' PROVE Agrees(t)'
    <2>1. t \in Created /\ Agrees(t)
      BY <1>3, Zenon DEF Good, Same, Created
    <2>2. state[t] = "RUNNING" => current'[cpu[t]] = t
      <3> SUFFICES ASSUME state[t] = "RUNNING" PROVE current'[cpu[t]] = t
        OBVIOUS
      <3>1. cpu[t] \in CPUs
        BY <2>1, Zenon DEF TypeOK, Created
      <3>2. cpu[t] \in ExecAt(t)
        BY <2>1, <3>1, Zenon DEF Agrees, ExecAt
      <3>3. cpu[t] \in ExecAt(t)'
        BY <3>2, Zenon DEF Same
      <3> QED
        BY <3>3, Zenon DEF ExecAt
    <2> QED
      BY <2>1, <2>2, Zenon DEF Agrees, Same
  <1> QED
    BY <1>2, <1>3, Zenon DEF Good

(* A step that changes at most one task keeps Placed and FieldsAgree if    *)
(* that task stays as it should be.                                        *)
LEMMA Frame ==
    ASSUME TypeOK, Placed, FieldsAgree, NEW u, u \in Tasks => Good(u)',
           \A t \in Tasks \ {u} : Same(t)
    PROVE  Placed' /\ FieldsAgree'
  <1>1. \A t \in Tasks : Good(t)
    BY GoodIs, Zenon
  <1>2. \A t \in Tasks : Good(t)'
    BY <1>1, SameGood, Zenon
  <1> QED
    BY <1>2, GoodIsNext, Zenon

(* A step of CPU c leaves alone the tasks that the others work on. *)
Apart(c) ==
    \A d \in CPUs \ {c} :
        /\ current'[d] = current[d] /\ pc'[d] = pc[d] /\ arg'[d] = arg[d] /\ wq'[d] = wq[d]
        /\ current[d] \in Tasks => /\ state'[current[d]] = state[current[d]]
                                   /\ cpu'[current[d]] = cpu[current[d]]
        /\ arg[d] \in Tasks => /\ pc[d] # "remove" => state'[arg[d]] = state[arg[d]]
                               /\ cpu'[arg[d]] = cpu[arg[d]]
        /\ Range(runnables[d]) \subseteq Range(runnables'[d])

(* Such a step keeps what the code of other CPUs relies on. *)
LEMMA OthersFit ==
    ASSUME Fits, NEW c \in CPUs, CurrentFits(c)', ArgFits(c)', Apart(c)
    PROVE  Fits'
  <1>1. ASSUME NEW d \in CPUs \ {c} PROVE CurrentFits(d)'
    BY <1>1 DEF Fits, CurrentFits, Apart
  <1>2. ASSUME NEW d \in CPUs \ {c} PROVE ArgFits(d)'
    BY <1>2 DEF Fits, ArgFits, Apart
  <1> QED
    BY <1>1, <1>2, Zenon DEF Fits

(* A step of CPU c that changes its own place in the code only. *)
LEMMA Quiet ==
    ASSUME IInv, TypeOK', NEW c \in CPUs,
           UNCHANGED <<state, waiting_on, cpu, parked, runnables, count, waiters, current>>,
           \A d \in CPUs \ {c} : /\ pc'[d] = pc[d] /\ arg'[d] = arg[d] /\ wq'[d] = wq[d]
                                 /\ fault'[d] = fault[d],
           fault'[c] \in {0, 30, 131, 200},
           \A t \in Tasks : (arg'[c] = t /\ pc'[c] # "remove") <=> (arg[c] = t /\ pc[c] # "remove"),
           pc[c] \notin {"requeue", "wait"}, pc'[c] \notin {"requeue", "wait"},
           CurrentFits(c)', ArgFits(c)'
    PROVE  IInv'
  <1>1. ASSUME NEW t \in Tasks PROVE Same(t)
    <2>1. RunAt(t)' = RunAt(t) /\ WaitAt(t)' = WaitAt(t)
      BY SameRun, SameWait, Zenon
    <2>2. LocalAt(t)' = LocalAt(t)
      BY SameLocal
    <2>3. ExecAt(t)' = ExecAt(t)
      BY DEF ExecAt
    <2> QED
      BY <2>1, <2>2, <2>3, Zenon DEF Same
  <1>2. Placed' /\ FieldsAgree'
    BY <1>1, SchedulerAssumption, Frame, Zenon DEF IInv
  <1>3. Lists'
    BY Zenon DEF IInv, Lists
  <1>4. Fits'
    <2>1. Apart(c)
      BY DEF Apart
    <2> QED
      BY <2>1, OthersFit, Zenon DEF IInv
  <1>5. AssertsHold'
    BY Zenon DEF IInv, AssertsHold
  <1> QED
    BY <1>2, <1>3, <1>4, <1>5, Zenon DEF IInv

-----------------------------------------------------------------------------
(* Where the tasks are that a CPU's code works on. *)

(* The current task of a CPU that executes it, or is about to queue it, is *)
(* nowhere else.                                                           *)
LEMMA CurrentAlone ==
    ASSUME IInv, NEW c \in CPUs, NEW t, t = current[c], t \in Tasks,
           state[t] = "RUNNING" \/ pc[c] \in {"requeue", "wait"}
    PROVE  /\ Live(t) /\ RunAt(t) = {} /\ WaitAt(t) = {} /\ LocalAt(t) = {} /\ ExecAt(t) = {c}
           /\ t \notin parked /\ cpu[t] = c /\ t \in Created /\ waiting_on[t] = NULL
           /\ \A d \in CPUs : (current[d] = t => d = c) /\ (arg[d] = t => pc[d] = "remove")
  <1>1. c \in ExecAt(t)
    BY Zenon DEF ExecAt
  <1>2. /\ Live(t) /\ RunAt(t) = {} /\ WaitAt(t) = {} /\ LocalAt(t) = {} /\ ExecAt(t) = {c}
        /\ t \notin parked
    BY <1>1, PlaceIs, Zenon DEF IInv
  <1>3. \A d \in CPUs : current[d] = t => cpu[t] = d
    BY Zenon DEF IInv, Fits, CurrentFits
  <1>4. \A d \in CPUs : arg[d] = t => pc[d] = "remove"
    BY <1>2, Zenon DEF LocalAt
  <1>5. t \in Created /\ Agrees(t)
    BY <1>2, AgreesIs, Zenon DEF Live, IInv
  <1>6. waiting_on[t] = NULL
    BY <1>2, <1>5, Zenon DEF Agrees, IInv, TypeOK
  <1> QED
    BY <1>2, <1>3, <1>4, <1>5, <1>6, Zenon

(* The task that a CPU's code moves is nowhere else, and not running. *)
LEMMA ArgAlone ==
    ASSUME IInv, NEW c \in CPUs, NEW t, t = arg[c], t \in Tasks, pc[c] # "remove"
    PROVE  /\ Live(t) /\ RunAt(t) = {} /\ WaitAt(t) = {} /\ LocalAt(t) = {c} /\ ExecAt(t) = {}
           /\ t \notin parked /\ t \in Created /\ cpu[t] \in CPUs /\ waiting_on[t] = NULL
           /\ state[t] \in {"READY", "BLOCKED"}
           /\ \A d \in CPUs : arg[d] = t /\ pc[d] # "remove" => d = c
  <1>1. c \in LocalAt(t)
    BY Zenon DEF LocalAt
  <1>2. /\ Live(t) /\ RunAt(t) = {} /\ WaitAt(t) = {} /\ LocalAt(t) = {c} /\ ExecAt(t) = {}
        /\ t \notin parked
    BY <1>1, PlaceIs, Zenon DEF IInv
  <1>3. \A d \in CPUs : arg[d] = t /\ pc[d] # "remove" => d = c
    BY <1>2 DEF LocalAt
  <1>4. t \in Created /\ Agrees(t) /\ cpu[t] \in CPUs
    BY <1>2, AgreesIs, Zenon DEF Live, IInv, TypeOK, Created
  <1>5. waiting_on[t] = NULL
    BY <1>2, <1>4, Zenon DEF Agrees, IInv, TypeOK
  <1>6. state[t] # "RUNNING"
    BY <1>2, <1>4, Zenon DEF Agrees, ExecAt
  <1>7. state[t] \in States /\ state[t] # "DEAD"
    BY <1>2, Zenon DEF IInv, TypeOK, Live
  <1> QED
    BY <1>2, <1>3, <1>4, <1>5, <1>6, <1>7, Zenon DEF States

(* A task in a run queue is nowhere else. *)
LEMMA QueuedAlone ==
    ASSUME IInv, NEW c \in CPUs, NEW t \in Tasks, t \in Range(runnables[c])
    PROVE  /\ Live(t) /\ RunAt(t) = {c} /\ WaitAt(t) = {} /\ LocalAt(t) = {} /\ ExecAt(t) = {}
           /\ t \notin parked /\ t \in Created /\ cpu[t] = c /\ waiting_on[t] = NULL
           /\ state[t] = "READY"
  <1>1. c \in RunAt(t)
    BY Zenon DEF RunAt
  <1>2. /\ Live(t) /\ RunAt(t) = {c} /\ WaitAt(t) = {} /\ LocalAt(t) = {} /\ ExecAt(t) = {}
        /\ t \notin parked
    BY <1>1, PlaceIs, Zenon DEF IInv
  <1>3. t \in Created /\ Agrees(t)
    BY <1>2, AgreesIs, Zenon DEF Live, IInv
  <1> QED
    BY <1>1, <1>2, <1>3, Zenon DEF Agrees

(* A step of CPU c that moves task u and leaves the others alone. *)
LEMMA Moves ==
    ASSUME IInv, NEW c \in CPUs, NEW u \in Tasks, TypeOK', Lists', Good(u)',
           \A t \in Tasks \ {u} : Same(t), CurrentFits(c)', ArgFits(c)', Apart(c), AssertsHold'
    PROVE  IInv'
  <1>1. Placed' /\ FieldsAgree'
    BY Frame, Zenon DEF IInv
  <1>2. Fits'
    BY OthersFit, Zenon DEF IInv
  <1> QED
    BY <1>1, <1>2, Zenon DEF IInv

(* A step of CPU c that leaves every task where it is. *)
LEMMA Stays ==
    ASSUME IInv, NEW c \in CPUs, TypeOK', Lists', \A t \in Tasks : Same(t),
           CurrentFits(c)', ArgFits(c)', Apart(c), AssertsHold'
    PROVE  IInv'
  <1>1. Placed' /\ FieldsAgree'
    BY SchedulerAssumption, Frame, Zenon DEF IInv
  <1>2. Fits'
    BY OthersFit, Zenon DEF IInv
  <1> QED
    BY <1>1, <1>2, Zenon DEF IInv

-----------------------------------------------------------------------------
(* Going on in the code. *)

(* What Goto does. *)
LEMMA GotoIs ==
    ASSUME TypeOK, NEW c \in CPUs, NEW to \in PCs, Goto(c, to)
    PROVE  /\ pc' \in [CPUs -> PCs] /\ pc'[c] = to /\ \A d \in CPUs \ {c} : pc'[d] = pc[d]
           /\ fault' \in [CPUs -> Nat] /\ fault' = fault
  BY Zenon DEF TypeOK, Goto

(* What a single failing ASSERT does. *)
LEMMA PanicIs ==
    ASSUME TypeOK, NEW c \in CPUs, NEW line \in Nat, NEW failed, failed = {line}, Panic(c, failed)
    PROVE  /\ pc' \in [CPUs -> PCs] /\ pc'[c] = "panic" /\ \A d \in CPUs \ {c} : pc'[d] = pc[d]
           /\ fault' \in [CPUs -> Nat] /\ fault'[c] = line
           /\ \A d \in CPUs \ {c} : fault'[d] = fault[d]
  <1>1. (CHOOSE l \in failed : \A m \in failed : l <= m) = line
    OBVIOUS
  <1>2. "panic" \in PCs
    BY Zenon DEF PCs
  <1> QED
    BY <1>1, <1>2, Zenon DEF TypeOK, Panic

-----------------------------------------------------------------------------
(* The run queues after an operation on one of them. *)

RunTyped ==
    /\ DOMAIN runnables = CPUs /\ count \in [CPUs -> Int]
    /\ \A d \in CPUs : /\ runnables[d] \in Seq(Tasks) /\ IsInjective(runnables[d])
                       /\ count[d] = Len(runnables[d])

(* The invariant contains what RunTyped says. *)
LEMMA RunTypedHolds == ASSUME IInv PROVE RunTyped
  BY Zenon DEF IInv, TypeOK, Lists, RunTyped

(* A list that does not change does not move its tasks back. *)
LEMMA ForwardSame == ASSUME NEW S, NEW s \in Seq(S), IsInjective(s) PROVE Forward(s, s)
  BY DEF Forward, IsInjective

(* Task u is queued on CPU e. *)
QueuedOn(u, e) ==
    /\ runnables' = [runnables EXCEPT ![e] = Append(@, u)]
    /\ count' = [count EXCEPT ![e] = @ + 1]

(* The queue of CPU e is longer by task u and otherwise as before. *)
LEMMA RunAppend ==
    ASSUME IInv, NEW u \in Tasks, NEW e \in CPUs, RunAt(u) = {}, QueuedOn(u, e)
    PROVE  /\ RunTyped' /\ RunAt(u)' = {e} /\ \A t \in Tasks \ {u} : RunAt(t)' = RunAt(t)
           /\ \A d \in CPUs : Range(runnables[d]) \subseteq Range(runnables'[d])
           /\ \A d \in CPUs : Forward(runnables[d], runnables'[d])
  <1>1. RunTyped
    BY RunTypedHolds, Zenon
  <1>2. u \notin Range(runnables[e])
    BY Zenon DEF RunAt
  <1>3. PICK s \in Seq(Tasks) :
            /\ s = Append(runnables[e], u) /\ Len(s) = Len(runnables[e]) + 1
            /\ Range(s) = Range(runnables[e]) \cup {u} /\ IsInjective(s)
            /\ Forward(runnables[e], s)
    <2>1. runnables[e] \in Seq(Tasks) /\ IsInjective(runnables[e])
      BY <1>1, Zenon DEF RunTyped
    <2> DEFINE s == Append(runnables[e], u)
    <2>2. /\ s \in Seq(Tasks) /\ Len(s) = Len(runnables[e]) + 1
          /\ Range(s) = Range(runnables[e]) \cup {u} /\ IsInjective(s)
          /\ Forward(runnables[e], s)
      BY <1>2, <2>1, AppendList, Zenon
    <2>3. s = Append(runnables[e], u)
      OBVIOUS
    <2> HIDE DEF s
    <2> QED
      BY <2>2, <2>3, Zenon
  <1>4. /\ runnables'[e] = s /\ count'[e] = count[e] + 1
        /\ \A d \in CPUs \ {e} : runnables'[d] = runnables[d] /\ count'[d] = count[d]
        /\ DOMAIN runnables' = CPUs /\ count' \in [CPUs -> Int]
    BY <1>1, <1>3 DEF RunTyped, QueuedOn
  <1>5. ASSUME NEW d \in CPUs
        PROVE  /\ runnables'[d] \in Seq(Tasks) /\ IsInjective(runnables'[d])
               /\ count'[d] = Len(runnables'[d])
               /\ Range(runnables'[d]) = Range(runnables[d]) \cup (IF d = e THEN {u} ELSE {})
               /\ Forward(runnables[d], runnables'[d])
    <2>1. CASE d = e
      <3>1. runnables'[d] = s /\ count'[d] = Len(s)
        BY <1>1, <1>3, <1>4, <2>1, Zenon DEF RunTyped
      <3> QED
        BY <1>3, <2>1, <3>1, Zenon
    <2>2. CASE d # e
      BY <1>1, <1>4, <2>2, ForwardSame, Zenon DEF RunTyped
    <2> QED
      BY <2>1, <2>2, Zenon
  <1>6. RunTyped'
    BY <1>4, <1>5, Zenon DEF RunTyped
  <1>7. \A d \in CPUs : u \notin Range(runnables[d])
    BY Zenon DEF RunAt
  <1>8. RunAt(u)' = {e}
    BY <1>5, <1>7, Zenon DEF RunAt
  <1>9. \A t \in Tasks \ {u} : RunAt(t)' = RunAt(t)
    <2>1. \A t \in Tasks \ {u}, d \in CPUs : t \in Range(runnables'[d]) <=> t \in Range(runnables[d])
      BY <1>5, Zenon
    <2> QED
      BY <2>1, Zenon DEF RunAt
  <1> QED
    BY <1>5, <1>6, <1>8, <1>9, Zenon

(* The queue of CPU c becomes s, which has all of its tasks but u. *)
TakenOff(u, c, s) ==
    /\ Len(s) = Len(runnables[c]) - 1 /\ Range(s) = Range(runnables[c]) \ {u} /\ IsInjective(s)
    /\ Forward(runnables[c], s) /\ u \in Range(runnables[c])
    /\ runnables' = [runnables EXCEPT ![c] = s] /\ count' = [count EXCEPT ![c] = @ - 1]

(* Task u leaves the queue of CPU c. *)
LEMMA RunRemove ==
    ASSUME IInv, NEW u \in Tasks, NEW c \in CPUs, NEW s \in Seq(Tasks), TakenOff(u, c, s)
    PROVE  /\ RunTyped' /\ RunAt(u)' = {} /\ \A t \in Tasks \ {u} : RunAt(t)' = RunAt(t)
           /\ \A d \in CPUs \ {c} : runnables'[d] = runnables[d]
           /\ \A d \in CPUs : Forward(runnables[d], runnables'[d])
  <1>1. RunTyped /\ RunAt(u) = {c}
    BY RunTypedHolds, QueuedAlone, Zenon DEF TakenOff
  <1>2. /\ runnables'[c] = s /\ count'[c] = count[c] - 1
        /\ \A d \in CPUs \ {c} : runnables'[d] = runnables[d] /\ count'[d] = count[d]
        /\ DOMAIN runnables' = CPUs /\ count' \in [CPUs -> Int]
    BY <1>1 DEF RunTyped, TakenOff
  <1>3. ASSUME NEW d \in CPUs
        PROVE  /\ runnables'[d] \in Seq(Tasks) /\ IsInjective(runnables'[d])
               /\ count'[d] = Len(runnables'[d])
               /\ Range(runnables'[d]) = Range(runnables[d]) \ (IF d = c THEN {u} ELSE {})
               /\ Forward(runnables[d], runnables'[d])
    <2>1. CASE d = c
      BY <1>1, <1>2, <2>1, Zenon DEF RunTyped, TakenOff
    <2>2. CASE d # c
      BY <1>1, <1>2, <2>2, ForwardSame, Zenon DEF RunTyped
    <2> QED
      BY <2>1, <2>2, Zenon
  <1>4. RunTyped'
    BY <1>2, <1>3, Zenon DEF RunTyped
  <1>5. \A d \in CPUs : u \in Range(runnables[d]) => d = c
    BY <1>1, Zenon DEF RunAt
  <1>6. RunAt(u)' = {}
    BY <1>3, <1>5, Zenon DEF RunAt
  <1>7. \A t \in Tasks \ {u} : RunAt(t)' = RunAt(t)
    BY <1>3, Zenon DEF RunAt
  <1> QED
    BY <1>2, <1>3, <1>4, <1>6, <1>7, Zenon

(* runqueue_enqueue of a READY task. *)
LEMMA EnqueueIs ==
    ASSUME IInv, NEW c \in CPUs, NEW u \in Tasks, NEW to \in PCs, state[u] = "READY",
           runqueue_enqueue(c, u, to)
    PROVE  /\ QueuedOn(u, cpu[u])
           /\ pc' \in [CPUs -> PCs] /\ pc'[c] = to /\ \A d \in CPUs \ {c} : pc'[d] = pc[d]
           /\ fault' \in [CPUs -> Nat] /\ fault' = fault
  BY GotoIs, Zenon DEF runqueue_enqueue, QueuedOn, IInv

-----------------------------------------------------------------------------
(* The wait queues after an operation on one of them. *)

WaitTyped ==
    /\ DOMAIN waiters = WaitQueues
    /\ \A q \in WaitQueues : waiters[q] \in Seq(Tasks) /\ IsInjective(waiters[q])

(* Wait queue q becomes s. *)
Becomes(q, s) == IsInjective(s) /\ waiters' = [waiters EXCEPT ![q] = s]

(* The other wait queues stay as they are. *)
LEMMA WaitSet ==
    ASSUME IInv, NEW q \in WaitQueues, NEW s \in Seq(Tasks), Becomes(q, s)
    PROVE  /\ WaitTyped'
           /\ \A t \in Tasks, r \in WaitQueues :
                  t \in Range(waiters'[r]) <=> t \in Range(IF r = q THEN s ELSE waiters[r])
  <1>1. WaitTyped
    BY Zenon DEF IInv, TypeOK, Lists, WaitTyped
  <1>2. /\ waiters'[q] = s /\ DOMAIN waiters' = WaitQueues
        /\ \A r \in WaitQueues \ {q} : waiters'[r] = waiters[r]
    BY <1>1, Zenon DEF WaitTyped, Becomes
  <1>3. ASSUME NEW r \in WaitQueues
        PROVE  waiters'[r] \in Seq(Tasks) /\ IsInjective(waiters'[r])
    BY <1>1, <1>2, Zenon DEF WaitTyped, Becomes
  <1> QED
    BY <1>2, <1>3, Zenon DEF WaitTyped

Joins(u, q) == waiters' = [waiters EXCEPT ![q] = Append(@, u)]

(* Task u joins wait queue q. *)
LEMMA WaitAppend ==
    ASSUME IInv, NEW u \in Tasks, NEW q \in WaitQueues, WaitAt(u) = {}, Joins(u, q)
    PROVE  WaitTyped' /\ WaitAt(u)' = {q} /\ \A t \in Tasks \ {u} : WaitAt(t)' = WaitAt(t)
  <1> DEFINE s == Append(waiters[q], u)
  <1>1. waiters[q] \in Seq(Tasks) /\ IsInjective(waiters[q])
    BY Zenon DEF IInv, TypeOK, Lists
  <1>2. \A r \in WaitQueues : u \notin Range(waiters[r])
    BY Zenon DEF WaitAt
  <1>3. s \in Seq(Tasks) /\ Range(s) = Range(waiters[q]) \cup {u} /\ IsInjective(s)
    BY <1>1, <1>2, AppendList, ZenonT(30)
  <1>4. Becomes(q, s)
    BY <1>3, Zenon DEF Becomes, Joins
  <1> HIDE DEF s
  <1>5. /\ WaitTyped'
        /\ \A t \in Tasks, r \in WaitQueues :
               t \in Range(waiters'[r]) <=> t \in Range(IF r = q THEN s ELSE waiters[r])
    BY <1>3, <1>4, WaitSet, Zenon
  <1>6. WaitAt(u)' = {q}
    BY <1>2, <1>3, <1>5, Zenon DEF WaitAt
  <1>7. ASSUME NEW t \in Tasks \ {u} PROVE WaitAt(t)' = WaitAt(t)
    <2>1. \A r \in WaitQueues : t \in Range(waiters'[r]) <=> t \in Range(waiters[r])
      BY <1>3, <1>5, Zenon
    <2> QED
      BY <2>1, Zenon DEF WaitAt
  <1> QED
    BY <1>5, <1>6, <1>7, Zenon

FirstLeaves(q) == waiters[q] # <<>> /\ waiters' = [waiters EXCEPT ![q] = Tail(@)]

(* The first task leaves wait queue q. *)
LEMMA WaitTail ==
    ASSUME IInv, NEW q \in WaitQueues, FirstLeaves(q)
    PROVE  \E u \in Tasks :
               /\ u = Head(waiters[q]) /\ q \in WaitAt(u) /\ WaitTyped' /\ WaitAt(u)' = {}
               /\ \A t \in Tasks \ {u} : WaitAt(t)' = WaitAt(t)
  <1> DEFINE s == Tail(waiters[q])
  <1>1. waiters[q] \in Seq(Tasks) /\ IsInjective(waiters[q])
    BY Zenon DEF IInv, TypeOK, Lists
  <1>2. PICK u \in Tasks : u = Head(waiters[q])
    BY <1>1 DEF FirstLeaves
  <1>3. /\ s \in Seq(Tasks) /\ Range(s) = Range(waiters[q]) \ {u} /\ IsInjective(s)
        /\ u \in Range(waiters[q])
    BY <1>1, <1>2, TailList, Zenon DEF FirstLeaves
  <1>4. Becomes(q, s)
    BY <1>3, Zenon DEF Becomes, FirstLeaves
  <1> HIDE DEF s
  <1>5. /\ WaitTyped'
        /\ \A t \in Tasks, r \in WaitQueues :
               t \in Range(waiters'[r]) <=> t \in Range(IF r = q THEN s ELSE waiters[r])
    BY <1>3, <1>4, WaitSet, Zenon
  <1>6. q \in WaitAt(u) /\ WaitAt(u) = {q}
    <2>1. q \in WaitAt(u)
      BY <1>3, Zenon DEF WaitAt
    <2> QED
      BY <2>1, PlaceIs, Zenon DEF IInv
  <1>7. WaitAt(u)' = {}
    <2>1. \A r \in WaitQueues : u \in Range(waiters[r]) => r = q
      BY <1>6, Zenon DEF WaitAt
    <2>2. \A r \in WaitQueues : u \notin Range(waiters'[r])
      BY <1>3, <1>5, <2>1, Zenon
    <2> QED
      BY <2>2, Zenon DEF WaitAt
  <1>8. ASSUME NEW t \in Tasks \ {u} PROVE WaitAt(t)' = WaitAt(t)
    <2>1. \A r \in WaitQueues : t \in Range(waiters'[r]) <=> t \in Range(waiters[r])
      BY <1>3, <1>5, Zenon
    <2> QED
      BY <2>1, Zenon DEF WaitAt
  <1> QED
    BY <1>2, <1>5, <1>6, <1>7, <1>8, Zenon

-----------------------------------------------------------------------------
(* The calls that tasks make. *)

(* A new task is kept by its creator. *)
LEMMA StepCreate ==
    ASSUME IInv, NEW c \in CPUs, NEW u \in Tasks, NEW d \in CPUs,
           task_manager_create_with_cpu(c, u, d)
    PROVE  IInv'
  <1>1. /\ pc[c] = "run" /\ cpu[u] = NULL
        /\ state' = [state EXCEPT ![u] = "READY"] /\ waiting_on' = [waiting_on EXCEPT ![u] = NULL]
        /\ cpu' = [cpu EXCEPT ![u] = d] /\ parked' = parked \cup {u}
        /\ UNCHANGED <<runnables, count, waiters, current, pc, arg, wq, idle_started, fault>>
    BY Zenon DEF task_manager_create_with_cpu, queueVars, cpuVars, Created
  <1>2. /\ state' \in [Tasks -> States] /\ state'[u] = "READY" /\ waiting_on'[u] = NULL
        /\ waiting_on' \in [Tasks -> WaitQueues \cup {NULL}] /\ cpu' \in [Tasks -> CPUs \cup {NULL}]
        /\ cpu'[u] = d
        /\ \A t \in Tasks \ {u} : /\ state'[t] = state[t] /\ waiting_on'[t] = waiting_on[t]
                                 /\ cpu'[t] = cpu[t]
    BY <1>1, Zenon DEF IInv, TypeOK, States
  <1>3. TypeOK' /\ Lists'
    BY <1>1, <1>2, Zenon DEF IInv, TypeOK, Lists
  <1>4. RunAt(u) = {} /\ WaitAt(u) = {} /\ LocalAt(u) = {}
    <2>1. ~Live(u)
      BY <1>1, Zenon DEF Live, Created
    <2> QED
      BY <2>1, Zenon DEF IInv, Placed, InNone
  <1>5. \A e \in CPUs : current[e] # u /\ arg[e] # u
    <2>1. ASSUME NEW e \in CPUs PROVE current[e] # u
      BY <1>1, SchedulerAssumption DEF IInv, Fits, CurrentFits
    <2>2. ASSUME NEW e \in CPUs PROVE arg[e] # u
      <3>1. arg[e] = u => pc[e] = "remove"
        BY <1>4, Zenon DEF LocalAt
      <3> QED
        BY <1>1, <3>1, SchedulerAssumption DEF IInv, Fits, ArgFits
    <2> QED
      BY <2>1, <2>2, Zenon
  <1>6. \A t \in Tasks : RunAt(t)' = RunAt(t) /\ WaitAt(t)' = WaitAt(t) /\ LocalAt(t)' = LocalAt(t)
    BY <1>1, Zenon DEF RunAt, WaitAt, LocalAt
  <1>7. ExecAt(u)' = {}
    BY <1>1, <1>5, Zenon DEF ExecAt
  <1>8. ASSUME NEW t \in Tasks \ {u} PROVE ExecAt(t)' = ExecAt(t)
    BY <1>1, <1>2, Zenon DEF ExecAt
  <1>9. Good(u)'
    <2>1. Live(u)'
      BY <1>2, SchedulerAssumption, Zenon DEF Live, Created
    <2>2. InOne(u)'
      BY <1>1, <1>4, <1>6, <1>7, Zenon DEF InOne, Single
    <2>3. Agrees(u)'
      BY <1>2, <1>4, <1>6, SchedulerAssumption DEF Agrees
    <2> QED
      BY <2>1, <2>2, <2>3, Zenon DEF Good
  <1>10. \A t \in Tasks \ {u} : Same(t)
    BY <1>1, <1>2, <1>6, <1>8, Zenon DEF Same
  <1>11. CurrentFits(c)' /\ ArgFits(c)'
    <2>1. CurrentFits(c)'
      BY <1>1, <1>2, <1>5, Zenon DEF IInv, Fits, CurrentFits
    <2>2. ArgFits(c)'
      BY <1>1, <1>2, <1>5, Zenon DEF IInv, Fits, ArgFits
    <2> QED
      BY <2>1, <2>2, Zenon
  <1>12. Apart(c)
    BY <1>1, <1>2, <1>5, Zenon DEF Apart
  <1>13. AssertsHold'
    BY <1>1, Zenon DEF IInv, AssertsHold
  <1> QED
    BY <1>3, <1>9, <1>10, <1>11, <1>12, <1>13, Moves, Zenon

(* A caller hands a task it keeps to scheduler_enqueue. *)
LEMMA StepCall == ASSUME IInv, NEW c \in CPUs, NEW u \in Tasks, CallEnqueue(c, u) PROVE IInv'
  <1> USE DEF PCs
  <1>1. /\ pc[c] = "run" /\ u \in parked /\ parked' = parked \ {u}
        /\ arg' = [arg EXCEPT ![c] = u] /\ Goto(c, "enqueue")
        /\ UNCHANGED <<state, waiting_on, cpu, runnables, count, waiters, current, wq, idle_started>>
    BY Zenon DEF CallEnqueue, queueVars
  <1>2. /\ pc' \in [CPUs -> PCs] /\ pc'[c] = "enqueue" /\ \A d \in CPUs \ {c} : pc'[d] = pc[d]
        /\ fault' \in [CPUs -> Nat] /\ fault' = fault
    BY <1>1, GotoIs, Zenon DEF IInv
  <1>3. /\ arg' \in [CPUs -> Tasks \cup {IDLE, NULL}] /\ arg'[c] = u
        /\ \A d \in CPUs \ {c} : arg'[d] = arg[d]
    BY <1>1, Zenon DEF IInv, TypeOK
  <1>4. TypeOK' /\ Lists'
    BY <1>1, <1>2, <1>3, Zenon DEF IInv, TypeOK, Lists
  <1>5. Live(u) /\ RunAt(u) = {} /\ WaitAt(u) = {} /\ LocalAt(u) = {} /\ ExecAt(u) = {}
    BY <1>1, PlaceIs, Zenon DEF IInv
  <1>6. arg[c] \notin Tasks
    BY <1>1, Zenon DEF IInv, Fits, ArgFits
  <1>7. \A t \in Tasks : RunAt(t)' = RunAt(t) /\ WaitAt(t)' = WaitAt(t) /\ ExecAt(t)' = ExecAt(t)
    BY <1>1, <1>2, Zenon DEF RunAt, WaitAt, ExecAt
  <1>8. LocalAt(u)' = {c}
    BY <1>2, <1>3, <1>5, Zenon DEF LocalAt
  <1>9. ASSUME NEW t \in Tasks \ {u} PROVE LocalAt(t)' = LocalAt(t)
    BY <1>2, <1>3, <1>6, Zenon DEF LocalAt
  <1>10. Good(u)'
    <2>1. Live(u)' /\ InOne(u)'
      BY <1>1, <1>5, <1>7, <1>8, Zenon DEF Live, Created, InOne, Single
    <2>2. Agrees(u)
      BY <1>5, AgreesIs, Zenon DEF Live, IInv
    <2>3. Agrees(u)'
      BY <1>1, <1>7, <2>2, Zenon DEF Agrees
    <2> QED
      BY <2>1, <2>3, Zenon DEF Good
  <1>11. \A t \in Tasks \ {u} : Same(t)
    BY <1>1, <1>7, <1>9, Zenon DEF Same
  <1>12. CurrentFits(c)' /\ ArgFits(c)'
    <2>1. CurrentFits(c)'
      BY <1>1, <1>2, <1>3, Zenon DEF IInv, Fits, CurrentFits
    <2>2. ArgFits(c)'
      BY <1>1, <1>2, <1>3 DEF IInv, Fits, ArgFits
    <2> QED
      BY <2>1, <2>2, Zenon
  <1>13. Apart(c)
    BY <1>1, <1>2, <1>3, Zenon DEF Apart
  <1>14. AssertsHold'
    BY <1>2, Zenon DEF IInv, AssertsHold
  <1> QED
    BY <1>4, <1>10, <1>11, <1>12, <1>13, <1>14, Moves, Zenon

(* scheduler_enqueue refuses a BLOCKED task and changes no other. *)
LEMMA StepEnqueue == ASSUME IInv, NEW c \in CPUs, scheduler_enqueue(c) PROVE IInv'
  <1> USE DEF PCs
  <1> DEFINE t == arg[c]
             failed == Failing(28, cpu[t] # NULL) \cup Failing(29, state[t] # "RUNNING")
                       \cup Failing(30, state[t] # "BLOCKED") \cup Failing(31, waiting_on[t] = NULL)
  <1>1. /\ pc[c] = "enqueue"
        /\ failed # {} => Panic(c, failed) /\ UNCHANGED <<state, waiting_on>>
        /\ failed = {} => /\ waiting_on' = [waiting_on EXCEPT ![t] = NULL]
                                   /\ state' = [state EXCEPT ![t] = "READY"]
                                   /\ Goto(c, "insert")
        /\ UNCHANGED <<cpu, parked, queueVars, current, arg, wq, idle_started>>
    BY Zenon DEF scheduler_enqueue
  <1>2. t \in Tasks
    BY <1>1, Zenon DEF IInv, Fits, ArgFits
  <1>3. cpu[t] \in CPUs /\ waiting_on[t] = NULL /\ state[t] \in {"READY", "BLOCKED"}
    BY <1>1, <1>2, ArgAlone, Zenon
  <1>4. cpu[t] # NULL
    BY <1>3, SchedulerAssumption, Zenon
  <1>5. failed = IF state[t] = "BLOCKED" THEN {30} ELSE {}
    BY <1>3, <1>4, Zenon DEF Failing
  <1> HIDE DEF failed
  <1>6. state' = state /\ waiting_on' = waiting_on
    BY <1>1, <1>2, <1>3, <1>5 DEF IInv, TypeOK
  <1>7. /\ pc' \in [CPUs -> PCs] /\ \A d \in CPUs \ {c} : pc'[d] = pc[d] /\ fault'[d] = fault[d]
        /\ fault' \in [CPUs -> Nat] /\ fault'[c] \in {0, 30, 131, 200}
        /\ pc'[c] = "panic" \/ (pc'[c] = "insert" /\ state[t] = "READY")
    <2>1. CASE state[t] = "BLOCKED"
      <3>1. Panic(c, failed) /\ failed = {30} /\ 30 \in Nat
        BY <1>1, <1>5, <2>1, Zenon
      <3> QED
        BY <3>1, PanicIs DEF IInv
    <2>2. CASE state[t] = "READY"
      <3>1. Goto(c, "insert")
        BY <1>1, <1>5, <2>2, Zenon
      <3> QED
        BY <2>2, <3>1, GotoIs DEF IInv, AssertsHold
    <2> QED
      BY <1>3, <2>1, <2>2, Zenon
  <1>8. /\ UNCHANGED <<state, waiting_on, cpu, parked, runnables, count, waiters, current>>
        /\ wq' = wq /\ arg' = arg /\ idle_started' = idle_started
    BY <1>1, <1>6, Zenon DEF queueVars
  <1>9. TypeOK'
    BY <1>7, <1>8, Zenon DEF IInv, TypeOK
  <1>10. CurrentFits(c)' /\ ArgFits(c)'
    <2>1. CurrentFits(c)'
      BY <1>1, <1>2, <1>7, <1>8 DEF IInv, Fits, CurrentFits
    <2>2. ArgFits(c)'
      BY <1>1, <1>2, <1>7, <1>8, Zenon DEF IInv, Fits, ArgFits
    <2> QED
      BY <2>1, <2>2, Zenon
  <1> QED
    BY <1>1, <1>7, <1>8, <1>9, <1>10, Quiet

(* scheduler_enqueue puts the task it was given in the queue of its CPU. *)
LEMMA StepInsert == ASSUME IInv, NEW c \in CPUs, Insert(c) PROVE IInv'
  <1> USE DEF PCs
  <1>1. /\ pc[c] = "insert" /\ arg' = [arg EXCEPT ![c] = NULL]
        /\ UNCHANGED <<taskVars, waiters, current, wq, idle_started>>
    BY Zenon DEF Insert
  <1>2. PICK u \in Tasks : u = arg[c] /\ state[u] = "READY"
    BY <1>1, Zenon DEF IInv, Fits, ArgFits
  <1>21. PICK e \in CPUs : e = cpu[u]
    BY <1>1, <1>2, ArgAlone, Zenon
  <1>3. /\ Live(u) /\ RunAt(u) = {} /\ WaitAt(u) = {} /\ LocalAt(u) = {c} /\ ExecAt(u) = {}
        /\ u \notin parked /\ cpu[u] = e /\ waiting_on[u] = NULL
    BY <1>1, <1>2, <1>21, ArgAlone, Zenon
  <1>4. PICK to \in {"run", "wake"} : runqueue_enqueue(c, u, to)
    BY <1>2, Zenon DEF Insert
  <1>5. /\ QueuedOn(u, e)
        /\ pc' \in [CPUs -> PCs] /\ pc'[c] = to /\ \A d \in CPUs \ {c} : pc'[d] = pc[d]
        /\ fault' \in [CPUs -> Nat] /\ fault' = fault
    BY <1>2, <1>21, <1>4, EnqueueIs
  <1>6. /\ RunTyped' /\ RunAt(u)' = {e} /\ \A t \in Tasks \ {u} : RunAt(t)' = RunAt(t)
        /\ \A d \in CPUs : Range(runnables[d]) \subseteq Range(runnables'[d])
    BY <1>2, <1>3, <1>5, RunAppend, Zenon
  <1>7. /\ UNCHANGED <<state, waiting_on, cpu, parked, waiters, current>>
        /\ wq' = wq /\ idle_started' = idle_started
    BY <1>1, Zenon DEF taskVars
  <1>8. /\ arg' \in [CPUs -> Tasks \cup {IDLE, NULL}] /\ arg'[c] = NULL
        /\ \A d \in CPUs \ {c} : arg'[d] = arg[d]
    BY <1>1, Zenon DEF IInv, TypeOK
  <1>9. TypeOK' /\ Lists'
    BY <1>5, <1>6, <1>7, <1>8, Zenon DEF IInv, TypeOK, Lists, RunTyped
  <1>10. \A t \in Tasks : WaitAt(t)' = WaitAt(t) /\ ExecAt(t)' = ExecAt(t)
    <2>1. pc'[c] \notin {"requeue", "wait"} /\ pc[c] \notin {"requeue", "wait"}
      BY <1>1, <1>5, Zenon
    <2> QED
      BY <1>5, <1>7, <2>1, SameWait, Zenon DEF ExecAt
  <1>11. LocalAt(u)' = {} /\ \A t \in Tasks \ {u} : LocalAt(t)' = LocalAt(t)
    <2>1. \A t \in Tasks : arg'[c] # t
      BY <1>8, SchedulerAssumption, Zenon
    <2>2. \A d \in CPUs \ {c} : arg[d] = u => pc[d] = "remove"
      BY <1>3, Zenon DEF LocalAt
    <2>3. LocalAt(u)' = {}
      BY <1>5, <1>8, <2>1, <2>2, Zenon DEF LocalAt
    <2>4. ASSUME NEW t \in Tasks \ {u} PROVE LocalAt(t)' = LocalAt(t)
      BY <1>2, <1>5, <1>8, <2>1, SameLocal, ZenonT(30)
    <2> QED
      BY <2>3, <2>4, Zenon
  <1>12. Good(u)'
    <2>1. Live(u)' /\ InOne(u)'
      BY <1>2, <1>3, <1>6, <1>7, <1>10, <1>11, Zenon DEF Live, Created, InOne, Single
    <2>2. Agrees(u)'
      BY <1>2, <1>3, <1>6, <1>7, <1>10, SchedulerAssumption DEF Agrees
    <2> QED
      BY <2>1, <2>2, Zenon DEF Good
  <1>13. \A t \in Tasks \ {u} : Same(t)
    BY <1>6, <1>7, <1>10, <1>11, Zenon DEF Same
  <1>14. CurrentFits(c)' /\ ArgFits(c)'
    <2>1. CurrentFits(c)'
      BY <1>1, <1>5, <1>7, <1>8, SchedulerAssumption, Zenon DEF IInv, Fits, CurrentFits
    <2>2. ArgFits(c)'
      BY <1>1, <1>5, <1>7, <1>8, SchedulerAssumption DEF IInv, Fits, ArgFits
    <2> QED
      BY <2>1, <2>2, Zenon
  <1>15. Apart(c)
    BY <1>5, <1>6, <1>7, <1>8, Zenon DEF Apart
  <1>16. AssertsHold'
    BY <1>5, Zenon DEF IInv, AssertsHold
  <1> QED
    BY <1>9, <1>12, <1>13, <1>14, <1>15, <1>16, Moves, Zenon

(* A caller is about to take a task off its own CPU's queue. *)
LEMMA StepDequeue ==
    ASSUME IInv, ~RemoteDequeue, NEW c \in CPUs, NEW t \in Tasks, scheduler_dequeue(c, t)
    PROVE  IInv'
  <1> USE DEF PCs
  <1>1. pc[c] = "run" /\ t \in Range(runnables[c])
    BY Zenon DEF scheduler_dequeue
  <1>2. t \in Created /\ cpu[t] = c /\ state[t] = "READY" /\ waiting_on[t] = NULL
    BY <1>1, QueuedAlone, Zenon
  <1>3. cpu[t] # NULL
    BY <1>2, SchedulerAssumption, Zenon
  <1>4. Failing(45, cpu[t] # NULL) \cup Failing(46, state[t] = "READY")
            \cup Failing(47, waiting_on[t] = NULL) = {}
    BY <1>2, <1>3, Zenon DEF Failing
  <1>5. /\ arg' = [arg EXCEPT ![c] = t] /\ Goto(c, "remove")
        /\ UNCHANGED <<taskVars, queueVars, current, wq, idle_started>>
    BY <1>4, Zenon DEF scheduler_dequeue
  <1>6. /\ pc' \in [CPUs -> PCs] /\ pc'[c] = "remove" /\ \A d \in CPUs \ {c} : pc'[d] = pc[d]
        /\ fault' \in [CPUs -> Nat] /\ fault' = fault
    BY <1>5, GotoIs, Zenon DEF IInv
  <1>7. /\ UNCHANGED <<state, waiting_on, cpu, parked, runnables, count, waiters, current>>
        /\ wq' = wq /\ idle_started' = idle_started
    BY <1>5, Zenon DEF taskVars, queueVars
  <1>8. /\ arg' \in [CPUs -> Tasks \cup {IDLE, NULL}] /\ arg'[c] = t
        /\ \A d \in CPUs \ {c} : arg'[d] = arg[d]
    BY <1>5, Zenon DEF IInv, TypeOK
  <1>9. TypeOK'
    BY <1>6, <1>7, <1>8, Zenon DEF IInv, TypeOK
  <1>10. arg[c] \notin Tasks
    BY <1>1, Zenon DEF IInv, Fits, ArgFits
  <1>11. CurrentFits(c)' /\ ArgFits(c)'
    <2>1. CurrentFits(c)'
      BY <1>1, <1>2, <1>6, <1>7, <1>8, Zenon DEF IInv, Fits, CurrentFits
    <2>2. ArgFits(c)'
      BY <1>1, <1>2, <1>6, <1>7, <1>8, Zenon DEF IInv, Fits, ArgFits
    <2> QED
      BY <2>1, <2>2, Zenon
  <1>12. fault'[c] \in {0, 30, 131, 200}
    BY <1>6, Zenon DEF IInv, AssertsHold
  <1> QED
    BY <1>1, <1>6, <1>7, <1>8, <1>9, <1>10, <1>11, <1>12, Quiet

(* runqueue_remove takes the task it was given off its CPU's queue. *)
LEMMA RemoveTakes ==
    ASSUME IInv, NEW c \in CPUs, runqueue_remove(c), NEW u \in Tasks, u = arg[c], cpu[u] = c,
           u \in Range(runnables[c])
    PROVE  \E s \in Seq(Tasks) : TakenOff(u, c, s)
  <1>0. count' = [count EXCEPT ![c] = @ - 1]
    BY Zenon DEF runqueue_remove
  <1> DEFINE list == runnables[c]
             k == CHOOSE i \in DOMAIN list : list[i] = u
  <1>1. list \in Seq(Tasks) /\ IsInjective(list)
    BY RunTypedHolds, Zenon DEF RunTyped
  <1>2. runnables' = [runnables EXCEPT ![c] = Without(list, k)]
    BY Zenon DEF runqueue_remove
  <1> HIDE DEF list
  <1>3. k \in DOMAIN list /\ list[k] = u
    <2>1. \E i \in DOMAIN list : list[i] = u
      BY Zenon DEF Range, list
    <2> QED
      BY <2>1, Zenon
  <1>4. PICK m \in 1..Len(list) : m = k /\ u = list[m]
    BY <1>1, <1>3
  <1> HIDE DEF k
  <1>5. /\ Without(list, m) \in Seq(Tasks) /\ Len(Without(list, m)) = Len(list) - 1
        /\ Range(Without(list, m)) = Range(list) \ {u} /\ IsInjective(Without(list, m))
        /\ Forward(list, Without(list, m))
    BY <1>1, <1>4, RemoveList
  <1>6. runnables' = [runnables EXCEPT ![c] = Without(list, m)]
    BY <1>2, <1>4, Zenon
  <1>7. TakenOff(u, c, Without(list, m))
    BY <1>0, <1>5, <1>6, Zenon DEF list, TakenOff
  <1> QED
    BY <1>5, <1>7, Zenon

(* A caller takes a task off its CPU's queue and keeps it. *)
LEMMA StepRemove == ASSUME IInv, NEW c \in CPUs, runqueue_remove(c) PROVE IInv'
  <1> USE DEF PCs
  <1>1. /\ pc[c] = "remove" /\ Goto(c, "run") /\ arg' = [arg EXCEPT ![c] = NULL]
        /\ UNCHANGED <<state, waiting_on, cpu, waiters, current, wq, idle_started>>
    BY Zenon DEF runqueue_remove
  <1>2. PICK u \in Tasks : u = arg[c] /\ cpu[u] = c /\ u \in Range(runnables[c])
    BY <1>1, Zenon DEF IInv, Fits, ArgFits
  <1>3. /\ Live(u) /\ RunAt(u) = {c} /\ WaitAt(u) = {} /\ LocalAt(u) = {} /\ ExecAt(u) = {}
        /\ waiting_on[u] = NULL /\ state[u] = "READY"
    BY <1>2, QueuedAlone, Zenon
  <1>4. parked' = parked \cup {u}
    BY <1>2, Zenon DEF runqueue_remove
  <1>5. PICK s \in Seq(Tasks) : TakenOff(u, c, s)
    BY <1>2, RemoveTakes, Zenon
  <1>6. /\ RunTyped' /\ RunAt(u)' = {} /\ \A t \in Tasks \ {u} : RunAt(t)' = RunAt(t)
        /\ \A d \in CPUs \ {c} : runnables'[d] = runnables[d]
    BY <1>2, <1>5, RunRemove, Zenon
  <1>7. /\ pc' \in [CPUs -> PCs] /\ pc'[c] = "run" /\ \A d \in CPUs \ {c} : pc'[d] = pc[d]
        /\ fault' \in [CPUs -> Nat] /\ fault' = fault
    BY <1>1, GotoIs, Zenon DEF IInv
  <1>8. /\ arg' \in [CPUs -> Tasks \cup {IDLE, NULL}] /\ arg'[c] = NULL
        /\ \A d \in CPUs \ {c} : arg'[d] = arg[d]
    BY <1>1, Zenon DEF IInv, TypeOK
  <1>9. TypeOK' /\ Lists'
    BY <1>1, <1>4, <1>6, <1>7, <1>8, Zenon DEF IInv, TypeOK, Lists, RunTyped
  <1>10. \A t \in Tasks : WaitAt(t)' = WaitAt(t) /\ ExecAt(t)' = ExecAt(t)
    BY <1>1, <1>7, SameWait, Zenon DEF ExecAt
  <1>11. ASSUME NEW t \in Tasks PROVE LocalAt(t)' = LocalAt(t)
    <2>1. arg'[c] # t
      BY <1>8, SchedulerAssumption, Zenon
    <2> QED
      BY <1>1, <1>7, <1>8, <2>1, SameLocal, Zenon
  <1>12. Good(u)'
    <2>1. Live(u)' /\ InOne(u)'
      BY <1>1, <1>3, <1>4, <1>6, <1>10, <1>11, Zenon DEF Live, Created, InOne, Single
    <2>2. Agrees(u)'
      BY <1>1, <1>3, <1>6, <1>10, SchedulerAssumption, Zenon DEF Agrees
    <2> QED
      BY <2>1, <2>2, Zenon DEF Good
  <1>13. \A t \in Tasks \ {u} : Same(t)
    BY <1>1, <1>4, <1>6, <1>10, <1>11, Zenon DEF Same
  <1>14. CurrentFits(c)' /\ ArgFits(c)'
    <2>1. CurrentFits(c)'
      BY <1>1, <1>7, <1>8, SchedulerAssumption, Zenon DEF IInv, Fits, CurrentFits
    <2>2. ArgFits(c)'
      BY <1>1, <1>7, <1>8, SchedulerAssumption DEF IInv, Fits, ArgFits
    <2> QED
      BY <2>1, <2>2, Zenon
  <1>15. Apart(c)
    BY <1>1, <1>6, <1>7, <1>8, Zenon DEF Apart
  <1>16. AssertsHold'
    BY <1>7, Zenon DEF IInv, AssertsHold
  <1> QED
    BY <1>9, <1>12, <1>13, <1>14, <1>15, <1>16, Moves, Zenon

(* A running task marks itself BLOCKED. *)
LEMMA StepBlock ==
    ASSUME IInv, NEW c \in CPUs, NEW q \in WaitQueues, scheduler_block_current(c, q)
    PROVE  IInv'
  <1> USE DEF PCs
  <1>1. pc[c] = "run" /\ current[c] \in Tasks
    BY Zenon DEF scheduler_block_current
  <1>2. PICK u \in Tasks : u = current[c] /\ state[u] = "RUNNING"
    BY <1>1, Zenon DEF IInv, Fits, CurrentFits
  <1>3. /\ Live(u) /\ RunAt(u) = {} /\ WaitAt(u) = {} /\ LocalAt(u) = {} /\ ExecAt(u) = {c}
        /\ u \notin parked /\ cpu[u] = c /\ waiting_on[u] = NULL
        /\ \A d \in CPUs : (current[d] = u => d = c) /\ (arg[d] = u => pc[d] = "remove")
    BY <1>2, CurrentAlone
  <1>4. Failing(64, cpu[u] = c) \cup Failing(66, state[u] = "RUNNING")
            \cup Failing(67, waiting_on[u] = NULL) = {}
    BY <1>2, <1>3, Zenon DEF Failing
  <1>5. /\ state' = [state EXCEPT ![u] = "BLOCKED"] /\ wq' = [wq EXCEPT ![c] = q] /\ Goto(c, "wait")
        /\ UNCHANGED <<waiting_on, cpu, parked, runnables, count, waiters, current, arg, idle_started>>
    BY <1>2, <1>4, ZenonT(30) DEF scheduler_block_current, queueVars
  <1>6. /\ pc' \in [CPUs -> PCs] /\ pc'[c] = "wait" /\ \A d \in CPUs \ {c} : pc'[d] = pc[d]
        /\ fault' \in [CPUs -> Nat] /\ fault' = fault
    BY <1>5, GotoIs, Zenon DEF IInv
  <1>7. /\ state' \in [Tasks -> States] /\ state'[u] = "BLOCKED"
        /\ \A t \in Tasks \ {u} : state'[t] = state[t]
        /\ wq' \in [CPUs -> WaitQueues \cup {NULL}] /\ wq'[c] = q
        /\ \A d \in CPUs \ {c} : wq'[d] = wq[d]
    BY <1>5, Zenon DEF IInv, TypeOK, States
  <1>8. TypeOK' /\ Lists'
    BY <1>5, <1>6, <1>7, Zenon DEF IInv, TypeOK, Lists
  <1>9. arg[c] \notin Tasks
    BY <1>1, Zenon DEF IInv, Fits, ArgFits
  <1>10. \A t \in Tasks : RunAt(t)' = RunAt(t) /\ WaitAt(t)' = WaitAt(t) /\ LocalAt(t)' = LocalAt(t)
    BY <1>5, <1>6, <1>9, Zenon DEF RunAt, WaitAt, LocalAt
  <1>11. ExecAt(u)' = {c}
    BY <1>2, <1>3, <1>5, <1>6, Zenon DEF ExecAt
  <1>12. ASSUME NEW t \in Tasks \ {u} PROVE ExecAt(t)' = ExecAt(t)
    BY <1>2, <1>5, <1>6, <1>7, ZenonT(30) DEF ExecAt
  <1>13. Good(u)'
    <2>1. Live(u)' /\ InOne(u)'
      BY <1>3, <1>5, <1>7, <1>10, <1>11, Zenon DEF Live, Created, InOne, Single
    <2>2. Agrees(u)'
      BY <1>3, <1>5, <1>7, <1>10, SchedulerAssumption DEF Agrees
    <2> QED
      BY <2>1, <2>2, Zenon DEF Good
  <1>14. \A t \in Tasks \ {u} : Same(t)
    BY <1>5, <1>7, <1>10, <1>12, Zenon DEF Same
  <1>15. CurrentFits(c)' /\ ArgFits(c)'
    BY <1>2, <1>3, <1>5, <1>6, <1>7, <1>9, Zenon DEF CurrentFits, ArgFits
  <1>16. Apart(c)
    BY <1>3, <1>5, <1>6, <1>7, Zenon DEF Apart
  <1>17. AssertsHold'
    BY <1>6, Zenon DEF IInv, AssertsHold
  <1> QED
    BY <1>8, <1>13, <1>14, <1>15, <1>16, <1>17, Moves, Zenon

(* It joins the wait queue. *)
LEMMA StepWait == ASSUME IInv, NEW c \in CPUs, waitqueue_enqueue(c) PROVE IInv'
  <1> USE DEF PCs
  <1>1. /\ pc[c] = "wait" /\ wq' = [wq EXCEPT ![c] = NULL]
        /\ UNCHANGED <<state, cpu, parked, runnables, count, current, arg, idle_started>>
    BY Zenon DEF waitqueue_enqueue
  <1>2. PICK u \in Tasks, q \in WaitQueues : u = current[c] /\ q = wq[c] /\ state[u] = "BLOCKED"
    BY <1>1, Zenon DEF IInv, Fits, CurrentFits
  <1>3. /\ Live(u) /\ RunAt(u) = {} /\ WaitAt(u) = {} /\ LocalAt(u) = {} /\ ExecAt(u) = {c}
        /\ u \notin parked /\ cpu[u] = c
        /\ \A d \in CPUs : (current[d] = u => d = c) /\ (arg[d] = u => pc[d] = "remove")
    <2>1. u = current[c] /\ pc[c] = "wait"
      BY <1>1, <1>2, Zenon
    <2> QED
      BY <2>1, CurrentAlone
  <1>4. /\ waiters' = [waiters EXCEPT ![q] = Append(@, u)]
        /\ waiting_on' = [waiting_on EXCEPT ![u] = q] /\ Goto(c, "switch")
    BY <1>2, Zenon DEF waitqueue_enqueue
  <1>5. /\ pc' \in [CPUs -> PCs] /\ pc'[c] = "switch" /\ \A d \in CPUs \ {c} : pc'[d] = pc[d]
        /\ fault' \in [CPUs -> Nat] /\ fault' = fault
    BY <1>4, GotoIs, Zenon DEF IInv
  <1>6. /\ waiting_on' \in [Tasks -> WaitQueues \cup {NULL}] /\ waiting_on'[u] = q
        /\ \A t \in Tasks \ {u} : waiting_on'[t] = waiting_on[t]
        /\ wq' \in [CPUs -> WaitQueues \cup {NULL}] /\ \A d \in CPUs \ {c} : wq'[d] = wq[d]
    BY <1>1, <1>4, Zenon DEF IInv, TypeOK
  <1>7. WaitTyped' /\ WaitAt(u)' = {q} /\ \A t \in Tasks \ {u} : WaitAt(t)' = WaitAt(t)
    <2>1. Joins(u, q)
      BY <1>4, Zenon DEF Joins
    <2> QED
      BY <1>3, <2>1, WaitAppend, Zenon
  <1>8. TypeOK' /\ Lists'
    BY <1>1, <1>5, <1>6, <1>7, Zenon DEF IInv, TypeOK, Lists, WaitTyped
  <1>9. arg[c] \notin Tasks
    BY <1>1, Zenon DEF IInv, Fits, ArgFits
  <1>10. \A t \in Tasks : RunAt(t)' = RunAt(t) /\ LocalAt(t)' = LocalAt(t)
    BY <1>1, <1>5, <1>9, Zenon DEF RunAt, LocalAt
  <1>11. ExecAt(u)' = {}
    BY <1>1, <1>2, <1>3, <1>5, Zenon DEF ExecAt
  <1>12. ASSUME NEW t \in Tasks \ {u} PROVE ExecAt(t)' = ExecAt(t)
    BY <1>1, <1>2, <1>5, Zenon DEF ExecAt
  <1>13. Good(u)'
    <2>1. Live(u)' /\ InOne(u)'
      BY <1>1, <1>3, <1>7, <1>10, <1>11, Zenon DEF Live, Created, InOne, Single
    <2>2. Agrees(u)'
      BY <1>1, <1>2, <1>3, <1>6, <1>7, <1>10, SchedulerAssumption DEF Agrees
    <2> QED
      BY <2>1, <2>2, Zenon DEF Good
  <1>14. \A t \in Tasks \ {u} : Same(t)
    BY <1>1, <1>6, <1>7, <1>10, <1>12, Zenon DEF Same
  <1>15. CurrentFits(c)' /\ ArgFits(c)'
    BY <1>1, <1>2, <1>3, <1>5, <1>9, Zenon DEF CurrentFits, ArgFits
  <1>16. Apart(c)
    BY <1>1, <1>5, <1>6, Zenon DEF Apart
  <1>17. AssertsHold'
    BY <1>5, Zenon DEF IInv, AssertsHold
  <1> QED
    BY <1>8, <1>13, <1>14, <1>15, <1>16, <1>17, Moves, Zenon

(* A wake takes the first task off a wait queue, if there is one. *)
LEMMA StepWake ==
    ASSUME IInv, NEW c \in CPUs, NEW q \in WaitQueues,
           scheduler_wake_one(c, q) \/ scheduler_wake_all(c, q)
    PROVE  IInv'
  <1> USE DEF PCs
  <1>1. PICK line \in Nat, loop \in WaitQueues \cup {NULL} :
            pc[c] \in {"run", "wake"} /\ Wake(c, q, line, loop)
    BY Zenon DEF scheduler_wake_one, scheduler_wake_all
  <1>2. UNCHANGED <<state, cpu, parked, runnables, count, current, idle_started>>
    BY <1>1, Zenon DEF Wake
  <1>3. arg[c] \notin Tasks
    BY <1>1, Zenon DEF IInv, Fits, ArgFits
  <1>4. CASE waiters[q] = <<>>
    <2>1. /\ Goto(c, "run") /\ wq' = [wq EXCEPT ![c] = NULL] /\ UNCHANGED <<waiters, waiting_on, arg>>
      BY <1>1, <1>4, Zenon DEF Wake
    <2>2. /\ pc' \in [CPUs -> PCs] /\ pc'[c] = "run" /\ \A d \in CPUs \ {c} : pc'[d] = pc[d]
          /\ fault' \in [CPUs -> Nat] /\ fault' = fault
      BY <2>1, GotoIs, Zenon DEF IInv
    <2>3. wq' \in [CPUs -> WaitQueues \cup {NULL}] /\ \A d \in CPUs \ {c} : wq'[d] = wq[d]
      BY <2>1, Zenon DEF IInv, TypeOK
    <2>4. TypeOK'
      BY <1>2, <2>1, <2>2, <2>3, Zenon DEF IInv, TypeOK
    <2>5. CurrentFits(c)' /\ ArgFits(c)'
      <3>1. CurrentFits(c)'
        BY <1>1, <1>2, <1>3, <2>1, <2>2, Zenon DEF IInv, Fits, CurrentFits
      <3>2. ArgFits(c)'
        BY <1>1, <1>2, <1>3, <2>1, <2>2, Zenon DEF IInv, Fits, ArgFits
      <3> QED
        BY <3>1, <3>2, Zenon
    <2>6. fault'[c] \in {0, 30, 131, 200}
      BY <2>2, Zenon DEF IInv, AssertsHold
    <2>7. /\ UNCHANGED <<state, waiting_on, cpu, parked, runnables, count, waiters, current>>
          /\ pc[c] \notin {"requeue", "wait"} /\ pc'[c] \notin {"requeue", "wait"}
          /\ \A d \in CPUs \ {c} : /\ pc'[d] = pc[d] /\ arg'[d] = arg[d] /\ wq'[d] = wq[d]
                                /\ fault'[d] = fault[d]
      BY <1>1, <1>2, <2>1, <2>2, <2>3, Zenon
    <2>8. \A t \in Tasks : (arg'[c] = t /\ pc'[c] # "remove") <=> (arg[c] = t /\ pc[c] # "remove")
      BY <1>3, <2>1, Zenon
    <2> QED
      BY <2>4, <2>5, <2>6, <2>7, <2>8, Quiet, Zenon
  <1>5. CASE waiters[q] # <<>>
    <2>1. FirstLeaves(q)
      BY <1>1, <1>5, Zenon DEF Wake, FirstLeaves
    <2>2. PICK u \in Tasks :
              /\ u = Head(waiters[q]) /\ q \in WaitAt(u) /\ WaitTyped' /\ WaitAt(u)' = {}
              /\ \A t \in Tasks \ {u} : WaitAt(t)' = WaitAt(t)
      BY <2>1, WaitTail, Zenon
    <2>3. Live(u) /\ RunAt(u) = {} /\ LocalAt(u) = {} /\ ExecAt(u) = {} /\ u \notin parked
      BY <2>2, PlaceIs, Zenon DEF IInv
    <2>4. state[u] = "BLOCKED"
      <3>1. Agrees(u)
        BY <2>3, AgreesIs, Zenon DEF Live, IInv
      <3> QED
        BY <2>2, <3>1, SchedulerAssumption, Zenon DEF Agrees
    <2>5. /\ waiting_on' = [waiting_on EXCEPT ![u] = NULL] /\ arg' = [arg EXCEPT ![c] = u]
          /\ wq' = [wq EXCEPT ![c] = loop] /\ Goto(c, "enqueue")
      BY <1>1, <1>5, <2>2, <2>4, Zenon DEF Wake
    <2>6. /\ pc' \in [CPUs -> PCs] /\ pc'[c] = "enqueue" /\ \A d \in CPUs \ {c} : pc'[d] = pc[d]
          /\ fault' \in [CPUs -> Nat] /\ fault' = fault
      BY <2>5, GotoIs, Zenon DEF IInv
    <2>7. /\ waiting_on' \in [Tasks -> WaitQueues \cup {NULL}] /\ waiting_on'[u] = NULL
          /\ \A t \in Tasks \ {u} : waiting_on'[t] = waiting_on[t]
          /\ wq' \in [CPUs -> WaitQueues \cup {NULL}] /\ \A d \in CPUs \ {c} : wq'[d] = wq[d]
          /\ arg' \in [CPUs -> Tasks \cup {IDLE, NULL}] /\ arg'[c] = u
          /\ \A d \in CPUs \ {c} : arg'[d] = arg[d]
      BY <2>5, Zenon DEF IInv, TypeOK
    <2>8. TypeOK' /\ Lists'
      BY <1>2, <2>2, <2>6, <2>7, Zenon DEF IInv, TypeOK, Lists, WaitTyped
    <2>9. \A t \in Tasks : RunAt(t)' = RunAt(t) /\ ExecAt(t)' = ExecAt(t)
      BY <1>1, <1>2, <2>6, Zenon DEF RunAt, ExecAt
    <2>10. LocalAt(u)' = {c}
      BY <2>3, <2>6, <2>7 DEF LocalAt
    <2>11. ASSUME NEW t \in Tasks \ {u} PROVE LocalAt(t)' = LocalAt(t)
      BY <1>3, <2>6, <2>7 DEF LocalAt
    <2>12. Good(u)'
      <3>1. Live(u)' /\ InOne(u)'
        BY <1>2, <2>2, <2>3, <2>9, <2>10, Zenon DEF Live, Created, InOne, Single
      <3>2. Agrees(u)'
        <4>1. RunAt(u)' = {} /\ WaitAt(u)' = {} /\ waiting_on'[u] = NULL /\ state'[u] = "BLOCKED"
          BY <1>2, <2>2, <2>3, <2>4, <2>7, <2>9, Zenon
        <4> QED
          BY <4>1, SchedulerAssumption, Zenon DEF Agrees
      <3> QED
        BY <3>1, <3>2, Zenon DEF Good
    <2>13. \A t \in Tasks \ {u} : Same(t)
      BY <1>2, <2>2, <2>7, <2>9, <2>11, Zenon DEF Same
    <2>14. CurrentFits(c)' /\ ArgFits(c)'
      <3>1. CurrentFits(c)'
        BY <1>1, <1>2, <2>6, <2>7, Zenon DEF IInv, Fits, CurrentFits
      <3>2. ArgFits(c)'
        BY <1>1, <1>2, <2>6, <2>7, Zenon DEF IInv, Fits, ArgFits
      <3> QED
        BY <3>1, <3>2, Zenon
    <2>15. Apart(c)
      BY <1>2, <2>6, <2>7, Zenon DEF Apart
    <2>16. AssertsHold'
      BY <2>6, Zenon DEF IInv, AssertsHold
    <2> QED
      BY <2>8, <2>12, <2>13, <2>14, <2>15, <2>16, Moves, Zenon
  <1> QED
    BY <1>4, <1>5, Zenon

(* A task that exits is in no place any more. *)
LEMMA StepExit == ASSUME IInv, NEW c \in CPUs, task_exit(c) PROVE IInv'
  <1> USE DEF PCs
  <1>1. /\ pc[c] = "run" /\ current[c] \in Tasks /\ Goto(c, "switch")
        /\ state' = [state EXCEPT ![current[c]] = "DEAD"]
        /\ UNCHANGED <<waiting_on, cpu, parked, runnables, count, waiters, current, arg, wq, idle_started>>
    BY Zenon DEF task_exit, queueVars
  <1>2. PICK u \in Tasks : u = current[c] /\ state[u] = "RUNNING"
    BY <1>1, Zenon DEF IInv, Fits, CurrentFits
  <1>3. /\ RunAt(u) = {} /\ WaitAt(u) = {} /\ LocalAt(u) = {} /\ u \notin parked /\ cpu[u] = c
        /\ waiting_on[u] = NULL
        /\ \A d \in CPUs : (current[d] = u => d = c) /\ (arg[d] = u => pc[d] = "remove")
    BY <1>2, CurrentAlone
  <1>4. /\ pc' \in [CPUs -> PCs] /\ pc'[c] = "switch" /\ \A d \in CPUs \ {c} : pc'[d] = pc[d]
        /\ fault' \in [CPUs -> Nat] /\ fault' = fault
    BY <1>1, GotoIs, Zenon DEF IInv
  <1>5. /\ state' \in [Tasks -> States] /\ state'[u] = "DEAD"
        /\ \A t \in Tasks \ {u} : state'[t] = state[t]
    BY <1>1, <1>2, Zenon DEF IInv, TypeOK, States
  <1>6. TypeOK' /\ Lists'
    BY <1>1, <1>4, <1>5, Zenon DEF IInv, TypeOK, Lists
  <1>7. arg[c] \notin Tasks
    BY <1>1, Zenon DEF IInv, Fits, ArgFits
  <1>8. \A t \in Tasks : RunAt(t)' = RunAt(t) /\ WaitAt(t)' = WaitAt(t) /\ LocalAt(t)' = LocalAt(t)
    BY <1>1, <1>4, <1>7, Zenon DEF RunAt, WaitAt, LocalAt
  <1>9. ExecAt(u)' = {}
    BY <1>1, <1>3, <1>4, <1>5, Zenon DEF ExecAt
  <1>10. ASSUME NEW t \in Tasks \ {u} PROVE ExecAt(t)' = ExecAt(t)
    BY <1>1, <1>2, <1>4, <1>5, Zenon DEF ExecAt
  <1>11. Good(u)'
    <2>1. ~Live(u)' /\ InNone(u)'
      BY <1>1, <1>3, <1>5, <1>8, <1>9, Zenon DEF Live, InNone
    <2>2. Agrees(u)'
      <3>1. RunAt(u)' = {} /\ WaitAt(u)' = {} /\ waiting_on'[u] = NULL /\ state'[u] = "DEAD"
        BY <1>1, <1>3, <1>5, <1>8, Zenon
      <3> QED
        BY <3>1, SchedulerAssumption, Zenon DEF Agrees
    <2> QED
      BY <2>1, <2>2, Zenon DEF Good
  <1>12. \A t \in Tasks \ {u} : Same(t)
    BY <1>1, <1>5, <1>8, <1>10, Zenon DEF Same
  <1>13. CurrentFits(c)' /\ ArgFits(c)'
    BY <1>1, <1>2, <1>3, <1>4, <1>7, Zenon DEF CurrentFits, ArgFits
  <1>14. Apart(c)
    BY <1>1, <1>3, <1>4, <1>5, Zenon DEF Apart
  <1>15. AssertsHold'
    BY <1>4, Zenon DEF IInv, AssertsHold
  <1> QED
    BY <1>6, <1>11, <1>12, <1>13, <1>14, <1>15, Moves, Zenon

-----------------------------------------------------------------------------
(* yield, and the idle loop. *)
LEMMA StepQuiet ==
    ASSUME IInv, NEW c \in CPUs, yield(c) \/ task_idle(c) \/ timer_tick(c)
    PROVE  IInv'
  <1> USE DEF PCs
  <1>1. PICK to \in {"switch", "wfi", "idle"} :
            /\ Goto(c, to) /\ pc[c] \in {"run", "idle", "wfi"}
            /\ UNCHANGED <<taskVars, queueVars, current, arg, wq, idle_started>>
    BY Zenon DEF yield, task_idle, timer_tick
  <1>2. /\ pc' \in [CPUs -> PCs] /\ pc'[c] = to /\ \A d \in CPUs \ {c} : pc'[d] = pc[d]
        /\ fault' \in [CPUs -> Nat] /\ fault' = fault
    BY <1>1, GotoIs, Zenon DEF IInv
  <1>3. /\ UNCHANGED <<state, waiting_on, cpu, parked, runnables, count, waiters, current>>
        /\ arg' = arg /\ wq' = wq /\ idle_started' = idle_started
    BY <1>1, Zenon DEF taskVars, queueVars
  <1>4. TypeOK'
    BY <1>2, <1>3, Zenon DEF IInv, TypeOK
  <1>5. arg[c] \notin Tasks
    BY <1>1, Zenon DEF IInv, Fits, ArgFits
  <1>6. CurrentFits(c)' /\ ArgFits(c)'
    <2>1. CurrentFits(c)'
      BY <1>1, <1>2, <1>3, <1>5, Zenon DEF IInv, Fits, CurrentFits
    <2>2. ArgFits(c)'
      BY <1>1, <1>2, <1>3, <1>5, Zenon DEF IInv, Fits, ArgFits
    <2> QED
      BY <2>1, <2>2, Zenon
  <1>7. fault'[c] \in {0, 30, 131, 200}
    BY <1>2, Zenon DEF IInv, AssertsHold
  <1> QED
    BY <1>1, <1>2, <1>3, <1>4, <1>5, <1>6, <1>7, Quiet

(* The ASSERTs on prev that can fail: a BLOCKED one waits on nothing. *)
LEMMA SwitchFails ==
    ASSUME IInv, NEW c \in CPUs, NEW u \in Tasks, u = current[c]
    PROVE  Failing(128, cpu[u] = c)
               \cup Failing(131, state[u] # "BLOCKED" \/ waiting_on[u] # NULL)
               \cup Failing(135, state[u] = "BLOCKED" \/ waiting_on[u] = NULL)
               \cup Failing(139, state[u] # "READY" \/ waiting_on[u] = NULL)
           = (IF state[u] = "BLOCKED" /\ waiting_on[u] = NULL THEN {131} ELSE {})
  <1>1. cpu[u] = c
    BY Zenon DEF IInv, Fits, CurrentFits
  <1>2. waiting_on[u] # NULL => state[u] = "BLOCKED"
    BY <1>1, SchedulerAssumption, Zenon DEF IInv, FieldsAgree, Created
  <1> QED
    BY <1>1, <1>2, ZenonT(30) DEF Failing

(* A prev that still runs is marked READY, to be queued again. *)
LEMMA StepPreempt ==
    ASSUME IInv, NEW c \in CPUs, scheduler_switch(c), current[c] \in Tasks,
           state[current[c]] = "RUNNING"
    PROVE  IInv'
  <1> USE DEF PCs
  <1>1. pc[c] = "switch"
    BY Zenon DEF scheduler_switch
  <1>2. PICK u \in Tasks : u = current[c] /\ state[u] = "RUNNING"
    OBVIOUS
  <1>3. /\ Live(u) /\ RunAt(u) = {} /\ WaitAt(u) = {} /\ LocalAt(u) = {} /\ ExecAt(u) = {c}
        /\ u \notin parked /\ cpu[u] = c /\ waiting_on[u] = NULL
        /\ \A d \in CPUs : (current[d] = u => d = c) /\ (arg[d] = u => pc[d] = "remove")
    BY <1>2, CurrentAlone, SMTT(30)
  <1>4. Failing(128, cpu[u] = c)
            \cup Failing(131, state[u] # "BLOCKED" \/ waiting_on[u] # NULL)
            \cup Failing(135, state[u] = "BLOCKED" \/ waiting_on[u] = NULL)
            \cup Failing(139, state[u] # "READY" \/ waiting_on[u] = NULL) = {}
    BY <1>2, SwitchFails, SMTT(30)
  <1>5. /\ state' = [state EXCEPT ![u] = "READY"] /\ Goto(c, "requeue")
        /\ UNCHANGED <<waiting_on, cpu, parked, runnables, count, waiters, current, arg, wq, idle_started>>
    BY <1>2, <1>4 DEF scheduler_switch, queueVars
  <1>6. /\ pc' \in [CPUs -> PCs] /\ pc'[c] = "requeue" /\ \A d \in CPUs \ {c} : pc'[d] = pc[d]
        /\ fault' \in [CPUs -> Nat] /\ fault' = fault
    BY <1>5, GotoIs, Zenon DEF IInv
  <1>7. /\ state' \in [Tasks -> States] /\ state'[u] = "READY"
        /\ \A t \in Tasks \ {u} : state'[t] = state[t]
    BY <1>5, Zenon DEF IInv, TypeOK, States
  <1>8. TypeOK' /\ Lists'
    BY <1>5, <1>6, <1>7, Zenon DEF IInv, TypeOK, Lists
  <1>9. arg[c] \notin Tasks
    BY <1>1, Zenon DEF IInv, Fits, ArgFits
  <1>10. \A t \in Tasks : RunAt(t)' = RunAt(t) /\ WaitAt(t)' = WaitAt(t) /\ LocalAt(t)' = LocalAt(t)
    BY <1>5, <1>6, <1>9, Zenon DEF RunAt, WaitAt, LocalAt
  <1>11. ExecAt(u)' = {c}
    BY <1>2, <1>3, <1>5, <1>6, Zenon DEF ExecAt
  <1>12. ASSUME NEW t \in Tasks \ {u} PROVE ExecAt(t)' = ExecAt(t)
    BY <1>2, <1>5, <1>6, <1>7, Zenon DEF ExecAt
  <1>13. Good(u)'
    <2>1. Live(u)' /\ InOne(u)'
      BY <1>3, <1>5, <1>7, <1>10, <1>11, Zenon DEF Live, Created, InOne, Single
    <2>2. Agrees(u)'
      BY <1>3, <1>5, <1>7, <1>10, SchedulerAssumption DEF Agrees
    <2> QED
      BY <2>1, <2>2, Zenon DEF Good
  <1>14. \A t \in Tasks \ {u} : Same(t)
    BY <1>5, <1>7, <1>10, <1>12, Zenon DEF Same
  <1>15. CurrentFits(c)' /\ ArgFits(c)'
    BY <1>2, <1>3, <1>5, <1>6, <1>7, <1>9, Zenon DEF CurrentFits, ArgFits
  <1>16. Apart(c)
    BY <1>3, <1>5, <1>6, <1>7, Zenon DEF Apart
  <1>17. AssertsHold'
    BY <1>6, Zenon DEF IInv, AssertsHold
  <1> QED
    BY <1>8, <1>13, <1>14, <1>15, <1>16, <1>17, Moves, Zenon

(* Otherwise prev stays as it is, or an ASSERT fails. *)
LEMMA StepLeave ==
    ASSUME IInv, NEW c \in CPUs, scheduler_switch(c),
           ~(current[c] \in Tasks /\ state[current[c]] = "RUNNING")
    PROVE  IInv'
  <1> USE DEF PCs
  <1>1. /\ pc[c] = "switch" /\ state' = state
        /\ UNCHANGED <<waiting_on, cpu, parked, runnables, count, waiters, current, arg, wq, idle_started>>
    BY Zenon DEF scheduler_switch, queueVars
  <1>2. Goto(c, "pick") \/ Panic(c, {131})
    <2>1. CASE current[c] \notin Tasks
      BY <2>1, Zenon DEF scheduler_switch
    <2>2. CASE current[c] \in Tasks
      <3>1. PICK u \in Tasks : u = current[c] /\ state[u] # "RUNNING"
        BY <2>2, Zenon
      <3> DEFINE failed == Failing(128, cpu[u] = c)
                     \cup Failing(131, state[u] # "BLOCKED" \/ waiting_on[u] # NULL)
                     \cup Failing(135, state[u] = "BLOCKED" \/ waiting_on[u] = NULL)
                     \cup Failing(139, state[u] # "READY" \/ waiting_on[u] = NULL)
      <3>2. IF failed # {} THEN Panic(c, failed) ELSE Goto(c, "pick")
        BY <3>1, SMTT(30) DEF scheduler_switch
      <3>3. failed = {} \/ failed = {131}
        BY <3>1, SwitchFails
      <3> HIDE DEF failed
      <3> QED
        BY <3>2, <3>3
    <2> QED
      BY <2>1, <2>2, Zenon
  <1>3. /\ pc' \in [CPUs -> PCs] /\ pc'[c] \in {"pick", "panic"}
        /\ \A d \in CPUs \ {c} : pc'[d] = pc[d] /\ fault'[d] = fault[d]
        /\ fault' \in [CPUs -> Nat] /\ fault'[c] \in {0, 30, 131, 200}
    <2>1. CASE Goto(c, "pick")
      BY <2>1, GotoIs DEF IInv, AssertsHold
    <2>2. CASE Panic(c, {131})
      BY <2>2, PanicIs DEF IInv
    <2> QED
      BY <1>2, <2>1, <2>2, Zenon
  <1>4. TypeOK'
    BY <1>1, <1>3, Zenon DEF IInv, TypeOK
  <1>5. arg[c] \notin Tasks
    BY <1>1, Zenon DEF IInv, Fits, ArgFits
  <1>6. CurrentFits(c)' /\ ArgFits(c)'
    <2>1. CurrentFits(c)'
      BY <1>1, <1>3, <1>5, Zenon DEF IInv, Fits, CurrentFits
    <2>2. ArgFits(c)'
      BY <1>1, <1>3, <1>5, Zenon DEF IInv, Fits, ArgFits
    <2> QED
      BY <2>1, <2>2, Zenon
  <1> QED
    BY <1>1, <1>3, <1>4, <1>5, <1>6, Quiet, SMTT(30)

(* scheduler_switch puts the task it leaves back in the queue. *)
LEMMA StepRequeue == ASSUME IInv, NEW c \in CPUs, Requeue(c) PROVE IInv'
  <1> USE DEF PCs
  <1>1. /\ pc[c] = "requeue" /\ UNCHANGED <<taskVars, waiters, current, arg, wq, idle_started>>
    BY Zenon DEF Requeue
  <1>2. PICK u \in Tasks : u = current[c] /\ state[u] = "READY"
    BY <1>1, Zenon DEF IInv, Fits, CurrentFits
  <1>3. /\ Live(u) /\ RunAt(u) = {} /\ WaitAt(u) = {} /\ LocalAt(u) = {} /\ ExecAt(u) = {c}
        /\ u \notin parked /\ cpu[u] = c /\ waiting_on[u] = NULL
    BY <1>1, <1>2, CurrentAlone, Zenon
  <1>4. runqueue_enqueue(c, u, "pick")
    BY <1>2, Zenon DEF Requeue
  <1>5. /\ QueuedOn(u, c)
        /\ pc' \in [CPUs -> PCs] /\ pc'[c] = "pick" /\ \A d \in CPUs \ {c} : pc'[d] = pc[d]
        /\ fault' \in [CPUs -> Nat] /\ fault' = fault
    BY <1>2, <1>3, <1>4, EnqueueIs
  <1>6. /\ RunTyped' /\ RunAt(u)' = {c} /\ \A t \in Tasks \ {u} : RunAt(t)' = RunAt(t)
        /\ \A d \in CPUs : Range(runnables[d]) \subseteq Range(runnables'[d])
    BY <1>2, <1>3, <1>5, RunAppend, Zenon
  <1>7. /\ UNCHANGED <<state, waiting_on, cpu, parked, waiters, current>>
        /\ wq' = wq /\ idle_started' = idle_started /\ arg' = arg
    BY <1>1, Zenon DEF taskVars
  <1>8. TypeOK' /\ Lists'
    BY <1>5, <1>6, <1>7, Zenon DEF IInv, TypeOK, Lists, RunTyped
  <1>9. \A t \in Tasks : WaitAt(t)' = WaitAt(t) /\ LocalAt(t)' = LocalAt(t)
    BY <1>1, <1>5, <1>7, SameWait, Zenon DEF LocalAt
  <1>10. ExecAt(u)' = {}
    <2>1. \A d \in CPUs \ {c} : ~(current[d] = u)
      BY <1>1, <1>2, CurrentAlone, Zenon
    <2> QED
      BY <1>2, <1>5, <1>7, <2>1, Zenon DEF ExecAt
  <1>11. ASSUME NEW t \in Tasks \ {u} PROVE ExecAt(t)' = ExecAt(t)
    BY <1>2, <1>5, <1>7, Zenon DEF ExecAt
  <1>12. Good(u)'
    <2>1. Live(u)' /\ InOne(u)'
      BY <1>3, <1>6, <1>7, <1>9, <1>10, Zenon DEF Live, Created, InOne, Single
    <2>2. Agrees(u)'
      BY <1>2, <1>3, <1>6, <1>7, <1>9, SchedulerAssumption, Zenon DEF Agrees
    <2> QED
      BY <2>1, <2>2, Zenon DEF Good
  <1>13. \A t \in Tasks \ {u} : Same(t)
    BY <1>6, <1>7, <1>9, <1>11, Zenon DEF Same
  <1>14. CurrentFits(c)' /\ ArgFits(c)'
    <2>1. CurrentFits(c)'
      BY <1>1, <1>2, <1>5, <1>7, Zenon DEF IInv, Fits, CurrentFits
    <2>2. ArgFits(c)'
      BY <1>1, <1>2, <1>5, <1>7, Zenon DEF IInv, Fits, ArgFits
    <2> QED
      BY <2>1, <2>2, Zenon
  <1>15. Apart(c)
    BY <1>5, <1>6, <1>7, Zenon DEF Apart
  <1>16. AssertsHold'
    BY <1>5, Zenon DEF IInv, AssertsHold
  <1> QED
    BY <1>8, <1>12, <1>13, <1>14, <1>15, <1>16, Moves, Zenon

(* The unlocked look at the run queue. *)
LEMMA StepPick == ASSUME IInv, NEW c \in CPUs, scheduler_policy_pick_next(c) PROVE IInv'
  <1> USE DEF PCs
  <1>1. PICK to \in {"commit", "dequeue"}, n \in {IDLE, arg[c]} :
            /\ Goto(c, to) /\ pc[c] = "pick" /\ arg' = [arg EXCEPT ![c] = n]
            /\ UNCHANGED <<taskVars, queueVars, current, wq, idle_started>>
    BY Zenon DEF scheduler_policy_pick_next
  <1>2. /\ pc' \in [CPUs -> PCs] /\ pc'[c] = to /\ \A d \in CPUs \ {c} : pc'[d] = pc[d]
        /\ fault' \in [CPUs -> Nat] /\ fault' = fault
    BY <1>1, GotoIs, Zenon DEF IInv
  <1>3. /\ UNCHANGED <<state, waiting_on, cpu, parked, runnables, count, waiters, current>>
        /\ wq' = wq /\ idle_started' = idle_started
    BY <1>1, Zenon DEF taskVars, queueVars
  <1>4. /\ arg' \in [CPUs -> Tasks \cup {IDLE, NULL}] /\ arg'[c] = n
        /\ \A d \in CPUs \ {c} : arg'[d] = arg[d]
    BY <1>1, Zenon DEF IInv, TypeOK
  <1>5. TypeOK'
    BY <1>2, <1>3, <1>4, Zenon DEF IInv, TypeOK
  <1>6. arg[c] \notin Tasks /\ n \notin Tasks
    BY <1>1, SchedulerAssumption DEF IInv, Fits, ArgFits
  <1>7. CurrentFits(c)' /\ ArgFits(c)'
    <2>1. CurrentFits(c)'
      BY <1>1, <1>2, <1>3, <1>4, <1>6, ZenonT(30) DEF IInv, Fits, CurrentFits
    <2>2. ArgFits(c)'
      BY <1>1, <1>2, <1>3, <1>4, <1>6, ZenonT(30) DEF IInv, Fits, ArgFits
    <2> QED
      BY <2>1, <2>2, Zenon
  <1>8. fault'[c] \in {0, 30, 131, 200}
    BY <1>2, Zenon DEF IInv, AssertsHold
  <1> QED
    BY <1>1, <1>2, <1>3, <1>4, <1>5, <1>6, <1>7, <1>8, Quiet, SMTT(30)

(* runqueue_dequeue takes the first task off the queue. *)
LEMMA TakeTakes ==
    ASSUME IInv, NEW c \in CPUs, runqueue_dequeue(c), runnables[c] # <<>>
    PROVE  \E u \in Tasks, s \in Seq(Tasks) : TakenOff(u, c, s) /\ arg' = [arg EXCEPT ![c] = u]
  <1>1. runnables[c] \in Seq(Tasks) /\ IsInjective(runnables[c])
    BY RunTypedHolds, Zenon DEF RunTyped
  <1>2. PICK u \in Tasks : u = Head(runnables[c])
    BY <1>1
  <1> DEFINE s == Tail(runnables[c])
  <1>3. /\ s \in Seq(Tasks) /\ Len(s) = Len(runnables[c]) - 1 /\ u \in Range(runnables[c])
        /\ Range(s) = Range(runnables[c]) \ {u} /\ IsInjective(s) /\ Forward(runnables[c], s)
    BY <1>1, <1>2, TailList, Zenon
  <1>4. /\ runnables' = [runnables EXCEPT ![c] = s] /\ count' = [count EXCEPT ![c] = @ - 1]
        /\ arg' = [arg EXCEPT ![c] = u]
    BY <1>2, Zenon DEF runqueue_dequeue
  <1> HIDE DEF s
  <1>5. TakenOff(u, c, s)
    BY <1>3, <1>4, Zenon DEF TakenOff
  <1> QED
    BY <1>3, <1>4, <1>5, Zenon

(* The first task leaves the queue, if there is one. *)
LEMMA StepTake == ASSUME IInv, NEW c \in CPUs, runqueue_dequeue(c) PROVE IInv'
  <1> USE DEF PCs
  <1>1. /\ pc[c] = "dequeue" /\ Goto(c, "commit")
        /\ UNCHANGED <<state, waiting_on, cpu, parked, waiters, current, wq, idle_started>>
    BY Zenon DEF runqueue_dequeue, taskVars
  <1>2. /\ pc' \in [CPUs -> PCs] /\ pc'[c] = "commit" /\ \A d \in CPUs \ {c} : pc'[d] = pc[d]
        /\ fault' \in [CPUs -> Nat] /\ fault' = fault
    BY <1>1, GotoIs, Zenon DEF IInv
  <1>3. arg[c] \notin Tasks
    BY <1>1, Zenon DEF IInv, Fits, ArgFits
  <1>4. RunTyped
    BY RunTypedHolds, Zenon
  <1>5. AssertsHold'
    BY <1>2, Zenon DEF IInv, AssertsHold
  <1>6. \A t \in Tasks : WaitAt(t)' = WaitAt(t) /\ ExecAt(t)' = ExecAt(t)
    BY <1>1, <1>2, Zenon DEF WaitAt, ExecAt
  <1>7. CASE runnables[c] = <<>>
    <2>1. /\ arg' = [arg EXCEPT ![c] = IDLE] /\ runnables' = [runnables EXCEPT ![c] = @]
          /\ count' = [count EXCEPT ![c] = @]
      BY <1>7, Zenon DEF runqueue_dequeue
    <2>2. /\ arg' \in [CPUs -> Tasks \cup {IDLE, NULL}] /\ arg'[c] = IDLE
          /\ \A d \in CPUs \ {c} : arg'[d] = arg[d]
      BY <2>1, Zenon DEF IInv, TypeOK
    <2>3. /\ DOMAIN runnables' = CPUs /\ count' = count
          /\ \A d \in CPUs : runnables'[d] = runnables[d]
      BY <1>4, <2>1, Zenon DEF RunTyped
    <2>4. TypeOK' /\ Lists'
      BY <1>1, <1>2, <2>2, <2>3, Zenon DEF IInv, TypeOK, Lists
    <2>5. ASSUME NEW t \in Tasks PROVE Same(t)
      <3>1. RunAt(t)' = RunAt(t)
        BY <2>3, Zenon DEF RunAt
      <3>2. LocalAt(t)' = LocalAt(t)
        BY <1>2, <1>3, <2>2, SchedulerAssumption, Zenon DEF LocalAt
      <3> QED
        BY <1>1, <1>6, <3>1, <3>2, Zenon DEF Same
    <2>6. CurrentFits(c)' /\ ArgFits(c)'
      <3>1. CurrentFits(c)'
        BY <1>1, <1>2, <2>2, SchedulerAssumption, Zenon DEF IInv, Fits, CurrentFits
      <3>2. ArgFits(c)'
        BY <1>1, <1>2, <2>2, SchedulerAssumption, Zenon DEF IInv, Fits, ArgFits
      <3> QED
        BY <3>1, <3>2, Zenon
    <2>7. Apart(c)
      BY <1>1, <1>2, <2>2, <2>3, Zenon DEF Apart
    <2> QED
      BY <1>5, <2>4, <2>5, <2>6, <2>7, Stays, Zenon
  <1>8. CASE runnables[c] # <<>>
    <2>1. PICK u \in Tasks, s \in Seq(Tasks) : TakenOff(u, c, s) /\ arg' = [arg EXCEPT ![c] = u]
      BY <1>8, TakeTakes, Zenon
    <2>2. /\ Live(u) /\ WaitAt(u) = {} /\ LocalAt(u) = {} /\ ExecAt(u) = {} /\ u \notin parked
          /\ cpu[u] = c /\ waiting_on[u] = NULL /\ state[u] = "READY"
      <3>1. u \in Range(runnables[c])
        BY <2>1, Zenon DEF TakenOff
      <3> QED
        BY <3>1, QueuedAlone, Zenon
    <2>4. /\ RunTyped' /\ RunAt(u)' = {} /\ \A t \in Tasks \ {u} : RunAt(t)' = RunAt(t)
          /\ \A d \in CPUs \ {c} : runnables'[d] = runnables[d]
      BY <2>1, RunRemove, Zenon
    <2>5. /\ arg' \in [CPUs -> Tasks \cup {IDLE, NULL}] /\ arg'[c] = u
          /\ \A d \in CPUs \ {c} : arg'[d] = arg[d]
      BY <2>1, Zenon DEF IInv, TypeOK
    <2>6. TypeOK' /\ Lists'
      BY <1>1, <1>2, <2>4, <2>5, Zenon DEF IInv, TypeOK, Lists, RunTyped
    <2>7. LocalAt(u)' = {c}
      <3>1. \A d \in CPUs : arg[d] = u => pc[d] = "remove"
        BY <2>2, Zenon DEF LocalAt
      <3> QED
        BY <1>2, <2>5, <3>1, Zenon DEF LocalAt
    <2>8. ASSUME NEW t \in Tasks \ {u} PROVE LocalAt(t)' = LocalAt(t)
      BY <1>2, <1>3, <2>5, Zenon DEF LocalAt
    <2>9. Good(u)'
      <3>1. Live(u)' /\ InOne(u)'
        BY <1>1, <1>6, <2>2, <2>4, <2>7, Zenon DEF Live, Created, InOne, Single
      <3>2. Agrees(u)'
        BY <1>1, <1>6, <2>2, <2>4, SchedulerAssumption, Zenon DEF Agrees
      <3> QED
        BY <3>1, <3>2, Zenon DEF Good
    <2>10. \A t \in Tasks \ {u} : Same(t)
      BY <1>1, <1>6, <2>4, <2>8, Zenon DEF Same
    <2>11. CurrentFits(c)' /\ ArgFits(c)'
      <3>1. CurrentFits(c)'
        BY <1>1, <1>2, <2>2, <2>5, Zenon DEF IInv, Fits, CurrentFits
      <3>2. ArgFits(c)'
        BY <1>1, <1>2, <2>2, <2>5, Zenon DEF IInv, Fits, ArgFits
      <3> QED
        BY <3>1, <3>2, Zenon
    <2>12. Apart(c)
      BY <1>1, <1>2, <2>4, <2>5, Zenon DEF Apart
    <2> QED
      BY <1>5, <2>6, <2>9, <2>10, <2>11, <2>12, Moves, Zenon
  <1> QED
    BY <1>7, <1>8, Zenon

(* The CPU switches to the task it took. *)
LEMMA StepCommitTask ==
    ASSUME IInv, NEW c \in CPUs, Commit(c), arg[c] \in Tasks
    PROVE  IInv'
  <1> USE DEF PCs
  <1>1. /\ pc[c] = "commit" /\ arg' = [arg EXCEPT ![c] = NULL]
        /\ UNCHANGED <<waiting_on, cpu, parked, runnables, count, waiters, wq>>
    BY Zenon DEF Commit, queueVars
  <1>2. PICK u \in Tasks : u = arg[c] /\ cpu[u] = c /\ state[u] = "READY"
    BY <1>1, Zenon DEF IInv, Fits, ArgFits
  <1>3. /\ Live(u) /\ RunAt(u) = {} /\ WaitAt(u) = {} /\ LocalAt(u) = {c} /\ ExecAt(u) = {}
        /\ u \notin parked /\ waiting_on[u] = NULL
        /\ \A d \in CPUs : arg[d] = u /\ pc[d] # "remove" => d = c
    BY <1>1, <1>2, ArgAlone, Zenon
  <1>4. Failing(165, cpu[u] = c) \cup Failing(166, state[u] = "READY")
            \cup Failing(169, waiting_on[u] = NULL) = {}
    BY <1>2, <1>3, Zenon DEF Failing
  <1>5. PICK to \in {"first", "run"} :
            /\ state' = [state EXCEPT ![u] = "RUNNING"] /\ current' = [current EXCEPT ![c] = u]
            /\ Goto(c, to)
            /\ idle_started' = [idle_started EXCEPT ![c] = @ \/ (u = IDLE /\ current[c] # NULL)]
    BY <1>2, <1>4 DEF Commit, Resume
  <1>6. /\ pc' \in [CPUs -> PCs] /\ pc'[c] = to /\ \A d \in CPUs \ {c} : pc'[d] = pc[d]
        /\ fault' \in [CPUs -> Nat] /\ fault' = fault
    BY <1>5, GotoIs, Zenon DEF IInv
  <1>7. /\ state' \in [Tasks -> States] /\ state'[u] = "RUNNING"
        /\ \A t \in Tasks \ {u} : state'[t] = state[t]
        /\ current' \in [CPUs -> Tasks \cup {IDLE, NULL}] /\ current'[c] = u
        /\ arg' \in [CPUs -> Tasks \cup {IDLE, NULL}] /\ arg'[c] = NULL
        /\ \A d \in CPUs \ {c} : current'[d] = current[d] /\ arg'[d] = arg[d]
    BY <1>1, <1>5, Zenon DEF IInv, TypeOK, States
  <1>8. idle_started' \in [CPUs -> BOOLEAN]
    BY <1>5, Zenon DEF IInv, TypeOK
  <1>9. TypeOK' /\ Lists'
    BY <1>1, <1>6, <1>7, <1>8, Zenon DEF IInv, TypeOK, Lists
  <1>10. \A t \in Tasks : RunAt(t)' = RunAt(t) /\ WaitAt(t)' = WaitAt(t)
    BY <1>1, Zenon DEF RunAt, WaitAt
  <1>11. LocalAt(u)' = {}
    <2>1. arg'[c] # u
      BY <1>7, SchedulerAssumption, Zenon
    <2>2. ASSUME NEW d \in CPUs, d # c, arg'[d] = u PROVE pc'[d] = "remove"
      BY <1>3, <1>6, <1>7, <2>2, Zenon
    <2> QED
      BY <2>1, <2>2, Zenon DEF LocalAt
  <1>12. ASSUME NEW t \in Tasks \ {u} PROVE LocalAt(t)' = LocalAt(t)
    BY <1>2, <1>6, <1>7, SchedulerAssumption, ZenonT(30) DEF LocalAt
  <1>13. \A d \in CPUs \ {c} : current[d] # u
    BY <1>2 DEF IInv, Fits, CurrentFits
  <1>14. ExecAt(u)' = {c}
    <2>1. \A d \in CPUs : current'[d] = u => d = c
      BY <1>7, <1>13, Zenon
    <2>2. current'[c] = u /\ state'[u] = "RUNNING"
      BY <1>7, Zenon
    <2> QED
      BY <2>1, <2>2, Zenon DEF ExecAt
  <1>15. ASSUME NEW t \in Tasks \ {u} PROVE ExecAt(t)' = ExecAt(t)
    <2>1. current[c] = t => state[t] # "RUNNING"
      BY <1>1, Zenon DEF IInv, Fits, CurrentFits
    <2> QED
      BY <1>1, <1>6, <1>7, <2>1, ZenonT(30) DEF ExecAt
  <1>16. Good(u)'
    <2>1. Live(u)' /\ InOne(u)'
      BY <1>1, <1>3, <1>7, <1>10, <1>11, <1>14, Zenon DEF Live, Created, InOne, Single
    <2>2. Agrees(u)'
      <3>1. RunAt(u)' = {} /\ WaitAt(u)' = {} /\ waiting_on'[u] = NULL /\ current'[cpu'[u]] = u
        BY <1>1, <1>2, <1>3, <1>7, <1>10, Zenon
      <3>2. \A q \in WaitQueues : NULL # q
        BY SchedulerAssumption, Zenon
      <3> QED
        BY <3>1, <3>2, Zenon DEF Agrees
    <2> QED
      BY <2>1, <2>2, Zenon DEF Good
  <1>17. \A t \in Tasks \ {u} : Same(t)
    BY <1>1, <1>7, <1>10, <1>12, <1>15, Zenon DEF Same
  <1>18. CurrentFits(c)' /\ ArgFits(c)'
    BY <1>1, <1>2, <1>6, <1>7, SchedulerAssumption, Zenon DEF CurrentFits, ArgFits
  <1>19. Apart(c)
    BY <1>1, <1>3, <1>6, <1>7, <1>13, Zenon DEF Apart
  <1>20. AssertsHold'
    BY <1>6, Zenon DEF IInv, AssertsHold
  <1> QED
    BY <1>9, <1>16, <1>17, <1>18, <1>19, <1>20, Moves, Zenon

(* The CPU switches to its idle task. *)
LEMMA StepCommitIdle ==
    ASSUME IInv, NEW c \in CPUs, Commit(c), arg[c] \notin Tasks
    PROVE  IInv'
  <1> USE DEF PCs
  <1>1. /\ pc[c] = "commit" /\ arg' = [arg EXCEPT ![c] = NULL] /\ state' = state
        /\ current' = [current EXCEPT ![c] = arg[c]]
        /\ idle_started' = [idle_started EXCEPT ![c] = @ \/ (arg[c] = IDLE /\ current[c] # NULL)]
        /\ UNCHANGED <<waiting_on, cpu, parked, runnables, count, waiters, wq>>
    BY Zenon DEF Commit, queueVars
  <1>2. PICK to \in {"first", "wfi", "idle"} : Goto(c, to)
    BY Zenon DEF Commit, Resume
  <1>3. /\ pc' \in [CPUs -> PCs] /\ pc'[c] = to /\ \A d \in CPUs \ {c} : pc'[d] = pc[d]
        /\ fault' \in [CPUs -> Nat] /\ fault' = fault
    BY <1>2, GotoIs, Zenon DEF IInv
  <1>4. /\ current' \in [CPUs -> Tasks \cup {IDLE, NULL}] /\ current'[c] \notin Tasks
        /\ arg' \in [CPUs -> Tasks \cup {IDLE, NULL}] /\ arg'[c] = NULL
        /\ \A d \in CPUs \ {c} : current'[d] = current[d] /\ arg'[d] = arg[d]
    BY <1>1, Zenon DEF IInv, TypeOK
  <1>5. idle_started' \in [CPUs -> BOOLEAN]
    BY <1>1, Zenon DEF IInv, TypeOK
  <1>6. TypeOK' /\ Lists'
    BY <1>1, <1>3, <1>4, <1>5, Zenon DEF IInv, TypeOK, Lists
  <1>7. ASSUME NEW t \in Tasks PROVE Same(t)
    <2>1. RunAt(t)' = RunAt(t) /\ WaitAt(t)' = WaitAt(t)
      BY <1>1, Zenon DEF RunAt, WaitAt
    <2>2. LocalAt(t)' = LocalAt(t)
      BY <1>3, <1>4, SchedulerAssumption, Zenon DEF LocalAt
    <2>3. current[c] = t => state[t] # "RUNNING"
      BY <1>1, Zenon DEF IInv, Fits, CurrentFits
    <2>4. ExecAt(t)' = ExecAt(t)
      BY <1>1, <1>3, <1>4, <2>3, Zenon DEF ExecAt
    <2> QED
      BY <1>1, <2>1, <2>2, <2>4, Zenon DEF Same
  <1>8. CurrentFits(c)' /\ ArgFits(c)'
    BY <1>3, <1>4, SchedulerAssumption, Zenon DEF CurrentFits, ArgFits
  <1>9. Apart(c)
    BY <1>1, <1>3, <1>4, Zenon DEF Apart
  <1>10. AssertsHold'
    BY <1>3, Zenon DEF IInv, AssertsHold
  <1> QED
    BY <1>6, <1>7, <1>8, <1>9, <1>10, Stays, Zenon

(* The second look at the run queue in a CPU's first switch. *)
LEMMA StepFirst == ASSUME IInv, NEW c \in CPUs, FirstSwitch(c) PROVE IInv'
  <1> USE DEF PCs
  <1> DEFINE n == current[c]
             ok == n # IDLE \/ count[c] = 0
  <1>1. /\ pc[c] = "first" /\ (ok => Goto(c, Resume(c, n))) /\ (~ok => Panic(c, {200}))
        /\ idle_started' = [idle_started EXCEPT ![c] = ok /\ n = IDLE]
        /\ UNCHANGED <<taskVars, queueVars, current, arg, wq>>
    BY Zenon DEF FirstSwitch
  <1>2. Resume(c, n) \in {"run", "wfi", "idle"} /\ (Resume(c, n) = "run" => n \in Tasks)
    BY Zenon DEF Resume
  <1> HIDE DEF n, ok
  <1>3. /\ pc' \in [CPUs -> PCs] /\ pc'[c] \in {"run", "wfi", "idle", "panic"}
        /\ \A d \in CPUs \ {c} : pc'[d] = pc[d] /\ fault'[d] = fault[d]
        /\ fault' \in [CPUs -> Nat] /\ fault'[c] \in {0, 30, 131, 200}
    <2>1. CASE ok
      <3>1. Resume(c, n) \in PCs
        BY <1>2, Zenon
      <3> QED
        BY <1>1, <1>2, <2>1, <3>1, GotoIs DEF IInv, AssertsHold
    <2>2. CASE ~ok
      <3>1. Panic(c, {200}) /\ 200 \in Nat
        BY <1>1, <2>2
      <3> QED
        BY <3>1, PanicIs DEF IInv
    <2> QED
      BY <2>1, <2>2, Zenon
  <1>4. /\ UNCHANGED <<state, waiting_on, cpu, parked, runnables, count, waiters, current>>
        /\ pc[c] = "first" /\ wq' = wq /\ arg' = arg
    BY <1>1, Zenon DEF taskVars, queueVars
  <1>5. idle_started' \in [CPUs -> BOOLEAN]
    BY <1>1, Zenon DEF IInv, TypeOK
  <1>6. TypeOK'
    BY <1>3, <1>4, <1>5, Zenon DEF IInv, TypeOK
  <1>7. arg[c] \notin Tasks
    BY <1>4, Zenon DEF IInv, Fits, ArgFits
  <1>8. CurrentFits(c)'
    BY <1>3, <1>4, Zenon DEF IInv, Fits, CurrentFits
  <1>9. ArgFits(c)'
    BY <1>3, <1>4, <1>7, Zenon DEF ArgFits
  <1> QED
    BY <1>3, <1>4, <1>6, <1>7, <1>8, <1>9, Quiet

-----------------------------------------------------------------------------
(* The theorems. *)

(* No CPU has done anything yet. *)
LEMMA InitHolds == Init => IInv
  <1> SUFFICES ASSUME Init PROVE IInv
    OBVIOUS
  <1>1. TypeOK
    BY SchedulerAssumption DEF Init, TypeOK, States, PCs
  <1>2. Lists
    BY DEF Init, Lists, IsInjective
  <1>3. ASSUME NEW t \in Tasks PROVE Good(t)
    <2>1. t \notin Created /\ ~Live(t)
      BY Zenon DEF Init, Created, Live
    <2>2. InNone(t)
      BY SchedulerAssumption DEF Init, InNone, RunAt, WaitAt, LocalAt, ExecAt, Range
    <2> QED
      BY <2>1, <2>2, Zenon DEF Good
  <1>4. Placed /\ FieldsAgree
    BY <1>3, GoodIs, Zenon
  <1>5. Fits
    BY SchedulerAssumption, Zenon DEF Init, Fits, CurrentFits, ArgFits
  <1>6. AssertsHold
    BY Zenon DEF Init, AssertsHold
  <1> QED
    BY <1>1, <1>2, <1>4, <1>5, <1>6, Zenon DEF IInv

(* Nothing happens. *)
LEMMA StepStutter == ASSUME IInv, UNCHANGED vars PROVE IInv'
  <1>1. UNCHANGED <<state, waiting_on, cpu, parked, runnables, count, waiters, current, pc, arg, wq,
                    idle_started, fault>>
    BY Zenon DEF vars, taskVars, queueVars, cpuVars
  <1>2. TypeOK' /\ Lists' /\ AssertsHold'
    BY <1>1 DEF IInv, TypeOK, Lists, AssertsHold
  <1>3. \A t \in Tasks : Same(t)
    BY <1>1, Zenon DEF Same, RunAt, WaitAt, LocalAt, ExecAt
  <1>4. CurrentFits(BootCpu)' /\ ArgFits(BootCpu)'
    BY <1>1, SchedulerAssumption, Zenon DEF IInv, Fits, CurrentFits, ArgFits
  <1>5. Apart(BootCpu)
    BY <1>1, Zenon DEF Apart
  <1> QED
    BY <1>2, <1>3, <1>4, <1>5, SchedulerAssumption, Stays, Zenon

(* Every step of every CPU keeps the invariant. *)
LEMMA StepHolds == ASSUME ~RemoteDequeue, IInv, [Next]_vars PROVE IInv'
  <1>1. CASE UNCHANGED vars
    BY <1>1, StepStutter, Zenon
  <1>2. ASSUME NEW c \in CPUs, KernelStep(c) PROVE IInv'
    <2>1. CASE scheduler_switch(c)
      BY <2>1, StepPreempt, StepLeave, Zenon
    <2>2. CASE Commit(c)
      BY <2>2, StepCommitTask, StepCommitIdle, Zenon
    <2> QED
      BY <1>2, <2>1, <2>2, StepEnqueue, StepInsert, StepRemove, StepWait, StepRequeue, StepPick,
         StepTake, StepFirst, StepQuiet, Zenon DEF KernelStep
  <1>3. ASSUME NEW c \in CPUs, Call(c) PROVE IInv'
    BY <1>3, StepCreate, StepCall, StepDequeue, StepWake, Zenon DEF Call
  <1>4. ASSUME NEW c \in CPUs, Leave(c) PROVE IInv'
    BY <1>4, StepQuiet, StepExit, StepBlock, Zenon DEF Leave
  <1>5. ASSUME NEW c \in CPUs, timer_tick(c) PROVE IInv'
    BY <1>5, StepQuiet, Zenon
  <1> QED
    BY <1>1, <1>2, <1>3, <1>4, <1>5, Zenon DEF Next

(* The invariant always holds. *)
THEOREM Invariance == ASSUME ~RemoteDequeue PROVE Spec => []IInv
  BY InitHolds, StepHolds, PTL DEF Spec

(* Whatever the CPUs do, a live task is in exactly one place, an exited    *)
(* one in none, and the run queues' counts are right.                      *)
THEOREM NoTaskLost == ASSUME ~RemoteDequeue PROVE Spec => []OnePlace
  <1>1. IInv => OnePlace
    BY PlacedMeans, Zenon DEF IInv
  <1> QED
    BY <1>1, Invariance, PTL

(* The fields of a task always agree with the list that it is in. *)
THEOREM Agreement == ASSUME ~RemoteDequeue PROVE Spec => []FieldsAgree
  <1>1. IInv => FieldsAgree
    BY Zenon DEF IInv
  <1> QED
    BY <1>1, Invariance, PTL

(* No ASSERT fails but the three that the README tells of. *)
THEOREM Asserts == ASSUME ~RemoteDequeue PROVE Spec => []AssertsHold
  <1>1. IInv => AssertsHold
    BY Zenon DEF IInv
  <1> QED
    BY <1>1, Invariance, PTL

-----------------------------------------------------------------------------
(* Round robin. *)

(* Which variables the steps of the kernel's code leave alone. *)
LEMMA KernelTouches ==
    ASSUME NEW c \in CPUs, KernelStep(c)
    PROVE  /\ cpu' = cpu
           /\ \/ runnables' = runnables
              \/ Insert(c) \/ Requeue(c) \/ runqueue_remove(c) \/ runqueue_dequeue(c)
           /\ \/ state' = state /\ current' = current
              \/ scheduler_enqueue(c) \/ Commit(c) \/ scheduler_switch(c)
  <1>1. CASE scheduler_enqueue(c)
    BY <1>1, Zenon DEF scheduler_enqueue, queueVars
  <1>2. CASE Insert(c)
    BY <1>2, Zenon DEF Insert, taskVars
  <1>3. CASE runqueue_remove(c)
    BY <1>3, Zenon DEF runqueue_remove
  <1>4. CASE waitqueue_enqueue(c)
    BY <1>4, Zenon DEF waitqueue_enqueue
  <1>5. CASE scheduler_switch(c)
    BY <1>5, Zenon DEF scheduler_switch, queueVars
  <1>6. CASE Requeue(c)
    BY <1>6, Zenon DEF Requeue, taskVars
  <1>7. CASE scheduler_policy_pick_next(c)
    BY <1>7, Zenon DEF scheduler_policy_pick_next, taskVars, queueVars
  <1>8. CASE runqueue_dequeue(c)
    BY <1>8, Zenon DEF runqueue_dequeue, taskVars
  <1>9. CASE Commit(c)
    BY <1>9, Zenon DEF Commit, queueVars
  <1>10. CASE FirstSwitch(c)
    BY <1>10, Zenon DEF FirstSwitch, taskVars, queueVars
  <1>11. CASE task_idle(c)
    BY <1>11, Zenon DEF task_idle, taskVars, queueVars
  <1> QED
    BY <1>1, <1>2, <1>3, <1>4, <1>5, <1>6, <1>7, <1>8, <1>9, <1>10, <1>11, Zenon DEF KernelStep

(* Which variables the calls of a task leave alone. *)
LEMMA CallTouches ==
    ASSUME NEW c \in CPUs, Call(c)
    PROVE  /\ runnables' = runnables
           /\ \/ cpu' = cpu /\ state' = state /\ current' = current
              \/ \E u \in Tasks, d \in CPUs : task_manager_create_with_cpu(c, u, d)
  <1>1. ASSUME NEW u \in Tasks, NEW d \in CPUs, task_manager_create_with_cpu(c, u, d)
        PROVE  runnables' = runnables
    BY <1>1, Zenon DEF task_manager_create_with_cpu, queueVars
  <1>2. ASSUME NEW u \in Tasks, CallEnqueue(c, u)
        PROVE  runnables' = runnables /\ cpu' = cpu /\ state' = state /\ current' = current
    BY <1>2, Zenon DEF CallEnqueue, queueVars
  <1>3. ASSUME NEW u \in Tasks, scheduler_dequeue(c, u)
        PROVE  runnables' = runnables /\ cpu' = cpu /\ state' = state /\ current' = current
    BY <1>3, Zenon DEF scheduler_dequeue, taskVars, queueVars
  <1>4. ASSUME NEW q \in WaitQueues, scheduler_wake_one(c, q) \/ scheduler_wake_all(c, q)
        PROVE  runnables' = runnables /\ cpu' = cpu /\ state' = state /\ current' = current
    <2>1. PICK line \in Nat, loop \in WaitQueues \cup {NULL} : Wake(c, q, line, loop)
      BY <1>4, Zenon DEF scheduler_wake_one, scheduler_wake_all
    <2> QED
      BY <2>1, Zenon DEF Wake
  <1> QED
    BY <1>1, <1>2, <1>3, <1>4, Zenon DEF Call

(* Which variables the calls that give up the CPU leave alone. *)
LEMMA LeaveTouches ==
    ASSUME NEW c \in CPUs, Leave(c) \/ timer_tick(c)
    PROVE  /\ runnables' = runnables /\ cpu' = cpu /\ current' = current
           /\ \/ state' = state \/ task_exit(c)
              \/ \E q \in WaitQueues : scheduler_block_current(c, q)
  BY Zenon DEF Leave, timer_tick, yield, task_exit, scheduler_block_current, taskVars, queueVars

(* No task of a run queue moves back. *)
AllForward == \A d \in CPUs : Forward(runnables[d], runnables'[d])

(* Queues that keep their lists move nobody. *)
LEMMA ForwardKept ==
    ASSUME IInv, \A d \in CPUs : runnables'[d] = runnables[d] PROVE AllForward
  BY RunTypedHolds, ForwardSame, Zenon DEF AllForward, RunTyped

(* Only four steps change a run queue: two append, one takes the first     *)
(* task and one takes any.                                                 *)
LEMMA StepForward == ASSUME IInv, IInv', [Next]_vars PROVE AllForward
  <1>1. ASSUME NEW c \in CPUs, Insert(c) PROVE AllForward
    <2>1. pc[c] = "insert"
      BY <1>1, Zenon DEF Insert
    <2>2. PICK u \in Tasks, to \in {"run", "wake"} :
              u = arg[c] /\ state[u] = "READY" /\ runqueue_enqueue(c, u, to)
      BY <1>1, <2>1, Zenon DEF Insert, IInv, Fits, ArgFits
    <2>3. PICK e \in CPUs : e = cpu[u] /\ RunAt(u) = {}
      BY <2>1, <2>2, ArgAlone, Zenon
    <2>4. QueuedOn(u, e)
      BY <2>2, <2>3, EnqueueIs DEF PCs
    <2> QED
      BY <2>3, <2>4, RunAppend, Zenon DEF AllForward
  <1>2. ASSUME NEW c \in CPUs, Requeue(c) PROVE AllForward
    <2>1. pc[c] = "requeue"
      BY <1>2, Zenon DEF Requeue
    <2>2. PICK u \in Tasks :
              u = current[c] /\ state[u] = "READY" /\ runqueue_enqueue(c, u, "pick")
      BY <1>2, <2>1, Zenon DEF Requeue, IInv, Fits, CurrentFits
    <2>3. cpu[u] = c /\ RunAt(u) = {}
      BY <2>1, <2>2, CurrentAlone, Zenon
    <2>4. QueuedOn(u, c)
      BY <2>2, <2>3, EnqueueIs DEF PCs
    <2> QED
      BY <2>3, <2>4, RunAppend, Zenon DEF AllForward
  <1>3. ASSUME NEW c \in CPUs, runqueue_remove(c) PROVE AllForward
    <2>1. PICK u \in Tasks : u = arg[c] /\ cpu[u] = c /\ u \in Range(runnables[c])
      BY <1>3, Zenon DEF runqueue_remove, IInv, Fits, ArgFits
    <2>2. PICK s \in Seq(Tasks) : TakenOff(u, c, s)
      BY <1>3, <2>1, RemoveTakes, Zenon
    <2> QED
      BY <2>2, RunRemove, Zenon DEF AllForward
  <1>4. ASSUME NEW c \in CPUs, runqueue_dequeue(c) PROVE AllForward
    <2>1. CASE runnables[c] = <<>>
      <3>1. runnables' = [runnables EXCEPT ![c] = @]
        BY <1>4, <2>1, Zenon DEF runqueue_dequeue
      <3>2. \A d \in CPUs : runnables'[d] = runnables[d]
        BY <3>1, RunTypedHolds, Zenon DEF RunTyped
      <3> QED
        BY <3>2, ForwardKept, Zenon
    <2>2. CASE runnables[c] # <<>>
      <3>1. PICK u \in Tasks, s \in Seq(Tasks) : TakenOff(u, c, s)
        BY <1>4, <2>2, TakeTakes, Zenon
      <3> QED
        BY <3>1, RunRemove, Zenon DEF AllForward
    <2> QED
      BY <2>1, <2>2, Zenon
  <1>5. CASE UNCHANGED runnables
    BY <1>5, ForwardKept, Zenon
  <1>6. UNCHANGED runnables
        \/ \E c \in CPUs : Insert(c) \/ Requeue(c) \/ runqueue_remove(c) \/ runqueue_dequeue(c)
    <2>1. CASE UNCHANGED vars
      BY <2>1, Zenon DEF vars, queueVars
    <2>2. ASSUME NEW c \in CPUs, KernelStep(c)
          PROVE  UNCHANGED runnables
                 \/ Insert(c) \/ Requeue(c) \/ runqueue_remove(c) \/ runqueue_dequeue(c)
      BY <2>2, KernelTouches, Zenon
    <2>3. ASSUME NEW c \in CPUs, Call(c) PROVE UNCHANGED runnables
      BY <2>3, CallTouches, Zenon
    <2>4. ASSUME NEW c \in CPUs, Leave(c) \/ timer_tick(c) PROVE UNCHANGED runnables
      BY <2>4, LeaveTouches, Zenon
    <2> QED
      BY <2>1, <2>2, <2>3, <2>4, Zenon DEF Next
  <1> QED
    BY <1>1, <1>2, <1>3, <1>4, <1>5, <1>6, Zenon

(* Round robin: nobody is queued in front of a waiting task. *)
THEOREM RoundRobin == ASSUME ~RemoteDequeue PROVE Spec => OnlyForward
  <1> DEFINE A == \A c \in CPUs : \A i \in DOMAIN runnables[c], j \in DOMAIN runnables'[c] :
                     runnables[c][i] = runnables'[c][j] => j <= i
  <1>1. ASSUME IInv, IInv', [Next]_vars PROVE A
    <2>1. AllForward
      BY <1>1, StepForward, Zenon
    <2>2. \A c \in CPUs : runnables[c] \in Seq(Tasks) /\ runnables'[c] \in Seq(Tasks)
      BY <1>1, Zenon DEF IInv, TypeOK
    <2>3. \A c \in CPUs : /\ DOMAIN runnables[c] = 1..Len(runnables[c])
                          /\ DOMAIN runnables'[c] = 1..Len(runnables'[c])
      BY <2>2
    <2> QED
      BY <2>1, <2>3, Zenon DEF AllForward, Forward
  <1> HIDE DEF A
  <1>2. Spec => [][A]_vars
    BY <1>1, Invariance, PTL DEF Spec
  <1> QED
    BY <1>2, Zenon DEF A, OnlyForward

-----------------------------------------------------------------------------
(* Exited tasks. *)

(* Only a task that was created can have exited. *)
DeadCreated == \A t \in Tasks : state[t] = "DEAD" => cpu[t] # NULL

(* An exited task stays so, and no CPU switches to it. *)
Undead(t) == state'[t] = "DEAD" /\ \A c \in CPUs : current'[c] = t => current[c] = t

(* A CPU's place in the kernel never makes an exited task anything else. *)
LEMMA StepDead ==
    ASSUME IInv, DeadCreated, [Next]_vars, NEW t \in Tasks, state[t] = "DEAD"
    PROVE  Undead(t)
  <1>1. t \in Created
    BY Zenon DEF DeadCreated, Created
  <1>2. CASE UNCHANGED <<state, current>>
    BY <1>2, Zenon DEF Undead
  <1>3. ASSUME NEW c \in CPUs, scheduler_enqueue(c) PROVE Undead(t)
    <2>1. PICK u \in Tasks : u = arg[c] /\ pc[c] = "enqueue"
      BY <1>3, Zenon DEF scheduler_enqueue, IInv, Fits, ArgFits
    <2>2. state[u] \in {"READY", "BLOCKED"}
      BY <2>1, ArgAlone, Zenon
    <2>3. current' = current /\ (state' = state \/ state' = [state EXCEPT ![u] = "READY"])
      BY <1>3, <2>1, Zenon DEF scheduler_enqueue
    <2> QED
      BY <2>2, <2>3, Zenon DEF Undead, IInv, TypeOK
  <1>4. ASSUME NEW c \in CPUs, Commit(c) PROVE Undead(t)
    <2>0. pc[c] = "commit"
      BY <1>4, Zenon DEF Commit
    <2>1. arg[c] \in Tasks => state[arg[c]] = "READY"
      BY <2>0, Zenon DEF IInv, Fits, ArgFits
    <2>2. \/ UNCHANGED <<state, current>>
          \/ /\ current' = [current EXCEPT ![c] = arg[c]]
             /\ state' = IF arg[c] \in Tasks THEN [state EXCEPT ![arg[c]] = "RUNNING"] ELSE state
      BY <1>4, Zenon DEF Commit
    <2> QED
      BY <2>1, <2>2, Zenon DEF Undead, IInv, TypeOK
  <1>5. ASSUME NEW c \in CPUs, scheduler_switch(c) PROVE Undead(t)
    <2>1. /\ current' = current
          /\ \/ state' = state
             \/ /\ current[c] \in Tasks /\ state[current[c]] = "RUNNING"
                /\ state' = [state EXCEPT ![current[c]] = "READY"]
      BY <1>5, Zenon DEF scheduler_switch
    <2> QED
      BY <2>1, Zenon DEF Undead, IInv, TypeOK
  <1>6. ASSUME NEW c \in CPUs, NEW u \in Tasks, NEW d \in CPUs, task_manager_create_with_cpu(c, u, d)
        PROVE  Undead(t)
    BY <1>1, <1>6, Zenon DEF task_manager_create_with_cpu, cpuVars, Undead, IInv, TypeOK
  <1>7. ASSUME NEW c \in CPUs, NEW q \in WaitQueues, scheduler_block_current(c, q) PROVE Undead(t)
    <2>1. current[c] \in Tasks => state[current[c]] = "RUNNING"
      BY <1>7, Zenon DEF scheduler_block_current, IInv, Fits, CurrentFits
    <2>2. /\ current' = current /\ current[c] \in Tasks
          /\ state' = state \/ state' = [state EXCEPT ![current[c]] = "BLOCKED"]
      BY <1>7, Zenon DEF scheduler_block_current
    <2> QED
      BY <2>1, <2>2, Zenon DEF Undead, IInv, TypeOK
  <1>8. ASSUME NEW c \in CPUs, task_exit(c) PROVE Undead(t)
    BY <1>8, Zenon DEF task_exit, Undead, IInv, TypeOK
  <1>9. CASE UNCHANGED vars
    BY <1>2, <1>9, Zenon DEF vars, taskVars, cpuVars
  <1>10. ASSUME NEW c \in CPUs, KernelStep(c) PROVE Undead(t)
    <2>1. UNCHANGED <<state, current>> \/ scheduler_enqueue(c) \/ Commit(c) \/ scheduler_switch(c)
      BY <1>10, KernelTouches, Zenon
    <2> QED
      BY <1>2, <1>3, <1>4, <1>5, <2>1, Zenon
  <1>11. ASSUME NEW c \in CPUs, Call(c) PROVE Undead(t)
    <2>1. UNCHANGED <<state, current>>
          \/ \E u \in Tasks, d \in CPUs : task_manager_create_with_cpu(c, u, d)
      BY <1>11, CallTouches, Zenon
    <2> QED
      BY <1>2, <1>6, <2>1, Zenon
  <1>12. ASSUME NEW c \in CPUs, Leave(c) \/ timer_tick(c) PROVE Undead(t)
    <2>1. \/ UNCHANGED <<state, current>> \/ task_exit(c)
          \/ \E q \in WaitQueues : scheduler_block_current(c, q)
      BY <1>12, LeaveTouches, Zenon
    <2> QED
      BY <1>2, <1>7, <1>8, <2>1, Zenon
  <1> QED
    BY <1>9, <1>10, <1>11, <1>12, Zenon DEF Next

(* task_exit is the only step that ends a task, and its task was created. *)
LEMMA StepCreated == ASSUME IInv, DeadCreated, [Next]_vars PROVE DeadCreated'
  <1> SUFFICES ASSUME NEW t \in Tasks, state'[t] = "DEAD" PROVE cpu'[t] # NULL
    BY Zenon DEF DeadCreated
  <1>1. cpu' = cpu
        \/ \E c, d \in CPUs, u \in Tasks : task_manager_create_with_cpu(c, u, d)
    <2>1. CASE UNCHANGED vars
      BY <2>1, Zenon DEF vars, taskVars
    <2> QED
      BY <2>1, KernelTouches, CallTouches, LeaveTouches, Zenon DEF Next
  <1>2. cpu[t] # NULL => cpu'[t] # NULL
    BY <1>1, SchedulerAssumption DEF IInv, TypeOK, task_manager_create_with_cpu
  <1>3. state[t] = "DEAD" \/ \E c \in CPUs : current[c] = t
    <2>1. CASE UNCHANGED vars
      BY <2>1, Zenon DEF vars, taskVars
    <2>2. ASSUME NEW c \in CPUs, KernelStep(c) PROVE state[t] = "DEAD"
      <3>1. CASE state' = state
        BY <3>1, Zenon
      <3>2. CASE scheduler_enqueue(c)
        <4>1. state' = state \/ state' = [state EXCEPT ![arg[c]] = "READY"]
          BY <3>2, Zenon DEF scheduler_enqueue
        <4> QED
          BY <4>1, Zenon DEF IInv, TypeOK
      <3>3. CASE Commit(c)
        <4>1. state' = state \/ state' = [state EXCEPT ![arg[c]] = "RUNNING"]
          BY <3>3, Zenon DEF Commit
        <4> QED
          BY <4>1, Zenon DEF IInv, TypeOK
      <3>4. CASE scheduler_switch(c)
        <4>1. state' = state \/ state' = [state EXCEPT ![current[c]] = "READY"]
          BY <3>4, ZenonT(30) DEF scheduler_switch
        <4> QED
          BY <4>1, Zenon DEF IInv, TypeOK
      <3> QED
        BY <2>2, <3>1, <3>2, <3>3, <3>4, KernelTouches, Zenon
    <2>3. ASSUME NEW c \in CPUs, Call(c) PROVE state[t] = "DEAD"
      <3>1. CASE state' = state
        BY <3>1, Zenon
      <3>2. ASSUME NEW u \in Tasks, NEW d \in CPUs, task_manager_create_with_cpu(c, u, d)
            PROVE  state[t] = "DEAD"
        BY <3>2, Zenon DEF task_manager_create_with_cpu, IInv, TypeOK
      <3> QED
        BY <2>3, <3>1, <3>2, CallTouches, Zenon
    <2>4. ASSUME NEW c \in CPUs, Leave(c) \/ timer_tick(c)
          PROVE  state[t] = "DEAD" \/ current[c] = t
      <3>1. state' = state \/ \E v \in {"BLOCKED", "DEAD"} : state' = [state EXCEPT ![current[c]] = v]
        <4>1. CASE state' = state
          BY <4>1, Zenon
        <4>2. CASE task_exit(c)
          BY <4>2, Zenon DEF task_exit
        <4>3. ASSUME NEW q \in WaitQueues, scheduler_block_current(c, q)
              PROVE  state' = state \/ state' = [state EXCEPT ![current[c]] = "BLOCKED"]
          BY <4>3, Zenon DEF scheduler_block_current
        <4> QED
          BY <2>4, <4>1, <4>2, <4>3, LeaveTouches, Zenon
      <3> QED
        BY <3>1, Zenon DEF IInv, TypeOK
    <2> QED
      BY <2>1, <2>2, <2>3, <2>4, Zenon DEF Next
  <1>4. cpu[t] # NULL
    <2>1. CASE state[t] = "DEAD"
      BY <2>1, Zenon DEF DeadCreated
    <2>2. ASSUME NEW c \in CPUs, current[c] = t PROVE cpu[t] # NULL
      BY <2>2, SchedulerAssumption DEF IInv, Fits, CurrentFits
    <2> QED
      BY <1>3, <2>1, <2>2, Zenon
  <1> QED
    BY <1>2, <1>4, Zenon

(* A task that has exited never runs again. *)
THEOREM ExitIsFinal == ASSUME ~RemoteDequeue PROVE Spec => DeadStaysDead
  <1> DEFINE A == \A t \in Tasks : state[t] = "DEAD" =>
                     /\ state'[t] = "DEAD"
                     /\ \A c \in CPUs : current'[c] = t => current[c] = t
  <1>1. Init => DeadCreated
    BY Zenon DEF Init, DeadCreated
  <1>2. Spec => []DeadCreated
    BY <1>1, StepCreated, Invariance, PTL DEF Spec
  <1>3. ASSUME IInv, DeadCreated, [Next]_vars PROVE A
    BY <1>3, StepDead, Zenon DEF Undead
  <1> HIDE DEF A
  <1>4. Spec => [][A]_vars
    BY <1>2, <1>3, Invariance, PTL DEF Spec
  <1> QED
    BY <1>4, Zenon DEF A, DeadStaysDead
=============================================================================
