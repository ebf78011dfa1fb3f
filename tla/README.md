# TLA+ models of KaworuOS

KaworuOS is a small AArch64 kernel: several CPUs, device interrupts, spinlocks,
a cooperative scheduler per CPU, kernel memory management, a console over a
UART and a framebuffer terminal, and a device tree that says what there is.
These modules model its code, vendored libraries included; TLC checks them on
small instances, and TLAPS proves the central results for every value of the
constants.

## The system and its modules

| Part | Source | Modules | Proofs |
| --- | --- | --- | --- |
| Spinlock and interrupt masking stack | `kernel/sync/spinlock.c`, `kernel/irq/irq_controller.c` | `Spinlock` implements `Mutex` | `SpinlockProofs` |
| Scheduler, run and wait queues, life of a task | `kernel/sched`, `kernel/sync`, `kernel/core/task*.c` | `Scheduler` | `SchedulerProofs` |
| Bringing up CPUs, creating tasks, `scheduler_pick_cpu` | `kernel/core/{cpu,task_manager}.c`, `secondary_entry.S` | `Boot` | `BootProofs` |
| Exception entry, return and panic | `kernel/arch/aarch64/exception.*`, `panic.h` | `Exceptions` | `ExceptionsProofs` |
| Interrupt table, dispatcher, GICv2, kernel timer | `kernel/irq`, `drivers/irqchip`, `timer.c` | `Interrupts` | `InterruptsProofs` |
| Bitmap and regions of addresses | `lib/allocator/bitmap.c`, `kernel/mm/vmm_region.c` | `VMRegion`, `RegionCalls`, implements `HeapSpec` | `StoreProofs` |
| Free list and kernel heap | `lib/allocator/freelist.c`, `kernel/mm/kheap.c` | `KHeap` implements `HeapSpec` | `KHeapProofs` |
| Physical pages, translation tables, virtual memory | `kernel/mm/{kmem,paging,vmm}.c` | `Vmm` over `VMRegion` | |
| Console input: UART, ring buffer | `drivers/uart/pl011.c`, `lib/ds/ringbuffer.c`, `kernel/io/console.c` | `ConsoleInput` implements `InputSpec` | `StoreProofs` |
| Console output: arenas, backends | `kernel/io/console.c`, `lib/allocator/arena.c` | `ConsoleOutput` | `StoreProofs` |
| Drivers and devices | `drivers/common/manager.c`, the probes | `Devices` | `BootProofs` |
| Framebuffer terminal | `drivers/framebuffer`, `thirdparty/Flanterm` | `Framebuffer` over `Flanterm`; `FlantermUtf8`, `FlantermInit` | |
| Device tree | `kernel/boot/fdt.c`, `thirdparty/libfdt` | `DeviceTree`, `FdtRead`, `FdtEdit`, `FdtHeader`, `Fdt` implements `FdtSpec` | |
| Lists | `lib/ds/{intrusivelist,linkedlist}.c` | `IntrusiveList` implements `ListSpec`, `LinkedList` implements `DequeSpec`; `Lists` puts both side by side | `ListProofs` |
| C library, printf | `lib/{string,stdlib}.c`, `kernel/debug/printf.c` | `CString`, `Strtoul`, `Printf` | |

How they interact: every shared structure has a spinlock, whose acquire masks
interrupts on its CPU; the heap takes its lock and, growing, those of a region
and of the page allocator; the scheduler's queues are intrusive lists under a
lock each; the timer interrupt wakes idle CPUs; the UART's interrupt feeds the
console. `Spinlock` is what allows the other modules to treat a locked
operation as one step, and `IntrusiveList` to treat a list as a sequence. That
composition is an argument, not a checked refinement. Where two components
interact without a lock between them (the dispatcher and the table's writers,
`scheduler_pick_cpu` and the queues, the scheduler's unlocked tests) they are
in one module.

The modules `MC...` instantiate several components side by side. Such a
component shares no state with its neighbours, or uses them only through calls
that are single steps in both models; a variable `part`, chosen at the start,
says which one a behaviour exercises.

Every comment above a definition names what it models; `PROJECT.json` gives the
lines. Definitions whose comment begins with "Variant" are what the code would
be with a plausible mistake: for every property there is one that breaks it.

## The runs

| Run | Instance | Shows |
| --- | --- | --- |
| `spinlock` | 2 CPUs with a thread and a handler each; `kheap.lock` with the page allocator's lock nested in it, and a lock the handler shares | the panics are unreachable (`NoPanic`), interrupts are masked exactly while something is owed (`InterruptsExact`), somebody who spins gets on (`SpinningProgress`), the locks are a mutex (`ImplementsMutex`) |
| `scheduler` | 2 CPUs, 3 tasks, 1 wait queue | every task is in one place (`OnePlace`), its fields agree with it (`FieldsAgree`), nobody overtakes it (`OnlyForward`), a queued task runs (`QueuedRuns`) |
| `scheduler_wake` | 2 tasks | violated: a woken task resumes (`WokenResumes`) |
| `memory` | translation tables of 4 entries, 19 usable frames, 2 regions of 4 pages, 2 CPUs; a heap of 4 pages of 6 bytes, header 2, limit 15 | frames are free, tables or mapped, once (`FramesAccounted`); tables, regions and translation caches agree (`TablesAgree`); the heap loses no byte, merges what touches, fails only when full and passes its limit by less than a page (`NothingWasted`); callers own disjoint bytes (`ImplementsHeap`) |
| `memory_free` | the same | violated: `vm_free` returns (`FreeReturns`) |
| `console` | 7 characters, a FIFO of 4 that interrupts from 2 on, a ring of 3; 2 backends, 2 events, 3 message bytes; all trees of 3 nodes from 6 kinds | input is a bounded queue (`ImplementsQueue`), and the FIFO is emptied down to its trigger level (`EventuallyHandled`), output loses and repeats nothing (`Delivered`), a failed probe gives everything back (`AllOrNothing`) |
| `exceptions` | exceptions nested 3 deep | code resumes where it was interrupted (`ResumesWhereInterrupted`) with its registers (`RegistersPreserved`) |
| `interrupts` | 3 CPUs, a banked timer, a shared UART, removal of the UART | an interrupt is active exactly while served (`ActiveWhileServed`), one CPU handles a character and finds it (`HandlerFindsCharacter`), the unlocked table is never seen half written (`HandlerWithItsData`), ticks and characters are served (`AllServed`) |
| `boot` | 3 CPUs, 2 more tasks | the boot CPU waits for all (`AllReadyAfterWait`), identifiers are unique (`IdentifiersUnique`), the CPU picked is up and, when nothing moved, the least busy (`PicksLeast`), boot completes (`BootCompletes`) |
| `device_tree` | headers on both sides of every limit; blobs in buffers of 17 words, written, and of 20, edited up to four times; some thirty boards | no walk of an accepted blob leaves it, and it ends (`WalkInside`); lookups agree with the nesting, siblings and grandchildren included (`ReadsAgree`); edits change what they name (`ImplementsTree`); the kernel's questions are answered as the tree says (`KernelReads`) |
| `terminal` | screens of 3 rows and 2 columns, up to 4 events, the border bytes of UTF-8, 45 drawable and 5 undrawable modes | a flush shows what was written (`FlushShowsText`), sequences edit what they name (`SequencesEdit`), cancel recovers the parser, but for the flag of a private sequence (`CancelRecovers`), UTF-8 is decoded as RFC 3629 says, but for sequences from `F4 90` on (`DecodesUtf8`), pixels and pool suffice (`ScreenFits`) |
| `library` | regions of 8 pages in bytes of 3 bits; 2 lists of 4 nodes; memories of 4 bytes; strings of up to 4 characters; formats of up to 4 | the bitmap matches the table (`BitsMatchSlots`), the search is first fit (`SearchIsFirstFit`), a region is an allocator (`ImplementsRanges`), lists are sequences (`ImplementsLists`), functions compute what they should, with the exceptions named below (`FunctionsCorrect`) |

Deadlock is checked where the system never stops. Where a panic, a finished
boot, the last character or a returned call ends the model, the .cfg says so.

## How state and actions correspond to the code

### Spinlock

State: `locked` and `cpu` of every lock, the interrupt mask, depth and saved
mask of every CPU. Each CPU has two contexts, its thread and the interrupt
handler on top of it; each has a program counter inside acquire or release.
Every shared access is an action: the read of the mask, the masking with the
bookkeeping of `irq_push_intr` (nothing can interrupt it any more), the two
loads of `holding()`, the exchange, the store of the owner, and in release the
two loads, the two stores and `irq_pop_intr`. An interrupt may be taken at any
unmasked point. Memory is sequentially consistent; the fences and
acquire/release orderings in the code are taken to provide that.

Assumed of the callers: locks are released in the reverse order of acquisition
(`spinlock_acquire_scoped`), nobody takes a lock it holds, and locks nest as the
constant `Nests` says. Handlers take the locks of `IrqLocks`. A nesting order
with a cycle would deadlock; the code has none that we found.

### Scheduler

State: the fields of every task, the run queue and count of every CPU, the wait
queues, `current`, and where each CPU is in the code, with the locals that
matter. A queue operation under its lock is one step. `scheduler_switch` is six:
the checks on the current task, putting it back, the unlocked test of the queue,
the removal of the first task, the switch of `current`, and on a CPU's first
switch a second look at the queue. Idle tests the queue, then waits for an
interrupt; the tick ends the wait. A task resumes in its own code, idle before
its `wfi`. A failed ASSERT stops the CPU and `fault` holds its line (15 is in
`run_queue.c`, 16 in `wait_queue.c`, the rest in `scheduler.c`).

Nothing in the kernel creates tasks other than idle yet, so the callers are
open: `kernel_main` and running tasks may create tasks on any CPU, enqueue and
dequeue them, block on and wake wait queues, yield and exit. They enqueue only
tasks they hold. They dequeue only tasks queued on their own CPU, unless
`RemoteDequeue` is set; the runs leave it unset. Which CPU
`scheduler_pick_cpu` chooses is open here and modelled in `Boot`. Because every
wake of a waiting task panics, what follows a successful wake (the loop of
`scheduler_wake_all` among it) is in the model and unreachable.

### Boot and Devices

`Boot`: one program counter per CPU, the cell that releases it,
`cpus_enabled_count`, the record of each CPU, the task manager with its lock,
next identifier and list. Creating a task is three steps under the lock;
`scheduler_pick_cpu` reads one queue length per step, without a lock.

`Devices`: the nodes of the tree the driver manager matches, the device
records, the memory and mappings each probe holds, and the console's backends.
`dmanager_init` creates the devices, one action per class readies one of them
with all of its probe, and any step of a probe that the code tests may fail. The
untested allocations of a `Device` and of a console backend may fail too, and
stop the kernel at the store through the error pointer.
`Garbage` is what the fresh `Device` holds in `driver_data` (see below).

### Exceptions and interrupts

`Exceptions` has one CPU: registers, mask, program counter, and a stack of
frames. Entering stores a frame as `save_registers` does, a handler leaves
anything in the registers, and the return loads the frame. A handler may be
interrupted itself, up to `MaxDepth` (a bound of the runs; the proofs have none
but the constant). `UsesX18` says whether compiled code holds values in x18.

`Interrupts` has the distributor, the CPU interfaces, the table of handlers and
a dispatcher per CPU whose steps are those of `irq_dispatcher`: acknowledge,
read the handler, read the data, call, end. Requesting and rejecting an
interrupt write the table in the code's order; dispatchers read it without the
lock.

### Memory

`KHeap`: the free list as the sequence of its blocks in pointer order, the
bytes the heap was given, and the allocations. `kalloc` with its growth and
`kfree` are each one step under `kheap.lock`. Sizes are numbers and blocks are
intervals, so splitting, merging and the remainders too small for a header are
computed as in the code. Of `vm_alloc_mem` the heap sees that it gives pages it
has not given, or fails.

`VMRegion` is the bitmap search, the setting and clearing of bits and the table
of allocations as functions; `RegionCalls` makes them a state machine. `Vmm`
puts translation tables, the chain of free pages and the regions together. A
call is one step: the heap grows under its lock, on any CPU, and the boot CPU
maps and unmaps devices before it wakes the others (`BootCpuAlone`, from the
order of calls in `kernel_main`). A secondary CPU enters by
`vm_set_kernel_page_table`. Each CPU caches translations of the pages it
touches, and `tlb_flush` empties its own cache only.

### Console, lists, device tree, terminal, library

`ConsoleInput`: line, FIFO, ring and what readers got; the interrupt is raised
from `Trigger` characters on, and the handler takes one each time. `ConsoleOutput`: the two arenas, the buffered events as
offsets into the message bytes, the backends, and histories of what was written
and shown. A message is its number repeated over its length, so that a byte
overwritten by another message shows.

`IntrusiveList` and `LinkedList` have the pointers of every node and one action
per operation. Callers insert nodes that are in no list and remove nodes from
the list they are in. `intrusivelist_remove_tail`, which no code calls,
dereferences the null tail of an empty list and stops the kernel. So do the
allocating list's removal from an empty tail, and its insertions when `kalloc`
returns an error.

`FdtRead` and `FdtEdit` are libfdt's functions over a blob of words: tags, the
scan from tag to tag, lookups, writing and editing in place. `FdtHeader` scans
blobs whose header and words are arbitrary, `Fdt` is a blob under a sequence of
calls, `DeviceTree` is the kernel's `fdt.c`. Words stand for the 32-bit cells;
names and values are numbers. A name is one word, so the scan for its final byte
is not in the model; `fdt_open_into` is called on the blob's own buffer.

`Flanterm` has the parser's and the framebuffer backend's context as a record
and an operator per function; `Framebuffer` is the console backend that feeds
it, `FlantermUtf8` and `FlantermInit` are its decoder and its memory. `CString`,
`Strtoul` and `Printf` are the C library's functions, compared with reference
definitions.

## Bounds, and why they are enough

The constants named `Max...` bound a behaviour and nothing in the code; all
other constants are sizes of the system. Each instance is the smallest in which
the cases a property is about all happen.

* `spinlock`: one nesting pair and one shared lock cover the ways contexts can
  meet: different CPUs, thread and handler on one CPU, nested sections.
* `scheduler`: three tasks give two queued behind a running one, or one on each
  CPU and one in transit.
* `memory`: the frames run out before the regions do, in the middle of building
  a chain of tables and of a mapping of several pages. A device finds no room in
  its region. The second CPU comes up at any time and caches what it uses. The heap's limit is not a
  multiple of its page; remainders of 0, less than a header and more all occur,
  and blocks touch on either side or both.
* `console`: a ring of three holds two, so that it wraps and overflows within
  seven characters. The trigger level is half of the FIFO, as the reset value
  of `UARTIFLS` sets it, so that characters stay below it. Events and message bytes can each run out first, and one
  message is longer than the arena. Three nodes are two devices of one class or
  one of each, in every order; every tested step of the UART's probe fails, and so
  do the untested allocations.
* `exceptions`: the third level interrupts a handler that interrupted one.
* `interrupts`: three CPUs race for one shared interrupt, so two of them lose.
* `boot`: two secondaries race for the task list; two more tasks make a queue
  change while another CPU looks.
* `device_tree`: header fields on both sides of each limit, the wrap of a word
  included; four edits move what follows them again and again, and give siblings,
  grandchildren and several properties. The boards vary the widths of a device's
  parent against the defaults and against those of the bus above, and some have
  two compatible nodes.
* `terminal`: a screen of three rows scrolls and wraps at two columns.
* `library`: regions end in the middle of a byte, and runs cross bytes.

Message contents, colours beyond a few, names and glyphs
are abstract values; integer widths are kept where the code depends on them
(the header's offsets in libfdt, escape values, `strtoul`).

## Fairness

Liveness is checked under these assumptions and no others.

* `Spinlock`: a context inside a call or a section continues, and handlers
  return. There is none for acquiring and none between spinning CPUs, as the
  exchange gives none. Hence progress, not freedom from starvation, is checked.
* `Scheduler`: scheduler code runs to its end; the timer, which re-arms itself
  on every tick, keeps ticking; a running task eventually yields, blocks or
  exits, whatever it calls in between. The last is an assumption on tasks: the
  tick does not preempt. `QueuedRuns` depends on the tick, as queueing a task on
  an idle CPU sends it no interrupt.
* `Boot`: CPUs execute, and the boot loader starts each CPU it reports. A CPU
  that wants the task manager's lock gets it if it is free again and again. The
  exchange does not promise that against endless competition, but during boot
  each CPU takes the lock once, and later the tasks are bounded.
* `Interrupts`: programs go on between interrupts (strong, as interrupts disable
  them), dispatchers run to their end, an armed timer expires.
* `ConsoleInput`: the handler runs while its interrupt is raised, which the
  previous module shows, and readers keep reading.
* `FdtHeader`: the scan goes on.

## Where the code and its comments disagree

Two runs are violations, each with a behaviour TLC prints:

* `scheduler_wake` (`scheduler.c:96`): waking a task leaves it BLOCKED, and
  `scheduler_enqueue` asserts that it is not. No woken task resumes.
* `memory_free` (`vmm.c:214`): `vm_free` frees the region's record with the
  first page, so its loop ends early and its own `region_free` panics.

The rest we met while modelling. No run is about them. Where the lines are
modelled the model does what the code does; where a property must leave a case
out because of it, the case is named here.

* `scheduler.c:131`: a wake between queueing and leaving the CPU fails this
  ASSERT. `scheduler.c:200`: a task queued during a CPU's first switch fails
  this one. With line 30 these are the three that `AssertsHold` leaves out.
* `scheduler.c:51`: dequeueing a task that another CPU picks meanwhile empties
  its queue. The runs and proofs of `Scheduler` exclude it (`~RemoteDequeue`).
* `freelist.c:25` and `:84`: an empty list fails an ASSERT, although line 93
  provides for it, and before the heap could grow.
* `kheap.c:57`: the limit is compared before rounding up, so the heap can pass
  it, by less than a page as `NothingWasted` says. `vmm_region.h:36`: an eighth of the table is used.
* `paging.c:174`: `tlbi vmalle1` reaches the executing CPU only. `TablesAgree`
  holds because pages are unmapped only while the boot CPU runs alone; with
  unmapping on a CPU among others it would not.
* `vmm.c:78`: a full region's error reaches `paging_map`, whose alignment test
  panics. `FramesAccounted` is about states before any panic; `TablesAgree` also
  about this one.
* `pl011.c:145`: the FIFO is enabled and the receive timeout is not unmasked, so
  fewer characters than the trigger level (half of the FIFO after reset) raise no
  interrupt. `EventuallyHandled` is about a character with enough others behind
  it to reach the level; the last ones typed wait for more.
* `manager.c:50`, `console.c:66`, `linkedlist.c`: the result of `kalloc` is used
  untested.
* `console.c:130`, `:161`: a message longer than the arena, or unbuffered
  output over buffered events, fails an ASSERT with the lock held. `Delivered`
  says that it fails in these two ways only.
* `irq_controller.c:88`: `reject_irq` leaves the interrupt enabled.
* `panic.h:13`: `wfi` returns at the next interrupt, to code marked unreachable.
* `exception.S:42`: x18 is not restored, and the build does not reserve it.
  `RegistersPreserved` is about the other registers, and the run has
  `UsesX18 = FALSE`. Floating-point registers are neither saved nor modelled.
* `start.S:9`: the stacks are as many as the emulator's CPUs; no code compares.
* `arm-gicv2.c:174`: the probe tests `driver_data`, which nothing has set yet,
  instead of the block it allocated. `ProbesAllOrNothing` assumes the fresh
  field does not look like an error (`"error" \notin Garbage`); the run has a
  stale value, and among the probes only the UART's allocation fails in it.
* `fdt.c:194`: the cells read are not compared with the property's length.
  `fdt_ro.c:154`: the highest phandle can wrap to 0. `fdt_addresses.c:27`:
  returns the count that `libfdt.h:1249` excludes.
* `flanterm.c:1969`: CAN does not clear `dec_private`, nor does the `[` of the
  next sequence (line 1154): after a cancelled `CSI ?` the next control sequence
  is taken as private and lost. `CancelRecovers` states just that, and
  `SequencesEdit` leaves such states out.
* `flanterm.c:87`: `ESC c` turns autoflush on. `flanterm.c:730`: ESC in a
  private sequence starts none. `flanterm.c:1997`: `F4 90 80 80` emits no
  replacement (`DecodesUtf8` leaves out sequences that exceed the range this
  way). `framebuffer.c:46`: an error pointer is taken for a context.
* `string.c:133`: `strchrnul` tests the first character. `string.c:97`:
  `strncmp` of length 0 compares. `printf.c:170`, `:186`: `%f`, and a newline
  in `%s`, advance the pointer to the count instead of the count.
  `printf.c:51`: the count is compared with the buffer's size once per character
  of the format, so a directive can write past the buffer; the model lets that
  stop the kernel or not. `FunctionsCorrect` says nothing of `strchr` and
  `strchrnul` for a character the string does not hold, of `strncmp` with length
  0, of formats that print a float or a string with a newline, nor of texts
  longer than the buffer.

## What is proved

TLAPS checks these for every value of the constants that satisfies the named
assumption of the module. `PROJECT.json` lists the theorems. Each is a safety
property; most follow from one inductive invariant per component, which the
properties alone are not.

**`SpinlockProofs`** (`SpinlockAssumption`: the boot CPU exists, no lock nests in
itself, `NULL` is none of them): `TypeCorrect`, `Exclusion`, `PanicFree`,
`Masking` and `Refinement`. That `holding()` is exact needs to know that `locked`
is set exactly while some context has the lock open (`LockedExact`), and that
`cpu` names that context's CPU except in the windows after the exchange and
before the store (`CpuExact`). Exclusion needs that a lock is open once
(`NoRepeat`) and that a call in progress is about the right lock (`SpIsLock`,
`CallOnHeld`). Masking needs that the context not executing is at rest or was
interrupted with nothing open (`OtherAtRest`) and that the mask saved is the
thread's (`MaskSaved`). The refinement shows that only the exchange and the store
change the owner.

**`SchedulerProofs`** (`SchedulerAssumption`, and `~RemoteDequeue`): `NoTaskLost`,
`Agreement`, `Asserts`, `RoundRobin`, `ExitIsFinal`. The invariant says where each
task is, counting the windows of `scheduler_switch` and of the callers in which
it is in no queue (`Placed`), that lists repeat nothing and hold what their
fields say (`Lists`, `FieldsAgree`), and which tasks a CPU's program counter can
hold (`Fits`).

**`BootProofs`** (`CountAssumption`): `UniqueIdentifiers`, `SeparateIdle`,
`ReadyAfterWait`, `PickIsLeast`. The invariant ties the lock to the program
counters (`Locked`), the identifiers in use to the counter (`Counter`), the idle
tasks to the CPUs (`Idle`), and `cpus_enabled_count` to the CPUs that have
finished (`Progress`, `Counted`, `Waited`). `PickIsLeast` adds what a CPU in the
middle of its search knows (`Picking`). Its second part, about `Devices`
(`TreesAssumption`), is `ProbesAllOrNothing`: for every tree and every set of
failing steps, memory and mappings are exactly those of the ready devices, and
only ready devices are used. `DevicesInv` says in addition that a device is the
only one of its node, that an unready one has no data of its own, and which
devices are ready at each point of `kernel_main`.

**`ExceptionsProofs`**: `FramesHold`, `Resumption`, `Preservation`, for exceptions
of any depth. The invariant says what each frame holds and how frames and the
history of entries correspond (`Nesting`, `Stacked`).

**`InterruptsProofs`** (`NumbersAssumption`; a distributor of 1024 interrupts is
excluded, as its last numbers collide with the spurious one): `TypeCorrect`,
`NothingStaysActive`, `OneReceiver`, `DataOfHandler`. The invariant says
that nothing is dispatched before the boot CPU's interface is set up (`Phases`),
by when the table is complete (`Requested`, `Registered`), that one CPU at a time
serves the UART (`OneServer`), and what a dispatcher has read (`Dispatching`).

**`KHeapProofs`** (`HeaderAssumption`, `HeapAssumption`): `NothingWastedAlways` and
`KHeapImplementsHeap`. The invariant is that the list is in address order with
a gap after each block, that free and allocated blocks tile the pool (no byte
in two of them, none in neither), that allocated blocks are as long as was asked
for, and that `capacity` is the size of the pool. The order is what makes one
pass of `freelist_free` find both neighbours. The gaps are what makes a failing
search mean that no run of free bytes is long enough. The bound on growth
(`LimitedGrowth`) follows from the test of each growth, as rounding adds less
than a page.

**`StoreProofs`**, in three parts.
* Console input (`CapacityAssumption`, `HardwareAssumption`, `CharAssumption`):
  `TypeCorrect`, `Refinement` (the ring is a bounded queue), `ReadInOrder`,
  `DropOnlyFull`. The order is that of the whole stream, from the FIFO through
  the ring to the readers (`Ordered`).
* Regions (`BitsAssumption`, `RegionAssumption`): `RegionTypeCorrect`, `Agreement`,
  `FirstFit`, `NeverStops`, `RegionRefinement`. Slots are apart, the bits are those
  of the slots, and the slots are what callers hold. That the search is first fit
  is shown with least elements, as it skips past the page that stops it.
* Console output (`OutputAssumption`): `OutputTypeCorrect` and `NothingLost`. The
  invariant says that the buffered events lie one behind another in the message
  arena and hold their own bytes, and that what every backend was given,
  followed by them, is the end of what was written.

**`ListProofs`** (`ListsAssumption`): `IntrusiveLists`, `AllocatingList`,
`ListsRefinement`. The invariant is that there are sequences, one per list, laid
out along `next` and `prev`, with no node in two places; for the allocating list
also that the nodes on the heap are those it links. Each operation is shown to
lay out the sequence that `ListSpec` or `DequeSpec` prescribes.

The provers have no induction over data, so what needs induction over numbers
(the length of a chain, the first free page) is stated with the least number at
which it fails.

## What is only model-checked

* Every liveness property: `SpinningProgress`, `QueuedRuns`, `BootCompletes`,
  `AllServed`, `EventuallyHandled`, and that the walk of a blob ends. TLAPS does
  not reason about fairness here.
* `FramesAccounted` and `TablesAgree`: `Vmm` goes along pages, levels and the
  boot loader's map with recursive functions, and what they yield for every
  number of pages needs induction.
* The device tree, the terminal, strings, `strtoul` and `vsnprintf`
  (`ReadsAgree`, `KernelReads`, `WalkInside`, `ImplementsTree`, `FlushShowsText`,
  `SequencesEdit`, `CancelRecovers`, `DecodesUtf8`, `ScreenFits`,
  `FunctionsCorrect`): recursive functions over blobs and texts, for the same
  reason.

## What is not modelled

* libfdt's overlays (`fdt_overlay.c`), string lists and phandle generation; Flanterm's glyph and width tables, which are constants.
* Code without a caller: `task_destroy`, `task_manager_lookup`,
  `waitqueue_remove`, `runqueue_peek`, `framebuffer_deinit`, a driver's `remove`,
  the timer's `fire_at`, `alloc_bitmap_init`.
* Hardware I/O and glue: the PL011's line settings, semihosting, the boot
  loader's responses, the logging macros' prefixes, stacks and system registers
  of `start.S`, names of errors.
* Failing allocations while tasks are created, and weak memory order.

## Running

    tlc -config Spinlock.cfg Spinlock
    tlapm SpinlockProofs.tla

`PROJECT.json` gives module and configuration of each run, the source lines each
definition models, the hazards the properties aim at, and for every property a
variant of the code that it rules out. The runs take seconds to a few minutes
each, the proof modules up to some ten minutes each.
