# Verification of the jcore kernel

jcore is the C core of a Java operating system (a descendant of JX): a
uniprocessor microkernel in which every protection domain is a Java heap with
its own threads and its own garbage collector, and domains talk to each other
through *portals* (synchronous calls with copied parameters). This directory
holds TLA+ models of the parts that carry its logic, TLC configurations that
check them on small instances, and TLAPS proofs of the main invariants of the
schedulers, the portals, the allocators, the services of DomainZero, the interrupt
controllers, the calls between processors and the serial transmission.

The models follow the default kernel build: `KERNEL`, `DEBUG`, `APIC`, `GC_NEW`,
`GC_CHUNKED_IMPL`, `DIRECT_SEND_PORTAL`, `SERVICE_EAGER_CLEANUP`,
`NOTIFY_SERVICE_CLEANUP`, `MEMORY_USE_ORG`. Components that only another build
compiles are modelled too where they have logic of their own, and are named as
such: `SMP`, `JAVASCHEDULER`, `NEW_SCHED`, `NEW_COPY`, `PROFILE`,
`PROFILE_AGING`, `BINARY_DATA_TRANSMISSION`. Paths below are relative to
`src/src/`.

## 1. Inventory

| Component | State | Operations | Interacts with | What is hard | What makes it correct |
|---|---|---|---|---|---|
| Run queue (`core/runq.c`, `runq_inline.c`) | `__current`, thread states, one FIFO of threads per domain, one FIFO of domains | append, remove, switch to next, switch domains, unblock, yield | everything that blocks or wakes a thread | two queue levels that must agree; the running domain is in neither; interrupts edit the queues in the middle of a slice | queues and states agree, no assertion fires, FIFO order, no runnable thread starves |
| Threads, interrupts, idle (`core/thread.c`, `Interface/zero_CPUManager.c`, `zero_Scheduler.c`, `zero_IRQ.c`) | interrupted thread, unblock flags, polling loops, place in the idle loop | create, start, exit, yield, block, unblock, join, waitUntilBlocked, install handler, interrupt, tick | run queue | lost and double wakeups, an interrupt at every instruction, idle racing a wakeup | idle never sleeps on work, a handler returns to its victim, a join ends |
| Portals (`core/portal.c`, `exception_handler.c`, parts of `Memory/`) | service tables, reference counts, proxies, wait queues, calls in progress | send, receive, return, throw, promote, copy a reference, collect a proxy, delete a service, run a finalizer | run queue, collector, threads | calls nest and contend; references travel while collectors run | a call is executed and answered once, in order; counts are exact; nobody calls a deleted service |
| Object copying (`core/portal.c: copy_*`) | table of copied objects, flags, quota, mark | copy, restore flags, restart | portals, collector | cycles, sharing, a collection half way | the copy is isomorphic, the source unchanged |
| Block allocator (`core/malloc.c`) | bitmap, number of free blocks, rotating pointer | init, allocate (aligned), free | heaps, stacks, code | a circular search that jumps over used blocks | no overlap, exact accounting, gives up only if nothing fits |
| Memory for code (`core/malloc.c`) | fragments of a domain's code segment, temporary memory | one allocator per kind of descriptor | loader | boundaries of fragments, alignment inside a request | pieces are disjoint, inside, aligned |
| Collectors (`Memory/gc_new.c`, `gc_move*.c`, `gc_impl.c`, `gc_chunked.c`, `gc_alloc.c`) | semispaces or chunks, forwarding, account of a principal | allocate, collect, finalize, wait for memory | portals, memory objects, stacks | moving what other parts point to; finalizing exactly the dead | the graph is preserved, every dead proxy is finalized once, the account is exact |
| Memory objects (`Interface/zero_Memory_org.c`) | descriptors, free list, chains of neighbours, proxies | create, copy, split, join, sub range, revoke, read, write, fill, move | allocator, collector | chains edited by two domains; a free list without a lock | counted exactly, freed once and whole, no access outside |
| Class loading (`core/load.c`) | shared libraries, each domain's part, symbols | read, publish, link, load into a domain, run constructors, clone a method | boot file system, code memory | publication before linking; libraries that need each other | linked to what the code file names, initialised in order |
| Virtual machine support, exceptions (`core/vmsupport.c`, `domain.c`, `exception_handler.c`, `Memory/gc_stack.c`) | - | type tests, array copies, address to method, search for a handler, walk of a stack | collector | return addresses at the ends of ranges | equal to reference definitions |
| C library (`arch/minic.c`) | - | division, formatting, parsing, strings | all | rare carries, limits of the word | equal to reference definitions |
| Domains, naming, boot file system, atomic variables | table of control blocks; name list; archive cursor; sleepers | create, terminate, look up, register, read, block, wake | portals, scheduler | reuse of blocks, one shared cursor, links that are not cleared | an identifier keeps its meaning; what is found is what was stored; sleepers are found |
| Interrupt controllers, I/O APIC, processors (`arch/`) | masks, routes, processors started | enable, acknowledge, route, start, call across | threads | spurious interrupts, BIOS tables, time-outs | an interrupt reaches its handler; who runs is counted |
| Profiler, lifetime log, serial transmission, Java and round-robin schedulers | see the modules | - | build options | preemption in an epilogue, full tables, a lossy line, two levels of schedulers | what is recorded is what happened; no thread is lost |
| Boot, monitor, device and emulation portals, compression, other collectors | - | - | - | - | not modelled (section 6) |

`PROJECT.json` lists every component with its status and, under `hazards`, the
places where the code is hard to test, each with the properties that cover it
or the reason why none does.

## 2. Modules

| Module | Models | Checked in |
|---|---|---|
| `Runq` | state and primitives of the two-level run queue | `MCThreadSched`, `MCPortal` |
| `ThreadSched` | threads, CPUManager / Scheduler / IRQ portals, interrupts, tick, idle (extends `Runq`) | `MCThreadSched` |
| `Portal` | calls, services, proxies, their collection (extends `Runq`) | `MCPortal` |
| `Rpc` | abstract specification: synchronous calls, one at a time, in order | `MCPortal`, as a refinement |
| `Malloc` | block allocator | `MCMalloc` |
| `GcMove` | the two-semispace collector of the default build | `MCHeap` |
| `GcChunked` | the collector with chunks, accounts and waiting | `MCHeap` |
| `GraphCopy` | copying parameters between heaps, both builds | `MCHeap` |
| `CodeMem` | memory for code, descriptors, temporary tables | `MCHeap` |
| `ArrayAlloc` | array classes, arrays of arrays | `MCHeap` |
| `MemoryObjects` | descriptors and proxies of memory objects | `MCMemoryObjects` |
| `MemAccess` | the accessors of a memory object | `MCAlgorithms` |
| `Libc`, `VmSupport`, `Exceptions` | pure algorithms, as operators | |
| `Algorithms` | one step per call of them, with reference definitions | `MCAlgorithms` |
| `Domains`, `BootFS`, `AtomicVariable`, `Naming` | services of DomainZero | `MCServices` |
| `Loader` | libraries from the code file to running constructors | `MCServices` |
| `Pic`, `ApicSetup`, `Smp` | interrupt controllers, MP tables and routes, processors | `MCServices` |
| `Platform` | the machine: `Pic` and `Smp` together | `MCServices` |
| `Profile`, `ProfileAging`, `Bdt`, `JavaSched`, `SchedRR` | components of optional builds | `MCOptions` |
| `Runq_proofs`, `ThreadSched_proofs`, `Portal_proofs`, `Malloc_proofs`, `Services_proofs`, `Options_proofs`, `Platform_proofs` | TLAPS proofs | |

`MCHeap`, `MCServices`, `MCAlgorithms` and `MCOptions` check several components
that share no state in the model. A variable `part` says which of them a
behaviour works on; the others stand still. Nothing is lost by that: their
steps commute, and their properties speak of one part each.

A definition named like another one with a suffix and the comment "Mutant" is a
plausible mistake in the code it stands beside. It is used by no specification;
`PROJECT.json` says which property finds it.

### Conventions

Most of the kernel runs with interrupts disabled on one processor: what happens
between two thread switches, or between `DISABLE_IRQ` and `RESTORE_IRQ`, is one
step. Where interrupts are enabled, or the code can start a collection, block or
fail half way, a function is several steps. `ASSERT` and `sys_panic` are part of
the models: a step that would trip one sets a variable (`panic`, `assertion`,
`codeHalt`, `trap`, `fault`, ...) and the model stands still. The DEBUG build has the
assertions. Where an assertion never fires a property says so; where one does, the
property of the component is about the executions up to there, its comment names the
property that fails, and section 3 lists it.

### Runq and ThreadSched

A linked queue is a sequence of its elements in link order. A switch is an
assignment to `curthr` (`__current`): the C code behind a switch belongs to the
step in which the thread continues. `AppendAssert`, `RemoveFirstAsserts` and
`SwitchDomainsAssert` are the checks of the code. `check_completerunnable` is the
debug scan of the queues; one of its tests is written as an assignment
(`if (t->state = STATE_RUNNABLE)`, `runq.c:426`), and is modelled as one.

The actions of `ThreadSched` bear the names of the functions. The loops of `join`
and `waitUntilBlocked` are one step per round (`PollRound`). An interrupt may come
whenever interrupts are enabled; its handler thread may unblock, create and start
threads but does not block or yield. A dead thread stays a zombie. `icurrent` is the
thread a handler interrupted; when `irq_exit` leaves the handler the model clears it,
where the code keeps a value that nobody reads before the next interrupt sets it.

### Portal and Rpc

`direct_send_portal` queues the call and hands off to a waiting receiver or blocks;
`receive_portalcall` is one round of the receive loop; `ReceiveReturn` and
`throw_exception` are the ways out of a service method; `SendReturn` is the sender's
side of the answer. An exception comes in two ways. A trap of the processor enters
through an interrupt gate, and the way to the sender runs with interrupts disabled. One
that code throws leaves the method between the `sti` and the `cli` of `call.S` and edits
the queues with interrupts enabled: the model stops at `ASSERTCLI`, as the DEBUG build
does, and `UnblockWithIrqsDisabled` says so. A parameter or result is null or a reference to a portal object:
what matters is whether it needs a proxy in the destination and whether it must be
promoted to a service first. `heap[d][s]` counts the proxies of service `s` in the
heap of `d`; `gc_in` finds one of them dead and runs `service_decRefcount`.
`GcFailures` are the states in which the collector stops the kernel; `PromotionGc` is the
one of a collection that the first proxy of a new service starts (`CollectedCountsHold`).

`Rpc` says what portals promise. `ImplementsRpc` is the refinement under the mapping
`queue <- senders`, `serving <-` the caller of a receiver that executes, `answer <-
portalReturn` with its type.

### Malloc and CodeMem

Blocks are numbers, a region is a pair of first block and length. `SearchRound` is
one round of the loop of `jxmalloc_internal`, so that a search which does not end is a
behaviour; the read of `start_block` before `LOCK_MALLOC` is a step of its own. The
bits of the last `n_blocks % 8` blocks may be set from the start (`stray`), as
`jxmalloc_init` does not clear them. In `CodeMem` a record remembers the units its
owner writes to, so that an allocator which asks for less than is written shows.

### GcMove, GcChunked, GraphCopy, ArrayAlloc

`GcMove` has the heap as a function from word addresses to objects, all kinds of
object flags, the forwarding pointers, the kinds of roots, and one step per phase of
a collection; the mutator allocates and stores between collections. `before` holds
the graph that the roots reached when the collection started. `GcChunked` chooses which
objects survive and keeps what the other collector has not: the list of chunks, the
account of the principal, the threads that wait for it in the middle of a collection, and
the one-shot threads of `core/oneshot.c` that collect, with the one global `switchBackTo`
they return through. A collector that comes back to a thread which waits for none stops the
kernel (`fault = "oneshot"`), and so may the loop over the waiters, whose last round
stores through NULL (`NullStores`). A reader of `gc_move.c` will miss `listMode` of an
atomic variable in `GcMove`: the collector does not copy it (396-412), and no property is
about it. `GraphCopy` runs the recursive copy of the default build as a stack
machine, and the NEW_COPY build as shallow copies with a scan from a mark; a
collection of the target heap may come at every allocation, and one of the source heap
when a promotion allocates there (`portal_auto_promo`, for the builds in `SourceCollects`). A
copy that an exception ends leaves its forwarding pointers behind in the NEW_COPY build. `ArrayAlloc` has the
three ways to an array class and the recursion of `doAllocMultiArray`, again with
collections in between; a store into a row that a collection has moved goes where the code
lets it go (`astray`).

### MemoryObjects, MemAccess

A proxy points to a descriptor; descriptors of one block form a chain. Every operation
is one step except for what runs with interrupts enabled, where `Preemptible` allows a
switch: in `dzmemory_alloc` the read of the head, the read of its successor and the
compare-and-swap; and `CHECKVALID`, so that an operation may edit an object whose
validity was checked long ago. Aligned objects take more units than they use, device memory
never came from `jxmalloc`, and a `joinNext` that is refused leaves interrupts disabled. `leaked` counts the references that `getSubRange` and
`revoke` take and never give back. `MemAccess` puts the memory of an object between two
red zones and makes every call with every argument, negative indexes included, on every
contents. `memory_clear` passes a number of words where bytes are counted and always
clears a quarter of the memory.

### Algorithms

Operators of `Libc`, `VmSupport` and `Exceptions` are translations of the C functions
with the word sizes as constants (a digit has two bits instead of 16, a long 8 bits
instead of 32). `Algorithms` states beside each the thing it is for: quotient and
remainder, a number that reads back as it was printed, reachability in the class
hierarchy, the innermost matching handler. Array copies and stores have NULL, objects
that are no arrays, classes that do not fit and indexes below zero among their inputs.

### Loader

A code file is a record of the libraries it needs, its classes, their fields, vtables
and symbols; a symbol is a patched place, and its value after linking is the thing
its address denotes. The component manager can be preempted between the publication of
a library and its linking and between classes (`LoadsOverlap`); the initial thread of a
domain runs undisturbed. A domain may load a library again and gets a second entry for it.
A running class asks `vm_test_cinit` for the classes it uses.

### Services and platform

`Domains` keeps proxies with the identifier a domain had, and control blocks that are
used again; termination, through a proxy or by a server of its caller, is the one the
`NEW_SCHED` build completes, as the default build stops in `sys_panic`. The answer to a
caller that is gone leaves the abort flag set, and the flag drops the answer to the next
(`dropped`). `BootFS` has the archive's shared cursor and the readers of `memfs.c`, with
bytes where the sign of a byte matters; a name of 80 bytes or more is copied over the size
of its entry, over the rest of the record or over the stack behind it. In `AtomicVariable`
the next field belongs to the thread: all variables and `CPUState.setNext` share it and
nobody clears it. `Pic` models the two 8259 as
hardware (external) and the code that programs them, with spurious interrupts and the
change of the video mode, which programs them twice. `ApicSetup` reads MP tables of
many shapes, with 24 pins per controller and 256 irqs as in the code; `Smp` starts processors with time-outs and runs cross calls.

### Optional builds

`Profile` has a clock and counts beside the code what really ran; exceptions that leave a
call go through `profile_call2`, which keeps the lower half of the time the call began.
`ProfileAging` keeps the events that were logged and reads the log back; it counts the
bytes of the pool and notes when something behind a table or the pool is written
(`stray`), where the code goes on. In `Bdt` the line loses packages
and bytes of acknowledgements; the receiver at the other end is another program and
external. `JavaSched` has the kernel's side of the two-level schedulers; the Java
schedulers are external. A Java scheduler looks at its queue, clears its runnable flag and
yields in three steps. The build does not compile at this commit: `javascheduler.c` calls
`createThread` with three arguments where it takes five (`thread.c:97`), and `thread.c:268`
calls `Sched_created` with two where `javascheduler.c:159` takes one. The model follows each
function as it is written. `SchedRR` has the pointers of the domain queue.

## 3. Runs

| Run | Instance | Properties |
|---|---|---|
| `sched_domains` | three domains with one user thread each, idle, an interrupt handler, timeslicing | `QueuesConsistent`, `NoPanic`, `IdleParkedOnlyWithoutWork`, `InterruptedThreadKept`, `QueuesAreFifo` |
| `sched_progress` | two domains, one with two user threads, no handler | `RunnableThreadRuns`, `JoinReturns` |
| `portal_calls` | four domains, two clients, two services that call each other in a line, a finalizer thread | `KernelSound`, `NoLostSender`, `ServicesCounted`, `CallAccounted`, `ImplementsRpc` |
| `portal_progress` | the same without the finalizer, one proxy per heap | `CallReturns` |
| `malloc_blocks` | seven blocks, one of them the bitmap, four bits per bitmap byte, requests of 1-3 blocks, alignment 1 or 2 | `NoOverlap`, `AccountingExact`, `OutOfMemoryJustified`, `FittingRequestServed` |
| `heap` | a heap of six words with every kind of object and two collections; two chunked heaps on one account; graphs of three objects; two code segments in seven blocks with one temporary memory at a time; arrays of up to three dimensions | `CollectionRight`, `ChunksAccounted`, `CopyRight`, `CodeMemorySound`, `ArraysWhole` |
| `memory_objects` | two domains, five descriptors, four units of memory; two structural operations on two memories or three on one | `MemorySound` |
| `algorithms` | all pairs of four-digit numbers, all numbers of a byte in every format, short texts, all hierarchies of four classes, programs of three classes, every call of an accessor on every contents | `LibraryRight`, `RuntimeRight`, `AccessesRight` |
| `services` | three control blocks; archives with short and long names; three sleepers on two variables; two names; five code files and two domains; three lines on two 8259; MP tables of many shapes with up to 33 sources; three processors | `DomainsSound`, `StaleProxyHarmless`, `NameKept`, `BootFSRight`, `SleepersReachable`, `LinkedRight`, `LoadedInOrder`, `MachineRight`, `RoutesRight` |
| `options` | recursion beyond the drift stack; three logged events; seven calls of the transmission and three losses; six threads, four of them created on the way, under Java schedulers; three threads under the round-robin ones | `ProfileRight`, `LogReadable`, `BdtInOrder`, `JavaSchedSound`, `RRThreadsKept` |

Two runs show a disagreement between the code and what it says of itself (details
under `findings` in `PROJECT.json`):

| Run | What TLC finds |
|---|---|
| `loader_race` | a domain that starts while the component manager is between publication and linking runs unlinked code, although the linker's comment wants addresses resolved first (`LinkedRight`, `LoadsOverlap = TRUE`) |
| `memory_alloc` | two threads in `dzmemory_alloc`: the compare-and-swap succeeds with a stale successor, a descriptor in use becomes the head of the free list, and the assertions behind it are false (`FreeListSound`, `Preemptible = {"alloc"}`) |

More disagreements are stated in the modules or appear when a constant is changed.
They belong to no run; each can be reproduced as an invariant of the module's run, with
its constants or the ones named here.

| Where | What the code does |
|---|---|
| `ThreadSched!IdleParks` (`MCThreadSched`, fair specification) | an interrupt that makes nothing runnable leaves idle spinning with interrupts disabled |
| `Portal!UnblockWithIrqsDisabled` | a service method throws with interrupts enabled (`call.S:73`); the way to its sender (`exception_handler.c:265-287`, `portal.c:2574-2594`, `runq_inline.c:91-103`) ends in `threadunblock`, "be sure the IRQs are disabled" (`thread.c:463`), and `ASSERTCLI` fires |
| `Portal!CollectedCountsHold` | a new service is in the table before its first proxy; the allocation of the proxy collects the heap, and `ASSERT(... refcount > 1)` fires (`gc_impl.c:151`) |
| `Portal!DeletedReceiverIsIdle` | a service is deleted while its receiver is in a run queue |
| `Portal!FinalizerMeansDeleted` | the finalizer thread is started although the service lives on |
| `Portal!HandedOffSenderCanMove`, with clients `a`, `a2` in one domain and `b` beside the receiver of `s1` | a collection moves a sender that has been handed off and leaves the queue link behind |
| `Malloc!SearchEnds` | a search that jumps over its start block never ends |
| `OutOfMemoryJustified` with `Callers = {c1, c2}` | an allocation between the read of `start_block` and the lock leads to a false "Out of memory" |
| `GcChunked!ReturnsToWaiter` | a second domain collects while the collection of the first waits for memory; both share `switchBackTo` (`oneshot.c:9`), and `ASSERT(switchBackTo->state == STATE_WAIT_ONESHOT)` fires (`oneshot.c:21`) |
| `GcChunked!EndIsChunkEnd` with `ObjectSizes = {1}` | `endCurrentChunk` is not the end of the current chunk |
| `GraphCopy` with `MemoryCollects = TRUE` | the copy does not notice a collection that the allocation of a memory proxy started; TLC stops at the store into a copy that is gone |
| `Domains!DroppedOnlyIfAborted` | the abort flag of a caller that is gone (`portal.c:788-793` leaves before 804 clears it) drops the answer to the next caller, which lives and waits; `portal.c:803` says "either caller disappeared or aborted call" |
| `Domains!NoCallerLeft` | `terminateDomain` forgets senders that are still queued |
| `AtomicVariable!Reachable`, `AtomicVariable!WakesOnlySleepers` | a thread woken by `cpuManager.unblock` waits again and its next field loses those before it; an update follows stale next fields and wakes threads that do not sleep on its variable |
| `BootFS!LongNamesRight`, `BootFS!DisturbedRight` | a long name overwrites the size of its entry; a search that the loader of another domain disturbs returns the wrong data or stops the kernel |
| `Loader!InitOrderKept`, `Loader!LoadedOnce` | the constructors of the libraries a needed library needs do not run; a library that is loaded again has its statics twice |
| `ApicSetup!AtMostTwoPerLevel` | the second round of vectors puts a third one on an interrupt level, "max. 2 at the same level" (`io_apic.c:215`) |
| `ApicSetup!EveryIrqTrapped`, `ApicSetup!OnlyApicsWritten` | irqs from 16 on have no trap and the 22nd pin has the vector of the local timer; an irq on no pin, or a controller too many, writes outside `io_apics` |
| `GraphCopy!ThrownUnmarked`; `CopyRight` with `"marking"` in `SourceCollects` | a copy that an exception ends leaves forwarding pointers; a promotion that collects the source spoils a copy of the NEW_COPY build |
| `ArrayAlloc!NoStrayStore` | after two collections during one row a store goes into the semispace in use ("not gc save", `gc_alloc.c:394`) |
| `MemoryObjects!NoStrayFree`, `!PaddingFreed`, `!IrqsRestored` | device memory is given to `jxfree`; what surrounds an aligned object is never freed; `joinNext` returns with interrupts disabled (`zero_Memory_org.c:1541`) |
| `MemAccess!ClearsAll` | `Memory.clear` clears a quarter of the memory, where the loop in the comment clears all of it (`zero_Memory_org.c:1130-1131`) |
| `MemAccess!ZeroExtended` | `Memory.get8` extends the sign (`zero_Memory_org.c:960`), where the note of the accessors says "ZERO-EXTENDED" (984-996) |
| `MemAccess!NeighboursKept` | an index below zero reaches what lies in front of the object |
| `Algorithms!RightCopied`, `!IndexesTested`, `!TerminationThrown` | `System.arraycopy` to the right inside one array; offsets below zero; a request to throw that is tested for under another name |
| `Profile!ExceptionsAccounted` | a call that an exception leaves is charged the time since the start of the machine, or not counted |
| `ProfileAging!NothingBehindWritten`, `!DomainsNamed` | a `memmove` that is too long and a test that is a byte short; a control block that is used again keeps the name of its first domain |
| `JavaSched!WorkIsMarked`, `!CreatedRunnable` | a wake-up between the look of a scheduler and `clearMyRunnableFlag` is lost; a thread is announced before it can run |
| `MachineRight` with `Prompt = FALSE` | a processor that answers after the time-out runs and is not counted |
| `Pic!GatesStay` | a change of the video mode rebuilds the interrupt table and drops the timer's gate |
| `BdtInOrder` without `NoTurn`, with `FirstSeq = 126` and ten bytes of data as the only call | the acknowledgement of package 127 is that of 128 with the bytes in another order: two repeated ones that lose two bytes are taken for one of 128, and the sender goes on before that package has been taken |
| `SchedRR!IdleOnlyIfNobodyRuns` | the first domain is removed from the queue instead of the idle one |

Others are in the models as the code has them and left out of a property, which its
comment says: a stack trace through a call at the end of a method, and the store through
NULL behind the last waiter of a chunked heap (`NullStores`). One is left
out by an assumption: the head of a chunk of more than 1111 bytes would make the room that
`bdtAddToBuffer` computes wrap around; all callers have heads of 16 bytes (`BdtAssumption`).

### Bounds, and why they are enough

- Scheduler: three domains besides the handler's make a domain queue of several entries
  while another domain runs; two user threads in one domain a thread queue of several
  entries. Three domains with two threads in one of them are beyond TLC; the invariants
  are proved for every number of both.
- Portals: two clients contend for one service and that service calls a second one, so
  that a wait queue has several entries, calls nest, and references go both ways;
  `MaxProxies = 2`: one proxy may die while the other is in use.
- Malloc: seven blocks with a stray tail and requests of three make every branch of the
  search happen, wraparound included.
- Heap: three objects of two references are enough for sharing, cycles, a chain behind
  a moved object and a dead neighbour; the second collection works on what the first
  one moved, in the other semispace. Graphs of three objects have all pairs of kinds of
  the second and third object; the quota and the table are small enough to run full.
- Memory objects: two structural operations on two memories, or three on one, give chains
  of three neighbours with holes, and five descriptors run out. Four units leave room for
  one aligned object and what surrounds it.
- Algorithms: with four digits all digit positions and the add-back step of the division
  occur; the contents of the accessors' memory are bits, so that a wrong byte differs.
- Loader: two files of the first domain depend on the base library, one on both, and the
  second domain finds part of them loaded; the chain of needs is three long, so that the
  last library is not needed directly by the one that asks for constructors.
- Platform: tables with one entry too many of each kind, and with more pins connected than
  there are vectors in a round; one device on the slave, one on the line of spurious
  interrupts.
- Domains: three control blocks of which one is used again, so that an old proxy, an old
  caller and an old flag meet a new domain.
- Options: `MaxNow` lets the lower half of the clock overflow; three losses hit a package, a
  repeated package and an acknowledgement; four threads may be created under the Java
  schedulers (`MaxCreated`), and three events are enough to fill a block, a table and the pool.

Model values are not declared symmetric because the threads are in different domains.
Deadlock checking is off where the system may stop: after a panic, at a bound, when a
call has been made.

### Fairness

- `reschedule`: strong. The timer interrupt is latched by the interrupt controller, so a
  tick comes through if interrupts are enabled again and again. Only builds with
  `TIMESLICING_TIMER_IRQ` have it; the progress run of the scheduler assumes them.
- `irq_exit`, `PollAgain`, `IdleCli`, `IdleYield`: weak. They are the code that the
  thread on the CPU executes next.
- Portals: the default build has no timeslicing, so progress needs cooperation: every
  client yields again and again (strong fairness of `yield`), a service method ends
  with a result or an exception, and what the kernel does between switches happens.
- Malloc: a search runs with interrupts disabled, so nothing can stop it: weak fairness
  of `SearchRound`.

`RunnableThreadRuns` and `JoinReturns` further assume that from some time on no interrupt
is handled and thread switching is not disabled for ever. The first is needed: an
interrupt takes the handler's domain out of the domain queue and puts it back at the end
(`runq.c:259`), so interrupts that keep coming starve its threads.

## 4. Proofs

The theorems hold for all values of the constants that satisfy the named assumptions
(`RunqAssumption`, `ThreadSchedAssumption`, `PortalAssumption`, `MallocAssumption`,
`CodeAssumption`, `ChunkedAssumption`, `DomainsAssumption`, `NamingAssumption`, `AtomicAssumption`, `RRAssumption`,
`BdtAssumption`, `PicAssumption`, `SmpAssumption`), which TLC evaluates in
the runs of the modules. They say what the code's tables guarantee: a thread belongs to a
domain, a receiver to one service, the thread of a finalizer is made for it, "nobody" is
not a thread, devices do not use the line of the cascade, a processor is once in the table.

| Module | Theorem | States | Under |
|---|---|---|---|
| `ThreadSched_proofs` | `TypeCorrect`, `QueuesAlwaysConsistent`, `NeverPanics`, `InterruptedThreadAlwaysKept`, `IdleNeverSleepsOnWork` | `TypeOK`, `QueuesConsistent`, `NoPanic`, `InterruptedThreadKept`, `IdleParkedOnlyWithoutWork` | |
| | `QueuesStayFifo` | `QueuesAreFifo` (action property) | |
| `Portal_proofs` | `PortalInvariant`, `PortalTypesKept` | `IInv`, `TypeOK` | |
| | `CallsKeepKernelSound` | `KernelSound` | `NoCallCycle` |
| | `NoCallLost`, `ServicesStayCounted`, `EveryCallAccounted` | `NoLostSender`, `ServicesCounted`, `CallAccounted` | |
| | `PortalsImplementRpc` | `ImplementsRpc` (safety part of the refinement) | |
| `Malloc_proofs` | `TypeCorrect`, `NeverHandedOutTwice`, `AccountingAlwaysExact` | `TypeOK`, `NoOverlap`, `AccountingExact` | |
| | `OutOfMemoryOnlyIfNothingFits` | `OutOfMemoryJustified` | one caller |
| | `CodeMemoryAlwaysSound` | `CodeMemorySound` | |
| | `ChunksAlwaysAccounted` | `ChunksAccounted` | |
| `Services_proofs` | `DomainsAlwaysSound`, `StaleProxiesHarmless` | `DomainsSound`, `StaleProxyHarmless` (action property) | |
| | `NamesAlwaysKept` | `NameKept` (action property) | |
| | `SleepersAlwaysReachable` | `SleepersReachable` | |
| `Options_proofs` | `RoundRobinKeepsThreads` | `RRThreadsKept` | |
| | `TransmissionInOrder` | `BdtInOrder` | |
| `Platform_proofs` | `EnabledLinesAlwaysReachCpu` | `EnabledLinesReachCpu` | |
| | `CrossCallsAlwaysComplete` | `CrossCallComplete`, `OnlineExact` | `Prompt` |
| | `MachineAlwaysRight` | `MachineRight` | `Prompt` |

`Runq_proofs` holds lemmas about the primitives: what appending, removing the first
element and unlinking do to a duplicate-free sequence, that the debug scan changes
nothing while the queued threads are RUNNABLE, and that each scheduler step takes a
consistent state to a consistent state without panicking.

`ThreadSched_proofs` proves `TypeOK`, `QueuesConsistent`, `NoPanic`,
`InterruptedThreadKept`, `IdleParkedOnlyWithoutWork` and `QueuesAreFifo`. `QueuesConsistent` alone is not
inductive: the invariant `IInv` adds that the running thread is RUNNABLE, that idle and
handlers are never queued, that a handler which is not running is AVAILABLE, that no
handler polls, and which thread a handler interrupted. `NoPanic` follows because in such
a state every guard of the assertions holds. `QueuesAreFifo` speaks of one step: appending,
removing the first and unlinking keep the order of what stays (`AppendOrder`, `TailOrder`,
`UnlinkOrder`), and so does doing one after the other as long as nobody leaves a queue and
comes back within the step (`OrderComposes`).

`Portal_proofs` rests on one inductive invariant, `IInv`. The run queue's part is the
consistency of `Runq_proofs` plus who may be idle or blocked (`RunnersOK`). The part of
the calls, `CallInv`, says from four sides where a call is: from the caller (`CallsOK`: a
blocked caller has no answer yet and is queued or served, one that runs again has the
answer of the service it called), from the queue (`WaitQueuesOK`: blocked callers of this
service, each once, not the one being served), from the service that works (`ServingOK`)
and from the receiver (`ReceiversOK`: it waits only in its loop and with an empty queue).
No one of them is inductive without the others: a handoff moves a call from the queue to
the receiver, an answer moves it back to the caller. The part of the references,
`CountInv`, says that counts equal the proxies in all heaps (`RefcountExact`, over the set
of proxies, whose cardinality changes by one with each copy and each collection), that
who calls holds a proxy (`ProxiesHeld`, hence no call meets a deleted service), and that a
live service has a proxy. `SomebodyRuns` needs a hypothesis about the program: if services
call each other in a cycle they wait for each other. Under `NoCallCycle` (there is a rank
that every call between services lowers; the run's own rank is evaluated in
`MCPortal!MCCallsDescend`) the service of least rank with a blocked caller has a receiver
that waits for nobody, so its state contradicts that everybody is blocked. The refinement
maps the wait queue to the queue of `Rpc`, with the call a receiver is about to take still
in front of it; each step of the code is matched with one step of `Rpc` or none.

`Malloc_proofs` proves `TypeOK`, `NoOverlap` and `AccountingExact` from an inductive
invariant that says which blocks are marked and why; the count of free blocks needs the
cardinality of an interval (`CountRun`). `OutOfMemoryOnlyIfNothingFits` proves
`OutOfMemoryJustified` for a single caller. Its invariant `SweptSoFar` says what a search
has already ruled out: everything between its start and the rotating pointer or, once it
has wrapped, everything from the start on and below the pointer. A failed `isFree` rules
out every start up to the used block it met (`FailedRoundSweeps`), `nextFree` jumps over
used blocks only (`NextFreeSweeps`), and being back at the start means that everything
has been ruled out (`SweepOn`).

The second part of `Malloc_proofs` is about `CodeMem`. Its invariant `CodeInv` says that the
fragments of all domains and the temporary memories lie over different blocks, that each
fragment is filled from its base to its `top`, and that every piece handed out lies below the
top of a fragment of its domain and apart from every other. A new piece begins at the top, so
it meets no older one; what has to be shown of each allocator is that the size it asks for
covers what its owner writes, the padding of the code included. When a fragment is too small a
new one is taken: it is apart from the others because areas over different blocks have no
unit in common (`BlocksApart`).

The third part is about `GcChunked`. What the principal is charged for is a sum over its heaps of sums
over their chunks. The community modules' fold takes the elements of a set in the order of
`CHOOSE`, so it is first shown, by least counterexamples, that the table of partial sums exists
(`SumsUpTo`) and that any element may be taken first (`TabTake`); then a sum changes by the
difference when one value changes (`SumChange`). The invariant `ChunkInv` has the account, the
counted portals and for each heap `HeapRight`: outside a collection there is no second semispace,
and the statistics describe the chunks that are current, those of the second semispace while
objects are moved. There is one exception that it has to leave room for: after a collection that nothing survived
there is no chunk, the statistics are those of before, and `TryAlloc` stops the kernel.

`Services_proofs` has three parts. For atomic variables the threads an update looks at are the
least set that contains the head of the variable and is closed under `nextThread`
(`ListLeast`). The invariant says only that a variable's sleepers are in that set: stale next
fields may hang on it, as every variable and `CPUState.setNext` write the same field. Setting
the field of a thread that is in no list leaves every list as it is; `relinked` notes the
other case, in which the code does lose sleepers (section 3). For names, the list is in the order of
registration, so the cell a walk reaches in `k` steps is the `k`-th; a name that is found
is found at the same place after another entry was linked behind. For domains, `DomainsInv`
says that no identifier in use is above `currentDomainID`, that no two used blocks have
the same one, that a proxy's identifier belongs to its block or to nobody, and, while the
system runs and no answer has been dropped, that queue and served caller of each service
agree with what the clients wait for (`ServiceOK`: a served caller waits for this service or
is dead) and that who waits for an answer is served by a domain that lives (`CallerOK`).

`Options_proofs` has two parts. The first shows that each local scheduler holds the runnable threads of its
domain, each in one place (`LocalOK`), for each operation on one scheduler, and then that the
other schedulers are not touched (`KnownStep`). The domain queue needs only its
types: that the loop of `activateNext` leaves a domain or none is shown for the recursive
function `Drop` by a least counterexample, first for its existence and then for its
values (`DroppedType`). That the domain queue itself can lose a domain is a finding
(section 3); the theorem says that the threads are not lost with it.

The second part proves `TransmissionInOrder`, in two invariants. `LinkInv` is about the line.
What the sender has in its ring of three bytes and what is on the way back is one stream, and
the ring can begin in the middle of an acknowledgement and hold bytes of two. While a package is
sent, either it has not been taken (`Waiting`: the whole stream is of the package before, and
so are the packages ahead on the line), or it has (`Taken`: the stream is a part that belongs to
the package before, followed by one that belongs to this one). So the sender goes on
only when the receiver has taken the package, if bytes of the package before can never be read
as an acknowledgement of this one (`AckFresh`). This is arithmetic modulo 256 and false
at the multiples of 128, which is how the disagreement of section 3 was found; `NoTurn` is in
the property for it. `SenderInv` is about the calls: what was sent, the buffer, and what the
running call has still to add are together what the calls were given. The flattening of what
was sent is a fold; that it is the flattening of the front followed by the last package is
shown by a least counterexample.

`Platform_proofs` treats the two halves of the machine. `PicInv` says that in protected mode the
masks are those of the enabled lines and the cascade is open if one of them is on the slave, what
may be in service while a handler runs, and that every vector leads to its line: together they
let an enabled line through. For processors, `BootInv` says of each one, by its place in the
table, what the boot processor knows of it: a processor that was tried is on the list exactly
if it listens. The hypothesis `Prompt` is needed here (section 3). `CallInv` says of the call
that has the lock that each processor asked for has begun the function or has the interrupt
pending, never both, so the two counters are cardinalities of sets; that a record whose
caller still waits for the lock is fresh; and that a handler which will report its end
belongs to the call that has the lock, so it never writes to a record that is gone.

Only model-checked: all liveness properties (`RunnableThreadRuns`, `JoinReturns`,
`CallReturns`, `FittingRequestServed`), because the prover has neither fairness nor
ENABLED; and the modules `GcMove`, `GraphCopy`, `ArrayAlloc`, `MemoryObjects`,
`BootFS`, `Loader`, `ApicSetup`, `Profile`, `ProfileAging` and `JavaSched` (section 7). The pure algorithms
and the readers of `BootFS` stay with TLC: what a recursive definition computes
for every input needs induction over data, which the installed provers do not do.

## 5. How the properties are kept honest

A property that relates two pieces of state is built from named parts, which the modules
define and comment one by one (`CollectionRight` from `SurvivorsIntact`, `HeapWalkable`,
`FinalizedExactly` and `NoServiceResurrected`, and so on). Ghost variables (`before`,
`logged`, `meant`, `leaked`) record what happened, are read by properties only
and never enable or disable a step.

## 6. Not modelled

- `core/minilzo.c` (third-party) and `Headers/symbols.h` (generated).
- `Memory/gc_org.c` is compiled and never selected, `gc_compacting.c` does not compile at
  this commit, `gc_bitmap.c` is switched off.
- `debug/monitor.c` prints state while everything else stands still.
- Boot and `main.c`: run once before there is a second thread; their results are the
  initial states of `ThreadSched`, `Domains` and `Pic`.
- Device and emulation portals (disks, network, frame buffer, timers, ports): input and
  output without state of the kernel. The change of the video mode is in `Pic`.
- `zero_Memory_new.c`, `_shared.c`, `_simple.c`, `_minimal.c`: other builds of the memory
  portal, not compiled. `core/math.c` is switched off.
- `NEW_PORTALCALL` (service thread pools), `PORTAL_HANDOFF`, `CONT_PORTAL`, interceptors.
- `zero_CAS.c` is a single locked instruction. Of `core/oneshot.c` the one-shot collector
  threads are in `GcChunked`; the other users (`gc_new.c:175`, `zero_DomainManager.c:496`,
  `zero_Memory_org.c:195`) run to the end with interrupts disabled and are part of one step.
- Statistics, event logs and printing of all components.

## 7. What is left

- `MemoryObjects`: chains of descriptors that two domains split and join; the invariant of a
  doubly linked chain with holes is larger than any here.
- `GcMove`, `GraphCopy`, `Loader`, `ArrayAlloc`: their properties compare graphs before and
  after, and proofs need induction along paths.
- `JavaSched`: what holds is that a thread that can run is known exactly once, up to the
  panics that the property names; an invariant for it would have to say how far each
  scheduler is in its three steps.
- `Profile` and `ProfileAging`: sums of times and a log that is read back by recursion.
- `ApicSetup`: a computation on one table, checked for all tables of the bounds.
