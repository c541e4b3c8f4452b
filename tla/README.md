# GoshkikOS in TLA+

GoshkikOS is a small x86_64 kernel: one CPU, preemptive kernel threads, a
stride scheduler driven by the PIT, a kernel heap, a slab allocator and the
beginnings of a virtual file system. This directory holds TLA+ models of it,
the TLC configurations that check them and the TLAPS proofs about them. Paths
below are relative to the repository's `src/`.

## 1. Inventory

| Component | State | Operations | Hard behaviour | What makes it correct | Module |
|---|---|---|---|---|---|
| Ready queue (`scheduling/scheduler.c`, `thread.c`) | `ready_head`, `ready_tail`, every thread's `next` | enqueue, dequeue, search and remove, two hand-written links | `next` is also written outside the lock, and shared with mutex and process wait lists | the list holds exactly the ready threads | `ReadyQueue` |
| Scheduler tick (`scheduler.c`, `context_switch.asm`, `irq.c`) | `current_thread`, states, cooldowns, `tss.rsp0` | save, requeue, pick, switch, `clean_up` | strikes between any two instructions; takes a sleeping mutex inside an interrupt | always finds a live ready thread; nobody starves | `Scheduler` |
| Threads (`thread.c`) | thread table, count, `next_tid`, states | create, block, unblock, exit, terminate, `clean_up` | lookups under a mutex, use without it | table and memory agree; a thread is created once and reclaimed once | `Scheduler` |
| Mutex and spinlock (`mutex.c`, `spinlock.h`) | owner, waiters, saved interrupt flag | acquire, release | the flag is saved in the shared lock | exclusion; interrupts restored | `Scheduler` |
| Processes (`process.c`) | process table, states, wait lists | create, exit, terminate, wait | parent and child race on the child's lock | only exits are collected, with their own code | `Processes`, `Scheduler` |
| Kernel heap (`klibc/kmem/kheap.c`) | block list, `heap_current` | `kmalloc`, `kfree` | no lock, called from threads and from the tick | blocks tile the heap, allocations never overlap | `Kheap` |
| Slab (`klibc/kmem/slab.c`) | slab lists, free lists | create, alloc, free, destroy | list moves at full and empty | an object is in one place | `Slab` |
| Physical memory (`mem/pmm`, `mem/mmu`) | bitmap, memory map | alloc, free, choice of the region | no lock | a frame has one owner | `Kheap`, `Slab` |
| Virtual memory (`mem/vmm`) | page tables | map, unmap, resolve, new address space | intermediate tables, shared kernel half | a page resolves to what was mapped last | `PageTables`, `Kheap` |
| Hash table (`klibc/kmem/hashtable.c`) | buckets | set, get, remove | collisions, allocation failure | stands for a function | `Hashtable` |
| Vnodes, VFS, path (`fs/vfs`) | reference counts, vnode cache, mounts, name cache | ref, unref, lookup, purge, mount, unmount | last reference against lookup | no vnode freed while reachable | `Vfs` |
| Clock (`cpu/timer`) | milliseconds, time fields | handler, get, compare | torn read, wraparound | fields agree with the count, deadlines are kept | `SystemClock` |
| kprintf, terminal, messages (`klibc`, `vterm`) | cursor, pixels, colour, lock | conversions, drawing, scrolling | preemption, screen boundaries | messages whole; screen shows the end of the text | `Console` |
| Strings (`klibc/kmem/string.c`, `mem.c`) | `strtok`'s pointer | copies, comparisons, searches, tokens | overlap, truncation, empty strings | agree with a reference | `Strings` |
| GDT, IDT, PIC, stubs, system calls (`cpu`) | frames, registers, controllers | deliver, switch, return, report, call | frames laid out by hand in assembly | no register lost or moved | `Interrupts` |
| Boot (`main.c`) | what is initialised | `kmain` | order of the calls | nothing used before it is initialised | `Boot` |
| Serial port, PS/2 | - | port I/O | - | only their place in the boot is modelled | `Boot` |
| tmpfs, tarfs, devices | - | - | - | empty in this version | - |

How they interact: the PIT raises IRQ 0, `irq_handler` calls `scheduler_tick`
and then `timer_handler`; `thread_block` and `thread_exit` raise the same
interrupt themselves. Threads call `thread.c` and `process.c`, which call each
other, `mutex.c` and the heap. `mutex.c` calls `thread_block` and
`add_to_ready_queue`; `thread_block` takes a mutex. `clean_up`, at the end of
each tick, takes `thread_mutex` and calls `kfree`. The file system keeps its
vnodes in a hash table and allocates them from a slab cache; the slabs and the
heap take frames from `pmm.c` and map them with `vmm.c`. Everything prints
through `kprintf`, which holds a spinlock.

`PROJECT.json` lists the main hazards, each at its line. A hazard without a
property has a note that says why. Smaller ones that the models contain without
a property of their own, because a property would restate one statement or
nothing says what is right:

- `slab.c:203`: the page of an emptied slab is translated with the wrong offset,
  and its frame is never free again (`Slab!Unmap`);
- `string.c:31`: `stpncpy` clears the start of the destination;
- `path.c:8`, `path.c:7`: a key of the name cache holds unwritten bytes, and the
  address of a directory without a reference to it; `path.c:149`: `namei_init`, which
  makes the table, has no caller; `path.c:17`: an inverted test;
- `gdt.c:25`: the selectors of user code and data are swapped, so the return to a
  ring-3 thread faults;
- `pic.c:54`: unmasking a line of the second controller leaves the cascade masked;
- `irq.c:18`: the interrupt that `thread_block` raises advances the clock;
- `process.c:160`: processes are created with the kernel's pid and never entered
  in the table, so `process_terminate` finds nothing it could terminate.

And three that the models leave out:

- `scheduler.c:256`: the tick terminates a ring-3 thread without a kernel stack and
  picks again; `thread_create` always gives one, so the branch has no step;
- `isr.c:193`: the report of an exception shows RAX to RDI as they are in the middle
  of the handler;
- `vmm.c:79`: `walk` does not test for a large page, and would follow one as a table.
  The boot loader's direct map, in which `HEAP_START` lies, may have them.

## 2. Modules

| Module | What it is |
|---|---|
| `ReadyQueue` | the queue as pointers, and the C functions on it as operators |
| `Scheduler` | threads, scheduler, mutexes, spinlocks and the process code a thread runs, as one state machine |
| `SchedulerProps` | type invariant, safety properties, inductive invariant, claims of the source |
| `ThreadLifecycle` | the abstract specification: what may happen to a thread |
| `StrideFairness` | `Scheduler` plus a history of dispatches, for the properties of the strides |
| `Kheap` | the kernel heap with the page allocator and the mapping below it, and its properties |
| `Vfs` | vnodes, mounts and the name cache, for concurrent clients |
| `Slab` | the slab caches over the frames of `pmm.c` |
| `Hashtable` | the buckets, and the function they stand for |
| `PageTables` | the four levels of tables and the address spaces |
| `Interrupts` | interrupt controllers, gates, frames, context switch, reports, system calls |
| `SystemClock` | the timer's handler and its readers |
| `Console` | `kprintf`, the terminal and the messages printed with them |
| `Strings` | byte and string functions on a small memory |
| `Processes` | the process table |
| `Boot` | `kmain` |
| `Null` | the null pointer, shared by the modules that `MCServices` extends |
| `MCScheduler`, `MCStride`, `MCKheap`, `MCVfs`, `MCServices` | instances for TLC |
| `SchedulerProofs`, `SchedulerTheorems` | theorems about `Scheduler`: types and the inductive invariant; table, tids, life cycle and ready queue |
| `KheapProofs`, `VfsProofs`, `ProcessesProofs`, `PageTablesProofs` | theorems about these components |
| `KmemProofs` | theorems about `Slab` and `Hashtable` |
| `MachineProofs` | theorems about `Interrupts` and `SystemClock` |

### Scheduler

Each thread is at a label `pc[t]`, the place between two statements where an
interrupt matters. Only `run`, the thread whose code is on the CPU, moves.
`iflag` is the CPU's interrupt flag. A section between `spinlock_acquire` and
`spinlock_release` is one step, because nothing interrupts it; `SpinSave` is the
statement before it, `had_interrupt = have_interrupt()`, executed with
interrupts still enabled.

| Actions | Code |
|---|---|
| `SpinSave`, `SpinRelease` | `spinlock.h` |
| `acquire_mutex`, `release_mutex` | `mutex.c`; the tables `Acquires` and `Releases` list every call site |
| `CreateBody`, `CreateLink` | `thread_create`, with `process_from_pid` and `process_add_thread` |
| `ExitCall`, `ExitMark`, `ExitClear`, `SoftIrq` | `thread_exit` |
| `PexitFound`, `PexitMark` | `process_exit`, `wake_waiters` |
| `TermBody`, `TermRemove` | `thread_terminate`, `process_remove_thread` |
| `BlockFind`, `BlockMark`, `BlockRemove`, `SoftIrq`, `Unreachable` | `thread_block` |
| `UnblockFind`, `UnblockCheck`, `UnblockMark`, `UnblockNext`, `UnblockLink` | `thread_unblock` |
| `TimerIrq`, `TickEnter`, `PickZombie`, `PickBad`, `PickCooldown`, `PickDispatch` | `irq_handler`, `scheduler_tick`, `context_switch` |
| `CleanContended`, `CleanOne`, `CleanDone` | `clean_up` |

The kernel can stop for good: it waits for a spinlock it holds, recurses
without end, calls `hcf`, runs past `__builtin_unreachable` or uses freed
memory. `fault` records how and no step follows, so the invariants speak of
every state up to that point. This is why `CHECK_DEADLOCK` is off in the runs
of `MCScheduler`: with the calls used up and interrupts left disabled, or after a
fault, the machine really stands still.

A consequence TLC found early: a contended mutex is always fatal in this
version. The waiter marks itself blocked, and its next tick waits for
`schedule_lock` which it holds. `release_mutex` therefore never finds a waiter
alive, although the model contains that branch.

Abstractions: registers are left out except the interrupt flag in the saved
frame; the stacks of a thread belong to its allocation `mem[t]`; a thread's
argument, function and exit code play no role; `kmalloc` succeeds or fails
freely. `process_create` never enters a process in the table, so the only
process is the kernel's and a thread either belongs to it (`KernelOwned`) or to
none.

### Kernel heap

An address is an offset from `HEAP_START` in units of 8 bytes, a header takes
three of them. `hdr` gives the header at each address, so a header that was
merged away, or lies inside another block, still exists as it does in memory.
Each task in `kmalloc` or `kfree` moves by one iteration of its loop or one call
(`Scan`, `Split`, `Mark`, `Grow`, `Merge`). The tasks in `Irq` are the timer's
interrupt: while one runs the others stand still, and it only frees.

`Init` is the heap after `init_processes`, whose `process_t` is the first
allocation. The first growth maps a new frame over the first page (finding
`heap_growth`); the allocations lost with it go to `lost`. In the kernel they
are its own process, its own thread and the idle thread's `thread_t`, which are
never freed, and the model frees none of them. The properties of the passing
run and the theorems speak of the rest, `live`. If the first growth fails half way even the list's first
header is memory nobody has written, and the model stops (`garbage`).

### File system

A client is a thread inside `vnode.c`, `vfs.c` or `path.c`; `todo[c]` is the list
of small steps it has still to do, and another client may run between any two.
A section under a spinlock is one step, except one that drops a reference
(`spin` names the client inside it): `vnode_unref` calls the filesystem, the
parent's `vnode_unref` and `slab_free`, each a step of its own. So are the two
halves of `vfs_root_vnode` and of `namei_get_root_vnode`: what was found, a root
vnode or a filesystem, may be freed before the second half uses it.

| Actions | Code |
|---|---|
| `vnode_alloc`, `vnode_ref`, `Unref`, `LastUnref`, `DropParent`, `SlabFree`, `vnode_put`, `vnode_set_parent`, `SetParent` | `vnode_alloc` to `vnode_set_parent` |
| `vnode_get`, `Vget`, `Recheck` | `vnode_get`: the first lookup, the filesystem's `vfs_vget`, the second lookup and insertion |
| `create`, `vnode_cache_insert`, `vnode_cache_remove` | the table of vnodes |
| `Purge`, `Collect`, `Drop` | `vfs_purge_vnodes`: count, allocate and collect, drop |
| `vfs_mount_fs`, `Mounted`, `vfs_unmount_fs`, `Unlock`, `Release`, `vfs_root_vnode`, `RootRef`, `vfs_from_path`, `vfs_find_mounted_on_vnode` | `vfs.c` |
| `namecache_lookup`, `namecache_enter`, `Enter`, `namecache_remove`, `namecache_purge_vnode`, `Uncache` (one turn of the purge's loop), `RemoveName`, `namei_get_root_vnode`, `RootOf` | `path.c` |

No filesystem exists yet, so the ones in the model follow the only discipline
these files support; the module's header states it. `vnode_alloc` stores a count
of 1 and nothing in these files takes a reference for the table, yet
`vfs_purge_vnodes` drops one for each entry: so the filesystem must take it
(`NewNode`, external). `Owners(v)` counts each
reference at its owner (a client, a step a client has still to do, the table of
vnodes, the name cache, a child, a mount), `lost` those that the code takes and
never drops. One of them is in `vnode_get`: the loser of
a race keeps one of its two references, and a hit of the first lookup takes one
nobody drops. `lost` is therefore a record of leaks, not an excuse for counts
that are too low: `RefsAccounted` has the exact sum.

Nothing keeps a filesystem mounted while it is used, and the model does not
either: any call may race with the unmount. What the code then runs into is
one of `UnmountFaults`, where the model stops: a filesystem that was freed
(`vnode_get` calls its `vfs_vget`, `namei_get_root_vnode` its `vfs_root`), a root
vnode that was freed, more entries than `vfs_purge_vnodes` counted, which it
writes behind the end of its array, and the null pointer of the inverted test in
`namei_get_root_vnode`. An entry made after the purge has collected what it removes
stays in the table; its filesystem is noted in `leftover`. The properties say that
these are the only things that go wrong, and that the books are exact
up to then.

### Services

`MCServices` puts nine modules that share no state behind one variable `part`:
the first state of a behaviour has already chosen the service. It extends the
six modules that theorems are about, so that the run checks the very
properties the theorems state, and evaluates their assumptions; while `part` is
another service they stay in their initial states. The other three are instances
whose variables are `NULL` unless `part` names them. Putting them together loses
no interleaving, because none of these modules reads what another writes.

| Module | State and actions | Properties |
|---|---|---|
| `Slab` | lists of slabs as sequences, the free list of each; one action per way a call can go (`AllocPartial`, `AllocNew`, `AllocHeap`, `FreeHeap`, `FreeToFull`, `FreeToPartial`, `FreeLast`), `slab_cache_create`, `slab_destroy`. A call is one step, although the code has no lock and `vnode.c` calls it without one: calls that interleave are not covered. The page of an emptied slab is translated with the wrong offset and never free again | `SlabsListed`: every slab is in exactly the list its count asks for; `ObjectsConserved`: every object is free once or in use once, and no frame has two owners |
| `Hashtable` | entries with `next` and `prev`; `SetExisting`, `SetNew`, `hashtable_remove`, `hashtable_destroy`, `hashtable_init`, failing allocations included | `TableIsFunction`: lookups return what the caller stored last, and the lists are well linked |
| `PageTables` | a frame of entries per table; `vmm_map`, `vmm_unmap`, `create_address_space`, `NoAddressSpace` (its `hcf`), `vmm_load_cr3`. The upper half of the boot loader's top table is any tree of tables, with absent entries; a space made later shares only the entries that existed when it was made (`SeenFrom`). Large pages are left out | `ResolveExact`: in every address space each page resolves to what was last mapped where that space can see it, and to the same in all spaces below entries the boot loader had |
| `Interrupts` | stack frames as lists of words, built as `isr.asm` pushes them and read as `context_t` names them; `Raise`, `Deliver`, `Yield`, `irq_handler`, `Return`, `isr_handler` (up to the context it gets; its report is left out, as `kprintf` does not print the numbers it is given), `syscall`, `SyscallReturn` and the masks | `RegistersKept`, `NothingInService` (each interrupt is acknowledged at every controller that waits for it), `ContextExact` (the context `isr_handler` gets is that of the exception, register by register), `SyscallArguments` |
| `SystemClock` | fields, wrapping count, and a reader that copies byte by byte | `FieldsExact`, `ReadNotBehind` (a torn read is never older than the time the reading began), `DeadlineExact` |
| `Console` | pixels, cursor, colour, lock and the flag it saves; threads print one character per step and are preempted also between the saving of the flag and `cli` (`SaveFlag`, `Acquire`). The colour is set outside the lock; `kprintf` prints with interrupts disabled. `kprintnp` drops the highest place of a number and ends with a byte nobody wrote, which may be any character, also a newline: that is the finding of the run `numbers`, and `MessagesWhole` takes the converted text as it is. Characters are kept because wrapping and mixing are about them | `ScreenShowsTail`, `MessagesWhole`, and `NumbersPrinted`, which is violated |
| `Strings` | a memory of five bytes, every content, every pair of pointers the contract allows | `CallsExact`: each function against a definition on sequences. `strncpy` is only bounded, as it clears the start of the destination when it pads |
| `Processes` | process table, objects, locks, and a label per thread. Module `Scheduler` shows that a thread which waits stops the kernel at the next tick: here that is the fault `"wait"`, and so are `hcf` and the use of a freed process | `CollectedExited`: only a process that exited is collected, and the code delivered is its own |
| `Boot` | the calls of `kmain` in order, what each uses and gives, the interrupts afterwards; memory is enough for the boot | `BootOrdered`: nothing is used before it is initialised, except the serial port, which everything that prints waits for from the banner on, and `current_thread`, which the mutexes of `init_processes` record as NULL |

## 3. Runs

| Run | Checks | Bounds |
|---|---|---|
| `all_calls` | `TypeOK`, `OneRunning`, `SchedulerFindsThread`, `TableExact`, `SlotForEveryThread`, `CpuRunsLiveThread`, `TidsUsedOnce` | 4 threads, 3 slots, 3 calls of `thread.c` by 3 callers; `process_exit` is left to the next run and to the theorems, which cover every call |
| `leaving` | `QueueExact`, `MutualExclusion`; `Scheduler` implements `ThreadLifecycle` (`LifecycleSpec`) | 5 threads, 4 slots, calls that create and leave; the theorems cover the other two with `thread_terminate` too |
| `stride` | `BoundedWait`, `PriorityHonoured`, `NoStarvation`, `UserStackInTss` | 4 threads with the real strides 1, 4, 8, 32, every initial cooldown |
| `heap` | `BlocksTile`, `AllocatedExact`, `Coalesced`, `FramesDistinct`, `CallsReturn` | pages of 16 units, 5 frames, 8 calls, 3 sizes |
| `vfs` | `RefsAccounted`, `PurgeComplete`, `MountTableLive`, `UnreferencedFreed` | 2 clients, 3 vnodes, 2 filesystems with a root and one more node each, one path, one name, 4 calls |
| `services` | the sixteen properties of the table above | the constants of `MCServices` and `services.cfg` |

Why the bounds are enough: two threads race in every hazard of the list and a
third one is there to be queued behind or to be reclaimed; three calls are one
more than any counterexample needed. Three slots for four tids reach the full
table, its refilling after `clean_up`, and the failing creation. In the
interleaving runs the idle thread's priority is raised, as its 31 cooldown
rounds only multiply states; `stride` uses the real values. In `heap` the sizes
make a request fit exactly, leave a rest too small for a header, split, need
one page and need two; five frames let the heap grow twice and then run out,
once half way through a request. In `vfs` two clients and three vnodes are what
the race in `vnode_get` needs (the cached vnode and the one of each loader), one
path makes both filesystems compete for it, and four calls mount, load, use
and unmount; all four faults of an unmount and an entry that comes too late are
reached. `MCServices` has one slab of a single object and one of several,
two keys with the same hash, pages that share some but not all of their tables,
lines of both interrupt controllers, threads of both rings, a clock whose
fields carry and whose count wraps, a screen that is no multiple of the glyphs
and scrolls, and three threads for the processes, interchangeable (`SYMMETRY`),
two to wait for the same process and one to exit. `CHECK_DEADLOCK` is off in both:
the clients use up their calls, and after `hcf` or a fault nothing follows.

`QueueExact` is only claimed for creating and leaving, and `LifecycleSpec` not for
blocking: the code breaks both with `thread_terminate` and `thread_block`, which
the violation runs show.

Disagreements between the code and what it says of itself:

| Run | Property | What happens |
|---|---|---|
| `interrupts` | `InterruptsEnabled` | a tick between the two halves of `spinlock_acquire` leaves interrupts disabled for good |
| `toctou` | `NoUseAfterFree` | a thread found under the mutex is reclaimed before it is used |
| `tick_waits` | `TickNeverWaits` | a tick while `thread_mutex` is held makes `clean_up` and `thread_block` call each other without end; the first tick of a blocked thread waits for its own spinlock |
| `lost_threads` | `ReadyRuns` | terminating a queued thread cuts off the threads behind it |
| `heap_growth` | `NoAlias` | the first growth maps over the first page |
| `numbers` | `NumbersPrinted` | a number is printed without its highest place and with an unwritten byte, though the formats of `isr.c` ask for the number |

Two more are visible in the model and have no run of their own: a thread that
blocks another one returns from `thread_block` (`fault = "unreachable"`,
`thread.c:227` says "Shouldn't reach"), and `thread_block` overwrites
`THREAD_TERMED` of a thread terminated since the lookup (`BlockMark`), so that
it is never reclaimed.

Fairness. `FairSpec` of `Scheduler` assumes that the timer never stops
(`init_pit` programs it periodically, and `irq_handler` acknowledges each
interrupt) and that the CPU keeps executing kernel code; it does not assume
that a thread ever calls anything. `ShareSpec` assumes the timer alone.
`FairSpec` of `Kheap` assumes that a task inside the heap keeps executing.
`FairSpec` of `Vfs` assumes that each client takes its next step in the end: the
scheduler runs every ready thread (`NoStarvation`), and the file system's locks
are spinlocks held for a bounded number of steps.

Each property has a mutant in `PROJECT.json`, a definition changed as a slip in
the code would change it (the "faulty variants" at the top of the modules),
under which TLC finds the property violated.

## 4. Theorems

Each theorem holds for every value of the constants that satisfies the named
assumptions of its module; TLC evaluates these assumptions in the runs.

| Theorem | Property | Beyond the assumptions |
|---|---|---|
| `SchedulerProofs!TypeCorrect` | `TypeOK` | |
| `SchedulerProofs!Invariance` | `IInv` | |
| `SchedulerProofs!OneRunningHolds` | `OneRunning` | |
| `SchedulerProofs!SchedulerAlwaysFindsThread` | `SchedulerFindsThread` | |
| `SchedulerProofs!MutualExclusionHolds` | `MutualExclusion` | |
| `SchedulerProofs!CpuRunsLiveThreadHolds` | `CpuRunsLiveThread` | |
| `SchedulerTheorems!TableExactHolds` | `TableExact` | |
| `SchedulerTheorems!SlotForEveryThreadHolds` | `SlotForEveryThread` | |
| `SchedulerTheorems!TidsUsedOnceHolds` | `TidsUsedOnce` | |
| `SchedulerTheorems!UserStackInTssHolds` | `UserStackInTss` | |
| `SchedulerTheorems!LifecycleHolds` | `LifecycleSpec`, the refinement of `ThreadLifecycle` | `NobodyBlocks` |
| `SchedulerTheorems!QueueExactHolds` | `QueueExact` | `OnlyCreateAndLeave` |
| `KheapProofs!FramesAreDistinct` | `FramesDistinct` | `[]Serial` |
| `KheapProofs!BlocksAlwaysTile` | `BlocksTile` | `[]Serial` |
| `KheapProofs!AllocationsExact` | `AllocatedExact` | `[]Serial` |
| `KheapProofs!FreeBlocksCoalesced` | `Coalesced` | `[]Serial` |
| `KheapProofs!LiveNeverOverlaps` | `LiveDisjoint` | `[]Serial` |
| `VfsProofs!VfsInductive` | `VfsInv` | |
| `VfsProofs!ReferencesAccounted` | `RefsAccounted` | |
| `VfsProofs!PurgesComplete` | `PurgeComplete` | |
| `VfsProofs!MountsLive` | `MountTableLive` | |
| `ProcessesProofs!CollectedExitedHolds` | `CollectedExited` | |
| `MachineProofs!FieldsExactHolds` | `FieldsExact` | |
| `MachineProofs!ReadNotBehindHolds` | `ReadNotBehind` | |
| `MachineProofs!DeadlineExactHolds` | `DeadlineExact` | |
| `KmemProofs!SlabsListedHolds` | `SlabsListed` | |
| `KmemProofs!ObjectsConservedHolds` | `ObjectsConserved` | |
| `KmemProofs!TableIsFunctionHolds` | `TableIsFunction` | |
| `MachineProofs!RegistersKeptHolds` | `RegistersKept` | |
| `MachineProofs!NothingInServiceHolds` | `NothingInService` | |
| `MachineProofs!SyscallArgumentsHold` | `SyscallArguments` | |
| `MachineProofs!ContextExactHolds` | `ContextExact` | `17 \notin Exceptions` |
| `PageTablesProofs!ResolveExactHolds` | `ResolveExact` | |

What is assumed:

- scheduler: any number of threads, slots and calls, any priorities, owners and
  rings, and a boot queue of the first tids. `NobodyBlocks` (no thread calls
  `thread_block` or `thread_unblock` itself; `acquire_mutex` still blocks) and
  `OnlyCreateAndLeave` (nor `thread_terminate`; the idle thread is booted and only
  halts, as `thread.c` has it) are hypotheses because the code breaks the two
  properties otherwise, as the violation runs show. The only callers in the
  repository are `process_wait` and `process_terminate`, which nothing calls yet, and
  `wake_waiters`, which finds nobody;
- heap: any page size that holds the first allocation and a rest, any header,
  granule, frames, tasks, sizes and calls. `[]Serial`, at any time at most one task
  is inside `kmalloc` and `kfree`, is a hypothesis because these functions take no
  lock and two tasks inside them may take the same block; it is what their callers
  provide when they run one after the other, and what the run `heap` has, with its
  one task. A growth, the loop of `request_more_memory` with `pmm_alloc_page` and the
  mapping, is one step of the model, which is sound only then;
- file system: a filesystem that takes the table's reference, and any finite numbers of clients, vnodes, filesystems, node numbers
  and names, any paths and any number of calls; `NULL` is none of them and the root
  filesystem, its path and its root node exist;
- `ProcessAssumption`: a slot besides the kernel's;
- `ClockAssumption`: limits that a field can reach, deadlines less than half the
  counter's range ahead (which is what the signed difference in `time_after` can tell
  apart), frequencies
  whose divisor fits the 16 bits of the PIT;
- `SlabAssumption`: some usable memory (`init_pmm` halts otherwise), positive
  sizes, and a physical memory smaller than the offset it is mapped at;
- `HashAssumption`: hashes are numbers, there is a bucket, the entry objects are
  finitely many, and the null pointer is neither one of them nor an array of buckets;
- `CpuAssumption`: there is a kernel thread, every thread is in ring 0 or 3, and the
  lines are the sixteen of two controllers. `17 \notin Exceptions` is a hypothesis
  because the stub of the alignment check pushes a code the CPU has pushed already;
  it cannot happen while nobody sets `CR0.AM`;
- `PageAssumption`: what hangs below the upper half of the boot loader's top table
  is a tree of tables without large pages, with any entries absent, and physical
  page 0 is never mapped. A page may be mapped to a frame that is a table itself.

### The scheduler

None of the properties is inductive. `MutualExclusion`, for instance, needs that
a thread inside a section is the owner its mutex records, which holds because
`acquire_mutex` records `current_thread`, so it needs that `current_thread` is the
thread on the CPU; `thread_exit` breaks that just before its interrupt, so it
needs what a leaving thread looks like until a tick takes the CPU from it.
`IInv` collects these facts: `TableSound` (slots, memory and tids agree),
`UnbornIdle`, `KernelThreadStays` (why slot 0 is never emptied), `LeavingSound`,
`CpuSound` and `MutexSound`. `SchedulerProofs` has one frame lemma per group
of variables and one lemma per conjunct, each with a case per action that can
disturb it. `SchedulerTheorems` carries `thread_count` along with the cardinality
of the occupied slots.

The life cycle needs `LifeInv` besides: a thread that is born or waits has the
state the abstract step starts from, the thread on the CPU is `RUNNING` until it
leaves or blocks, and a mutex has waiters only while the thread on the CPU is
one of them. That is again the fact that a contended mutex stops the kernel;
without it `release_mutex` could make a terminated waiter ready.

The queue needs `QueueInv`. `Reach`, the threads reachable from `ready_head`, is a
least fixed point, and no induction over it is available. `ListSound` describes
the list without one: every thread on it has a single predecessor, the head has
none, and only the tail ends it. `enqueue_ready_tail` and `dequeue_ready_head` then
change `Reach` by one thread each, which is proved from its closure alone.
`UnlinkedSound` says whose `next` may hold an old value, and `IdleStays` that there is
a thread to run when the queue is empty.

### The heap

`FrameInv` adds to `FramesDistinct` that only frames of the machine are marked and
mapped, and that the heap ends at the end of a page. The frames of a growth are
told apart by their `Rank`, how many of them are smaller; the lemmas on `Rank` say
that it is a bijection with the pages that are mapped, from cardinalities alone.

`Blocks` is a recursive function over addresses, about which nothing can be proved
by induction. `ListInv` therefore says that there is a set `B` of block addresses
with `Tiling(B)` (each block ends where its `next` begins, the last one where the
heap ends, and no two overlap), `Exact(B)` (the blocks in use are the
allocations), `Placed(B, t)` (where each task is in the list, and that the block
it is about to take still fits) and `Joined(B)` (two free neighbours only where
`kmalloc` has just split a block, or behind the place `kfree` has come to). A split
adds one member to `B`, a merge removes one, a growth starts the list anew or
appends to it. `ChainEquation` shows that the recursive function exists, and
`ChainIsList` that it reaches exactly `B`: no block leads out of `B`, as the
greatest that did would lead to a greater one, and every block is reached, as the
least that is not follows one that is.

### The file system

`RefsAccounted` is not inductive, and not by itself about references only: that
`Unref` finds its vnode allocated needs the sum, that the sum is kept by `LastUnref`
needs that nobody else frees the same vnode, and that a mount's reference is dropped
once needs that one client unmounts a filesystem. `VfsInv` has three parts, besides the types and
that the kernel has met no fault but those of an unmount:

- `FsInv`, about mounts and the table: a client that has `release` to do owns its
  filesystem (`ReleaseOwns`), a client that mounts is alone with it (`MountOwns`),
  and every entry of a filesystem that is being released is in a `drop` step, will be
  collected, or came too late and is noted (`EntriesPurged`);
- `StepsSound`, about the steps somebody has still to do: at most one client frees a
  vnode, with the flag set between its two steps (`FreedOnce`), a vnode with a
  positive count is allocated and not being freed (`VnodesSound`), a client that
  gives a vnode a parent holds both and is the only one (`ParentsHeld`), entries
  leave the name cache under its lock, one at a time (`NamesLocked`), and entering
  one is the last step of its call (`EnterAlone`);
- `RefsCounted`: the sum itself, with each of the six sets of references finite.

`todo[c]` grows and shrinks at its head, so a step is named by its place from the
end, which never changes (`Planned`, lemma `ItemsAfter`). The balance is kept as in
double-entry bookkeeping: lemma `Books` says that it is enough to give the change of
each of the six cardinalities, of `lost` and of the count, and that the changes
cancel. One lemma per kind of owner computes its change (`HeldDelta`,
`TableDelta`, ...) from the one element the operation adds or removes, and each
operation then has one lemma that puts its changes together.

### The other components

`ProcessInv` says what a thread remembers between two locks: an object it is
about to free is out of the table, a code it is about to return is one that some
`process_exit` stored. Only slot 0 is ever filled.

`ClockInv`: `Ticks(time) = elapsed` through the carries, by a sum that telescopes over
the fields. For the torn copy the invariant is about `Hybrid`, the bytes copied so
far completed with the bytes the clock shows now: a tick that resets a field
which was copied raises one that was not, so the hybrid never decreases, and at
the end it is the copy. For deadlines, count and deadline differ by the ticks
left and a multiple of the range.

`SlabInv`: `Once(l, S)` says that the list `l` has each member of `S` once, and is
kept by the operations on lists; the partial and full lists of a cache are
`Once` lists of the slabs with and without free objects, and a slab's free list is
a `Once` list of the objects that nobody has (`HandedOut`). A full slab has a live
object, because it has objects at all, which is why `slab_destroy` may ignore
the full list. The frames of released slabs stay marked, so the frame of a slab
in use is none that `pmm_alloc_page` can find.

`TableInv` describes the buckets without a walk: `EntriesSound` says what a used
entry holds, `LinksSound` that `next` and `prev` are inverses, stay in the bucket
of the entry's key and begin at `entries`, `NoneLost` that every used entry is
met by the walk of its bucket. The walk is a least closed set (`Reach`, and `Looked` up
to the first match), so no induction is needed: a closed set of the new table,
with the new entry or the removed one put in or taken out, is a closed set of the old
one. For `hashtable_remove` the case that matters is whether the closed set has
the predecessor of the entry that leaves.

`CpuInv` says where the registers of a thread are at any time: on the CPU, in the
frame (`FrameSound`: what the end of the stub would restore), in its context while
another thread has the CPU (`AwayKept`), or on the stack of a system call
(`SyscallSound`). The order in which the stubs push is related to the names of `context_t`
by the place of each word: `FrameWords` computes all 22 words of a frame from the
pushes, `ContextWord` and `RestoredWord` find each under its name again.
`ServiceSound` has the lines in service before `irq_handler`: none for an `int` instruction,
the line alone, or the line with the cascade. `WrappedWords` and `EntryWords` follow each
argument through the moves of the two assembler routines, in their order.

`PageInv`: each table has a level such that entries lead one level down, every
table is entered from one place, apart from the same entry of the upper half of
several top tables, and all top tables have the boot loader's entries of that half. `walk` adds tables one at a time, and
each addition keeps what every page resolves to, also when it stops half way for
want of memory.

### Only model-checked

- everything that rests on fairness (`NoStarvation`, `CallsReturn`,
  `UnreferencedFreed`), and `BoundedWait` and `PriorityHonoured`, which count
  dispatches along the behaviour;
- the heap's list without `[]Serial`: it is false, two tasks inside `kmalloc` can
  take the same block;
- `BootOrdered`: `Boot` has no parameter but `NULL`, so TLC explores all that there is;
- `ScreenShowsTail`, whose rows are sums over everything printed;
- `CallsExact` and, because of the number conversions of `kprintf`, `MessagesWhole`:
  what recursive functions compute for every input needs induction over data, which
  the installed provers do not have.

## 5. Plan

The components are modelled, and their safety invariants are proved but for those
listed above. The next one worth proving is `BoundedWait`, from an invariant that
relates the cooldowns of two threads to their order in the queue.

Larger compositions worth having: `Processes` over the scheduler's wait instead of
its fault, once a wait no longer stops the kernel, and a filesystem under `Vfs`
once the repository has one.

## 6. Not modelled

- `tmpfs`, `tarfs` and `devices` are empty, and `vnodeops_t` has neither an
  implementation nor a caller.
- The serial port, PS/2 and keyboard code reads and writes ports and keeps no
  state; the keyboard's handler drops what it reads.
- The shapes of the font, `vterm_print` and `vterm_status` (they print without the
  lock, through the same `vterm_putc`), the memory dumps of an exception's report,
  and the count `kprintf` returns, which nobody uses.
- `strdup`, `kzalloc` and `kcalloc`: a `kmalloc` and a copy or a clearing.
- Sizes near `SIZE_MAX`, for which `kheap_alloc`'s rounding wraps to 0, are outside
  the heap's bounds.
- The access bits of page table entries, the pages' cache flushes and the
  CPU's reaction to a missing page.
- The boot loader's own headers (`limine`), the C library headers under `sysroot`
  (declarations) and the build files.
