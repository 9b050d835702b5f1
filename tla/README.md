# A TLA+ development of the PlNT kernel

This directory specifies, model-checks and partly proves the kernel under
`src/src/`, a Pintos with an alarm clock, user programs and a file system with a
buffer cache. Every definition that models code is tied to its lines by the
`map` of `PROJECT.json`.

## The system and what models it

| Part | Code | Modules |
|---|---|---|
| Scheduler, sleep queue, preemption | `threads/thread.c`, `devices/timer.c`, `threads/interrupt.c` | `Threads`, `ScheduleProofs`, `ThreadsProofs`, `QueueTheorems` |
| Semaphores, locks, condition variables | `threads/synch.c` | `Synch` (extends `Threads`), `Monitor` |
| exec, wait, exit, faults | `userprog/process.c`, `syscall.c`, `exception.c` | `Process` |
| Buffer cache | `filesys/cache.c`, `filesys_done()` | `BufferCache`, `Disk` |
| Page allocator | `threads/palloc.c`, `lib/kernel/bitmap.c` | `Palloc`, `PallocProofs`, `PagePool` |

How they build on one another: the kernel runs on one processor, so *everything*
interleaves only through the scheduler. `Threads` models it at the grain of
"stretches with interrupts off". `Synch` puts `synch.c` on top of that scheduler
and shows two things: seen from below it uses the scheduler by its rules
(`ImplementsThreads`), and seen from above its locks and conditions are those of
an atomic monitor (`ImplementsMonitor`). That is what allows the upper modules,
`Process`, `BufferCache` and `Palloc`, to treat `lock_acquire()`, `sema_down()`
and `sema_up()` as single steps while they keep every *other* shared access,
where a thread can be preempted, as a step of its own.

### Threads

State: `current`, each thread's `status`, the `ready_list`, `idle_thread`,
`thread_ticks`, `ticks`, the sleep queue `list_threads` with `ticks_to_sleep`,
and `pc`, the place in the code for operations that take several steps. A thread
is named by the page that holds its `struct thread`; a page without one has
status `FREE`, so pages are reused as in the kernel. There is one action per
operation: `ThreadCreate` and `ThreadCreateUnblock` (the two halves of
`thread_create()`), `ThreadBlock`, `ThreadUnblock`, `ThreadYield`, `ThreadExit`,
`TimerSleep` and `TimerSleepBlock` (interrupts are on between them),
`TimerInterrupt` (with `thread_tick()` and the yield at the end of
`intr_handler()`), and the boot and idle thread steps. `Schedule` is `schedule()`
with `next_thread_to_run()` and `thread_schedule_tail()`.

`run_task()` calls `thread_start()` again after each program, so the model lets
main create further idle threads. `AwaitIdle` allows an interrupt before the
value of the semaphore is tested again after `thread_block()`, which the code
does not: the model has more behaviours there, never fewer.

### Synch and Monitor

`Down` is one turn of `sema_down()`'s loop, `Up` is `sema_up()`; both run with
interrupts off. The stores to `holder` and to the condition's queue are separate
actions. `InterruptsOn` keeps the timer out of a `sema_down()` whose loop is
between wake-up and re-test. A condition's waiter semaphore is named by its
thread. `Monitor` is the abstract specification: acquire and release of an owner,
atomic wait and signal.

### Process

Threads are numbered as by `allocate_tid()`: 1 is main, 2 the idle thread (which
has a `struct child` record in main's list like any child), 3 and up are user
processes and the further idle threads that `run_task()` creates (`TaskEnd`).
Every access of one process to a field that another uses is a step: `exec()` is
`Exec` (it asks for `process_lock`), `ProcessExecute` (it has the lock and creates
the thread) and `ExecReturn`; `exit()` is `Exit`, `ExitFind`, `ExitWalk` once for
each record that `find_child()` looks at, `ExitRet`, `ExitDone`, `ExitCheck`,
`ExitUp`, `ProcessExit` once for each record it deletes, and `ThreadExit`.

A child uses its parent's `struct thread` and the records in its list without any
lock, so both may be freed under it. The model names them by the memory they are
in (`page`, `block`), which a later thread or record may get. `Father` is the
thread that a parent pointer leads to: the parent, a newer thread in its page,
which then gets the stray `sema_up()`, or none. `Record` is what `c_t` leads to: a
record, not always the child's own, or none. What happens at memory that holds
neither is not in the model; it takes two outcomes. The access does no harm to
what the model has, or the kernel stops (`panic`). For a walk that stands at a
freed record the first outcome is a page fault, since `free()` fills the block
with 0xcc, and `page_fault()`, which takes a fault of the kernel for one of the
process, begins `find_child()` anew (`ExitWalkFreed`).

A new page or block is fresh, or freed memory that some child still points to;
other freed memory is as good as fresh. Lists are sets of children, since each is
in the order of its tids: only its owner appends to it.

### BufferCache and Disk

Entries are numbered as in `cache_list`, which never changes. A sector's content
has parts that are written separately (a write changes part of a sector). `Begin`
says who may call what: threads in `Locked` hold `file_lock` around their system
call, the others (`load()`, `readdir()`, `chdir()`, the failing end of `open()`) do
not: they read, and they write when they close a removed file. The constant
`CloseAlone` keeps those out during `buffer_cache_close()`; the passing
run sets it, and the run `cache_close` shows what happens without. `Disk` is the
abstract specification: contents that change by writes only.

### Palloc and PagePool

The layout of the two pools is computed as in `palloc_init()` and `init_pool()`.
Looking at one position of the bitmap is a step, and so is clearing one bit in
`palloc_free_multiple()`, which holds no lock. `held` is the set of groups that
callers have; the model's callers free what they hold, once. `was_free` is a
history variable. `PagePool` is the abstract specification: a group is handed out
only if none of its pages is in use. A request for no pages changes nothing and is
left out, and so is the panic of a failing request with `PAL_ASSERT`.

## The runs

| Run | Instance | Shows |
|---|---|---|
| `threads` | main, idle, two more pages; slice 2; sleeps of -1, 0, 1, 2; clock up to 2 | queues match statuses, sleep queue sorted, a tick wakes exactly the due, round robin, every ready or sleeping thread runs |
| `synch` | the same threads; one semaphore, lock, condition | mutual exclusion, no lost wake-up or signal, both refinements, progress |
| `process` | threads 3 to 5, all commands and deaths | `exec()` reports its own child's load, a child that finds its record leaves no parent asleep |
| `process_live` | threads 3 and 4, all commands and deaths | the parent is released |
| `process_exec` | threads 3 to 5, all commands | every `exec()` gets the lock and returns, unless a command line is empty |
| `cache` | 2 entries, 3 sectors, 2 parts, 2 values; a thread with `file_lock` and one without | coherence, refinement of `Disk`, close writes back |
| `palloc` | 3 threads; pools of 3 and 2 pages; groups of 1 and 2 | exact bitmap, refinement of `PagePool`, assertions hold, a null pointer only when there was no room |
| `process_exit`, `process_wait`, `process_killed`, `cache_close`, `cache_done` | as above | violations: see the next section |

Why the bounds are enough to be interesting. Two free pages let a thread be
created in the page of a dead one, or a second idle thread appear, while another
sleeps; deadlines up to 2 give equal, past and future ones. `Horizon` stops the
clock (`ticks` saturates), which only repeats the last tick. In `synch` two
threads and main compete, so a woken waiter can be overtaken; sleepers are in
`threads` only. Three processes give a parent with two children and a grandchild,
stores to a freed and reused record, an idle thread in a dead parent's page, and a
process that asks for `process_lock` while another holds it. `process_exit` has a
fourth, for the record that is reused while its reader's own is still listed; the
invariants of `process` hold there too (15 million states, a quarter of an hour,
so it is not one of the runs). `MaxTid` bounds thread creation: beyond it `exec()`
fails as without memory, and main stops before it creates an idle thread. In
`process_exec` processes end by `kill()` only: `exit()` has no part in `exec()`. Three sectors over two entries force
evictions, and an eviction between any two steps of the other thread. In `palloc`
a group of two fits the kernel pool at two overlapping positions, and three
threads let one free while one scans and one waits. Symmetry is used for sectors,
parts, values and the threads of `palloc`, in runs without liveness properties.
`CHECK_DEADLOCK FALSE` stands where the system may stop: all processes may end or
wait for ever in `Process`, and `filesys_done()` ends `BufferCache`.

Each property of a passing run has a mutant, a plausible mistake in a mapped
definition kept next to it in the module, under which the property fails.

### Where code and comments disagree

- `process_exit`: a child may miss its own record. It walks its parent's list while
  the parent frees the record it stands at and gets the same memory for a new one,
  at the end of the list. The child then ends unmarked, and a later
  `process_wait()` for it sleeps for ever.
- `process_wait`: `process_wait()` may return before its child has ended. `exit()`
  marks the record done and afterwards looks at `child_waiting`; a parent that
  arrives in between does not sleep, and the `sema_up()` it gets anyway releases
  its *next* wait.
- `process_killed`: `page_fault()` stores 0, not -1, as the result.
- `cache_close`: `buffer_cache_close()` holds no lock; with another thread that evicts
  at the wrong moment it writes one sector's data to another sector.
- `cache_done`: `filesys_done()` declares `buffer_cache_close()` instead of
  calling it.

### Fairness

`Threads` assumes that timer interrupts keep coming (weak fairness of
`TimerInterrupt`): the chip is periodic and no code path leaves interrupts off.
Threads themselves may loop for ever. `Synch` needs strong fairness for the timer,
because a `sema_down()` between wake-up and re-test holds it off for a moment
again and again, and for each thread strong fairness of going on in the kernel
while it runs: it gets the processor again and again, and instructions execute.
`Process` assumes weak fairness of each process's steps in the kernel, which is
what `ReadyEventuallyRuns` says of the scheduler, and strong fairness of getting
`process_lock`, which is what `LockProgress` says of locks. User code is never assumed to
do anything.

## What is proved

`ThreadsProofs` proves, for every set of threads, time slice, set of delays and
horizon that satisfy `ThreadsAssumption`:

- `TypeCorrect`, `ScheduleCorrect`, `RunQueueCorrect`, `SleepQueueCorrect`: the
  five invariants of the run `threads`;
- `TickCorrect`: the action property `TickWakesAllDue`.

The inductive invariant `ThreadsInv` adds six parts to them. `BootInv` is the one
that makes `ScheduleFindsThread` inductive: until the idle thread has registered,
it is ready or running, so the run queue is not empty when main blocks.
`NewbornInv` says that a thread under construction is blocked and in no queue,
without which `thread_create()`'s `thread_unblock()` could queue it twice.
`IdleInv` and `StartInv` pin down the hand-shake of `thread_start()` and `idle()`,
also when it happens a second time. `FreeInv` and `SleeperInv` say that dead and
sleeping threads are not in the middle of anything. The proof has one lemma per
action, in `ScheduleProofs` for the actions of `thread.c` and in `ThreadsProofs`
for those of `timer.c`; the effect of `schedule()` is stated once (`Switch`) and
used by all. It rests on `QueueTheorems`, lemmas on sequences without repetition
(append, pop, split, insert). `ThreadsProofs` also proves that `DueCount`'s `CHOOSE`
finds its number (`DueCountExists`) and that the insertion sorts
(`InsertOrderedSorts`).

`PallocProofs` proves all five properties of `Palloc`, the refinement of
`PagePool` included, for any number of threads, any memory size for which
`init_pool()` does not panic (`PallocAssumption`) and groups of any size.
`PallocInv` is the inductive invariant. `MapInv` is `UsedMapExact` bit by bit, the
form the provers can use; `LockInv` says that a scanning thread has the lock, so
that nobody else sets bits; `RangeInv` that the group it has found is still free;
`ClearInv` that two threads never clear the same bit, nor one of a group in use,
which is what makes the missing lock of `palloc_free_multiple()` harmless;
`HeldInv` that groups in use are disjoint; `ScanInv` what a scan has ruled out so
far. `Layout` and `OnePool` derive from `palloc_init()`'s arithmetic that the pools
do not overlap, and so that `page_from_pool()` finds the right one.

Only model-checked: all liveness properties, `NoOvertaking`, and everything in
`Synch`, `Process` and `BufferCache`. Liveness is outside the prover's reach.

## What is not modelled, and the plan

The components of `PROJECT.json` list every part with its status. In the order
planned:

1. `Malloc` over `PagePool`: arenas, free lists, the return of an empty arena.
2. `Inode` and `FreeMap` over `Disk`: block map, growth and its failures, removal
   while open, the unlocked open list; abstract specification: a file is a
   sequence of bytes.
3. `Directory` over `Inode`: add, remove, lookup, paths, `dir_remove()`'s closes;
   abstract specification: a tree of names.
4. `Intq` with the serial, keyboard and input code, and `Ide`: handlers against
   threads, bounded queue, completion interrupts.
5. The console's recursive lock; the descriptor table with file positions and
   deny-write; faults inside system calls that hold a lock.
6. Pure algorithms against reference definitions: `list_sort`, bitmap operations,
   `load_segment()`'s page arithmetic, `byte_to_sector()`.
7. Proofs: mutual exclusion and both refinements of `Synch`, the refinement of
   `Disk` by `BufferCache`, `NoOvertaking`.

Left out for good: port I/O without kernel state (`vga`, `speaker`, `rtc`, `pit`),
the C library, assembly start-up code, user programs and host tools. `vm/` is
empty. Priorities exist in `struct thread` but the scheduler never reads them.
