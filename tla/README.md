# TLA+ models of LibUThread

LibUThread is a user-space thread library. One OS thread multiplexes many user
threads through `ucontext`. Time slicing is driven by SIGALRM (`ITIMER_REAL`).
This directory holds TLA+ models of the library, the TLC configurations that
check them, and `PROJECT.json`, which records:
- the components and their modelling status;
- the runs;
- the mutants;
- which source lines each definition models;
- the findings;
- the hazards.

## The system's parts and how they interact

| Part | Source | State | Operations |
|---|---|---|---|
| Scheduler core | `src/scheduler.c` | `g_scheduler.current`, `in_scheduler`, the idle TCB, the registry, wait queues (FIFO lists of TCBs) | `schedule`, `yield`, `block`, `unblock`, `tick`, `wait_queue_add/remove/remove_specific/wake_one/wake_all` |
| Round-robin policy | `src/sched_rr.c` | FIFO run queue, `timeslice_remaining` per TCB | `enqueue` (resets the slice), `dequeue`, `remove`, `on_tick`, `should_preempt` |
| Priority policy | `src/sched_priority.c` | 32 FIFO queues and a ready bitmap | `enqueue`, `dequeue` (highest bit), `remove`, `should_preempt`, `update_priority` |
| CFS policy | `src/sched_cfs.c` | red-black tree keyed by `vruntime`, `min_vruntime`, leftmost cache | insert/remove with fix-up, `on_yield`, `on_tick`, `should_preempt` |
| Preemption timer | `src/timer.c` | `s_preemption_disabled` (depth), `s_preempt_pending`, the process signal mask | `timer_signal_handler`, `preemption_disable`, `preemption_enable` |
| Contexts | `src/context.c` | each TCB's `ucontext_t` (registers, stack, saved signal mask) | `context_init`, `context_entry_wrapper`, `context_switch_to` |
| Lifecycle | `src/uthread.c` | TCB fields `state`, `joiner`, `detached`, `exited`, `retval` | `init`, `create`, `join`, `detach`, `yield`, `exit`, `sleep`, scheduler controls |
| Mutex | `src/mutex.c` | `lock`, `owner`, `recursion_count`, `type`, wait queue | `lock`, `trylock`, `unlock`, `init`, `destroy` |
| Condition variable | `src/condvar.c` | wait queue, `signal_seq` | `wait`, `timedwait`, `signal`, `broadcast` |
| Semaphore | `src/semaphore.c` | `value`, wait queue | `wait`, `trywait`, `timedwait`, `post` |
| RW lock | `src/rwlock.c` | `readers`, `writer`, `writer_owner`, `pending_writers`, two queues | `rdlock`, `wrlock`, the try variants, `unlock` |

How the parts interact:
- Every primitive marks the caller BLOCKED, appends it to its wait queue and calls `scheduler_schedule()`.
- A releasing call moves waiters back with `wake_one`/`wake_all`, which calls `scheduler_unblock`, which calls the policy's `enqueue`.
- Library code brackets itself with `preemption_disable/enable`.
- The SIGALRM handler calls `scheduler_tick()` only when the depth is 0 and `in_scheduler` is clear. Otherwise it leaves a pending tick, which the `preemption_enable()` that brings the depth back to 0 runs.
- `swapcontext` saves and restores the signal mask of each context. The depth counter, by contrast, is a single global.

The behaviours that are hard here:
- the timer signal interleaving with the library's own steps;
- which execution a TCB's saved context holds;
- the global depth versus the per-context masks;
- barging on mutexes;
- threads that block and are never woken.

## Modules

| Module | Models | Checked by |
|---|---|---|
| `UThread` | scheduler core, RR policy, preemption timer, contexts, `uthread_yield`, mutex, condition variable, with SIGALRM | `MC_UThread` |
| `CoopSched` | scheduler core and RR policy with preemption off: the base of the next three | (extended) |
| `Semaphore` | `semaphore.c` with a monotonic clock | `MC_Semaphore` |
| `RWLock` | `rwlock.c` under the `readers_writers.c` loop | `MC_RWLock` |
| `RWLockSpec` | what a read/write lock promises, with no queues | (instanced by `RWLock`) |
| `Lifecycle` | create, join, detach, exit, shutdown, TCB reuse, the registry | `MC_Lifecycle` |
| `Priority` | `sched_priority.c` driven by `schedule`, `scheduler_tick`, setpriority, setnice and exit | `MC_Priority` |
| `RBTree` | the red-black tree routines of `sched_cfs.c`, as operators on one record | (extended by the next two) |
| `SortedRunQueue` | what the CFS run queue promises, with no tree | (instanced by `CFSQueue`) |
| `CFSQueue` | the tree driven through `rb_insert`, `cfs_dequeue` and `rb_remove` | `MC_CFSQueue` |
| `CFS` | `sched_cfs.c` with the scheduler core, the timer, and the `test_cfs_nice_values` program | `MC_CFS` |

### UThread

This is the preemptive core.

The state:
- `current` is `g_scheduler.current`.
- `cpu` is the execution whose code is actually on the CPU.
- `ctx[x]` is the execution saved in TCB x's context. It is normally x itself.
- `pc[t]` is where the code of execution t continues.
- `runq`, `expired` and `wq` are the queues and slices.
- `depth`, `pending` and `masked[t]` are the timer state. `masked[t]` means SIGALRM is blocked in the mask saved with t's context.
- `locked`, `owner` and `rcount` are the mutex fields.
- `held`, `items` and `owes` are the user program's ghost state.

Each action is a stretch of C that runs with SIGALRM blocked, ending where the signal can next arrive:
- `MutexLock`, `LockSched` and `LockResume` split `uthread_mutex_lock` at its `preemption_enable()` and at its `schedule()`.
- `CondWait`, `CondWaitSched` and `CondWaitResume` split `uthread_cond_wait` the same way.
- `CondTimedWait`, `TimedWaitCheck` and `TimedWaitResume` split `uthread_cond_timedwait` at the `preemption_enable()` and the `schedule()` of its wait loop. The loop runs while `self->blocked_queue` is set (`InWaitQueue`). The deadline test is a free choice at each pass, because the caller may pass any deadline. On timeout the action calls `wait_queue_remove_specific` (`RemoveSpecific`) and goes on to the re-lock loop shared with `cond_wait` (`RelockFrom`).
- `Yield` and `YieldReturn` split `uthread_yield` at its switch.
- `Entry` is `context_entry_wrapper`'s `preemption_enable()`.
- `TimerSignal` is `timer_signal_handler` with its `scheduler_tick()`.
- `SwitchCtx` is the `swapcontext()` of a `schedule()` entered with SIGALRM unblocked.

The user program is the loop of `tests/classic/producer_consumer.c`: lock, wait while full or empty, produce or consume, signal, unlock, and optionally yield.

### CoopSched

This is the scheduler with preemption off. The library's `preemption_disable/enable` then only count, so a library call runs to its `schedule()` as one step.
- A code path updates a record `S = [st, rq, wq, bq]`: TCB states, run queue, wait queues, `blocked_queue` fields.
- `Stay` commits the record without a switch. `Sched` commits it through `scheduler_schedule()`.
- The record operators are `Enqueue`, `Unblock`, `WaitAdd`, `Block`, `WakeOne`, `WakeAll`, `RemoveSpecific`, `RrRemove`, `YieldSched` and `BlockSched`, each named after the C function it translates.
- `SchedPlacement` states where each thread must be. A READY thread is in the run queue once. A BLOCKED thread is in the wait queue its `blocked_queue` names. A RUNNING thread is current.

`Semaphore`, `RWLock` and `Lifecycle` extend it. Their user programs avoid the `scheduler_yield` defect (`cfs_lost`), so that a run can ask other questions:
- In Semaphore and RWLock, Main polls with yield while others are runnable.
- In Lifecycle, Main never yields.

### Semaphore

- Variables: `value`, the clock `now`, and each thread's `deadline`.
- Actions:
  - `SemWait` and `SemWaitResume` are the entry and the re-test of the wait loop.
  - `SemTryWait` is `uthread_sem_trywait`.
  - `SemTimedWait` is `uthread_sem_timedwait`, with any deadline up to `MaxTime`. `SemTimedWaitResume` is the code after its `schedule()`: on timeout it calls `wait_queue_remove_specific`.
  - `SemPost` is `uthread_sem_post`. `UserYield` is `uthread_yield`. `Tick` advances the clock.
- Each thread's loop calls the operations `OpsOf[t]` allows.

### RWLock and RWLockSpec

- Variables: `readers`, `writer`, `writer_owner` and `pending_writers`, the lock's fields.
- Actions:
  - `RdLock`, `RdLockResume` and `TryRdLock` are the read side.
  - `WrLock`, `WrLockResume` and `TryWrLock` are the write side.
  - `Unlock` is `uthread_rwlock_unlock`, with its three wake-ups.
  - The user program of `readers_writers.c`: `HoldYield` and `RestYield` are its sleeps, `RwUnlock` its release, `WriterExit` a writer returning, and `Poll` Main's yields.
- `RWLockSpec` has one variable, `holding[t]`, and the actions acquire-read, acquire-write and release.
- `RWLock` instantiates it with `holding <- holds`, where `holds` is what each thread has acquired. `ImplementsRWLockSpec` is `RWSpec!Spec`, so every step of the implementation is a step of the abstract lock or leaves `holds` unchanged.

### Lifecycle

- The threads are Main and a pool of TCBs that `thread_alloc` reuses. A handle `<<t, v>>` names TCB t and the argument it was created with, so a handle that outlives its TCB can be told apart from a new thread in the same memory.
- Variables:
  - `alive`, `reg` (the registry), `exited`, `detached`, `joiner`, `waiting_on`, `retval` and `arg` are TCB and scheduler fields.
  - `joining` is the handle each joiner blocks on.
  - `handles` is Main's array of handles.
  - `created` counts Main's create calls.
  - `fault` is `"none"`, `"uaf"` or `"abort"`.
- Actions:
  - `CreateNoMem` is the ENOMEM return. `Create` is `uthread_create`: it aborts when the registry is full, otherwise `Spawn` runs.
  - `MainJoin` and `ChildJoin` call `Join`. `JoinResume` is the code after a join's `schedule()`.
  - `Detach` is `uthread_detach`.
  - `ChildYield` is one yield of a child.
  - `Exit` is `context_entry_wrapper` calling `uthread_exit`.
  - `Shutdown` is `uthread_shutdown`, once every handle is consumed.
- The fault model:
  - A step that reads a freed TCB, or runs on a stack that `thread_free` unmapped, sets `fault = "uaf"`.
  - The registry assertion sets `"abort"`.
  - Every action requires `fault = "none"`, so a fault ends the process.

### Priority

- The run queue of `sched_priority.c` is three views that must agree:
  - `queues[l]`, one sequence per level;
  - `bitmap`, updated with `Bitwise`'s `|` and `&` over `NLevels` bits;
  - `count`.
- `rem[t]` is `timeslice_remaining`. `ticked` records whether a tick has measured the current thread since its `start_time`.
- `depth` is `s_preemption_disabled`, `pending` is `s_preempt_pending`, and `masked[t]` says whether SIGALRM is blocked in the running thread's mask or in the mask another thread will run with. `started` holds the threads whose context has been switched to.
- A code path updates `S = [st, q, bitmap, count, rem, d, mk]`, as in CoopSched.
- The operators of the policy:
  - `FindHighest` (with the RECURSIVE `ScanDown`) is `find_highest_priority`.
  - `AddToQueue` and `RemoveFromQueue` are the two list helpers.
  - `PrioEnqueue`, `Picked`/`PrioDequeue`, `PrioRemove`, `UpdatePriority`, `OnTick` and `ShouldPreempt` are the policy's operations.
  - `Schedule` is `scheduler_schedule`. `SwitchTo` is what the switched-to thread runs with after `context_switch_to`:
    - a thread switched to before returns from the handler that preempted it, and sigreturn unblocks SIGALRM;
    - a new thread runs `EntryEnable`, the `preemption_enable()` of `context_entry_wrapper`. Its context holds the mask saved in `uthread_create`, with SIGALRM blocked. At depth 0 it returns early (context.c:29) and SIGALRM stays blocked.
  - `LibCall` is the `preemption_disable`/`preemption_enable` pair around setpriority and setnice. SIGALRM is unblocked only if the counter returns to 0.
  - The pending tick of `preemption_enable` is never due. `pending` is only set at a non-zero depth, and no path brings the depth back to 0 afterwards (only a new thread's first enable lowers it, by exactly what the exit before it added). An `Assert` in `EntryEnable` and `LibCall` would stop TLC if it were due.
- The actions:
  - `SetPriority` is `uthread_setpriority`, by the running thread on any thread.
  - `SetNice` is `uthread_setnice`, which calls `update_priority` at the same level.
  - `Exit` is `uthread_exit` of an unjoined thread. Its `preemption_disable()` is never undone by that thread. So when it switches to a thread that was preempted in the handler, the counter stays above 0 from then on.
  - `Tick` is `timer_signal_handler` and `scheduler_tick`. It is enabled only while the running thread's mask lets SIGALRM through. At a non-zero depth it only sets `pending`.
- Elapsed time:
  - The timer interval equals the slice.
  - The first tick after a switch measures 1..`Slice` units. Any later tick measures at least `Slice`, because `scheduler_tick` passes the time since `start_time`, not since the last tick.
  - Main starts with `start_time = 0` and a slice of 0 from `calloc`.
- `uthread_yield` is not in this module. Its self-dequeue case is the `cfs_lost` defect, and `priority_on_yield` is empty.

### RBTree, SortedRunQueue and CFSQueue

- `RBTree` holds no variables. The tree fields of `g_cfs_state` and the `rb_*` fields of the TCBs are one record `T = [p, ch, c, root, lm, n]`:
  - `p` is `rb_parent`, `ch["L"]` is `rb_left` and `ch["R"]` is `rb_right`;
  - `c` is `rb_color`;
  - `root`, `lm` and `n` are `rb_root`, `rb_leftmost` and `count`.
- Every routine is an operator from record to record, named after its C function:
  - `Rotate(T, d, x)` is `rb_rotate_left` (`d = "L"`) and `rb_rotate_right` (`d = "R"`);
  - `Relink` is the parent fix the rotations and `rb_transplant` share;
  - `InsertFixup` and `RemoveFixup` are the fix-up loops, written RECURSIVE. The two mirrored arms of each loop are one arm with a direction;
  - each loop body is split where a rotation happens: `InsertOuter`, `RemoveSibling` and `RemoveFar`. The rotated record is passed to the next operator as an argument rather than named by a LET. For `Unlink` (the tail of `rb_remove`) and `Dispatch` (the switch of `scheduler_schedule`), the arguments are the result of `Splice` and of `cfs_dequeue`. TLC's profiler (`-coverage`) expands an operator once for every reference to a LET name, so with repeated LET references the expansion grew exponentially with nesting depth; an argument is expanded once;
  - `RbInsert`, `Splice`/`RbRemove`, `Minimum`, `CfsDequeue`, and `Found`/`CfsRemove` (the search of `cfs_remove`) are the rest.
- `SortedRunQueue` is the abstract queue:
  - a sequence of threads ordered by `vruntime`;
  - a thread joins behind every thread whose key is not larger than its own;
  - dequeue takes the head, and removal drops a thread.
- `CFSQueue` has the variables `rb` and `vruntime`. Its actions are:
  - `Enqueue(t, k)`: `rb_insert` of an unqueued thread with vruntime k;
  - `Dequeue`: `cfs_dequeue`;
  - `RemoveNode(t)`: `rb_remove` of any queued node, which `internal.h` exports.
- `CFSQueue` instantiates `SortedRunQueue` with `rq <- InOrder(rb)`. `InOrder` is the in-order walk, bounded by the number of nodes so that a corrupted, cyclic tree still gives an answer.

### CFS

- Variables:
  - `current` and `tstate`;
  - `rb`, `vruntime` and `minv` (`min_vruntime`);
  - `rem` (`timeslice_remaining`);
  - `since`, what the last tick measured since `start_time`;
  - each worker's remaining yields (`left`), and Main's position in its join loop (`joining`).
- Time is counted in whole units of `CFS_MIN_GRANULARITY_NS` (1 ms). The timer period is `Interval` units.
- The slice is computed as the build computes it. `CFS_TARGET_LATENCY_NS * weight` is an `int` product and wraps to 32 bits, and C division truncates. A negative quotient becomes the value `Forever`, which stands for a `uint64_t` near 2^64 ns. With nice 0 or 10 every slice is `Forever`.
- `Exceeds` is the unsigned `vruntime` difference of `cfs_should_preempt`: it wraps, and so counts as large, when the leftmost is ahead.
- The actions:
  - `Tick` is `scheduler_tick` in a worker's own code;
  - `Yield` is `uthread_yield`, with `cfs_on_yield` charging at least what the last tick measured;
  - `Exit` is `uthread_exit`, with `cfs_remove` and the wake-up of a joining Main;
  - `Join` is one pass of Main's `uthread_join` loop.
- `Init` is the state after `uthread_init` and the two creates.

## Runs

| Run | Module | Expect | Properties |
|---|---|---|---|
| `uthread_all` | UThread, timer on, Main and one producer, ERRORCHECK mutex, unlock by non-holders, every call including `cond_timedwait`, queues bounded by `MaxQueue` | pass | TypeOK, MutualExclusion |
| `cond_timeout` | UThread, timer off, NORMAL mutex, `cond_timedwait` | violation | NoBlockedRunner |
| `recursive_cv` | UThread, RECURSIVE mutex locked up to twice | violation | MutualExclusion |
| `preempt_block` | UThread, timer on, NORMAL mutex, Main and one producer | violation | Placement |
| `sem_timed` | Semaphore, Main and three threads, clock to 2 | pass | TypeOK, SchedPlacement |
| `sem_stranded` | as `sem_timed` | violation | NoStrandedWaiter |
| `rw_all` | RWLock, two readers, two writers, Main polling | pass | TypeOK, Accounting, NoLostWakeup, ImplementsRWLockSpec, WriterProgress, ReaderProgress |
| `lc_all` | Lifecycle, three TCBs, three registry slots, four creates, detach and child joins | pass | TypeOK, NoOrphanZombie, JoinLinks, ProgramTerminates |
| `lc_uaf` | Lifecycle, four slots, `uthread_detach` of a running thread | violation | NoUseAfterFree |
| `prio_all` | Priority, Main and three threads on three levels | pass | TypeOK, QueueIndex, DispatchHighest, TopRuns |
| `cfs_tree` | CFSQueue, six TCBs, vruntimes 0..2, symmetry | pass | TypeOK, RedBlack, LeftmostCache, ImplementsSortedQueue |
| `cfs_lost` | CFS, `test_cfs_nice_values` with two yields per worker | violation | NoLostThread |

### What the passing runs show

- **`uthread_all`.** Mutual exclusion holds through barging, the re-lock loops and every position of SIGALRM. An ERRORCHECK mutex resists unlock by a non-holder. A timed waiter re-locks correctly on both of its exits.
- **`sem_timed`.** Every thread is where its state says through every interleaving of wait, trywait, timedwait and post. This includes the timeout path's `wait_queue_remove_specific` of a thread a post has already woken.
- **`rw_all`.**
  - The lock refines `RWLockSpec`: readers share and a writer excludes everyone.
  - The counters match the holders (`Accounting`).
  - No thread is parked with nobody left to wake it (`NoLostWakeup`).
  - Writers do not starve, because `pending_writers` turns readers away.
  - Readers do not starve once the writers' loops are finite.
- **`lc_all`.**
  - A thread blocked in join is the recorded joiner of a live, unexited thread (`JoinLinks`).
  - No exited, unfreed TCB is left with nobody able to join it (`NoOrphanZombie`).
  - The program ends (`ProgramTerminates`): every joiner is woken.
- **`prio_all`.**
  - The bitmap, count and lists agree through enqueue, dequeue, remove and the re-bucketing of setpriority (`QueueIndex`).
  - Every switch goes to the highest non-empty level (`DispatchHighest`).
  - A runnable thread of the highest live priority gets the CPU unless it stops being highest, or the running thread can no longer be preempted (`TopRuns`).
    - This rests on round robin within the level: the slice test of `should_preempt` and the refill at the tail.
    - The exemption (`Preemptible`) is for the two timer defects below, under which the code really does starve the top thread. The property says that the policy itself never does.
  - Deadlock is not checked. A thread that started with SIGALRM blocked and has no calls left computes for ever, and the model has no step.

- **`cfs_tree`.**
  - After any sequence of inserts, dequeues and removals, the tree is red-black (`RedBlack`):
    - links agree and the in-order keys ascend;
    - the root is black and no red node has a red child;
    - black heights agree and `count` is the size.
  - The leftmost cache is the first node in order (`LeftmostCache`), although both `rb_insert` and `rb_remove` set it before their fix-up.
  - The tree implements `SortedRunQueue` (`ImplementsSortedQueue`): rotations never reorder threads, and equal vruntimes leave first come, first served.

### What the violation runs show

Each violation run reproduces one defect, described in `PROJECT.json` under "findings":
- **`cfs_lost`.** Under CFS a yielding thread that still has the smallest vruntime dequeues itself. `scheduler_schedule` returns without a switch and leaves it READY. Its next yield does not enqueue it, so it is READY in no queue for ever (`NoLostThread`). Built with gcc -O2, `test_cfs_nice_values` segfaults this way: the last thread does the same and switches to the idle TCB, whose context is never built.
- **`recursive_cv`.** `cond_wait` restores `recursion_count = 1`, so a doubly locked recursive mutex is released by the first of two unlocks.
- **`preempt_block`.** SIGALRM between a blocking call's `preemption_enable()` and its `schedule()` enqueues a BLOCKED thread that is still in a wait queue.
- **`cond_timeout`.** `cond_timedwait` marks its caller BLOCKED before the wait loop. Its timeout exit removes the caller from the condition's queue and re-locks the mutex, but leaves the state BLOCKED, so the thread runs its own code while BLOCKED (`NoBlockedRunner`). Its next yield does not enqueue it, because `scheduler_yield` enqueues only a RUNNING caller. A probe built against the library, with a past deadline, returned ETIMEDOUT with the state still BLOCKED. It then segfaulted in the switch to the idle TCB once the other thread had exited.
- **`sem_stranded`.** A timed waiter woken by a post after its deadline returns ETIMEDOUT without the unit and without passing the wake-up on. Another waiter then stays blocked while `value > 0`.
- **`lc_uaf`.** `uthread_exit` of a detached thread frees its own stack and TCB, then calls `scheduler_schedule()` on them. Spec section 4.6 prescribes that same order.

### Defects recorded as hazards only

These are described in `PROJECT.json` under "hazards", with a note on how the models reach them or why no run does:
- Statically initialised objects lose their waiters (UThread with `StaticInit`, `Placement`).
- A non-owner's unlock releases a RECURSIVE mutex.
- SIGALRM between `in_scheduler = false` and `swapcontext` corrupts a context (`CtxIntegrity`).
- A `rwlock_unlock` by a thread holding nothing takes a reader's count away and lets a writer in beside a reader (not in the `readers_writers` program; `ImplementsRWLockSpec` is the property that would catch it).
- A double join of one handle: after the first, the TCB is freed and may be reused, so the second reads freed memory or joins an unrelated thread.
- `uthread_create` aborting the process when the registry is full. `lc_all` reaches this state.
- `sem_timedwait` never timing out without a post (`TimedWaitReturns`, with `OpsOf <- NoPostOps`). A test shows this as easily as a model.
- A switch to the idle TCB, whose context is never built (UThread's `NeverIdle`). A lone RR thread reaches it by yielding twice.
- A thread switched to from the SIGALRM handler runs user code with SIGALRM blocked, or at the yielder's depth (UThread's `UserCodePreemptible`, with the timer on and `YieldOps`). Priority reaches both: a new thread entered from the handler keeps SIGALRM blocked, and an exit that switches to a preempted thread leaves the counter above 0. In either case a top-priority thread can starve, which is why `TopRuns` exempts these states.
- The CFS slice overflows `int` for nice -19 to 10, so it never runs out. `SliceUnits` computes the wrapped value.
- `min_vruntime` tracks the largest vruntime that ticked, not the smallest runnable one.

One latent flaw is no hazard of the program and is not listed: `cfs_remove` misses a queued node that sits left of an equal key, but its only caller, `uthread_exit`, passes the running thread, which is never in the tree.

### Mutants

Every property of a passing run has a mutant in `PROJECT.json`: a plausible bug in the mapped code, defined next to the operator it replaces, that TLC must catch. Examples:
- `RelockNoRecheck` drops the `while (lock != 0)` re-test.
- `TimedLoopNoBlockState` queues a timed waiter without marking it BLOCKED.
- `UnlockNoWriterWake` forgets the writer wake-up.
- `ExitNoWake` forgets the joiner.
- `UpdateNoRebucket` leaves a re-prioritised thread in its old list.
- `FindHighestOffByOne` starts the bitmap scan a level too low.
- `ShouldPreemptNoSlice` drops the slice test.
- `OnTickNoFloor` drops the floor at 0 of the unsigned slice.
- `RotateNoChildParent` moves a subtree in a rotation without updating its `rb_parent`.
- `RbInsertLeq` lets a new equal key take the leftmost cache.
- `InsertionPointLeq` sends equal keys left in the insert descent.
- `RbRemoveNoCount` forgets `count--`.

## Bounds, and why they are enough

- **UThread: three threads without the timer, two with it.** Three is the least that gives a waiter, a barging thread and the releaser. With the timer, two threads already let SIGALRM land between every pair of steps, and three exceed the time budget. In `uthread_all` a tick re-enqueues a timed waiter that is still in the condition's queue (the `preempt_block` defect) each time it fires in the waiter's deadline loop, so the queues can grow without end. The constraint `QueueBound` stops exploring at `MaxQueue = 2` entries. Two threads need one run-queue entry, so the bound still admits one stray copy. `MaxItems` 1 or 2 makes producers and consumers both wait. `MaxRec = 2` is the least nesting that loses a recursion count. `MaxDepth` bounds the depth counter and is never reached.
- **Semaphore: Main and three threads, clock 0..2, value at most 3.** Two waiters are needed to strand one behind the other. A deadline can already be past, equal to now, or in the future.
- **RWLock: two readers and two writers.** Two of each give reader sharing, a pending writer behind readers and writer hand-off. `Rounds = 2` lets a writer come back. `MaxNaps = 2` lets a holder yield more than once.
- **Lifecycle: three TCBs, three registry slots, four creates, two argument values.** Four creates with three TCBs force reuse and a full registry. Two values tell a reused TCB from the original.
- **Priority: three levels, Main and three threads, one above, one beside, one below Main, two calls, `Slice = 2`.** This gives preemption by a higher level, round robin at one level, and moves in both directions by setpriority. `Slice = 2` separates a first tick that leaves part of the slice from one that empties it. The real 32 levels only add empty lists.

- **CFSQueue: six TCBs, vruntimes 0..2.**
  - Six nodes are the least for which `rb_remove_fixup` meets a red sibling with black children.
  - Three key values give runs of equal keys and keys on both sides of them.
  - The TCBs are interchangeable, so symmetry over them is sound.
- **CFS: two workers with nice 0 and 10, as in the test, two yields each, a 10-unit timer, vruntime up to 200.** The loss needs only two yields of one worker. The vruntime bound is a guard on `Tick` and `Yield`, and is far above where the loss occurs.

## Fairness

- **UThread runs.** Safety only.
- **Semaphore, RWLock and Lifecycle: `WF_vars(Next)`.** With preemption off, only the current thread has a step (its next library call or its user code), and one CPU runs it until it calls into the library. So some step is taken whenever one is enabled.
- **Semaphore's clock: `WF_vars(Tick)` in addition.** Time passes.
- **CFS runs.** Safety only.
- **Priority: `WF_vars(Tick)` only.** The interval timer is periodic. `Tick` is enabled only while the running thread's mask lets SIGALRM through, and it stays enabled until that thread calls into the library or a tick is taken. So weak fairness asks no more than the timer gives. While SIGALRM is blocked, nothing forces a tick. The user program's calls are optional, so a thread may compute for ever.

## CHECK_DEADLOCK FALSE

- `uthread_all` may switch to the idle TCB, which is a crash, so the process stops.
- The Lifecycle runs stop when Main returns after `uthread_shutdown` or when a fault kills the process.
- `prio_all` may end with a thread that started with SIGALRM blocked computing for ever (context.c:29): no step of the model is enabled, and the process does not stop.
- All other runs check deadlock.

## Not modelled, and why

- **`cfs_update_priority` under CFS (`uthread_setnice`).** It only rewrites the weight, and `CFS` takes each weight from `InitNice`. Vruntimes are whole milliseconds, so the model truncates where the code truncates nanoseconds.
- **`uthread_sleep`, and mutex FIFO fairness under barging.** These are listed as hazards with notes. So is the liveness of `cond_timedwait`: a blocked timed waiter is resumed only by a signal, so without one it never times out. Showing that needs a run of its own.
- **Init and destroy of the primitives, lazy rwlock init, scheduler controls, statistics, stack allocation (`mmap`, guard page), attributes and names.** These set fields, return errors or manage memory that no property distinguishes.
- **The examples, benchmarks and debug logging.**
