------------------------------- MODULE UThread -------------------------------
(***************************************************************************)
(* The LibUThread scheduler core on one CPU, with the round-robin policy,  *)
(* the SIGALRM preemption path, and the mutex and condition variable built *)
(* on wait queues (src/src/scheduler.c, sched_rr.c, timer.c, mutex.c,      *)
(* condvar.c, uthread.c).                                                  *)
(*                                                                         *)
(* One user thread's code executes at a time: the execution on the CPU is  *)
(* `cpu`.  Each library step below is a stretch of C code that runs with   *)
(* SIGALRM blocked, or a single point where the signal can arrive, so the  *)
(* steps are atomic with respect to the timer.  `pc[t]` is where the code  *)
(* of thread t continues, `ctx[x]` whose execution the saved ucontext of   *)
(* TCB x holds.  The user program of every thread is a producer/consumer   *)
(* loop over one mutex and one condition variable (the pattern of          *)
(* tests/classic/producer_consumer.c), plus yields.                        *)
(***************************************************************************)
EXTENDS Integers, Sequences, SequencesExt, FiniteSets

CONSTANTS
  Threads,      \* user TCBs, Main included
  Main,         \* the TCB uthread_init() builds for the caller
  Producers,    \* threads whose user code produces items
  Idle,         \* g_scheduler.idle_thread: its ucontext is never initialised
  None,         \* NULL
  Mutexes,
  CondVars,
  MType,        \* [Mutexes -> {"NORMAL","RECURSIVE","ERRORCHECK"}]
  ItemsLock,    \* the mutex the user program guards `items` with
  NotEmpty,     \* condition consumers wait on
  NotFull,      \* condition producers wait on
  StaticInit,   \* objects set up by UTHREAD_*_INITIALIZER (waiters = NULL)
  Preemptive,   \* timer running and g_scheduler.preemption_enabled
  Ops,          \* API calls the user program makes
  Misuse,       \* user program may unlock a mutex it does not hold
  MaxRec,       \* bound on a thread's nested locks of one mutex
  MaxItems,     \* bound on the user program's item count
  MaxDepth      \* bound on s_preemption_disabled

ASSUME Main \in Threads /\ Producers \subseteq Threads
ASSUME ItemsLock \in Mutexes /\ {NotEmpty, NotFull} \subseteq CondVars
ASSUME StaticInit \subseteq Mutexes \cup CondVars
ASSUME MType \in [Mutexes -> {"NORMAL", "RECURSIVE", "ERRORCHECK"}]
ASSUME Preemptive \in BOOLEAN /\ Misuse \in BOOLEAN
ASSUME MaxRec \in Nat \ {0} /\ MaxItems \in Nat \ {0} /\ MaxDepth \in Nat \ {0}

VARIABLES
  current,   \* g_scheduler.current
  cpu,       \* the execution whose code is on the CPU
  ctx,       \* ctx[x]: execution saved in TCB x's ucontext
  tstate,    \* TCB state field
  pc,        \* next step of each execution
  swTo,      \* [to, cont] of a schedule() stopped before swapcontext
  runq,      \* g_rr_state FIFO
  expired,   \* timeslice_remaining = 0
  depth,     \* s_preemption_disabled
  pending,   \* s_preempt_pending
  masked,    \* SIGALRM in the signal mask saved with each context
  wq,        \* wait queue of every mutex and condition variable
  locked, owner, rcount,   \* uthread_mutex_t fields
  am,        \* mutex argument of a call in progress
  held,      \* user program: how many times t has locked m and not unlocked
  items,     \* user program: items produced and not consumed
  owes       \* user program: condition it must signal before unlocking

vars == <<current, cpu, ctx, tstate, pc, swTo, runq, expired, depth, pending,
          masked, wq, locked, owner, rcount, am, held, items, owes>>

Queues == Mutexes \cup CondVars
PCs == {"user", "entry", "yield_ret", "lock_sched", "lock_resume",
        "cw_sched", "cw_resume", "cw_sched2", "tw_check", "tw_resume", "switch"}
NoSwitch == [to |-> None, cont |-> "user"]

(***************************************************************************)
(* Scheduler-visible state threaded through a C code path: thread states,  *)
(* run queue, timeslices and wait queues.  A path is a chain of updates of *)
(* such a record, committed by Stay or Sched at its end.                   *)
(***************************************************************************)
S0 == [st |-> tstate, rq |-> runq, ex |-> expired, wq |-> wq]

\* rr_enqueue: append at the tail, reset the timeslice
Enqueue(S, t) == [S EXCEPT !.rq = Append(@, t), !.ex[t] = FALSE]

\* scheduler_unblock
Unblock(S, t) == Enqueue([S EXCEPT !.st[t] = "READY"], t)

\* wait_queue_add; a NULL queue (static initializer) makes it return at once
WaitAdd(S, q, t) ==
  IF q \in StaticInit THEN S ELSE [S EXCEPT !.wq[q] = Append(@, t)]

\* the blocking prologue: state = BLOCKED, then wait_queue_add
Block(S, t, q) == WaitAdd([S EXCEPT !.st[t] = "BLOCKED"], q, t)

\* mutant: the woken thread is marked READY but never enqueued
WakeOneNoEnqueue(S, q) ==
  IF S.wq[q] = <<>> THEN S
  ELSE [S EXCEPT !.wq[q] = Tail(@), !.st[Head(S.wq[q])] = "READY"]

\* wait_queue_wake_one: remove the head, unblock it
WakeOne(S, q) ==
  IF S.wq[q] = <<>> THEN S
  ELSE Unblock([S EXCEPT !.wq[q] = Tail(@)], Head(S.wq[q]))

\* wait_queue_wake_all: wake_one until empty, in FIFO order
WakeAll(S, q) ==
  LET ws == S.wq[q] IN
  [S EXCEPT !.wq[q] = <<>>,
            !.rq = @ \o ws,
            !.st = [x \in Threads |-> IF x \in ToSet(ws) THEN "READY" ELSE @[x]],
            !.ex = [x \in Threads |-> IF x \in ToSet(ws) THEN FALSE ELSE @[x]]]

\* rr_dequeue: the head of the FIFO, or NULL when it is empty, and the FIFO
\* without it
RrHead(rq) == IF rq = <<>> THEN None ELSE Head(rq)
RrPop(rq) == IF rq = <<>> THEN rq ELSE Tail(rq)

\* rr_on_tick: the elapsed time since start_time is not modelled, so the
\* slice either still has time left or has run out
RrOnTick(S, t) == {[S EXCEPT !.ex[t] = e] : e \in {S.ex[t], TRUE}}

\* rr_should_preempt: slice exhausted and another thread queued
RrShouldPreempt(S, t) == S.ex[t] /\ S.rq # <<>>

CtxOf(x) == IF x = Idle THEN Idle ELSE ctx[x]

\* Commit S and continue execution e at cont without a switch.
Stay(S, e, cont) ==
  /\ tstate' = S.st /\ runq' = S.rq /\ expired' = S.ex /\ wq' = S.wq
  /\ pc' = [pc EXCEPT ![e] = cont]
  /\ UNCHANGED <<current, cpu, ctx, swTo>>

(***************************************************************************)
(* scheduler_schedule() run by execution e with S committed.  The idle TCB *)
(* is taken when the run queue is empty.  When SIGALRM is not blocked      *)
(* (win), the code clears in_scheduler and only then calls swapcontext:    *)
(* the step stops at "switch" and SwitchCtx finishes it.  A signal while   *)
(* in_scheduler is set returns without effect, so it is a stutter here.    *)
(***************************************************************************)
Sched(S, e, cont, win) ==
  LET self == current
      nxt  == IF RrHead(S.rq) = None THEN Idle ELSE RrHead(S.rq)
      rq2  == RrPop(S.rq)
  IN IF nxt = self
     THEN Stay([S EXCEPT !.rq = rq2], e, cont)
     ELSE /\ tstate' = [x \in Threads |->
                          IF x = nxt THEN "RUNNING"
                          ELSE IF x = self /\ S.st[x] = "RUNNING" THEN "READY"
                          ELSE S.st[x]]
          /\ runq' = rq2 /\ expired' = S.ex /\ wq' = S.wq
          /\ current' = nxt
          /\ IF win
             THEN /\ pc' = [pc EXCEPT ![e] = "switch"]
                  /\ swTo' = [swTo EXCEPT ![e] = [to |-> nxt, cont |-> cont]]
                  /\ UNCHANGED <<cpu, ctx>>
             ELSE /\ ctx' = [ctx EXCEPT ![self] = e]
                  /\ cpu' = CtxOf(nxt)
                  /\ pc' = [pc EXCEPT ![e] = cont]
                  /\ UNCHANGED swTo

\* mutant: the preempted thread is marked READY but not put back in the queue
TickNoEnqueue(S, e, cont, win) ==
  \E exh \in {S.ex[current], TRUE} :
    IF exh /\ S.rq # <<>> /\ Preemptive
    THEN Sched([S EXCEPT !.st[current] = "READY"], e, cont, win)
    ELSE Stay([S EXCEPT !.ex[current] = exh], e, cont)

(***************************************************************************)
(* scheduler_tick() for the current TCB: rr_on_tick may exhaust the slice  *)
(* (elapsed time is not modelled), rr_should_preempt asks for an empty     *)
(* slice and a non-empty run queue; then current is made READY, enqueued   *)
(* and schedule() runs.                                                    *)
(***************************************************************************)
TickThen(S, e, cont, win) ==
  \E S1 \in RrOnTick(S, current) :
    IF Preemptive /\ RrShouldPreempt(S1, current)
    THEN Sched(Enqueue([S1 EXCEPT !.st[current] = "READY"], current), e, cont, win)
    ELSE Stay(S1, e, cont)

\* mutant: preemption_enable() without its early return at zero
EnableNoZeroCheck(d, m0, S, e, cont) ==
  IF d # 1
  THEN /\ depth' = d - 1
       /\ masked' = [masked EXCEPT ![e] = m0]
       /\ UNCHANGED pending
       /\ Stay(S, e, cont)
  ELSE /\ depth' = 0
       /\ masked' = [masked EXCEPT ![e] = FALSE]
       /\ pending' = FALSE
       /\ IF pending THEN TickThen(S, e, cont, Preemptive) ELSE Stay(S, e, cont)

(***************************************************************************)
(* preemption_enable() by execution e when the counter is d and e's mask   *)
(* is m0: decrement if positive; at zero unblock SIGALRM and run a tick    *)
(* that was left pending.                                                  *)
(***************************************************************************)
Enable(d, m0, S, e, cont) ==
  IF d # 1
  THEN /\ depth' = IF d = 0 THEN 0 ELSE d - 1
       /\ masked' = [masked EXCEPT ![e] = m0]
       /\ UNCHANGED pending
       /\ Stay(S, e, cont)
  ELSE /\ depth' = 0
       /\ masked' = [masked EXCEPT ![e] = FALSE]
       /\ pending' = FALSE
       /\ IF pending THEN TickThen(S, e, cont, Preemptive) ELSE Stay(S, e, cont)

\* preemption_disable(); body; preemption_enable()
DisEn(S, e, cont) == Enable(depth + 1, TRUE, S, e, cont)

-----------------------------------------------------------------------------
(***************************************************************************)
(* Steps of the execution on the CPU.                                      *)
(***************************************************************************)

\* thread t's code is on the CPU and at step l
At(t, l) == cpu = t /\ pc[t] = l

\* context_entry_wrapper: preemption_enable(), then the start routine
Entry(t) ==
  /\ At(t, "entry")
  /\ Enable(depth, masked[t], S0, t, "user")
  /\ UNCHANGED <<locked, owner, rcount, am, held, items, owes>>

\* mutant: scheduler_yield() marks the caller READY but does not enqueue it
YieldNoEnqueue(t) ==
  /\ At(t, "user") /\ "yield" \in Ops /\ depth < MaxDepth
  /\ depth' = depth + 1
  /\ masked' = [masked EXCEPT ![t] = TRUE]
  /\ LET S1 == IF tstate[t] = "RUNNING"
               THEN [S0 EXCEPT !.st[t] = "READY"] ELSE S0
     IN Sched(S1, t, "yield_ret", FALSE)
  /\ UNCHANGED <<pending, locked, owner, rcount, am, held, items, owes>>

\* uthread_yield: on_yield (no-op for RR), scheduler_yield, schedule()
Yield(t) ==
  /\ At(t, "user") /\ "yield" \in Ops /\ depth < MaxDepth
  /\ depth' = depth + 1
  /\ masked' = [masked EXCEPT ![t] = TRUE]
  /\ LET S1 == IF tstate[t] = "RUNNING"
               THEN Enqueue([S0 EXCEPT !.st[t] = "READY"], t) ELSE S0
     IN Sched(S1, t, "yield_ret", FALSE)
  /\ UNCHANGED <<pending, locked, owner, rcount, am, held, items, owes>>

\* the preemption_enable() that ends uthread_yield
YieldReturn(t) ==
  /\ At(t, "yield_ret")
  /\ Enable(depth, masked[t], S0, t, "user")
  /\ UNCHANGED <<locked, owner, rcount, am, held, items, owes>>

\* The user program may lock m again only if the type allows it, and holds
\* at most one mutex at a time (no lock-order deadlock in the client).
CanLock(t, m) ==
  /\ held[t][m] < MaxRec
  /\ MType[m] = "NORMAL" => held[t][m] = 0
  /\ \A m2 \in Mutexes \ {m} : held[t][m2] = 0

Acquire(t, m) ==
  /\ locked' = [locked EXCEPT ![m] = 1]
  /\ owner' = [owner EXCEPT ![m] = t]
  /\ rcount' = [rcount EXCEPT ![m] = 1]

\* uthread_mutex_lock up to acquiring or blocking
MutexLock(t, m) ==
  /\ At(t, "user") /\ "lock" \in Ops /\ CanLock(t, m)
  /\ UNCHANGED <<pending, items, owes>>
  /\ IF owner[m] = t /\ MType[m] # "NORMAL"
     THEN \* recursion, or EDEADLK for an error-checking mutex
          /\ rcount' = IF MType[m] = "RECURSIVE"
                       THEN [rcount EXCEPT ![m] = @ + 1] ELSE rcount
          /\ held' = IF MType[m] = "RECURSIVE"
                     THEN [held EXCEPT ![t][m] = @ + 1] ELSE held
          /\ DisEn(S0, t, "user")
          /\ UNCHANGED <<locked, owner, am>>
     ELSE IF locked[m] = 0
     THEN /\ Acquire(t, m)
          /\ held' = [held EXCEPT ![t][m] = @ + 1]
          /\ DisEn(S0, t, "user")
          /\ UNCHANGED am
     ELSE /\ am' = [am EXCEPT ![t] = m]
          /\ DisEn(Block(S0, t, m), t, "lock_sched")
          /\ UNCHANGED <<locked, owner, rcount, held>>

\* the scheduler_schedule() of the lock loop, called after preemption_enable()
LockSched(t) ==
  /\ At(t, "lock_sched")
  /\ Sched(S0, t, "lock_resume", Preemptive /\ ~masked[t])
  /\ UNCHANGED <<depth, pending, masked, locked, owner, rcount, am, held, items, owes>>

\* mutant: a woken waiter takes the mutex without testing `lock` again
RelockNoRecheck(t, again, gain) ==
  LET m == am[t] IN
  /\ UNCHANGED <<pending, am, items, owes>>
  /\ Acquire(t, m)
  /\ held' = [held EXCEPT ![t][m] = @ + gain]
  /\ DisEn(S0, t, "user")

(***************************************************************************)
(* The re-check of the lock loop after a wake-up: preemption_disable(),    *)
(* block again if locked, else take the mutex.  `gain` is what the user    *)
(* program's count of the mutex grows by: 1 for lock, 0 for the re-lock at *)
(* the end of cond_wait.                                                   *)
(***************************************************************************)
RelockFrom(S, t, again, gain) ==
  LET m == am[t] IN
  /\ UNCHANGED <<pending, am, items, owes>>
  /\ IF locked[m] # 0
     THEN /\ DisEn(Block(S, t, m), t, again)
          /\ UNCHANGED <<locked, owner, rcount, held>>
     ELSE /\ Acquire(t, m)
          /\ held' = [held EXCEPT ![t][m] = @ + gain]
          /\ DisEn(S, t, "user")

Relock(t, again, gain) == RelockFrom(S0, t, again, gain)

LockResume(t) == At(t, "lock_resume") /\ Relock(t, "lock_sched", 1)

\* uthread_mutex_trylock
MutexTryLock(t, m) ==
  /\ At(t, "user") /\ "trylock" \in Ops /\ CanLock(t, m)
  /\ UNCHANGED <<pending, am, items, owes>>
  /\ DisEn(S0, t, "user")
  /\ IF owner[m] = t /\ MType[m] = "RECURSIVE"
     THEN /\ rcount' = [rcount EXCEPT ![m] = @ + 1]
          /\ held' = [held EXCEPT ![t][m] = @ + 1]
          /\ UNCHANGED <<locked, owner>>
     ELSE IF locked[m] = 0 /\ ~(owner[m] = t /\ MType[m] = "ERRORCHECK")
     THEN Acquire(t, m) /\ held' = [held EXCEPT ![t][m] = @ + 1]
     ELSE UNCHANGED <<locked, owner, rcount, held>>   \* EBUSY

\* uthread_mutex_unlock
MutexUnlock(t, m) ==
  /\ At(t, "user") /\ "unlock" \in Ops
  /\ held[t][m] > 0 \/ Misuse
  /\ m = ItemsLock => owes[t] = None
  /\ UNCHANGED <<pending, am, items, owes>>
  /\ IF MType[m] = "ERRORCHECK" /\ owner[m] # t
     THEN DisEn(S0, t, "user") /\ UNCHANGED <<locked, owner, rcount, held>> \* EPERM
     ELSE /\ held' = [held EXCEPT ![t][m] = IF @ > 0 THEN @ - 1 ELSE 0]
          /\ IF MType[m] = "RECURSIVE" /\ owner[m] = t /\ rcount[m] > 1
             THEN /\ rcount' = [rcount EXCEPT ![m] = @ - 1]
                  /\ DisEn(S0, t, "user")
                  /\ UNCHANGED <<locked, owner>>
             ELSE /\ locked' = [locked EXCEPT ![m] = 0]
                  /\ owner' = [owner EXCEPT ![m] = None]
                  /\ rcount' = [rcount EXCEPT ![m] = 0]
                  /\ DisEn(WakeOne(S0, m), t, "user")

(***************************************************************************)
(* uthread_cond_wait up to its schedule(): block on c, release m without   *)
(* touching recursion_count, wake one mutex waiter.  The user program      *)
(* waits as tests/classic/producer_consumer.c does: holding the buffer     *)
(* lock, while the buffer is full (producer) or empty (consumer).          *)
(***************************************************************************)
WaitCV(t) == IF t \in Producers THEN NotFull ELSE NotEmpty

MustWait(t) == IF t \in Producers THEN items = MaxItems ELSE items = 0

CondWait(t, c, m) ==
  /\ At(t, "user") /\ "wait" \in Ops
  /\ m = ItemsLock /\ c = WaitCV(t) /\ held[t][m] > 0 /\ MustWait(t)
  /\ owes[t] = None
  /\ locked' = [locked EXCEPT ![m] = 0]
  /\ owner' = [owner EXCEPT ![m] = None]
  /\ am' = [am EXCEPT ![t] = m]
  /\ DisEn(WakeOne(Block(S0, t, c), m), t, "cw_sched")
  /\ UNCHANGED <<pending, rcount, held, items, owes>>

\* the scheduler_schedule() of cond_wait; it resumes at the re-lock loop
CondWaitSched(t) ==
  /\ cpu = t /\ pc[t] \in {"cw_sched", "cw_sched2"}
  /\ Sched(S0, t, "cw_resume", Preemptive /\ ~masked[t])
  /\ UNCHANGED <<depth, pending, masked, locked, owner, rcount, am, held, items, owes>>

CondWaitResume(t) == At(t, "cw_resume") /\ Relock(t, "cw_sched2", 0)

(***************************************************************************)
(* uthread_cond_timedwait: the same prologue as cond_wait, then a loop     *)
(* that runs while self->blocked_queue is set: preemption_enable(), and    *)
(* if the clock has passed the deadline (any deadline the caller may pass, *)
(* so a free choice) remove self from the condition's queue and leave the  *)
(* loop, else scheduler_schedule() and preemption_disable().  The re-lock  *)
(* loop is cond_wait's.  Neither exit sets the state back to RUNNING.      *)
(***************************************************************************)
\* self->blocked_queue != NULL: wait_queue_add sets it, every removal
\* clears it
InWaitQueue(S, t) == \E q \in Queues : t \in ToSet(S.wq[q])

\* wait_queue_remove_specific: a no-op unless t is in q
RemoveSpecific(S, q, t) == [S EXCEPT !.wq[q] = SelectSeq(@, LAMBDA x : x # t)]

CondTimedWait(t, c, m) ==
  /\ At(t, "user") /\ "timedwait" \in Ops
  /\ m = ItemsLock /\ c = WaitCV(t) /\ held[t][m] > 0 /\ MustWait(t)
  /\ owes[t] = None
  /\ am' = [am EXCEPT ![t] = m]
  /\ UNCHANGED <<pending, held, items, owes>>
  /\ \E S1 \in {WakeOne(Block(S0, t, c), m)} :
       IF InWaitQueue(S1, t)
       THEN /\ locked' = [locked EXCEPT ![m] = 0]
            /\ owner' = [owner EXCEPT ![m] = None]
            /\ UNCHANGED rcount
            /\ DisEn(S1, t, "tw_check")
       ELSE \* a NULL queue: no loop, and the re-lock finds the mutex free
            /\ UNCHANGED locked
            /\ owner' = [owner EXCEPT ![m] = t]
            /\ rcount' = [rcount EXCEPT ![m] = 1]
            /\ DisEn(S1, t, "user")

\* the deadline test of the loop, then the exit or scheduler_schedule()
TimedWaitCheck(t) ==
  /\ At(t, "tw_check")
  /\ \/ RelockFrom(RemoveSpecific(S0, WaitCV(t), t), t, "cw_sched2", 0)
     \/ /\ Sched(S0, t, "tw_resume", Preemptive /\ ~masked[t])
        /\ UNCHANGED <<depth, pending, masked, locked, owner, rcount, am, held,
                       items, owes>>

\* preemption_disable() and the loop test after a resume
TimedWaitResume(t) ==
  /\ At(t, "tw_resume")
  /\ IF InWaitQueue(S0, t)
     THEN /\ DisEn(S0, t, "tw_check")
          /\ UNCHANGED <<pending, locked, owner, rcount, am, held, items, owes>>
     ELSE Relock(t, "cw_sched2", 0)

\* mutant: signal bumps signal_seq but wakes nobody
CondSignalNoWake(t, c) ==
  /\ At(t, "user") /\ "signal" \in Ops
  /\ DisEn(S0, t, "user")
  /\ owes' = [owes EXCEPT ![t] = IF @ = c THEN None ELSE @]
  /\ UNCHANGED <<pending, locked, owner, rcount, am, held, items>>

\* uthread_cond_signal / uthread_cond_broadcast (signal_seq is never read)
CondSignal(t, c) ==
  /\ At(t, "user") /\ "signal" \in Ops
  /\ DisEn(WakeOne(S0, c), t, "user")
  /\ owes' = [owes EXCEPT ![t] = IF @ = c THEN None ELSE @]
  /\ UNCHANGED <<pending, locked, owner, rcount, am, held, items>>

CondBroadcast(t, c) ==
  /\ At(t, "user") /\ "broadcast" \in Ops
  /\ DisEn(WakeAll(S0, c), t, "user")
  /\ owes' = [owes EXCEPT ![t] = IF @ = c THEN None ELSE @]
  /\ UNCHANGED <<pending, locked, owner, rcount, am, held, items>>

\* user code between calls: produce or consume under ItemsLock, then owe
\* the signal that producer_consumer.c sends before it unlocks
Produce(t) ==
  /\ At(t, "user") /\ t \in Producers /\ owes[t] = None
  /\ held[t][ItemsLock] > 0 /\ items < MaxItems
  /\ items' = items + 1
  /\ owes' = [owes EXCEPT ![t] = NotEmpty]
  /\ UNCHANGED <<current, cpu, ctx, tstate, pc, swTo, runq, expired, depth,
                 pending, masked, wq, locked, owner, rcount, am, held>>

Consume(t) ==
  /\ At(t, "user") /\ t \notin Producers /\ owes[t] = None
  /\ held[t][ItemsLock] > 0 /\ items > 0
  /\ items' = items - 1
  /\ owes' = [owes EXCEPT ![t] = NotFull]
  /\ UNCHANGED <<current, cpu, ctx, tstate, pc, swTo, runq, expired, depth,
                 pending, masked, wq, locked, owner, rcount, am, held>>

\* the swapcontext() that ends a schedule() stopped at "switch"
SwitchCtx(t) ==
  /\ At(t, "switch")
  /\ ctx' = [ctx EXCEPT ![t] = t]
  /\ cpu' = CtxOf(swTo[t].to)
  /\ pc' = [pc EXCEPT ![t] = swTo[t].cont]
  /\ swTo' = [swTo EXCEPT ![t] = NoSwitch]
  /\ UNCHANGED <<current, tstate, runq, expired, depth, pending, masked, wq,
                 locked, owner, rcount, am, held, items, owes>>

(***************************************************************************)
(* timer_signal_handler: SIGALRM arrives while the execution on the CPU    *)
(* has it unblocked.  With the counter raised it only marks a pending      *)
(* tick; otherwise it ticks the TCB `current` names and may switch inside  *)
(* the handler (all signals blocked there, so no window).  The interrupted *)
(* code resumes at its own pc.  in_critical_section is never set by the    *)
(* library, so its test is always false.                                   *)
(***************************************************************************)
TimerSignal ==
  /\ Preemptive /\ cpu \in Threads /\ ~masked[cpu]
  /\ UNCHANGED <<masked, locked, owner, rcount, am, held, items, owes>>
  /\ IF depth > 0
     THEN /\ ~pending /\ pending' = TRUE
          /\ UNCHANGED <<current, cpu, ctx, tstate, pc, swTo, runq, expired, depth, wq>>
     ELSE /\ current \in Threads
          /\ TickThen(S0, cpu, pc[cpu], FALSE)
          /\ UNCHANGED <<depth, pending>>

-----------------------------------------------------------------------------
Init ==
  /\ current = Main /\ cpu = Main
  /\ ctx = [x \in Threads |-> x]
  /\ tstate = [x \in Threads |-> IF x = Main THEN "RUNNING" ELSE "READY"]
  \* the other threads were created by Main, with preemption disabled, in
  \* some order; Main's timeslice_remaining is 0 from calloc
  /\ runq \in {s \in [1..Cardinality(Threads) - 1 -> Threads \ {Main}] :
                  ToSet(s) = Threads \ {Main}}
  /\ pc = [x \in Threads |-> IF x = Main THEN "user" ELSE "entry"]
  /\ swTo = [x \in Threads |-> NoSwitch]
  /\ expired = [x \in Threads |-> x = Main]
  /\ depth = 0 /\ pending = FALSE
  /\ masked = [x \in Threads |-> x # Main]
  /\ wq = [q \in Queues |-> <<>>]
  /\ locked = [m \in Mutexes |-> 0]
  /\ owner = [m \in Mutexes |-> None]
  /\ rcount = [m \in Mutexes |-> 0]
  /\ am = [x \in Threads |-> ItemsLock]
  /\ held = [x \in Threads |-> [m \in Mutexes |-> 0]]
  /\ items = 0
  /\ owes = [x \in Threads |-> None]

Next ==
  \/ \E t \in Threads : Entry(t) \/ Yield(t) \/ YieldReturn(t)
  \/ \E t \in Threads, m \in Mutexes : MutexLock(t, m)
  \/ \E t \in Threads, m \in Mutexes : MutexTryLock(t, m)
  \/ \E t \in Threads, m \in Mutexes : MutexUnlock(t, m)
  \/ \E t \in Threads : LockSched(t) \/ LockResume(t)
  \/ \E t \in Threads, c \in CondVars, m \in Mutexes : CondWait(t, c, m)
  \/ \E t \in Threads : CondWaitSched(t) \/ CondWaitResume(t)
  \/ \E t \in Threads, c \in CondVars, m \in Mutexes : CondTimedWait(t, c, m)
  \/ \E t \in Threads : TimedWaitCheck(t) \/ TimedWaitResume(t)
  \/ \E t \in Threads, c \in CondVars : CondSignal(t, c)
  \/ \E t \in Threads, c \in CondVars : CondBroadcast(t, c)
  \/ \E t \in Threads : Produce(t) \/ Consume(t) \/ SwitchCtx(t)
  \/ TimerSignal

Spec == Init /\ [][Next]_vars

-----------------------------------------------------------------------------
TypeOK ==
  /\ current \in Threads \cup {Idle} /\ cpu \in Threads \cup {Idle}
  /\ ctx \in [Threads -> Threads]
  /\ tstate \in [Threads -> {"READY", "RUNNING", "BLOCKED"}]
  /\ pc \in [Threads -> PCs]
  /\ runq \in Seq(Threads) /\ wq \in [Queues -> Seq(Threads)]
  /\ expired \in [Threads -> BOOLEAN] /\ masked \in [Threads -> BOOLEAN]
  /\ depth \in 0..MaxDepth /\ pending \in BOOLEAN
  /\ locked \in [Mutexes -> {0, 1}] /\ owner \in [Mutexes -> Threads \cup {None}]
  /\ rcount \in [Mutexes -> Nat] /\ am \in [Threads -> Mutexes]
  /\ held \in [Threads -> [Mutexes -> 0..MaxRec]] /\ items \in 0..MaxItems
  /\ owes \in [Threads -> CondVars \cup {None}]

(***************************************************************************)
(* Placement (spec section 3): a thread other than `current` is queued     *)
(* exactly once, in the RR run queue if READY and in a wait queue if       *)
(* BLOCKED; `current` is queued only between blocking itself and its       *)
(* schedule(), and then in a wait queue.  Broken when scheduler_schedule() *)
(* returns with next == current, or a tick enqueues a thread that is       *)
(* already queued elsewhere.                                               *)
(***************************************************************************)
QueuedCount(t) ==
  Cardinality({i \in DOMAIN runq : runq[i] = t})
  + Cardinality(UNION {{<<q, i>> : i \in {j \in DOMAIN wq[q] : wq[q][j] = t}} :
                         q \in Queues})

InSomeWaitQueue(t) == \E q \in Queues : t \in ToSet(wq[q])

Placement ==
  \A t \in Threads :
    /\ QueuedCount(t) = IF t # current \/ tstate[t] = "BLOCKED" THEN 1 ELSE 0
    /\ tstate[t] = "BLOCKED" => InSomeWaitQueue(t)
    /\ tstate[t] = "READY" /\ current # t => t \in ToSet(runq)

\* t's code is inside uthread_cond_wait, where it has let the mutex go
InCondWait(t) ==
  (IF pc[t] = "switch" THEN swTo[t].cont ELSE pc[t])
    \in {"cw_sched", "cw_resume", "cw_sched2", "tw_check", "tw_resume"}

(***************************************************************************)
(* Mutual exclusion: a thread whose program has locked m more times than   *)
(* unlocked it, and is not inside cond_wait, is the mutex's owner.  Lost   *)
(* when unlock releases a lock the caller does not own, or the lock loop   *)
(* takes a mutex without re-testing it after a wake-up.                    *)
(***************************************************************************)
MutualExclusion ==
  \A t \in Threads, m \in Mutexes :
    held[t][m] > 0 /\ ~InCondWait(t) => owner[m] = t /\ locked[m] = 1

(***************************************************************************)
(* The idle TCB is never switched to: its ucontext is all zero, so a       *)
(* swapcontext() into it does not return to any code.  Requires that every *)
(* blocked thread is woken by the thread that releases what it waits for.  *)
(***************************************************************************)
NeverIdle == current # Idle

(***************************************************************************)
(* Every saved context belongs to its own TCB: a context switch never      *)
(* saves one thread's execution into another thread's ucontext.  Broken    *)
(* if SIGALRM reaches scheduler_tick() between `current = next` and the    *)
(* swapcontext() of scheduler_schedule().                                  *)
(***************************************************************************)
CtxIntegrity == \A x \in Threads : ctx[x] = x

(***************************************************************************)
(* User code of the running thread is preemptible: outside the library it  *)
(* runs with the counter at zero and SIGALRM unblocked, so the RR timer    *)
(* can take the CPU from it.                                               *)
(***************************************************************************)
UserCodePreemptible ==
  cpu \in Threads /\ pc[cpu] = "user" => depth = 0 /\ ~masked[cpu]

(***************************************************************************)
(* A thread whose own code is on the CPU is not BLOCKED: every call that   *)
(* blocks its caller returns only after a wake-up and a switch back to it  *)
(* made it RUNNING.  Broken by the timeout exit of cond_timedwait, which   *)
(* leaves the state it set before the loop; the caller's next yield then   *)
(* does not enqueue it (scheduler_yield enqueues only a RUNNING caller).   *)
(***************************************************************************)
NoBlockedRunner == cpu \in Threads /\ pc[cpu] = "user" => tstate[cpu] # "BLOCKED"

=============================================================================
