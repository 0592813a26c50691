------------------------------ MODULE Priority ------------------------------
(***************************************************************************)
(* The multi-level priority policy of src/src/sched_priority.c driven by   *)
(* the scheduler core with the SIGALRM timer on: FIFO queues per level, a  *)
(* non-empty bitmap scanned from the top, a count, and the per-thread      *)
(* time slice that on_tick drains and enqueue refills.  The user program   *)
(* computes and calls uthread_setpriority / uthread_setnice on any thread; *)
(* threads in Exiters may return from their routine.  Every library call   *)
(* runs with preemption disabled, so a timer tick falls between steps.     *)
(* SIGALRM reaches the running thread only while its signal mask lets it   *)
(* through, and then scheduler_tick runs only at s_preemption_disabled 0.  *)
(*                                                                         *)
(* As in CoopSched, a code path updates a record                           *)
(* S = [st, q, bitmap, count, rem] and a commit operator ends it.          *)
(***************************************************************************)
EXTENDS Integers, Sequences, SequencesExt, FiniteSets, Bitwise, TLC

CONSTANTS
  Threads,     \* user TCBs, Main included
  Main,        \* the TCB uthread_init() builds for the caller
  Idle,        \* g_scheduler.idle_thread
  None,        \* NULL
  NLevels,     \* UTHREAD_PRIORITY_LEVELS (32 in the code)
  Default,     \* UTHREAD_PRIORITY_DEFAULT, given to Main
  CreateOrder, \* the threads Main creates, in creation order
  InitPrio,    \* attr priority of each created thread
  Exiters,     \* threads whose start routine returns
  Slice,       \* timeslice_ns, in units of elapsed time one tick can measure
  MaxCalls     \* bound on the user program's setpriority/setnice calls

Levels == 0..NLevels - 1

ASSUME /\ Main \in Threads /\ Default \in Levels
       /\ ToSet(CreateOrder) = Threads \ {Main} /\ IsInjective(CreateOrder)
       /\ InitPrio \in [Threads \ {Main} -> Levels]
       /\ Exiters \subseteq Threads \ {Main}
       /\ Slice \in Nat \ {0} /\ MaxCalls \in Nat

VARIABLES
  current,     \* g_scheduler.current
  tstate,      \* TCB state field
  queues,      \* g_priority_state.queues, each list as a sequence
  bitmap,      \* g_priority_state.bitmap
  count,       \* g_priority_state.count
  prio,        \* TCB priority field
  rem,         \* TCB timeslice_remaining
  ticked,      \* a tick has measured current since its start_time
  calls,       \* setpriority/setnice calls made so far
  depth,       \* s_preemption_disabled, one counter for every thread
  pending,     \* s_preempt_pending
  masked,      \* SIGALRM blocked: in the running thread's mask, or in the
               \* mask another thread will run with when switched to
  started      \* threads whose context has been switched to

vars == <<current, tstate, queues, bitmap, count, prio, rem, ticked, calls,
          depth, pending, masked, started>>

States == {"READY", "RUNNING", "TERMINATED"}

Bit(l) == 2^l

\* ~(1U << l) within the NLevels bits the bitmap can use
Mask(l) == (2^NLevels - 1) - Bit(l)

-----------------------------------------------------------------------------
(***************************************************************************)
(* find_highest_priority: -1 when the bitmap is 0, else scan the bits from *)
(* the top level down and return the first one set.                        *)
(***************************************************************************)
RECURSIVE ScanDown(_, _)
ScanDown(b, i) ==
  IF i < 0 THEN -1
  ELSE IF (b & Bit(i)) # 0 THEN i ELSE ScanDown(b, i - 1)

\* mutant: the scan starts one level below the top
FindHighestOffByOne(b) == IF b = 0 THEN -1 ELSE ScanDown(b, NLevels - 2)

FindHighest(b) == IF b = 0 THEN -1 ELSE ScanDown(b, NLevels - 1)

\* the enqueue and remove paths clamp the priority field to a level
Clamp(p) == IF p < 0 THEN 0 ELSE IF p >= NLevels THEN NLevels - 1 ELSE p

\* add_to_priority_queue: append at the tail; set the bit if it was empty
AddToQueue(S, t, l) ==
  [S EXCEPT !.q[l] = Append(@, t),
            !.bitmap = IF S.q[l] = <<>> THEN @ | Bit(l) ELSE @]

\* remove_from_priority_queue: unlink t; clear the bit if now empty
RemoveFromQueue(S, t, l) ==
  LET q2 == SelectSeq(S.q[l], LAMBDA x : x # t)
  IN  [S EXCEPT !.q[l] = q2,
                !.bitmap = IF q2 = <<>> THEN @ & Mask(l) ELSE @]

\* the level whose list holds t, if any
LevelsHolding(S, t) == {l \in Levels : t \in ToSet(S.q[l])}

\* priority_enqueue: add at the clamped priority, count++, refill the slice
PrioEnqueue(S, t, p) ==
  [AddToQueue(S, t, Clamp(p)) EXCEPT !.count = @ + 1, !.rem[t] = Slice]

\* priority_dequeue: head of the highest non-empty level, or NULL
Picked(S) ==
  LET h == FindHighest(S.bitmap)
  IN  IF h < 0 \/ S.q[h] = <<>> THEN None ELSE Head(S.q[h])

PrioDequeue(S) ==
  LET h == FindHighest(S.bitmap)
  IN  IF Picked(S) = None THEN S
      ELSE [RemoveFromQueue(S, Picked(S), h) EXCEPT !.count = @ - 1]

(***************************************************************************)
(* priority_remove: look in the list of t's own level, then in every list; *)
(* unlink it and count-- where found, do nothing if it is in none.         *)
(***************************************************************************)
PrioRemove(S, t, p) ==
  LET own == Clamp(p)
      at  == IF t \in ToSet(S.q[own]) THEN own
             ELSE CHOOSE l \in LevelsHolding(S, t) : TRUE
  IN  IF LevelsHolding(S, t) = {} THEN S
      ELSE [RemoveFromQueue(S, t, at) EXCEPT !.count = @ - 1]

\* mutant: the thread is left in the list of its old level
UpdateNoRebucket(S, t, p) == S

(***************************************************************************)
(* priority_update_priority with t's new priority p: if t is in a list,    *)
(* unlink it and append it to the list of level p; count and the slice     *)
(* are left alone.  A running or exited thread is in no list.              *)
(***************************************************************************)
UpdatePriority(S, t, p) ==
  IF LevelsHolding(S, t) = {} THEN S
  ELSE AddToQueue(RemoveFromQueue(S, t, CHOOSE l \in LevelsHolding(S, t) : TRUE),
                  t, p)

\* mutant: the unsigned slice is decremented without the floor at 0
OnTickNoFloor(S, t, e) == [S EXCEPT !.rem[t] = @ - e]

\* priority_on_tick: drain the slice by the elapsed time, down to 0
OnTick(S, t, e) == [S EXCEPT !.rem[t] = IF @ > e THEN @ - e ELSE 0]

\* mutant: a thread whose slice ran out is not preempted by its peers
ShouldPreemptNoSlice(S, t) == FindHighest(S.bitmap) > prio[t]

(***************************************************************************)
(* priority_should_preempt: a higher level is non-empty, or the slice is   *)
(* used up and the caller's own level is non-empty.                        *)
(***************************************************************************)
ShouldPreempt(S, t) ==
  \/ FindHighest(S.bitmap) > prio[t]
  \/ S.rem[t] = 0 /\ S.q[prio[t]] # <<>>

S0 == [st |-> tstate, q |-> queues, bitmap |-> bitmap, count |-> count, rem |-> rem,
       d |-> depth, mk |-> masked]

Commit(S) ==
  /\ tstate' = S.st /\ queues' = S.q /\ bitmap' = S.bitmap
  /\ count' = S.count /\ rem' = S.rem /\ depth' = S.d /\ masked' = S.mk

(***************************************************************************)
(* A thread switched to for the first time starts in                       *)
(* context_entry_wrapper with the mask getcontext saved inside             *)
(* uthread_create, SIGALRM blocked, and calls preemption_enable(): at      *)
(* depth 0 it returns at once and SIGALRM stays blocked; else it counts    *)
(* down and unblocks at 0.  A pending tick is then due, but pending is     *)
(* only set at depth > 0 and no path here brings depth back to 0 after.    *)
(* A thread switched to again returns from the handler that preempted it   *)
(* and sigreturn restores the unblocked mask it was interrupted with.      *)
(***************************************************************************)
EntryEnable(S, t) ==
  IF S.d = 0 THEN S
  ELSE IF Assert(~(S.d = 1 /\ pending), "pending tick at the first enable")
       THEN [S EXCEPT !.d = @ - 1, !.mk[t] = (S.d > 1)]
       ELSE S

SwitchTo(S, t) ==
  IF t = Idle \/ t \in started THEN S ELSE EntryEnable(S, t)

(***************************************************************************)
(* scheduler_schedule() by t with S: dequeue, or take the idle TCB; return *)
(* at once if that is t, else t READY if it was RUNNING, the next one      *)
(* RUNNING, and context_switch_to(), which sets its start_time to now.     *)
(***************************************************************************)
Schedule(S, t) ==
  LET nxt == IF Picked(S) = None THEN Idle ELSE Picked(S)
      S2  == PrioDequeue(S)
  IN  IF nxt = t
      THEN Commit(S2) /\ UNCHANGED <<current, ticked, started>>
      ELSE /\ Commit(SwitchTo([S2 EXCEPT !.st = [x \in Threads |->
                                   IF x = nxt THEN "RUNNING"
                                   ELSE IF x = t /\ @[x] = "RUNNING" THEN "READY"
                                   ELSE @[x]]], nxt))
           /\ current' = nxt
           /\ ticked' = FALSE
           /\ started' = started \cup ({nxt} \ {Idle})

(***************************************************************************)
(* After uthread_init(SCHED_PRIORITY) and Main's uthread_create() calls:   *)
(* Main runs with the calloc'd slice 0 and start_time 0 (so the first tick *)
(* measures it as having run for ever); each created thread was enqueued   *)
(* at its attr priority in creation order.                                 *)
(***************************************************************************)
Empty == [st |-> [t \in Threads |-> IF t = Main THEN "RUNNING" ELSE "READY"],
          q |-> [l \in Levels |-> <<>>], bitmap |-> 0, count |-> 0,
          rem |-> [t \in Threads |-> 0]]

Created == FoldLeft(LAMBDA S, t : PrioEnqueue(S, t, InitPrio[t]), Empty, CreateOrder)

Init ==
  /\ tstate = Created.st /\ queues = Created.q /\ bitmap = Created.bitmap
  /\ count = Created.count /\ rem = Created.rem
  /\ current = Main
  /\ prio = [t \in Threads |-> IF t = Main THEN Default ELSE InitPrio[t]]
  /\ ticked = TRUE
  /\ calls = 0
  /\ depth = 0 /\ pending = FALSE
  /\ masked = [t \in Threads |-> t # Main]
  /\ started = {Main}

-----------------------------------------------------------------------------
(***************************************************************************)
(* preemption_disable() ... preemption_enable() around a call that does    *)
(* not switch: SIGALRM is blocked, the counter goes up and back down, and  *)
(* SIGALRM is unblocked only if it is back at 0 (where pending is never    *)
(* set, see EntryEnable).  Above 0 the caller is left with SIGALRM blocked. *)
(***************************************************************************)
LibCall(S) ==
  IF Assert(~(S.d = 0 /\ pending), "pending tick at enable")
  THEN [S EXCEPT !.mk[current] = (S.d > 0)]
  ELSE S

\* uthread_setpriority(t, p) by the running thread, p already validated
SetPriority(t, p) ==
  /\ current # Idle /\ calls < MaxCalls
  /\ prio' = [prio EXCEPT ![t] = p]
  /\ Commit(LibCall(UpdatePriority(S0, t, p)))
  /\ calls' = calls + 1
  /\ UNCHANGED <<current, ticked, pending, started>>

\* uthread_setnice(t, n): weight changes, then update_priority at the same level
SetNice(t) ==
  /\ current # Idle /\ calls < MaxCalls
  /\ Commit(LibCall(UpdatePriority(S0, t, prio[t])))
  /\ calls' = calls + 1
  /\ UNCHANGED <<current, prio, ticked, pending, started>>

(***************************************************************************)
(* uthread_exit of a thread nobody joins and nobody detached:             *)
(* preemption_disable(), TERMINATED, ops->remove(self), then               *)
(* scheduler_schedule(), which never returns, so the counter is never      *)
(* brought back down by this thread.                                       *)
(***************************************************************************)
Exit(t) ==
  /\ current = t /\ t \in Exiters
  /\ Schedule(PrioRemove([S0 EXCEPT !.st[t] = "TERMINATED", !.d = @ + 1,
                                    !.mk[t] = TRUE], t, prio[t]), t)
  /\ UNCHANGED <<prio, calls, pending>>

(***************************************************************************)
(* timer_signal_handler, taken when SIGALRM is not blocked: at a non-zero  *)
(* counter it only sets s_preempt_pending; else scheduler_tick             *)
(* (in_scheduler is false and in_critical_section is never set between     *)
(* library calls): on_tick with the time since                             *)
(* current's start_time, then, if should_preempt, mark it READY, enqueue   *)
(* it and schedule.  The timer interval is the slice, so the first tick    *)
(* after a switch measures 1..Slice and any later one at least Slice.      *)
(***************************************************************************)
Tick ==
  /\ current # Idle /\ ~masked[current]
  /\ UNCHANGED <<prio, calls>>
  /\ IF depth > 0
     THEN /\ pending' = TRUE
          /\ UNCHANGED <<current, tstate, queues, bitmap, count, rem, ticked,
                         depth, masked, started>>
     ELSE /\ UNCHANGED pending
          /\ \E e \in IF ticked THEN {Slice} ELSE 1..Slice :
               LET S1 == OnTick(S0, current, e)
               IN  IF ShouldPreempt(S1, current)
                   THEN Schedule(PrioEnqueue([S1 EXCEPT !.st[current] = "READY"],
                                             current, prio[current]), current)
                   ELSE Commit(S1) /\ ticked' = TRUE /\ UNCHANGED <<current, started>>

Next ==
  \/ \E t \in Threads, p \in Levels : SetPriority(t, p)
  \/ \E t \in Threads : SetNice(t)
  \/ \E t \in Threads : Exit(t)
  \/ Tick

(***************************************************************************)
(* The interval timer is periodic (it_interval = it_value), so a SIGALRM   *)
(* that the running thread's mask lets through is delivered: Tick is       *)
(* weakly fair.  Nothing forces a tick while the mask blocks it.           *)
(***************************************************************************)
Spec == Init /\ [][Next]_vars /\ WF_vars(Tick)
-----------------------------------------------------------------------------
TypeOK ==
  /\ current \in Threads \cup {Idle}
  /\ tstate \in [Threads -> States]
  /\ queues \in [Levels -> Seq(Threads)]
  /\ bitmap \in 0..2^NLevels - 1
  /\ count \in 0..Cardinality(Threads)
  /\ prio \in [Threads -> Levels]
  /\ rem \in [Threads -> 0..Slice]
  /\ ticked \in BOOLEAN
  /\ calls \in 0..MaxCalls
  /\ depth \in 0..Cardinality(Exiters) /\ pending \in BOOLEAN
  /\ masked \in [Threads -> BOOLEAN] /\ started \subseteq Threads

Queued(t) == \E l \in Levels : t \in ToSet(queues[l])

Occurrences(t, s) == Cardinality({i \in DOMAIN s : s[i] = t})

(***************************************************************************)
(* The three views of the run queue agree through every enqueue, dequeue,  *)
(* remove and re-bucketing: bit l of the bitmap is set exactly when list l *)
(* is non-empty, count is the number of queued threads, and a thread is    *)
(* queued, once and in the list of its current priority, exactly when it   *)
(* is READY and not running.                                               *)
(***************************************************************************)
QueueIndex ==
  /\ \A l \in Levels : ((bitmap & Bit(l)) # 0) <=> queues[l] # <<>>
  /\ count = Cardinality({t \in Threads : Queued(t)})
  /\ \A t \in Threads, l \in Levels :
       Occurrences(t, queues[l]) =
         IF l = prio[t] /\ tstate[t] = "READY" /\ t # current THEN 1 ELSE 0

(***************************************************************************)
(* Every context switch goes to a thread of the highest non-empty level:   *)
(* whoever scheduler_schedule() switches to has a priority no lower than   *)
(* any thread left in the run queue.                                       *)
(***************************************************************************)
DispatchHighest ==
  [][current' # current /\ current' # Idle =>
       \A t \in Threads : Queued(t)' => prio'[t] <= prio'[current']]_vars

\* t is runnable, not running, and no live thread has a higher priority
Top(t) ==
  /\ tstate[t] = "READY" /\ t # current
  /\ \A u \in Threads : tstate[u] # "TERMINATED" => prio[u] <= prio[t]

(***************************************************************************)
(* Round robin within the top level: a runnable thread of the highest live *)
(* priority gets the CPU, unless it stops being of the highest priority or *)
(* the timer can no longer preempt the running thread (SIGALRM blocked in  *)
(* its mask, or the shared counter left above 0).  It relies on            *)
(* should_preempt's slice test and on enqueue putting the preempted thread *)
(* at the tail with a fresh slice.  Written in []<> form of leads-to.      *)
(***************************************************************************)
Preemptible == current # Idle /\ ~masked[current] /\ depth = 0

TopRuns ==
  \A t \in Threads : []<>(~Top(t) \/ current = t \/ ~Preemptible)
=============================================================================
