--------------------------------- MODULE CFS ---------------------------------
(***************************************************************************)
(* The CFS policy of src/src/sched_cfs.c driven by the scheduler core with *)
(* the SIGALRM timer on, running the program of test_cfs_nice_values:      *)
(* Main creates the workers, each yields Rounds times and returns, and     *)
(* Main joins them in creation order.  The run queue is the red-black      *)
(* tree of RBTree.                                                         *)
(*                                                                         *)
(* Time is counted in units of CFS_MIN_GRANULARITY_NS (1 ms): the timer    *)
(* fires every Interval units, elapsed times and vruntimes are whole       *)
(* units.  A tick measures now - start_time: the first tick after a switch *)
(* lands anywhere in 1..Interval, each later one Interval further.         *)
(* As in Priority, a code path updates a record                            *)
(* S = [st, rb, vr, minv, rem, since, cur] and Commit ends it.             *)
(***************************************************************************)
EXTENDS RBTree

CONSTANTS
  Main,        \* the TCB uthread_init() builds for the caller
  Idle,        \* g_scheduler.idle_thread
  CreateOrder, \* the workers Main creates and then joins, in order
  InitNice,    \* attr nice of each worker
  Rounds,      \* uthread_yield calls each worker makes before returning
  Interval,    \* the timer period, in units
  MaxV         \* bound on vruntime: a tick that would pass it is not taken

Workers == ToSet(CreateOrder)

ASSUME /\ Nodes = Workers \cup {Main} /\ Main \notin Workers
       /\ IsInjective(CreateOrder) /\ Keys = 0..MaxV
       /\ InitNice \in [Workers -> -20..19]
       /\ Rounds \in Nat /\ Interval \in Nat \ {0}

VARIABLES
  current,     \* g_scheduler.current
  tstate,      \* TCB state field
  rb,          \* the run queue, as in RBTree
  vruntime,    \* TCB vruntime
  minv,        \* g_cfs_state.min_vruntime
  rem,         \* TCB timeslice_remaining, in units, or Forever
  since,       \* elapsed time the last tick measured since start_time, 0: none
  left,        \* yields a worker has still to make
  joining      \* index in CreateOrder of the thread Main joins next

vars == <<current, tstate, rb, vruntime, minv, rem, since, left, joining>>

\* a timeslice_remaining of about 2^64 ns, which no tick drains
Forever == -1

\* nice_to_weight: the table of context.c, clamped to -20..19
WeightTable == <<88761, 71755, 56483, 46273, 36291, 29154, 23254, 18705,
  14949, 11916, 9548, 7620, 6100, 4904, 3906, 3121, 2501, 1991, 1586, 1277,
  1024, 820, 655, 526, 423, 335, 272, 215, 172, 137, 110, 87, 70, 56, 45, 36,
  29, 23, 18, 15>>

NiceToWeight(nice) ==
  WeightTable[(IF nice < -20 THEN -20 ELSE IF nice > 19 THEN 19 ELSE nice) + 21]

Weight(t) == IF t = Main THEN 1024 ELSE NiceToWeight(InitNice[t])

-----------------------------------------------------------------------------
(***************************************************************************)
(* The timeslice of cfs_enqueue, as the build computes it:                 *)
(* CFS_TARGET_LATENCY_NS * weight and total_weight are int, so the         *)
(* product wraps to 32 bits (20e6 = 2^8 * 78125; the product is formed     *)
(* from 16-bit halves to stay within TLC's integers), the division         *)
(* truncates towards zero, and a negative quotient converted to uint64 is  *)
(* a slice of nearly 2^64 ns.  A positive one below 1 ms becomes 1 ms.     *)
(***************************************************************************)
LatencyTimes(w) ==
  LET r == (((78125 * (w \div 256)) % 65536) * 256 + 78125 * (w % 256))
             % 16777216
  IN  IF r >= 8388608 THEN (r - 16777216) * 256 ELSE r * 256

CDiv(a, b) == IF a >= 0 THEN a \div b ELSE -((-a) \div b)

SliceUnits(w, count) ==
  LET q == CDiv(LatencyTimes(w), count * 1024)
  IN  IF q < 0 THEN Forever ELSE IF q < 1000000 THEN 1 ELSE q \div 1000000

\* cfs_enqueue: a vruntime of 0 or below min_vruntime is raised to it, the
\* thread is inserted, and its slice is computed from the new count
CfsEnqueue(S, t) ==
  LET v  == IF S.vr[t] = 0 \/ S.vr[t] < S.minv THEN S.minv ELSE S.vr[t]
      vr == [S.vr EXCEPT ![t] = v]
      T  == RbInsert(S.rb, vr, t)
  IN  [S EXCEPT !.vr = vr, !.rb = T, !.rem[t] = SliceUnits(Weight(t), T.n)]

\* cfs_on_tick: charge elapsed, scaled by weight; raise min_vruntime to the
\* thread's vruntime; drain the slice, stopping at 0
OnTick(S, e) ==
  LET t == S.cur
      v == S.vr[t] + (e * 1024) \div Weight(t)
  IN  [S EXCEPT !.vr[t] = v,
                !.minv = IF v > @ THEN v ELSE @,
                !.rem[t] = IF @ = Forever THEN Forever
                           ELSE IF @ > e THEN @ - e ELSE 0]

\* cfs_on_yield: vruntime grows by the time d since start_time, scaled by
\* NICE_0_WEIGHT / weight
OnYield(S, t, d) == [S EXCEPT !.vr[t] = @ + (d * 1024) \div Weight(t)]

\* current->vruntime - leftmost->vruntime > CFS_MIN_GRANULARITY_NS, with
\* the uint64 subtraction: when the leftmost is ahead the difference wraps
\* to 2^64 - (b - a), which exceeds the granularity
Exceeds(a, b) == IF a >= b THEN a - b > 1 ELSE TRUE

\* cfs_should_preempt
ShouldPreempt(S) ==
  LET t == S.cur
  IN  IF S.rem[t] = 0 THEN S.rb.n > 0
      ELSE S.rb.lm # None /\ Exceeds(S.vr[t], S.vr[S.rb.lm])

\* the switch of scheduler_schedule to next, T being the queue after
\* cfs_dequeue
Dispatch(S, next, T) ==
  IF next = S.cur THEN [S EXCEPT !.rb = T]
  ELSE [S EXCEPT !.rb = T,
                 !.st = [@ EXCEPT ![S.cur] = IF @ = "RUNNING" THEN "READY" ELSE @,
                                  ![next] = "RUNNING"],
                 !.cur = next,
                 !.since = IF next = Idle THEN @ ELSE [@ EXCEPT ![next] = 0]]

\* scheduler_schedule: dequeue the leftmost (idle when none); return at
\* once if it is the caller, else a RUNNING caller becomes READY and the
\* next thread runs with a fresh start_time
Schedule(S) ==
  Dispatch(S, IF S.rb.lm # None THEN S.rb.lm ELSE Idle, CfsDequeue(S.rb))

S0 == [st |-> tstate, rb |-> rb, vr |-> vruntime, minv |-> minv, rem |-> rem,
       since |-> since, cur |-> current]

Commit(S) ==
  /\ current' = S.cur /\ tstate' = S.st /\ rb' = S.rb /\ vruntime' = S.vr
  /\ minv' = S.minv /\ rem' = S.rem /\ since' = S.since

-----------------------------------------------------------------------------
\* uthread_init then uthread_create of each worker: Main RUNNING, each
\* worker READY with vruntime 0 and enqueued, min_vruntime 0
Created ==
  FoldLeft(LAMBDA S, t : CfsEnqueue(S, t),
           [st |-> [t \in Nodes \cup {Idle} |-> IF t = Main THEN "RUNNING"
                                                ELSE "READY"],
            rb |-> EmptyTree, vr |-> [t \in Nodes |-> 0], minv |-> 0,
            rem |-> [t \in Nodes |-> 0], since |-> [t \in Nodes |-> 0],
            cur |-> Main],
           CreateOrder)

Init ==
  /\ \E S \in {Created} :
       /\ current = S.cur /\ tstate = S.st /\ rb = S.rb /\ vruntime = S.vr
       /\ minv = S.minv /\ rem = S.rem /\ since = S.since
  /\ left = [t \in Workers |-> Rounds]
  /\ joining = 1

(***************************************************************************)
(* Each intermediate record of an action is bound once with \E S \in {..}  *)
(* rather than passed on as an expression, so that TLC expands the tree    *)
(* operators once per action when it profiles the model.                   *)
(***************************************************************************)

\* scheduler_schedule, then the switch
CommitSchedule(S) == \E S2 \in {Schedule(S)} : Commit(S2)

\* SIGALRM in a worker's own code: scheduler_tick charges now - start_time
\* to it and, when cfs_should_preempt says so, marks it READY, enqueues it
\* and calls scheduler_schedule
Tick ==
  /\ current \in Workers
  /\ \E e \in IF since[current] = 0 THEN 1..Interval
              ELSE {since[current] + Interval} :
       \E S1 \in {[OnTick(S0, e) EXCEPT !.since[current] = e]} :
         /\ S1.vr[current] <= MaxV
         /\ IF ShouldPreempt(S1)
            THEN \E S2 \in {CfsEnqueue([S1 EXCEPT !.st[current] = "READY"],
                                       current)} :
                   CommitSchedule(S2)
            ELSE Commit(S1)
  /\ UNCHANGED <<left, joining>>

\* uthread_yield: cfs_on_yield charges the time since start_time (at least
\* what the last tick measured, less than a period more); scheduler_yield
\* enqueues the caller only if it is RUNNING, then schedules
Yield(t) ==
  /\ current = t /\ t \in Workers /\ left[t] > 0
  /\ \E d \in since[t]..since[t] + Interval - 1 :
       \E S1 \in {OnYield(S0, t, d)} :
         /\ S1.vr[t] <= MaxV
         /\ IF S1.st[t] = "RUNNING"
            THEN \E S2 \in {CfsEnqueue([S1 EXCEPT !.st[t] = "READY"], t)} :
                   CommitSchedule(S2)
            ELSE CommitSchedule(S1)
  /\ left' = [left EXCEPT ![t] = @ - 1]
  /\ UNCHANGED joining

\* the worker returns: uthread_exit marks it TERMINATED, calls cfs_remove,
\* makes a joining Main READY and enqueues it, and schedules
Exit(t) ==
  /\ current = t /\ t \in Workers /\ left[t] = 0
  /\ \E S1 \in {[S0 EXCEPT !.st[t] = "TERMINATED", !.rb = CfsRemove(@, S0.vr, t)]} :
       IF tstate[Main] = "BLOCKED" /\ CreateOrder[joining] = t
       THEN \E S2 \in {CfsEnqueue([S1 EXCEPT !.st[Main] = "READY"], Main)} :
              CommitSchedule(S2)
       ELSE CommitSchedule(S1)
  /\ UNCHANGED <<left, joining>>

\* uthread_join of the next worker: reap it if it has exited, else block
\* as its joiner and schedule; Main returns after the last join
Join ==
  /\ current = Main /\ joining <= Len(CreateOrder)
  /\ IF tstate[CreateOrder[joining]] = "TERMINATED"
     THEN /\ joining' = joining + 1
          /\ UNCHANGED <<current, tstate, rb, vruntime, minv, rem, since>>
     ELSE /\ CommitSchedule([S0 EXCEPT !.st[Main] = "BLOCKED"])
          /\ UNCHANGED joining
  /\ UNCHANGED left

Next == Tick \/ Join \/ \E t \in Workers : Yield(t) \/ Exit(t)

Spec == Init /\ [][Next]_vars

-----------------------------------------------------------------------------
\* A READY thread that is not running is in the run queue, so some
\* schedule will dequeue it (spec section 4.4: yield marks the caller READY
\* and enqueues it).  The tick path of scheduler_tick can leave the current
\* worker READY without a switch, and its next yield then drops it.
NoLostThread ==
  \A t \in Nodes : tstate[t] = "READY" /\ t # current => t \in Range(InOrder(rb))
====
