------------------------------ MODULE CoopSched ------------------------------
(***************************************************************************)
(* The scheduler core of LibUThread with the round-robin policy when       *)
(* preemption is off (src/src/scheduler.c, sched_rr.c): threads switch     *)
(* only when they call into the library, so a library call runs to its     *)
(* schedule() call as one step.  The primitives built on wait queues       *)
(* (Semaphore, RWLock, Lifecycle) extend this module.  Preemption itself   *)
(* is the subject of UThread.                                              *)
(*                                                                         *)
(* As in UThread, a code path is a chain of updates of a record            *)
(* S = [st, rq, wq, bq] that Stay or Sched commits at its end.             *)
(***************************************************************************)
EXTENDS Integers, Sequences, SequencesExt, FiniteSets

CONSTANTS
  Threads,   \* user TCBs
  Main,      \* the TCB uthread_init() builds for the caller
  Idle,      \* g_scheduler.idle_thread: its ucontext is never initialised
  None,      \* NULL
  Queues     \* the wait queues of the primitives in use

VARIABLES
  current,   \* g_scheduler.current
  tstate,    \* TCB state field
  runq,      \* g_rr_state FIFO
  wq,        \* wait queue contents
  bq,        \* TCB blocked_queue field
  pc         \* where the code of each thread continues

schedVars == <<current, tstate, runq, wq, bq, pc>>

States == {"READY", "RUNNING", "BLOCKED", "TERMINATED"}

SchedTypeOK ==
  /\ current \in Threads \cup {Idle}
  /\ tstate \in [Threads -> States]
  /\ runq \in Seq(Threads)
  /\ wq \in [Queues -> Seq(Threads)]
  /\ bq \in [Threads -> Queues \cup {None}]

(***************************************************************************)
(* After uthread_init() and the uthread_create() calls of Main: Main runs  *)
(* and the threads it created wait in the run queue in creation order.     *)
(***************************************************************************)
SchedInit ==
  /\ current = Main
  /\ tstate = [t \in Threads |-> IF t = Main THEN "RUNNING" ELSE "READY"]
  /\ runq \in {s \in [1..Cardinality(Threads) - 1 -> Threads \ {Main}] :
                 ToSet(s) = Threads \ {Main}}
  /\ wq = [q \in Queues |-> <<>>]
  /\ bq = [t \in Threads |-> None]

\* a thread's code runs only while it is current
At(t, l) == current = t /\ pc[t] = l

S0 == [st |-> tstate, rq |-> runq, wq |-> wq, bq |-> bq]

\* rr_enqueue: append at the tail
Enqueue(S, t) == [S EXCEPT !.rq = Append(@, t)]

\* scheduler_unblock
Unblock(S, t) == Enqueue([S EXCEPT !.st[t] = "READY"], t)

\* wait_queue_add: append, record blocked_queue
WaitAdd(S, q, t) == [S EXCEPT !.wq[q] = Append(@, t), !.bq[t] = q]

\* the blocking prologue of every primitive: state = BLOCKED, then wait_queue_add
Block(S, t, q) == WaitAdd([S EXCEPT !.st[t] = "BLOCKED"], q, t)

\* mutant: the woken thread is unblocked but left in the wait queue
WakeOneNoRemove(S, q) ==
  IF S.wq[q] = <<>> THEN S
  ELSE LET w == Head(S.wq[q]) IN Unblock(S, w)

\* wait_queue_wake_one: wait_queue_remove the head, clear its blocked_queue, unblock it
WakeOne(S, q) ==
  IF S.wq[q] = <<>> THEN S
  ELSE LET w == Head(S.wq[q])
       IN  Unblock([S EXCEPT !.wq[q] = Tail(@), !.bq[w] = None], w)

\* wait_queue_wake_all: wake_one until the queue is empty, in FIFO order
WakeAll(S, q) ==
  LET ws == ToSet(S.wq[q]) IN
  [S EXCEPT !.wq[q] = <<>>,
            !.rq = @ \o S.wq[q],
            !.st = [x \in Threads |-> IF x \in ws THEN "READY" ELSE @[x]],
            !.bq = [x \in Threads |-> IF x \in ws THEN None ELSE @[x]]]

\* wait_queue_remove_specific: unlink t if its blocked_queue is q
RemoveSpecific(S, q, t) ==
  IF S.bq[t] # q THEN S
  ELSE [S EXCEPT !.wq[q] = RemoveFirst(@, t), !.bq[t] = None]

\* rr_remove: unlink t from the run queue if it is there
RrRemove(S, t) ==
  IF t \in ToSet(S.rq) THEN [S EXCEPT !.rq = RemoveFirst(@, t)]
  ELSE S

\* Commit S; thread t continues at cont without a switch.
Stay(S, t, cont) ==
  /\ tstate' = S.st /\ runq' = S.rq /\ wq' = S.wq /\ bq' = S.bq
  /\ pc' = [pc EXCEPT ![t] = cont]
  /\ UNCHANGED current

(***************************************************************************)
(* scheduler_schedule() called by t with S committed: rr_dequeue the head  *)
(* or take the idle TCB, return at once if that is t, else mark t READY if *)
(* it was RUNNING, the next one RUNNING, and switch.  t continues at cont  *)
(* when it is next switched to.                                            *)
(***************************************************************************)
Sched(S, t, cont) ==
  LET nxt == IF S.rq = <<>> THEN Idle ELSE Head(S.rq)
      rq2 == IF S.rq = <<>> THEN S.rq ELSE Tail(S.rq)
  IN  IF nxt = t
      THEN Stay([S EXCEPT !.rq = rq2], t, cont)
      ELSE /\ tstate' = [x \in Threads |->
                           IF x = nxt THEN "RUNNING"
                           ELSE IF x = t /\ S.st[x] = "RUNNING" THEN "READY"
                           ELSE S.st[x]]
           /\ runq' = rq2 /\ wq' = S.wq /\ bq' = S.bq
           /\ current' = nxt
           /\ pc' = [pc EXCEPT ![t] = cont]

\* scheduler_yield: re-enqueue t if RUNNING, then schedule()
YieldSched(S, t, cont) ==
  Sched(IF S.st[t] = "RUNNING" THEN Enqueue([S EXCEPT !.st[t] = "READY"], t) ELSE S,
        t, cont)

\* scheduler_block: BLOCKED, wait_queue_add, schedule()
BlockSched(S, t, q, cont) == Sched(Block(S, t, q), t, cont)

(***************************************************************************)
(* Where a thread is: a READY thread other than the current one is in the  *)
(* run queue exactly once; a BLOCKED thread is in exactly one wait queue,  *)
(* the one its blocked_queue names; a RUNNING thread is the current one.   *)
(* The current thread may be READY: scheduler_yield() marks it READY and   *)
(* schedule() returns without a switch when it dequeues the caller.        *)
(* Once the idle TCB is switched to, the process has crashed (its context  *)
(* is all zeros) and nothing is claimed.                                   *)
(***************************************************************************)
Occurrences(t, s) == Cardinality({i \in DOMAIN s : s[i] = t})

Crashed == current = Idle

SchedPlacement ==
  ~Crashed =>
  \A t \in Threads :
    /\ Occurrences(t, runq) = IF tstate[t] = "READY" /\ t # current THEN 1 ELSE 0
    /\ \A q \in Queues :
         Occurrences(t, wq[q]) = IF tstate[t] = "BLOCKED" /\ bq[t] = q THEN 1 ELSE 0
    /\ tstate[t] = "BLOCKED" => bq[t] # None
    /\ tstate[t] = "RUNNING" => t = current
=============================================================================
