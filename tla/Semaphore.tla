------------------------------ MODULE Semaphore ------------------------------
(***************************************************************************)
(* The counting semaphore of src/src/semaphore.c on the cooperative        *)
(* scheduler of CoopSched, with a monotonic clock for sem_timedwait.  Each *)
(* thread's user code is a loop that calls one operation of OpsOf[t] per   *)
(* iteration.  With preemption off, preemption_disable()/enable() only     *)
(* count and never switch, so they are left out.                           *)
(***************************************************************************)
EXTENDS Integers, CoopSched

CONSTANTS
  Sem,        \* the one semaphore; its waiters queue is wq[Sem]
  InitValue,  \* value given to uthread_sem_init
  OpsOf,      \* [Threads -> SUBSET Ops]: the calls each thread's loop makes
  MaxValue,   \* bound on sem->value (an int; posts beyond it are not taken)
  MaxTime     \* bound on the clock

Ops == {"wait", "trywait", "timedwait", "post", "yield"}

ASSUME Queues = {Sem} /\ OpsOf \in [Threads -> SUBSET Ops]
ASSUME InitValue \in 0..MaxValue /\ MaxTime \in Nat

VARIABLES
  value,      \* sem->value
  now,        \* get_time_ns()
  deadline    \* deadline of a sem_timedwait in progress

vars == <<schedVars, value, now, deadline>>

\* pc values: "user" between calls, and the resume points after schedule()
Resume == {"wait_resume", "timed_resume"}

Init ==
  /\ SchedInit
  /\ pc = [t \in Threads |-> "user"]
  /\ value = InitValue
  /\ now = 0
  /\ deadline = [t \in Threads |-> 0]

-----------------------------------------------------------------------------
(***************************************************************************)
(* The wait loop of uthread_sem_wait, entered at the call and re-entered   *)
(* after every schedule(): take a unit if value > 0, else block on the     *)
(* waiters queue and schedule.                                             *)
(***************************************************************************)
WaitLoop(S, t) ==
  IF value > 0
  THEN value' = value - 1 /\ Stay(S, t, "user")
  ELSE UNCHANGED value /\ BlockSched(S, t, Sem, "wait_resume")

SemWait(t) ==
  /\ At(t, "user") /\ "wait" \in OpsOf[t]
  /\ WaitLoop(S0, t)
  /\ UNCHANGED <<now, deadline>>

SemWaitResume(t) ==
  /\ At(t, "wait_resume")
  /\ WaitLoop(S0, t)
  /\ UNCHANGED <<now, deadline>>

\* mutant: trywait decrements without testing value > 0
SemTryWaitNoCheck(t) ==
  /\ At(t, "user") /\ "trywait" \in OpsOf[t]
  /\ value' = value - 1
  /\ Stay(S0, t, "user")
  /\ UNCHANGED <<now, deadline>>

\* uthread_sem_trywait: take a unit or return EAGAIN
SemTryWait(t) ==
  /\ At(t, "user") /\ "trywait" \in OpsOf[t]
  /\ value' = IF value > 0 THEN value - 1 ELSE value
  /\ Stay(S0, t, "user")
  /\ UNCHANGED <<now, deadline>>

\* mutant: the timed wait queues itself without setting state = BLOCKED
TimedLoopNoBlockState(S, t, d) ==
  IF value > 0
  THEN value' = value - 1 /\ Stay(S, t, "user")
  ELSE UNCHANGED value /\
       IF now >= d THEN Stay(S, t, "user")
       ELSE Sched(WaitAdd(S, Sem, t), t, "timed_resume")

(***************************************************************************)
(* The loop of uthread_sem_timedwait for deadline d: take a unit if value  *)
(* > 0; else return ETIMEDOUT if now >= d; else block and schedule.        *)
(***************************************************************************)
TimedLoop(S, t, d) ==
  IF value > 0
  THEN value' = value - 1 /\ Stay(S, t, "user")
  ELSE UNCHANGED value /\
       IF now >= d THEN Stay(S, t, "user")
       ELSE BlockSched(S, t, Sem, "timed_resume")

\* the caller's abstime is at most MaxTime
SemTimedWait(t) ==
  /\ At(t, "user") /\ "timedwait" \in OpsOf[t]
  /\ \E d \in 0..MaxTime :
       /\ deadline' = [deadline EXCEPT ![t] = d]
       /\ TimedLoop(S0, t, d)
  /\ UNCHANGED now

(***************************************************************************)
(* After schedule() returns in uthread_sem_timedwait: if the deadline has  *)
(* passed, unlink self if still queued and return ETIMEDOUT without taking *)
(* a unit; otherwise go round the loop again.                              *)
(***************************************************************************)
SemTimedWaitResume(t) ==
  /\ At(t, "timed_resume")
  /\ IF now >= deadline[t]
     THEN /\ UNCHANGED value
          /\ Stay(RemoveSpecific(S0, Sem, t), t, "user")
     ELSE TimedLoop(S0, t, deadline[t])
  /\ UNCHANGED <<now, deadline>>

\* uthread_sem_post: value++, wake one waiter if any
SemPost(t) ==
  /\ At(t, "user") /\ "post" \in OpsOf[t]
  /\ value < MaxValue
  /\ value' = value + 1
  /\ Stay(WakeOne(S0, Sem), t, "user")
  /\ UNCHANGED <<now, deadline>>

\* uthread_yield between calls
UserYield(t) ==
  /\ At(t, "user") /\ "yield" \in OpsOf[t]
  /\ YieldSched(S0, t, "user")
  /\ UNCHANGED <<value, now, deadline>>

\* the monotonic clock advances
Tick ==
  /\ now < MaxTime
  /\ now' = now + 1
  /\ UNCHANGED <<schedVars, value, deadline>>

Next ==
  \/ \E t \in Threads : SemWait(t)
  \/ \E t \in Threads : SemWaitResume(t)
  \/ \E t \in Threads : SemTryWait(t)
  \/ \E t \in Threads : SemTimedWait(t)
  \/ \E t \in Threads : SemTimedWaitResume(t)
  \/ \E t \in Threads : SemPost(t)
  \/ \E t \in Threads : UserYield(t)
  \/ Tick

\* The running thread is never stopped for ever, and time passes.
Fairness == WF_vars(Next) /\ WF_vars(Tick)

Spec == Init /\ [][Next]_vars /\ Fairness

-----------------------------------------------------------------------------
TypeOK ==
  /\ SchedTypeOK
  /\ pc \in [Threads -> {"user"} \cup Resume]
  /\ value \in 0..MaxValue
  /\ now \in 0..MaxTime
  /\ deadline \in [Threads -> 0..MaxTime]

\* woken by a post and not yet back at the loop test
Woken(t) == pc[t] \in Resume /\ tstate[t] # "BLOCKED"

(***************************************************************************)
(* No stranded waiter: while sem->value is positive and a thread sits in   *)
(* the waiters queue, some woken waiter is on its way back to the loop     *)
(* test and will take the unit.  uthread_sem_post wakes one waiter per     *)
(* unit; a woken waiter that leaves without the unit must pass it on.      *)
(***************************************************************************)
NoStrandedWaiter ==
  value > 0 /\ wq[Sem] # <<>> => \E t \in Threads : Woken(t)

(***************************************************************************)
(* A sem_timedwait returns: a thread blocked in uthread_sem_timedwait      *)
(* leaves it, by a unit or by ETIMEDOUT, since the deadline passes and     *)
(* "timed waits poll the monotonic clock at each wait-loop iteration".     *)
(***************************************************************************)
TimedWaitReturns ==
  \A t \in Threads : pc[t] = "timed_resume" ~> pc[t] = "user"
=============================================================================
