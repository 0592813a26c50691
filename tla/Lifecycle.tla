------------------------------ MODULE Lifecycle ------------------------------
(***************************************************************************)
(* Thread lifecycle of src/src/uthread.c on the cooperative scheduler of   *)
(* CoopSched: uthread_create, uthread_join, uthread_detach, uthread_exit   *)
(* (reached when the start routine returns, context_entry_wrapper) and     *)
(* uthread_shutdown, with the fixed-size registry of scheduler.c.          *)
(*                                                                         *)
(* TCBs of Pool are the memory calloc may hand out: a TCB is alive from    *)
(* thread_alloc to thread_free, and create returns ENOMEM when none is     *)
(* free.  The program is Main's loop: create a thread (arg chosen from     *)
(* Vals, which its start routine returns), join or detach a handle it      *)
(* keeps, and when its MaxCreates creations are done and no handle is left *)
(* return through uthread_shutdown.  Main keeps its handles in a global    *)
(* array; with Share, the children may join them too.  The program never   *)
(* yields from Main, so the scheduler_yield defect (run cfs_lost)         *)
(* is kept out of these runs.                                              *)
(*                                                                         *)
(* A step that dereferences a freed TCB, or that runs on a stack that      *)
(* thread_free has unmapped, sets fault to "uaf"; the UTHREAD_ASSERT of    *)
(* scheduler_add_thread sets it to "abort".  Either ends the process.      *)
(***************************************************************************)
EXTENDS Integers, FiniteSets, CoopSched

CONSTANTS
  Pool,          \* the TCBs of the created threads
  Vals,          \* start-routine arguments, returned as exit values
  MaxSlots,      \* UTHREAD_MAX_THREADS, the registry size
  MaxCreates,    \* number of uthread_create calls in Main's loop
  DetachModes,   \* attr detach states Main creates with (TRUE = DETACHED)
  UseDetach,     \* Main calls uthread_detach on its handles
  Share          \* the children join handles of Main's array

ASSUME Threads = {Main} \cup Pool /\ Main \notin Pool /\ Queues = {}
ASSUME DetachModes \subseteq BOOLEAN /\ DetachModes # {}

\* an entry of the program's handle array: the uthread_t and the arg it was created with
Entries == Pool \X Vals

VARIABLES
  alive,         \* allocated by thread_alloc and not yet thread_free'd
  reg,           \* g_scheduler.all_threads
  exited,        \* TCB exited field
  detached,      \* TCB detached field
  joiner,        \* TCB joiner field
  waiting_on,    \* TCB waiting_on field
  retval,        \* TCB retval field
  arg,           \* TCB arg field
  joining,       \* the thread a uthread_join in progress waits for, with its entry
  handles,       \* the program's array of uthread_t, with the arg of each
  created,       \* uthread_create calls made by Main
  fault          \* "none", or how the process died

lcVars == <<alive, reg, exited, detached, joiner, waiting_on, retval, arg,
            joining, handles, created, fault>>
vars == <<schedVars, lcVars>>

Init ==
  /\ current = Main
  /\ tstate = [t \in Threads |-> IF t = Main THEN "RUNNING" ELSE "TERMINATED"]
  /\ runq = <<>> /\ wq = [q \in Queues |-> <<>>] /\ bq = [t \in Threads |-> None]
  /\ pc = [t \in Threads |-> IF t = Main THEN "user" ELSE "done"]
  /\ alive = [t \in Pool |-> FALSE]
  /\ reg = {Main}
  /\ exited = [t \in Pool |-> FALSE]
  /\ detached = [t \in Pool |-> FALSE]
  /\ joiner = [t \in Pool |-> None]
  /\ waiting_on = [t \in Threads |-> None]
  /\ retval = [t \in Pool |-> None]
  /\ arg = [t \in Pool |-> CHOOSE v \in Vals : TRUE]
  /\ joining = [t \in Threads |-> None]
  /\ handles = {}
  /\ created = 0
  /\ fault = "none"

Running == fault = "none"

\* thread_alloc: calloc hands out a TCB that is not in use
Alloc == {t \in Pool : ~alive[t]}

\* scheduler_add_thread finds no free slot
RegistryFull == Cardinality(reg) = MaxSlots

\* scheduler_remove_thread
Unregister(t) == reg' = reg \ {t}

\* thread_free: the stack is unmapped and the TCB freed
Free(t) == alive' = [alive EXCEPT ![t] = FALSE]

\* the cleanup of join, detach and a detached exit
Reap(t) == Unregister(t) /\ Free(t)

-----------------------------------------------------------------------------
(***************************************************************************)
(* uthread_create(&h, attr, routine, v) by Main.  ENOMEM when thread_alloc *)
(* or thread_setup_stack fails; the unwinding leaves nothing behind.       *)
(* Otherwise the calloc'd TCB is set up READY, scheduler_add_thread takes  *)
(* a registry slot, or aborts when all are used, and rr_enqueue appends.   *)
(***************************************************************************)
CreateNoMem ==
  /\ At(Main, "user") /\ Running /\ created < MaxCreates
  /\ created' = created + 1
  /\ UNCHANGED <<schedVars, alive, reg, exited, detached, joiner, waiting_on,
                 retval, arg, joining, handles, fault>>

(***************************************************************************)
(* thread_alloc, the setup of uthread_create, scheduler_add_thread and     *)
(* rr_enqueue for a new TCB t.                                             *)
(***************************************************************************)
Spawn(t, d, v) ==
  /\ alive' = [alive EXCEPT ![t] = TRUE]
  /\ exited' = [exited EXCEPT ![t] = FALSE]
  /\ detached' = [detached EXCEPT ![t] = d]
  /\ joiner' = [joiner EXCEPT ![t] = None]
  /\ retval' = [retval EXCEPT ![t] = None]
  /\ arg' = [arg EXCEPT ![t] = v]
  /\ reg' = reg \cup {t}
  /\ tstate' = [tstate EXCEPT ![t] = "READY"]
  /\ runq' = Append(runq, t)
  /\ pc' = [pc EXCEPT ![t] = "start"]
  /\ handles' = handles \cup {<<t, v>>}
  /\ UNCHANGED <<current, wq, bq, waiting_on, joining, fault>>

\* mutant: scheduler_add_thread takes a slot past the last one
CreateNoSlotCheck(d, v) ==
  /\ At(Main, "user") /\ Running /\ created < MaxCreates /\ Alloc # {}
  /\ created' = created + 1
  /\ \E t \in Alloc : Spawn(t, d, v)

Create(d, v) ==
  /\ At(Main, "user") /\ Running /\ created < MaxCreates /\ Alloc # {}
  /\ created' = created + 1
  /\ \E t \in Alloc :
       IF RegistryFull
       THEN /\ fault' = "abort"
            /\ UNCHANGED <<schedVars, alive, reg, exited, detached, joiner,
                           waiting_on, retval, arg, joining, handles>>
       ELSE Spawn(t, d, v)

\* where a thread's code continues when its uthread_join returns
After(u) == IF u = Main THEN "user" ELSE "end"

\* the program is done with entry e once Main's call on it returns
Consume(u, e) == handles' = IF u = Main THEN handles \ {e} ELSE handles

\* a call that reads a freed TCB: the process is undefined from here on
UseFreed ==
  /\ fault' = "uaf"
  /\ UNCHANGED <<schedVars, alive, reg, exited, detached, joiner, waiting_on,
                 retval, arg, joining, handles, created>>

\* mutant: the joiner blocks without recording itself in t->joiner
JoinBlockNoJoiner(u, e) ==
  LET h == e[1] IN
  /\ waiting_on' = [waiting_on EXCEPT ![u] = h]
  /\ joining' = [joining EXCEPT ![u] = e]
  /\ Sched([S0 EXCEPT !.st[u] = "BLOCKED"], u, "join_resume")
  /\ UNCHANGED <<alive, reg, exited, detached, joiner, retval, arg,
                 handles, created, fault>>

(***************************************************************************)
(* The while (!t->exited) loop of uthread_join by u on entry e = <<t, v>>: *)
(* once t has exited, take t->retval, scheduler_remove_thread and          *)
(* thread_free it; otherwise set t->joiner, self->waiting_on, BLOCKED and  *)
(* schedule, to come back here when uthread_exit of t wakes u.             *)
(***************************************************************************)
JoinLoop(u, e) ==
  LET h == e[1] IN
  IF exited[h]
  THEN /\ Reap(h)
       /\ joining' = [joining EXCEPT ![u] = None]
       /\ Consume(u, e)
       /\ Stay(S0, u, After(u))
       /\ UNCHANGED <<exited, detached, joiner, waiting_on, retval, arg, created, fault>>
  ELSE /\ joiner' = [joiner EXCEPT ![h] = u]
       /\ waiting_on' = [waiting_on EXCEPT ![u] = h]
       /\ joining' = [joining EXCEPT ![u] = e]
       /\ Sched([S0 EXCEPT !.st[u] = "BLOCKED"], u, "join_resume")
       /\ UNCHANGED <<alive, reg, exited, detached, retval, arg,
                      handles, created, fault>>

(***************************************************************************)
(* uthread_join(t) by u: EDEADLK on self, EINVAL if t is detached or has   *)
(* another joiner, else the wait loop.  Every test reads the TCB t.        *)
(***************************************************************************)
Join(u, e) ==
  LET h == e[1] IN
  IF ~alive[h] THEN UseFreed
  ELSE IF h = u \/ detached[h] \/ joiner[h] \notin {None, u}
  THEN /\ Consume(u, e)
       /\ Stay(S0, u, After(u))
       /\ UNCHANGED <<alive, reg, exited, detached, joiner, waiting_on, retval,
                      arg, joining, created, fault>>
  ELSE JoinLoop(u, e)

MainJoin(e) ==
  /\ At(Main, "user") /\ Running /\ e \in handles
  /\ Join(Main, e)

\* a child's start routine joins a thread of the global array
ChildJoin(t, e) ==
  /\ Share /\ At(t, "start") /\ Running /\ e \in handles
  /\ Join(t, e)

\* back from schedule() in the loop: test t->exited again
JoinResume(u) ==
  /\ At(u, "join_resume") /\ Running
  /\ IF ~alive[joining[u][1]] THEN UseFreed ELSE JoinLoop(u, joining[u])

\* mutant: detach marks an exited thread detached but does not free it
DetachNoFree(e) ==
  LET h == e[1] IN
  /\ UseDetach /\ At(Main, "user") /\ Running /\ e \in handles
  /\ IF ~alive[h] THEN UseFreed
     ELSE /\ Consume(Main, e)
          /\ IF detached[h] \/ joiner[h] # None
             THEN UNCHANGED <<alive, reg, detached>>
             ELSE /\ detached' = [detached EXCEPT ![h] = TRUE]
                  /\ UNCHANGED <<alive, reg>>
          /\ UNCHANGED <<schedVars, exited, joiner, waiting_on, retval, arg,
                         joining, created, fault>>

(***************************************************************************)
(* uthread_detach(t) by Main: EINVAL if t is detached or has a joiner;     *)
(* else mark it detached and, if it has already exited, remove and free    *)
(* it.                                                                     *)
(***************************************************************************)
Detach(e) ==
  LET h == e[1] IN
  /\ UseDetach /\ At(Main, "user") /\ Running /\ e \in handles
  /\ IF ~alive[h] THEN UseFreed
     ELSE /\ Consume(Main, e)
          /\ IF detached[h] \/ joiner[h] # None
             THEN UNCHANGED <<alive, reg, detached>>
             ELSE /\ detached' = [detached EXCEPT ![h] = TRUE]
                  /\ IF exited[h] THEN Reap(h) ELSE UNCHANGED <<alive, reg>>
          /\ UNCHANGED <<schedVars, exited, joiner, waiting_on, retval, arg,
                         joining, created, fault>>

\* a child's start routine calls uthread_yield once
ChildYield(t) ==
  /\ At(t, "start") /\ Running
  /\ YieldSched(S0, t, "end")
  /\ UNCHANGED lcVars

\* mutant: exit leaves its joiner blocked
ExitNoWake(t) ==
  LET S1 == RrRemove([S0 EXCEPT !.st[t] = "TERMINATED"], t) IN
  /\ (At(t, "start") \/ At(t, "end")) /\ Running
  /\ exited' = [exited EXCEPT ![t] = TRUE]
  /\ retval' = [retval EXCEPT ![t] = arg[t]]
  /\ IF detached[t]
     THEN /\ Reap(t)
          /\ fault' = "uaf"
          /\ Stay(S1, t, "done")
     ELSE /\ UNCHANGED <<reg, alive, fault>>
          /\ Sched(S1, t, "done")
  /\ UNCHANGED <<detached, joiner, waiting_on, arg, joining, handles, created>>

(***************************************************************************)
(* The start routine of t returns arg, and context_entry_wrapper calls     *)
(* uthread_exit: store retval, exited, TERMINATED, rr_remove, make the     *)
(* joiner READY and enqueue it, then schedule.  A detached thread first    *)
(* removes and frees itself: thread_free unmaps the stack this code runs   *)
(* on and frees the TCB scheduler_schedule reads and saves into.           *)
(***************************************************************************)
Exit(t) ==
  LET j  == joiner[t]
      S1 == RrRemove([S0 EXCEPT !.st[t] = "TERMINATED"], t)
      S2 == IF j # None THEN Unblock(S1, j) ELSE S1
  IN
  /\ (At(t, "start") \/ At(t, "end")) /\ Running
  /\ exited' = [exited EXCEPT ![t] = TRUE]
  /\ retval' = [retval EXCEPT ![t] = arg[t]]
  /\ waiting_on' = IF j # None THEN [waiting_on EXCEPT ![j] = None] ELSE waiting_on
  /\ IF detached[t]
     THEN /\ Reap(t)
          /\ fault' = "uaf"
          /\ Stay(S2, t, "done")
     ELSE /\ UNCHANGED <<reg, alive, fault>>
          /\ Sched(S2, t, "done")
  /\ UNCHANGED <<detached, joiner, arg, joining, handles, created>>

(***************************************************************************)
(* Main returns from its loop with every handle consumed and calls         *)
(* uthread_shutdown, which frees every registered TCB; the process ends.   *)
(***************************************************************************)
Shutdown ==
  /\ At(Main, "user") /\ Running /\ created = MaxCreates /\ handles = {}
  /\ alive' = [t \in Pool |-> alive[t] /\ t \notin reg]
  /\ reg' = {}
  /\ pc' = [pc EXCEPT ![Main] = "done"]
  /\ UNCHANGED <<current, tstate, runq, wq, bq, exited, detached, joiner,
                 waiting_on, retval, arg, joining, handles, created, fault>>

Next ==
  \/ CreateNoMem
  \/ \E d \in DetachModes, v \in Vals : Create(d, v)
  \/ \E e \in Entries : MainJoin(e)
  \/ \E t \in Pool, e \in Entries : ChildJoin(t, e)
  \/ \E u \in Threads : JoinResume(u)
  \/ \E e \in Entries : Detach(e)
  \/ \E t \in Pool : ChildYield(t)
  \/ \E t \in Pool : Exit(t)
  \/ Shutdown

\* Only the current thread has steps, and the CPU never stops running it.
Spec == Init /\ [][Next]_vars /\ WF_vars(Next)

-----------------------------------------------------------------------------
TypeOK ==
  /\ SchedTypeOK
  /\ pc \in [Threads -> {"user", "start", "end", "join_resume", "done"}]
  /\ alive \in [Pool -> BOOLEAN] /\ exited \in [Pool -> BOOLEAN]
  /\ detached \in [Pool -> BOOLEAN]
  /\ reg \subseteq Threads /\ Cardinality(reg) \in 0..MaxSlots
  /\ joiner \in [Pool -> Threads \cup {None}]
  /\ waiting_on \in [Threads -> Pool \cup {None}]
  /\ retval \in [Pool -> Vals \cup {None}] /\ arg \in [Pool -> Vals]
  /\ joining \in [Threads -> Entries \cup {None}]
  /\ handles \subseteq Entries /\ created \in 0..MaxCreates
  /\ fault \in {"none", "uaf", "abort"}

(***************************************************************************)
(* A thread blocked in uthread_join is the recorded joiner of a live       *)
(* thread that has not exited, and waiting_on names it: the uthread_exit   *)
(* of that thread is what makes the joiner READY again.                    *)
(***************************************************************************)
JoinLinks ==
  \A u \in Threads :
    pc[u] = "join_resume" /\ tstate[u] = "BLOCKED" =>
      LET h == joining[u][1] IN
      alive[h] /\ ~exited[h] /\ joiner[h] = u /\ waiting_on[u] = h

(***************************************************************************)
(* No zombie is orphaned: a TCB that has exited but is not yet freed is    *)
(* joinable, and either the program still holds its handle or a joiner is  *)
(* already waiting for it.  Otherwise uthread_join, uthread_detach and     *)
(* uthread_exit have leaked it until uthread_shutdown.                     *)
(***************************************************************************)
NoOrphanZombie ==
  \A t \in Pool :
    alive[t] /\ exited[t] =>
      /\ ~detached[t]
      /\ (\E v \in Vals : <<t, v>> \in handles) \/ joiner[t] # None

(***************************************************************************)
(* The program ends: unless a fault has killed the process, every join     *)
(* Main makes returns and Main reaches uthread_shutdown.  uthread_exit of  *)
(* the joined thread is the only thing that wakes a joiner.                *)
(***************************************************************************)
ProgramTerminates == <>(pc[Main] = "done" \/ fault # "none")

(***************************************************************************)
(* No operation touches a freed TCB or runs on a freed stack: the spec     *)
(* frees a detached thread once it has TERMINATED, and has joining an      *)
(* already joined thread return EINVAL.                                    *)
(***************************************************************************)
NoUseAfterFree == fault # "uaf"

====
