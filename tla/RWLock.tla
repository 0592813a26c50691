------------------------------- MODULE RWLock -------------------------------
(***************************************************************************)
(* The writer-preferring read/write lock of src/src/rwlock.c on the        *)
(* cooperative scheduler of CoopSched.  The user program is the loop of    *)
(* tests/classic/readers_writers.c: acquire, yield while holding, unlock,  *)
(* yield; writers make Rounds iterations and exit, readers read for        *)
(* ever.  Threads in neither Readers nor Writers poll with uthread_yield,  *)
(* as a joining main thread does.  `holds` is the user program's own       *)
(* knowledge of what it acquired; the library keeps no such record for     *)
(* readers.                                                                *)
(***************************************************************************)
EXTENDS Integers, CoopSched

CONSTANTS
  ReadQ,      \* rwlock->read_waiters
  WriteQ,     \* rwlock->write_waiters
  Readers,    \* threads running the reader loop
  Writers,    \* threads running the writer loop
  UseTry,     \* the loops may call tryrdlock / trywrlock instead
  MaxNaps,    \* bound on the yields of one uthread_sleep() while holding
  Rounds      \* iterations of a writer's loop (WRITES_PER_WRITER)

ASSUME Queues = {ReadQ, WriteQ} /\ Readers \cap Writers = {}
ASSUME Readers \cup Writers \subseteq Threads
ASSUME UseTry \in BOOLEAN /\ MaxNaps \in Nat \ {0}
ASSUME Rounds \in Nat \ {0}

VARIABLES
  readers, writer, writer_owner, pending_writers,   \* uthread_rwlock_t fields
  holds,      \* user program: "none", "read" or "write"
  naps,       \* user program: yields made so far while holding
  rounds      \* user program: iterations a writer has completed

vars == <<schedVars, readers, writer, writer_owner, pending_writers, holds, naps,
          rounds>>
lockVars == <<readers, writer, writer_owner, pending_writers>>

Init ==
  /\ SchedInit
  /\ pc = [t \in Threads |-> "user"]
  /\ readers = 0 /\ writer = 0 /\ writer_owner = None /\ pending_writers = 0
  /\ holds = [t \in Threads |-> "none"]
  /\ naps = [t \in Threads |-> 0]
  /\ rounds = [t \in Threads |-> 0]

Hold(t, m) == holds' = [holds EXCEPT ![t] = m]

-----------------------------------------------------------------------------
\* mutant: readers wait only for a writer that holds the lock
RdLoopNoPending(S, t) ==
  IF writer # 0
  THEN BlockSched(S, t, ReadQ, "rd_resume") /\ UNCHANGED <<lockVars, holds>>
  ELSE /\ readers' = readers + 1 /\ Hold(t, "read")
       /\ UNCHANGED <<writer, writer_owner, pending_writers>>
       /\ Stay(S, t, "hold")

(***************************************************************************)
(* The loop of uthread_rwlock_rdlock, at the call and after every          *)
(* schedule(): wait while a writer holds the lock or writers are pending,  *)
(* else readers++.                                                         *)
(***************************************************************************)
RdLoop(S, t) ==
  IF writer # 0 \/ pending_writers > 0
  THEN BlockSched(S, t, ReadQ, "rd_resume") /\ UNCHANGED <<lockVars, holds>>
  ELSE /\ readers' = readers + 1 /\ Hold(t, "read")
       /\ UNCHANGED <<writer, writer_owner, pending_writers>>
       /\ Stay(S, t, "hold")

RdLock(t) == At(t, "user") /\ t \in Readers /\ RdLoop(S0, t) /\ UNCHANGED <<naps, rounds>>

RdLockResume(t) == At(t, "rd_resume") /\ RdLoop(S0, t) /\ UNCHANGED <<naps, rounds>>

\* uthread_rwlock_tryrdlock: EBUSY under the same condition
TryRdLock(t) ==
  /\ At(t, "user") /\ t \in Readers /\ UseTry
  /\ IF writer # 0 \/ pending_writers > 0
     THEN UNCHANGED <<lockVars, holds>> /\ Stay(S0, t, "user")
     ELSE /\ readers' = readers + 1 /\ Hold(t, "read")
          /\ UNCHANGED <<writer, writer_owner, pending_writers>>
          /\ Stay(S0, t, "hold")
  /\ UNCHANGED <<naps, rounds>>

\* mutant: a writer waits only for another writer
WrLoopNoReaderCheck(S, t, p) ==
  IF writer # 0
  THEN /\ pending_writers' = p
       /\ UNCHANGED <<readers, writer, writer_owner, holds>>
       /\ BlockSched(S, t, WriteQ, "wr_resume")
  ELSE /\ pending_writers' = p - 1
       /\ writer' = 1 /\ writer_owner' = t /\ Hold(t, "write")
       /\ UNCHANGED readers
       /\ Stay(S, t, "hold")

\* mutant: pending_writers is not decremented on acquisition
WrLoopNoDecrement(S, t, p) ==
  IF readers > 0 \/ writer # 0
  THEN /\ pending_writers' = p
       /\ UNCHANGED <<readers, writer, writer_owner, holds>>
       /\ BlockSched(S, t, WriteQ, "wr_resume")
  ELSE /\ pending_writers' = p
       /\ writer' = 1 /\ writer_owner' = t /\ Hold(t, "write")
       /\ UNCHANGED readers
       /\ Stay(S, t, "hold")

(***************************************************************************)
(* The loop of uthread_rwlock_wrlock with pending_writers already counting *)
(* the caller (p): wait while readers or a writer hold the lock, else      *)
(* pending_writers--, writer = 1, writer_owner = self.                     *)
(***************************************************************************)
WrLoop(S, t, p) ==
  IF readers > 0 \/ writer # 0
  THEN /\ pending_writers' = p
       /\ UNCHANGED <<readers, writer, writer_owner, holds>>
       /\ BlockSched(S, t, WriteQ, "wr_resume")
  ELSE /\ pending_writers' = p - 1
       /\ writer' = 1 /\ writer_owner' = t /\ Hold(t, "write")
       /\ UNCHANGED readers
       /\ Stay(S, t, "hold")

\* uthread_rwlock_wrlock: pending_writers++ before the loop
WrLock(t) ==
  At(t, "user") /\ t \in Writers /\ rounds[t] < Rounds /\ WrLoop(S0, t, pending_writers + 1) /\ UNCHANGED <<naps, rounds>>

WrLockResume(t) == At(t, "wr_resume") /\ WrLoop(S0, t, pending_writers) /\ UNCHANGED <<naps, rounds>>

\* uthread_rwlock_trywrlock: EBUSY if held at all; pending_writers untouched
TryWrLock(t) ==
  /\ At(t, "user") /\ t \in Writers /\ UseTry /\ rounds[t] < Rounds
  /\ IF readers > 0 \/ writer # 0
     THEN UNCHANGED <<lockVars, holds>> /\ Stay(S0, t, "user")
     ELSE /\ writer' = 1 /\ writer_owner' = t /\ Hold(t, "write")
          /\ UNCHANGED <<readers, pending_writers>>
          /\ Stay(S0, t, "hold")
  /\ UNCHANGED <<naps, rounds>>

\* mutant: the write release leaves writer_owner set
UnlockKeepOwner(t, cont) ==
  IF writer # 0
  THEN IF writer_owner # t
       THEN UNCHANGED lockVars /\ Stay(S0, t, cont)
       ELSE /\ writer' = 0 /\ UNCHANGED writer_owner
            /\ UNCHANGED <<readers, pending_writers>>
            /\ Stay(IF wq[WriteQ] # <<>> THEN WakeOne(S0, WriteQ)
                    ELSE WakeAll(S0, ReadQ), t, cont)
  ELSE IF readers > 0
  THEN /\ readers' = readers - 1
       /\ UNCHANGED <<writer, writer_owner, pending_writers>>
       /\ Stay(IF readers - 1 = 0 /\ wq[WriteQ] # <<>> THEN WakeOne(S0, WriteQ)
               ELSE S0, t, cont)
  ELSE UNCHANGED lockVars /\ Stay(S0, t, cont)

\* mutant: the write release wakes one waiting reader, not all of them
UnlockWakeOneReader(t, cont) ==
  IF writer # 0
  THEN IF writer_owner # t
       THEN UNCHANGED lockVars /\ Stay(S0, t, cont)
       ELSE /\ writer' = 0 /\ writer_owner' = None
            /\ UNCHANGED <<readers, pending_writers>>
            /\ Stay(IF wq[WriteQ] # <<>> THEN WakeOne(S0, WriteQ)
                    ELSE WakeOne(S0, ReadQ), t, cont)
  ELSE IF readers > 0
  THEN /\ readers' = readers - 1
       /\ UNCHANGED <<writer, writer_owner, pending_writers>>
       /\ Stay(IF readers - 1 = 0 /\ wq[WriteQ] # <<>> THEN WakeOne(S0, WriteQ)
               ELSE S0, t, cont)
  ELSE UNCHANGED lockVars /\ Stay(S0, t, cont)

\* mutant: the last reader wakes nobody
UnlockNoWriterWake(t, cont) ==
  IF writer # 0
  THEN IF writer_owner # t
       THEN UNCHANGED lockVars /\ Stay(S0, t, cont)
       ELSE /\ writer' = 0 /\ writer_owner' = None
            /\ UNCHANGED <<readers, pending_writers>>
            /\ Stay(IF wq[WriteQ] # <<>> THEN WakeOne(S0, WriteQ)
                    ELSE WakeAll(S0, ReadQ), t, cont)
  ELSE IF readers > 0
  THEN /\ readers' = readers - 1
       /\ UNCHANGED <<writer, writer_owner, pending_writers>>
       /\ Stay(S0, t, cont)
  ELSE UNCHANGED lockVars /\ Stay(S0, t, cont)

(***************************************************************************)
(* uthread_rwlock_unlock by t, continuing at cont.  A write lock is        *)
(* released only by writer_owner (else EPERM), then one waiting writer is  *)
(* woken, or else every waiting reader.  Otherwise, if readers > 0, the    *)
(* call releases a read lock, whoever t is, and the last reader wakes one  *)
(* writer.  Otherwise EPERM.                                               *)
(***************************************************************************)
Unlock(t, cont) ==
  IF writer # 0
  THEN IF writer_owner # t
       THEN UNCHANGED lockVars /\ Stay(S0, t, cont)
       ELSE /\ writer' = 0 /\ writer_owner' = None
            /\ UNCHANGED <<readers, pending_writers>>
            /\ Stay(IF wq[WriteQ] # <<>> THEN WakeOne(S0, WriteQ)
                    ELSE WakeAll(S0, ReadQ), t, cont)
  ELSE IF readers > 0
  THEN /\ readers' = readers - 1
       /\ UNCHANGED <<writer, writer_owner, pending_writers>>
       /\ Stay(IF readers - 1 = 0 /\ wq[WriteQ] # <<>> THEN WakeOne(S0, WriteQ)
               ELSE S0, t, cont)
  ELSE UNCHANGED lockVars /\ Stay(S0, t, cont)

\* the loop's unlock once the holding yields are over
RwUnlock(t) ==
  /\ At(t, "hold") /\ naps[t] > 0
  /\ Unlock(t, "rest") /\ Hold(t, "none")
  /\ naps' = [naps EXCEPT ![t] = 0]
  /\ rounds' = [rounds EXCEPT ![t] = IF t \in Writers THEN @ + 1 ELSE @]

(***************************************************************************)
(* Holding the lock: one uthread_yield ("Hold lock briefly" in             *)
(* readers_writers.c), or the busy-yield loop of uthread_sleep() in the    *)
(* threads of tests/test_sync.c, which yields until the clock passes its   *)
(* target: at least once and at most MaxNaps times here.                   *)
(***************************************************************************)
HoldYield(t) ==
  /\ At(t, "hold") /\ naps[t] < MaxNaps
  /\ naps' = [naps EXCEPT ![t] = @ + 1]
  /\ YieldSched(S0, t, "hold") /\ UNCHANGED <<lockVars, holds, rounds>>

\* "Do some processing": uthread_yield after unlocking
RestYield(t) ==
  At(t, "rest") /\ YieldSched(S0, t, "user") /\ UNCHANGED <<lockVars, holds, naps, rounds>>

(***************************************************************************)
(* A writer whose loop is over returns from its start routine into         *)
(* uthread_exit(): TERMINATED, ops->remove (it is not queued), and a       *)
(* final schedule().  Nobody joins or detaches it here.                    *)
(***************************************************************************)
WriterExit(t) ==
  /\ At(t, "user") /\ t \in Writers /\ rounds[t] = Rounds
  /\ Sched(RrRemove([S0 EXCEPT !.st[t] = "TERMINATED"], t), t, "done")
  /\ UNCHANGED <<lockVars, holds, naps, rounds>>

\* a thread outside the lock's users polls with uthread_yield
Poll(t) ==
  /\ At(t, "user") /\ t \notin Readers \cup Writers
  /\ YieldSched(S0, t, "user") /\ UNCHANGED <<lockVars, holds, naps, rounds>>

Next ==
  \/ \E t \in Threads : RdLock(t)
  \/ \E t \in Threads : RdLockResume(t)
  \/ \E t \in Threads : TryRdLock(t)
  \/ \E t \in Threads : WrLock(t)
  \/ \E t \in Threads : WrLockResume(t)
  \/ \E t \in Threads : TryWrLock(t)
  \/ \E t \in Threads : RwUnlock(t)
  \/ \E t \in Threads : HoldYield(t)
  \/ \E t \in Threads : RestYield(t)
  \/ \E t \in Threads : WriterExit(t)
  \/ \E t \in Threads : Poll(t)

(***************************************************************************)
(* Only the current thread has a step, and it is never stopped for ever:   *)
(* one CPU runs user code until it calls into the library.                 *)
(***************************************************************************)
Spec == Init /\ [][Next]_vars /\ WF_vars(Next)
-----------------------------------------------------------------------------
\* the lock as its users see it
RWSpec == INSTANCE RWLockSpec WITH holding <- holds

TypeOK ==
  /\ SchedTypeOK
  /\ pc \in [Threads -> {"user", "rd_resume", "wr_resume", "hold", "rest", "done"}]
  /\ readers \in 0..Cardinality(Readers)
  /\ writer \in {0, 1} /\ writer_owner \in Threads \cup {None}
  /\ pending_writers \in 0..Cardinality(Writers)
  /\ holds \in [Threads -> RWSpec!Modes]
  /\ naps \in [Threads -> 0..MaxNaps]
  /\ rounds \in [Threads -> 0..Rounds]

(***************************************************************************)
(* The lock implements RWLockSpec: every grant and release of rdlock,      *)
(* tryrdlock, wrlock, trywrlock and unlock is a step of the abstract lock, *)
(* so readers share and a writer holds the lock alone.                     *)
(***************************************************************************)
ImplementsRWLockSpec == RWSpec!Spec

(***************************************************************************)
(* The counters of uthread_rwlock_t agree with what the threads hold:      *)
(* readers counts the threads holding a read lock, and writer is set       *)
(* exactly while writer_owner holds the write lock.                        *)
(***************************************************************************)
Accounting ==
  /\ readers = Cardinality({t \in Threads : holds[t] = "read"})
  /\ writer = 1 <=> writer_owner # None
  /\ \A t \in Threads : holds[t] = "write" <=> (writer = 1 /\ writer_owner = t)

\* a writer woken from write_waiters that has not yet re-tested the loop
WokenWriter == \E t \in Threads : pc[t] = "wr_resume" /\ tstate[t] # "BLOCKED"

(***************************************************************************)
(* No lost wake-up: a thread parked in read_waiters waits behind a writer  *)
(* that holds the lock or is pending (and wakes the readers when it        *)
(* unlocks); a thread parked in write_waiters waits behind a holder, or    *)
(* a woken writer is on its way.  unlock's choice between wake_one and     *)
(* wake_all, and the last reader's wake_one, must keep this true.          *)
(***************************************************************************)
NoLostWakeup ==
  /\ wq[ReadQ] # <<>> => writer # 0 \/ pending_writers > 0
  /\ wq[WriteQ] # <<>> => readers > 0 \/ writer # 0 \/ WokenWriter

(***************************************************************************)
(* Writers do not starve: a writer blocked in uthread_rwlock_wrlock        *)
(* eventually holds the lock, however the readers' loops interleave,       *)
(* because pending_writers turns new readers away.                         *)
(***************************************************************************)
WriterProgress ==
  \A t \in Writers : pc[t] = "wr_resume" ~> holds[t] = "write"

(***************************************************************************)
(* Readers do not starve once the writers' loops are finite: a reader      *)
(* blocked in uthread_rwlock_rdlock eventually holds the lock, because     *)
(* the last writer's unlock wakes every waiting reader.                    *)
(***************************************************************************)
ReaderProgress ==
  \A t \in Readers : pc[t] = "rd_resume" ~> holds[t] = "read"
=============================================================================
