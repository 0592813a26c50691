----------------------------- MODULE MC_UThread -----------------------------
(***************************************************************************)
(* Instances of UThread for TLC: Main and two threads it created, one      *)
(* mutex guarding a bounded buffer, and the buffer's two conditions, as in *)
(* tests/classic/producer_consumer.c.                                      *)
(***************************************************************************)
EXTENDS UThread

CONSTANTS t1, t2, m1, cNotEmpty, cNotFull

MCThreads == {Main, t1, t2}
MCMutexes == {m1}
MCCondVars == {cNotEmpty, cNotFull}

MCNormal == [m \in MCMutexes |-> "NORMAL"]
MCRecursive == [m \in MCMutexes |-> "RECURSIVE"]
MCErrorCheck == [m \in MCMutexes |-> "ERRORCHECK"]

SyncOps == {"lock", "trylock", "unlock", "wait", "signal", "broadcast"}
AllOps == SyncOps \cup {"yield"}
YieldOps == {"yield"}
EveryOp == AllOps \cup {"timedwait"}
TimedOps == {"lock", "unlock", "timedwait", "signal", "yield"}

\* Main consumes; the threads it created produce
MCProducers == {t1, t2}

\* Main and one producer, for the preemptive runs
PairThreads == {Main, t1}
PairProducers == {t1}
\* A tick enqueues the current thread without looking at its state (see
\* preempt_block), so under preemption with timed waits the run queue can
\* collect copies of a thread without end.  States with longer queues than
\* this are not explored.
MaxQueue == 2
QueueBound == Len(runq) <= MaxQueue /\ \A q \in Queues : Len(wq[q]) <= MaxQueue
=============================================================================
