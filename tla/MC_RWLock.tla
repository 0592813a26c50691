----------------------------- MODULE MC_RWLock -----------------------------
(***************************************************************************)
(* Instances of RWLock for TLC: the threads of                             *)
(* tests/classic/readers_writers.c scaled down, with Main joining them     *)
(* (modelled as polling with uthread_yield, so the run queue is never      *)
(* empty at another thread's yield).                                       *)
(***************************************************************************)
EXTENDS RWLock

CONSTANTS r1, r2, w1, w2

\* Main, two readers and two writers
AllThreads == {Main, r1, r2, w1, w2}
MCQueues == {ReadQ, WriteQ}
=============================================================================
