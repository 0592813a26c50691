---------------------------- MODULE MC_Semaphore ----------------------------
(***************************************************************************)
(* Instances of Semaphore for TLC, in the roles of tests/test_sync.c:      *)
(* t1 is sem_producer_thread (post, yield), t2 and t3 are                  *)
(* sem_consumer_thread (wait), and Main waits for them in a yield loop     *)
(* and makes the trywait and post calls of test_semaphore_basic.  Main's   *)
(* polling keeps a thread in the run queue whenever another one            *)
(* yields, so the lost-thread path of scheduler_yield (run cfs_lost)      *)
(* stays out of these runs.                                                *)
(***************************************************************************)
EXTENDS Semaphore

CONSTANTS t1, t2, t3

MCThreads == {Main, t1, t2, t3}
MCQueues == {Sem}

Role(t, waiterOps) ==
  CASE t = Main -> {"yield", "trywait", "post"}
    [] t = t1   -> {"post", "yield"}
    [] OTHER    -> waiterOps

\* the consumers call sem_wait and sem_timedwait
TimedOps == [t \in MCThreads |-> Role(t, {"wait", "timedwait"})]

\* nobody posts; the consumers call sem_timedwait
NoPostOps == [t \in MCThreads |->
                IF t \in {Main, t1} THEN {"yield"} ELSE {"timedwait"}]
=============================================================================
