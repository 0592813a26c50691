---------------------------- MODULE MC_Lifecycle ----------------------------
(***************************************************************************)
(* Main and three TCBs of memory, two argument values.  Main's loop makes  *)
(* four uthread_create calls, so a TCB is reused once one has been freed,  *)
(* as the create/join loops of tests/test_basic.c and examples do.  Any    *)
(* call may fail with ENOMEM (thread_alloc or the stack allocation); while *)
(* three TCBs are in use that is the only outcome left.  A call that finds *)
(* every registry slot taken aborts in UTHREAD_ASSERT instead.             *)
(***************************************************************************)
EXTENDS Lifecycle

CONSTANTS c1, c2, c3, a, b

MCPool == {c1, c2, c3}
MCThreads == {Main} \cup MCPool
MCVals == {a, b}
MCQueues == {}
====
