------------------------------ MODULE CFSQueue ------------------------------
(***************************************************************************)
(* The red-black run queue of sched_cfs.c driven through its entry points  *)
(* with any vruntime: rb_insert as cfs_enqueue calls it, cfs_dequeue       *)
(* taking the cached leftmost, and rb_remove of any queued node (it is     *)
(* exported through internal.h).  A thread's vruntime changes only while   *)
(* it is out of the tree, as in the scheduler.                             *)
(***************************************************************************)
EXTENDS RBTree

VARIABLES
  rb,        \* g_cfs_state and the rb_* fields of the TCBs, as in RBTree
  vruntime   \* TCB vruntime

vars == <<rb, vruntime>>

Queued == Range(InOrder(rb))

TypeOK ==
  /\ rb.p \in [Nodes -> Ptr] /\ rb.c \in [Nodes -> {"RED", "BLACK"}]
  /\ rb.ch \in [Dirs -> [Nodes -> Ptr]]
  /\ rb.root \in Ptr /\ rb.lm \in Ptr /\ rb.n \in 0..Cardinality(Nodes)
  /\ vruntime \in [Nodes -> Keys]

Init == rb = EmptyTree /\ vruntime \in [Nodes -> Keys]

\* cfs_enqueue's rb_insert of a thread that is not queued, with vruntime k
Enqueue(t, k) ==
  /\ t \notin Queued
  /\ vruntime' = [vruntime EXCEPT ![t] = k]
  /\ rb' = RbInsert(rb, vruntime', t)

\* cfs_dequeue from a non-empty tree
Dequeue ==
  /\ rb.lm # None
  /\ rb' = CfsDequeue(rb)
  /\ UNCHANGED vruntime

\* rb_remove of a queued node
RemoveNode(t) ==
  /\ t \in Queued
  /\ rb' = RbRemove(rb, t)
  /\ UNCHANGED vruntime

Next == \/ \E t \in Nodes, k \in Keys : Enqueue(t, k)
        \/ Dequeue
        \/ \E t \in Nodes : RemoveNode(t)

Spec == Init /\ [][Next]_vars

-----------------------------------------------------------------------------
\* The tree stays a red-black binary search tree whose links agree and
\* whose count is its size after any sequence of rb_insert and rb_remove,
\* fix-up rotations and recolourings included.
RedBlack == WellFormed(rb, vruntime)

\* The rb_leftmost cache that cfs_dequeue and cfs_should_preempt read is
\* the first node in key order (NULL when empty), although rb_insert sets
\* it before the fix-up and rb_remove recomputes it before the fix-up.
LeftmostCache ==
  rb.lm = IF InOrder(rb) = <<>> THEN None ELSE Head(InOrder(rb))

\* The tree implements the sorted run queue: its in-order sequence moves
\* exactly as the abstract queue does, so rotations never reorder threads
\* and threads of equal vruntime leave in the order they arrived.
SQ == INSTANCE SortedRunQueue WITH rq <- InOrder(rb)
ImplementsSortedQueue == SQ!Spec
====
