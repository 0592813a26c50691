--------------------------- MODULE SortedRunQueue ---------------------------
(***************************************************************************)
(* What the CFS run queue promises its callers, without the tree: the      *)
(* queued threads form a sequence ordered by vruntime in which a thread    *)
(* joins behind every thread whose vruntime is not greater than its own    *)
(* (so equal vruntimes are served first come, first served), dequeue takes *)
(* the head and removal drops a thread wherever it is.  A thread's         *)
(* vruntime is set only while it is not queued.                            *)
(***************************************************************************)
EXTENDS Integers, Sequences, SequencesExt

CONSTANTS Nodes, Keys

VARIABLES rq, vruntime

\* the position t takes: just behind the last thread with vruntime <= k
Slot(k) == SelectLastInSeq(rq, LAMBDA x : vruntime[x] <= k) + 1

Enqueue(t, k) ==
  /\ t \notin Range(rq)
  /\ vruntime' = [vruntime EXCEPT ![t] = k]
  /\ rq' = InsertAt(rq, Slot(k), t)

Dequeue ==
  /\ rq # <<>>
  /\ rq' = Tail(rq)
  /\ UNCHANGED vruntime

Drop(t) ==
  /\ t \in Range(rq)
  /\ rq' = RemoveFirst(rq, t)
  /\ UNCHANGED vruntime

Init == rq = <<>> /\ vruntime \in [Nodes -> Keys]

Next == \E t \in Nodes : \/ \E k \in Keys : Enqueue(t, k)
                         \/ Drop(t)
        \/ Dequeue

Spec == Init /\ [][Next]_<<rq, vruntime>>
====
