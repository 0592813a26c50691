----------------------------- MODULE RWLockSpec -----------------------------
(***************************************************************************)
(* What a read/write lock promises its callers, with no queues and no      *)
(* policy: any number of threads hold it for reading, or exactly one holds *)
(* it for writing, and a thread releases only what it holds.  RWLock       *)
(* implements this specification under the mapping given there.            *)
(***************************************************************************)
CONSTANTS Threads

VARIABLE holding   \* holding[t]: what thread t holds

Modes == {"none", "read", "write"}

Init == holding = [t \in Threads |-> "none"]

NoWriter == \A u \in Threads : holding[u] # "write"
Free == \A u \in Threads : holding[u] = "none"

AcquireRead(t) ==
  /\ holding[t] = "none" /\ NoWriter
  /\ holding' = [holding EXCEPT ![t] = "read"]

AcquireWrite(t) ==
  /\ Free
  /\ holding' = [holding EXCEPT ![t] = "write"]

Release(t) ==
  /\ holding[t] # "none"
  /\ holding' = [holding EXCEPT ![t] = "none"]

Next == \E t \in Threads : AcquireRead(t) \/ AcquireWrite(t) \/ Release(t)

Spec == Init /\ [][Next]_holding

\* readers share, a writer excludes everyone
Exclusion ==
  \A t \in Threads : holding[t] = "write" =>
    \A u \in Threads \ {t} : holding[u] = "none"
=============================================================================
