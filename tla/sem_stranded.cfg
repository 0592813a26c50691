\* sem_timedwait that times out after a post woke it.
CONSTANTS
  Main = Main  t1 = t1  t2 = t2  t3 = t3  Sem = Sem
  Idle = Idle  None = None
  Threads <- MCThreads
  Queues <- MCQueues
  InitValue = 0
  MaxValue = 3
  MaxTime = 2
  OpsOf <- TimedOps
SPECIFICATION Spec
INVARIANT NoStrandedWaiter
