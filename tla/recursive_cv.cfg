\* Cooperative producer/consumer over a RECURSIVE mutex that may be locked
\* twice before cond_wait.
CONSTANTS
  Main = Main  t1 = t1  t2 = t2  m1 = m1
  cNotEmpty = cNotEmpty  cNotFull = cNotFull
  Idle = Idle  None = None
  Threads <- MCThreads
  Mutexes <- MCMutexes
  CondVars <- MCCondVars
  NotEmpty <- cNotEmpty
  NotFull <- cNotFull
  MType <- MCRecursive
  Producers <- MCProducers
  ItemsLock = m1
  StaticInit = {}
  Preemptive = FALSE
  Ops <- SyncOps
  Misuse = FALSE
  MaxRec = 2
  MaxItems = 2
  MaxDepth = 2
SPECIFICATION Spec
INVARIANT MutualExclusion
