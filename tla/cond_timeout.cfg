\* Cooperative RR, Main consuming and one producer, with cond_timedwait: a
\* wait whose deadline has passed returns with its caller still BLOCKED.
CONSTANTS
  Main = Main  t1 = t1  t2 = t2  m1 = m1
  cNotEmpty = cNotEmpty  cNotFull = cNotFull
  Idle = Idle  None = None
  Threads <- PairThreads
  Mutexes <- MCMutexes
  CondVars <- MCCondVars
  NotEmpty <- cNotEmpty
  NotFull <- cNotFull
  MType <- MCNormal
  Producers <- PairProducers
  ItemsLock = m1
  StaticInit = {}
  Preemptive = FALSE
  Ops <- TimedOps
  Misuse = FALSE
  MaxRec = 1
  MaxItems = 1
  MaxDepth = 2
SPECIFICATION Spec
INVARIANT NoBlockedRunner
CHECK_DEADLOCK FALSE
