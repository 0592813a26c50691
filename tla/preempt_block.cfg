\* RR with the timer on: SIGALRM between the preemption_enable() and the
\* scheduler_schedule() of a blocking call.
CONSTANTS
  Main = Main  t1 = t1  t2 = t2  m1 = m1
  cNotEmpty = cNotEmpty  cNotFull = cNotFull
  Idle = Idle  None = None
  Threads <- PairThreads
  Mutexes <- MCMutexes
  CondVars <- MCCondVars
  NotEmpty <- cNotEmpty
  NotFull <- cNotFull
  MType <- MCNormal
  Producers <- PairProducers
  ItemsLock = m1
  StaticInit = {}
  Preemptive = TRUE
  Ops <- SyncOps
  Misuse = FALSE
  MaxRec = 1
  MaxItems = 1
  MaxDepth = 2
SPECIFICATION Spec
INVARIANT Placement
