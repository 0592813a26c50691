\* RR with the SIGALRM timer on, Main consuming and one producer, and every
\* call of the user program (cond_timedwait included) on an ERRORCHECK mutex
\* whose users may also unlock it without holding it.  Switching to the idle
\* TCB is a crash, and a timed-out waiter can be lost, so the run may stop.
CONSTANTS
  Main = Main  t1 = t1  t2 = t2  m1 = m1
  cNotEmpty = cNotEmpty  cNotFull = cNotFull
  Idle = Idle  None = None
  Threads <- PairThreads
  Mutexes <- MCMutexes
  CondVars <- MCCondVars
  NotEmpty <- cNotEmpty
  NotFull <- cNotFull
  MType <- MCErrorCheck
  Producers <- PairProducers
  ItemsLock = m1
  StaticInit = {}
  Preemptive = TRUE
  Ops <- EveryOp
  Misuse = TRUE
  MaxRec = 1
  MaxItems = 1
  MaxDepth = 2
SPECIFICATION Spec
CONSTRAINT QueueBound
INVARIANT TypeOK MutualExclusion
CHECK_DEADLOCK FALSE
