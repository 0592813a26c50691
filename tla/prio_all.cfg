\* Priority policy with the timer on: Main at the default level 1 of three,
\* t1 created above it, t2 beside it, t3 below; t1 and t2 may exit and the
\* program makes up to two setpriority/setnice calls.
CONSTANTS
  Main = Main  t1 = t1  t2 = t2  t3 = t3
  Idle = Idle  None = None
  Threads <- MCThreads
  CreateOrder <- MCCreateOrder
  InitPrio <- MCInitPrio
  NLevels = 3
  Default = 1
  Exiters = {t1, t2}
  Slice = 2
  MaxCalls = 2
SPECIFICATION Spec
INVARIANT TypeOK QueueIndex
PROPERTY DispatchHighest TopRuns
\* A thread first switched to from the signal handler keeps SIGALRM blocked
\* (context.c:29); once it has no library calls left it runs user code for
\* ever and no step of the model is enabled.  That end is real, not a
\* deadlock of the model.
CHECK_DEADLOCK FALSE
