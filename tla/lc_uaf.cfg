\* uthread_detach of a running thread, which later exits.
CONSTANTS
  Main = Main  c1 = c1  c2 = c2  c3 = c3  a = a  b = b
  Idle = Idle  None = None
  Threads <- MCThreads
  Pool <- MCPool
  Vals <- MCVals
  Queues <- MCQueues
  MaxSlots = 4
  MaxCreates = 4
  DetachModes = {FALSE}
  UseDetach = TRUE
  Share = FALSE
SPECIFICATION Spec
CHECK_DEADLOCK FALSE
INVARIANT NoUseAfterFree
