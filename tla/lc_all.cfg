\* Every lifecycle call: joinable and detached creation, uthread_detach, and
\* children joining the handles of the global array, with a registry of three
\* slots.  The process stops when main returns or when a fault kills it.
CONSTANTS
  Main = Main  c1 = c1  c2 = c2  c3 = c3  a = a  b = b
  Idle = Idle  None = None
  Threads <- MCThreads
  Pool <- MCPool
  Vals <- MCVals
  Queues <- MCQueues
  MaxSlots = 3
  MaxCreates = 4
  DetachModes = {FALSE, TRUE}
  UseDetach = TRUE
  Share = TRUE
SPECIFICATION Spec
CHECK_DEADLOCK FALSE
INVARIANT TypeOK NoOrphanZombie JoinLinks
PROPERTY ProgramTerminates
