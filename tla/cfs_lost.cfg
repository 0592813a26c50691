\* CFS with the timer on, running test_cfs_nice_values with two yields per
\* worker: is every READY thread that is not running in the run queue?
CONSTANTS
  Main = Main  t1 = t1  t2 = t2
  Idle = Idle  None = None
  Nodes <- MCNodes
  CreateOrder <- MCCreateOrder
  InitNice <- MCInitNice
  Keys <- MCKeys
  Rounds = 2
  Interval = 10
  MaxV = 200
SPECIFICATION Spec
INVARIANT NoLostThread
