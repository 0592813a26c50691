\* Two readers and two writers in the loops of readers_writers.c and test_sync.c, Main polling.
CONSTANTS
  Main = Main  r1 = r1  r2 = r2  w1 = w1  w2 = w2
  ReadQ = ReadQ  WriteQ = WriteQ  Idle = Idle  None = None
  Threads <- AllThreads
  Queues <- MCQueues
  Readers = {r1, r2}
  Writers = {w1, w2}
  UseTry = TRUE
  MaxNaps = 2
  Rounds = 2
SPECIFICATION Spec
INVARIANT TypeOK Accounting NoLostWakeup
PROPERTY ImplementsRWLockSpec WriterProgress ReaderProgress
