\* The CFS red-black run queue with six TCBs and vruntimes 0 to 2, so
\* every tree shape of up to six nodes and runs of equal keys occur.
CONSTANTS
  n1 = n1  n2 = n2  n3 = n3  n4 = n4  n5 = n5  n6 = n6
  None = None
  Nodes <- MCNodes
  Keys = {0, 1, 2}
SPECIFICATION Spec
SYMMETRY NodeSymmetry
INVARIANT TypeOK RedBlack LeftmostCache
PROPERTY ImplementsSortedQueue
