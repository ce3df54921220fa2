CONSTANTS
  g = g  a1 = a1  a2 = a2  a3 = a3  b1 = b1  b2 = b2
  n1 = n1  n2 = n2
  Nodes = {n1, n2}
  Links <- OneLink
  Block = {a1, a2, a3, b1}
  Genesis = g
  ParentOf <- Fork
  DifficultyOf <- Even
  SizeOf <- Size
  MaxFrame = 3
  MaxBatch = 2
  AnnounceCapacity = 1
  SocketBuffer = 9
  MaxFaults = 0
SPECIFICATION Spec
INVARIANT AncestorsAreRequested
CHECK_DEADLOCK FALSE
