CONSTANTS
  p1 = p1
  h1 = h1
  h2 = h2
  v1 = v1
  t1 = t1
  Null = Null
  NoWrite = NoWrite
  Paths <- MCPaths
  Values <- MCValues
  Handlers <- MCHandlers
  Tasks <- MCTasks
  PathOf <- MCPathOf
  InOrder = FALSE
  MaxWrites = 3
  MaxRegs = 2
  MaxQueue = 3
SPECIFICATION Spec
INVARIANTS WritesStack VisibleIsLayered ObserversCurrent
