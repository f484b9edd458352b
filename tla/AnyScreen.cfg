CONSTANTS
  p1 = p1
  p2 = p2
  h1 = h1
  h2 = h2
  v0 = v0
  v1 = v1
  Null = Null
  NoWrite = NoWrite
  Paths <- MCPaths
  Values = {Null, v0, v1}
  Handlers <- MCHandlers
  Tasks = {}
  PathOf <- MCPathOf
  MaxWrites = 3
  MaxRegs = 3
  MaxQueue = 10
  RemotePaths = {p1}
  RemoteValues <- MCRemoteValues
  MaxRemote = 1
  Verdicts = {TRUE, FALSE}
  InitialDb <- MCInitialDb
  MaxCalls = 3
SPECIFICATION Spec
CHECK_DEADLOCK FALSE
INVARIANTS ObserversConverge
PROPERTIES EventSnapStays ClientSpec WritesAnswered
