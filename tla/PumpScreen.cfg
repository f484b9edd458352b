CONSTANTS
  s1 = s1
  s2 = s2
  s3 = s3
  seconds = seconds
  None = None
  Over = Over
  Null = Null
  NoWrite = NoWrite
  Speeds = {s1, s2, s3}
  Slowest = s1
  Limits = {seconds}
  Paths <- MCPaths
  Values <- MCValues
  Handlers <- MCHandlers
  Tasks = {}
  PathOf <- MCPathOf
  MaxQueue = 12
  RemotePaths <- SharedPaths
  RemoteValues <- SharedValues
  MaxRemote = 1
  Verdicts = {TRUE, FALSE}
  InitialDb <- Running2
  MaxMoves = 1
  MaxPresses = 2
  MaxWrites = 4
  MaxRegs = 1
SPECIFICATION PumpScreenSpec
CHECK_DEADLOCK FALSE
INVARIANTS SliderIsSpeed SpeedFollowsLimit
