CONSTANTS
  Pump = Pump
  Rows = {Pump}
  Button = Button
  App = App
  AutoMode = AutoMode
  One = One
  Zeros = Zeros
  Empty = Empty
  Blank = Blank
  t1 = t1
  d = d
  Null = Null
  NoWrite = NoWrite
  Texts = {}
  Thresholds <- NoThresholds
  QuickTaps = FALSE
  Paths <- MCPaths
  Values <- MCValues
  Handlers <- MCHandlers
  Tasks <- MCTasks
  PathOf <- MCPathOf
  MaxQueue = 12
  RemotePaths <- SharedPaths
  RemoteValues <- SharedValues
  MaxRemote = 1
  Verdicts = {TRUE}
  InitialDb <- NewGarden
  MaxTaps = 1
  MaxTurns = 1
  MaxEdits = 0
  MaxSelections = 2
  MaxWrites = 3
  MaxRegs = 3
SPECIFICATION Spec
CHECK_DEADLOCK FALSE
INVARIANTS TypeOK AllCurrent OverlayDown
