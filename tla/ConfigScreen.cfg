CONSTANTS
  bulb = bulb
  pump = pump
  Button = Button
  App = App
  AutoMode = AutoMode
  One = One
  Fast = Fast
  Null = Null
  NoWrite = NoWrite
  Paths <- MCPaths
  Values <- MCValues
  Handlers <- MCHandlers
  Tasks <- MCTasks
  PathOf <- MCPathOf
  Rows <- MCRows
  Pump = pump
  MaxQueue = 12
  RemotePaths <- SharedPaths
  RemoteValues <- SharedValues
  MaxRemote = 1
  Verdicts = {TRUE, FALSE}
  InitialDb <- AppModePumpOn
  QuickTaps = TRUE
  MaxTaps = 2
  MaxWrites = 4
  MaxRegs = 3
SPECIFICATION ControlScreenSpec
CHECK_DEADLOCK FALSE
INVARIANTS ScreenCurrent OverlayDown
