CONSTANTS
  bulb = bulb
  pump = pump
  Button = Button
  App = App
  AutoMode = AutoMode
  One = One
  Fast = Fast
  Null = Null
  NoWrite = NoWrite
  Paths <- MCPaths
  Values <- MCValues
  Handlers <- MCHandlers
  Tasks <- MCTasks
  PathOf <- MCPathOf
  Rows <- MCRows
  Pump = pump
  MaxQueue = 12
  RemotePaths <- NoPaths
  RemoteValues <- NoValues
  MaxRemote = 0
  Verdicts <- Accepted
  InitialDb <- AppModePumpOn
  QuickTaps = FALSE
  MaxTaps = 1
  MaxWrites = 2
  MaxRegs = 2
SPECIFICATION ControlScreenSpec
CHECK_DEADLOCK FALSE
PROPERTY OtherEnginesKept
