CONSTANTS
  bulb = bulb
  pump = pump
  Button = Button
  App = App
  AutoMode = AutoMode
  One = One
  Fast = Fast
  Null = Null
  NoWrite = NoWrite
  Paths <- MCPaths
  Values <- MCValues
  Handlers <- MCHandlers
  Tasks <- MCTasks
  PathOf <- MCPathOf
  Rows <- MCRows
  Pump = pump
  MaxQueue = 12
  RemotePaths <- NoPaths
  RemoteValues <- NoValues
  MaxRemote = 0
  Verdicts <- Accepted
  InitialDb <- AppModeEnginesOff
  QuickTaps = FALSE
  MaxTaps = 3
  MaxWrites = 6
  MaxRegs = 2
SPECIFICATION ControlScreenSpec
CHECK_DEADLOCK FALSE
INVARIANT OverlayLocks
PROPERTIES OtherEnginesKept PumpSpeedFirst OverlayReleased
