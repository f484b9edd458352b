CONSTANTS
  Button = Button
  App = App
  AutoMode = AutoMode
  Strange = Strange
  t1 = t1
  t2 = t2
  Empty = Empty
  Zeros = Zeros
  Null = Null
  NoWrite = NoWrite
  Paths <- MCPaths
  Values <- MCValues
  Handlers <- MCHandlers
  Tasks <- MCTasks
  PathOf <- MCPathOf
  Thresholds <- OneThreshold
  Texts = {t2}
  MaxQueue = 12
  RemotePaths <- SharedPaths
  RemoteValues <- SharedValues
  MaxRemote = 1
  Verdicts = {TRUE, FALSE}
  InitialDb <- StrangeMode
  MaxTurns = 2
  MaxEdits = 2
  MaxWrites = 6
  MaxRegs = 3
SPECIFICATION SettingScreenSpec
CHECK_DEADLOCK FALSE
INVARIANTS SwitchIsMode OverlayDown
PROPERTIES ZerosOnlyPastCheck ThresholdsNeedAuto
