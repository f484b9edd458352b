CONSTANTS
  TicksPerSecond = 2
  Day = 3
  Gap = 1
  Empty = Empty
  LastPress = 8
  MaxNow = 16
  MaxPresses = 3
SPECIFICATION Spec
CHECK_DEADLOCK FALSE
INVARIANTS ProgressDefined NotStoppedEarly
PROPERTIES LimitKept CountdownEnds
