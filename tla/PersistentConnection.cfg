CONSTANTS
  x = x
  y = y
  v = v
  Paths = {x}
  Values = {Null, v}
  Null = Null
  Unknown = Unknown
  Verdicts = {TRUE, FALSE}
  ListenVerdicts = {TRUE, FALSE}
  MaxPuts = 2
  MaxListens = 1
  MaxLosses = 1
  MaxInterrupts = 1
  MaxRemote = 1
SPECIFICATION Spec
CHECK_DEADLOCK FALSE
INVARIANTS TypeOK AssertionsHold NeverStranded CacheCurrent AnswersInOrder
PROPERTIES LedgerSpec WritesAnswered
