SPECIFICATION Spec
CONSTANTS
  Callers = {c1, c2}
  BufferSize = 4
  Lengths = {0, 1, 3, 4, 6}
  Asks = {0, 1, 3, 9}
  DeviceCount = 3
  HZ = 2
  Wrap = 10
  Base = 2
  FirstJiffies = 7
  MaxJiffies = 19
  MaxPlayers = 3
  MaxRoll = 2
  Counts <- MCCounts
  MaxRounds = 3
INVARIANTS
  ReadsStayInMessage
  OneHolder
  FaultNeedsCause
  ReadsElapsed
  BoardInOrder
PROPERTIES
  LoadsInOrder
  TimersGoOn
