SPECIFICATION MCSpec
CONSTANTS
  Callers = {c1, c2}
  BufferSize = 6
  Lines <- AllLines
  Asks = {1, 3, 9}
  Heaps <- BothHeaps
INVARIANTS
  ReadsReversal
PROPERTIES
  CleanLineStaysInside
  KeepsProcBuffer
