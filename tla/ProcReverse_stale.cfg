SPECIFICATION MCSpec
CONSTANTS
  Callers = {c1}
  BufferSize = 6
  Lines <- DocLines
  Asks = {9}
  Heaps <- ZeroHeap
INVARIANTS
  ReversesWords
