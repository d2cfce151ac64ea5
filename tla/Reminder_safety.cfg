SPECIFICATION Spec
CONSTANTS
  Writers = {w1, w2}
  Readers = {}
  MaxReminders = 3
  Delays = {0, 1}
  MaxTime = 2
  KTimeMax = 7
SYMMETRY WriterSymmetry
INVARIANTS
  ListWholeAndSorted
  PassFiresAllDue
  ExitFreesAll
