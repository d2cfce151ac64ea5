SPECIFICATION FairSpec
CONSTANTS
  Writers = {w1}
  Readers = {q1}
  MaxReminders = 2
  Delays = {0, 1, 9}
  MaxTime = 2
  KTimeMax = 7
INVARIANTS
  FaultNeedsClash
  FiredOnceNotEarly
PROPERTY
  StoredIsFired
