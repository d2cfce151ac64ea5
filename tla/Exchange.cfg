SPECIFICATION Spec
CONSTANTS
  Procs = {p1, p2}
  IntMax = 32767
  InitialRate = 31
  Rates = {0, 3}
  Inputs <- Texts
  NoNumber = NoNumber
  Unknown = Unknown
  MaxWrites = 1
SYMMETRY ProcSymmetry
INVARIANTS
  ReadsWorth
  BufferOutlivesCalls
