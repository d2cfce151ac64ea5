SPECIFICATION Spec
CONSTANTS
  Procs = {p1, p2}
  Names = {a}
  Lines = {line}
  OpenTexts = {open}
  Files = {"add_user", "reset", "stat"}
  MaxUsers = 2
  Sizes = {3}
  DefaultSize = 3
SYMMETRY ProcSymmetry
INVARIANTS
  FaultsNeedCause
  FlagBelongsToReader
