SPECIFICATION Spec
CONSTANTS
  Procs = {p1, p2}
  Names = {a}
  Lines = {line}
  OpenTexts = {}
  Files = {"add_user", "reset"}
  MaxUsers = 2
  Sizes = {5}
  DefaultSize = 5
SYMMETRY ProcSymmetry
INVARIANTS
  BufferIsLog
  ReadGivesOwnLines
  NoDeviceLeft
