SPECIFICATION Spec
CONSTANTS
  Procs = {p1}
  Names = {a, b}
  Lines = {line}
  OpenTexts = {open}
  Files = {"add_user", "reset"}
  MaxUsers = 4
  Sizes = {3, 7}
  DefaultSize = 7
INVARIANTS
  ReadGivesOwnLines
  UsersHaveDevices
