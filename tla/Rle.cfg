SPECIFICATION Spec
CONSTANTS
  MaxByte = 2
  Inputs <- SmallInputs
  Foreign <- SmallForeign
INVARIANTS
  RoundTrip
  RunsAreMaximal
  CutFileIsReported
