CONSTANTS
  Values = {v1, v2, v3}
  Unset = Unset
  MaxLength = 5
  MayFail = TRUE
SPECIFICATION Spec
INVARIANTS IInv
PROPERTIES ListSpec
CHECK_DEADLOCK FALSE
