SPECIFICATION Spec
CONSTANTS
  Devices <- TwoChips
  RegCount = 2
  Bytes <- TwoValues
  Requests <- Calls
  LastAddress = 2
  EnableFails = TRUE
INVARIANTS ResetEnablesCore
