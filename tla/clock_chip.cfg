SPECIFICATION Spec
CONSTANTS
  Files <- SomeFiles
  Pages <- TwoPages
  Regs <- TwoRegs
  Values <- ThreeValues
  ResetAt = 0
  IdAt <- IdRegister
  MaxFailures = 2
INVARIANTS UnreportedIsConfigured NoStrayWrite NothingDropped
