CONSTANTS
  NoTarget = NoTarget
  Machines = {m1}
  Keys = {k1, k2}
  Kinds = {"apply", "power", "bootstrap"}
  MaxJobs = 2
  MaxClaims = 2
  MaxAttempts = 1
  MaxControllers = 0
  Fenced = TRUE
  BmcEdits = FALSE
SPECIFICATION DispatchSpec
SYMMETRY Symmetry
INVARIANTS
  DispatchTypeOK
  WorkIsLocked
  ReportsAreTrue
