CONSTANTS
  NoTarget = NoTarget
  Machines = {m1}
  Keys = {k1}
  Kinds = {"power"}
  MaxJobs = 1
  MaxClaims = 2
  MaxAttempts = 0
  MaxControllers = 0
  Fenced = TRUE
  BmcEdits = TRUE
SPECIFICATION DispatchSpec
INVARIANT
  PowerSentIsNotFailed
