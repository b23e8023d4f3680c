CONSTANTS
  NoTarget = NoTarget
  Machines = {m1}
  Keys = {k1}
  Kinds = {"apply", "power", "bootstrap"}
  MaxJobs = 1
  MaxClaims = 3
  MaxAttempts = 1
  MaxControllers = 0
  Fenced = FALSE
  BmcEdits = TRUE
SPECIFICATION FairDispatch
INVARIANT
  AtMostOnce
PROPERTIES
  Spec
  EventuallySettledOrAsked
