CONSTANTS
  NoTarget = NoTarget
  Machines = {m1}
  Keys = {k1, k2, k3}
  Kinds = {"miner"}
  MaxJobs = 3
  MaxClaims = 2
  MaxAttempts = 1
  MaxControllers = 0
SPECIFICATION Spec
SYMMETRY Symmetry
INVARIANTS
  TypeOK
  LockMeansUnsettled
  OpenWorkKeepsMachine
PROPERTIES
  SettledStays
  ImplementsExclusiveTasks
