CONSTANTS
  NoTarget = NoTarget
  Machines = {m1, m2}
  Keys = {k1}
  Kinds = {"power"}
  MaxJobs = 1
  MaxClaims = 1
  MaxAttempts = 0
  MaxControllers = 2
SPECIFICATION Spec
SYMMETRY Symmetry
INVARIANT
  QueueMoves
