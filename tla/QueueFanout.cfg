CONSTANTS
  NoTarget = NoTarget
  Machines = {m1, m2, m3}
  Keys = {k1}
  Kinds = {"bios", "power"}
  MaxJobs = 1
  MaxClaims = 2
  MaxAttempts = 1
  MaxControllers = 1
SPECIFICATION Spec
SYMMETRY Symmetry
INVARIANTS
  JobStatusIsAggregate
  QueueMoves
