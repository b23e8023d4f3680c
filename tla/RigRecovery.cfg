CONSTANTS
  Instances = {xmr}
  Operations = {"start", "stop", "restart"}
  MaintenanceMode = FALSE
  MaxRestarts = 1
  MaxFaults = 2
SPECIFICATION FairRig
INVARIANTS
  RigTypeOK
  NeverTwoSupervisors
  
  QuietStopStands
PROPERTY
  Recovers
