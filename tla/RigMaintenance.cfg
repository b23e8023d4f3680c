CONSTANTS
  Instances = {xmr}
  Operations = {"start", "stop"}
  MaintenanceMode = TRUE
  MaxRestarts = 1
  MaxFaults = 1
SPECIFICATION RigSpec
INVARIANT
  MaintenanceModeHolds
