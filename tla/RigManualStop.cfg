CONSTANTS
  Instances = {xmr}
  Operations = {"start", "stop"}
  MaintenanceMode = FALSE
  MaxRestarts = 1
  MaxFaults = 0
SPECIFICATION RigSpec
INVARIANT
  ManualStopStands
