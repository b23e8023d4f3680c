CONSTANTS
  Instances = {xmr}
  Operations = {"start", "stop"}
  MaintenanceMode = FALSE
  MaxRestarts = 1
  MaxFaults = 1
SPECIFICATION RigSpec
INVARIANT
  ThermalPauseRemembered
