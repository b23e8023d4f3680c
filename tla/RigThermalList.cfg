CONSTANTS
  Instances = {xmr, gpu}
  Operations = {"start", "stop", "restart"}
  MaintenanceMode = FALSE
  MaxRestarts = 0
  MaxFaults = 0
SPECIFICATION RigSpec
INVARIANT
  OnlyFaultsAbandon
