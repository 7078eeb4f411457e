SPECIFICATION Spec
CONSTANTS
  Value = {v1, v2}
  None = None
  Promised = Promised
  MaxMachines = 2
  MaxInst = 3
  MaxCrashes = 3
INVARIANTS TypeOK FirstMachineFollowsLog OneMachineRestarts
CHECK_DEADLOCK FALSE
