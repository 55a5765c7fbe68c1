CONSTANTS
  BootConfigs <- MCBootConfigs
  Scancode <- MCScancode
  FaultKinds <- MCTimeouts
  MaxFaults = 1
SPECIFICATION Spec
CHECK_DEADLOCK FALSE
INVARIANT InitSuccessImpliesReady
