CONSTANTS
  BootConfigs <- MCBootConfigs
  Scancode <- MCScancode
  FaultKinds <- MCKeypresses
  MaxFaults = 1
SPECIFICATION Spec
CHECK_DEADLOCK FALSE
INVARIANT ConfigPreservesPort2
