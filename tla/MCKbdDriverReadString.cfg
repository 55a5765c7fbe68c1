CONSTANTS
  BootConfigs <- MCBootConfigs
  Scancode <- MCScancode
  FaultKinds <- MCErrors
  MaxFaults = 2
  Keys <- MCKeys
  Quit = "q"
  Layouts <- MCLayouts
  SizeWords <- MCSizeWords
  OtherCalls <- MCReadString
  Lengths <- MCLengths
  MaxKeys = 2
  MaxCalls = 2
  MaxAllocFails = 1
SPECIFICATION Spec
CHECK_DEADLOCK FALSE
INVARIANT KeysDelivered
