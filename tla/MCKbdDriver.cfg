CONSTANTS
  BootConfigs <- MCBootConfigs
  Scancode <- MCScancode
  FaultKinds <- MCErrors
  MaxFaults = 2
  Keys <- MCKeys
  Quit = "q"
  Layouts <- MCLayouts
  SizeWords <- MCSizeWords
  OtherCalls <- MCAllCalls
  Lengths <- MCLengths
  MaxKeys = 2
  MaxCalls = 2
  MaxAllocFails = 1
SPECIFICATION Spec
CHECK_DEADLOCK FALSE
INVARIANTS TypeOK InitSuccessImpliesReady RegistryConsistent
PROPERTIES InitReturns QuitHonoured
