CONSTANTS
  dA = dA
  dB = dB
  NullPtr = NullPtr
  NULL = NullPtr
  Buses <- MCBuses
  DevSlots <- MCDevSlots
  Functions <- MCFunctions
  FallbackBuses <- MCFallbackBuses
  Topologies <- MCTopologies
  Drivers <- MCDrivers
  Ids <- MCIds
  HasProbe <- MCHasProbe
  HasRemove <- MCHasRemove
SPECIFICATION Spec
INVARIANT RemoveOnlyOwn
