CONSTANTS
  dA = dA
  dB = dB
  n1 = n1
  n2 = n2
  n3 = n3
  d1 = d1
  d2 = d2
  fn = fn
  NullPtr = NullPtr
SPECIFICATION Spec
INVARIANTS TypeOK ChainWellFormed NoAdjacentFree FreeCounterExact Ownership ListWellFormed EnumerationExact DriverListExact ProbeOffered
PROPERTY ListRefinesSpec
