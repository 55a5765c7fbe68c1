CONSTANTS
  n1 = n1
  n2 = n2
  n3 = n3
  d1 = d1
  d2 = d2
  fn = fn
  NullPtr = NullPtr
  NULL = NullPtr
  Nodes <- MCNodes
  Data <- MCData
  FreeFuncs <- MCFreeFuncsWithNull
  MaxIndex <- MCMaxIndex
SPECIFICATION Spec
INVARIANT ListWellFormed
