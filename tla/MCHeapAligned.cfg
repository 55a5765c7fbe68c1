CONSTANTS
  Width <- MCWidth
  WordSize <- MCWordSize
  HeaderSize <- MCHeaderSize
  HeapStart <- MCHeapStart
  HeapEnd <- MCHeapEnd
  AllocSizes <- MCAllocSizes
  ResizeSizes <- MCResizeSizes
  CallocArgs <- MCCallocArgs
  AlignedArgs <- MCAlignedArgs
  StrayPtrs <- MCForeignPtrs
  KeepStale = FALSE
SPECIFICATION Spec
INVARIANT AlignedContract
