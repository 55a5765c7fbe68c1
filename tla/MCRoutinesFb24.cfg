CONSTANTS
  WordSize = 4
  PtrWidth = 8
  Addr <- MCAddr
  Mems <- MCMems
  Ptrs <- MCPtrs
  Lens <- MCLens
  Ints <- MCInts
  Patterns <- MCPatterns
  Alignments <- MCAlignments
  IntWidth = 8
  LongLongWidth = 16
  IntArgs <- MCIntArgs
  LongLongArgs <- MCLongLongArgs
  UIntArgs <- MCUIntArgs
  ULongLongArgs <- MCULongLongArgs
  PtrArgs <- MCPtrArgs
  Bases <- MCBases
  Layouts <- MCLayouts
  Infos <- MCInfos
  FbTags <- MCFbTags24
  FbLen = 36
  Color = 1145258561
  Points <- MCPoints
  Rects <- MCRects
  Radii <- MCRadii
  CopySizes <- MCCopySizes
  Texts <- MCTexts
  Fonts <- MCFonts
  GlyphStride = 1
  FifoDepth = 16
  Chars = {97, 10}
  Msgs <- MCMsgs
  HandlerMsg <- MCHandlerMsg
  MaxCalls = 3
  MaxIrqs = 2
  PicIds = {0, 1, 7, 8, 9, 15, 16}
  PicInit <- MCPicInit
  IdtSize = 256
  Gates <- MCGates
  IsrDefault = 1055296
  Entries = 4
  PageSize = 16
  TableBase = 64
  MaxSetup = 3
  BarBits = 16
  Bars <- MCBars
  CmdInit = 3
  StatusInit = 8208
  ErrorBits <- MCErrorBits
  MaxPciCalls = 3
SPECIFICATION Spec
INVARIANT StoresInsideFramebuffer
CHECK_DEADLOCK FALSE
