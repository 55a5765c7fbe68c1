CONSTANTS
  BarBits = 16
  Bars <- MCBars
  CmdInit = 3
  StatusInit = 8208
  ErrorBits <- MCErrorBits
  MaxPciCalls = 3
SPECIFICATION Spec
INVARIANT StatusErrorsKept
