CONSTANTS
  OrderRingSize = 6
  ExecRingSize = 4
  Quotes <- MCOneQuote
  DiffOpen = 0
  DiffClose = 0
  MaxOrders = 2
  InitCount = 0
  InitDiff = "NONE"
  MaxPairs = 3
  MaxRejects = 2
  SendMayFail = TRUE
  SessionMayFail = FALSE
  DelayCovers = TRUE
SPECIFICATION Spec
INVARIANT NobodyWaits
INVARIANT OpenCapped
PROPERTY HedgedTrigger
INVARIANT FreshQuotes
