CONSTANTS
  OrderRingSize = 2
  ExecRingSize = 2
  Quotes <- MCTwoQuotes
  DiffOpen = 2
  DiffClose = 1
  MaxOrders = 2
  InitCount = 0
  InitDiff = "NONE"
  MaxPairs = 1
  MaxRejects = 4
  SendMayFail = TRUE
  SessionMayFail = TRUE
  DelayCovers = FALSE
SPECIFICATION FairSpec
INVARIANT TypeOK
INVARIANT CorrectionSound
INVARIANT CorrectionComplete
INVARIANT HedgedWhenQuiet
PROPERTY RejectionAnswered
PROPERTY OrderPolled
PROPERTY FailureStopsAll
PROPERTY LedgerSpec
