SPECIFICATION FairSpec
CONSTANTS
  Offices <- BothOffices
  Prices = {1, 2}
  MaxEntries = 2
  PriceRingSize = 2
  MaxRounds = 2
  MaxPrices = 2
  SslOffices = {1}
  MaxLeaks = 1
INVARIANTS TypeOK NeverWaits StreamedInOrder PublishedAsTold Released ClosesNoOther
PROPERTY FailureEndsRound
