SPECIFICATION Spec
CONSTANTS
  Offices <- BothOffices
  Prices = {1}
  MaxEntries = 1
  PriceRingSize = 2
  MaxRounds = 2
  MaxPrices = 1
  SslOffices = {1}
  MaxLeaks = 1
INVARIANT TerminateHarmless
