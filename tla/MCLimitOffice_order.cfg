SPECIFICATION FairSpec
CONSTANTS
  Bids = {1, 2}
  WarmUp = 1
  PriceRingSize = 2
  FillTypes = {"2"}
  MaxPrices = 5
  MaxFills = 2
  MaxSpoils = 2
  MaxRounds = 2
INVARIANTS TypeOK OneOrder OneMove RestsAtLastPrice
PROPERTY NeverStuck
