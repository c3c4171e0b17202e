SPECIFICATION Spec
CONSTANTS
  Bids = {1, 2}
  WarmUp = 1
  PriceRingSize = 2
  FillTypes = {"2", "F"}
  MaxPrices = 5
  MaxFills = 2
  MaxSpoils = 1
  MaxRounds = 2
PROPERTY FillNoticed
