SPECIFICATION MarketSpec
CONSTANTS
  InitialPrice = 10  MinPrice = 5  MaxPrice = 15
  Capital = 40
  Noise <- MCNoise
  NoiseEvery = 3
  OrderEvery = 2
  HalfSpread <- MCHalfSpread
  Skews <- MCSkews
  QuoteSizes <- MCQuoteSizes
  Sizes = {1, 3}
  PosLimit <- MCPosLimit
  Flatten = 1
  Leverage <- MCLeverage
  Aggression <- MCAggression
  MaxIterations = 4
CHECK_DEADLOCK FALSE
INVARIANTS BookInv HoldingsAccounted
PROPERTIES PriceTimePriority
