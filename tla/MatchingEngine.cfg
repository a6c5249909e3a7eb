SPECIFICATION Spec
CONSTANTS
  Prices = {1, 2, 3}
  Inputs <- MCInputs
  MaxOrderSize = 2
  MarketPrices = {2}
  MaxOrders = 4
  MaxFaults = 1
  None = None
CHECK_DEADLOCK FALSE
INVARIANTS EngineInv StatusMatchesExecutions
PROPERTIES FillsByPriority
