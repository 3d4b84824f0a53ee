SPECIFICATION Spec
CONSTANTS
  Clients = {c1}
  Prices = {1, 2, 3}
  RequestSides = {"BUY", "SELL"}
  Quantities = {0, 1, 2}
  MaxAdds = 3
  MAX_PRICE_LEVELS = 3
  MAX_ORDER_IDS = 9
  Null = Null
INVARIANTS TypeOK TimePriority TradesWithinLimit MirrorExact QuantityConserved
PROPERTIES PriceTimePriority LevelPoolContract
