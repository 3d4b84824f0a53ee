SPECIFICATION Spec
CONSTANTS
  Clients = {c1}
  Prices = {1, 2, 3}
  RequestSides = {"BUY", "SELL", "INVALID"}
  Quantities = {1}
  MaxAdds = 4
  MAX_PRICE_LEVELS = 4
  MAX_ORDER_IDS = 4
  Null = Null
INVARIANTS LevelsIndexed LevelsOccupied SoundUntilOrphaned
PROPERTIES OrderPoolContract
