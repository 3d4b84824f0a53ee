SPECIFICATION Spec
CONSTANTS
  Clients = {c1}
  Prices = {1, 2, 3}
  RequestSides = {"BUY", "SELL"}
  Quantities = {1}
  MaxAdds = 3
  MAX_PRICE_LEVELS = 4
  MAX_ORDER_IDS = 9
  Null = Null
INVARIANTS Uncrossed
