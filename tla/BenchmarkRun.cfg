SPECIFICATION BSpec
CONSTANTS
  Tickers = {t1}
  MAX_TICKERS = 16
  Overlap = FALSE
  MaxPush = 7
  MaxCalls = 2
  TOTAL_ORDERS = 5
  WARMUP_ORDERS = 2
  MAX_IN_FLIGHT = 3
INVARIANTS InFlightBounded MeasuredAgainstOwnSend
PROPERTY Terminates
