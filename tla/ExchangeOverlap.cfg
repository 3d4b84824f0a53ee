SPECIFICATION Spec
CONSTANTS
  Tickers = {t1}
  MAX_TICKERS = 2
  Overlap = TRUE
  MaxPush = 1
  MaxCalls = 3
INVARIANT OwnOrderIds
CHECK_DEADLOCK FALSE
