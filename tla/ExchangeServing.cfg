SPECIFICATION Spec
CONSTANTS
  Tickers = {t1, t2}
  MAX_TICKERS = 1
  Overlap = FALSE
  MaxPush = 3
  MaxCalls = 5
INVARIANTS OneThreadAtATime ServedOnceInOrder HaltsJustified
PROPERTIES StopReturns RequestsTaken
CHECK_DEADLOCK FALSE
