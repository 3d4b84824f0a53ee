SPECIFICATION FairSpec
CONSTANTS
  N = 4
  Window = 3
  MaxPush = 10
INVARIANTS InOrder NothingLost
PROPERTIES ImplementsFifo EveryItemArrives
