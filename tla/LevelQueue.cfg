SPECIFICATION Spec
CONSTANTS
  MaxOrders = 5
  Null = Null
INVARIANT Circular
PROPERTIES ImplementsQueue CancelReturns
CHECK_DEADLOCK FALSE
