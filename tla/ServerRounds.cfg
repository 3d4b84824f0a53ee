SPECIFICATION Spec
CONSTANTS
  Conns = {c1, c2}
  Addresses = {a1, a2}
  RecvRoom = 1
  MaxMessages = 2
  None = None
INVARIANTS TrackedAlive DropsJustified AllReadByRoundEnd
PROPERTIES EveryConnectionAccepted EveryMessageRead
