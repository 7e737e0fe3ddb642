CONSTANTS
  Calls = {c1, c2}
  Nil = Nil
  MaxMsgs = 3
SPECIFICATION Spec
INVARIANTS
  InOrderWithoutGaps
  NoSubscribersIsTrue
PROPERTIES
  OneLateCallback
  ReceiveReturns
  ReaderStops
CHECK_DEADLOCK FALSE
