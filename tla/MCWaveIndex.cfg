CONSTANTS
  w1 = w1
  w2 = w2
  w3 = w3
  w4 = w4
  Waves = {w1, w2, w3, w4}
  Requests <- MCRequests
  MaxIndex = 3
SPECIFICATION FairSpec
INVARIANTS Dense RefusedOnlyWhenFull
PROPERTIES AutomaticIsOwn Terminates
CHECK_DEADLOCK FALSE
