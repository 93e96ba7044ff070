CONSTANTS
  w1 = w1
  w2 = w2
  w3 = w3
  w4 = w4
  Waves = {w1, w2, w3, w4}
  Requests <- MCInTable
  MaxIndex = 3
SPECIFICATION Spec
INVARIANT IndicesDistinct
CHECK_DEADLOCK FALSE
