SPECIFICATION Spec
CONSTANTS
  Size = 2
  Shufflers = 3
  Values <- MCValues
  MaxBad = 1
  MaxLost = 1
  MaxFails = 1
INVARIANTS NothingMissing SettledSoundly  PeelsInOrder
PROPERTIES  SessionsFinish
CHECK_DEADLOCK FALSE
