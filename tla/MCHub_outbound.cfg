SPECIFICATION Spec
CONSTANTS
  Pseudonyms = {p1, p2}
  Callers = {g1, g2}
  Keys = {k1}
  MaxSeq = 0
  MaxConns = 2
  MaxSends = 2
  MaxPassed = 0
  MaxTime = 0
  SendBufferSize = 1
  InboundRate = 0
  InboundBurst = 0
INVARIANTS  BroadcastComplete
CHECK_DEADLOCK FALSE
