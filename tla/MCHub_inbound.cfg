SPECIFICATION Spec
CONSTANTS
  Pseudonyms = {p1}
  Callers = {}
  Keys = {k1}
  MaxSeq = 2
  MaxConns = 2
  MaxSends = 0
  MaxPassed = 2
  MaxTime = 2
  SendBufferSize = 1
  InboundRate = 1
  InboundBurst = 1
INVARIANTS AtMostOnce OrderPerConnection RateBound
PROPERTIES PumpsEndTogether
CHECK_DEADLOCK FALSE
