SPECIFICATION Spec
CONSTANTS
  Sessions = {"s1"}
  Threads = {t1, t2}
  Senders = {"x", "y"}
  MsgTypes = {"a", "c"}
  N = 3
  TerminalExits = {0}
  Consumes <- MCConsumes
  Need <- MCNeed
  InternalStates <- MCInternal
  Targets = {}
  EnterFails = {}
  ExitFails = {}
  MsgFails = {}
  HopCap = 4
  MaxTrackers = 1
INVARIANTS BucketsRaceFree
CHECK_DEADLOCK FALSE
