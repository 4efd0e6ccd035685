SPECIFICATION SerialSpec
CONSTANTS
  Sessions = {"s1"}
  Threads = {t1}
  Senders = {"x", "y"}
  MsgTypes = {"a", "c"}
  N = 3
  TerminalExits = {0}
  Consumes <- MCConsumes
  Need <- MCNeed
  InternalStates <- MCInternal
  Targets = {}
  EnterFails = {}
  ExitFails = {}
  MsgFails = {}
  HopCap = 4
  MaxTrackers = 1
INVARIANTS LateMessageBenign
CHECK_DEADLOCK FALSE
