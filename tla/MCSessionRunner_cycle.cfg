SPECIFICATION Spec
CONSTANTS
  Sessions = {"s1"}
  Threads = {t1, t2}
  Senders = {"x"}
  MsgTypes = {"a"}
  N = 3
  TerminalExits = {2, 4}
  Consumes <- MCConsumesCycle
  Need <- MCNeedCycle
  InternalStates <- MCInternal
  Targets = {3, 7}
  EnterFails = {}
  ExitFails = {3}
  MsgFails = {}
  HopCap = 5
  MaxTrackers = 1
INVARIANTS TypeOK
PROPERTIES EveryCallReturns
CHECK_DEADLOCK FALSE
