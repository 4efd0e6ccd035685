SPECIFICATION Spec
CONSTANTS
  Sessions = {"s1"}
  Threads = {t1, t2}
  Senders = {"x"}
  MsgTypes = {"a", "c"}
  N = 3
  TerminalExits = {0}
  Consumes <- MCConsumes
  Need <- MCNeedOne
  InternalStates <- MCInternal
  Targets = {3}
  EnterFails = {1}
  ExitFails = {}
  MsgFails = {}
  HopCap = 4
  MaxTrackers = 2
SYMMETRY ThreadSymmetry
INVARIANTS PredecessorsExited 
 
CHECK_DEADLOCK FALSE
