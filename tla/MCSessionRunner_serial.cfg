SPECIFICATION SerialSpec
CONSTANTS
  Sessions = {"s1", "s2"}
  Threads = {t1, t2}
  Senders = {"x", "y"}
  MsgTypes = {"a", "c"}
  N = 3
  TerminalExits = {0}
  Consumes <- MCConsumes
  Need <- MCNeed
  InternalStates <- MCInternal
  Targets = {2}
  EnterFails = {3}
  ExitFails = {}
  MsgFails = {3}
  HopCap = 4
  MaxTrackers = 2
SYMMETRY ThreadSymmetry
INVARIANTS ExitOnceSerial QuorumNeverStrands
PROPERTIES CascadeReachesInput PipelineRefined
CHECK_DEADLOCK FALSE
