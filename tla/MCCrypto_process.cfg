CONSTANTS
  Parties = 3
  Indices = 2
  Callers = {app, daemon}
  Functions <- AllFunctions
  EvalKeyOf <- OwnBundle
  Daemon = daemon
  Users = {u1, u2}
  Chainer = u1
  N = 3
  Requested <- AnyWidth
SPECIFICATION MCSpec
CHECK_DEADLOCK FALSE
INVARIANTS
  HandleBalance
  NoUseAfterFree
  
  KeysPresent
  
  ResidentKeys
  ReturnMatchesLanes
  ContextOutlivesLanes
  LaneKeys
  AnswerToOwnQuestion
  RequestsUnderstood
  BundleComplete
PROPERTIES
  CallsReturn
  UnionReturns
