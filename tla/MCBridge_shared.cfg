CONSTANTS
  Parties = 2
  Indices = 1
  Callers = {c1, c2}
  Functions = {"EvalProductSumForContract"}
  EvalKeyOf <- OneBundle
SPECIFICATION Spec
INVARIANTS
  KeysPresent
