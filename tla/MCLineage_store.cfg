SPECIFICATION Spec
CONSTANTS
  Sessions = {s1}
  Threads = {t1, t2}
  Participants = {p1, p2}
  Self = runner
  Slots = {1, 2}
  MaxNodes = 3
  Phases <- MCOnePhase
  Requires <- MCOneRequires
  Provides <- MCOneProvides
  Values <- MCOneValue
SYMMETRY ThreadSymmetry
INVARIANTS StoreSound ParentsFirst  
PROPERTIES FirstCommitStands
CHECK_DEADLOCK FALSE
