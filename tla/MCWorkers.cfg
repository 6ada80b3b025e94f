CONSTANTS
  Deploys = {1, 2}
  Slots = {s1, s2}
  Requests = {r1, r2}
  Accounts = {a1, a2}
  Preowned = {a2}
  NoAccount = none
  Initial = {none, a2}
  MaxReadAttempts = 2
  ReadCap = 2
  Ops <- AllOps
  MaxOps = 3
  Events = {"abort", "crash", "shutdown", "fault"}
  MaxEvents = 2
SPECIFICATION Spec
ACTION_CONSTRAINT Three
SYMMETRY WorkerSymmetry
CHECK_DEADLOCK FALSE
INVARIANTS  SuccessIsEarned 
