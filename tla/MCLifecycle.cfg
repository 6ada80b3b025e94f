CONSTANTS
  Requests = {r1, r2}
  Base = base
  Ops <- AllOps
  Inputs <- AllInputs
  Pollers = {"status"}
  MaxFaults = 1
  MaxTurns = 1
SPECIFICATION Spec
ACTION_CONSTRAINTS OneTrouble KeepsOrder
CHECK_DEADLOCK FALSE
INVARIANTS StopHolds
PROPERTIES LostOnlyByOverlap StatusSettles
