CONSTANTS
  Backups = {1, 2}
  Slots = {s1}
  Requests = {r1, r2}
  Engines = {"sql", "redis"}
  Start = {"none", "active"}
  Saved = {1}
  MaxReadAttempts = 2
  ReadCap = 2
  Ops <- AllOps
  MaxOps = 3
  Events = {"abort", "crash", "stop", "fault", "slow", "expire"}
  MaxEvents = 2
  Calls = {c1, c2}
  Nobody = Nobody
  Seconds = {1}
  MaxFaults = 1
SPECIFICATION EitherSpec
SYMMETRY Symmetry
CHECK_DEADLOCK FALSE
INVARIANTS  ClusterFollowsRow  ResultIsTrue
