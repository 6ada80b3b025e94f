\* Three requests about one person, two at a time and to two replicas, and one
\* failing call, crash, tick or change of the mode.
\* Beside them a node, two initializations of it and two failures.
CONSTANTS
  Slots = {r1, r2}
  Servers = {s1, s2}
  None = None
  MaxUsers = 2
  MaxInvs = 2
  MaxKeys = 1
  MaxChalls = 1
  MaxOps = 3
  MaxEvents = 1
  Nodes = {n1}
  Machines = {m1, m2}
  Internal = {m2}
  HostKeys = {k1, k2}
  Installs = {r1, r2}
  Nowhere = Nowhere
  MaxInstalls = 2
  MaxBreaks = 2
SPECIFICATION EitherSpec
SYMMETRY Symmetry
CHECK_DEADLOCK FALSE
INVARIANTS RevokedIsRefused  UsedOnce ReadyHasJoined
