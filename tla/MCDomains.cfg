CONSTANTS
  Requests = {r1, r2}
  Domains = {d1, d2}
  Apps = {a1, a2}
  Hosts = {h1, h2}
  Generated = {h2}
  Long = {h1}
  Kinds = {"auto", "manual"}
  None = none
  Ops <- AllOps
  MaxOps = 3
  MaxFaults = 1
  Writers = {r1, r2}
  Replicas = {s1, s2}
  Unset = Unset
  MaxWrites = 2
  MaxLosses = 1
SPECIFICATION EitherSpec
SYMMETRY AppSymmetry
CHECK_DEADLOCK FALSE
INVARIANTS ClusterFollowsRows ModeCanBeUsed
