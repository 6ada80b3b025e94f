\* Two deployments of one application, by users or by pushes,
\* with a look at its status meanwhile.
CONSTANTS
  Deploys = {d1, d2}
  Webhooks = {d1, d2}
  Slots = {s1, s2}
  Sources = {"git", "image"}
  MaxReadAttempts = 1
  ReadCap = 1
  LateCap = 0
  Events = {"status"}
  MaxEvents = 1
SPECIFICATION Spec
ACTION_CONSTRAINT LookAfterPushes
SYMMETRY Symmetry
CHECK_DEADLOCK FALSE
INVARIANTS
  SuccessWasApplied
