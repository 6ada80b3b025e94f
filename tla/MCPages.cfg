\* Two deployments of one page, with any one event; two builds of an image.
CONSTANTS
  Deploys = {p1, p2}
  Slots = {s1, s2}
  Editors = {x1}
  MaxReadAttempts = 2
  ReadCap = 2
  Slow = {p1}
  Events = {"abort", "crash", "shutdown", "fault", "edit", "delete"}
  MaxEvents = 1
  Builds = {b1, b2}
  NoBuild = NoBuild
  BuildSeconds = {1}
  MaxPushes = 1
SPECIFICATION EitherSpec
SYMMETRY SlotSymmetry
CHECK_DEADLOCK FALSE
INVARIANTS
  OneAtATime
  SuccessHasImage
PROPERTIES
  SiteIsKept
