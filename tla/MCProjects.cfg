CONSTANTS
  Slots = {s1, s2}
  Runs = {r1, r2}
  Users = {u1, u2}
  None = None
  Ops = {"project", "settings", "delete project", "cron", "edit cron", "delete cron",
         "trigger", "app env", "delete team", "role", "remove"}
  MaxOps = 3
  ResourceOps = 2
  Mask = Mask
  MaxFaults = 1
  Editors = {s1, s2}
  Nothing = Nothing
  ResourceFaults = 1
SPECIFICATION EitherSpec
SYMMETRY Symmetry
CHECK_DEADLOCK FALSE
INVARIANTS ClusterFollowsRows RunsAreAwaited InUseIsKept SecretIsKept
