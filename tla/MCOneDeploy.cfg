\* Everything that can happen to one deployment that a user asks for.
CONSTANTS
  Deploys = {d1}
  Webhooks = {}
  Slots = {s1}
  Sources = {"git"}
  MaxReadAttempts = 2
  ReadCap = 3
  LateCap = 4
  Events = {"cancel", "crash", "shutdown", "abort", "fault", "pods", "edit"}
  MaxEvents = 2
SPECIFICATION FairSpec
ACTION_CONSTRAINT EditAlone
CHECK_DEADLOCK FALSE
INVARIANTS
  
  NoOrphan
  CancelledForAReason
PROPERTIES
  SettledIsFinal
  
  Finishes
