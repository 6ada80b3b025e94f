CONSTANTS
  Servers = {s1, s2}
  MaxRule = 2
  Sources = {n1}
  Channels = {c1}
  Allowed <- Resolutions
  Cooldown = 1
  Retention = 2
  PerPage = 2
  MaxAlerts = 2
  Events = {"session", "crash", "fault", "user"}
  MaxEvents = 1
SPECIFICATION Spec
ACTION_CONSTRAINT FirstLeads
INVARIANTS OneAlert ResolvedForAReason
PROPERTY Fires
