CONSTANTS
  Backups = {1, 2}
  Workers = {w1, w2}
  Users = {u1}
  Buckets = {b1, b2}
  NoBucket = none
  Cron <- Late
  Keeps = {1}
  Minutes = 2
  MaxReadAttempts = 2
  ReadCap = 2
  Events = {"save", "session", "crash", "shutdown", "timeout", "fault"}
  MaxEvents = 1
SPECIFICATION Spec
ACTION_CONSTRAINT AskedEarly
SYMMETRY Symmetry
CHECK_DEADLOCK FALSE
INVARIANTS OnePerMinute BackupsAreKept 
