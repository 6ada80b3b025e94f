----------------------------- MODULE BackupRuns -----------------------------
(* The backups of Orkai's own database beside another component, with      *)
(* which they share no state.                                              *)
EXTENDS Naturals

CONSTANTS Backups, Workers, Users, Buckets, NoBucket, Cron, Keeps, Minutes, MaxReadAttempts,
          ReadCap, Events, MaxEvents

ASSUME BackupsAssumption ==
  /\ Backups \subseteq Nat \ {0} /\ Minutes \in Nat \ {0} /\ NoBucket \notin Buckets
  /\ 0 \notin Workers
  /\ Cron \subseteq [kind : {"star", "range", "number"}, lo : Nat, hi : Nat, step : Nat \ {0}]
  /\ Keeps \subseteq Nat \ {0}
  /\ MaxReadAttempts \in Nat /\ ReadCap \in Nat /\ MaxEvents \in Nat

VARIABLES clock, lock, proc, cfg, save, call, bak, object, queue, exec, rest, odd

B == INSTANCE Backups WITH left <- rest
backupVars == <<clock, lock, proc, cfg, save, call, bak, object, queue, exec, rest, odd>>

(* One backup for a scheduled minute; what is listed as completed is in    *)
(* its bucket and the last is never pruned; one that is shown as under way *)
(* is going to end (system_backup_service.go).                             *)
OnePerMinute == B!OnePerMinute
BackupsAreKept == B!BackupsAreKept
BackupIsPursued == B!BackupIsPursued
=============================================================================
