------------------------------- MODULE MCBackups -------------------------------
EXTENDS BackupRuns, TLC

(* "0,57-59/2" *)
Late == {[kind |-> "number", lo |-> 0, hi |-> 0, step |-> 1],
         [kind |-> "range", lo |-> 57, hi |-> 59, step |-> 2]}

(* The matching of a field of minutes agrees with the minutes that cron    *)
(* expands it to.                                                          *)
Atoms == [kind : {"star", "range", "number"}, lo : {0, 7, 30, 57}, hi : {7, 40, 59}, step : {1, 2, 7, 60}]
ASSUME ScheduleIsCron ==
  \A a \in Atoms, v \in 0..59 : B!MatchField({a}, v) <=> B!Expands({a}, v)

(* A user asks at first, before the leader is elected and before the event.*)
AskedEarly ==
  (\E u \in Users : call[u] = B!NoCall /\ call'[u] # B!NoCall) =>
    rest = MaxEvents /\ lock = 0 /\ \A b \in Backups : bak[b].st = "none"
Spec == B!Init /\ [][B!Next]_backupVars

Symmetry == {p @@ q : p \in Permutations(Workers), q \in Permutations(Buckets)}
=============================================================================
