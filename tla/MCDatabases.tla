----------------------------- MODULE MCDatabases -----------------------------
(* A managed database, and calls that build in a pod, which have no state  *)
(* in common: a behaviour is one of either.                                *)
EXTENDS Databases, PodBuilds, TLC

VARIABLE part

EitherInit ==
  /\ Init /\ P!Init
  /\ \/ part = "database"
     \/ part = "pods" /\ engine = "redis" /\ ~ There
(* Requests and events are three altogether.                               *)
Three == MaxOps + MaxEvents - left'.ops - left'.events <= 3
EitherNext ==
  /\ part' = part
  /\ \/ part = "database" /\ Next /\ Three /\ UNCHANGED podVars
     \/ part = "pods" /\ P!Next /\ UNCHANGED vars
EitherSpec == EitherInit /\ [][EitherNext]_<<part, vars, podVars>>

AllOps == {"create", "delete", "status", "list", "expose", "hide", "config", "backup", "tick",
           "reconcile", "restore"}
Symmetry == Permutations(Requests) \cup Permutations(Calls)
=============================================================================
