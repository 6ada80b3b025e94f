----------------------------- MODULE MCProjects -----------------------------
(* The projects of an organization and its shared resources, which have no *)
(* state in common: a behaviour is one of either.                          *)
EXTENDS Projects, ResourceRows, TLC

VARIABLE part

Rest == /\ \A r \in R!All : row[r] = "live" /\ cfg[r] = R!Keys(0)
        /\ \A h \in R!Own : ref[h] = Nothing

EitherInit ==
  \/ part = "projects" /\ Init /\ R!Init /\ Rest
  \/ part = "resources" /\ R!Init /\ Init /\ ~ proj.there
(* Three requests to the projects, or two and a failing call.              *)
EitherNext ==
  /\ part' = part
  /\ \/ part = "projects" /\ Next /\ left'.ops + left'.faults > 0 /\ UNCHANGED resourceVars
     \/ part = "resources" /\ R!Next /\ UNCHANGED vars
EitherSpec == EitherInit /\ [][EitherNext]_<<part, vars, resourceVars>>

Symmetry == Permutations(Slots) \cup Permutations(Runs) \cup Permutations(Users)
=============================================================================
