--------------------------- MODULE MCPageDeploys ---------------------------
(* Deployments of a page, and the builds of images, which have no state in *)
(* common: a behaviour is one of either.  One of pages either has a        *)
(* deployment that outlasts its message, or an event.                      *)
EXTENDS PageDeploys, JobBuilds, TLC

VARIABLE part

EitherInit ==
  /\ Init /\ J!Init
  /\ \/ part \in {"slow", "pages"} /\ ~ long /\ reg = J!Whole
     \/ part = "builds"
EitherNext ==
  /\ part' = part
  /\ \/ part = "slow" /\ Next /\ left' = left /\ UNCHANGED jobVars
     \/ part = "pages" /\ Next /\ late' = late /\ UNCHANGED jobVars
     \/ part = "builds" /\ J!Next /\ UNCHANGED vars
EitherSpec == EitherInit /\ [][EitherNext]_<<part, vars, jobVars>>

(* The worker slots are interchangeable.                                   *)
SlotSymmetry == Permutations(Slots)
=============================================================================
