-------------------------- MODULE MCDeployPipeline --------------------------
(* Small instances of DeployPipeline for TLC. *)
EXTENDS DeployPipeline, TLC

(* An edit is the only event, until it is overwritten. *)
EditAlone ==
  left # left' => /\ edit # edit' => left = MaxEvents
                  /\ edit.pc = "idle" /\ app.cfg = 0

(* The status is looked at when the application is built from source, after  *)
(* both deployments have been requested.                                     *)
LookAfterPushes ==
  left # left' => /\ app.source = "git"
                  /\ \A d \in Deploys : dep[d].status # "none"

(* The worker slots are interchangeable, and so are deployments that a user  *)
(* or a push may begin.                                                      *)
Symmetry == {p @@ q : p \in Permutations(Slots), q \in Permutations(Deploys)}
=============================================================================
