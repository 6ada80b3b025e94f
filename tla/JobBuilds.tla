------------------------------ MODULE JobBuilds ------------------------------
(* BuildJobs beside another component, with which it shares no state.      *)
EXTENDS Naturals

CONSTANTS Builds, NoBuild, BuildSeconds, MaxPushes
VARIABLES head, long, reg, build, buildJob, jobPod, image, fresh, broken

J == INSTANCE BuildJobs
       WITH None <- NoBuild, Seconds <- BuildSeconds, call <- build, job <- buildJob, pod <- jobPod
jobVars == <<head, long, reg, build, buildJob, jobPod, image, fresh, broken>>

(* A build that succeeds has an image, and got past EnsureRegistry with a  *)
(* whole registry (k3s/build.go, k3s/registry.go).                         *)
SuccessHasImage == J!SuccessHasImage
RegistryIsWhole == J!RegistryIsWhole
=============================================================================
