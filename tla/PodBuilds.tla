------------------------------ MODULE PodBuilds ------------------------------
(* BuildPods beside another component, with which it shares no state.      *)
EXTENDS Naturals

CONSTANTS Calls, Nobody, Seconds, MaxFaults
VARIABLES call, pod, secret, faults, did, misread, leaked

P == INSTANCE BuildPods WITH None <- Nobody, left <- faults
podVars == <<call, pod, secret, faults, did, misread, leaked>>

(* A call that is over leaves neither a Secret nor a pod; what it returns  *)
(* is what its pod has done (k3s/page_build.go, k3s/worker_build.go).      *)
NothingIsLeft == P!NothingIsLeft
ResultIsTrue == P!ResultIsTrue
=============================================================================
