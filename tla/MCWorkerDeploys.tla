---------------------------- MODULE MCWorkerDeploys ----------------------------
EXTENDS WorkerDeploys, WranglerConfig, TLC

AllOps == {"deploy", "confirm", "edit", "move", "delete"}
(* Requests and events are three altogether.                               *)
Three == MaxOps + MaxEvents - left'.ops - left'.events <= 3

WorkerSymmetry == Permutations(Requests) \cup Permutations(Slots)
=============================================================================
