---------------------------- MODULE ResourceRows ----------------------------
(* The shared resources beside another component, with which they share no *)
(* state.                                                                  *)
EXTENDS Naturals

CONSTANTS Editors, Nothing, Mask, ResourceOps, ResourceFaults

VARIABLES row, cfg, ref, edit, still, given, excused, lost

R == INSTANCE Resources WITH Requests <- Editors, None <- Nothing, MaxOps <- ResourceOps,
                             MaxFaults <- ResourceFaults, req <- edit, left <- still
resourceVars == <<row, cfg, ref, edit, still, given, excused, lost>>

ASSUME ResourcesAssumption ==
  /\ ResourceOps \in Nat /\ ResourceFaults \in Nat
  /\ Nothing \notin R!All \cup R!Own \cup Nat
  /\ Nothing \notin [key : Nat \cup {Mask, Nothing}, acct : {"account", Nothing}]
  /\ Mask \notin Nat \cup {Nothing}

(* What something refers to is not deleted, and the secret of a resource   *)
(* is the last that was given (resource_service.go, Delete and Update).    *)
InUseIsKept == R!InUseIsKept
SecretIsKept == R!SecretIsKept
=============================================================================
