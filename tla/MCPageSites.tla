---------------------------- MODULE MCPageSites ----------------------------
(* Small instances of PageSites for TLC. *)
EXTENDS PageSites
=============================================================================
