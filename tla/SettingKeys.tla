----------------------------- MODULE SettingKeys -----------------------------
(* Settings beside another component, with which it shares no state.       *)
EXTENDS Naturals

CONSTANTS Writers, Replicas, Unset, MaxWrites, MaxLosses

ASSUME SettingsAssumption ==
  /\ Unset \notin Replicas
  /\ Unset \notin {"only", "enabled", "id", "secret", "ip", "base", "env", "node", "local",
                   "user", "never", "on", "off"}
  /\ MaxWrites \in Nat /\ MaxLosses \in Nat

VARIABLES val, write, boot, rest, given, amiss

S == INSTANCE Settings
       WITH Requests <- Writers, Servers <- Replicas, None <- Unset, MaxOps <- MaxWrites,
            MaxFaults <- MaxLosses, req <- write, left <- rest, odd <- amiss
settingVars == <<val, write, boot, rest, given, amiss>>

(* Sign-in by Google alone is possible where it is enforced; what a user   *)
(* has set stays (setting_service.go).                                     *)
ModeCanBeUsed == S!ModeCanBeUsed
UserIsHeeded == S!UserIsHeeded
=============================================================================
