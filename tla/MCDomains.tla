------------------------------ MODULE MCDomains ------------------------------
(* The domains of applications, and the settings about sign-in and about   *)
(* the server's own address, which have no state in common: a behaviour is *)
(* one of either.                                                          *)
EXTENDS Domains, SettingKeys, TLC

VARIABLE part

EitherInit ==
  /\ Init /\ S!Init
  /\ \/ part = "domains" /\ val.done = "off"
     \/ /\ part = "settings"
        /\ \E d \in Domains :
             /\ dom[d].life = "active" /\ dom[d].host \in Generated /\ dom[d].tls = "auto"
             /\ ing[<<dom[d].app, dom[d].host>>].dom = d
EitherNext ==
  /\ part' = part
  /\ \/ part = "domains" /\ Next /\ left'.ops + left'.faults > 0 /\ UNCHANGED settingVars
     \/ part = "settings" /\ S!Next /\ rest'.ops + rest'.faults > 0 /\ UNCHANGED vars
EitherSpec == EitherInit /\ [][EitherNext]_<<part, vars, settingVars>>

AllOps == Operation \ {"none"}
(* The requests write settings too.                                        *)
AppSymmetry == Permutations(Apps) \cup Permutations(Requests) \cup Permutations(Replicas)
=============================================================================
