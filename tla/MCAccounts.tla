----------------------------- MODULE MCAccounts -----------------------------
(* The accounts of an organization and its nodes, which have no state in   *)
(* common: a behaviour is one of either.                                   *)
EXTENDS Accounts, NodeInstalls, Authorization, TLC

(* The lists and the guards agree, for two projects and two teams, an      *)
(* application and its deployment, and any caller.                         *)
Worlds ==
  [live : SUBSET {1, 2}, org : [{1, 2} -> {"ours", "other"}], team : [{1, 2} -> {1, 2}],
   member : SUBSET ({"she"} \X {1, 2}), there : SUBSET {"app", "deploy"},
   project : [{"app", "deploy"} -> {1, 2}], app : {[d \in {"deploy"} |-> "app"]}]
Callers == [user : {"she", "he"}, org : {"ours"}, role : {"admin", "member"}]
ASSUME ListsAndGuards ==
  \A w \in Worlds, c \in Callers :
    /\ \A x \in {"app", "deploy"} : ListsAgree(w, c, x) /\ AdminsSeeMore(w, c, x)
    /\ DeploymentsFollow(w, c, "deploy")

VARIABLE part

EitherInit ==
  /\ Init /\ N!Init
  /\ \A m, o \in Machines : hostkey[m] = hostkey[o]
  /\ \/ part = "accounts" /\ joining = {} /\ cluster = {}
     \/ part = "nodes" /\ user[1] = NoUser /\ inv[1].role = "member"
EitherNext ==
  /\ part' = part
  /\ \/ part = "accounts" /\ Next /\ UNCHANGED nodeVars
     \/ part = "nodes" /\ N!Next /\ UNCHANGED vars
EitherSpec == EitherInit /\ [][EitherNext]_<<part, vars, nodeVars>>

(* The slots do the initializations too.                                   *)
Symmetry == Permutations(Slots) \cup Permutations(Servers) \cup Permutations(HostKeys)
=============================================================================
