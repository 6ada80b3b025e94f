---------------------------- MODULE AppLifecycle ----------------------------
(***************************************************************************)
(* One application that has been deployed, and the requests of its users:  *)
(* settings, scale, environment, secrets, webhook, restart, stop, delete,  *)
(* rollback, redeploy, and the two ways its status is looked up            *)
(* (internal/service/app_service.go, deploy_service.go:Rollback,           *)
(* internal/orchestrator/k3s/deploy.go).                                   *)
(*                                                                         *)
(* A request reads the whole row, changes some columns of its copy, writes *)
(* the whole copy back and calls the cluster, without a lock or a          *)
(* transaction.  The value of a column is the request that chose it.       *)
(***************************************************************************)
EXTENDS Naturals, FiniteSets

CONSTANTS
  Requests,   \* the requests of users
  Base,       \* what the columns hold at first
  Ops,        \* the operations requested
  Inputs,     \* the bodies of Update requests
  Pollers,    \* the ways the status is looked up: GetStatus, the lists
  MaxFaults,  \* bound of the model: calls of the cluster or database that fail
  MaxTurns    \* bound of the model: changes of the pods nobody asked for

ASSUME LifecycleAssumption ==
  /\ Base \notin Requests
  /\ Ops \subseteq {"update", "scale", "env", "secrets", "webhook", "restart", "stop",
                    "delete", "rollback", "redeploy"}
  /\ Inputs \subseteq [runtime : BOOLEAN, hpa : {"keep", "on", "off"}]
  /\ Pollers \subseteq {"status", "list"}
  /\ MaxFaults \in Nat /\ MaxTurns \in Nat

VARIABLES
  row,    \* the row of the application
  k8s,    \* its objects in the cluster
  req,    \* the requests
  poll,   \* the look at the status that is under way: GetStatus, or a list
  left,   \* how many more calls may fail, and pods change
  stale,  \* requests since whose read another actor has written the row
  drift,  \* requests have overlapped, or an Update has left an autoscaler behind
  held    \* a Stop has succeeded, and no request has acted since

vars == <<row, k8s, req, poll, left, stale, drift, held>>

-----------------------------------------------------------------------------
(* State *)

Chosen == Requests \cup {Base}
AppStatus == {"idle", "building", "deploying", "restarting", "running", "partial",
              "stopping", "stopped", "error"}
(* cfg stands for the runtime settings, hook for the webhook columns.      *)
Application == [there : BOOLEAN, status : AppStatus, cfg : Chosen, env : Chosen,
                sec : Chosen, hook : Chosen, reps : 0..2, hpa : BOOLEAN]
Deployed == [there |-> TRUE, status |-> "running", cfg |-> Base, env |-> Base,
             sec |-> Base, hook |-> Base, reps |-> 1, hpa |-> FALSE]

Pods == {"pending", "partial", "running", "broken"}
Cluster == [there : BOOLEAN, cfg : Chosen, env : Chosen, sec : Chosen, reps : 0..2,
            hpa : BOOLEAN, pods : Pods]

Input == [runtime |-> FALSE, hpa |-> "keep"]
PC == {"idle", "guard", "old", "store", "hpa", "apply", "after", "undo", "mark",
       "finish", "failed", "done"}
(* app is the copy the request works on, base what it read, old the second *)
(* read of Update, of which a failure is ignored (known).                  *)
Request == [op : Ops \cup {"none"}, pc : PC, in : [runtime : BOOLEAN, hpa : {"keep", "on", "off"}],
            reps : 0..2, app : Application, base : Application, old : Application,
            known : BOOLEAN]
NoRequest == [op |-> "none", pc |-> "idle", in |-> Input, reps |-> 0, app |-> Deployed,
              base |-> Deployed, old |-> Deployed, known |-> FALSE]

Poll == [by : Pollers \cup {"status"}, pc : {"idle", "look", "write"}, seen : AppStatus]
NoPoll == [by |-> "status", pc |-> "idle", seen |-> "idle"]

TypeOK ==
  /\ row \in Application /\ k8s \in Cluster
  /\ req \in [Requests -> Request]
  /\ poll \in Poll
  /\ left \in [fault : 0..MaxFaults, turn : 0..MaxTurns]
  /\ stale \subseteq Requests /\ drift \in BOOLEAN /\ held \in BOOLEAN

Init ==
  /\ row = Deployed
  /\ k8s = [there |-> TRUE, cfg |-> Base, env |-> Base, sec |-> Base, reps |-> 1,
            hpa |-> FALSE, pods |-> "running"]
  /\ req = [r \in Requests |-> NoRequest]
  /\ poll = NoPoll
  /\ left = [fault |-> MaxFaults, turn |-> MaxTurns]
  /\ stale = {} /\ drift = FALSE /\ held = FALSE

Ended(r) == req[r].pc \in {"failed", "done"}
Active(r) == ~ Ended(r) /\ req[r].pc # "idle"
(* Of a request that has ended, nothing but the operation and the outcome.  *)
Goto(r, pc) ==
  req' = [req EXCEPT ![r] = IF pc \in {"failed", "done"}
                            THEN [NoRequest EXCEPT !.op = req[r].op, !.pc = pc]
                            ELSE [@ EXCEPT !.pc = pc]]
Fault == left.fault > 0 /\ left' = [left EXCEPT !.fault = @ - 1]

-----------------------------------------------------------------------------
(* The store and the cluster *)

(* Applications().Update and UpdateStatus match no row once it is deleted. *)
Write(r, new) ==
  /\ row' = IF row.there THEN new ELSE row
  /\ stale' = stale \cup {q \in Requests \ {r} : Active(q)}
WriteStatus(r, st) == Write(r, [row EXCEPT !.status = st])

Kept == UNCHANGED <<row, stale>>

(* A change of the pod template starts a rollout.                          *)
Rolled(k) == [k EXCEPT !.pods = "pending"]

(* Deploy creates or updates the Deployment object; no replicas are one.   *)
Replicas(n) == IF n = 0 THEN 1 ELSE n
DeployObject(app) ==
  Rolled([k8s EXCEPT !.there = TRUE, !.cfg = app.cfg, !.env = app.env,
                     !.reps = Replicas(app.reps)])

(* Deploy: a namespace, volume or pull secret may fail before the object   *)
(* is updated, the service after.                                          *)
Deploys(app) == k8s' = DeployObject(app)
DeployFails(app) == Fault /\ (k8s' = k8s \/ k8s' = DeployObject(app))

Scaled(n) == [k8s EXCEPT !.reps = n]
ScaleWorks(n) == k8s.there /\ k8s' = Scaled(n) /\ UNCHANGED left
ScaleFails == (IF k8s.there THEN Fault ELSE UNCHANGED left) /\ UNCHANGED k8s

(* Restart, Rollback and UpdateEnvVars get the object and annotate it.     *)
Annotated(k) == k8s.there /\ k8s' = Rolled(k) /\ UNCHANGED left

ConfigureHPA == k8s' = [k8s EXCEPT !.hpa = TRUE]
DeleteHPA == k8s' = [k8s EXCEPT !.hpa = FALSE]
EnsureSecret(app) == k8s' = [k8s EXCEPT !.sec = app.sec]
DeleteObjects == k8s' = [k8s EXCEPT !.there = FALSE]

Phase ==
  IF ~ k8s.there THEN "not deployed"
  ELSE IF k8s.pods = "broken" THEN "failed"
  ELSE IF k8s.reps = 0 THEN "stopped" ELSE k8s.pods

-----------------------------------------------------------------------------
(* A request begins: it reads the row, and its guards let it pass. *)

Busy == {"building", "deploying", "restarting", "stopping"}
Stoppable == {"running", "partial", "error"}

Admits(op, app) ==
  CASE op = "scale" -> ~ app.hpa
    [] op \in {"restart", "stop"} -> app.status \in Stoppable
    [] op = "redeploy" -> app.status \notin Busy
    [] OTHER -> TRUE

(* The fields of UpdateAppInput that are given replace those of the copy;  *)
(* Create and Update reject a body that is not valid before they write.    *)
Edited(r, app, in) ==
  [app EXCEPT !.cfg = IF in.runtime THEN r ELSE @,
              !.hpa = IF in.hpa = "keep" THEN @ ELSE in.hpa = "on"]
WithEnv(r, app) == [app EXCEPT !.env = r]
WithSecrets(r, app) == [app EXCEPT !.sec = r]
FromScratch(r, app) == [Deployed EXCEPT !.hook = r]   \* mutant: a row of the input alone
WithWebhook(r, app) == [app EXCEPT !.hook = r]
OnCopy(r, op, app, in) ==
  CASE op = "update" -> Edited(r, app, in)
    [] op = "env" -> WithEnv(r, app)
    [] op = "secrets" -> WithSecrets(r, app)
    [] op = "webhook" -> WithWebhook(r, app)
    [] OTHER -> app

First(op) ==
  CASE op = "update" -> "old"
    [] op \in {"env", "secrets", "webhook"} -> "store"
    [] op = "stop" -> "hpa"
    [] op \in {"restart", "redeploy"} -> "mark"
    [] OTHER -> "apply"

Begin(r) ==
  /\ req[r].pc = "idle" /\ row.there
  /\ \E op \in Ops, in \in Inputs, n \in {0, 2} :
       /\ Admits(op, row)
       /\ op # "update" => in = (CHOOSE i \in Inputs : TRUE)
       /\ op # "scale" => n = 0
       /\ req' = [req EXCEPT ![r] =
            [op |-> op, pc |-> First(op), in |-> in, reps |-> n,
             app |-> OnCopy(r, op, row, in), base |-> row, old |-> Deployed,
             known |-> FALSE]]
  /\ drift' = (drift \/ \E q \in Requests : Active(q))
  /\ held' = FALSE
  /\ Kept /\ UNCHANGED <<k8s, poll, left>>

At(r, op, pc) == req[r].op = op /\ req[r].pc = pc

-----------------------------------------------------------------------------
(* AppService.Update *)

AfterStore(r) ==
  CASE req[r].in.hpa # "keep" -> "hpa"
    [] req[r].in.hpa = "keep" /\ req[r].in.runtime /\ req[r].app.status = "running" -> "apply"
    [] OTHER -> "done"

EditedCopy(r) == req[r].app   \* mutant: the rollback stores the edited copy
Before(r) == req[r].old

UpdateReadOld(r) ==
  /\ At(r, "update", "old")
  /\ \/ UNCHANGED left /\ req' = [req EXCEPT ![r].old = row, ![r].known = row.there, ![r].pc = "store"]
     \/ Fault /\ req' = [req EXCEPT ![r].known = FALSE, ![r].pc = "store"]
  /\ Kept /\ UNCHANGED <<k8s, poll, drift, held>>

UpdateStore(r) ==
  /\ At(r, "update", "store")
  /\ \/ Write(r, req[r].app) /\ Goto(r, AfterStore(r)) /\ UNCHANGED left
     \/ Fault /\ Kept /\ Goto(r, "failed")
  /\ UNCHANGED <<k8s, poll, drift, held>>

UpdateHPA(r) ==
  /\ At(r, "update", "hpa")
  /\ \/ /\ IF req[r].in.hpa = "on" THEN ConfigureHPA ELSE DeleteHPA
        /\ Goto(r, IF req[r].in.runtime /\ req[r].app.status = "running" THEN "apply" ELSE "done")
        /\ UNCHANGED left
     \/ Fault /\ UNCHANGED k8s /\ Goto(r, "undo")
  /\ Kept /\ UNCHANGED <<poll, drift, held>>

UpdateApply(r) ==
  /\ At(r, "update", "apply")
  /\ \/ Deploys(req[r].app) /\ Goto(r, "after") /\ UNCHANGED <<left, drift>>
     \/ DeployFails(req[r].app) /\ Goto(r, "undo") /\ drift' = (drift \/ req[r].in.hpa # "keep")
  /\ Kept /\ UNCHANGED <<poll, held>>

(* The whole row once more, for the names of the volumes.                  *)
UpdateAfter(r) ==
  /\ At(r, "update", "after")
  /\ Write(r, req[r].app) /\ Goto(r, "done")
  /\ UNCHANGED <<k8s, poll, left, drift, held>>

UpdateUndo(r) ==
  /\ At(r, "update", "undo")
  /\ IF req[r].known THEN Write(r, Before(r)) ELSE Kept
  /\ drift' = (drift \/ ~ req[r].known)
  /\ Goto(r, "failed")
  /\ UNCHANGED <<k8s, poll, left, held>>

-----------------------------------------------------------------------------
(* Scale, UpdateEnvVars, UpdateSecrets, EnableWebhook and DisableWebhook *)

ScaleApply(r) ==
  /\ At(r, "scale", "apply")
  /\ \/ ScaleWorks(req[r].reps)
        /\ req' = [req EXCEPT ![r].app.reps = req[r].reps, ![r].pc = "store"]
     \/ ScaleFails /\ Goto(r, "failed")
  /\ Kept /\ UNCHANGED <<poll, drift, held>>

AfterSettings(r) ==
  CASE req[r].op = "secrets" -> "apply"
    [] req[r].op = "env" /\ req[r].app.status \notin {"idle", "stopped", "building"} -> "apply"
    [] OTHER -> "done"

StoreSettings(r) ==
  /\ req[r].op \in {"scale", "env", "secrets", "webhook"} /\ req[r].pc = "store"
  /\ \/ Write(r, req[r].app) /\ Goto(r, AfterSettings(r)) /\ UNCHANGED left
     \/ Fault /\ Kept /\ Goto(r, "failed")
  /\ UNCHANGED <<k8s, poll, drift, held>>

(* A failure is reported: the environment is saved, but not applied.       *)
EnvApply(r) ==
  /\ At(r, "env", "apply")
  /\ \/ Annotated([k8s EXCEPT !.env = req[r].app.env]) /\ Goto(r, "done")
     \/ ScaleFails /\ Goto(r, "failed")
  /\ Kept /\ UNCHANGED <<poll, drift, held>>

SecretsApply(r) ==
  /\ At(r, "secrets", "apply")
  /\ \/ EnsureSecret(req[r].app) /\ Goto(r, "done") /\ UNCHANGED left
     \/ Fault /\ UNCHANGED k8s /\ Goto(r, "undo")
  /\ Kept /\ UNCHANGED <<poll, drift, held>>

(* The copy with the secrets that were read.                               *)
SecretsUndo(r) ==
  /\ At(r, "secrets", "undo")
  /\ Write(r, [req[r].app EXCEPT !.sec = req[r].base.sec]) /\ Goto(r, "failed")
  /\ UNCHANGED <<k8s, poll, left, drift, held>>

-----------------------------------------------------------------------------
(* Restart, Stop and Delete *)

MarkRestarting(r) ==
  /\ At(r, "restart", "mark")
  /\ WriteStatus(r, "restarting") /\ Goto(r, "apply")
  /\ UNCHANGED <<k8s, poll, left, drift, held>>

RestartApply(r) ==
  /\ At(r, "restart", "apply")
  /\ \/ Annotated(k8s) /\ Goto(r, "done")
     \/ ScaleFails /\ Goto(r, "undo")
  /\ Kept /\ UNCHANGED <<poll, drift, held>>

StopWithoutSuspend(r) == Goto(r, "mark") /\ UNCHANGED <<k8s, left>>   \* mutant
SuspendHPA(r) ==
  IF ~ req[r].app.hpa THEN Goto(r, "mark") /\ UNCHANGED <<k8s, left>>
  ELSE \/ DeleteHPA /\ Goto(r, "mark") /\ UNCHANGED left
       \/ Fault /\ UNCHANGED k8s /\ Goto(r, "failed")

StopHPA(r) ==
  /\ At(r, "stop", "hpa")
  /\ SuspendHPA(r)
  /\ Kept /\ UNCHANGED <<poll, drift, held>>

MarkStopping(r) ==
  /\ At(r, "stop", "mark")
  /\ WriteStatus(r, "stopping") /\ Goto(r, "apply")
  /\ UNCHANGED <<k8s, poll, left, drift, held>>

StopApply(r) ==
  /\ At(r, "stop", "apply")
  /\ \/ ScaleWorks(0) /\ Goto(r, "finish")
     \/ ScaleFails /\ Goto(r, "undo")
  /\ Kept /\ UNCHANGED <<poll, drift, held>>

MarkStopped(r) ==
  /\ At(r, "stop", "finish")
  /\ WriteStatus(r, "stopped") /\ Goto(r, "done")
  /\ held' = ~ drift
  /\ UNCHANGED <<k8s, poll, left, drift>>

MarkError(r) ==
  /\ req[r].op \in {"restart", "stop"} /\ req[r].pc = "undo"
  /\ WriteStatus(r, "error") /\ Goto(r, "failed")
  /\ UNCHANGED <<k8s, poll, left, drift, held>>

(* The server dies, or the write of a status fails, which is not reported: *)
(* the request ends where it is.                                           *)
CutShort(r) ==
  /\ req[r].op \in {"restart", "stop"} /\ req[r].pc \in {"apply", "finish", "undo"}
  /\ Fault /\ Goto(r, "failed")
  /\ Kept /\ UNCHANGED <<k8s, poll, drift, held>>

(* A failure of the cluster is logged, and the row is deleted all the same.*)
DeleteApply(r) ==
  /\ At(r, "delete", "apply")
  /\ \/ DeleteObjects /\ UNCHANGED left
     \/ Fault /\ UNCHANGED k8s
  /\ Goto(r, "finish")
  /\ Kept /\ UNCHANGED <<poll, drift, held>>

DeleteRow(r) ==
  /\ At(r, "delete", "finish")
  /\ Write(r, [row EXCEPT !.there = FALSE]) /\ Goto(r, "done")
  /\ UNCHANGED <<k8s, poll, left, drift, held>>

-----------------------------------------------------------------------------
(* DeployService.Rollback, and a deployment without a build.  Rollback     *)
(* annotates the object, which starts a rollout of the same template.      *)

RollbackApply(r) ==
  /\ At(r, "rollback", "apply")
  /\ \/ Annotated(k8s) /\ Goto(r, "finish")
     \/ ScaleFails /\ Goto(r, "failed")
  /\ Kept /\ UNCHANGED <<poll, drift, held>>

RollbackMark(r) ==
  /\ At(r, "rollback", "finish")
  /\ WriteStatus(r, "running") /\ Goto(r, "done")
  /\ UNCHANGED <<k8s, poll, left, drift, held>>

(* Trigger marks the application; the job reads the row.                   *)
RedeployMark(r) ==
  /\ At(r, "redeploy", "mark")
  /\ WriteStatus(r, "building")
  /\ req' = [req EXCEPT ![r].app = [row EXCEPT !.status = "building"],
                        ![r].base = [row EXCEPT !.status = "building"], ![r].pc = "apply"]
  /\ UNCHANGED <<k8s, poll, left, drift, held>>

RedeployApply(r) ==
  /\ At(r, "redeploy", "apply")
  /\ \/ Deploys(req[r].app) /\ Goto(r, "finish") /\ UNCHANGED left
     \/ DeployFails(req[r].app) /\ Goto(r, "undo")
  /\ Kept /\ UNCHANGED <<poll, drift, held>>

RedeployMarkRunning(r) ==
  /\ At(r, "redeploy", "finish")
  /\ WriteStatus(r, "running") /\ Goto(r, "store")
  /\ UNCHANGED <<k8s, poll, left, drift, held>>

RedeployStore(r) ==
  /\ At(r, "redeploy", "store")
  /\ Write(r, req[r].app) /\ Goto(r, IF req[r].app.hpa THEN "hpa" ELSE "done")
  /\ UNCHANGED <<k8s, poll, left, drift, held>>

RedeployHPA(r) ==
  /\ At(r, "redeploy", "hpa")
  /\ \/ ConfigureHPA /\ UNCHANGED left
     \/ Fault /\ UNCHANGED k8s
  /\ Goto(r, "done")
  /\ Kept /\ UNCHANGED <<poll, drift, held>>

RedeployFails(r) ==
  /\ At(r, "redeploy", "undo")
  /\ WriteStatus(r, "error") /\ Goto(r, "failed")
  /\ UNCHANGED <<k8s, poll, left, drift, held>>

-----------------------------------------------------------------------------
(* GetStatus, and the status the lists of applications write. *)

Forgiving(p, phase) ==   \* mutant: a failed rollout is not a status
  CASE phase = "running" -> "running"
    [] phase \in {"stopped", "not deployed"} -> "stopped"
    [] OTHER -> "none"
Verbatim(p, phase) == phase   \* mutant: the phase is taken for a status
Reported(p, phase) ==
  CASE phase = "running" -> "running"
    [] phase = "stopped" -> "stopped"
    [] phase = "failed" -> "error"
    [] phase = "not deployed" /\ p = "status" -> "stopped"
    [] phase = "pending" /\ p = "list" -> "deploying"
    [] phase = "partial" /\ p = "list" -> "partial"
    [] OTHER -> "none"

PollRead(p) ==
  /\ poll.pc = "idle" /\ row.there
  /\ p = "list" => row.status \notin {"idle", "building"}
  /\ poll' = [by |-> p, pc |-> "look", seen |-> row.status]
  /\ Kept /\ UNCHANGED <<k8s, req, left, drift, held>>

PollLook(p) ==
  /\ poll.pc = "look" /\ poll.by = p
  /\ LET st == Reported(p, Phase) IN
     poll' = IF st \in {"none", poll.seen} THEN NoPoll
             ELSE [by |-> p, pc |-> "write", seen |-> st]
  /\ Kept /\ UNCHANGED <<k8s, req, left, drift, held>>

PollWrite(p) ==
  /\ poll.pc = "write" /\ poll.by = p
  /\ row' = IF row.there THEN [row EXCEPT !.status = poll.seen] ELSE row
  /\ stale' = stale \cup {q \in Requests : Active(q)}
  /\ poll' = NoPoll
  /\ UNCHANGED <<k8s, req, left, drift, held>>

-----------------------------------------------------------------------------
(* The cluster *)

(* A rollout makes progress, completes, or fails at its deadline.          *)
PodsSettle ==
  /\ k8s.there /\ k8s.pods \in {"pending", "partial"}
  /\ \E p \in Pods \ {"pending", k8s.pods} : k8s' = [k8s EXCEPT !.pods = p]
  /\ Kept /\ UNCHANGED <<req, poll, left, drift, held>>

PodsTurn ==
  /\ k8s.there /\ left.turn > 0
  /\ \E p \in Pods \ {k8s.pods} : k8s' = [k8s EXCEPT !.pods = p]
  /\ left' = [left EXCEPT !.turn = @ - 1]
  /\ Kept /\ UNCHANGED <<req, poll, drift, held>>

(* The autoscaler, as Stop takes it: it may scale a stopped application.   *)
Autoscale ==
  /\ k8s.there /\ k8s.hpa /\ left.turn > 0
  /\ \E n \in 1..2 \ {k8s.reps} : k8s' = [k8s EXCEPT !.reps = n]
  /\ left' = [left EXCEPT !.turn = @ - 1]
  /\ Kept /\ UNCHANGED <<req, poll, drift, held>>

Step(r) ==
  \/ UpdateReadOld(r) \/ UpdateStore(r) \/ UpdateHPA(r) \/ UpdateApply(r)
  \/ UpdateAfter(r) \/ UpdateUndo(r)
  \/ ScaleApply(r) \/ StoreSettings(r) \/ EnvApply(r) \/ SecretsApply(r) \/ SecretsUndo(r)
  \/ MarkRestarting(r) \/ RestartApply(r)
  \/ StopHPA(r) \/ MarkStopping(r) \/ StopApply(r) \/ MarkStopped(r) \/ MarkError(r)
  \/ CutShort(r) \/ DeleteApply(r) \/ DeleteRow(r)
  \/ RollbackApply(r) \/ RollbackMark(r)
  \/ RedeployMark(r) \/ RedeployApply(r) \/ RedeployMarkRunning(r) \/ RedeployStore(r)
  \/ RedeployHPA(r) \/ RedeployFails(r)
Look(p) == PollRead(p) \/ PollLook(p) \/ PollWrite(p)

Next ==
  \/ \E r \in Requests : Begin(r) \/ Step(r)
  \/ \E p \in Pollers : Look(p)
  \/ PodsSettle \/ PodsTurn \/ Autoscale

(* A request runs to its end; an open dashboard asks for the status every  *)
(* half minute or more often, and lists end their write; rollouts complete *)
(* or reach their deadline.                                                *)
Fairness ==
  /\ \A r \in Requests : WF_vars(Step(r))
  /\ SF_vars(PollRead("status"))
  /\ \A p \in Pollers : WF_vars(PollLook(p)) /\ WF_vars(PollWrite(p))
  /\ SF_vars(\E p \in {"running", "broken"} : PodsSettle /\ k8s'.pods = p)

Spec == Init /\ [][Next]_vars /\ Fairness

-----------------------------------------------------------------------------
(* Properties *)

(* The columns an operation is there to change.                            *)
Own(op) ==
  CASE op = "update" -> {"cfg", "hpa"}
    [] op = "env" -> {"env"}
    [] op = "secrets" -> {"sec"}
    [] op = "webhook" -> {"hook"}
    [] op = "scale" -> {"reps"}
    [] op \in {"restart", "stop", "rollback", "redeploy"} -> {"status"}
    [] op = "delete" -> {"there"}
    [] OTHER -> {}

(* Although every request writes the whole row, one whose read no other    *)
(* actor has overtaken changes no column but its own, whichever of its     *)
(* steps fail: an edit is lost only to a request that overlapped it.       *)
LostOnlyByOverlap ==
  [][\A r \in Requests :
       req[r].pc # req'[r].pc /\ req[r].pc # "idle" /\ r \notin stale
         => \A f \in DOMAIN row \ Own(req[r].op) : row'[f] = row[f]]_vars

(* A settings request that reports a failure, and was not overtaken,       *)
(* leaves the row as it found it, even if it failed after its first write. *)
FailedUpdateRestores ==
  [][\A r \in Requests :
       /\ req[r].op \in {"update", "secrets"} /\ Active(r) /\ req'[r].pc = "failed"
       /\ r \notin stale
       /\ req[r].op = "update" => req[r].known \/ req[r].pc = "store"
       => row' = req[r].base]_vars

(* A Stop that succeeded is not undone by the autoscaler, whatever was     *)
(* done to the application before, as long as no failed Update has left an *)
(* autoscaler behind and requests have come one after another.             *)
StopHolds == held => k8s.reps = 0

(* Nothing the cluster does or a dying request leaves behind keeps the row *)
(* in a status other than the one of the cluster: restarting, stopping and *)
(* building, which block deployments, are left in the end.                 *)
Settled == row.there => row.status = Reported("status", Phase)
StatusSettles == <>[]Settled

(* A redeployment reconciles the cluster with a row that an Update has put *)
(* back, as that Update says: no autoscaler stays that the row does not    *)
(* know.                                                                   *)
RedeployReconciles ==
  (\E r \in Requests : req[r].op = "redeploy" /\ req[r].pc = "done") /\ stale = {}
    => (k8s.hpa => row.hpa \/ \E r \in Requests : Active(r))
=============================================================================
