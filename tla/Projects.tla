------------------------------ MODULE Projects ------------------------------
(***************************************************************************)
(* A project of a team: its namespace, the environment, quota and network  *)
(* policy it gives to what runs in it, one application and one cron job    *)
(* with its manual runs (internal/service/project_service.go,              *)
(* cronjob_service.go, team_service.go, app_service.go:UpdateEnvVars and   *)
(* the orchestrator calls they make).  And the roles of the organization's *)
(* members, which the same service keeps.                                  *)
(*                                                                         *)
(* Every request reads rows, writes whole rows back and then tells the     *)
(* cluster, without a lock.  Rows are deleted softly: the database neither *)
(* refuses to delete a team that has projects nor removes the rows of a    *)
(* deleted project.  A value is the number of the request that chose it.   *)
(***************************************************************************)
EXTENDS Naturals, FiniteSets

CONSTANTS
  Slots,      \* requests that may be under way at a time
  Runs,       \* manual runs of the cron job
  Users,      \* members of the organization
  None,       \* no value, no copy, no object
  Ops,        \* the operations requested
  MaxOps,     \* bound of the model: requests
  MaxFaults   \* bound of the model: calls that fail, crashes of the server

Operations == {"project", "settings", "delete project", "cron", "edit cron", "delete cron",
               "trigger", "app env", "delete team", "role", "remove"}
ASSUME ProjectsAssumption ==
  /\ Slots \cap Runs = {} /\ Ops \subseteq Operations
  /\ None \notin Runs \cup Users \cup Operations \cup Nat
  /\ MaxOps \in Nat /\ MaxFaults \in Nat

VARIABLES
  team,    \* the row of the team is there
  proj,    \* the row of the project
  cron,    \* the row of the cron job
  app,     \* the environment of the application's row
  clus,    \* the namespace and what is in it
  run,     \* the rows of the runs
  job,     \* the Jobs of the runs in the cluster
  role,    \* the members and their roles
  req,     \* the requests
  watch,   \* the goroutines that wait for a run
  left,    \* what the bounds leave
  stale,   \* requests and goroutines since whose read another has written a row they hold
  off      \* what an overlap or a failure has left unlike the rows

rows == <<team, proj, cron, app, run, role>>
vars == <<team, proj, cron, app, clus, run, job, role, req, watch, left, stale, off>>

-----------------------------------------------------------------------------
(* State *)

Value == 0..MaxOps
Fields == {"env", "quota", "pol", "cfg"}

Project == [there : BOOLEAN, ns : BOOLEAN, sa : BOOLEAN, env : Value, quota : Value, pol : Value]
CronJob == [there : BOOLEAN, cfg : Value, env : Value, status : {"idle", "running"}]
NoProject == [there |-> FALSE, ns |-> FALSE, sa |-> FALSE, env |-> 0, quota |-> 0, pol |-> 0]
NoCron == [there |-> FALSE, cfg |-> 0, env |-> 0, status |-> "idle"]

(* What a cron job and an application run with: the project's environment  *)
(* below their own.                                                        *)
Template == [cfg : Value, own : Value, base : Value]
Env == [own : Value, base : Value]
Cluster == [ns : {"none", "active", "ending"}, sa : BOOLEAN, cm : Value, quota : Value,
            pol : Value, cj : Template \cup {None}, app : Env \cup {None}]
Empty == [ns |-> "none", sa |-> FALSE, cm |-> 0, quota |-> 0, pol |-> 0, cj |-> None,
          app |-> None]

PC == {"free", "insert", "name", "namespace", "account", "record", "write", "config", "apps",
       "push app", "crons", "push cron", "quota", "policy", "base", "job", "count", "undo",
       "delete", "row"}
Request == [op : Operations \cup {None}, pc : PC, v : Value, p : Project \cup {None},
            c : CronJob \cup {None}, a : Value \cup {None}, t : BOOLEAN, set : SUBSET Fields,
            r : Runs \cup {None}, u : Users \cup {None}, to : {"admin", "member"}]
Free == [op |-> None, pc |-> "free", v |-> 0, p |-> None, c |-> None, a |-> None, t |-> FALSE,
         set |-> {}, r |-> None, u |-> None, to |-> "member"]
Watch == [pc : {"wait", "row"}, c : CronJob]
Things == {"team", "ns", "cm", "quota", "pol", "app", "cj", "status", "run", "admin"}

TypeOK ==
  /\ team \in BOOLEAN /\ proj \in Project /\ cron \in CronJob /\ app \in Value \cup {None}
  /\ clus \in Cluster
  /\ run \in [Runs -> {"none", "running", "succeeded", "failed"}]
  /\ job \in [Runs -> {"none", "active", "complete", "broken"}]
  /\ role \in [Users -> {"admin", "member", "gone"}]
  /\ req \in [Slots -> Request]
  /\ watch \in [Runs -> Watch \cup {None}]
  /\ left \in [ops : Value, faults : 0..MaxFaults]
  /\ stale \subseteq Slots \cup Runs
  /\ off \subseteq Things

(* Either there is a team without a project, or a project with a running   *)
(* application and perhaps a cron job.                                     *)
Init ==
  /\ team = TRUE
  /\ proj \in {NoProject, [NoProject EXCEPT !.there = TRUE, !.ns = TRUE, !.sa = TRUE]}
  /\ cron \in {NoCron, [NoCron EXCEPT !.there = TRUE]}
  /\ cron.there => proj.there
  /\ app = IF proj.there THEN 0 ELSE None
  /\ clus = IF ~ proj.there THEN Empty
            ELSE [Empty EXCEPT !.ns = "active", !.sa = TRUE,
                               !.app = [own |-> 0, base |-> 0],
                               !.cj = IF cron.there THEN [cfg |-> 0, own |-> 0, base |-> 0]
                                      ELSE None]
  /\ run = [r \in Runs |-> "none"] /\ job = [r \in Runs |-> "none"]
  /\ role = [u \in Users |-> "admin"]
  /\ req = [s \in Slots |-> Free] /\ watch = [r \in Runs |-> None]
  /\ left = [ops |-> MaxOps, faults |-> MaxFaults]
  /\ stale = {} /\ off = {}

-----------------------------------------------------------------------------
(* Who holds a copy of a row, and what a write makes of it *)

Busy(s) == req[s].pc # "free"
At(s, op, pc) == req[s].op = op /\ req[s].pc = pc
Actors == {s \in Slots : Busy(s)} \cup {r \in Runs : watch[r] # None}
Holds(i, what) ==
  IF i \in Runs THEN what \in {"cron", "all"}
  ELSE CASE what = "team" -> req[i].t
         [] what = "proj" -> req[i].p # None
         [] what = "cron" -> req[i].c # None
         [] what = "app" -> req[i].a # None
         [] what = "role" -> req[i].u # None
         [] what = "all" -> TRUE

(* What in the cluster follows the row.                                    *)
Derived(what) ==
  CASE what = "team" -> {"team"}
    [] what = "proj" -> {"ns", "cm", "quota", "pol", "app", "cj"}
    [] what = "cron" -> {"cj", "status"}
    [] what = "app" -> {"app"}
    [] what = "role" -> {"admin"}
    [] what = "all" -> {"ns"}
Overtake(i, what) == stale' = stale \cup {j \in Actors \ {i} : Holds(j, what)}
Unlike(i, things) == off' = IF i \in stale THEN off \cup things ELSE off
Wrote(i, what) == Overtake(i, what) /\ Unlike(i, Derived(what))
Pushed(i, thing) ==   \* lasting, unless the namespace is about to go
  off' = IF i \in stale THEN off \cup {thing}
         ELSE IF clus.ns = "ending" THEN off ELSE off \ {thing}
Amiss(things) == off' = off \cup things

Fine == UNCHANGED left
Fault == left.faults > 0 /\ left' = [left EXCEPT !.faults = @ - 1]
Goto(s, pc) == req' = [req EXCEPT ![s].pc = pc]
End(s) == req' = [req EXCEPT ![s] = Free]
Fails(s) == Fault /\ End(s) /\ UNCHANGED <<rows, clus, job, watch, stale, off>>

-----------------------------------------------------------------------------
(* The stores and the cluster *)

(* GetByID of a project fails without the row of its team.                 *)
Visible == proj.there /\ team
(* An update of a row that is no longer there changes nothing.             *)
WriteProject(copy) == proj' = IF proj.there THEN copy ELSE proj
WriteCron(copy) == cron' = IF cron.there THEN copy ELSE cron

Merged(c, base) == [cfg |-> c.cfg, own |-> c.env, base |-> base]

(* UpdateCronJob creates what it does not find, and a namespace for it; in *)
(* a namespace that is being deleted nothing can be created.               *)
CanPut == clus.cj # None \/ clus.ns # "ending"
PutNewCron(spec) ==   \* mutant: what is there is kept
  clus' = [clus EXCEPT !.cj = IF @ = None THEN spec ELSE @,
                       !.ns = IF @ = "none" THEN "active" ELSE @]
PutCron(spec) ==
  clus' = [clus EXCEPT !.cj = spec, !.ns = IF @ = "none" THEN "active" ELSE @]
(* A deletion that has passed the cluster, or a creation that may still be *)
(* undone, is overtaken by it.                                             *)
Deleting(j) ==
  \/ req[j].op \in {"delete cron", "delete project"} /\ req[j].pc \in {"row", "delete"}
  \/ req[j].op = "project" /\ req[j].pc \in {"namespace", "undo"}
  \/ req[j].op = "cron" /\ req[j].pc \in {"push cron", "undo"}
Overtaken(s) == {j \in Slots \ {s} : Deleting(j)}
PushCron(s) ==
  LET spec == Merged(req[s].c, req[s].p.env) IN
  /\ CanPut /\ PutCron(spec) /\ Fine
  /\ stale' = stale \cup Overtaken(s)
  /\ IF s \in stale THEN Amiss({"cj", "ns"}) ELSE Pushed(s, "cj")
PushCronFails(s, things) ==
  /\ \/ ~ CanPut /\ Fine /\ UNCHANGED clus
     \/ Fault /\ clus' \in {clus, [clus EXCEPT !.ns = IF @ = "none" THEN "active" ELSE @]}
  /\ stale' = stale \cup Overtaken(s)
  /\ off' = off \cup things \cup (IF s \in stale THEN {"ns"} ELSE {})

(* The same of the other objects of a project.                             *)
CanSet(f) == clus.ns = "active" \/ (clus.ns = "ending" /\ clus[f] # 0)
Put(s, f, value, next) ==
  /\ \/ CanSet(f) /\ Fine /\ clus' = [clus EXCEPT ![f] = value] /\ Pushed(s, f)
     \/ (IF CanSet(f) THEN Fault ELSE Fine) /\ UNCHANGED clus /\ Amiss({f})
  /\ req' = next
  /\ UNCHANGED <<rows, job, watch, stale>>

-----------------------------------------------------------------------------
(* Requests begin: the route's guard and the service read the rows. *)

Enter(s, q) ==
  /\ ~ Busy(s) /\ left.ops > 0 /\ q.op \in Ops
  /\ req' = [req EXCEPT ![s] = q]
  /\ left' = [left EXCEPT !.ops = @ - 1]
  /\ stale' = stale \ {s}
  /\ UNCHANGED <<rows, clus, job, watch, off>>
Number == MaxOps - left.ops + 1

BeginProject(s) ==
  /\ team /\ proj = NoProject /\ \A o \in Slots : req[o].op # "project"
  /\ Enter(s, [Free EXCEPT !.op = "project", !.pc = "insert", !.t = TRUE])
BeginSettings(s) ==
  /\ Visible
  /\ \E set \in {{"env"}, {"quota", "pol"}}, v \in {0, Number} :
       /\ "env" \in set => v # 0
       /\ Enter(s, [Free EXCEPT !.op = "settings", !.pc = "write", !.p = proj, !.set = set,
                                !.v = v])
BeginDeleteProject(s) ==
  /\ Visible
  /\ Enter(s, [Free EXCEPT !.op = "delete project", !.p = proj,
                           !.pc = IF proj.ns THEN "namespace" ELSE "delete"])
(* One cron job, in a project that has its namespace.                      *)
BeginCron(s) ==
  /\ Visible /\ proj.ns /\ cron = NoCron /\ \A o \in Slots : req[o].op # "cron"
  /\ Enter(s, [Free EXCEPT !.op = "cron", !.pc = "insert", !.p = proj, !.v = Number])
BeginEditCron(s) ==
  /\ Visible /\ cron.there
  /\ \E f \in {"cfg", "env"} :
       Enter(s, [Free EXCEPT !.op = "edit cron", !.pc = "write", !.c = cron, !.set = {f},
                             !.v = Number])
BeginOnCron(s, op, pc) ==
  Visible /\ cron.there /\ Enter(s, [Free EXCEPT !.op = op, !.pc = pc, !.c = cron])
BeginAppEnv(s) ==
  /\ Visible /\ app # None
  /\ Enter(s, [Free EXCEPT !.op = "app env", !.pc = "write", !.a = app, !.v = Number])
BeginDeleteTeam(s) ==
  team /\ Enter(s, [Free EXCEPT !.op = "delete team", !.pc = "count", !.t = TRUE])
(* Only what takes an admin away looks at how many there are.              *)
BeginRole(s) ==
  \E u \in Users, to \in {"admin", "member"}, op \in {"role", "remove"} :
    /\ role[u] # "gone" /\ (op = "remove" => to = "member")
    /\ Enter(s, [Free EXCEPT !.op = op, !.u = u, !.to = to,
                  !.pc = IF role[u] = "admin" /\ to = "member" THEN "count" ELSE "write"])

Begin(s) ==
  \/ BeginProject(s) \/ BeginSettings(s) \/ BeginDeleteProject(s) \/ BeginCron(s)
  \/ BeginEditCron(s) \/ BeginOnCron(s, "delete cron", "delete")
  \/ BeginOnCron(s, "trigger", "job") \/ BeginAppEnv(s) \/ BeginDeleteTeam(s) \/ BeginRole(s)

-----------------------------------------------------------------------------
(* ProjectService.Create *)

InsertProject(s) ==
  LET row == [NoProject EXCEPT !.there = TRUE] IN
  /\ At(s, "project", "insert")
  /\ \/ /\ proj' = row /\ req' = [req EXCEPT ![s].pc = "name", ![s].p = row] /\ Fine
        /\ Overtake(s, "proj") /\ Unlike(s, {"team"})
        /\ UNCHANGED <<team, cron, app, clus, run, job, role, watch>>
     \/ Fails(s)
(* The namespace, and at the end the service account, are stored with the  *)
(* row as Create first wrote it.                                           *)
NameProject(s) ==
  LET row == [req[s].p EXCEPT !.ns = TRUE] IN
  /\ At(s, "project", "name")
  /\ \/ /\ WriteProject(row) /\ req' = [req EXCEPT ![s].pc = "namespace", ![s].p = row] /\ Fine
        /\ Wrote(s, "proj") /\ UNCHANGED <<team, cron, app, clus, run, job, role, watch>>
     \/ Fails(s)
CreateNamespace(s) ==
  /\ At(s, "project", "namespace")
  /\ \/ /\ clus' = [clus EXCEPT !.ns = IF @ = "none" THEN "active" ELSE @]
        /\ Goto(s, "account") /\ Fine /\ Unlike(s, {"ns"})
     \/ Fault /\ Goto(s, "undo") /\ UNCHANGED <<clus, off>>
  /\ UNCHANGED <<rows, job, watch, stale>>
(* A failure leaves the namespace behind.                                  *)
EnsureServiceAccount(s) ==
  /\ At(s, "project", "account")
  /\ \/ /\ clus.ns = "active" /\ Fine /\ clus' = [clus EXCEPT !.sa = TRUE]
        /\ Goto(s, "record") /\ UNCHANGED off
     \/ /\ IF clus.ns = "active" THEN Fault ELSE Fine
        /\ Goto(s, "undo") /\ Amiss({"ns"}) /\ UNCHANGED clus
  /\ UNCHANGED <<rows, job, watch, stale>>
RecordAccount(s) ==
  /\ At(s, "project", "record")
  /\ \/ /\ WriteProject([req[s].p EXCEPT !.sa = TRUE]) /\ End(s) /\ Fine
        /\ Wrote(s, "proj") /\ UNCHANGED <<team, cron, app, clus, run, job, role, watch>>
     \/ Fails(s)
UndoProject(s) ==
  /\ At(s, "project", "undo") /\ End(s)
  /\ \/ proj' = [proj EXCEPT !.there = FALSE] /\ Fine /\ Wrote(s, "all")
     \/ Fault /\ Amiss({"ns"}) /\ UNCHANGED <<proj, stale>>
  /\ UNCHANGED <<team, cron, app, clus, run, job, role, watch>>

-----------------------------------------------------------------------------
(* ProjectService.Update *)

Updated(q) == [f \in DOMAIN q.p |-> IF f \in q.set THEN q.v ELSE q.p[f]]
StoreSettings(s) ==
  LET row == Updated(req[s]) IN
  /\ At(s, "settings", "write")
  /\ \/ /\ WriteProject(row) /\ Fine /\ Wrote(s, "proj")
        /\ req' = IF ~ row.ns THEN [req EXCEPT ![s] = Free]
                  ELSE [req EXCEPT ![s].p = row,
                                   ![s].pc = IF "env" \in req[s].set THEN "config" ELSE "quota"]
        /\ UNCHANGED <<team, cron, app, clus, run, job, role, watch>>
     \/ Fails(s)
(* From here failures are only logged.                                     *)
EnsureConfigMap(s) ==
  At(s, "settings", "config") /\ Put(s, "cm", req[s].p.env, [req EXCEPT ![s].pc = "apps"])
ListApps(s) ==
  /\ At(s, "settings", "apps")
  /\ \/ /\ Fine /\ UNCHANGED off
        /\ req' = [req EXCEPT ![s].pc = IF app = None THEN "crons" ELSE "push app", ![s].a = app]
     \/ Fault /\ Goto(s, "crons") /\ Amiss({"app"})
  /\ UNCHANGED <<rows, clus, job, watch, stale>>
ListCrons(s) ==
  /\ At(s, "settings", "crons")
  /\ \/ Fine /\ cron.there /\ UNCHANGED off /\ req' = [req EXCEPT ![s].pc = "push cron", ![s].c = cron]
     \/ Fine /\ ~ cron.there /\ UNCHANGED off /\ End(s)
     \/ Fault /\ End(s) /\ Amiss({"cj"})
  /\ UNCHANGED <<rows, clus, job, watch, stale>>
PushToCron(s) ==
  /\ At(s, "settings", "push cron") /\ End(s)
  /\ PushCron(s) \/ PushCronFails(s, {"cj"})
  /\ UNCHANGED <<rows, job, watch>>
EnsureResourceQuota(s) ==
  At(s, "settings", "quota") /\ Put(s, "quota", req[s].p.quota, [req EXCEPT ![s].pc = "policy"])
EnsureNetworkPolicy(s) ==
  At(s, "settings", "policy") /\ Put(s, "pol", req[s].p.pol, [req EXCEPT ![s] = Free])

(* UpdateEnvVars of the orchestrator, for Update and for the application's *)
(* own request: without a Deployment it fails.                             *)
PushApp(s) ==
  /\ req[s].pc = "push app"
  /\ \/ /\ clus.app # None /\ Fine /\ Pushed(s, "app")
        /\ clus' = [clus EXCEPT !.app = [own |-> req[s].a, base |-> req[s].p.env]]
     \/ (IF clus.app = None THEN Fine ELSE Fault) /\ UNCHANGED clus /\ Amiss({"app"})
  /\ IF req[s].op = "settings" THEN req' = [req EXCEPT ![s].pc = "crons", ![s].a = None]
     ELSE End(s)
  /\ UNCHANGED <<rows, job, watch, stale>>

-----------------------------------------------------------------------------
(* ProjectService.Delete; what is in the namespace goes with it. *)

NamespaceKept == clus   \* mutant: only the row is deleted
NamespaceEnds == [clus EXCEPT !.ns = IF @ = "active" THEN "ending" ELSE @]
DeleteNamespace(s) ==
  /\ At(s, "delete project", "namespace") /\ Goto(s, "delete")
  /\ \/ /\ clus' = NamespaceEnds
        /\ Fine /\ Overtake(s, "all") /\ UNCHANGED off
     \/ Fault /\ Amiss({"ns"}) /\ UNCHANGED <<clus, stale>>
  /\ UNCHANGED <<rows, job, watch>>
DeleteProject(s) ==
  /\ At(s, "delete project", "delete") /\ End(s)
  /\ \/ proj' = [proj EXCEPT !.there = FALSE] /\ Fine /\ Wrote(s, "all")
     \/ Fault /\ Amiss(Derived("proj")) /\ UNCHANGED <<proj, stale>>
  /\ UNCHANGED <<team, cron, app, clus, run, job, role, watch>>
NamespaceGone ==
  /\ clus.ns = "ending" /\ clus' = Empty
  /\ job' = [r \in Runs |-> "none"]
  /\ UNCHANGED <<rows, req, watch, left, stale, off>>

-----------------------------------------------------------------------------
(* CronJobService: Create, which finds the object there if Update of the   *)
(* project has applied the row first; Update; Delete.                      *)

InsertCron(s) ==
  LET row == [there |-> TRUE, cfg |-> req[s].v, env |-> req[s].v, status |-> "idle"] IN
  /\ At(s, "cron", "insert")
  /\ \/ /\ cron' = row /\ Fine /\ req' = [req EXCEPT ![s].pc = "push cron", ![s].c = row]
        /\ UNCHANGED <<team, proj, app, clus, run, job, role, watch, stale, off>>
     \/ Fails(s)
CreateCronJob(s) ==
  /\ At(s, "cron", "push cron")
  /\ \/ clus.cj = None /\ PushCron(s) /\ End(s)
     \/ PushCronFails(s, {}) /\ Goto(s, "undo")
     \/ clus.cj # None /\ Fine /\ Goto(s, "undo") /\ UNCHANGED <<clus, stale, off>>
  /\ UNCHANGED <<rows, job, watch>>
UndoCron(s) ==
  /\ At(s, "cron", "undo") /\ End(s)
  /\ \/ cron' = [cron EXCEPT !.there = FALSE] /\ Fine /\ Wrote(s, "cron")
     \/ Fault /\ Amiss({"cj"}) /\ UNCHANGED <<cron, stale>>
  /\ UNCHANGED <<team, proj, app, clus, run, job, role, watch>>

StoreCron(s) ==
  LET row == [f \in DOMAIN req[s].c |-> IF f \in req[s].set THEN req[s].v ELSE req[s].c[f]] IN
  /\ At(s, "edit cron", "write")
  /\ \/ /\ WriteCron(row) /\ Fine /\ Wrote(s, "cron")
        /\ req' = [req EXCEPT ![s].pc = "base", ![s].c = row]
        /\ UNCHANGED <<team, proj, app, clus, run, job, role, watch>>
     \/ Fails(s)
(* The project is read after the row is stored, for its environment; if it *)
(* cannot be read there is none, without an error.  Of the application too.*)
ReadBase(s) ==
  /\ req[s].pc = "base"
  /\ \E found \in BOOLEAN :
       /\ found => Visible
       /\ IF found \/ ~ Visible THEN Fine ELSE Fault
       /\ req' = [req EXCEPT ![s].p = IF found THEN proj ELSE NoProject,
                             ![s].pc = IF req[s].op = "app env" THEN "push app" ELSE "push cron"]
       /\ stale' = IF found THEN stale ELSE stale \cup {s}
  /\ UNCHANGED <<rows, clus, job, watch, off>>
UpdateCronJob(s) ==
  /\ At(s, "edit cron", "push cron") /\ End(s)
  /\ PushCron(s) \/ PushCronFails(s, {"cj"})
  /\ UNCHANGED <<rows, job, watch>>

DeleteCronJob(s) ==
  /\ At(s, "delete cron", "delete")
  /\ \/ /\ clus' = [clus EXCEPT !.cj = None] /\ Goto(s, "row") /\ Fine
        /\ Overtake(s, "cron") /\ UNCHANGED <<rows, job, watch, off>>
     \/ Fails(s)
DeleteCron(s) ==
  /\ At(s, "delete cron", "row") /\ End(s)
  /\ \/ cron' = [cron EXCEPT !.there = FALSE] /\ Fine /\ Wrote(s, "cron")
     \/ Fault /\ Amiss({"cj"}) /\ UNCHANGED <<cron, stale>>
  /\ UNCHANGED <<team, proj, app, clus, run, job, role, watch>>

-----------------------------------------------------------------------------
(* CronJobService.Trigger and watchJobCompletion *)

Unused(r) == run[r] = "none" /\ job[r] = "none" /\ \A s \in Slots : req[s].r # r
(* Two Jobs of one second have the same name.                              *)
TriggerCronJob(s) ==
  /\ At(s, "trigger", "job")
  /\ \/ \E r \in Runs :
          /\ Unused(r) /\ clus.cj # None /\ clus.ns = "active" /\ Fine
          /\ job' = [job EXCEPT ![r] = "active"]
          /\ req' = [req EXCEPT ![s].pc = "write", ![s].r = r]
          /\ UNCHANGED <<rows, clus, watch, stale, off>>
     \/ /\ clus.cj = None \/ clus.ns # "active" \/ \E r \in Runs : job[r] # "none"
        /\ End(s) /\ Fine /\ UNCHANGED <<rows, clus, job, watch, stale, off>>
     \/ Fails(s)
MarkRunning(s) ==
  LET row == [req[s].c EXCEPT !.status = "running"] IN
  /\ At(s, "trigger", "write")
  /\ \/ WriteCron(row) /\ Fine /\ Wrote(s, "cron")
     \/ Fault /\ Amiss({"status"}) /\ UNCHANGED <<cron, stale>>
  /\ req' = [req EXCEPT ![s].pc = "row", ![s].c = row]
  /\ UNCHANGED <<team, proj, app, clus, run, job, role, watch>>
RecordRun(s) ==
  LET r == req[s].r IN
  /\ At(s, "trigger", "row") /\ End(s)
  /\ \/ /\ run' = [run EXCEPT ![r] = "running"]
        /\ watch' = [watch EXCEPT ![r] = [pc |-> "wait", c |-> req[s].c]]
        /\ stale' = (IF s \in stale THEN stale \cup {r} ELSE stale)
        /\ Fine /\ UNCHANGED off
     \/ Fault /\ Amiss({"status"}) /\ UNCHANGED <<run, watch, stale>>
  /\ UNCHANGED <<team, proj, cron, app, clus, job, role>>

Outcome(r) == IF job[r] = "complete" THEN "succeeded" ELSE "failed"
(* A Job that has ended; or half an hour is over, whatever the Job does.   *)
Waited(r, outcome) ==
  /\ watch[r] # None /\ watch[r].pc = "wait"
  /\ \/ run' = [run EXCEPT ![r] = outcome] /\ Fine /\ UNCHANGED off
     \/ Fault /\ Amiss({"run"}) /\ UNCHANGED run
  /\ watch' = [watch EXCEPT ![r].pc = "row"]
  /\ UNCHANGED <<team, proj, cron, app, clus, job, role, req, stale>>
SeeEnd(r) == job[r] \in {"complete", "broken"} /\ Waited(r, Outcome(r))
LeaveRunning(r) ==   \* mutant: the wait ends without a word
  /\ watch[r] # None /\ watch[r].pc = "wait" /\ watch' = [watch EXCEPT ![r].pc = "row"]
  /\ UNCHANGED <<rows, clus, job, req, left, stale, off>>
TimeOut(r) == Waited(r, "failed")
MarkIdle(r) ==
  /\ watch[r] # None /\ watch[r].pc = "row"
  /\ \/ WriteCron([watch[r].c EXCEPT !.status = "idle"]) /\ Fine /\ Wrote(r, "cron")
     \/ Fault /\ Amiss({"status"}) /\ UNCHANGED <<cron, stale>>
  /\ watch' = [watch EXCEPT ![r] = None]
  /\ UNCHANGED <<team, proj, app, clus, run, job, role, req>>
JobEnds(r) ==
  /\ job[r] = "active" /\ \E end \in {"complete", "broken"} : job' = [job EXCEPT ![r] = end]
  /\ UNCHANGED <<rows, clus, req, watch, left, stale, off>>

-----------------------------------------------------------------------------
(* AppService.UpdateEnvVars *)

StoreAppEnv(s) ==
  /\ At(s, "app env", "write")
  /\ \/ /\ app' = req[s].v /\ Fine /\ Wrote(s, "app")
        /\ req' = [req EXCEPT ![s].pc = "base", ![s].a = req[s].v]
        /\ UNCHANGED <<team, proj, cron, clus, run, job, role, watch>>
     \/ Fails(s)

-----------------------------------------------------------------------------
(* TeamService: DeleteTeam, UpdateMemberRole, RemoveMember *)

Unchecked == FALSE   \* mutant: a team is deleted with its projects
HasProjects == proj.there
CountProjects(s) ==
  /\ At(s, "delete team", "count") /\ Fine
  /\ IF HasProjects THEN End(s)
     ELSE req' = [req EXCEPT ![s].pc = "delete", ![s].p = proj]
  /\ UNCHANGED <<rows, clus, job, watch, stale, off>>
DeleteTeam(s) ==
  /\ At(s, "delete team", "delete")
  /\ \/ /\ team' = FALSE /\ End(s) /\ Fine /\ Wrote(s, "team")
        /\ UNCHANGED <<proj, cron, app, clus, run, job, role, watch>>
     \/ Fails(s)

Admins == {u \in Users : role[u] = "admin"}
CountAdmins(s) ==
  /\ req[s].op \in {"role", "remove"} /\ req[s].pc = "count" /\ Fine
  /\ IF Cardinality(Admins) <= 1 THEN End(s) ELSE Goto(s, "write")
  /\ UNCHANGED <<rows, clus, job, watch, stale, off>>
StoreRole(s) ==
  LET u == req[s].u IN
  /\ req[s].op \in {"role", "remove"} /\ req[s].pc = "write"
  /\ \/ /\ role' = [role EXCEPT ![u] = IF @ = "gone" \/ req[s].op = "remove" THEN "gone"
                                       ELSE req[s].to]
        /\ End(s) /\ Fine /\ Wrote(s, "role")
        /\ UNCHANGED <<team, proj, cron, app, clus, run, job, watch>>
     \/ Fails(s)

-----------------------------------------------------------------------------
(* The server dies with all that is under way in it. *)

Owes(q) ==
  CASE q.op = "settings" -> Derived("proj")
    [] q.op \in {"cron", "edit cron", "delete cron"} -> {"cj"}
    [] q.op = "trigger" -> {"status"}
    [] q.op = "app env" -> {"app"}
    [] q.op = "project" -> {"ns"}
    [] q.op = "delete project" -> Derived("proj")
    [] OTHER -> {}
Crash ==
  /\ Fault /\ Actors # {}
  /\ req' = [s \in Slots |-> Free] /\ watch' = [r \in Runs |-> None]
  /\ off' = off \cup UNION {Owes(req[s]) : s \in Slots}
                \cup (IF \E r \in Runs : watch[r] # None THEN {"run", "status"} ELSE {})
  /\ stale' = {}
  /\ UNCHANGED <<rows, clus, job>>

Step(s) ==
  \/ InsertProject(s) \/ NameProject(s) \/ CreateNamespace(s) \/ EnsureServiceAccount(s)
  \/ RecordAccount(s) \/ UndoProject(s)
  \/ StoreSettings(s) \/ EnsureConfigMap(s) \/ ListApps(s) \/ PushApp(s) \/ ListCrons(s)
  \/ PushToCron(s) \/ EnsureResourceQuota(s) \/ EnsureNetworkPolicy(s)
  \/ DeleteNamespace(s) \/ DeleteProject(s)
  \/ InsertCron(s) \/ CreateCronJob(s) \/ UndoCron(s)
  \/ StoreCron(s) \/ ReadBase(s) \/ UpdateCronJob(s) \/ DeleteCronJob(s) \/ DeleteCron(s)
  \/ TriggerCronJob(s) \/ MarkRunning(s) \/ RecordRun(s)
  \/ StoreAppEnv(s)
  \/ CountProjects(s) \/ DeleteTeam(s) \/ CountAdmins(s) \/ StoreRole(s)
Watches(r) == SeeEnd(r) \/ TimeOut(r) \/ MarkIdle(r)
Next ==
  \/ \E s \in Slots : Begin(s) \/ Step(s)
  \/ \E r \in Runs : Watches(r) \/ JobEnds(r)
  \/ NamespaceGone \/ Crash

Spec == Init /\ [][Next]_vars

-----------------------------------------------------------------------------
(* Properties *)

Quiet == \A s \in Slots : ~ Busy(s)
Sure(thing) == thing \notin off

(* When no request is under way, the cluster has what the rows say: what   *)
(* runs in a project has the project's environment below its own settings, *)
(* and its quota and policy are in force.  Excepted is what a failure, of  *)
(* which Update tells nobody, or a request that another had overtaken left *)
(* different, until a request that is not overtaken applies it again.  And *)
(* the namespace of a deleted project goes, unless that call failed or a   *)
(* request that was under way brought it back with a cron job.             *)
InForce ==
  /\ \A f \in {"quota", "pol"} : Sure(f) => clus[f] = proj[f]
  /\ Sure("cm") => clus.cm = proj.env
  /\ Sure("app") /\ clus.app # None => clus.app = [own |-> app, base |-> proj.env]
  /\ Sure("cj") => clus.cj = IF cron.there
                             THEN [cfg |-> cron.cfg, own |-> cron.env, base |-> proj.env]
                             ELSE None
ClusterFollowsRows ==
  Quiet =>
    /\ proj.there /\ proj.ns => (Sure("ns") => clus.ns = "active") /\ (clus.ns = "active" => InForce)
    /\ ~ proj.there /\ Sure("ns") => clus.ns # "active"

(* A project has its team and the organization an admin, except after a    *)
(* check that another request had overtaken when its result was used: the  *)
(* database does not refuse either.                                        *)
ChecksHold ==
  /\ proj.there /\ Sure("team") => team
  /\ Sure("admin") /\ Users # {} => Admins # {}

(* A run that is recorded as running is waited for, although a request was *)
(* overtaken or a call failed, so that its row ends with its Job or after  *)
(* half an hour; only a crash, or the failure to write the end, leaves it  *)
(* running.  A cron job that is shown as running has such a run, and one   *)
(* that has is shown as running, unless a write of its row failed or       *)
(* overtook another: of two runs, the first that ends makes it idle.       *)
Awaited == {r \in Runs : watch[r] # None}
RunsAreAwaited ==
  /\ \A r \in Runs : run[r] = "running" => r \in Awaited \/ ~ Sure("run")
  /\ Sure("status") /\ cron.there /\ Quiet =>
       /\ cron.status = "running" => Awaited # {}
       /\ Awaited \subseteq stale \/ cron.status = "running"
=============================================================================
