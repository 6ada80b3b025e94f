--------------------------- MODULE DeployPipeline ---------------------------
(***************************************************************************)
(* The deployments of one application: from the API request that creates   *)
(* them, through the job queue and the worker that builds and deploys, to  *)
(* their terminal row (internal/service/deploy_service.go and              *)
(* build_service.go, run by cmd/worker/main.go).                           *)
(*                                                                         *)
(* Every actor works on its own copy of a database row and writes the      *)
(* whole row back: DeploymentStore.Update and ApplicationStore.Update set  *)
(* every column.  The actors are the worker slots (exec), the request that *)
(* triggers a deployment (trig), the request that cancels it (canc), the   *)
(* stale recovery (recov), the status request (stat) and the settings      *)
(* request (edit).  One action is one statement that touches shared state, *)
(* with the local computation that leads to the next one.                  *)
(***************************************************************************)
EXTENDS Naturals

CONSTANTS
  Deploys,          \* the deployments of the application
  Webhooks,         \* those a git webhook may have triggered, instead of a user
  Slots,            \* the worker goroutines that run jobs
  Sources,          \* the source types the application may have
  MaxReadAttempts,  \* maxReadAttempts of cmd/worker/main.go
  ReadCap,          \* bound of the model: deliveries of one message
  LateCap,          \* bound of the model: half hours that pass for a deployment
  Events,           \* the environment events that may occur
  MaxEvents         \* bound of the model: how many of them occur

ASSUME PipelineAssumption ==
  /\ Deploys # {}
  /\ Webhooks \subseteq Deploys
  /\ Sources \subseteq {"git", "image"} /\ Sources # {}
  /\ MaxReadAttempts \in Nat /\ ReadCap \in Nat /\ LateCap \in Nat
  /\ Events \subseteq {"cancel", "crash", "shutdown", "abort", "fault", "edit",
                      "status", "pods"}
  /\ MaxEvents \in Nat

VARIABLES
  app,      \* row of the application
  live      \* phase of its Kubernetes deployment
VARIABLES
  dep,      \* rows of the deployments
  late,     \* the attempts numbered below late[d] began 30 minutes ago
  queue     \* messages of the job queue
VARIABLES
  exec,     \* worker slots
  trig,     \* DeployService.Trigger and the webhook handler, per deployment
  canc,     \* DeployService.Cancel, per deployment
  recov,    \* recoverStaleDeployments, per deployment it lists
  stat,     \* AppService.GetStatus
  edit      \* AppService.UpdateEnvVars
VARIABLES
  applied,  \* deployments that target.Deploy accepted
  cut,      \* deployments whose job the shutdown of a worker interrupted
  asked,    \* deployments whose cancellation a Cancel request has stored
  aborted,  \* deployments with a Trigger or Cancel request that was cut short
  left      \* how many more events may occur

vars == <<app, live, dep, late, queue, exec, trig, canc, recov, stat, edit,
          applied, cut, asked, aborted, left>>

Queue == INSTANCE JobQueue WITH Jobs <- Deploys

-----------------------------------------------------------------------------
(* Rows *)

Terminal == {"success", "failed", "cancelled"}
Running  == {"building", "deploying"}
InProgress == {"queued"} \cup Running

AppStatus == {"idle", "building", "deploying", "restarting", "running",
              "partial", "stopping", "stopped", "error"}
AppBusy == {"building", "deploying", "restarting", "stopping"}
(* A phase that GetStatus reports as partial counts as pending.            *)
Phases  == {"absent", "pending", "running", "stopped", "failed"}

(* started is the number of the attempt that wrote StartedAt, 0 for NULL;  *)
(* sha says that the commit is recorded; earlier holds the deployments     *)
(* with a smaller created_at.                                              *)
Row == [status : {"none"} \cup InProgress \cup Terminal, cancel : BOOLEAN,
        started : 0..ReadCap, sha : BOOLEAN, earlier : SUBSET Deploys]
NoRow == [status |-> "none", cancel |-> FALSE, started |-> 0, sha |-> FALSE,
          earlier |-> {}]
Created(ds) == [status |-> "queued", cancel |-> FALSE, started |-> 0, sha |-> FALSE,
                earlier |-> ds]

(* cfg counts the edits of the settings a user can change.                 *)
AppRow == [status : AppStatus, cfg : 0..MaxEvents, source : Sources]

-----------------------------------------------------------------------------
(* Actors *)

SlotPC == {"idle", "load", "loadApp", "start", "building", "buildErr", "built",
           "check", "reload", "deployWrite", "deploying", "success", "successApp",
           "saveApp", "fail", "failApp", "finalize", "finalizeApp", "ack", "nack"}

(* ctx is the job's context; bg says that the writes to come use           *)
(* context.Background() instead; gone says that a Cancel deleted the build *)
(* jobs of the application while this one ran.                             *)
Slot == [pc : SlotPC, d : Deploys, n : 0..ReadCap, row : Row, app : AppRow,
         ctx : {"live", "cancelled", "deadline"}, bg : BOOLEAN, gone : BOOLEAN]

TrigPC == {"idle", "create", "enqueue", "undo", "mark", "commit", "done", "hooked"}
CancPC == {"idle", "write", "kill", "finalize", "finalizeApp"}
RecovPC == {"idle", "write", "app"}
Copy(pcs) == [pc : pcs, row : Row]

Holding(pc, row) == [pc |-> pc, row |-> row]
NoCopy == Holding("idle", NoRow)
NewApp(status, source) == [status |-> status, cfg |-> 0, source |-> source]
BlankApp == NewApp("idle", CHOOSE x \in Sources : TRUE)
Delivery(pc, d, n) == [pc |-> pc, d |-> d, n |-> n, row |-> NoRow, app |-> BlankApp,
                       ctx |-> "live", bg |-> FALSE, gone |-> FALSE]
FreeSlot == Delivery("idle", CHOOSE d \in Deploys : TRUE, 0)

(* Slot s runs a job of deployment d.                                      *)
Runs(s, d) == exec[s].pc # "idle" /\ exec[s].d = d

(* A write with the job's context fails, and is only logged, once that     *)
(* context is done.                                                        *)
Writes(s) == exec[s].ctx = "live" \/ exec[s].bg

Goto(s, pc) == exec' = [exec EXCEPT ![s].pc = pc]

(* The slot rewrites its copy of the row, stores it, and moves on.         *)
Save(s, row, pc) ==
  /\ exec' = [exec EXCEPT ![s].row = row, ![s].pc = pc]
  /\ dep' = IF Writes(s) THEN [dep EXCEPT ![exec[s].d] = row] ELSE dep

SetApp(s, row) == app' = IF Writes(s) THEN row ELSE app

Spend(e) == e \in Events /\ left > 0 /\ left' = left - 1

TypeOK ==
  /\ app \in AppRow
  /\ live \in Phases
  /\ dep \in [Deploys -> Row]
  /\ late \in [Deploys -> 0..ReadCap + 1]
  /\ queue \in [Deploys -> Queue!Message]
  /\ exec \in [Slots -> Slot]
  /\ trig \in [Deploys -> TrigPC]
  /\ canc \in [Deploys -> Copy(CancPC)]
  /\ recov \in [Deploys -> Copy(RecovPC)]
  /\ stat \in {"idle", "running", "error", "stopped"}
  /\ edit \in [pc : {"idle", "write", "push"}, app : AppRow]
  /\ applied \subseteq Deploys /\ cut \subseteq Deploys /\ asked \subseteq Deploys
  /\ aborted \subseteq Deploys /\ left \in 0..MaxEvents

Init ==
  /\ \E x \in Sources :
       \/ app = NewApp("idle", x) /\ live = "absent"
       \/ app = NewApp("running", x) /\ live = "running"
  /\ dep = [d \in Deploys |-> NoRow]
  /\ late = [d \in Deploys |-> 0]
  /\ Queue!QueueInit
  /\ exec = [s \in Slots |-> FreeSlot]
  /\ trig = [d \in Deploys |-> "idle"]
  /\ canc = [d \in Deploys |-> NoCopy]
  /\ recov = [d \in Deploys |-> NoCopy]
  /\ stat = "idle"
  /\ edit = [pc |-> "idle", app |-> BlankApp]
  /\ applied = {} /\ cut = {} /\ asked = {}
  /\ aborted = {} /\ left = MaxEvents

-----------------------------------------------------------------------------
(* DeployService.Trigger, for a user or called by a webhook handler *)

TriggerAdmit(d) ==
  /\ trig[d] = "idle"
  /\ app.status \notin AppBusy
  /\ trig' = [trig EXCEPT ![d] = "create"]
  /\ UNCHANGED <<app, live, dep, late, queue, exec, canc, recov, stat, edit,
                 applied, cut, asked, aborted, left>>

TriggerCreate(d) ==
  /\ trig[d] = "create"
  /\ dep' = [dep EXCEPT ![d] =
               Created({e \in Deploys : dep[e].status # "none"})]
  /\ trig' = [trig EXCEPT ![d] = "enqueue"]
  /\ UNCHANGED <<app, live, late, queue, exec, canc, recov, stat, edit,
                 applied, cut, asked, aborted, left>>

TriggerEnqueue(d) ==
  /\ trig[d] = "enqueue"
  /\ Queue!Enqueue(d)
  /\ trig' = [trig EXCEPT ![d] = "mark"]
  /\ UNCHANGED <<app, live, dep, late, exec, canc, recov, stat, edit, applied,
                 cut, asked, aborted, left>>

(* The error may be that of the answer: the message may have been sent.    *)
TriggerEnqueueFails(d) ==
  /\ trig[d] = "enqueue"
  /\ Spend("fault")
  /\ Queue!Enqueue(d) \/ UNCHANGED queue
  /\ trig' = [trig EXCEPT ![d] = "undo"]
  /\ UNCHANGED <<app, live, dep, late, exec, canc, recov, stat, edit,
                 applied, cut, asked, aborted>>

UndoneLater(row) == row   \* mutant: the row is left to the stale recovery
Undone(row) == [row EXCEPT !.status = "failed"]

TriggerUndo(d) ==
  /\ trig[d] = "undo"
  /\ dep' = [dep EXCEPT ![d] = Undone(Created(@.earlier))]
  /\ trig' = [trig EXCEPT ![d] = "done"]
  /\ UNCHANGED <<app, live, late, queue, exec, canc, recov, stat, edit,
                 applied, cut, asked, aborted, left>>

TriggerMarkBuilding(d) ==
  /\ trig[d] = "mark"
  /\ app' = [app EXCEPT !.status = "building"]
  /\ \E next \in {"done"} \cup (IF d \in Webhooks THEN {"commit"} ELSE {}) :
       trig' = [trig EXCEPT ![d] = next]
  /\ UNCHANGED <<live, dep, late, queue, exec, canc, recov, stat, edit,
                 applied, cut, asked, aborted, left>>

(* The webhook handler adds the commit to the row Trigger returned and     *)
(* stores that row.                                                        *)
WebhookCommit(d) ==
  /\ trig[d] = "commit"
  /\ dep' = [dep EXCEPT ![d] = [Created(@.earlier) EXCEPT !.sha = TRUE]]
  /\ trig' = [trig EXCEPT ![d] = "hooked"]
  /\ UNCHANGED <<app, live, late, queue, exec, canc, recov, stat, edit,
                 applied, cut, asked, aborted, left>>

(* The client disconnects, which cancels the request's context, or the     *)
(* server stops.                                                           *)
TriggerAborts(d) ==
  /\ trig[d] \notin {"idle", "done", "hooked"}
  /\ Spend("abort")
  /\ aborted' = aborted \cup {d}
  /\ trig' = [trig EXCEPT ![d] = "done"]
  /\ UNCHANGED <<app, live, dep, late, queue, exec, canc, recov, stat, edit,
                 applied, cut, asked>>

-----------------------------------------------------------------------------
(* DeployService.Cancel *)

CancelRead(d) ==
  /\ canc[d].pc = "idle"
  /\ dep[d].status \in InProgress
  /\ Spend("cancel")
  /\ canc' = [canc EXCEPT ![d] = Holding("write", [dep[d] EXCEPT !.cancel = TRUE])]
  /\ UNCHANGED <<app, live, dep, late, queue, exec, trig, recov, stat, edit,
                 applied, cut, asked, aborted>>

CancelWrite(d) ==
  /\ canc[d].pc = "write"
  /\ dep' = [dep EXCEPT ![d] = canc[d].row]
  /\ asked' = asked \cup {d}
  /\ canc' = [canc EXCEPT ![d].pc = "kill"]
  /\ UNCHANGED <<app, live, late, queue, exec, trig, recov, stat, edit,
                 applied, cut, aborted, left>>

(* cleanupBuildJobs deletes every build job of the application it lists,   *)
(* and ignores all errors.                                                 *)
CancelBuild(d) ==
  /\ canc[d].pc = "kill"
  /\ \E listed \in {{}, {s \in Slots : exec[s].pc = "building"}} :
       exec' = [s \in Slots |-> [exec[s] EXCEPT !.gone = @ \/ s \in listed]]
  /\ canc' = [canc EXCEPT ![d] = IF @.row.status = "queued"
                                 THEN Holding("finalize", @.row) ELSE NoCopy]
  /\ UNCHANGED <<app, live, dep, late, queue, trig, recov, stat, edit, applied,
                 cut, asked, aborted, left>>

CancelFinalize(d) ==
  /\ canc[d].pc = "finalize"
  /\ dep' = [dep EXCEPT ![d] = [canc[d].row EXCEPT !.status = "cancelled"]]
  /\ canc' = [canc EXCEPT ![d] = Holding("finalizeApp", NoRow)]
  /\ UNCHANGED <<app, live, late, queue, exec, trig, recov, stat, edit,
                 applied, cut, asked, aborted, left>>

PhaseAsStatus == {live}   \* mutant: the phase is stored as it is
(* The status a cancelled deployment leaves the application in: idle also  *)
(* when the application or its phase cannot be read.                       *)
Restored == {"idle"} \cup (IF live = "running" THEN {"running"} ELSE {})

CancelFinalizeApp(d) ==
  /\ canc[d].pc = "finalizeApp"
  /\ \E st \in Restored : app' = [app EXCEPT !.status = st]
  /\ canc' = [canc EXCEPT ![d] = NoCopy]
  /\ UNCHANGED <<live, dep, late, queue, exec, trig, recov, stat, edit,
                 applied, cut, asked, aborted, left>>

CancelAborts(d) ==
  /\ canc[d].pc # "idle"
  /\ Spend("abort")
  /\ aborted' = aborted \cup {d}
  /\ canc' = [canc EXCEPT ![d] = NoCopy]
  /\ UNCHANGED <<app, live, dep, late, queue, exec, trig, recov, stat, edit,
                 applied, cut, asked>>

-----------------------------------------------------------------------------
(* Time, and recoverStaleDeployments *)

(* Thirty minutes have passed since attempt number late[d] began (0 is the *)
(* creation of the row): its job context expires, and its row is stale.    *)
(* Only a build or a rollout lasts that long.                              *)
HalfHourPasses(d) ==
  /\ dep[d].status # "none"
  /\ late[d] <= queue[d].ct /\ late[d] < LateCap
  /\ \A s \in Slots : Runs(s, d) /\ exec[s].n = late[d]
                       => exec[s].pc \in {"building", "deploying"}
  /\ late' = [late EXCEPT ![d] = @ + 1]
  /\ exec' = [s \in Slots |->
       IF Runs(s, d) /\ exec[s].n = late[d] /\ exec[s].ctx = "live"
       THEN [exec[s] EXCEPT !.ctx = "deadline"] ELSE exec[s]]
  /\ UNCHANGED <<app, live, dep, queue, trig, canc, recov, stat, edit, applied,
                 cut, asked, aborted, left>>

Stale(d, row) == row.started < late[d]

BuildingOnly == {"building"}   \* mutant: a crash during the rollout is forgotten
Recoverable == {"building", "deploying"}

RecoverList(d) ==
  /\ recov[d].pc = "idle"
  /\ dep[d].status \in Recoverable
  /\ Stale(d, dep[d])
  /\ recov' = [recov EXCEPT ![d] = Holding("write", dep[d])]
  /\ UNCHANGED <<app, live, dep, late, queue, exec, trig, canc, stat, edit,
                 applied, cut, asked, aborted, left>>

RecoverWrite(d) ==
  /\ recov[d].pc = "write"
  /\ dep' = [dep EXCEPT ![d] = [recov[d].row EXCEPT !.status = "failed"]]
  /\ recov' = [recov EXCEPT ![d] = Holding("app", NoRow)]
  /\ UNCHANGED <<app, live, late, queue, exec, trig, canc, stat, edit, applied,
                 cut, asked, aborted, left>>

RecoverApp(d) ==
  /\ recov[d].pc = "app"
  /\ app' = [app EXCEPT !.status = "error"]
  /\ recov' = [recov EXCEPT ![d] = NoCopy]
  /\ UNCHANGED <<live, dep, late, queue, exec, trig, canc, stat, edit, applied,
                 cut, asked, aborted, left>>

-----------------------------------------------------------------------------
(* The worker: runConsumer, processMessage and RunDeployJob *)

(* The message of an attempt that began 40 minutes ago is delivered again. *)
(* By then the job's context has been done for 10 minutes and the job has  *)
(* unwound, or its process is gone.                                        *)
VisibilityShort(d) == late[d] >= queue[d].ct   \* mutant: shorter than a job
VisibilityOver(d) ==
  late[d] > queue[d].ct /\ \A s \in Slots : ~Runs(s, d)

Redeliver(d) ==
  /\ VisibilityOver(d)
  /\ Queue!Reappear(d)
  /\ UNCHANGED <<app, live, dep, late, exec, trig, canc, recov, stat, edit,
                 applied, cut, asked, aborted, left>>

Fetch(s, d) ==
  /\ exec[s].pc = "idle"
  /\ Queue!Read(d)
  /\ exec' = [exec EXCEPT ![s] = Delivery("load", d, queue[d].ct + 1)]
  /\ UNCHANGED <<app, live, dep, late, trig, canc, recov, stat, edit, applied,
                 cut, asked, aborted, left>>

(* Reading the deployment: a terminal one is done, a cancelled one is      *)
(* finalized, any other is run.                                            *)
ReallyDone(row) == row.status = "success"   \* mutant: the others are retried
IsTerminal(row) == row.status \in Terminal

Load(s) ==
  LET row == dep[exec[s].d] IN
  /\ exec[s].pc = "load"
  /\ exec[s].ctx = "live"
  /\ \/ /\ IsTerminal(row)
        /\ Goto(s, "ack")
     \/ /\ ~IsTerminal(row) /\ row.cancel
        /\ exec' = [exec EXCEPT ![s].pc = "finalize", ![s].row = row]
     \/ /\ ~IsTerminal(row) /\ ~row.cancel
        /\ exec' = [exec EXCEPT ![s].pc = "loadApp", ![s].row = row]
  /\ UNCHANGED <<app, live, dep, late, queue, trig, canc, recov, stat, edit,
                 applied, cut, asked, aborted, left>>

(* Reading the application creates the job's context; executeDeploy then   *)
(* sets StartedAt on its copy of the deployment.                           *)
LoadApp(s) ==
  /\ exec[s].pc = "loadApp"
  /\ exec[s].ctx = "live"
  /\ exec' = [exec EXCEPT ![s].pc = "start", ![s].app = app,
                          ![s].row.started = exec[s].n]
  /\ UNCHANGED <<app, live, dep, late, queue, trig, canc, recov, stat, edit,
                 applied, cut, asked, aborted, left>>

LoadFails(s) ==
  /\ exec[s].pc \in {"load", "loadApp"}
  /\ \/ exec[s].ctx # "live" /\ UNCHANGED left
     \/ Spend("fault")
  /\ Goto(s, "nack")
  /\ UNCHANGED <<app, live, dep, late, queue, trig, canc, recov, stat, edit,
                 applied, cut, asked, aborted>>

(* RunDeployJob returned nil: the message is deleted.                      *)
Ack(s) ==
  /\ exec[s].pc = "ack"
  /\ Queue!Delete(exec[s].d)
  /\ exec' = [exec EXCEPT ![s] = FreeSlot]
  /\ UNCHANGED <<app, live, dep, late, trig, canc, recov, stat, edit, applied,
                 cut, asked, aborted, left>>

AckFails(s) ==
  /\ exec[s].pc = "ack"
  /\ Spend("fault")
  /\ exec' = [exec EXCEPT ![s] = FreeSlot]
  /\ UNCHANGED <<app, live, dep, late, queue, trig, canc, recov, stat, edit,
                 applied, cut, asked, aborted>>

(* RunDeployJob returned an error: the message is archived at the last     *)
(* attempt and otherwise left to reappear.                                 *)
Resend(s) ==   \* mutant: a retry starts counting again
  queue' = [queue EXCEPT ![exec[s].d] = [@ EXCEPT !.st = "visible", !.ct = 0]]
Leave(s) ==
  IF exec[s].n >= MaxReadAttempts
  THEN Queue!Archive(exec[s].d) ELSE UNCHANGED queue

Nack(s) ==
  /\ exec[s].pc = "nack"
  /\ Leave(s)
  /\ exec' = [exec EXCEPT ![s] = FreeSlot]
  /\ UNCHANGED <<app, live, dep, late, trig, canc, recov, stat, edit, applied,
                 cut, asked, aborted, left>>

(* startCancelPoll watches the row while executeDeploy runs.               *)
Polled == {"start", "building", "buildErr", "built", "check", "reload",
           "deployWrite", "deploying", "success", "successApp", "saveApp", "fail",
           "failApp"}

PollCancel(s) ==
  /\ exec[s].pc \in Polled
  /\ exec[s].ctx = "live"
  /\ dep[exec[s].d].cancel
  /\ exec' = [exec EXCEPT ![s].ctx = "cancelled"]
  /\ UNCHANGED <<app, live, dep, late, queue, trig, canc, recov, stat, edit,
                 applied, cut, asked, aborted, left>>

(* SIGTERM and a job that outlives drainTimeout: cancelJobs.               *)
Shutdown(s) ==
  /\ exec[s].pc # "idle"
  /\ exec[s].ctx = "live"
  /\ Spend("shutdown")
  /\ exec' = [exec EXCEPT ![s].ctx = "cancelled"]
  /\ cut' = cut \cup {exec[s].d}
  /\ UNCHANGED <<app, live, dep, late, queue, trig, canc, recov, stat, edit,
                 applied, asked, aborted>>

(* The process dies, or exits once forceShutdownGrace is over.             *)
Crash(s) ==
  /\ exec[s].pc # "idle"
  /\ Spend("crash")
  /\ exec' = [exec EXCEPT ![s] = FreeSlot]
  /\ UNCHANGED <<app, live, dep, late, queue, trig, canc, recov, stat, edit,
                 applied, cut, asked, aborted>>

-----------------------------------------------------------------------------
(* executeDeploy and BuildService.Build *)

(* finalizeCancelled and the failure branches: what is left to write, and  *)
(* whether with context.Background().                                      *)
GotoFinalize(s) ==
  exec' = [exec EXCEPT ![s].pc = "finalize", ![s].bg = TRUE]
FallThrough(s, bg) ==   \* mutant: a missing return
  exec' = [exec EXCEPT ![s].pc = "success", ![s].bg = bg]
GotoFail(s, bg) ==
  exec' = [exec EXCEPT ![s].pc = "fail", ![s].bg = bg]

(* Both a build error and an orchestrator error count as a cancellation    *)
(* when the stored row asks for one.                                       *)
RowExists(s) == TRUE   \* mutant: cancelRequested reports that the row loads
Asked(s) == dep[exec[s].d].cancel

BeginBuild(s) ==
  /\ exec[s].pc = "start"
  /\ exec[s].app.source = "git"
  /\ LET row == [exec[s].row EXCEPT !.status = "building"] IN
       /\ exec' = [exec EXCEPT ![s].row = row, ![s].pc = "building", ![s].gone = FALSE]
       /\ dep' = IF Writes(s) THEN [dep EXCEPT ![exec[s].d] = row] ELSE dep
  /\ UNCHANGED <<app, live, late, queue, trig, canc, recov, stat, edit,
                 applied, cut, asked, aborted, left>>

(* The commit of this deployment is the commit of the latest one, which    *)
(* succeeded: its image is reused.  ForceBuild or another commit builds.   *)
SkipBuild(s) ==
  /\ exec[s].pc = "start"
  /\ exec[s].app.source = "git"
  /\ exec[s].ctx = "live"
  /\ exec[s].row.sha
  /\ \E e \in Deploys :
       /\ dep[e].status = "success" /\ dep[e].sha
       /\ \A f \in Deploys : e \notin dep[f].earlier
  /\ Save(s, exec[s].row, "deployWrite")
  /\ UNCHANGED <<app, live, late, queue, trig, canc, recov, stat, edit,
                 applied, cut, asked, aborted, left>>

(* The OnLog callback stores the whole row with the logs so far.           *)
BuildLogs(s) ==
  /\ exec[s].pc = "building"
  /\ Save(s, exec[s].row, "building")
  /\ UNCHANGED <<app, live, late, queue, trig, canc, recov, stat, edit,
                 applied, cut, asked, aborted, left>>

(* The build fails, is deleted or is interrupted; Build stores its error.  *)
BuildError(s) ==
  /\ exec[s].pc = "building"
  /\ Save(s, exec[s].row, "buildErr")
  /\ UNCHANGED <<app, live, late, queue, trig, canc, recov, stat, edit,
                 applied, cut, asked, aborted, left>>

BuildErrorCancelled(s) ==
  /\ exec[s].pc = "buildErr"
  /\ exec[s].ctx = "cancelled" \/ (exec[s].ctx = "live" /\ Asked(s))
  /\ GotoFinalize(s)
  /\ UNCHANGED <<app, live, dep, late, queue, trig, canc, recov, stat, edit,
                 applied, cut, asked, aborted, left>>

BuildErrorFailed(s) ==
  /\ exec[s].pc = "buildErr"
  /\ exec[s].ctx = "deadline" \/ (exec[s].ctx = "live" /\ ~Asked(s))
  /\ GotoFail(s, TRUE)
  /\ UNCHANGED <<app, live, dep, late, queue, trig, canc, recov, stat, edit,
                 applied, cut, asked, aborted, left>>

(* The image is built; Build stores the application it was given.          *)
BuildDone(s) ==
  /\ exec[s].pc = "building"
  /\ exec[s].ctx = "live"
  /\ ~exec[s].gone
  /\ app' = exec[s].app
  /\ Goto(s, "built")
  /\ UNCHANGED <<live, dep, late, queue, trig, canc, recov, stat, edit,
                 applied, cut, asked, aborted, left>>

(* It stores the deployment.                                               *)
BuildStored(s) ==
  /\ exec[s].pc = "built"
  /\ Save(s, exec[s].row, "check")
  /\ UNCHANGED <<app, live, late, queue, trig, canc, recov, stat, edit, applied,
                 cut, asked, aborted, left>>

(* executeDeploy checks the context.                                       *)
BuildChecked(s) ==
  /\ exec[s].pc = "check"
  /\ IF exec[s].ctx = "live" THEN Goto(s, "reload") ELSE GotoFinalize(s)
  /\ UNCHANGED <<app, live, dep, late, queue, trig, canc, recov, stat, edit,
                 applied, cut, asked, aborted, left>>

(* The application is read again.  The read fails when the context has     *)
(* ended since the check.                                                  *)
Reload(s) ==
  /\ exec[s].pc = "reload"
  /\ exec[s].ctx = "live"
  /\ exec' = [exec EXCEPT ![s].pc = "deployWrite", ![s].app = app]
  /\ UNCHANGED <<app, live, dep, late, queue, trig, canc, recov, stat, edit,
                 applied, cut, asked, aborted, left>>

ReloadFails(s) ==
  /\ exec[s].pc = "reload"
  /\ \/ exec[s].ctx # "live" /\ UNCHANGED left
     \/ Spend("fault")
  /\ GotoFail(s, TRUE)
  /\ UNCHANGED <<app, live, dep, late, queue, trig, canc, recov, stat, edit,
                 applied, cut, asked, aborted>>

DeployWrite(s) ==
  /\ \/ exec[s].pc = "deployWrite"
     \/ exec[s].pc = "start" /\ exec[s].app.source = "image"
  /\ Save(s, [exec[s].row EXCEPT !.status = "deploying"], "deploying")
  /\ UNCHANGED <<app, live, late, queue, trig, canc, recov, stat, edit,
                 applied, cut, asked, aborted, left>>

(* Registry credentials or the deploy target cannot be resolved.           *)
PrepareFails(s) ==
  /\ exec[s].pc = "deploying"
  /\ GotoFail(s, FALSE)
  /\ UNCHANGED <<app, live, dep, late, queue, trig, canc, recov, stat, edit,
                 applied, cut, asked, aborted, left>>

DeployErrorCancelled(s) ==
  /\ exec[s].pc = "deploying"
  /\ exec[s].ctx # "live" \/ Asked(s)
  /\ GotoFinalize(s)
  /\ UNCHANGED <<app, live, dep, late, queue, trig, canc, recov, stat, edit,
                 applied, cut, asked, aborted, left>>

DeployErrorFailed(s) ==
  /\ exec[s].pc = "deploying"
  /\ exec[s].ctx = "live" /\ ~Asked(s)
  /\ GotoFail(s, FALSE)
  /\ UNCHANGED <<app, live, dep, late, queue, trig, canc, recov, stat, edit,
                 applied, cut, asked, aborted, left>>

(* target.Deploy applies the manifests; the pods follow.                   *)
DeployApplied(s) ==
  /\ exec[s].pc = "deploying"
  /\ exec[s].ctx = "live"
  /\ applied' = applied \cup {exec[s].d}
  /\ live' \in {"pending", "running"}
  /\ Goto(s, "success")
  /\ UNCHANGED <<app, dep, late, queue, trig, canc, recov, stat, edit, cut,
                 asked, aborted, left>>

Succeed(s) ==
  /\ exec[s].pc = "success"
  /\ Save(s, [exec[s].row EXCEPT !.status = "success"], "successApp")
  /\ UNCHANGED <<app, live, late, queue, trig, canc, recov, stat, edit,
                 applied, cut, asked, aborted, left>>

SucceedApp(s) ==
  /\ exec[s].pc = "successApp"
  /\ SetApp(s, [app EXCEPT !.status = "running"])
  /\ Goto(s, "saveApp")
  /\ UNCHANGED <<live, dep, late, queue, trig, canc, recov, stat, edit,
                 applied, cut, asked, aborted, left>>

(* Applications().Update with the copy read before the rollout.            *)
SaveApp(s) ==
  /\ exec[s].pc = "saveApp"
  /\ SetApp(s, exec[s].app)
  /\ Goto(s, "ack")
  /\ UNCHANGED <<live, dep, late, queue, trig, canc, recov, stat, edit,
                 applied, cut, asked, aborted, left>>

Fail(s) ==
  /\ exec[s].pc = "fail"
  /\ Save(s, [exec[s].row EXCEPT !.status = "failed"], "failApp")
  /\ UNCHANGED <<app, live, late, queue, trig, canc, recov, stat, edit,
                 applied, cut, asked, aborted, left>>

FailApp(s) ==
  /\ exec[s].pc = "failApp"
  /\ SetApp(s, [app EXCEPT !.status = "error"])
  /\ Goto(s, "ack")
  /\ UNCHANGED <<live, dep, late, queue, trig, canc, recov, stat, edit,
                 applied, cut, asked, aborted, left>>

Finalize(s) ==
  /\ exec[s].pc = "finalize"
  /\ Save(s, [exec[s].row EXCEPT !.status = "cancelled"], "finalizeApp")
  /\ UNCHANGED <<app, live, late, queue, trig, canc, recov, stat, edit,
                 applied, cut, asked, aborted, left>>

FinalizeApp(s) ==
  /\ exec[s].pc = "finalizeApp"
  /\ \E st \in Restored : SetApp(s, [app EXCEPT !.status = st])
  /\ Goto(s, "ack")
  /\ UNCHANGED <<live, dep, late, queue, trig, canc, recov, stat, edit,
                 applied, cut, asked, aborted, left>>

-----------------------------------------------------------------------------
(* AppService.GetStatus, the settings requests, and the cluster *)

PodsChange ==
  /\ live # "absent"
  /\ Spend("pods")
  /\ live' \in {"pending", "running", "failed"}
  /\ UNCHANGED <<app, dep, late, queue, exec, trig, canc, recov, stat, edit,
                 applied, cut, asked, aborted>>

(* The status GetStatus derives from a settled phase.                      *)
StatusOf == [running |-> "running", failed |-> "error", stopped |-> "stopped",
             absent |-> "stopped"]

(* GetStatus compares it with the status it read, and then stores it.      *)
StatusRead ==
  /\ stat = "idle"
  /\ Spend("status")
  /\ live \in DOMAIN StatusOf
  /\ StatusOf[live] # app.status
  /\ stat' = StatusOf[live]
  /\ UNCHANGED <<app, live, dep, late, queue, exec, trig, canc, recov, edit,
                 applied, cut, asked, aborted>>

StatusWrite ==
  /\ stat # "idle"
  /\ app' = [app EXCEPT !.status = stat]
  /\ stat' = "idle"
  /\ UNCHANGED <<live, dep, late, queue, exec, trig, canc, recov, edit, applied,
                 cut, asked, aborted, left>>

(* AppService.UpdateEnvVars stores the row it read with the new settings,  *)
(* and then rolls them out if that row says there is a deployment.         *)
EditRead ==
  /\ edit.pc = "idle"
  /\ Spend("edit")
  /\ edit' = [pc |-> "write", app |-> [app EXCEPT !.cfg = MaxEvents - left + 1]]
  /\ UNCHANGED <<app, live, dep, late, queue, exec, trig, canc, recov, stat,
                 applied, cut, asked, aborted>>

Deployed(row) == row.status \notin {"idle", "stopped", "building"}

EditWrite ==
  /\ edit.pc = "write"
  /\ app' = edit.app
  /\ edit' = [pc |-> IF Deployed(edit.app) THEN "push" ELSE "idle", app |-> BlankApp]
  /\ UNCHANGED <<live, dep, late, queue, exec, trig, canc, recov, stat,
                 applied, cut, asked, aborted, left>>

EditPush ==
  /\ edit.pc = "push"
  /\ live' \in {live} \cup (IF live = "absent" THEN {} ELSE {"pending"})
  /\ edit' = [edit EXCEPT !.pc = "idle"]
  /\ UNCHANGED <<app, dep, late, queue, exec, trig, canc, recov, stat, applied,
                 cut, asked, aborted, left>>

-----------------------------------------------------------------------------
TriggerNext(d) ==
  \/ TriggerAdmit(d) \/ TriggerCreate(d) \/ TriggerEnqueue(d)
  \/ TriggerEnqueueFails(d) \/ TriggerUndo(d) \/ TriggerMarkBuilding(d)
  \/ WebhookCommit(d) \/ TriggerAborts(d)

CancelNext(d) ==
  \/ CancelRead(d) \/ CancelWrite(d) \/ CancelBuild(d) \/ CancelFinalize(d)
  \/ CancelFinalizeApp(d) \/ CancelAborts(d)

RecoverNext(d) ==
  RecoverList(d) \/ RecoverWrite(d) \/ RecoverApp(d)

DeliveryNext(s) ==
  \/ Load(s) \/ LoadApp(s) \/ LoadFails(s) \/ Ack(s) \/ AckFails(s) \/ Nack(s)
  \/ PollCancel(s) \/ Shutdown(s) \/ Crash(s)

BuildNext(s) ==
  \/ BeginBuild(s) \/ SkipBuild(s) \/ BuildLogs(s) \/ BuildError(s)
  \/ BuildErrorCancelled(s) \/ BuildErrorFailed(s) \/ BuildDone(s)
  \/ BuildStored(s) \/ BuildChecked(s) \/ Reload(s) \/ ReloadFails(s)

RolloutNext(s) ==
  \/ DeployWrite(s) \/ PrepareFails(s) \/ DeployErrorCancelled(s)
  \/ DeployErrorFailed(s) \/ DeployApplied(s) \/ Succeed(s) \/ SucceedApp(s)
  \/ SaveApp(s) \/ Fail(s) \/ FailApp(s) \/ Finalize(s) \/ FinalizeApp(s)

Next ==
  \/ \E d \in Deploys : \/ TriggerNext(d) \/ CancelNext(d) \/ RecoverNext(d)
                        \/ HalfHourPasses(d) \/ Redeliver(d)
                        \/ \E s \in Slots : Fetch(s, d)
  \/ \E s \in Slots : DeliveryNext(s) \/ BuildNext(s) \/ RolloutNext(s)
  \/ PodsChange \/ StatusRead \/ StatusWrite \/ EditRead \/ EditWrite
  \/ EditPush

Spec == Init /\ [][Next]_vars

(***************************************************************************)
(* Fairness: requests run to their end, the worker polls the queue and     *)
(* executes what it reads, builds and rollouts end, time passes, and the   *)
(* stale recovery runs every five minutes.  Nothing is assumed of crashes, *)
(* cancellations, log writes and the other events.                         *)
(***************************************************************************)
TriggerStep(d) ==
  \/ TriggerCreate(d) \/ TriggerEnqueue(d) \/ TriggerUndo(d)
  \/ TriggerMarkBuilding(d) \/ WebhookCommit(d)

CancelStep(d) ==
  CancelWrite(d) \/ CancelBuild(d) \/ CancelFinalize(d) \/ CancelFinalizeApp(d)

WorkerStep(s) ==
  \/ Load(s) \/ LoadApp(s) \/ Ack(s) \/ Nack(s)
  \/ exec[s].ctx # "live" /\ (LoadFails(s) \/ ReloadFails(s))
  \/ BeginBuild(s) \/ BuildError(s) \/ BuildErrorCancelled(s)
  \/ BuildErrorFailed(s) \/ BuildDone(s) \/ BuildStored(s) \/ BuildChecked(s)
  \/ Reload(s) \/ RolloutNext(s)

FairSpec ==
  /\ Spec
  /\ \A d \in Deploys : /\ WF_vars(TriggerStep(d)) /\ WF_vars(CancelStep(d))
                        /\ WF_vars(RecoverNext(d)) /\ WF_vars(HalfHourPasses(d))
                        /\ WF_vars(Redeliver(d))
  /\ \A s \in Slots : /\ WF_vars(WorkerStep(s))
                      /\ WF_vars(\E d \in Deploys : Fetch(s, d))

-----------------------------------------------------------------------------
(* Properties *)

(* The message of a job is hidden, at the read count of the attempt, for   *)
(* as long as a slot runs it: no second worker can receive it, and what    *)
(* the slot deletes or archives is the delivery it was given.              *)
Lease ==
  \A s \in Slots, d \in Deploys :
    Runs(s, d) => queue[d].st = "hidden" /\ queue[d].ct = exec[s].n

(* A deployment is executed by one slot at a time, whatever is redelivered *)
(* after crashes and shutdowns.                                            *)
OneRunner ==
  \A s, t \in Slots, d \in Deploys : Runs(s, d) /\ Runs(t, d) => s = t

(* A Cancel request that read the row while it was queued still has its    *)
(* finalizeCancelled to run.                                               *)
Owed(d) == canc[d].pc \in {"kill", "finalize"} /\ canc[d].row.status = "queued"

Requested(d) == trig[d] \in {"enqueue", "undo"}

(* recoverStaleDeployments leaves queued rows alone because the queue will *)
(* bring them to a worker.  That is so as long as no request was cut short *)
(* and no shutdown interrupted the job: a queued row has its message, or a *)
(* request that is about to send it or to finalize the row.  A webhook     *)
(* handler may put back a row whose message is gone.                       *)
Delivered(d) ==
  dep[d].status = "queued" => Queue!Held(d) \/ Requested(d) \/ Owed(d)

NoOrphan ==
  \A d \in Deploys \ (cut \cup aborted) :
    queue[d].st # "archived" /\ trig[d] # "hooked" => Delivered(d)

(* No deployment is reported successful that was not applied.              *)
SuccessWasApplied ==
  \A d \in Deploys : dep[d].status = "success" => d \in applied

(* A deployment ends cancelled only because a user asked, because its      *)
(* worker was shut down, or because its job context reached its deadline.  *)
CancelledForAReason ==
  \A d \in Deploys :
    dep[d].status = "cancelled" => d \in asked \cup cut \/ late[d] > 1

(* The row of d is terminal, and nobody holds an older copy of it.         *)
Settled(d) ==
  /\ dep[d].status \in Terminal
  /\ \A s \in Slots :
       Runs(s, d) => \/ exec[s].pc \in {"load", "ack", "nack"}
                     \/ exec[s].row.status \in Terminal
  /\ trig[d] \in {"done", "hooked"}
  /\ canc[d].pc \in {"idle", "finalizeApp"}
  /\ recov[d].pc \in {"idle", "app"}

(* A settled deployment is over: redelivery, a late Cancel and the stale   *)
(* recovery neither change its row nor roll it out again.                  *)
SettledIsFinal ==
  [][\A d \in Deploys :
       Settled(d) => dep'[d] = dep[d] /\ (d \in applied' => d \in applied)]_vars

(* The pipeline uses the queue as the queue allows.                        *)
QueueRefined == Queue!QueueSpec

(* Every deployment reaches a terminal status for good, unless the request *)
(* that made or cancelled it, or the worker that ran it, was stopped, or   *)
(* all the deliveries of its message failed.                               *)
Excused(d) == d \in cut \cup aborted \/ queue[d].st = "archived"

Finishes ==
  \A d \in Deploys :
    (dep[d].status = "queued") ~> [](dep[d].status \in Terminal \/ Excused(d))

-----------------------------------------------------------------------------
(* What the repository says of the program and the code does not keep *)

(* deploy_service_test.go, TestExecuteDeployBuildErrorWithCancelRequested: *)
(* when Cancel deletes the build job, the deployment must be finalized as  *)
(* cancelled rather than failed.                                           *)
CancelIsNotFailure ==
  \A s \in Slots :
    exec[s].pc = "fail" /\ exec[s].gone => exec[s].d \notin asked

(* cmd/worker/main.go on drainTimeout: a job that is cut off is redelivered. *)
CutJobIsRedelivered ==
  \A d \in cut \ asked :
    queue[d].st = "deleted" => dep[d].status # "cancelled"

(* Trigger's comment: the application is not stuck "building" with no work *)
(* actually running.  Here: after a deployment that read the application   *)
(* when Trigger had marked it, and that succeeded.                         *)
SuccessIsRunning ==
  \A s \in Slots :
    exec[s].pc = "ack" /\ exec[s].row.status = "success" /\ exec[s].app.status = "building"
      => app.status # "building"

(* Trigger's comment on the failed enqueue: no permanent queued orphan.    *)
NoQueuedOrphan ==
  \A d \in Deploys : trig[d] \in {"done", "hooked"} => Delivered(d)

(* The dashboard on Deploy: if code has not changed, the cached image is    *)
(* reused.  It is that of the deployment before the one that reuses it.    *)
SkipReusesEarlier ==
  [][\A s \in Slots :
       exec[s].pc = "start" /\ exec'[s].pc = "deployWrite"
         => \E e \in exec[s].row.earlier : dep[e].status = "success" /\ dep[e].sha]_vars

(* BuildService.Build: the application is updated with the built image.    *)
EditsSurvive == [][app'.cfg >= app.cfg]_vars

(* Trigger's error: "app is currently %s, wait for it to finish first".    *)
OneInFlight ==
  \A d, e \in Deploys :
    dep[d].status \in InProgress /\ dep[e].status \in InProgress => d = e
=============================================================================
