---------------------------- MODULE PageDeploys ----------------------------
(***************************************************************************)
(* The deployments of one static page, without a custom domain: the        *)
(* request that claims the page and creates the deployment, the job that   *)
(* builds and uploads it, the stale recovery, and the requests that change *)
(* the settings of the page and delete it                                  *)
(* (internal/service/page_deploy_service.go and page_service.go).          *)
(*                                                                         *)
(* A page in status deploying is locked: TryMarkDeploying, the change of   *)
(* the cloud account and the deletion are conditional updates that fail    *)
(* then.  The lock is a status, and belongs to nobody: a job may outlive   *)
(* it, since a deployment may take 40 and then 30 minutes while its        *)
(* message reappears, and its row is stale, after 40.                      *)
(***************************************************************************)
EXTENDS Naturals

CONSTANTS
  Deploys,          \* the deployments of the page
  Slots,            \* the worker goroutines that run jobs
  Editors,          \* the requests that change the settings
  MaxReadAttempts,  \* maxReadAttempts of cmd/worker/main.go
  ReadCap,          \* bound of the model: deliveries of one message
  Slow,             \* bound of the model: deployments that may last 40 minutes
  Events,           \* the environment events that may occur
  MaxEvents         \* bound of the model: how many of them occur

ASSUME PagesAssumption ==
  /\ Deploys # {}
  /\ Slow \subseteq Deploys
  /\ MaxReadAttempts \in Nat /\ ReadCap \in Nat
  /\ Events \subseteq {"abort", "crash", "shutdown", "fault", "edit", "delete"}
  /\ MaxEvents \in Nat

VARIABLES
  page,     \* row of the page
  dep,      \* rows of the deployments
  late,     \* the attempts numbered below late[d] began 40 minutes ago
  queue,    \* messages of the job queue
  exec,     \* worker slots
  trig,     \* PageDeployService.Trigger, per deployment
  recov,    \* recoverStale, per deployment it lists
  edit,     \* PageService.Update
  del       \* PageService.Delete
VARIABLES
  strays,   \* deployments whose job may run although the page is not theirs
  halted,   \* deployments with a request or job that nothing will complete
  left      \* how many more events may occur

vars == <<page, dep, late, queue, exec, trig, recov, edit, del, strays, halted, left>>

Queue == INSTANCE JobQueue WITH Jobs <- Deploys

-----------------------------------------------------------------------------
(* Rows and actors *)

Terminal == {"success", "failed"}

(* started is the number of the attempt that wrote StartedAt, 0 for NULL.  *)
Row == [status : {"none", "queued", "deploying"} \cup Terminal, started : 0..ReadCap]
NoRow == [status |-> "none", started |-> 0]
Queued == [status |-> "queued", started |-> 0]

(* The bucket and the distribution, named by the attempt that made them.   *)
NoSite == <<>>
Sites == {NoSite} \cup (Deploys \X (0..ReadCap))

(* Gone is the status of the model for a row that has been deleted; target *)
(* counts the changes of the cloud account and the region.                 *)
PageStatus == {"idle", "deploying", "live", "error"}
PageRow == [status : PageStatus \cup {"gone"}, site : Sites, target : 0..MaxEvents]
NewPage == [status |-> "idle", site |-> NoSite, target |-> 0]

SlotPC == {"idle", "load", "loadPage", "start", "startPage", "prepare", "prepared",
           "save", "upload", "succeed", "succeedPage", "fail", "failPage", "ack",
           "nack"}

(* cut says that the shutdown of the worker has cancelled the context.     *)
Slot == [pc : SlotPC, d : Deploys, n : 0..ReadCap, row : Row, page : PageRow,
         cut : BOOLEAN]
Delivery(pc, d, n) == [pc |-> pc, d |-> d, n |-> n, row |-> NoRow, page |-> NewPage,
                       cut |-> FALSE]
FreeSlot == Delivery("idle", CHOOSE d \in Deploys : TRUE, 0)

(* prev is the status that Trigger read.                                   *)
Request == [pc : {"idle", "claim", "create", "enqueue", "undo", "restore", "done"},
            prev : PageStatus]
Ended == [pc |-> "done", prev |-> "idle"]
Edit == [pc : {"idle", "write"}, retarget : BOOLEAN, row : PageRow]
NoEdit == [pc |-> "idle", retarget |-> FALSE, row |-> NewPage]

Runs(s, d) == exec[s].pc # "idle" /\ exec[s].d = d
Goto(s, pc) == exec' = [exec EXCEPT ![s].pc = pc]

(* updateDeploy: the whole row; the failure of a write is only logged.     *)
Save(s, row, pc) ==
  /\ exec' = [exec EXCEPT ![s].row = row, ![s].pc = pc]
  /\ dep' = IF exec[s].cut \/ dep[exec[s].d].status = "none"
            THEN dep ELSE [dep EXCEPT ![exec[s].d] = row]

(* Pages().UpdateStatus, which matches no row when the page is deleted.    *)
SetStatus(st) == page' = IF page.status = "gone" THEN page ELSE [page EXCEPT !.status = st]

(* setPageStatus: nothing is written when the copy has the status.         *)
SetPage(s, st, pc) ==
  /\ exec' = [exec EXCEPT ![s].page.status = st, ![s].pc = pc]
  /\ IF exec[s].page.status = st \/ exec[s].cut THEN UNCHANGED page ELSE SetStatus(st)

Spend(e) == e \in Events /\ left > 0 /\ left' = left - 1

TypeOK ==
  /\ page \in PageRow
  /\ dep \in [Deploys -> Row]
  /\ late \in [Deploys -> 0..ReadCap]
  /\ queue \in [Deploys -> Queue!Message]
  /\ exec \in [Slots -> Slot]
  /\ trig \in [Deploys -> Request]
  /\ recov \in [Deploys -> {"idle", "mark", "page"}]
  /\ edit \in [Editors -> Edit]
  /\ del \in {"idle", "delete"}
  /\ strays \subseteq Deploys /\ halted \subseteq Deploys /\ left \in 0..MaxEvents

Init ==
  /\ page = NewPage
  /\ dep = [d \in Deploys |-> NoRow]
  /\ late = [d \in Deploys |-> 0]
  /\ Queue!QueueInit
  /\ exec = [s \in Slots |-> FreeSlot]
  /\ trig = [d \in Deploys |-> [pc |-> "idle", prev |-> "idle"]]
  /\ recov = [d \in Deploys |-> "idle"]
  /\ edit = [x \in Editors |-> NoEdit]
  /\ del = "idle"
  /\ strays = {} /\ halted = {} /\ left = MaxEvents

-----------------------------------------------------------------------------
(* PageDeployService.Trigger *)

TriggerRead(d) ==
  /\ trig[d].pc = "idle"
  /\ page.status \notin {"deploying", "gone"}
  /\ trig' = [trig EXCEPT ![d] = [pc |-> "claim", prev |-> page.status]]
  /\ UNCHANGED <<page, dep, late, queue, exec, recov, edit, del, strays, halted, left>>

ClaimUnchecked == page.status # "gone"   \* mutant: an update without condition
Claimable == page.status \notin {"deploying", "gone"}

(* TryMarkDeploying.                                                       *)
TriggerClaim(d) ==
  /\ trig[d].pc = "claim"
  /\ page' = IF Claimable THEN [page EXCEPT !.status = "deploying"] ELSE page
  /\ trig' = [trig EXCEPT ![d] = IF Claimable THEN [@ EXCEPT !.pc = "create"] ELSE Ended]
  /\ UNCHANGED <<dep, late, queue, exec, recov, edit, del, strays, halted, left>>

TriggerCreate(d) ==
  /\ trig[d].pc = "create"
  /\ dep' = [dep EXCEPT ![d] = Queued]
  /\ trig' = [trig EXCEPT ![d].pc = "enqueue"]
  /\ UNCHANGED <<page, late, queue, exec, recov, edit, del, strays, halted, left>>

TriggerCreateFails(d) ==
  /\ trig[d].pc = "create"
  /\ Spend("fault")
  /\ trig' = [trig EXCEPT ![d].pc = "restore"]
  /\ UNCHANGED <<page, dep, late, queue, exec, recov, edit, del, strays, halted>>

TriggerEnqueue(d) ==
  /\ trig[d].pc = "enqueue"
  /\ Queue!Enqueue(d)
  /\ trig' = [trig EXCEPT ![d] = Ended]
  /\ UNCHANGED <<page, dep, late, exec, recov, edit, del, strays, halted, left>>

(* The error may be that of the answer: the message may have been sent.    *)
TriggerEnqueueFails(d) ==
  /\ trig[d].pc = "enqueue"
  /\ Spend("fault")
  /\ \/ Queue!Enqueue(d) /\ strays' = strays \cup {d}
     \/ UNCHANGED <<queue, strays>>
  /\ trig' = [trig EXCEPT ![d].pc = "undo"]
  /\ UNCHANGED <<page, dep, late, exec, recov, edit, del, halted>>

TriggerUndo(d) ==
  /\ trig[d].pc = "undo"
  /\ dep' = IF dep[d].status = "none" THEN dep
            ELSE [dep EXCEPT ![d] = [Queued EXCEPT !.status = "failed"]]
  /\ trig' = [trig EXCEPT ![d].pc = "restore"]
  /\ UNCHANGED <<page, late, queue, exec, recov, edit, del, strays, halted, left>>

TriggerRestore(d) ==
  /\ trig[d].pc = "restore"
  /\ SetStatus(trig[d].prev)
  /\ trig' = [trig EXCEPT ![d] = Ended]
  /\ UNCHANGED <<dep, late, queue, exec, recov, edit, del, strays, halted, left>>

(* The client disconnects, which cancels the request's context, or the     *)
(* server stops.                                                           *)
TriggerAborts(d) ==
  /\ trig[d].pc \notin {"idle", "done"}
  /\ Spend("abort")
  /\ halted' = halted \cup {d}
  /\ trig' = [trig EXCEPT ![d] = Ended]
  /\ UNCHANGED <<page, dep, late, queue, exec, recov, edit, del, strays>>

-----------------------------------------------------------------------------
(* Time, and recoverStale *)

(* Forty minutes have passed since attempt number late[d] began (0 is the  *)
(* creation of the row).  An attempt lasts at most 40 and 30 minutes, all  *)
(* of it in the two phases, so the one before has ended.  Nobody counts    *)
(* the time of a deployment that has ended and has no message.  Slow and   *)
(* late[d] < ReadCap are bounds of the model.                              *)
Phases == {"prepare", "prepared", "save", "upload"}

FortyMinutesPass(d) ==
  /\ d \in Slow
  /\ dep[d].status \in {"queued", "deploying"} \/ Queue!Held(d)
  /\ late[d] <= queue[d].ct /\ late[d] < ReadCap
  /\ \A s \in Slots :
       Runs(s, d) => /\ exec[s].n >= late[d]
                     /\ exec[s].n = late[d] => exec[s].pc \in Phases
  /\ late' = [late EXCEPT ![d] = @ + 1]
  /\ UNCHANGED <<page, dep, queue, exec, trig, recov, edit, del, strays, halted, left>>

Stale(d, row) == row.status = "deploying" /\ row.started < late[d]

RecoverList(d) ==
  /\ recov[d] = "idle"
  /\ Stale(d, dep[d])
  /\ recov' = [recov EXCEPT ![d] = "mark"]
  /\ UNCHANGED <<page, dep, late, queue, exec, trig, edit, del, strays, halted, left>>

StillDeploying(d) == dep[d].status = "deploying"

(* MarkTimedOut.  If the job is still running it has lost the page.        *)
RecoverMark(d) ==
  /\ recov[d] = "mark"
  /\ StillDeploying(d)
  /\ dep' = [dep EXCEPT ![d].status = "failed"]
  /\ recov' = [recov EXCEPT ![d] = "page"]
  /\ strays' = strays \cup (IF \E s \in Slots : Runs(s, d) THEN {d} ELSE {})
  /\ UNCHANGED <<page, late, queue, exec, trig, edit, del, halted, left>>

RecoverSkip(d) ==
  /\ recov[d] = "mark"
  /\ ~StillDeploying(d)
  /\ recov' = [recov EXCEPT ![d] = "idle"]
  /\ UNCHANGED <<page, dep, late, queue, exec, trig, edit, del, strays, halted, left>>

LeavePage == UNCHANGED page   \* mutant: the page is not released
ErrorPage == SetStatus("error")

RecoverPage(d) ==
  /\ recov[d] = "page"
  /\ ErrorPage
  /\ recov' = [recov EXCEPT ![d] = "idle"]
  /\ UNCHANGED <<dep, late, queue, exec, trig, edit, del, strays, halted, left>>

-----------------------------------------------------------------------------
(* The worker: runConsumer, processMessage and RunJob *)

(* The message of an attempt that began 40 minutes ago is delivered again, *)
(* also while that attempt runs.                                           *)
Redeliver(d) ==
  /\ late[d] > queue[d].ct
  /\ Queue!Reappear(d)
  /\ UNCHANGED <<page, dep, late, exec, trig, recov, edit, del, strays, halted, left>>

Fetch(s, d) ==
  /\ exec[s].pc = "idle"
  /\ Queue!Read(d)
  /\ exec' = [exec EXCEPT ![s] = Delivery("load", d, queue[d].ct + 1)]
  /\ strays' = strays \cup (IF \E t \in Slots : Runs(t, d) THEN {d} ELSE {})
  /\ UNCHANGED <<page, dep, late, trig, recov, edit, del, halted, left>>

Load(s) ==
  LET row == dep[exec[s].d] IN
  /\ exec[s].pc = "load"
  /\ ~exec[s].cut
  /\ row.status # "none"
  /\ \/ row.status \in Terminal /\ Goto(s, "ack")
     \/ /\ row.status \notin Terminal
        /\ exec' = [exec EXCEPT ![s].pc = "loadPage", ![s].row = row]
  /\ UNCHANGED <<page, dep, late, queue, trig, recov, edit, del, strays, halted, left>>

LoadPage(s) ==
  /\ exec[s].pc = "loadPage"
  /\ ~exec[s].cut
  /\ page.status # "gone"
  /\ exec' = [exec EXCEPT ![s].pc = "start", ![s].page = page]
  /\ UNCHANGED <<page, dep, late, queue, trig, recov, edit, del, strays, halted, left>>

(* The page is gone, the database fails, or the context is done.           *)
LoadFails(s) ==
  /\ exec[s].pc \in {"load", "loadPage"}
  /\ IF exec[s].cut \/ (exec[s].pc = "loadPage" /\ page.status = "gone") THEN UNCHANGED left
     ELSE Spend("fault")
  /\ Goto(s, "nack")
  /\ UNCHANGED <<page, dep, late, queue, trig, recov, edit, del, strays, halted>>

Start(s) ==
  /\ exec[s].pc = "start"
  /\ Save(s, [status |-> "deploying", started |-> exec[s].n], "startPage")
  /\ UNCHANGED <<page, late, queue, trig, recov, edit, del, strays, halted, left>>

StartPage(s) ==
  /\ exec[s].pc = "startPage"
  /\ SetPage(s, "deploying", "prepare")
  /\ UNCHANGED <<dep, late, queue, trig, recov, edit, del, strays, halted, left>>

(* logf stores the whole row with the logs so far.                         *)
Log(s) ==
  /\ exec[s].pc \in {"prepare", "prepared", "upload"}
  /\ Save(s, exec[s].row, exec[s].pc)
  /\ UNCHANGED <<page, late, queue, trig, recov, edit, del, strays, halted, left>>

(* The files are cloned or built; the commit and the path are stored.      *)
Prepare(s) ==
  /\ exec[s].pc = "prepare"
  /\ ~exec[s].cut
  /\ Save(s, exec[s].row, "prepared")
  /\ UNCHANGED <<page, late, queue, trig, recov, edit, del, strays, halted, left>>

(* The files are those of the latest successful deployment.                *)
SkipUnchanged(s) ==
  /\ exec[s].pc = "prepared"
  /\ ~exec[s].cut
  /\ \E e \in Deploys : dep[e].status = "success"
  /\ Save(s, exec[s].row, "succeed")
  /\ UNCHANGED <<page, late, queue, trig, recov, edit, del, strays, halted, left>>

(* Provision makes what the copy of the page does not name.                *)
Provision(s) ==
  /\ exec[s].pc = "prepared"
  /\ ~exec[s].cut
  /\ exec' = IF exec[s].page.site = NoSite
             THEN [exec EXCEPT ![s].page.site = <<exec[s].d, exec[s].n>>, ![s].pc = "save"]
             ELSE [exec EXCEPT ![s].pc = "upload"]
  /\ UNCHANGED <<page, dep, late, queue, trig, recov, edit, del, strays, halted, left>>

(* Pages().UpdateRuntime.                                                  *)
SaveRuntime(s) ==
  /\ exec[s].pc = "save"
  /\ ~exec[s].cut
  /\ page' = IF page.status = "gone" THEN page ELSE [page EXCEPT !.site = exec[s].page.site]
  /\ Goto(s, "upload")
  /\ UNCHANGED <<dep, late, queue, trig, recov, edit, del, strays, halted, left>>

Upload(s) ==
  /\ exec[s].pc = "upload"
  /\ ~exec[s].cut
  /\ Goto(s, "succeed")
  /\ UNCHANGED <<page, dep, late, queue, trig, recov, edit, del, strays, halted, left>>

(* Any of the steps may fail or run into its deadline.                     *)
StepFails(s) ==
  /\ exec[s].pc \in Phases
  /\ Goto(s, "fail")
  /\ UNCHANGED <<page, dep, late, queue, trig, recov, edit, del, strays, halted, left>>

Succeed(s) ==
  /\ exec[s].pc = "succeed"
  /\ Save(s, [exec[s].row EXCEPT !.status = "success"], "succeedPage")
  /\ UNCHANGED <<page, late, queue, trig, recov, edit, del, strays, halted, left>>

SucceedPage(s) ==
  /\ exec[s].pc = "succeedPage"
  /\ SetPage(s, "live", "ack")
  /\ UNCHANGED <<dep, late, queue, trig, recov, edit, del, strays, halted, left>>

Fail(s) ==
  /\ exec[s].pc = "fail"
  /\ Save(s, [exec[s].row EXCEPT !.status = "failed"], "failPage")
  /\ UNCHANGED <<page, late, queue, trig, recov, edit, del, strays, halted, left>>

FailPage(s) ==
  /\ exec[s].pc = "failPage"
  /\ SetPage(s, "error", "ack")
  /\ UNCHANGED <<dep, late, queue, trig, recov, edit, del, strays, halted, left>>

(* RunJob returned nil.  Another delivery of the message may have ended    *)
(* before and deleted it.                                                  *)
Ack(s) ==
  /\ exec[s].pc = "ack"
  /\ IF Queue!Held(exec[s].d) THEN Queue!Delete(exec[s].d) ELSE UNCHANGED queue
  /\ exec' = [exec EXCEPT ![s] = FreeSlot]
  /\ UNCHANGED <<page, dep, late, trig, recov, edit, del, strays, halted, left>>

AckFails(s) ==
  /\ exec[s].pc = "ack"
  /\ Spend("fault")
  /\ exec' = [exec EXCEPT ![s] = FreeSlot]
  /\ UNCHANGED <<page, dep, late, queue, trig, recov, edit, del, strays, halted>>

(* RunJob returned an error: the message is archived at the last attempt   *)
(* and otherwise left to reappear.                                         *)
Nack(s) ==
  /\ exec[s].pc = "nack"
  /\ IF exec[s].n >= MaxReadAttempts /\ Queue!Held(exec[s].d)
     THEN Queue!Archive(exec[s].d) /\ halted' = halted \cup {exec[s].d}
     ELSE UNCHANGED <<queue, halted>>
  /\ exec' = [exec EXCEPT ![s] = FreeSlot]
  /\ UNCHANGED <<page, dep, late, trig, recov, edit, del, strays, left>>

(* SIGTERM and a job that outlives drainTimeout: cancelJobs.               *)
Shutdown(s) ==
  /\ exec[s].pc # "idle"
  /\ ~exec[s].cut
  /\ Spend("shutdown")
  /\ exec' = [exec EXCEPT ![s].cut = TRUE]
  /\ halted' = halted \cup {exec[s].d}
  /\ UNCHANGED <<page, dep, late, queue, trig, recov, edit, del, strays>>

(* The process dies.  The next delivery ignores a terminal row, and so     *)
(* will not write the status of the page that should have followed it.     *)
Crash(s) ==
  /\ exec[s].pc # "idle"
  /\ Spend("crash")
  /\ exec' = [exec EXCEPT ![s] = FreeSlot]
  /\ halted' = IF /\ exec[s].pc \notin {"load", "ack", "nack"}
                  /\ dep[exec[s].d].status \in Terminal
               THEN halted \cup {exec[s].d} ELSE halted
  /\ UNCHANGED <<page, dep, late, queue, trig, recov, edit, del, strays>>

-----------------------------------------------------------------------------
(* PageService.Update and PageService.Delete *)

(* Update reads the page and changes its copy.  The cloud account and the  *)
(* region may only change before the first deployment.                     *)
EditRead(x) ==
  /\ edit[x].pc = "idle"
  /\ page.status # "gone"
  /\ Spend("edit")
  /\ \/ edit' = [edit EXCEPT ![x] = [pc |-> "write", retarget |-> FALSE, row |-> page]]
     \/ /\ page.status # "deploying" /\ page.site = NoSite
        /\ edit' = [edit EXCEPT ![x] =
             [pc |-> "write", retarget |-> TRUE,
              row |-> [page EXCEPT !.target = MaxEvents - left + 1]]]
  /\ UNCHANGED <<page, dep, late, queue, exec, trig, recov, del, strays, halted>>

WholeRow(x) ==   \* mutant: the whole row, as read
  IF page.status = "gone" THEN page ELSE edit[x].row
(* UpdateSettingsIfNotDeploying and UpdateSettings store the settings,     *)
(* whichever of them the request changed, and leave status and runtime.    *)
Stored(x) ==
  IF page.status = "gone" \/ (edit[x].retarget /\ page.status = "deploying")
  THEN page ELSE [page EXCEPT !.target = edit[x].row.target]

EditWrite(x) ==
  /\ edit[x].pc = "write"
  /\ page' = Stored(x)
  /\ edit' = [edit EXCEPT ![x] = NoEdit]
  /\ UNCHANGED <<dep, late, queue, exec, trig, recov, del, strays, halted, left>>

DeleteRead ==
  /\ del = "idle"
  /\ page.status \notin {"deploying", "gone"}
  /\ Spend("delete")
  /\ del' = "delete"
  /\ UNCHANGED <<page, dep, late, queue, exec, trig, recov, edit, strays, halted>>

DeletableUnchecked == page.status # "gone"   \* mutant: only the first check
Deletable == page.status \notin {"deploying", "gone"}

Draining(row) == [row EXCEPT !.status = "draining"]   \* mutant: the row is kept
Deleted(row) == [row EXCEPT !.status = "gone"]

(* DeleteIfNotDeploying hides the row; those of its deployments stay.      *)
DeleteRow ==
  /\ del = "delete"
  /\ page' = IF Deletable THEN Deleted(page) ELSE page
  /\ del' = "idle"
  /\ UNCHANGED <<dep, late, queue, exec, trig, recov, edit, strays, halted, left>>

-----------------------------------------------------------------------------
RequestNext(d) ==
  \/ TriggerRead(d) \/ TriggerClaim(d) \/ TriggerCreate(d) \/ TriggerCreateFails(d)
  \/ TriggerEnqueue(d) \/ TriggerEnqueueFails(d) \/ TriggerUndo(d)
  \/ TriggerRestore(d) \/ TriggerAborts(d)

TimeNext(d) ==
  \/ FortyMinutesPass(d) \/ Redeliver(d)
  \/ RecoverList(d) \/ RecoverMark(d) \/ RecoverSkip(d) \/ RecoverPage(d)

DeliveryNext(s) ==
  \/ Load(s) \/ LoadPage(s) \/ LoadFails(s) \/ Ack(s) \/ AckFails(s) \/ Nack(s)
  \/ Shutdown(s) \/ Crash(s)

JobNext(s) ==
  \/ Start(s) \/ StartPage(s) \/ Log(s) \/ Prepare(s) \/ SkipUnchanged(s)
  \/ Provision(s) \/ SaveRuntime(s) \/ Upload(s) \/ StepFails(s)
  \/ Succeed(s) \/ SucceedPage(s) \/ Fail(s) \/ FailPage(s)

Next ==
  \/ \E d \in Deploys : \/ RequestNext(d) \/ TimeNext(d)
                        \/ \E s \in Slots : Fetch(s, d)
  \/ \E s \in Slots : DeliveryNext(s) \/ JobNext(s)
  \/ \E x \in Editors : EditRead(x) \/ EditWrite(x)
  \/ DeleteRead \/ DeleteRow

Spec == Init /\ [][Next]_vars

-----------------------------------------------------------------------------
(* Properties *)

InFlight(d) == dep[d].status \in {"queued", "deploying"}

(* TryMarkDeploying admits one deployment at a time, as long as no job has *)
(* outlived its claim on the page.                                         *)
OneAtATime ==
  strays = {} => \A d, e \in Deploys : InFlight(d) /\ InFlight(e) => d = e

(* What will take the page out of deploying: the request, the message of a *)
(* queued deployment, the job, or the stale recovery, which lists only     *)
(* rows that are deploying.                                                *)
Releases(d) ==
  \/ trig[d].pc \in {"create", "enqueue", "undo", "restore"}
  \/ dep[d].status = "queued" /\ Queue!Held(d)
  \/ dep[d].status = "deploying"
  \/ recov[d] = "page"
  \/ \E s \in Slots : Runs(s, d) /\ exec[s].pc \notin {"load", "ack", "nack"}

(* A page that is deploying will be released: else every deployment, and   *)
(* the deletion of the page, is refused for good.                          *)
LockIsReleased ==
  page.status = "deploying" /\ halted = {} => \E d \in Deploys : Releases(d)

(* PageService.Delete never takes the row, or the bucket, from under a     *)
(* job, and a job of a deleted page never makes one.                       *)
PageOutlivesJob ==
  strays = {} =>
    \A s \in Slots : exec[s].pc \in Phases => page.status # "gone"

(* The site a page records stays: no settings request erases it and no     *)
(* deployment makes another one.                                           *)
SiteIsKept ==
  [][strays = {} /\ page.site # NoSite => page'.site = page.site]_vars

(* The row of d is terminal, and nobody holds an older copy of it.         *)
Settled(d) ==
  /\ dep[d].status \in Terminal
  /\ trig[d].pc \in {"restore", "done"}
  /\ \A s \in Slots :
       Runs(s, d) => \/ exec[s].pc \in {"load", "ack", "nack"}
                     \/ exec[s].row.status \in Terminal

(* A deployment that has ended keeps its outcome, also when the stale      *)
(* recovery listed it before it ended.                                     *)
OutcomeIsFinal ==
  [][\A d \in Deploys :
       Settled(d) => dep'[d] = dep[d]]_vars

(* PageService.Update: no deployment is left provisioning into the old     *)
(* account or region while the row points at the new one.                  *)
TargetIsHeld ==
  strays = {} =>
    \A s \in Slots :
      exec[s].pc \in {"save", "upload"} => page.target = exec[s].page.target
=============================================================================
