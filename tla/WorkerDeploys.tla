----------------------------- MODULE WorkerDeploys -----------------------------
(***************************************************************************)
(* The deployments of one Cloudflare worker: the requests that deploy,     *)
(* confirm, change and delete it, the job, the build pod that runs         *)
(* wrangler, and the stale recovery (internal/service/worker_service.go,   *)
(* worker_deploy_service.go, k3s/worker_build.go, store/pg/worker_store.go)*)
(*                                                                         *)
(* The status deploying of the worker locks it, as that of a page does.    *)
(* Unlike pages, a job is cut off after 30 minutes, before its message     *)
(* reappears; but its pod may go on without it, and a bucket that exists   *)
(* parks the deployment until a user has confirmed its reuse.              *)
(***************************************************************************)
EXTENDS Naturals, FiniteSets

CONSTANTS
  Deploys,          \* the deployments, numbered in the order of their creation
  Slots,            \* the goroutines of the worker process that run jobs
  Requests,         \* slots for API requests under way
  Accounts,         \* the Cloudflare accounts
  Preowned,         \* the accounts in which another application has the bucket
  NoAccount,        \* the worker names no account
  Initial,          \* bound of the model: the accounts it is created with
  MaxReadAttempts,  \* maxReadAttempts of cmd/worker/main.go
  ReadCap,          \* bound of the model: deliveries of one message
  Ops,              \* the operations requested
  MaxOps,           \* bound of the model: requests
  Events,           \* what may go wrong
  MaxEvents         \* bound of the model: how often it does

ASSUME WorkersAssumption ==
  /\ Deploys \subseteq Nat \ {0} /\ Deploys # {}
  /\ Preowned \subseteq Accounts /\ NoAccount \notin Accounts
  /\ Initial \subseteq Accounts \cup {NoAccount}
  /\ Ops \subseteq {"deploy", "confirm", "edit", "move", "delete"}
  /\ Events \subseteq {"abort", "crash", "shutdown", "fault"}
  /\ MaxReadAttempts \in Nat /\ ReadCap \in Nat /\ MaxOps \in Nat /\ MaxEvents \in Nat

VARIABLES
  worker,   \* row of the worker
  dep,      \* rows of its deployments
  queue,    \* messages of the job queue
  exec,     \* slots of the worker process
  pod,      \* the build pods, by deployment and attempt
  cloud,    \* Cloudflare: the accounts with the bucket and with the script; the
            \* deployments that ran wrangler; where users agreed to the bucket
  req,      \* the requests
  recov,    \* recoverStale, per deployment it lists
  tear,     \* the teardowns of the script after a deletion, by account
  left,     \* requests and events still to come
  odd       \* what has happened that the properties make exceptions for

vars == <<worker, dep, queue, exec, pod, cloud, req, recov, tear, left, odd>>

Queue == INSTANCE JobQueue WITH Jobs <- Deploys

-----------------------------------------------------------------------------
(* State *)

(* Confirmed: that the bucket is among R2ConfirmedBuckets; script: that    *)
(* Runtime names the script.                                               *)
Worker == [life : {"active", "deleted"}, status : {"idle", "deploying", "live", "error"},
           account : Accounts \cup {NoAccount}, confirmed : BOOLEAN, script : BOOLEAN]
Done == {"needs_confirmation", "success", "failed", "cancelled"}
Status == {"none", "queued", "deploying"} \cup Done
Pod == [ph : {"absent", "new", "checked", "paused", "done", "failed", "exited"},
        account : Accounts \cup {NoAccount}, confirmed : BOOLEAN]
NoPod == [ph |-> "absent", account |-> NoAccount, confirmed |-> FALSE]

(* row and copy: the deployment and the worker as the job has read them.   *)
Slot == [pc : {"idle", "load", "loadWorker", "start", "mark", "resolve", "wait", "runtime",
               "end", "endWorker", "ack", "nack"},
         d : Deploys, n : 0..ReadCap, row : Status, copy : Worker, cut : BOOLEAN]
(* d: the deployment requested, old: the one that waits for confirmation.  *)
Request == [op : {"none", "deploy", "confirm", "edit", "move", "delete"},
            pc : {"free", "latest", "claim", "persist", "read", "mark", "create", "enqueue",
                  "undo", "restore", "finish", "revert", "write", "delete"},
            copy : Worker, d : Deploys \cup {0}, old : Deploys \cup {0}]

Fresh(a) == [life |-> "active", status |-> "idle", account |-> a, confirmed |-> FALSE,
             script |-> FALSE]
FreeSlot == [pc |-> "idle", d |-> CHOOSE d \in Deploys : TRUE, n |-> 0, row |-> "none",
             copy |-> Fresh(NoAccount), cut |-> FALSE]
FreeRequest == [op |-> "none", pc |-> "free", copy |-> Fresh(NoAccount), d |-> 0, old |-> 0]

TypeOK ==
  /\ worker \in Worker
  /\ dep \in [Deploys -> Status]
  /\ queue \in [Deploys -> Queue!Message]
  /\ exec \in [Slots -> Slot]
  /\ pod \in [Deploys \X (1..ReadCap) -> Pod]
  /\ cloud \in [bucket : SUBSET Accounts, script : SUBSET Accounts, by : SUBSET Deploys,
               approved : SUBSET Accounts]
  /\ req \in [Requests -> Request]
  /\ recov \in [Deploys -> {"idle", "mark", "worker"}]
  /\ tear \subseteq Accounts
  /\ left \in [ops : 0..MaxOps, events : 0..MaxEvents]
  /\ odd \subseteq {"rewritten", "overtaken", "misread", "unchecked", "moved", "halted", "orphan"}

Init ==
  /\ worker \in {Fresh(a) : a \in Initial}
  /\ dep = [d \in Deploys |-> "none"]
  /\ Queue!QueueInit
  /\ exec = [s \in Slots |-> FreeSlot]
  /\ pod = [p \in Deploys \X (1..ReadCap) |-> NoPod]
  /\ cloud = [bucket |-> Preowned, script |-> {}, by |-> {}, approved |-> {}]
  /\ req = [r \in Requests |-> FreeRequest]
  /\ recov = [d \in Deploys |-> "idle"]
  /\ tear = {}
  /\ left = [ops |-> MaxOps, events |-> MaxEvents]
  /\ odd = {}

There == worker.life = "active"
Runs(s, d) == exec[s].pc # "idle" /\ exec[s].d = d
Spend(e) == e \in Events /\ left.events > 0 /\ left' = [left EXCEPT !.events = @ - 1]
Note(what) == odd' = odd \cup {what}
Goto(r, pc) == req' = [req EXCEPT ![r].pc = pc]
End(r) == req' = [req EXCEPT ![r] = FreeRequest]

-----------------------------------------------------------------------------
(* The store: an update matches no row once the worker is deleted. *)

SetStatus(st) == worker' = IF There THEN [worker EXCEPT !.status = st] ELSE worker
MarkAlways == There   \* mutant: an update without condition
TryMark == There /\ worker.status # "deploying"

(* Update writes every column, the status and the runtime of the copy too. *)
Rewrite(copy) ==
  /\ worker' = IF There THEN copy ELSE worker
  /\ IF There /\ [copy EXCEPT !.confirmed = worker.confirmed] # worker
     THEN Note("rewritten") ELSE UNCHANGED odd

-----------------------------------------------------------------------------
(* WorkerDeployService.Trigger *)

Spare == {d \in Deploys : dep[d] = "none" /\ \A e \in Deploys : e < d => dep[e] # "none"}

Begin(r, op, pc, copy) ==
  /\ req[r].pc = "free" /\ op \in Ops /\ left.ops > 0 /\ There
  /\ left' = [left EXCEPT !.ops = @ - 1]
  /\ req' = [req EXCEPT ![r] = [FreeRequest EXCEPT !.op = op, !.pc = pc, !.copy = copy]]
  /\ UNCHANGED <<worker, dep, queue, exec, pod, cloud, recov, tear, odd>>

Deployable(w) == w.status # "deploying" /\ w.account # NoAccount
BeginDeploy(r) == Deployable(worker) /\ Begin(r, "deploy", "mark", worker)

(* The end of a Trigger that fails: ConfirmR2 restores the parked row.     *)
Refused(r) == IF req[r].op = "confirm" THEN Goto(r, "revert") ELSE End(r)

Mark(r) ==
  /\ req[r].pc = "mark"
  /\ IF TryMark THEN SetStatus("deploying") /\ Goto(r, "create")
     ELSE Refused(r) /\ UNCHANGED worker
  /\ UNCHANGED <<dep, queue, exec, pod, cloud, recov, tear, left, odd>>

Create(r) ==
  /\ req[r].pc = "create"
  /\ \E d \in Spare :
       /\ dep' = [dep EXCEPT ![d] = "queued"]
       /\ req' = [req EXCEPT ![r].pc = "enqueue", ![r].d = d]
  /\ UNCHANGED <<worker, queue, exec, pod, cloud, recov, tear, left, odd>>

CreateFails(r) ==
  /\ req[r].pc = "create" /\ Spend("fault") /\ Goto(r, "restore")
  /\ UNCHANGED <<worker, dep, queue, exec, pod, cloud, recov, tear, odd>>

EnqueueJob(r) ==
  /\ req[r].pc = "enqueue"
  /\ Queue!Enqueue(req[r].d)
  /\ IF req[r].op = "confirm" THEN Goto(r, "finish") ELSE End(r)
  /\ UNCHANGED <<worker, dep, exec, pod, cloud, recov, tear, left, odd>>

(* The message may have been sent, and only the answer been lost.          *)
EnqueueFails(r) ==
  /\ req[r].pc = "enqueue" /\ Spend("fault") /\ Goto(r, "undo")
  /\ \/ UNCHANGED <<queue, odd>>
     \/ Queue!Enqueue(req[r].d) /\ Note("overtaken")
  /\ UNCHANGED <<worker, dep, exec, pod, cloud, recov, tear>>

UndoCreate(r) ==
  /\ req[r].pc = "undo"
  /\ dep' = [dep EXCEPT ![req[r].d] = "failed"]
  /\ Goto(r, "restore")
  /\ UNCHANGED <<worker, queue, exec, pod, cloud, recov, tear, left, odd>>

KeepMark(r) == UNCHANGED worker   \* mutant: the mark is not taken back
TakeBack(r) == SetStatus(req[r].copy.status)
Restore(r) ==
  /\ req[r].pc = "restore"
  /\ TakeBack(r) /\ Refused(r)
  /\ UNCHANGED <<dep, queue, exec, pod, cloud, recov, tear, left, odd>>

-----------------------------------------------------------------------------
(* WorkerDeployService.ConfirmR2 *)

BeginConfirm(r) == Begin(r, "confirm", "latest", worker)

Latest == {d \in Deploys : dep[d] # "none" /\ \A e \in Deploys : e > d => dep[e] = "none"}
ReadLatest(r) ==
  /\ req[r].pc = "latest"
  /\ \/ \E d \in Latest : dep[d] = "needs_confirmation"
                          /\ req' = [req EXCEPT ![r].pc = "claim", ![r].old = d]
     \/ (\A d \in Latest : dep[d] # "needs_confirmation") /\ End(r)
  /\ UNCHANGED <<worker, dep, queue, exec, pod, cloud, recov, tear, left, odd>>

ClaimAlways(d) == TRUE   \* mutant: the claim is not conditional
Claimable(d) == dep[d] = "needs_confirmation"
Claim(r) ==
  /\ req[r].pc = "claim"
  /\ LET d == req[r].old IN
     IF Claimable(d)
     THEN /\ dep' = [dep EXCEPT ![d] = "cancelled"] /\ Goto(r, "persist")
          /\ cloud' = [cloud EXCEPT !.approved = @ \cup ({req[r].copy.account} \cap Accounts)]
     ELSE UNCHANGED <<dep, cloud>> /\ End(r)
  /\ UNCHANGED <<worker, queue, exec, pod, recov, tear, left, odd>>

Persist(r) ==
  /\ req[r].pc = "persist"
  /\ Rewrite([req[r].copy EXCEPT !.confirmed = TRUE])
  /\ Goto(r, "read")
  /\ UNCHANGED <<dep, queue, exec, pod, cloud, recov, tear, left>>

PersistFails(r) ==
  /\ req[r].pc = "persist" /\ Spend("fault") /\ Goto(r, "revert")
  /\ UNCHANGED <<worker, dep, queue, exec, pod, cloud, recov, tear, odd>>

(* Trigger reads the worker again.                                         *)
ReadAgain(r) ==
  /\ req[r].pc = "read"
  /\ req' = [req EXCEPT ![r].pc = IF There /\ Deployable(worker) THEN "mark" ELSE "revert",
                        ![r].copy = worker]
  /\ UNCHANGED <<worker, dep, queue, exec, pod, cloud, recov, tear, left, odd>>

(* Both write the whole row of the parked deployment.                      *)
Finish(r) ==
  /\ req[r].pc = "finish"
  /\ dep' = [dep EXCEPT ![req[r].old] = "cancelled"]
  /\ End(r) /\ UNCHANGED <<worker, queue, exec, pod, cloud, recov, tear, left, odd>>
Revert(r) ==
  /\ req[r].pc = "revert"
  /\ dep' = [dep EXCEPT ![req[r].old] = "needs_confirmation"]
  /\ End(r) /\ UNCHANGED <<worker, queue, exec, pod, cloud, recov, tear, left, odd>>

-----------------------------------------------------------------------------
(* WorkerService.Update and Delete *)

(* Every settings column is written, the account too.  Its change is       *)
(* conditional, but not the writing back of the one that was read.         *)
BeginEdit(r) == Begin(r, "edit", "write", worker)
BeginMove(r) ==
  \E a \in Accounts \ {worker.account} :
    Begin(r, "move", "write", [worker EXCEPT !.account = a])

Write(r) ==
  LET a == req[r].copy.account IN
  /\ req[r].pc = "write"
  /\ IF There /\ (req[r].op = "move" => worker.status # "deploying")
     THEN /\ worker' = [worker EXCEPT !.account = a]
          /\ IF worker.account \in {a, NoAccount} THEN UNCHANGED odd
             ELSE Note(IF req[r].op = "move" THEN "moved" ELSE "rewritten")
     ELSE UNCHANGED <<worker, odd>>
  /\ End(r) /\ UNCHANGED <<dep, queue, exec, pod, cloud, recov, tear, left>>

BeginDelete(r) == worker.status # "deploying" /\ Begin(r, "delete", "delete", worker)

DeletableAlways == There   \* mutant: only the first check
Deletable == There /\ worker.status # "deploying"
Delete(r) ==
  /\ req[r].pc = "delete"
  /\ IF Deletable
     THEN /\ worker' = [worker EXCEPT !.life = "deleted"]
          /\ tear' = tear \cup (IF worker.script THEN {worker.account} \cap Accounts ELSE {})
     ELSE UNCHANGED <<worker, tear>>
  /\ End(r) /\ UNCHANGED <<dep, queue, exec, pod, cloud, recov, left, odd>>

(* teardownScriptAsync, in a pod of its own; the server may stop meanwhile.*)
Teardown(a) ==
  /\ a \in tear
  /\ tear' = tear \ {a}
  /\ \/ cloud' = [cloud EXCEPT !.script = @ \ {a}] /\ UNCHANGED <<left, odd>>
     \/ UNCHANGED cloud /\ Spend("fault") /\ Note("orphan")
  /\ UNCHANGED <<worker, dep, queue, exec, pod, req, recov>>

(* The client disconnects or the server stops.                             *)
Abort(r) ==
  /\ req[r].pc # "free" /\ Spend("abort") /\ Note("halted") /\ End(r)
  /\ UNCHANGED <<worker, dep, queue, exec, pod, cloud, recov, tear>>

-----------------------------------------------------------------------------
(* The worker process: RunJob *)

To(s, pc) == exec' = [exec EXCEPT ![s].pc = pc]
Save(s, row) ==
  dep' = IF exec[s].cut THEN dep ELSE [dep EXCEPT ![exec[s].d] = row]

Fetch(s, d) ==
  /\ exec[s].pc = "idle" /\ Queue!Read(d)
  /\ exec' = [exec EXCEPT ![s] = [FreeSlot EXCEPT !.pc = "load", !.d = d, !.n = queue[d].ct + 1]]
  /\ UNCHANGED <<worker, dep, pod, cloud, req, recov, tear, left, odd>>

Load(s) ==
  /\ exec[s].pc = "load" /\ ~ exec[s].cut
  /\ To(s, IF dep[exec[s].d] \in Done THEN "ack" ELSE "loadWorker")
  /\ UNCHANGED <<worker, dep, queue, pod, cloud, req, recov, tear, left, odd>>

LoadWorker(s) ==
  /\ exec[s].pc = "loadWorker" /\ ~ exec[s].cut /\ There
  /\ exec' = [exec EXCEPT ![s].pc = "start", ![s].copy = worker]
  /\ UNCHANGED <<worker, dep, queue, pod, cloud, req, recov, tear, left, odd>>

LoadFails(s) ==
  /\ exec[s].pc \in {"load", "loadWorker"}
  /\ IF exec[s].cut \/ (exec[s].pc = "loadWorker" /\ ~ There) THEN UNCHANGED left
     ELSE Spend("fault")
  /\ To(s, "nack")
  /\ UNCHANGED <<worker, dep, queue, pod, cloud, req, recov, tear, odd>>

Start(s) ==
  /\ exec[s].pc = "start"
  /\ Save(s, "deploying")
  /\ exec' = [exec EXCEPT ![s].pc = "mark", ![s].row = "deploying"]
  /\ UNCHANGED <<worker, queue, pod, cloud, req, recov, tear, left, odd>>

(* setWorkerStatus writes nothing if the copy has the status already.      *)
MarkWorker(s) ==
  /\ exec[s].pc = "mark"
  /\ IF exec[s].copy.status = "deploying" \/ exec[s].cut THEN UNCHANGED worker
     ELSE SetStatus("deploying")
  /\ To(s, "resolve")
  /\ UNCHANGED <<dep, queue, pod, cloud, req, recov, tear, left, odd>>

Outcome(s, row, pc) == exec' = [exec EXCEPT ![s].pc = pc, ![s].row = row]

(* The account, the token and the builder are looked up, then the pod is   *)
(* created with what the copy of the worker says.                          *)
Resolve(s) ==
  /\ exec[s].pc = "resolve"
  /\ \/ Outcome(s, "failed", "end") /\ UNCHANGED pod
     \/ /\ exec[s].copy.account # NoAccount /\ ~ exec[s].cut
        /\ pod' = [pod EXCEPT ![<<exec[s].d, exec[s].n>>] =
             [ph |-> "new", account |-> exec[s].copy.account, confirmed |-> exec[s].copy.confirmed]]
        /\ To(s, "wait")
  /\ UNCHANGED <<worker, dep, queue, cloud, req, recov, tear, left, odd>>

Mine(s) == <<exec[s].d, exec[s].n>>
Phase(s) == pod[Mine(s)].ph
Waits(s) == exec[s].pc = "wait"

Log(s) ==
  /\ Waits(s) /\ Save(s, "deploying")
  /\ UNCHANGED <<worker, queue, exec, pod, cloud, req, recov, tear, left, odd>>

(* The pod is deleted when runWorkerPod returns.                           *)
Leave(s) == pod' = [pod EXCEPT ![Mine(s)] = NoPod]

Deployed(s) ==
  /\ Waits(s) /\ ~ exec[s].cut /\ Phase(s) = "done"
  /\ Leave(s)
  /\ exec' = [exec EXCEPT ![s].pc = "runtime", ![s].row = "success", ![s].copy.script = TRUE]
  /\ UNCHANGED <<worker, dep, queue, cloud, req, recov, tear, left, odd>>

Parked(s) ==
  /\ Waits(s) /\ ~ exec[s].cut /\ Phase(s) = "paused"
  /\ Leave(s) /\ Outcome(s, "needs_confirmation", "end")
  /\ UNCHANGED <<worker, dep, queue, cloud, req, recov, tear, left, odd>>

(* The exec that looks for the marker, or reads the output, fails.         *)
Misread(s) ==
  /\ Waits(s) /\ ~ exec[s].cut /\ Phase(s) \in {"paused", "done"}
  /\ Spend("fault") /\ Note("misread")
  /\ Leave(s) /\ Outcome(s, "success", "runtime")
  /\ UNCHANGED <<worker, dep, queue, cloud, req, recov, tear>>

(* The build fails, the buckets are not readable, the pod has exited, time *)
(* is up or the context is done.                                           *)
WaitFails(s) ==
  /\ Waits(s)
  /\ IF Phase(s) \in {"done", "exited"} THEN Note("orphan") ELSE UNCHANGED odd
  /\ Leave(s) /\ Outcome(s, "failed", "end")
  /\ UNCHANGED <<worker, dep, queue, cloud, req, recov, tear, left>>

(* Workers().UpdateRuntime; its failure is logged.                         *)
Script(s) == exec[s].copy.script
SaveRuntime(s) ==
  /\ exec[s].pc = "runtime"
  /\ \/ /\ worker' = IF There /\ ~ exec[s].cut THEN [worker EXCEPT !.script = Script(s)] ELSE worker
        /\ UNCHANGED <<left, odd>>
     \/ UNCHANGED worker /\ Spend("fault") /\ Note("orphan")
  /\ To(s, "end")
  /\ UNCHANGED <<dep, queue, pod, cloud, req, recov, tear>>

Finished(s) ==
  /\ exec[s].pc = "end"
  /\ \/ Save(s, exec[s].row) /\ UNCHANGED <<left, odd>>
     \/ UNCHANGED dep /\ Spend("fault") /\ Note("halted")
  /\ To(s, "endWorker")
  /\ UNCHANGED <<worker, queue, pod, cloud, req, recov, tear>>

SameStatus(row) == row   \* mutant: the status of the deployment
WorkerStatus(row) == CASE row = "success" -> "live" [] row = "failed" -> "error" [] OTHER -> "idle"
FinishedWorker(s) ==
  /\ exec[s].pc = "endWorker"
  /\ IF exec[s].cut THEN UNCHANGED worker ELSE SetStatus(WorkerStatus(exec[s].row))
  /\ To(s, "ack")
  /\ UNCHANGED <<dep, queue, pod, cloud, req, recov, tear, left, odd>>

Ack(s) ==
  /\ exec[s].pc = "ack"
  /\ \/ Queue!Delete(exec[s].d) /\ UNCHANGED left
     \/ Spend("fault") /\ UNCHANGED queue
  /\ exec' = [exec EXCEPT ![s] = FreeSlot]
  /\ UNCHANGED <<worker, dep, pod, cloud, req, recov, tear, odd>>

Nack(s) ==
  /\ exec[s].pc = "nack"
  /\ IF exec[s].n >= MaxReadAttempts THEN Queue!Archive(exec[s].d) /\ Note("halted")
     ELSE UNCHANGED <<queue, odd>>
  /\ exec' = [exec EXCEPT ![s] = FreeSlot]
  /\ UNCHANGED <<worker, dep, pod, cloud, req, recov, tear, left>>

(* SIGTERM, and jobs that outlive drainTimeout.  What they should have     *)
(* written is not; the stale recovery makes up for a row still deploying.  *)
Shutdown ==
  /\ Spend("shutdown")
  /\ \E s \in Slots : exec[s].pc # "idle"
  /\ exec' = [s \in Slots |-> IF exec[s].pc = "idle" THEN exec[s] ELSE [exec[s] EXCEPT !.cut = TRUE]]
  /\ Note("halted")
  /\ UNCHANGED <<worker, dep, queue, pod, cloud, req, recov, tear>>

Running(p) == pod[p].ph \in {"new", "checked"}
(* The process dies: its pods go on.                                       *)
Crash ==
  /\ Spend("crash")
  /\ \E s \in Slots : exec[s].pc # "idle"
  /\ exec' = [s \in Slots |-> FreeSlot]
  /\ recov' = [d \in Deploys |-> "idle"]
  /\ odd' = odd \cup (IF \E p \in DOMAIN pod : pod[p].ph # "absent" THEN {"orphan"} ELSE {})
                \cup (IF (\E s \in Slots : exec[s].pc \in {"runtime", "end"}) THEN {"orphan"} ELSE {})
                \cup (IF (\E s \in Slots : exec[s].pc = "endWorker")
                         \/ (\E d \in Deploys : recov[d] = "worker") THEN {"halted"} ELSE {})
  /\ UNCHANGED <<worker, dep, queue, pod, cloud, req, tear>>

-----------------------------------------------------------------------------
(* The build pod *)

Ignored(p) == TRUE   \* mutant: a bucket that exists is used
Pass(p) == pod[p].confirmed \/ pod[p].account \notin cloud.bucket

(* The repository is cloned and installed, and the bucket looked up.       *)
Preflight(p) ==
  /\ pod[p].ph = "new"
  /\ \/ /\ Pass(p)
        /\ pod' = [pod EXCEPT ![p].ph = "checked"]
        /\ cloud' = [cloud EXCEPT !.bucket = @ \cup {pod[p].account}]
        /\ UNCHANGED <<left, odd>>
     \/ ~ Pass(p) /\ pod' = [pod EXCEPT ![p].ph = "paused"] /\ UNCHANGED <<cloud, left, odd>>
     \/ pod' = [pod EXCEPT ![p].ph = "failed"] /\ UNCHANGED <<cloud, left, odd>>
     \/ /\ Spend("fault") /\ Note("unchecked")
        /\ pod' = [pod EXCEPT ![p].ph = "checked"] /\ UNCHANGED cloud
  /\ UNCHANGED <<worker, dep, queue, exec, req, recov, tear>>

Wrangler(p) ==
  /\ pod[p].ph = "checked"
  /\ \/ /\ cloud' = [cloud EXCEPT !.script = @ \cup {pod[p].account}, !.by = @ \cup {p[1]}]
        /\ \/ pod' = [pod EXCEPT ![p].ph = "done"] /\ UNCHANGED <<left, odd>>
           \/ pod' = [pod EXCEPT ![p].ph = "failed"] /\ Spend("fault") /\ Note("orphan")
     \/ pod' = [pod EXCEPT ![p].ph = "failed"] /\ UNCHANGED <<cloud, left, odd>>
  /\ UNCHANGED <<worker, dep, queue, exec, req, recov, tear>>

(* The pod idles for five minutes, unless the API server cannot be asked.  *)
IdleOver(p) ==
  /\ pod[p].ph \in {"paused", "done"} /\ Spend("fault")
  /\ pod' = [pod EXCEPT ![p].ph = "exited"]
  /\ UNCHANGED <<worker, dep, queue, exec, cloud, req, recov, tear, odd>>

-----------------------------------------------------------------------------
(* Time: a job lasts 30 minutes at most, its message is hidden for 40 and  *)
(* its row is stale after 40. *)

Redeliver(d) ==
  /\ \A s \in Slots : ~ Runs(s, d)
  /\ queue[d].ct < ReadCap /\ Queue!Reappear(d)
  /\ UNCHANGED <<worker, dep, exec, pod, cloud, req, recov, tear, left, odd>>

RecoverList(d) ==
  /\ recov[d] = "idle" /\ dep[d] = "deploying" /\ \A s \in Slots : ~ Runs(s, d)
  /\ recov' = [recov EXCEPT ![d] = "mark"]
  /\ UNCHANGED <<worker, dep, queue, exec, pod, cloud, req, tear, left, odd>>

(* MarkTimedOut asks for the status again, but not for the time.           *)
RecoverMark(d) ==
  /\ recov[d] = "mark"
  /\ IF dep[d] = "deploying"
     THEN /\ dep' = [dep EXCEPT ![d] = "failed"] /\ recov' = [recov EXCEPT ![d] = "worker"]
          /\ IF \E s \in Slots : Runs(s, d) THEN Note("overtaken") ELSE UNCHANGED odd
     ELSE recov' = [recov EXCEPT ![d] = "idle"] /\ UNCHANGED <<dep, odd>>
  /\ UNCHANGED <<worker, queue, exec, pod, cloud, req, tear, left>>

RecoverWorker(d) ==
  /\ recov[d] = "worker"
  /\ SetStatus("error") /\ recov' = [recov EXCEPT ![d] = "idle"]
  /\ UNCHANGED <<dep, queue, exec, pod, cloud, req, tear, left, odd>>

-----------------------------------------------------------------------------
TriggerNext(r) ==
  \/ BeginDeploy(r) \/ Mark(r) \/ Create(r) \/ CreateFails(r) \/ EnqueueJob(r)
  \/ EnqueueFails(r) \/ UndoCreate(r) \/ Restore(r)
ConfirmNext(r) ==
  \/ BeginConfirm(r) \/ ReadLatest(r) \/ Claim(r) \/ Persist(r) \/ PersistFails(r)
  \/ ReadAgain(r) \/ Finish(r) \/ Revert(r)
OtherNext(r) ==
  BeginEdit(r) \/ BeginMove(r) \/ Write(r) \/ BeginDelete(r) \/ Delete(r) \/ Abort(r)
JobNext(s) ==
  \/ Load(s) \/ LoadWorker(s) \/ LoadFails(s) \/ Start(s) \/ MarkWorker(s) \/ Resolve(s)
  \/ Log(s) \/ Deployed(s) \/ Parked(s) \/ Misread(s) \/ WaitFails(s) \/ SaveRuntime(s)
  \/ Finished(s) \/ FinishedWorker(s) \/ Ack(s) \/ Nack(s)

Next ==
  \/ \E r \in Requests : TriggerNext(r) \/ ConfirmNext(r) \/ OtherNext(r)
  \/ \E s \in Slots : JobNext(s) \/ \E d \in Deploys : Fetch(s, d)
  \/ \E p \in DOMAIN pod : Preflight(p) \/ Wrangler(p) \/ IdleOver(p)
  \/ \E d \in Deploys : Redeliver(d) \/ RecoverList(d) \/ RecoverMark(d) \/ RecoverWorker(d)
  \/ \E a \in Accounts : Teardown(a)
  \/ Shutdown \/ Crash

Spec == Init /\ [][Next]_vars

-----------------------------------------------------------------------------
(* Properties *)

Barring(what) == odd \cap what = {}
InFlight == {d \in Deploys : dep[d] \in {"queued", "deploying"}}

(* One deployment of the worker is under way at a time, in the database    *)
(* and in the cluster, unless a whole row was written over the lock, the   *)
(* stale recovery took a job for dead or a crash left a pod behind.        *)
OneAtATime ==
  /\ Barring({"rewritten", "overtaken", "halted"}) => Cardinality(InFlight) <= 1
  /\ Barring({"rewritten", "overtaken", "halted", "orphan"}) =>
       Cardinality({p \in DOMAIN pod : Running(p)}) <= 1

(* As the comment of ConfirmR2 has it, no duplicate deploys.               *)
NoDuplicateDeploys == Cardinality(InFlight) <= 1

(* The lock is released: someone is left who will write another status.    *)
Releaser(d) ==
  \/ dep[d] = "queued" /\ (Queue!Held(d) \/ \E r \in Requests : req[r].pc = "enqueue" /\ req[r].d = d)
  \/ dep[d] = "deploying" \/ recov[d] = "worker"
  \/ \E s \in Slots : Runs(s, d) /\ exec[s].pc = "endWorker"
LockIsReleased ==
  There /\ worker.status = "deploying" /\ Barring({"rewritten", "halted"}) =>
    \/ \E d \in Deploys : Releaser(d)
    \/ \E r \in Requests : req[r].pc \in {"create", "undo", "restore"}

(* A confirmation is answered: either the parked deployment has made room  *)
(* for a later one, or it waits again; and nobody else confirms it.        *)
Confirming(d) ==
  {r \in Requests : req[r].old = d /\ req[r].pc \notin {"free", "latest", "claim"}}
ConfirmationIsAnswered ==
  \A d \in Deploys :
    /\ Cardinality(Confirming(d)) <= 1
    /\ dep[d] = "cancelled" /\ Confirming(d) = {} /\ Barring({"halted"}) =>
         \E e \in Deploys : e > d /\ dep[e] # "none"

(* A deployment succeeds only if its pod has deployed the script, and the  *)
(* bucket of somebody else is used only after a user has agreed to it.     *)
SuccessIsEarned ==
  /\ Barring({"misread"}) => \A d \in Deploys : dep[d] = "success" => d \in cloud.by
  /\ Barring({"unchecked", "moved", "rewritten"}) =>
       cloud.script \cap Preowned \subseteq cloud.approved

(* When the worker is deleted, nothing of it stays at Cloudflare.          *)
NoScriptIsLeft ==
  ~ There /\ tear = {}
    /\ Barring({"orphan", "moved", "rewritten", "overtaken", "halted", "misread"}) =>
    cloud.script = {} /\ \A p \in DOMAIN pod : ~ Running(p)
=============================================================================
