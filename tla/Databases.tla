------------------------------- MODULE Databases -------------------------------
(***************************************************************************)
(* One managed database: its row, its StatefulSet, its backups and their   *)
(* restores (internal/service/database_service.go, k3s/database.go,        *)
(* store/pg/managed_database_store.go, database_backup_store.go).          *)
(*                                                                         *)
(* A backup and a restore run as Kubernetes jobs that nobody waits for:    *)
(* whoever next lists the backups writes down what has become of them,     *)
(* and Kubernetes forgets a job an hour after its end.  A Redis database   *)
(* is restored by stopping it, replacing the file on its volume, and       *)
(* starting it again from a goroutine of the server.                       *)
(***************************************************************************)
EXTENDS Naturals, FiniteSets

CONSTANTS
  Backups,          \* the backups, numbered in the order of their creation
  Slots,            \* the goroutines of the worker process that run jobs
  Requests,         \* slots for API requests under way and the scheduler
  Engines,          \* bound of the model: the engines of the database
  Start,            \* bound of the model: whether it exists at the start
  Saved,            \* bound of the model: the backups it has then
  MaxReadAttempts,  \* maxReadAttempts of cmd/worker/main.go
  ReadCap,          \* bound of the model: deliveries of one message
  Ops,              \* the operations requested
  MaxOps,           \* bound of the model: requests
  Events,           \* what may go wrong
  MaxEvents         \* bound of the model: how often it does

ASSUME DatabasesAssumption ==
  /\ Backups \subseteq Nat \ {0} /\ Saved \subseteq Backups
  /\ Engines \subseteq {"sql", "redis"} /\ Start \subseteq {"none", "active"}
  /\ Ops \subseteq {"create", "delete", "status", "list", "expose", "hide", "config", "backup",
                    "tick", "reconcile", "restore"}
  /\ Events \subseteq {"abort", "crash", "stop", "fault", "slow", "expire"}
  /\ MaxReadAttempts \in Nat /\ ReadCap \in Nat /\ MaxOps \in Nat /\ MaxEvents \in Nat

VARIABLES
  engine,   \* its kind: whether a restore has to stop it
  db,       \* row of the database
  cl,       \* the cluster: StatefulSet, external service, contents
  bak,      \* rows of its backups
  job,      \* Kubernetes jobs: the dump of a backup, and its restore
  store,    \* the dumps made: the objects by key, and those on the backup volume
  queue,    \* messages of the job queue
  exec,     \* slots of the worker process
  req,      \* the requests
  late,     \* the writes of List that are under way
  up,       \* the goroutines that wait for a restore, to start the database again
  left,     \* requests and events still to come
  odd       \* what has happened that the properties make exceptions for

vars == <<engine, db, cl, bak, job, store, queue, exec, req, late, up, left, odd>>
world == <<engine, store, queue, exec>>

Queue == INSTANCE JobQueue WITH Jobs <- Backups

-----------------------------------------------------------------------------
(* State *)

(* ext: ExternalEnabled; s3: that BackupS3ID names a storage; auto: that   *)
(* backups are enabled.                                                    *)
Row == [life : {"none", "active", "deleted"},
        status : {"idle", "pending", "deploying", "running", "error"},
        ext : BOOLEAN, s3 : BOOLEAN, auto : BOOLEAN]
(* disk, mem: the backup the volume and the process hold the contents of.  *)
Cluster == [sts : BOOLEAN, want : 0..1, ready : 0..1, svc : BOOLEAN,
            disk : {0} \cup Backups, mem : {0} \cup Backups]
(* key: FilePath, by the delivery of the job that has chosen it.           *)
Backup == [st : {"none", "pending", "running", "completed", "failed"}, key : 0..ReadCap,
           rst : {"", "running", "completed", "failed"}]
Kube == {"absent", "active", "completed", "failed"}
Job == [dump : Kube, key : 0..ReadCap, s3 : BOOLEAN, load : Kube]

Slot == [pc : {"idle", "load", "ready", "mark", "launch", "fail", "ack", "nack"},
         b : Backups, n : 0..ReadCap, copy : Backup, s3 : BOOLEAN]
Request == [op : {"none"} \cup Ops,
            pc : {"free", "insert", "deploy", "drop", "save", "remove", "erase", "look", "service",
                  "create", "enqueue", "undo", "dump", "load", "scale", "drain", "start", "mark"},
            copy : Row, b : Backups \cup {0}, bak : Backup]

NoRow == [life |-> "none", status |-> "idle", ext |-> FALSE, s3 |-> FALSE, auto |-> FALSE]
NoBackup == [st |-> "none", key |-> 0, rst |-> ""]
FreeSlot == [pc |-> "idle", b |-> CHOOSE b \in Backups : TRUE, n |-> 0, copy |-> NoBackup,
             s3 |-> FALSE]
FreeRequest == [op |-> "none", pc |-> "free", copy |-> NoRow, b |-> 0, bak |-> NoBackup]

TypeOK ==
  /\ engine \in Engines
  /\ db \in Row /\ cl \in Cluster
  /\ bak \in [Backups -> Backup] /\ job \in [Backups -> Job]
  /\ store \in [object : SUBSET (Backups \X (0..ReadCap)), volume : SUBSET Backups]
  /\ queue \in [Backups -> Queue!Message]
  /\ exec \in [Slots -> Slot] /\ req \in [Requests -> Request]
  /\ late \subseteq Row /\ up \subseteq Backups
  /\ left \in [ops : 0..MaxOps, events : 0..MaxEvents]
  /\ odd \subseteq {"rewritten", "overlap", "overrun", "expired", "halted", "leftover",
               "crossed"}

There == db.life = "active"

Init ==
  /\ engine \in Engines
  /\ \/ /\ "none" \in Start /\ db = NoRow
        /\ cl = [sts |-> FALSE, want |-> 0, ready |-> 0, svc |-> FALSE, disk |-> 0, mem |-> 0]
     \/ /\ "active" \in Start
        /\ db = [NoRow EXCEPT !.life = "active", !.status = "running", !.s3 = TRUE, !.auto = TRUE]
        /\ cl = [sts |-> TRUE, want |-> 1, ready |-> 1, svc |-> FALSE, disk |-> 0, mem |-> 0]
  /\ LET saved == IF There THEN Saved ELSE {} IN
     /\ bak = [b \in Backups |-> IF b \in saved THEN [st |-> "completed", key |-> 1, rst |-> ""]
                                 ELSE NoBackup]
     /\ store = [object |-> saved \X {1}, volume |-> {}]
     /\ queue = [b \in Backups |-> [st |-> IF b \in saved THEN "deleted" ELSE "unsent", ct |-> 0,
                                    older |-> {}]]
  /\ job = [b \in Backups |-> [dump |-> "absent", key |-> 0, s3 |-> FALSE, load |-> "absent"]]
  /\ exec = [s \in Slots |-> FreeSlot]
  /\ req = [r \in Requests |-> FreeRequest]
  /\ late = {} /\ up = {}
  /\ left = [ops |-> MaxOps, events |-> MaxEvents]
  /\ odd = {}

Spend(e) == e \in Events /\ left.events > 0 /\ left' = [left EXCEPT !.events = @ - 1]
Note(what) == odd' = odd \cup {what}
At(r, pc) == req[r].pc = pc
Goto(r, pc) == req' = [req EXCEPT ![r].pc = pc]
End(r) == req' = [req EXCEPT ![r] = FreeRequest]

Begin(r, op, pc, copy, b) ==
  /\ At(r, "free") /\ op \in Ops /\ left.ops > 0
  /\ left' = [left EXCEPT !.ops = @ - 1]
  /\ req' = [req EXCEPT ![r] = [op |-> op, pc |-> pc, copy |-> copy, b |-> b,
                                bak |-> IF b = 0 THEN NoBackup ELSE bak[b]]]
  /\ UNCHANGED <<world, db, cl, bak, job, late, up, odd>>

(* The store's Update writes every column, also those that the operation   *)
(* does not mean to change; a deleted row matches nothing.                 *)
Update(copy, meant) ==
  /\ db' = IF There THEN copy ELSE db
  /\ IF There /\ \E f \in DOMAIN db \ meant : copy[f] # db[f]
     THEN Note("rewritten") ELSE UNCHANGED odd

(* GetDatabaseStatus: a database that is scaled to nothing counts as       *)
(* running as soon as its pod is gone.                                     *)
Phase == IF ~ cl.sts THEN "not deployed" ELSE IF cl.ready = cl.want THEN "running" ELSE "pending"

-----------------------------------------------------------------------------
(* Create and Delete *)

BeginCreate(r) == db.life = "none" /\ Begin(r, "create", "insert", NoRow, 0)

Insert(r) ==
  /\ At(r, "insert")
  /\ IF db.life = "none" THEN db' = [NoRow EXCEPT !.life = "active"] /\ Goto(r, "deploy")
     ELSE End(r) /\ UNCHANGED db
  /\ UNCHANGED <<world, cl, bak, job, late, up, left, odd>>

(* Another request changes the cluster too, or the database is deleted.    *)
Changing == {r \in Requests : req[r].op \in {"create", "expose", "hide", "delete"}}
Crossed(r) == IF Changing = {r} /\ There THEN UNCHANGED odd ELSE Note("crossed")

(* DeployDatabase; it may fail before or after the StatefulSet is made.    *)
Deploy(r) ==
  /\ At(r, "deploy")
  /\ \/ /\ cl' = [cl EXCEPT !.sts = TRUE, !.want = 1] /\ UNCHANGED left /\ Crossed(r)
        /\ req' = [req EXCEPT ![r].pc = "save",
                              ![r].copy = [NoRow EXCEPT !.life = "active", !.status = "pending"]]
     \/ /\ Spend("fault") /\ Note("leftover") /\ Goto(r, "drop")
        /\ \/ UNCHANGED cl
           \/ cl' = [cl EXCEPT !.sts = TRUE, !.want = 1]
  /\ UNCHANGED <<world, db, bak, job, late, up>>

(* The row of a database whose deployment failed is deleted.               *)
Drop(r) ==
  /\ At(r, "drop")
  /\ db' = [db EXCEPT !.life = "deleted"] /\ End(r)
  /\ UNCHANGED <<world, cl, bak, job, late, up, left, odd>>

BeginDelete(r) == There /\ Begin(r, "delete", "remove", db, 0)

(* DeleteDatabase, and DisableExternalAccess when the copy says so: the    *)
(* StatefulSet has to go, the failure to delete the services is ignored.   *)
WithoutSet == [cl EXCEPT !.sts = FALSE]   \* mutant: the external service is kept
Without == [cl EXCEPT !.sts = FALSE, !.svc = FALSE]
Remove(r) ==
  /\ At(r, "remove")
  /\ \/ /\ cl' = Without
        /\ Goto(r, "erase") /\ UNCHANGED <<left, odd>>
     \/ /\ Spend("fault")
        /\ \/ cl' = [cl EXCEPT !.sts = FALSE] /\ Goto(r, "erase") /\ Note("leftover")
           \/ End(r) /\ UNCHANGED <<cl, odd>>
  /\ UNCHANGED <<world, db, bak, job, late, up>>

Erase(r) ==
  /\ At(r, "erase")
  /\ \/ db' = [db EXCEPT !.life = "deleted"] /\ UNCHANGED <<left, odd>>
     \/ UNCHANGED db /\ Spend("fault") /\ Note("halted")
  /\ End(r) /\ UNCHANGED <<world, cl, bak, job, late, up>>

-----------------------------------------------------------------------------
(* GetStatus, List, UpdateExternalAccess and UpdateBackupConfig *)

BeginStatus(r) == There /\ Begin(r, "status", "look", db, 0)
BeginList(r) == There /\ db.status # "idle" /\ Begin(r, "list", "look", db, 0)

(* What each makes of the phase: they disagree about a pending one.        *)
RawPhase(op, status) == Phase   \* mutant: the phase as it is
Live(op, status) ==
  CASE Phase = "running" -> "running"
    [] Phase = "not deployed" -> IF status = "idle" THEN "idle" ELSE "error"
    [] OTHER -> IF op = "list" THEN "deploying" ELSE "pending"

Look(r) ==
  LET seen == [req[r].copy EXCEPT !.status = Live(req[r].op, @)] IN
  /\ At(r, "look")
  /\ IF seen = req[r].copy THEN End(r) /\ UNCHANGED late
     ELSE IF req[r].op = "list" THEN End(r) /\ late' = late \cup {seen}
     ELSE req' = [req EXCEPT ![r].pc = "save", ![r].copy = seen] /\ UNCHANGED late
  /\ UNCHANGED <<world, db, cl, bak, job, up, left, odd>>

SaveLate(row) ==
  /\ row \in late /\ late' = late \ {row}
  /\ Update(row, {"status"})
  /\ UNCHANGED <<world, cl, bak, job, req, up, left>>

BeginService(r) ==
  /\ There
  /\ \/ Begin(r, "expose", "service", [db EXCEPT !.ext = TRUE], 0)
     \/ Begin(r, "hide", "service", [db EXCEPT !.ext = FALSE], 0)
BeginConfig(r) ==
  There /\ \E s3, auto \in BOOLEAN :
             Begin(r, "config", "save", [db EXCEPT !.s3 = s3, !.auto = auto], 0)

(* EnableExternalAccess and DisableExternalAccess.                         *)
Service(r) ==
  /\ At(r, "service")
  /\ cl' = [cl EXCEPT !.svc = req[r].copy.ext]
  /\ Goto(r, "save")
  /\ Crossed(r)
  /\ UNCHANGED <<world, db, bak, job, late, up, left>>

Meant(op) == CASE op \in {"expose", "hide"} -> {"ext"} [] op = "config" -> {"s3", "auto"}
               [] OTHER -> {"status"}

Save(r) ==
  /\ At(r, "save")
  /\ \/ Update(req[r].copy, Meant(req[r].op)) /\ UNCHANGED left
     \/ UNCHANGED db /\ Spend("fault") /\ Note("halted")
  /\ End(r) /\ UNCHANGED <<world, cl, bak, job, late, up>>

-----------------------------------------------------------------------------
(* TriggerBackup, for a user and for the scheduler *)

Fresh == CHOOSE b \in Backups : bak[b].st = "none" /\ \A c \in Backups : c < b => bak[c].st # "none"
Spare == \E b \in Backups : bak[b].st = "none"

BeginBackup(r) ==
  /\ There
  /\ \/ Begin(r, "backup", "create", db, 0)
     \/ db.auto /\ Begin(r, "tick", "create", db, 0)

CreateBackup(r) ==
  /\ At(r, "create") /\ Spare
  /\ bak' = [bak EXCEPT ![Fresh].st = "pending"]
  /\ req' = [req EXCEPT ![r].pc = "enqueue", ![r].b = Fresh]
  /\ UNCHANGED <<world, db, cl, job, late, up, left, odd>>

EnqueueBackup(r) ==
  /\ At(r, "enqueue")
  /\ \/ Queue!Enqueue(req[r].b) /\ End(r) /\ UNCHANGED left
     \/ /\ Spend("fault") /\ Goto(r, "undo")
        /\ UNCHANGED queue \/ Queue!Enqueue(req[r].b)   \* only the answer is lost
  /\ UNCHANGED <<engine, store, exec, db, cl, bak, job, late, up, odd>>

MarkFailed(b) == bak' = [bak EXCEPT ![b].st = "failed"]
UndoBackup(r) ==
  /\ At(r, "undo")
  /\ MarkFailed(req[r].b) /\ End(r)
  /\ UNCHANGED <<world, db, cl, job, late, up, left, odd>>

-----------------------------------------------------------------------------
(* ListBackups: what has become of the jobs of a backup it reads *)

BeginReconcile(r) ==
  \E b \in Backups :
    /\ bak[b].st # "none" /\ "running" \in {bak[b].st, bak[b].rst}
    /\ Begin(r, "reconcile", "dump", db, b)

Ended == {"completed", "failed"}
Reconcile(r) ==
  LET b == req[r].b
      dumped == At(r, "dump")
      was == IF dumped THEN req[r].bak.st ELSE req[r].bak.rst
      is == IF dumped THEN job[b].dump ELSE job[b].load
      new == IF was # "running" \/ is \notin Ended THEN req[r].bak
             ELSE IF dumped THEN [req[r].bak EXCEPT !.st = is] ELSE [req[r].bak EXCEPT !.rst = is] IN
  /\ dumped \/ At(r, "load")
  /\ \/ bak' = [bak EXCEPT ![b] = IF new = req[r].bak THEN @ ELSE new] /\ UNCHANGED left
     \/ UNCHANGED bak /\ Spend("fault")
  /\ IF dumped THEN req' = [req EXCEPT ![r].pc = "load", ![r].bak = new] ELSE End(r)
  /\ UNCHANGED <<world, db, cl, job, late, up, odd>>

-----------------------------------------------------------------------------
(* RestoreBackup *)

BeginRestore(r) ==
  /\ There /\ Phase = "running" /\ cl.ready = 1 /\ db.s3
  /\ \E b \in Backups :
       /\ bak[b].st = "completed" /\ bak[b].rst # "running"
       /\ Begin(r, "restore", IF engine = "redis" THEN "scale" ELSE "start", db, b)

Restores == {r \in Requests : req[r].op = "restore"}
Loading == {b \in Backups : job[b].load = "active"}
(* Another restore of the database is under way.                           *)
Other(r) == Restores # {r} \/ Loading # {} \/ up # {}
NoteOverlap(r) == IF Other(r) THEN Note("overlap") ELSE UNCHANGED odd

(* The failure to scale down is ignored.                                   *)
Scale(r) ==
  /\ At(r, "scale") /\ Goto(r, "drain")
  /\ \/ cl' = [cl EXCEPT !.want = 0] /\ UNCHANGED left /\ NoteOverlap(r)
     \/ UNCHANGED cl /\ Spend("fault") /\ Note("overrun")
  /\ UNCHANGED <<world, db, bak, job, late, up>>

(* The pod is gone, or has not gone within 30 seconds.                     *)
DrainAlways == TRUE   \* mutant: nobody waits for the pod
Drained == cl.ready = 0
Drain(r) ==
  /\ At(r, "drain") /\ Goto(r, "start")
  /\ \/ Drained /\ UNCHANGED <<left, odd>>
     \/ Spend("slow") /\ Note("overrun")
  /\ UNCHANGED <<world, db, cl, bak, job, late, up>>

StartAgain == cl' = [cl EXCEPT !.want = IF cl.sts THEN 1 ELSE @]

(* A job of that name is there for an hour after a restore.                *)
StartRestore(r) ==
  LET b == req[r].b IN
  /\ At(r, "start")
  /\ \/ /\ job[b].load = "absent"
        /\ job' = [job EXCEPT ![b].load = "active"]
        /\ up' = IF engine = "redis" THEN up \cup {b} ELSE up
        /\ Goto(r, "mark") /\ UNCHANGED <<cl, left>>
     \/ /\ IF job[b].load = "absent" THEN Spend("fault") ELSE UNCHANGED left
        /\ IF engine = "redis" THEN StartAgain ELSE UNCHANGED cl
        /\ End(r) /\ UNCHANGED <<job, up>>
  /\ NoteOverlap(r)
  /\ UNCHANGED <<world, db, bak, late>>

(* The whole row is written, as it was read before the restore.            *)
MarkRestore(r) ==
  /\ At(r, "mark")
  /\ \/ bak' = [bak EXCEPT ![req[r].b] = [req[r].bak EXCEPT !.rst = "running"]] /\ UNCHANGED left
     \/ UNCHANGED bak /\ Spend("fault")
  /\ End(r) /\ UNCHANGED <<world, db, cl, job, late, up, odd>>

(* The goroutine gives up after ten minutes.                               *)
Over(b) == job[b].load \in Ended
ScaleUp(b) ==
  /\ b \in up /\ up' = up \ {b}
  /\ \/ Over(b) /\ StartAgain /\ UNCHANGED <<left, odd>>
     \/ ~ Over(b) /\ StartAgain /\ Spend("slow") /\ Note("overrun")
     \/ UNCHANGED cl /\ Spend("fault") /\ Note("halted")
  /\ UNCHANGED <<world, db, bak, job, req, late>>

-----------------------------------------------------------------------------
(* The client disconnects, or the server stops.                            *)

Abort(r) ==
  /\ ~ At(r, "free") /\ Spend("abort") /\ Note("halted") /\ End(r)
  /\ UNCHANGED <<world, db, cl, bak, job, late, up>>

Stop ==
  /\ Spend("stop") /\ Note("halted")
  /\ late # {} \/ up # {} \/ \E r \in Requests : ~ At(r, "free")
  /\ req' = [r \in Requests |-> FreeRequest] /\ late' = {} /\ up' = {}
  /\ UNCHANGED <<world, db, cl, bak, job>>

-----------------------------------------------------------------------------
(* The worker process: RunDatabaseBackupJob *)

Others == <<engine, db, cl, req, late, up>>
To(s, pc) == exec' = [exec EXCEPT ![s].pc = pc]

Fetch(s, b) ==
  /\ exec[s].pc = "idle" /\ Queue!Read(b)
  /\ exec' = [exec EXCEPT ![s] = [FreeSlot EXCEPT !.pc = "load", !.b = b, !.n = queue[b].ct + 1]]
  /\ UNCHANGED <<Others, bak, job, store, left, odd>>

(* A redelivered backup that runs is completed or failed if its job is.    *)
Load(s) ==
  LET b == exec[s].b IN
  /\ exec[s].pc = "load"
  /\ \/ bak[b].st \in Ended /\ To(s, "ack") /\ UNCHANGED <<bak, left>>
     \/ /\ bak[b].st \notin Ended /\ There /\ bak[b].st = "running" /\ job[b].dump = "completed"
        /\ \/ bak' = [bak EXCEPT ![b].st = "completed"] /\ To(s, "ack") /\ UNCHANGED left
           \/ UNCHANGED bak /\ To(s, "nack") /\ Spend("fault")
     \/ /\ bak[b].st \notin Ended
        /\ ~ There \/ (bak[b].st = "running" /\ job[b].dump = "failed")
        /\ exec' = [exec EXCEPT ![s].pc = "fail", ![s].copy = bak[b]] /\ UNCHANGED <<bak, left>>
     \/ /\ bak[b].st \notin Ended /\ There
        /\ ~ (bak[b].st = "running" /\ job[b].dump \in Ended)
        /\ exec' = [exec EXCEPT ![s].pc = "ready", ![s].copy = bak[b], ![s].s3 = db.s3]
        /\ UNCHANGED <<bak, left>>
     \/ Spend("fault") /\ To(s, "nack") /\ UNCHANGED bak
  /\ UNCHANGED <<Others, job, store, queue, odd>>

(* Up to 30 seconds for the database to run; the storage is looked up.     *)
Ready(s) ==
  /\ exec[s].pc = "ready"
  /\ \/ Phase = "running" /\ To(s, "mark") /\ UNCHANGED left
     \/ Phase # "running" /\ To(s, "fail") /\ UNCHANGED left
     \/ Spend("fault") /\ To(s, "fail")
     \/ Phase = "pending" /\ Spend("stop") /\ To(s, "nack")
  /\ UNCHANGED <<Others, bak, job, store, queue, odd>>

NewKey(s) == exec[s].n   \* mutant: every delivery chooses a name
Key(s) == IF exec[s].copy.key = 0 THEN exec[s].n ELSE exec[s].copy.key
Mark(s) ==
  LET row == [exec[s].copy EXCEPT !.st = "running", !.key = Key(s)] IN
  /\ exec[s].pc = "mark"
  /\ \/ /\ bak' = [bak EXCEPT ![exec[s].b] = row]
        /\ exec' = [exec EXCEPT ![s].pc = "launch", ![s].copy = row] /\ UNCHANGED left
     \/ UNCHANGED bak /\ Spend("fault") /\ To(s, "nack")
  /\ UNCHANGED <<Others, job, store, queue, odd>>

(* RunDatabaseBackup: it needs a running pod; a job that exists will do.   *)
Launch(s) ==
  LET b == exec[s].b IN
  /\ exec[s].pc = "launch"
  /\ \/ /\ cl.ready = 1 /\ To(s, "ack") /\ UNCHANGED left
        /\ job' = IF job[b].dump # "absent" THEN job
                  ELSE [job EXCEPT ![b].dump = "active", ![b].key = exec[s].copy.key,
                                   ![b].s3 = exec[s].s3]
     \/ cl.ready = 0 /\ To(s, "fail") /\ UNCHANGED <<job, left>>
     \/ Spend("fault") /\ To(s, "fail") /\ UNCHANGED job
  /\ UNCHANGED <<Others, bak, store, queue, odd>>

(* failDatabaseBackup: the message is deleted even if the write fails.     *)
Fail(s) ==
  /\ exec[s].pc = "fail" /\ To(s, "ack")
  /\ \/ /\ bak' = [bak EXCEPT ![exec[s].b] = [exec[s].copy EXCEPT !.st = "failed"]]
        /\ UNCHANGED <<left, odd>>
     \/ UNCHANGED bak /\ Spend("fault") /\ Note("halted")
  /\ UNCHANGED <<Others, job, store, queue>>

Ack(s) ==
  /\ exec[s].pc = "ack"
  /\ \/ Queue!Delete(exec[s].b) /\ UNCHANGED left
     \/ Spend("fault") /\ UNCHANGED queue
  /\ exec' = [exec EXCEPT ![s] = FreeSlot]
  /\ UNCHANGED <<Others, bak, job, store, odd>>

Nack(s) ==
  /\ exec[s].pc = "nack"
  /\ IF exec[s].n >= MaxReadAttempts THEN Queue!Archive(exec[s].b) /\ Note("halted")
     ELSE UNCHANGED <<queue, odd>>
  /\ exec' = [exec EXCEPT ![s] = FreeSlot]
  /\ UNCHANGED <<Others, bak, job, store, left>>

(* The worker dies; the messages of its jobs reappear.                     *)
Crash ==
  /\ Spend("crash")
  /\ \E s \in Slots : exec[s].pc # "idle"
  /\ exec' = [s \in Slots |-> FreeSlot]
  /\ UNCHANGED <<Others, bak, job, store, queue, odd>>

(* A job takes a minute, its message is hidden for 40.                     *)
Redeliver(b) ==
  /\ \A s \in Slots : exec[s].pc = "idle" \/ exec[s].b # b
  /\ queue[b].ct < ReadCap /\ Queue!Reappear(b)
  /\ UNCHANGED <<Others, bak, job, store, exec, left, odd>>

-----------------------------------------------------------------------------
(* Kubernetes *)

Still == <<engine, db, bak, queue, exec, req, late, up>>

(* The StatefulSet starts and stops its pod, which loads and saves the     *)
(* file on the volume.                                                     *)
PodStarts ==
  /\ cl.sts /\ cl.want = 1 /\ cl.ready = 0
  /\ cl' = [cl EXCEPT !.ready = 1, !.mem = cl.disk]
  /\ UNCHANGED <<Still, job, store, left, odd>>
PodStops ==
  /\ cl.ready = 1 /\ (~ cl.sts \/ cl.want = 0)
  /\ cl' = [cl EXCEPT !.ready = 0, !.disk = cl.mem]
  /\ UNCHANGED <<Still, job, store, left, odd>>

Dump(b) ==
  /\ job[b].dump = "active"
  /\ \/ /\ cl.ready = 1 /\ job' = [job EXCEPT ![b].dump = "completed"]
        /\ store' = IF job[b].s3 THEN [store EXCEPT !.object = @ \cup {<<b, job[b].key>>}]
                    ELSE [store EXCEPT !.volume = @ \cup {b}]
     \/ job' = [job EXCEPT ![b].dump = "failed"] /\ UNCHANGED store
  /\ UNCHANGED <<Still, cl, left, odd>>

(* The restore job downloads the object and replaces the file, or has the  *)
(* running database execute it.                                            *)
Restore(b) ==
  /\ job[b].load = "active"
  /\ \/ /\ <<b, bak[b].key>> \in store.object /\ (engine = "redis" \/ cl.ready = 1)
        /\ job' = [job EXCEPT ![b].load = "completed"]
        /\ cl' = [cl EXCEPT !.disk = b, !.mem = IF engine = "redis" THEN @ ELSE b]
     \/ job' = [job EXCEPT ![b].load = "failed"] /\ UNCHANGED cl
  /\ UNCHANGED <<Still, store, left, odd>>

(* Kubernetes deletes a job an hour after its end.                         *)
Expire(b) ==
  /\ Spend("expire") /\ Note("expired")
  /\ \/ job[b].dump \in Ended /\ job' = [job EXCEPT ![b].dump = "absent"]
     \/ job[b].load \in Ended /\ job' = [job EXCEPT ![b].load = "absent"]
  /\ UNCHANGED <<Still, cl, store>>

-----------------------------------------------------------------------------
RowNext(r) ==
  \/ BeginCreate(r) \/ Insert(r) \/ Deploy(r) \/ Drop(r) \/ BeginDelete(r) \/ Remove(r) \/ Erase(r)
  \/ BeginStatus(r) \/ BeginList(r) \/ Look(r) \/ BeginService(r) \/ BeginConfig(r) \/ Service(r)
  \/ Save(r)
BackupNext(r) ==
  \/ BeginBackup(r) \/ CreateBackup(r) \/ EnqueueBackup(r) \/ UndoBackup(r) \/ BeginReconcile(r)
  \/ Reconcile(r)
RestoreNext(r) ==
  BeginRestore(r) \/ Scale(r) \/ Drain(r) \/ StartRestore(r) \/ MarkRestore(r)
JobNext(s) ==
  Load(s) \/ Ready(s) \/ Mark(s) \/ Launch(s) \/ Fail(s) \/ Ack(s) \/ Nack(s)
KubeNext == PodStarts \/ PodStops \/ \E b \in Backups : Dump(b) \/ Restore(b) \/ Expire(b)

Next ==
  \/ \E r \in Requests : RowNext(r) \/ BackupNext(r) \/ RestoreNext(r) \/ Abort(r)
  \/ \E s \in Slots : JobNext(s) \/ \E b \in Backups : Fetch(s, b)
  \/ \E b \in Backups : Redeliver(b) \/ ScaleUp(b)
  \/ \E row \in late : SaveLate(row)
  \/ KubeNext \/ Stop \/ Crash

Spec == Init /\ [][Next]_vars

-----------------------------------------------------------------------------
(* Properties *)

Barring(what) == odd \cap what = {}
Resting(ops) == \A r \in Requests : req[r].op \notin ops

(* Once a restore is over and its database runs again, it serves what was  *)
(* restored; and a database that was stopped for a restore is started.     *)
RestoredIsServed ==
  /\ Resting({"restore"}) /\ up = {} /\ cl.ready = 1 /\ Barring({"overlap", "overrun", "halted"}) =>
       cl.mem = cl.disk
  /\ cl.sts /\ cl.want = 0 /\ Barring({"halted"}) => up # {} \/ ~ Resting({"restore"})

(* A completed backup is where its row says it is, so that a restore finds *)
(* it: a redelivered job does not change the name of the file.             *)
FileMatchesRow ==
  \A b \in Backups : bak[b].st = "completed" =>
    b \in store.volume \/ <<b, bak[b].key>> \in store.object

(* A backup or a restore that a row shows as under way has a request, a    *)
(* message or a job that will settle it: there is no recovery for either.  *)
BackupIsPursued ==
  \A b \in Backups :
    /\ bak[b].st = "pending" /\ Barring({"halted"}) =>
         Queue!Held(b) \/ \E r \in Requests : req[r].b = b /\ req[r].pc \in {"enqueue", "undo"}
    /\ bak[b].st = "running" /\ Barring({"halted", "expired"}) =>
         Queue!Held(b) \/ job[b].dump # "absent"
    /\ bak[b].rst = "running" /\ Barring({"expired"}) => job[b].load # "absent"

(* The cluster has what the row says, once nobody is working on either.    *)
ClusterFollowsRow ==
  (\A r \in Requests : At(r, "free")) /\ late = {} /\ Barring({"rewritten", "crossed", "halted", "leftover"}) =>
    cl.sts = There /\ (cl.svc <=> There /\ db.ext)
=============================================================================
