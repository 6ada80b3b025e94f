-------------------------------- MODULE Backups --------------------------------
(***************************************************************************)
(* Backups of Orkai's own database, and the election of the worker that    *)
(* schedules them (internal/service/system_backup_service.go,              *)
(* internal/leader/leader.go, store/pg/system_backup_store.go).            *)
(*                                                                         *)
(* Every worker replica ticks once a minute and, if it takes itself for    *)
(* the leader, asks whether the schedule names the minute.  The leader is  *)
(* who holds an advisory lock of Postgres; it learns up to ten seconds     *)
(* late that its session is gone.  A backup runs in whichever replica      *)
(* receives its message; when it ends, older ones are pruned.              *)
(***************************************************************************)
EXTENDS Naturals, FiniteSets

CONSTANTS
  Backups,          \* the backups, numbered in the order of their creation
  Workers,          \* the worker replicas; each runs one backup at a time
  Users,            \* slots for backups that a user asks for
  Buckets, NoBucket,\* the storages that may be configured; none is
  Cron,             \* the schedule: the atoms of its field of minutes
  Keeps,            \* the retentions that may be configured
  Minutes,          \* bound of the model: how many minutes pass
  MaxReadAttempts,  \* maxReadAttempts of cmd/worker/main.go
  ReadCap,          \* bound of the model: deliveries of one message
  Events,           \* what may happen besides
  MaxEvents         \* bound of the model: how often it does

VARIABLES
  clock,    \* the minute
  lock,     \* who holds the advisory lock
  proc,     \* the replicas: whether they take themselves for the leader, and the ticks
            \* of the scheduler they have yet to look at
  cfg,      \* the settings of the backups
  save,     \* SaveConfig under way: the settings still to be written, and to what
  call,     \* TriggerBackup under way, of a replica or of a user
  bak,      \* rows of the backups
  object,   \* the objects stored: bucket and path
  queue,    \* messages of the job queue
  exec,     \* the job of each replica
  left,     \* events still to come
  odd       \* what has happened that the properties make exceptions for

vars == <<clock, lock, proc, cfg, save, call, bak, object, queue, exec, left, odd>>

Queue == INSTANCE JobQueue WITH Jobs <- Backups

-----------------------------------------------------------------------------
(* The schedule.  An atom of a field is "*", a number or a range, with a   *)
(* step, which is one if it names none.                                    *)

Matches(a, v) ==
  CASE a.kind = "star" -> v % a.step = 0
    [] a.kind = "range" -> v >= a.lo /\ v <= a.hi /\ (v - a.lo) % a.step = 0
    [] a.kind = "number" -> IF a.step = 1 THEN v = a.lo ELSE v >= a.lo /\ (v - a.lo) % a.step = 0
MatchField(field, v) == \E a \in field : Matches(a, v)

(* What cron has such a field of minutes mean: the minutes it expands to.  *)
First(a) == IF a.kind = "star" THEN 0 ELSE a.lo
Last(a) ==
  CASE a.kind = "star" -> 59
    [] a.kind = "range" -> a.hi
    [] a.kind = "number" -> IF a.step = 1 THEN a.lo ELSE 59
Names(a, m) == m \in First(a)..Last(a) /\ \E k \in 0..59 : m = First(a) + k * a.step
Expands(field, v) == \E a \in field : Names(a, v)

(* The run starts three minutes before the hour.                           *)
Wall(m) == (56 + m) % 60

-----------------------------------------------------------------------------
(* State *)

Keys == {"on", "bucket", "keep"}
Config == [on : BOOLEAN, bucket : Buckets \cup {NoBucket}, keep : Keeps]
(* at: the minute it was scheduled for, or 0; bucket: as configured when   *)
(* it was requested; path: by the delivery that has chosen it.             *)
NoPath == <<0, 0>>
Path == {NoPath} \cup (Backups \X (1..ReadCap))
Backup == [st : {"none", "queued", "running", "completed", "failed"}, at : 0..Minutes,
           bucket : Buckets \cup {NoBucket}, path : Path, gone : BOOLEAN]
NoBackup == [st |-> "none", at |-> 0, bucket |-> NoBucket, path |-> NoPath, gone |-> FALSE]

Callers == Workers \cup Users
Call == [pc : {"free", "create", "enqueue", "undo"}, at : 0..Minutes,
         bucket : Buckets \cup {NoBucket}, b : {0} \cup Backups]
NoCall == [pc |-> "free", at |-> 0, bucket |-> NoBucket, b |-> 0]

(* bucket, keep: the settings as the job has read them; row: its backup;   *)
(* todo: the rows to prune.                                                *)
Exec == [pc : {"idle", "load", "mark", "dump", "upload", "fail", "done", "list", "prune", "forget",
               "ack", "nack"},
         b : {0} \cup Backups, n : 0..ReadCap, bucket : Buckets \cup {NoBucket}, keep : Keeps,
         path : Path, todo : SUBSET Backups, cut : BOOLEAN]
NoExec == [pc |-> "idle", b |-> 0, n |-> 0, bucket |-> NoBucket, keep |-> CHOOSE k \in Keeps : TRUE, path |-> NoPath,
           todo |-> {}, cut |-> FALSE]

TypeOK ==
  /\ clock \in 1..Minutes
  /\ lock \in Workers \cup {0}
  /\ proc \in [Workers -> [leader : BOOLEAN, ticks : 0..2]]
  /\ cfg \in Config
  /\ save \in [todo : SUBSET Keys, to : Config]
  /\ call \in [Callers -> Call]
  /\ bak \in [Backups -> Backup] /\ \A b \in Backups : bak[b].st # "none" => bak[b].bucket \in Buckets
  /\ object \subseteq Buckets \X Path
  /\ queue \in [Backups -> Queue!Message]
  /\ exec \in [Workers -> Exec]
  /\ left \in 0..MaxEvents
  /\ odd \subseteq {"deposed", "moved", "late", "reconfigured", "twin", "halfpruned", "crowded", "undone", "halted"}

Init ==
  /\ clock = 1
  /\ lock = 0
  /\ proc = [w \in Workers |-> [leader |-> FALSE, ticks |-> 1]]
  /\ cfg \in {c \in Config : c.on /\ c.bucket # NoBucket}
  /\ save = [todo |-> {}, to |-> cfg]
  /\ call = [c \in Callers |-> NoCall]
  /\ bak = [b \in Backups |-> NoBackup]
  /\ object = {}
  /\ Queue!QueueInit
  /\ exec = [w \in Workers |-> NoExec]
  /\ left = MaxEvents
  /\ odd = {}

Spend(e) == e \in Events /\ left > 0 /\ left' = left - 1
Note(what) == odd' = odd \cup {what}

-----------------------------------------------------------------------------
(* leader.Elector, every ten seconds *)

Job == <<cfg, save, bak, object, queue, exec>>

Rivals(w) == {v \in Workers \ {w} : proc[v].leader}
Handled == \E c \in Callers : call[c].pc # "free" /\ call[c].at = clock
Scheduled == \E b \in Backups : bak[b].at = clock

Granted(w) == lock = 0
Elect(w) ==
  /\ ~ proc[w].leader /\ Granted(w)
  /\ lock' = w /\ proc' = [proc EXCEPT ![w].leader = TRUE]
  /\ IF Rivals(w) # {} \/ Handled \/ Scheduled THEN Note("moved") ELSE UNCHANGED odd
  /\ UNCHANGED <<clock, call, left, Job>>

StepDown(w) ==
  /\ proc[w].leader /\ lock # w
  /\ proc' = [proc EXCEPT ![w].leader = FALSE]
  /\ UNCHANGED <<clock, lock, call, left, odd, Job>>

(* Postgres ends the session, and with it the lock.                        *)
SessionLost ==
  /\ lock # 0 /\ Spend("session") /\ lock' = 0 /\ Note("deposed")
  /\ UNCHANGED <<clock, proc, call, Job>>

-----------------------------------------------------------------------------
(* StartScheduler and TriggerBackup *)

(* A ticker keeps one tick for a loop that is busy; no other is late.      *)
Minute ==
  /\ clock < Minutes /\ clock' = clock + 1
  /\ \A w \in Workers : proc[w].ticks = 0 \/ call[w].pc # "free"
  /\ proc' = [w \in Workers |-> [proc[w] EXCEPT !.ticks = IF @ < 2 THEN @ + 1 ELSE 2]]
  /\ UNCHANGED <<lock, call, left, odd, Job>>

EveryWorker(w) == TRUE   \* mutant: every replica schedules
Leads(w) == proc[w].leader
Due(w) == Leads(w) /\ cfg.on /\ MatchField(Cron, Wall(clock))

Ask(c, at) ==
  call' = [call EXCEPT ![c] = IF cfg.bucket = NoBucket THEN NoCall
                              ELSE [NoCall EXCEPT !.pc = "create", !.at = at, !.bucket = cfg.bucket]]

Tick(w) ==
  /\ proc[w].ticks > 0 /\ call[w].pc = "free"
  /\ proc' = [proc EXCEPT ![w].ticks = @ - 1]
  /\ IF proc[w].ticks = 2 THEN Note("late") ELSE UNCHANGED odd
  /\ IF Due(w) THEN Ask(w, clock) ELSE UNCHANGED call
  /\ UNCHANGED <<clock, lock, left, Job>>

UserAsks(u) ==   \* bound of the model: while there is a row to take
  /\ call[u].pc = "free" /\ Ask(u, 0)
  /\ \E b \in Backups : bak[b].st = "none" /\ b > Cardinality({c \in Callers : call[c].pc = "create"})
  /\ UNCHANGED <<clock, lock, proc, left, odd, Job>>

Fresh(b) == bak[b].st = "none" /\ \A c \in Backups : c < b => bak[c].st # "none"
Create(c) ==
  /\ call[c].pc = "create"
  /\ \E b \in Backups :
       /\ Fresh(b)
       /\ bak' = [bak EXCEPT ![b] = [NoBackup EXCEPT !.st = "queued", !.at = call[c].at,
                                                     !.bucket = call[c].bucket]]
       /\ call' = [call EXCEPT ![c].pc = "enqueue", ![c].b = b]
  /\ UNCHANGED <<clock, lock, proc, cfg, save, object, queue, exec, left, odd>>

Enqueue(c) ==
  /\ call[c].pc = "enqueue"
  /\ \/ Queue!Enqueue(call[c].b) /\ call' = [call EXCEPT ![c] = NoCall] /\ UNCHANGED left
     \/ /\ Spend("fault") /\ call' = [call EXCEPT ![c].pc = "undo"]
        /\ UNCHANGED queue \/ Queue!Enqueue(call[c].b)   \* only the answer is lost
  /\ UNCHANGED <<clock, lock, proc, cfg, save, bak, object, exec, odd>>

LeaveQueued(c) == UNCHANGED bak   \* mutant: the row is not failed
MarkFailed(c) == bak' = [bak EXCEPT ![call[c].b].st = "failed"]
Undo(c) ==
  /\ call[c].pc = "undo"
  /\ MarkFailed(c) /\ call' = [call EXCEPT ![c] = NoCall]
  /\ IF bak[call[c].b].st = "queued" THEN UNCHANGED odd ELSE Note("undone")
  /\ UNCHANGED <<clock, lock, proc, cfg, save, object, queue, exec, left>>

-----------------------------------------------------------------------------
(* SaveConfig writes one setting after the other, in any order. *)

BeginSave ==
  /\ save.todo = {} /\ Spend("save")
  /\ \E to \in Config :
       /\ to.on => to.bucket # NoBucket
       /\ save' = [todo |-> {k \in Keys : to[k] # cfg[k]}, to |-> to]
  /\ UNCHANGED <<clock, lock, proc, cfg, call, bak, object, queue, exec, odd>>

SaveKey(k) ==
  /\ k \in save.todo
  /\ \/ cfg' = [cfg EXCEPT ![k] = save.to[k]] /\ save' = [save EXCEPT !.todo = @ \ {k}]
        /\ UNCHANGED left
     \/ Spend("fault") /\ save' = [save EXCEPT !.todo = {}] /\ UNCHANGED cfg
  /\ UNCHANGED <<clock, lock, proc, call, bak, object, queue, exec, odd>>

-----------------------------------------------------------------------------
(* RunBackupJob *)

Others == <<clock, lock, proc, cfg, save, call>>
To(w, pc) == exec' = [exec EXCEPT ![w].pc = pc]
Row(w) == bak[exec[w].b]

Fetch(w, b) ==
  /\ exec[w].pc = "idle" /\ Queue!Read(b)
  /\ exec' = [exec EXCEPT ![w] = [NoExec EXCEPT !.pc = "load", !.b = b, !.n = queue[b].ct + 1]]
  /\ UNCHANGED <<Others, bak, object, left, odd>>

(* A row that is pruned, or settings without a storage, end in an error.   *)
Load(w) ==
  /\ exec[w].pc = "load"
  /\ \/ /\ ~ exec[w].cut /\ ~ Row(w).gone /\ UNCHANGED left
        /\ IF Row(w).st \in {"completed", "failed"} THEN To(w, "ack")
           ELSE IF cfg.bucket = NoBucket THEN To(w, "nack")
           ELSE exec' = [exec EXCEPT ![w].pc = "mark", ![w].bucket = cfg.bucket, ![w].keep = cfg.keep]
     \/ (exec[w].cut \/ Row(w).gone) /\ To(w, "nack") /\ UNCHANGED left
     \/ Spend("fault") /\ To(w, "nack")
  /\ UNCHANGED <<Others, bak, object, queue, odd>>

Mark(w) ==
  /\ exec[w].pc = "mark"
  /\ \/ ~ exec[w].cut /\ bak' = [bak EXCEPT ![exec[w].b].st = "running"] /\ To(w, "dump")
        /\ UNCHANGED left
     \/ exec[w].cut /\ To(w, "nack") /\ UNCHANGED <<bak, left>>
     \/ Spend("fault") /\ To(w, "nack") /\ UNCHANGED bak
  /\ UNCHANGED <<Others, object, queue, odd>>

(* pg_dump.  The path is the second the backup started in.                 *)
Twins(w) == {exec[v].path : v \in {v \in Workers \ {w} : exec[v].pc = "upload"}}
Dump(w) ==
  /\ exec[w].pc = "dump" /\ UNCHANGED left
  /\ \/ /\ ~ exec[w].cut
        /\ \E path \in {<<exec[w].b, exec[w].n>>} \cup Twins(w) :
             /\ exec' = [exec EXCEPT ![w].pc = "upload", ![w].path = path]
             /\ IF path \in Twins(w) THEN Note("twin") ELSE UNCHANGED odd
     \/ To(w, "fail") /\ UNCHANGED odd
  /\ UNCHANGED <<Others, bak, object, queue>>

Upload(w) ==
  /\ exec[w].pc = "upload" /\ UNCHANGED left
  /\ \/ /\ ~ exec[w].cut /\ To(w, "done")
        /\ object' = object \cup {<<exec[w].bucket, exec[w].path>>}
        /\ IF exec[w].bucket # Row(w).bucket THEN Note("reconfigured") ELSE UNCHANGED odd
     \/ To(w, "fail") /\ UNCHANGED <<object, odd>>
  /\ UNCHANGED <<Others, bak, queue>>

(* The end of a backup is written with the context that may be over.       *)
Write(w, st) ==
  \/ /\ ~ exec[w].cut /\ UNCHANGED <<left, odd>>
     /\ bak' = [bak EXCEPT ![exec[w].b].st = st, ![exec[w].b].path = exec[w].path]
  \/ exec[w].cut /\ UNCHANGED <<bak, left>> /\ Note("halted")
  \/ Spend("fault") /\ UNCHANGED bak /\ Note("halted")
Fail(w) ==
  /\ exec[w].pc = "fail" /\ Write(w, "failed") /\ To(w, "ack")
  /\ UNCHANGED <<Others, object, queue>>
Complete(w) ==
  /\ exec[w].pc = "done" /\ Write(w, "completed") /\ To(w, "list")
  /\ UNCHANGED <<Others, object, queue>>

(* enforceRetention: the list is by creation, whatever became of the rows. *)
Listed == {b \in Backups : bak[b].st # "none" /\ ~ bak[b].gone}
BeyondLast(b, keep) ==   \* mutant: off by one
  Cardinality({c \in Listed : c > b}) + 1 >= keep
Beyond(b, keep) == Cardinality({c \in Listed : c > b}) >= keep
(* Backups that have not completed fill the retention.                     *)
Crowded(b) ==
  LET newer == {c \in Listed : c > b} IN newer # {} /\ \A c \in newer : bak[c].st # "completed"
ListOld(w) ==
  LET old == {b \in Listed : bak[b].st = "completed" /\ Beyond(b, exec[w].keep)} IN
  /\ exec[w].pc = "list"
  /\ \/ /\ ~ exec[w].cut /\ UNCHANGED left
        /\ exec' = [exec EXCEPT ![w].pc = IF old = {} THEN "ack" ELSE "prune", ![w].todo = old]
        /\ IF \E b \in old : Crowded(b) THEN Note("crowded") ELSE UNCHANGED odd
     \/ exec[w].cut /\ To(w, "ack") /\ UNCHANGED <<left, odd>>
     \/ Spend("fault") /\ To(w, "ack") /\ UNCHANGED odd
  /\ UNCHANGED <<Others, bak, object, queue>>

Target(w, t) == t \in exec[w].todo /\ \A c \in exec[w].todo : c <= t

(* The object is deleted from the storage of today, if that succeeds.      *)
Prune(w) ==
  /\ exec[w].pc = "prune" /\ To(w, "forget")
  /\ \/ /\ ~ exec[w].cut /\ UNCHANGED left
        /\ \E t \in Backups :
             Target(w, t) /\ object' = object \ {<<exec[w].bucket, bak[t].path>>}
     \/ exec[w].cut /\ UNCHANGED <<object, left>>
     \/ Spend("fault") /\ UNCHANGED object
  /\ UNCHANGED <<Others, bak, queue, odd>>

Forget(w) ==
  /\ exec[w].pc = "forget"
  /\ \E t \in Backups :
       /\ Target(w, t)
       /\ \/ ~ exec[w].cut /\ bak' = [bak EXCEPT ![t].gone = TRUE] /\ UNCHANGED <<left, odd>>
          \/ exec[w].cut /\ UNCHANGED <<bak, left>> /\ Note("halfpruned")
          \/ Spend("fault") /\ UNCHANGED bak /\ Note("halfpruned")
       /\ exec' = [exec EXCEPT ![w].todo = @ \ {t},
                               ![w].pc = IF exec[w].todo = {t} THEN "ack" ELSE "prune"]
  /\ UNCHANGED <<Others, object, queue>>

Ack(w) ==
  /\ exec[w].pc = "ack"
  /\ \/ Queue!Delete(exec[w].b) /\ UNCHANGED left
     \/ Spend("fault") /\ UNCHANGED queue
  /\ exec' = [exec EXCEPT ![w] = NoExec]
  /\ UNCHANGED <<Others, bak, object, odd>>

Nack(w) ==
  /\ exec[w].pc = "nack"
  /\ IF exec[w].n >= MaxReadAttempts THEN Queue!Archive(exec[w].b) /\ Note("halted")
     ELSE UNCHANGED <<queue, odd>>
  /\ exec' = [exec EXCEPT ![w] = NoExec]
  /\ UNCHANGED <<Others, bak, object, left>>

(* A backup lasts 30 minutes at most, its message is hidden for 40.        *)
Redeliver(b) ==
  /\ \A w \in Workers : exec[w].b # b
  /\ queue[b].ct < ReadCap /\ Queue!Reappear(b)
  /\ UNCHANGED <<Others, bak, object, exec, left, odd>>

-----------------------------------------------------------------------------
(* The time is up, or the drain of a shutdown: the context is cancelled.   *)

Cut(w) ==
  /\ exec[w].pc \notin {"idle", "ack", "nack"} /\ ~ exec[w].cut
  /\ exec' = [exec EXCEPT ![w].cut = TRUE]
Timeout(w) ==
  /\ exec[w].pc \in {"dump", "upload", "fail", "done", "list", "prune", "forget"}
  /\ Spend("timeout") /\ Cut(w)
  /\ UNCHANGED <<Others, bak, object, queue, odd>>
Resign(w) ==
  /\ proc' = [proc EXCEPT ![w] = [leader |-> FALSE, ticks |-> 0]]
  /\ lock' = IF lock = w THEN 0 ELSE lock
Shutdown(w) ==
  /\ Spend("shutdown") /\ Cut(w) /\ Resign(w)
  /\ UNCHANGED <<clock, cfg, save, call, bak, object, queue, odd>>

(* A replica dies and is started again; its next tick is a minute away.    *)
Crash(w) ==
  /\ Spend("crash") /\ Resign(w)
  /\ call' = [call EXCEPT ![w] = NoCall]
  /\ exec' = [exec EXCEPT ![w] = NoExec]
  /\ odd' = odd \cup (IF call[w].pc \in {"enqueue", "undo"} THEN {"halted"} ELSE {})
                \cup (IF exec[w].pc = "forget" THEN {"halfpruned"} ELSE {})
  /\ UNCHANGED <<clock, cfg, save, bak, object, queue>>

-----------------------------------------------------------------------------
LeaderNext == SessionLost \/ Minute \/ \E w \in Workers : Elect(w) \/ StepDown(w) \/ Tick(w)
CallNext ==
  \/ \E u \in Users : UserAsks(u)
  \/ \E c \in Callers : Create(c) \/ Enqueue(c) \/ Undo(c)
  \/ BeginSave \/ \E k \in Keys : SaveKey(k)
JobNext(w) ==
  \/ Load(w) \/ Mark(w) \/ Dump(w) \/ Upload(w) \/ Fail(w) \/ Complete(w) \/ ListOld(w)
  \/ Prune(w) \/ Forget(w) \/ Ack(w) \/ Nack(w) \/ Timeout(w) \/ Shutdown(w) \/ Crash(w)

Next ==
  \/ LeaderNext \/ CallNext
  \/ \E w \in Workers : JobNext(w) \/ \E b \in Backups : Fetch(w, b)
  \/ \E b \in Backups : Redeliver(b)

Spec == Init /\ [][Next]_vars

-----------------------------------------------------------------------------
(* Properties *)

Barring(what) == odd \cap what = {}

(* A scheduled minute starts one backup: one replica leads at a time,      *)
(* unless another has not noticed yet that its session is gone, and the    *)
(* minutes are those that the schedule names.                              *)
OnePerMinute ==
  /\ \A v, w \in Workers : proc[v].leader /\ proc[w].leader => v = w \/ ~ Barring({"deposed"})
  /\ \A b, c \in Backups : bak[b].at # 0 /\ bak[b].at = bak[c].at => b = c \/ ~ Barring({"moved", "late"})
  /\ \A b \in Backups : bak[b].at # 0 => Expands(Cron, Wall(bak[b].at))

(* A backup that is listed as completed is in the bucket and at the path   *)
(* that its row names; and pruning never takes the last of them.           *)
Forgetting == {t \in Backups : \E w \in Workers : exec[w].pc = "forget" /\ Target(w, t)}
BackupsAreKept ==
  /\ Barring({"reconfigured", "twin", "halfpruned"}) =>
       \A b \in Listed \ Forgetting :
         bak[b].st = "completed" => <<bak[b].bucket, bak[b].path>> \in object
  /\ (\E b \in Backups : bak[b].st = "completed") /\ Barring({"crowded", "undone"}) =>
       \E b \in Listed : bak[b].st = "completed"

(* A backup that its row shows as queued or running is going to end: there *)
(* is no stale recovery for backups.                                       *)
BackupIsPursued ==
  \A b \in Backups : bak[b].st \in {"queued", "running"} /\ Barring({"halted"}) =>
    Queue!Held(b) \/ \E c \in Callers : call[c].b = b
=============================================================================
