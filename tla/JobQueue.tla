------------------------------ MODULE JobQueue ------------------------------
(***************************************************************************)
(* The PGMQ queue "orkai_jobs" as internal/jobs/queue.go uses it.  The     *)
(* queue itself is SQL code outside src/: pgmq.send appends a visible      *)
(* message, pgmq.read hides the oldest visible one for the visibility      *)
(* timeout and increments its read count, pgmq.delete and pgmq.archive     *)
(* remove a message whether or not it is visible.  Every message carries   *)
(* one job and every job is sent at most once.                             *)
(***************************************************************************)
EXTENDS Naturals

CONSTANTS
  Jobs,      \* the jobs that may be enqueued
  ReadCap    \* bound of the model: a message is read at most this often

VARIABLE queue    \* job -> where its message is, its read count, the jobs
                  \* whose msg_id is smaller

Places == {"unsent", "visible", "hidden", "deleted", "archived"}
Message == [st : Places, ct : 0..ReadCap, older : SUBSET Jobs]

Sent(j) == queue[j].st # "unsent"
Held(j) == queue[j].st \in {"visible", "hidden"}

QueueInit == queue = [j \in Jobs |-> [st |-> "unsent", ct |-> 0, older |-> {}]]

(* Queue.Enqueue: pgmq.send allocates the next msg_id. *)
Enqueue(j) ==
  /\ ~Sent(j)
  /\ queue' = [queue EXCEPT ![j] =
                 [st |-> "visible", ct |-> 0, older |-> {k \in Jobs : Sent(k)}]]

Oldest(j) == \A k \in queue[j].older : queue[k].st # "visible"

(* Queue.Read(vt, 1): the oldest visible message. *)
Read(j) ==
  /\ queue[j].st = "visible"
  /\ queue[j].ct < ReadCap
  /\ Oldest(j)
  /\ queue' = [queue EXCEPT ![j].st = "hidden", ![j].ct = @ + 1]

(* The visibility timeout of a hidden message runs out. *)
Reappear(j) ==
  /\ queue[j].st = "hidden"
  /\ queue' = [queue EXCEPT ![j].st = "visible"]

Delete(j)  == Held(j) /\ queue' = [queue EXCEPT ![j].st = "deleted"]
Archive(j) == Held(j) /\ queue' = [queue EXCEPT ![j].st = "archived"]

QueueNext ==
  \E j \in Jobs : Enqueue(j) \/ Read(j) \/ Reappear(j) \/ Delete(j) \/ Archive(j)

QueueSpec == QueueInit /\ [][QueueNext]_queue
=============================================================================
