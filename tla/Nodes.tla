-------------------------------- MODULE Nodes --------------------------------
(***************************************************************************)
(* Server nodes: rows that name a machine, and the goroutines that install *)
(* K3s on it over SSH and wait for it in the cluster                       *)
(* (internal/service/node_service.go, store/pg/server_node_store.go).      *)
(*                                                                         *)
(* The installation knows neither the name the machine gets in the cluster *)
(* nor always its address there: it takes for it whatever was not listed   *)
(* before.  It keeps the row it has read and stores it whole, twice; the   *)
(* nodes here are those with a password, which the row holds encrypted.    *)
(***************************************************************************)
EXTENDS Naturals

CONSTANTS
  Nodes,      \* rows that may be created
  Machines,   \* hosts
  Internal,   \* those whose row has the address that the cluster knows them by
  HostKeys,   \* SSH host keys
  Tasks,      \* requests and goroutines that may be under way at a time
  None,       \* no machine, no key, no row
  MaxTasks,   \* bound of the model: initializations
  MaxFaults   \* bound of the model: calls that fail, crashes, machines set up anew

VARIABLES
  row,      \* the rows
  hostkey,  \* the host key of each machine
  joining,  \* machines on which an agent runs
  cluster,  \* machines that have joined
  task,     \* the initializations
  left,     \* what the bounds leave
  odd       \* what has happened that the properties make exceptions for

vars == <<row, hostkey, joining, cluster, task, left, odd>>

Status == {"pending", "initializing", "ready", "error"}
Row == [there : BOOLEAN, host : Machines \cup {None}, status : Status,
        fp : HostKeys \cup {None}, name : Machines \cup {None}, spoilt : BOOLEAN]
NoRow == [there |-> FALSE, host |-> None, status |-> "pending", fp |-> None, name |-> None,
          spoilt |-> FALSE]

(* spoilt: the password has been encrypted once too often.                 *)
(* copy: the row as it was read, with what the task has put in it; seen:   *)
(* the machines that were listed before the installation.                  *)
Task == [pc : {"free", "mark", "dial", "pin", "list", "install", "wait", "name", "fail"},
         node : Nodes \cup {None}, copy : Row, seen : SUBSET Machines]
Free == [pc |-> "free", node |-> None, copy |-> NoRow, seen |-> {}]

TypeOK ==
  /\ row \in [Nodes -> Row] /\ hostkey \in [Machines -> HostKeys]
  /\ joining \in SUBSET Machines /\ cluster \in SUBSET Machines
  /\ task \in [Tasks -> Task]
  /\ left \in [tasks : 0..MaxTasks, faults : 0..MaxFaults]
  /\ odd \subseteq {"blind", "crowded", "twice"} \X Nodes

(* Some machine, the server, is in the cluster from the start; others may  *)
(* be joined by hand.                                                      *)
Init ==
  /\ row = [n \in Nodes |-> NoRow] /\ hostkey \in [Machines -> HostKeys]
  /\ joining \in SUBSET Machines /\ cluster \in SUBSET joining
  /\ task = [t \in Tasks |-> Free]
  /\ left = [tasks |-> MaxTasks, faults |-> MaxFaults] /\ odd = {}

-----------------------------------------------------------------------------
At(t, pc) == task[t].pc = pc
Works == UNCHANGED left
Fault == left.faults > 0 /\ left' = [left EXCEPT !.faults = @ - 1]
Go(t, pc) == task' = [task EXCEPT ![t].pc = pc]
End(t) == task' = [task EXCEPT ![t] = Free]

(* Update stores every column of the copy, UpdateStatus one; neither finds *)
(* a row that is deleted.                                                  *)
Update(n, copy) == row' = IF row[n].there THEN [row EXCEPT ![n] = copy] ELSE row
UpdateStatus(n, s) ==
  row' = IF row[n].there THEN [row EXCEPT ![n].status = s] ELSE row

-----------------------------------------------------------------------------
(* Rows *)

Create(n, m) ==
  /\ row[n] = NoRow
  /\ row' = [row EXCEPT ![n] = [NoRow EXCEPT !.there = TRUE, !.host = m]]
  /\ UNCHANGED <<hostkey, joining, cluster, task, left, odd>>

(* The machine stays in the cluster.                                       *)
Delete(n) ==
  /\ row[n].there
  /\ row' = [row EXCEPT ![n].there = FALSE]
  /\ UNCHANGED <<hostkey, joining, cluster, task, left, odd>>

-----------------------------------------------------------------------------
(* Initialize and runInitialize *)

(* Nothing refuses a second initialization of a node.                      *)
Begin(t, n) ==
  /\ At(t, "free") /\ row[n].there
  /\ left.tasks > 0 /\ left' = [left EXCEPT !.tasks = @ - 1]
  /\ task' = [task EXCEPT ![t] = [Free EXCEPT !.pc = "mark", !.node = n, !.copy = row[n]]]
  /\ odd' = IF \E u \in Tasks : task[u].node = n THEN odd \cup {<<"twice", n>>} ELSE odd
  /\ UNCHANGED <<row, hostkey, joining, cluster>>

(* An error of this and of the later writes is ignored.                    *)
Mark(t) ==
  /\ At(t, "mark") /\ Go(t, "dial")
  /\ \/ Works /\ UpdateStatus(task[t].node, "initializing")
     \/ Fault /\ UNCHANGED row
  /\ UNCHANGED <<hostkey, joining, cluster, odd>>

(* The first host key is recorded, later ones have to be the same; and the *)
(* password has to be right.                                               *)
Dial(t) ==
  LET copy == task[t].copy  key == hostkey[copy.host]
      admitted == copy.fp \in {None, key} /\ ~ copy.spoilt IN
  /\ At(t, "dial") /\ Works
  /\ \/ ~ admitted /\ Go(t, "fail")
     \/ admitted /\ copy.fp = key /\ Go(t, "list")
     \/ /\ admitted /\ copy.fp = None
        /\ task' = [task EXCEPT ![t].pc = "pin", ![t].copy = [copy EXCEPT !.fp = key]]
  /\ UNCHANGED <<row, hostkey, joining, cluster, odd>>

(* An Update that fails leaves the password of the copy encrypted, and the *)
(* next one encrypts it again.                                             *)
Pin(t) ==
  /\ At(t, "pin")
  /\ \/ Works /\ Update(task[t].node, task[t].copy) /\ Go(t, "list")
     \/ /\ Fault /\ UNCHANGED row
        /\ task' = [task EXCEPT ![t].pc = "list", ![t].copy = [@ EXCEPT !.spoilt = TRUE]]
  /\ UNCHANGED <<hostkey, joining, cluster, odd>>

(* A list that cannot be read is taken for an empty one.                   *)
Listed == cluster
Snapshot(t) ==
  /\ At(t, "list")
  /\ \/ /\ Works /\ UNCHANGED odd
        /\ task' = [task EXCEPT ![t].pc = "install", ![t].seen = Listed]
     \/ /\ Fault /\ odd' = odd \cup {<<"blind", task[t].node>>}
        /\ task' = [task EXCEPT ![t].pc = "install", ![t].seen = {}]
  /\ UNCHANGED <<row, hostkey, joining, cluster>>

(* The script may fail after it has started the agent.                     *)
Install(t) ==
  LET m == task[t].copy.host IN
  /\ At(t, "install")
  /\ joining' = joining \cup {m}
  /\ \/ Works /\ Go(t, "wait")
     \/ Fault /\ Go(t, "fail")
  /\ UNCHANGED <<row, hostkey, cluster, odd>>

(* An agent registers its machine, at a time of its own.                   *)
Watching(t) == task[t].pc \in {"install", "wait"}
Join(m) ==
  /\ m \in joining \ cluster
  /\ cluster' = cluster \cup {m}
  /\ odd' = odd \cup {<<"crowded", task[t].node>> :
                        t \in {u \in Tasks : Watching(u) /\ task[u].copy.host # m}}
  /\ UNCHANGED <<row, hostkey, joining, task, left>>

Anybody(t) == cluster   \* mutant: any machine of the cluster
Candidates(t) ==
  {m \in cluster : m \notin task[t].seen \/ (m = task[t].copy.host /\ m \in Internal)}
Look(t, m) ==
  /\ At(t, "wait") /\ m \in Candidates(t)
  /\ \/ Works /\ UpdateStatus(task[t].node, "ready")
     \/ Fault /\ UNCHANGED row
  /\ task' = [task EXCEPT ![t].pc = "name",
                          ![t].copy = [@ EXCEPT !.name = m, !.status = "ready"]]
  /\ UNCHANGED <<hostkey, joining, cluster, odd>>
NameRow(t) ==
  /\ At(t, "name") /\ End(t)
  /\ \/ Works /\ Update(task[t].node, task[t].copy)
     \/ Fault /\ UNCHANGED row
  /\ UNCHANGED <<hostkey, joining, cluster, odd>>

(* Two minutes have passed, or a machine, a key, a token is not there.     *)
TimeOut(t) ==
  /\ At(t, "wait") /\ Go(t, "fail")
  /\ UNCHANGED <<row, hostkey, joining, cluster, left, odd>>
Break(t) ==
  /\ task[t].pc \in {"dial", "list"} /\ Fault /\ Go(t, "fail")
  /\ UNCHANGED <<row, hostkey, joining, cluster, odd>>
FinishWithError(t) ==
  /\ At(t, "fail") /\ End(t)
  /\ \/ Works /\ UpdateStatus(task[t].node, "error")
     \/ Fault /\ UNCHANGED row
  /\ UNCHANGED <<hostkey, joining, cluster, odd>>

(* The server dies.                                                        *)
Crash ==
  /\ Fault /\ \E t \in Tasks : ~ At(t, "free")
  /\ task' = [t \in Tasks |-> Free]
  /\ UNCHANGED <<row, hostkey, joining, cluster, odd>>

(* A machine is installed anew and has another host key.                   *)
Renew(m, key) ==
  /\ Fault /\ hostkey' = [hostkey EXCEPT ![m] = key]
  /\ UNCHANGED <<row, joining, cluster, task, odd>>

Next ==
  \/ \E n \in Nodes, m \in Machines : Create(n, m)
  \/ \E n \in Nodes : Delete(n) \/ \E t \in Tasks : Begin(t, n)
  \/ \E t \in Tasks :
       \/ Mark(t) \/ Dial(t) \/ Pin(t) \/ Snapshot(t) \/ Install(t)
       \/ (\E m \in Machines : Look(t, m))
       \/ NameRow(t) \/ TimeOut(t) \/ Break(t) \/ FinishWithError(t)
  \/ \E m \in Machines : Join(m) \/ \E key \in HostKeys : Renew(m, key)
  \/ Crash

Spec == Init /\ [][Next]_vars

-----------------------------------------------------------------------------
(* Properties *)

Barred(n, what) == \E w \in what : <<w, n>> \in odd

(* A node that is shown as ready is in the cluster, and the name it has    *)
(* there is that of its own machine.  Excepted are a snapshot that could   *)
(* not be taken, and another machine that joins during the installation:   *)
(* the wrong one may then be taken for the node.                           *)
ReadyHasJoined ==
  \A n \in Nodes :
    row[n].there /\ ~ Barred(n, {"blind", "crowded"}) =>
      /\ row[n].status = "ready" => row[n].host \in cluster
      /\ row[n].name \in {row[n].host, None}

(* The host key that was trusted at first use is the one that is trusted   *)
(* ever after, unless two initializations of the node have overlapped.     *)
KeyIsPinned ==
  [][\A n \in Nodes :
       row[n].fp # None => row'[n].fp = row[n].fp \/ Barred(n, {"twice"})]_vars
=============================================================================
