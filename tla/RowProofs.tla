----------------------------- MODULE RowProofs -----------------------------
(***************************************************************************)
(* Proofs about two kinds of rows that requests and workers write: those   *)
(* of applications (AppLifecycle), for every number of requests, every set *)
(* of operations and all bounds: a request which was not overtaken changes *)
(* no column but its own, and restores the row when it reports a failure;  *)
(* a stopped application stays at no replicas.  And those of the backups   *)
(* of Orkai itself (Backups), for every schedule, any number of replicas,  *)
(* users and backups: a minute is backed up once, what is listed is stored *)
(* and one that is under way is pursued.                                   *)
(***************************************************************************)
EXTENDS AppLifecycle, BackupRuns, FiniteSetTheorems, TLAPS


-----------------------------------------------------------------------------
(* Types *)

LEMMA Constants ==
  /\ Deployed \in Application /\ NoRequest \in Request /\ NoPoll \in Poll
  /\ Base \in Chosen /\ Requests \subseteq Chosen
<1>1. Base \in Chosen /\ Requests \subseteq Chosen
  BY DEF Chosen
<1>2. Deployed \in Application
  BY <1>1 DEF Deployed, Application, AppStatus
<1> QED
  BY <1>1, <1>2 DEF NoRequest, Request, Input, PC, NoPoll, Poll, AppStatus

LEMMA Columns ==
  ASSUME NEW a \in Application
  PROVE  /\ a.there \in BOOLEAN /\ a.status \in AppStatus /\ a.cfg \in Chosen /\ a.env \in Chosen
         /\ a.sec \in Chosen /\ a.hook \in Chosen /\ a.reps \in 0..2 /\ a.hpa \in BOOLEAN
         /\ \A st \in AppStatus : [a EXCEPT !.status = st] \in Application
         /\ \A x \in Chosen : [a EXCEPT !.cfg = x] \in Application
         /\ \A x \in Chosen : [a EXCEPT !.env = x] \in Application
         /\ \A x \in Chosen : [a EXCEPT !.sec = x] \in Application
         /\ \A x \in Chosen : [a EXCEPT !.hook = x] \in Application
         /\ \A n \in 0..2 : [a EXCEPT !.reps = n] \in Application
         /\ \A h \in BOOLEAN : [a EXCEPT !.hpa = h] \in Application
         /\ [a EXCEPT !.there = FALSE] \in Application
BY DEF Application

LEMMA Fields ==
  ASSUME NEW q \in Request
  PROVE  /\ q.op \in Ops \cup {"none"} /\ q.pc \in PC /\ q.reps \in 0..2 /\ q.known \in BOOLEAN
         /\ q.app \in Application /\ q.base \in Application /\ q.old \in Application
         /\ q.in \in [runtime : BOOLEAN, hpa : {"keep", "on", "off"}]
         /\ \A pc \in PC : [q EXCEPT !.pc = pc] \in Request
         /\ \A a \in Application, b \in Application, pc \in PC :
              /\ [q EXCEPT !.app = a, !.base = b, !.pc = pc] \in Request
              /\ [q EXCEPT !.old = a, !.known = TRUE, !.pc = pc] \in Request
              /\ [q EXCEPT !.old = a, !.known = FALSE, !.pc = pc] \in Request
         /\ \A n \in 0..2, pc \in PC : [q EXCEPT !.app.reps = n, !.pc = pc] \in Request
         /\ \A pc \in PC : [q EXCEPT !.known = FALSE, !.pc = pc] \in Request
         /\ \A pc \in PC : [NoRequest EXCEPT !.op = q.op, !.pc = pc] \in Request
<1>1. \A n \in 0..2 : [q.app EXCEPT !.reps = n] \in Application
  BY Columns DEF Request
<1>2. \A n \in 0..2, pc \in PC : [q EXCEPT !.app.reps = n, !.pc = pc] \in Request
  BY <1>1 DEF Request
<1>3. \A pc \in PC : [NoRequest EXCEPT !.op = q.op, !.pc = pc] \in Request
  BY Constants DEF Request
<1> QED
  BY <1>2, <1>3 DEF Request

LEMMA GotoType ==
  ASSUME TypeOK, NEW r \in Requests, NEW pc \in PC, Goto(r, pc)
  PROVE  req' \in [Requests -> Request]
<1>1. req[r] \in Request /\ req \in [Requests -> Request]
  BY DEF TypeOK
<1>2. [req[r] EXCEPT !.pc = pc] \in Request /\ [NoRequest EXCEPT !.op = req[r].op, !.pc = pc] \in Request
  BY <1>1, Fields
<1> QED
  BY <1>1, <1>2 DEF Goto

LEMMA WriteType ==
  ASSUME TypeOK, NEW r \in Requests
  PROVE  /\ \A a \in Application : Write(r, a) => row' \in Application /\ stale' \subseteq Requests
         /\ \A st \in AppStatus : WriteStatus(r, st) => row' \in Application /\ stale' \subseteq Requests
         /\ Kept => row' \in Application /\ stale' \subseteq Requests
         /\ Fault => left' \in [fault : 0..MaxFaults, turn : 0..MaxTurns]
<1>1. row \in Application /\ stale \subseteq Requests
  BY DEF TypeOK
<1>2. \A a \in Application : Write(r, a) => row' \in Application /\ stale' \subseteq Requests
  BY <1>1 DEF Write
<1>3. \A st \in AppStatus : WriteStatus(r, st) => row' \in Application /\ stale' \subseteq Requests
  BY <1>1, <1>2, Columns DEF WriteStatus
<1>4. Fault => left' \in [fault : 0..MaxFaults, turn : 0..MaxTurns]
  BY LifecycleAssumption DEF Fault, TypeOK
<1> QED
  BY <1>1, <1>2, <1>3, <1>4 DEF Kept

LEMMA ClusterType ==
  ASSUME TypeOK, NEW a \in Application
  PROVE  /\ DeployObject(a) \in Cluster
         /\ \A n \in 0..2 : Scaled(n) \in Cluster
         /\ Rolled(k8s) \in Cluster /\ Rolled([k8s EXCEPT !.env = a.env]) \in Cluster
         /\ \A h \in BOOLEAN : [k8s EXCEPT !.hpa = h] \in Cluster
         /\ \A p \in Pods : [k8s EXCEPT !.pods = p] \in Cluster
         /\ [k8s EXCEPT !.sec = a.sec] \in Cluster /\ [k8s EXCEPT !.there = FALSE] \in Cluster
<1>1. k8s \in Cluster /\ "pending" \in Pods
  BY DEF TypeOK, Pods
<1>2. /\ a.cfg \in Chosen /\ a.env \in Chosen /\ a.sec \in Chosen
      /\ Replicas(a.reps) \in 0..2
  <2>1. a.cfg \in Chosen /\ a.env \in Chosen /\ a.sec \in Chosen /\ a.reps \in 0..2
    BY Columns
  <2>2. Replicas(a.reps) \in 0..2
    BY <2>1 DEF Replicas
  <2> QED
    BY <2>1, <2>2
<1>3. DeployObject(a) \in Cluster
  BY <1>1, <1>2 DEF DeployObject, Rolled, Cluster
<1>4. Rolled(k8s) \in Cluster /\ Rolled([k8s EXCEPT !.env = a.env]) \in Cluster
  BY <1>1, <1>2 DEF Rolled, Cluster
<1> QED
  BY <1>1, <1>2, <1>3, <1>4 DEF Scaled, Cluster

LEMMA CopyType ==
  ASSUME NEW r \in Requests, NEW a \in Application, NEW in \in Inputs, NEW op
  PROVE  OnCopy(r, op, a, in) \in Application
<1>1. in \in [runtime : BOOLEAN, hpa : {"keep", "on", "off"}] /\ r \in Chosen
  BY LifecycleAssumption, Constants
<1>2. Edited(r, a, in) \in Application
  BY <1>1 DEF Edited, Application
<1>3. WithEnv(r, a) \in Application /\ WithSecrets(r, a) \in Application /\ WithWebhook(r, a) \in Application
  BY <1>1, Columns DEF WithEnv, WithSecrets, WithWebhook
<1> QED
  BY <1>2, <1>3 DEF OnCopy

LEMMA BeginType ==
  ASSUME TypeOK, NEW r \in Requests, Begin(r)
  PROVE  TypeOK'
<1>1. req \in [Requests -> Request] /\ row \in Application
  BY DEF TypeOK
<1>2. PICK op \in Ops, in \in Inputs, n \in {0, 2} :
        req' = [req EXCEPT ![r] =
            [op |-> op, pc |-> First(op), in |-> in, reps |-> n,
             app |-> OnCopy(r, op, row, in), base |-> row, old |-> Deployed,
             known |-> FALSE]]
  BY DEF Begin
<1>3. First(op) \in PC /\ OnCopy(r, op, row, in) \in Application
  BY <1>1, CopyType DEF First, PC
<1>4. in \in [runtime : BOOLEAN, hpa : {"keep", "on", "off"}]
  BY LifecycleAssumption
<1>5. [op |-> op, pc |-> First(op), in |-> in, reps |-> n, app |-> OnCopy(r, op, row, in),
       base |-> row, old |-> Deployed, known |-> FALSE] \in Request
  BY <1>1, <1>3, <1>4, Constants DEF Request
<1>6. req' \in [Requests -> Request]
  BY <1>1, <1>2, <1>5
<1>7. row' = row /\ stale' = stale /\ k8s' = k8s /\ poll' = poll /\ left' = left
      /\ drift' \in BOOLEAN /\ held' \in BOOLEAN
  BY DEF Begin, Kept, TypeOK
<1> QED
  BY <1>6, <1>7 DEF TypeOK

LEMMA UpdateType ==
  ASSUME TypeOK, NEW r \in Requests,
         UpdateReadOld(r) \/ UpdateStore(r) \/ UpdateHPA(r) \/ UpdateApply(r)
         \/ UpdateAfter(r) \/ UpdateUndo(r)
  PROVE  TypeOK'
<1>1. /\ req[r] \in Request /\ req \in [Requests -> Request] /\ row \in Application
      /\ k8s \in Cluster /\ left \in [fault : 0..MaxFaults, turn : 0..MaxTurns]
      /\ drift \in BOOLEAN /\ row.there \in BOOLEAN
  BY Columns DEF TypeOK
<1>2. req[r].app \in Application /\ req[r].old \in Application /\ req[r].known \in BOOLEAN
  BY <1>1, Fields
<1>3. req' \in [Requests -> Request]
  <2>1. CASE UpdateReadOld(r)
    <3>1. \A k \in BOOLEAN : [req[r] EXCEPT !.old = row, !.known = k, !.pc = "store"] \in Request
      BY <1>1 DEF Request, PC
    <3>2. [req[r] EXCEPT !.known = FALSE, !.pc = "store"] \in Request
      BY <1>1 DEF Request, PC
    <3> QED
      BY <1>1, <2>1, <3>1, <3>2 DEF UpdateReadOld
  <2>2. CASE ~ UpdateReadOld(r)
    <3>1. \E pc \in PC : Goto(r, pc)
      BY <2>2 DEF UpdateStore, AfterStore, UpdateHPA, UpdateApply, UpdateAfter, UpdateUndo, PC
    <3> QED
      BY <3>1, GotoType
  <2> QED
    BY <2>1, <2>2
<1>4. row' \in Application /\ stale' \subseteq Requests
  BY <1>2, WriteType DEF UpdateReadOld, UpdateStore, UpdateHPA, UpdateApply, UpdateAfter, UpdateUndo, Before
<1>5. k8s' \in Cluster
  BY <1>1, <1>2, ClusterType DEF UpdateReadOld, UpdateStore, UpdateHPA, UpdateApply, UpdateAfter,
     UpdateUndo, ConfigureHPA, DeleteHPA, Deploys, DeployFails
<1>6. left' \in [fault : 0..MaxFaults, turn : 0..MaxTurns]
  BY <1>1, WriteType DEF UpdateReadOld, UpdateStore, UpdateHPA, UpdateApply, UpdateAfter, UpdateUndo,
     DeployFails
<1>7. poll' = poll /\ held' = held /\ drift' \in BOOLEAN
  BY <1>1 DEF UpdateReadOld, UpdateStore, UpdateHPA, UpdateApply, UpdateAfter, UpdateUndo
<1> QED
  BY <1>3, <1>4, <1>5, <1>6, <1>7 DEF TypeOK

LEMMA SettingsType ==
  ASSUME TypeOK, NEW r \in Requests,
         ScaleApply(r) \/ StoreSettings(r) \/ EnvApply(r) \/ SecretsApply(r) \/ SecretsUndo(r)
  PROVE  TypeOK'
<1>1. /\ req[r] \in Request /\ req \in [Requests -> Request] /\ row \in Application
      /\ k8s \in Cluster /\ left \in [fault : 0..MaxFaults, turn : 0..MaxTurns]
  BY DEF TypeOK
<1>2. /\ req[r].app \in Application /\ req[r].reps \in 0..2 /\ req[r].base \in Application
      /\ [req[r].app EXCEPT !.sec = req[r].base.sec] \in Application
  BY <1>1, Fields, Columns
<1>3. req' \in [Requests -> Request]
  <2>1. CASE ScaleApply(r)
    <3>1. [req[r] EXCEPT !.app.reps = req[r].reps, !.pc = "store"] \in Request
      BY <1>1, <1>2, Fields DEF PC
    <3>2. "failed" \in PC
      BY DEF PC
    <3> QED
      BY <1>1, <2>1, <3>1, <3>2, GotoType DEF ScaleApply
  <2>2. CASE ~ ScaleApply(r)
    <3>1. \E pc \in PC : Goto(r, pc)
      BY <2>2 DEF StoreSettings, AfterSettings, EnvApply, SecretsApply, SecretsUndo, PC
    <3> QED
      BY <3>1, GotoType
  <2> QED
    BY <2>1, <2>2
<1>4. row' \in Application /\ stale' \subseteq Requests
  BY <1>2, WriteType DEF ScaleApply, StoreSettings, EnvApply, SecretsApply, SecretsUndo
<1>5. k8s' \in Cluster
  BY <1>1, <1>2, ClusterType DEF ScaleApply, StoreSettings, EnvApply, SecretsApply, SecretsUndo,
     ScaleWorks, ScaleFails, Annotated, EnsureSecret
<1>6. left' \in [fault : 0..MaxFaults, turn : 0..MaxTurns]
  BY <1>1, WriteType DEF ScaleApply, StoreSettings, EnvApply, SecretsApply, SecretsUndo,
     ScaleWorks, ScaleFails, Annotated
<1>7. poll' = poll /\ held' = held /\ drift' = drift
  BY DEF ScaleApply, StoreSettings, EnvApply, SecretsApply, SecretsUndo
<1> QED
  BY <1>3, <1>4, <1>5, <1>6, <1>7 DEF TypeOK

(* The operations that store no copy: each moves on, and stores at most a  *)
(* status or deletes the row.                                              *)
Marks(r) ==
  \/ MarkRestarting(r) \/ RestartApply(r) \/ StopHPA(r) \/ MarkStopping(r) \/ StopApply(r)
  \/ MarkStopped(r) \/ MarkError(r) \/ CutShort(r) \/ DeleteApply(r) \/ DeleteRow(r)
  \/ RollbackApply(r) \/ RollbackMark(r)

LEMMA MarksType ==
  ASSUME TypeOK, NEW r \in Requests, Marks(r)
  PROVE  TypeOK'
<1>1. /\ row \in Application /\ drift \in BOOLEAN
      /\ k8s \in Cluster /\ left \in [fault : 0..MaxFaults, turn : 0..MaxTurns]
      /\ [row EXCEPT !.there = FALSE] \in Application
  BY Columns DEF TypeOK
<1>2. req' \in [Requests -> Request]
  <2>1. \E pc \in PC : Goto(r, pc)
    BY DEF Marks, MarkRestarting, RestartApply, StopHPA, SuspendHPA, MarkStopping, StopApply,
       MarkStopped, MarkError, CutShort, DeleteApply, DeleteRow, RollbackApply, RollbackMark, PC
  <2> QED
    BY <2>1, GotoType
<1>3. row' \in Application /\ stale' \subseteq Requests
  BY <1>1, WriteType DEF Marks, MarkRestarting, RestartApply, StopHPA, MarkStopping, StopApply,
     MarkStopped, MarkError, CutShort, DeleteApply, DeleteRow, RollbackApply, RollbackMark, AppStatus
<1>4. k8s' \in Cluster
  <2>1. /\ Rolled(k8s) \in Cluster /\ Scaled(0) \in Cluster
        /\ [k8s EXCEPT !.hpa = FALSE] \in Cluster /\ [k8s EXCEPT !.there = FALSE] \in Cluster
    <3>1. /\ Rolled(k8s) \in Cluster /\ [k8s EXCEPT !.there = FALSE] \in Cluster
          /\ \A h \in BOOLEAN : [k8s EXCEPT !.hpa = h] \in Cluster
      BY <1>1, ClusterType
    <3>2. \A n \in 0..2 : Scaled(n) \in Cluster
      BY <1>1, ClusterType
    <3>3. [k8s EXCEPT !.hpa = FALSE] \in Cluster
      BY <3>1
    <3>4. Scaled(0) \in Cluster
      BY <3>2
    <3> QED
      BY <3>1, <3>3, <3>4
  <2>2. k8s' \in {k8s, Rolled(k8s), Scaled(0), [k8s EXCEPT !.hpa = FALSE], [k8s EXCEPT !.there = FALSE]}
    BY DEF Marks, MarkRestarting, RestartApply, StopHPA, SuspendHPA, MarkStopping,
       StopApply, MarkStopped, MarkError, CutShort, DeleteApply, DeleteRow, RollbackApply,
       RollbackMark, ScaleWorks, ScaleFails, Annotated, DeleteHPA, DeleteObjects
  <2> QED
    BY <1>1, <2>1, <2>2
<1>5. left' \in [fault : 0..MaxFaults, turn : 0..MaxTurns]
  BY <1>1, WriteType DEF Marks, MarkRestarting, RestartApply, StopHPA, SuspendHPA, MarkStopping,
     StopApply, MarkStopped, MarkError, CutShort, DeleteApply, DeleteRow, RollbackApply, RollbackMark,
     ScaleWorks, ScaleFails, Annotated
<1>6. poll' = poll /\ drift' = drift /\ held' \in BOOLEAN
  BY <1>1 DEF Marks, MarkRestarting, RestartApply, StopHPA, MarkStopping, StopApply, MarkStopped,
     MarkError, CutShort, DeleteApply, DeleteRow, RollbackApply, RollbackMark, TypeOK
<1> QED
  BY <1>2, <1>3, <1>4, <1>5, <1>6 DEF TypeOK

LEMMA RedeployType ==
  ASSUME TypeOK, NEW r \in Requests,
         RedeployMark(r) \/ RedeployApply(r) \/ RedeployMarkRunning(r) \/ RedeployStore(r)
         \/ RedeployHPA(r) \/ RedeployFails(r)
  PROVE  TypeOK'
<1>1. /\ req[r] \in Request /\ req \in [Requests -> Request] /\ row \in Application
      /\ k8s \in Cluster /\ left \in [fault : 0..MaxFaults, turn : 0..MaxTurns]
  BY DEF TypeOK
<1>2. req[r].app \in Application
  BY <1>1, Fields
<1>3. req' \in [Requests -> Request]
  <2>1. CASE RedeployMark(r)
    <3>1. [row EXCEPT !.status = "building"] \in Application
      BY <1>1, Columns DEF AppStatus
    <3>2. [req[r] EXCEPT !.app = [row EXCEPT !.status = "building"],
                         !.base = [row EXCEPT !.status = "building"], !.pc = "apply"] \in Request
      BY <1>1, <3>1, Fields DEF PC
    <3> QED
      BY <1>1, <2>1, <3>2 DEF RedeployMark
  <2>2. CASE ~ RedeployMark(r)
    <3>1. \E pc \in PC : Goto(r, pc)
      BY <2>2 DEF RedeployApply, RedeployMarkRunning, RedeployStore, RedeployHPA, RedeployFails, PC
    <3> QED
      BY <3>1, GotoType
  <2> QED
    BY <2>1, <2>2
<1>4. row' \in Application /\ stale' \subseteq Requests
  BY <1>2, WriteType DEF RedeployMark, RedeployApply, RedeployMarkRunning, RedeployStore,
     RedeployHPA, RedeployFails, AppStatus
<1>5. k8s' \in Cluster
  BY <1>1, <1>2, ClusterType DEF RedeployMark, RedeployApply, RedeployMarkRunning, RedeployStore,
     RedeployHPA, RedeployFails, Deploys, DeployFails, ConfigureHPA
<1>6. left' \in [fault : 0..MaxFaults, turn : 0..MaxTurns]
  BY <1>1, WriteType DEF RedeployMark, RedeployApply, RedeployMarkRunning, RedeployStore,
     RedeployHPA, RedeployFails, DeployFails
<1>7. poll' = poll /\ held' = held /\ drift' = drift
  BY DEF RedeployMark, RedeployApply, RedeployMarkRunning, RedeployStore, RedeployHPA, RedeployFails
<1> QED
  BY <1>3, <1>4, <1>5, <1>6, <1>7 DEF TypeOK

LEMMA LookType ==
  ASSUME TypeOK, NEW p \in Pollers, Look(p)
  PROVE  TypeOK'
<1>1. row \in Application /\ stale \subseteq Requests /\ poll \in Poll /\ row.status \in AppStatus
  BY Columns DEF TypeOK
<1>2. Reported(p, Phase) \in AppStatus \cup {"none"}
  BY DEF Reported, AppStatus
<1>3. poll' \in Poll
  BY <1>1, <1>2, Constants DEF Look, PollRead, PollLook, PollWrite, Poll
<1>4. row' \in Application /\ stale' \subseteq Requests
  <2>1. poll.seen \in AppStatus
    BY <1>1 DEF Poll
  <2>2. [row EXCEPT !.status = poll.seen] \in Application
    BY <1>1, <2>1, Columns
  <2> QED
    BY <1>1, <2>2 DEF Look, PollRead, PollLook, PollWrite, Kept
<1>5. k8s' = k8s /\ req' = req /\ left' = left /\ drift' = drift /\ held' = held
  BY DEF Look, PollRead, PollLook, PollWrite
<1> QED
  BY <1>3, <1>4, <1>5 DEF TypeOK

LEMMA PodsType ==
  ASSUME TypeOK, PodsSettle \/ PodsTurn \/ Autoscale
  PROVE  TypeOK'
<1>1. /\ k8s \in Cluster /\ left \in [fault : 0..MaxFaults, turn : 0..MaxTurns]
      /\ \A p \in Pods : [k8s EXCEPT !.pods = p] \in Cluster
      /\ \A n \in 1..2 : [k8s EXCEPT !.reps = n] \in Cluster
  BY DEF TypeOK, Cluster
<1>2. k8s' \in Cluster
  BY <1>1 DEF PodsSettle, PodsTurn, Autoscale
<1>3. left' \in [fault : 0..MaxFaults, turn : 0..MaxTurns]
  <2>1. left.turn > 0 => [left EXCEPT !.turn = @ - 1] \in [fault : 0..MaxFaults, turn : 0..MaxTurns]
    BY <1>1, LifecycleAssumption
  <2> QED
    BY <1>1, <2>1 DEF PodsSettle, PodsTurn, Autoscale
<1>4. row' = row /\ stale' = stale /\ req' = req /\ poll' = poll /\ drift' = drift /\ held' = held
  BY DEF PodsSettle, PodsTurn, Autoscale, Kept
<1> QED
  BY <1>2, <1>3, <1>4 DEF TypeOK

(* Every variable stays within its type: no request, lookup or failure     *)
(* gives the row a status that the code does not know.                     *)
THEOREM LifecycleTypeCorrect == Spec => []TypeOK
<1>1. Init => TypeOK
  <2>1. ASSUME Init PROVE left \in [fault : 0..MaxFaults, turn : 0..MaxTurns]
    BY <2>1, LifecycleAssumption DEF Init
  <2>2. ASSUME Init PROVE k8s \in Cluster
    BY <2>2, Constants DEF Init, Cluster, Pods
  <2>3. ASSUME Init PROVE TypeOK
    BY <2>1, <2>2, <2>3, Constants DEF Init, TypeOK
  <2> QED
    BY <2>3
<1>2. TypeOK /\ [Next]_vars => TypeOK'
  <2> SUFFICES ASSUME TypeOK, [Next]_vars PROVE TypeOK'
    OBVIOUS
  <2>1. CASE UNCHANGED vars
    BY <2>1 DEF vars, TypeOK
  <2>2. ASSUME NEW r \in Requests, Begin(r) \/ Step(r) PROVE TypeOK'
    BY <2>2, BeginType, UpdateType, SettingsType, MarksType, RedeployType DEF Step, Marks
  <2> QED
    BY <2>1, <2>2, LookType, PodsType DEF Next
<1> QED
  BY <1>1, <1>2, PTL DEF Spec

-----------------------------------------------------------------------------
(* Requests that nobody overtakes *)

Cols == {"there", "status", "cfg", "env", "sec", "hook", "reps", "hpa"}
Same(a, b, but) == \A f \in Cols \ but : b[f] = a[f]

Copying == {"update", "env", "secrets", "webhook"}

(* What a request that was not overtaken knows of the row: it is what it   *)
(* has read, and then what it has written; the row that an Update puts     *)
(* back is the one it read first.                                          *)
Fits(r) ==
  /\ req[r].op \in Copying =>
       /\ req[r].base.there
       /\ req[r].app = OnCopy(r, req[r].op, req[r].base, req[r].in)
       /\ req[r].pc \in {"old", "store"} => row = req[r].base
       /\ req[r].pc \in {"hpa", "apply", "after", "undo"} => row = req[r].app
  /\ req[r].op = "update" /\ req[r].known => req[r].old = req[r].base
  /\ req[r].op = "scale" => Same(row, req[r].app, {"reps"})
  /\ req[r].op = "redeploy" /\ req[r].pc # "mark" => Same(row, req[r].app, {"status"})
LostInv == \A r \in Requests : Active(r) /\ r \notin stale => Fits(r)

LEMMA ColumnsOf ==
  ASSUME NEW a \in Application
  PROVE  /\ DOMAIN a = Cols
         /\ \A x : Same(a, [a EXCEPT !.status = x], {"status"})
         /\ \A x : Same(a, [a EXCEPT !.reps = x], {"reps"})
         /\ \A x : Same(a, [a EXCEPT !.there = x], {"there"})
         /\ \A x : Same(a, [a EXCEPT !.env = x], {"env"})
         /\ \A x : Same(a, [a EXCEPT !.sec = x], {"sec"})
         /\ \A x : Same(a, [a EXCEPT !.hook = x], {"hook"})
         /\ \A x, y : Same(a, [a EXCEPT !.cfg = x, !.hpa = y], {"cfg", "hpa"})
         /\ \A x : [[a EXCEPT !.sec = x] EXCEPT !.sec = a.sec] = a
<1>1. DOMAIN a = Cols
  BY DEF Application, Cols
<1>2. \A x : Same(a, [a EXCEPT !.status = x], {"status"}) /\ Same(a, [a EXCEPT !.reps = x], {"reps"})
  BY <1>1 DEF Same, Cols
<1>3. \A x : Same(a, [a EXCEPT !.there = x], {"there"}) /\ Same(a, [a EXCEPT !.env = x], {"env"})
  BY <1>1 DEF Same, Cols
<1>4. \A x : Same(a, [a EXCEPT !.sec = x], {"sec"}) /\ Same(a, [a EXCEPT !.hook = x], {"hook"})
  BY <1>1 DEF Same, Cols
<1>5. \A x, y : Same(a, [a EXCEPT !.cfg = x, !.hpa = y], {"cfg", "hpa"})
  BY <1>1 DEF Same, Cols
<1>6. \A x : [[a EXCEPT !.sec = x] EXCEPT !.sec = a.sec] = a
  BY DEF Application
<1> QED
  BY <1>1, <1>2, <1>3, <1>4, <1>5, <1>6

LEMMA CopyChangesItsOwn ==
  ASSUME NEW r \in Requests, NEW a \in Application, NEW op \in Copying,
         NEW in \in [runtime : BOOLEAN, hpa : {"keep", "on", "off"}]
  PROVE  /\ Same(a, OnCopy(r, op, a, in), Own(op)) /\ Same(OnCopy(r, op, a, in), a, Own(op))
         /\ OnCopy(r, op, a, in).there = a.there
<1>1. Same(a, OnCopy(r, op, a, in), Own(op))
  BY ColumnsOf DEF OnCopy, Edited, WithEnv, WithSecrets, WithWebhook, Own, Copying
<1>2. Same(OnCopy(r, op, a, in), a, Own(op))
  BY <1>1 DEF Same
<1>3. "there" \in Cols \ Own(op)
  BY DEF Own, Cols, Copying
<1> QED
  BY <1>1, <1>2, <1>3 DEF Same

(* What one step of a request r does to the row and to r.                  *)
KeepsColumns(r) ==
  /\ Same(row, row', Own(req[r].op))
  /\ Active(r)' => Fits(r)'
  /\ /\ req[r].op \in {"update", "secrets"} /\ req'[r].pc = "failed"
     /\ req[r].op = "update" => req[r].known \/ req[r].pc = "store"
     => row' = req[r].base

LEMMA WriteKeeps ==
  ASSUME TypeOK, NEW r \in Requests, NEW a \in Application, Write(r, a)
  PROVE  (row' = a \/ row' = row) /\ (row.there => row' = a)
BY DEF Write

LEMMA GotoEffect ==
  ASSUME TypeOK, NEW r \in Requests, NEW pc \in PC, Goto(r, pc)
  PROVE  /\ req'[r].pc = pc /\ req'[r].op = req[r].op
         /\ pc \notin {"failed", "done"} =>
              /\ req'[r].app = req[r].app /\ req'[r].base = req[r].base /\ req'[r].old = req[r].old
              /\ req'[r].known = req[r].known /\ req'[r].in = req[r].in
         /\ \A q \in Requests \ {r} : req'[q] = req[q]
<1>1. req[r] \in Request /\ req \in [Requests -> Request]
  BY DEF TypeOK
<1>2. CASE pc \in {"failed", "done"}
  <2>1. req'[r] = [NoRequest EXCEPT !.op = req[r].op, !.pc = pc]
    BY <1>1, <1>2 DEF Goto
  <2> QED
    BY <1>1, <1>2, <2>1 DEF Goto, NoRequest
<1>3. CASE pc \notin {"failed", "done"}
  <2>1. req'[r] = [req[r] EXCEPT !.pc = pc]
    BY <1>1, <1>3 DEF Goto
  <2> QED
    BY <1>1, <1>3, <2>1 DEF Goto, Request
<1> QED
  BY <1>2, <1>3

LEMMA EndKeeps ==
  ASSUME TypeOK, NEW r \in Requests, NEW pc \in {"failed", "done"}, Goto(r, pc),
         Same(row, row', Own(req[r].op)),
         pc = "failed" /\ req[r].op \in {"update", "secrets"}
           /\ (req[r].op = "update" => req[r].known \/ req[r].pc = "store") => row' = req[r].base
  PROVE  KeepsColumns(r)
<1>1. req'[r].pc = pc
  BY GotoEffect DEF PC
<1>2. ~ Active(r)'
  BY <1>1 DEF Active, Ended
<1> QED
  BY <1>1, <1>2 DEF KeepsColumns

LEMMA UpdateKeeps ==
  ASSUME TypeOK, NEW r \in Requests, Active(r), Fits(r),
         UpdateReadOld(r) \/ UpdateStore(r) \/ UpdateHPA(r) \/ UpdateApply(r)
         \/ UpdateAfter(r) \/ UpdateUndo(r)
  PROVE  KeepsColumns(r)
<1>1. /\ req[r] \in Request /\ req \in [Requests -> Request] /\ req[r].op = "update" /\ row \in Application
      /\ req[r].app \in Application /\ req[r].base \in Application /\ req[r].old \in Application
      /\ req[r].in \in [runtime : BOOLEAN, hpa : {"keep", "on", "off"}]
  BY Fields DEF TypeOK, At, UpdateReadOld, UpdateStore, UpdateHPA, UpdateApply, UpdateAfter, UpdateUndo
<1>2. /\ req[r].base.there /\ req[r].app = OnCopy(r, "update", req[r].base, req[r].in)
      /\ req[r].pc \in {"old", "store"} => row = req[r].base
      /\ req[r].pc \in {"hpa", "apply", "after", "undo"} => row = req[r].app
      /\ req[r].known => req[r].old = req[r].base
  BY <1>1 DEF Fits, Copying
<1>3. /\ Same(req[r].base, req[r].app, Own("update")) /\ Same(req[r].app, req[r].base, Own("update"))
      /\ req[r].app.there
  BY <1>1, <1>2, CopyChangesItsOwn DEF Copying
<1>4. Same(row, row, Own("update"))
  BY DEF Same
<1>5. CASE UpdateReadOld(r)
  <2>1. /\ req'[r].op = "update" /\ req'[r].pc = "store" /\ row' = row
        /\ req'[r].app = req[r].app /\ req'[r].base = req[r].base /\ req'[r].in = req[r].in
        /\ req'[r].known => req'[r].old = row
    BY <1>1, <1>5 DEF UpdateReadOld, Kept, Request
  <2>2. row = req[r].base
    BY <1>2, <1>5 DEF UpdateReadOld, At
  <2>3. Fits(r)'
    BY <1>2, <2>1, <2>2 DEF Fits, Copying
  <2> QED
    BY <1>1, <1>4, <2>1, <2>3 DEF KeepsColumns
<1>6. ASSUME NEW pc \in PC \ {"failed", "done"}, Goto(r, pc), pc \notin {"old", "store"},
             row' = req[r].app, Same(row, row', Own("update"))
      PROVE  KeepsColumns(r)
  <2>1. /\ req'[r].op = "update" /\ req'[r].pc = pc /\ req'[r].app = req[r].app
        /\ req'[r].base = req[r].base /\ req'[r].in = req[r].in /\ req'[r].old = req[r].old
        /\ req'[r].known = req[r].known
    BY <1>1, <1>6, GotoEffect
  <2>2. Fits(r)'
    BY <1>2, <1>6, <2>1 DEF Fits, Copying
  <2> QED
    BY <1>1, <1>6, <2>1, <2>2 DEF KeepsColumns
<1>7. CASE UpdateStore(r)
  <2>1. req[r].pc = "store" /\ row = req[r].base /\ AfterStore(r) \in {"hpa", "apply", "done"}
    BY <1>2, <1>7 DEF UpdateStore, At, AfterStore
  <2>2. CASE Write(r, req[r].app) /\ Goto(r, AfterStore(r))
    <3>1. row' = req[r].app
      BY <1>1, <1>2, <2>1, <2>2, WriteKeeps
    <3>2. Same(row, row', Own("update"))
      BY <1>3, <2>1, <3>1
    <3> QED
      BY <1>1, <1>6, <2>1, <2>2, <3>1, <3>2, EndKeeps DEF PC
  <2>3. CASE Kept /\ Goto(r, "failed")
    BY <1>1, <1>4, <2>1, <2>3, EndKeeps DEF Kept
  <2> QED
    BY <1>7, <2>2, <2>3 DEF UpdateStore
<1>8. CASE UpdateHPA(r) \/ UpdateApply(r)
  <2>1. row' = row /\ row = req[r].app
    BY <1>2, <1>8 DEF UpdateHPA, UpdateApply, At, Kept
  <2>2. \E pc \in {"apply", "after", "undo", "done"} : Goto(r, pc)
    BY <1>8 DEF UpdateHPA, UpdateApply
  <2> QED
    BY <1>1, <1>4, <1>6, <2>1, <2>2, EndKeeps DEF PC
<1>9. CASE UpdateAfter(r)
  <2>1. row' = row /\ Goto(r, "done")
    BY <1>1, <1>2, <1>9, WriteKeeps DEF UpdateAfter, At
  <2> QED
    BY <1>1, <1>4, <2>1, EndKeeps
<1>10. CASE UpdateUndo(r)
  <2>1. row = req[r].app /\ Goto(r, "failed") /\ req[r].pc = "undo"
    BY <1>2, <1>10 DEF UpdateUndo, At
  <2>2. IF req[r].known THEN row' = req[r].base ELSE row' = row
    BY <1>1, <1>2, <1>3, <1>10, <2>1, WriteKeeps DEF UpdateUndo, Before, Kept
  <2> QED
    BY <1>1, <1>3, <1>4, <2>1, <2>2, EndKeeps
<1> QED
  BY <1>5, <1>7, <1>8, <1>9, <1>10

LEMMA SettingsKeeps ==
  ASSUME TypeOK, NEW r \in Requests, Active(r), Fits(r),
         ScaleApply(r) \/ StoreSettings(r) \/ EnvApply(r) \/ SecretsApply(r) \/ SecretsUndo(r)
  PROVE  KeepsColumns(r)
<1>1. /\ req[r] \in Request /\ req \in [Requests -> Request] /\ row \in Application
      /\ req[r].app \in Application /\ req[r].base \in Application
      /\ req[r].in \in [runtime : BOOLEAN, hpa : {"keep", "on", "off"}]
  BY Fields DEF TypeOK
<1>2. \A F : Same(row, row, F)
  BY DEF Same
<1>3. CASE ScaleApply(r)
  <2>1. req[r].op = "scale" /\ row' = row /\ Same(row, req[r].app, {"reps"})
    BY <1>3 DEF ScaleApply, At, Kept, Fits
  <2>2. ASSUME req' = [req EXCEPT ![r].app.reps = req[r].reps, ![r].pc = "store"] PROVE KeepsColumns(r)
    <3>1. /\ req'[r].op = "scale" /\ req'[r].pc = "store"
          /\ req'[r].app = [req[r].app EXCEPT !.reps = req[r].reps]
      BY <1>1, <2>1, <2>2 DEF Request
    <3>2. Same(req[r].app, req'[r].app, {"reps"})
      <4>1. \A x : Same(req[r].app, [req[r].app EXCEPT !.reps = x], {"reps"})
        BY <1>1, ColumnsOf
      <4>2. Same(req[r].app, [req[r].app EXCEPT !.reps = req[r].reps], {"reps"})
        BY <4>1
      <4> QED
        BY <3>1, <4>2
    <3>3. Same(row, req'[r].app, {"reps"})
      BY <2>1, <3>2 DEF Same
    <3>4. Fits(r)'
      BY <2>1, <3>1, <3>3 DEF Fits, Copying, Same
    <3> QED
      BY <1>2, <2>1, <3>1, <3>4 DEF KeepsColumns
  <2> QED
    BY <1>2, <1>3, <2>1, <2>2, EndKeeps DEF ScaleApply
<1>4. CASE StoreSettings(r)
  <2>1. req[r].op \in {"scale", "env", "secrets", "webhook"} /\ req[r].pc = "store"
    BY <1>4 DEF StoreSettings
  <2>2. req[r].op # "scale" =>
          row = req[r].base /\ row.there /\ req[r].app = OnCopy(r, req[r].op, req[r].base, req[r].in)
    BY <2>1 DEF Fits, Copying
  <2>3. Same(row, req[r].app, Own(req[r].op))
    <3>1. CASE req[r].op = "scale"
      BY <3>1 DEF Fits, Own
    <3>2. CASE req[r].op # "scale"
      BY <1>1, <2>1, <2>2, <3>2, CopyChangesItsOwn DEF Copying
    <3> QED
      BY <3>1, <3>2
  <2>4. CASE Write(r, req[r].app) /\ Goto(r, AfterSettings(r))
    <3>1. Same(row, row', Own(req[r].op))
      BY <1>1, <1>2, <2>3, <2>4, WriteKeeps
    <3>2. CASE AfterSettings(r) = "done"
      BY <2>4, <3>1, <3>2, EndKeeps
    <3>3. CASE AfterSettings(r) # "done"
      <4>1. AfterSettings(r) = "apply" /\ req[r].op \in {"env", "secrets"}
        BY <3>3 DEF AfterSettings
      <4>2. row' = req[r].app
        BY <1>1, <2>2, <2>4, <4>1, WriteKeeps
      <4>3. /\ req'[r].op = req[r].op /\ req'[r].pc = "apply" /\ req'[r].app = req[r].app
            /\ req'[r].base = req[r].base /\ req'[r].in = req[r].in
        BY <2>4, <4>1, GotoEffect DEF PC
      <4>4. Fits(r)'
        BY <2>2, <4>1, <4>2, <4>3 DEF Fits, Copying
      <4> QED
        BY <3>1, <4>3, <4>4 DEF KeepsColumns
    <3> QED
      BY <3>2, <3>3
  <2>5. CASE Kept /\ Goto(r, "failed")
    BY <1>2, <2>1, <2>2, <2>5, EndKeeps DEF Kept
  <2> QED
    BY <1>4, <2>4, <2>5 DEF StoreSettings
<1>5. CASE EnvApply(r)
  BY <1>2, <1>5, EndKeeps DEF EnvApply, At, Kept
<1>6. CASE SecretsApply(r)
  <2>1. req[r].op = "secrets" /\ req[r].pc = "apply" /\ row' = row
    BY <1>6 DEF SecretsApply, At, Kept
  <2>2. CASE Goto(r, "done")
    BY <1>2, <2>1, <2>2, EndKeeps
  <2>3. CASE Goto(r, "undo")
    <3>1. /\ req'[r].op = "secrets" /\ req'[r].pc = "undo" /\ req'[r].app = req[r].app
          /\ req'[r].base = req[r].base /\ req'[r].in = req[r].in
      BY <2>1, <2>3, GotoEffect DEF PC
    <3>2. Fits(r)'
      BY <2>1, <3>1 DEF Fits, Copying
    <3> QED
      BY <1>2, <2>1, <3>1, <3>2 DEF KeepsColumns
  <2> QED
    BY <1>6, <2>2, <2>3 DEF SecretsApply
<1>7. CASE SecretsUndo(r)
  <2>1. /\ req[r].op = "secrets" /\ req[r].pc = "undo" /\ Goto(r, "failed")
        /\ row = req[r].app /\ req[r].base.there
        /\ req[r].app = OnCopy(r, "secrets", req[r].base, req[r].in)
    BY <1>7 DEF SecretsUndo, At, Fits, Copying
  <2>2. req[r].app = [req[r].base EXCEPT !.sec = r]
    BY <2>1 DEF OnCopy, WithSecrets
  <2>3. [req[r].app EXCEPT !.sec = req[r].base.sec] = req[r].base
    BY <1>1, <2>2, ColumnsOf
  <2>4. row.there /\ Same(row, req[r].base, Own("secrets"))
    BY <1>1, <2>1, CopyChangesItsOwn DEF Copying
  <2>5. row' = req[r].base
    BY <1>1, <1>7, <2>3, <2>4, WriteKeeps DEF SecretsUndo
  <2> QED
    BY <2>1, <2>4, <2>5, EndKeeps
<1> QED
  BY <1>3, <1>4, <1>5, <1>6, <1>7

LEMMA MarksKeeps ==
  ASSUME TypeOK, NEW r \in Requests, Marks(r)
  PROVE  KeepsColumns(r)
<1>1. row \in Application /\ row.there \in BOOLEAN
  BY Columns DEF TypeOK
<1>2. /\ \A F : Same(row, row, F)
      /\ \A st : Same(row, [row EXCEPT !.status = st], {"status"})
      /\ Same(row, [row EXCEPT !.there = FALSE], {"there"})
  BY <1>1, ColumnsOf DEF Same
<1>3. /\ req[r].op \in {"restart", "stop", "rollback", "delete"}
      /\ \E pc \in PC : Goto(r, pc)
  BY DEF Marks, MarkRestarting, RestartApply, StopHPA, SuspendHPA, MarkStopping, StopApply,
     MarkStopped, MarkError, CutShort, DeleteApply, DeleteRow, RollbackApply, RollbackMark, At, PC
<1>4. Same(row, row', Own(req[r].op))
  <2>1. CASE DeleteRow(r)
    BY <1>2, <2>1 DEF DeleteRow, At, Write, Own
  <2>2. CASE ~ DeleteRow(r)
    <3>1. Kept \/ (req[r].op # "delete" /\ \E st \in AppStatus : WriteStatus(r, st))
      BY <2>2 DEF Marks, MarkRestarting, RestartApply, StopHPA, MarkStopping, StopApply,
         MarkStopped, MarkError, CutShort, DeleteApply, RollbackApply, RollbackMark, At, AppStatus
    <3>2. req[r].op # "delete" => Own(req[r].op) = {"status"}
      BY <1>3 DEF Own
    <3> QED
      BY <1>2, <3>1, <3>2 DEF Kept, WriteStatus, Write
  <2> QED
    BY <2>1, <2>2
<1>5. req'[r].op = req[r].op
  BY <1>3, GotoEffect
<1>6. Fits(r)'
  BY <1>3, <1>5 DEF Fits, Copying
<1> QED
  BY <1>3, <1>4, <1>6 DEF KeepsColumns

LEMMA RedeployKeeps ==
  ASSUME TypeOK, NEW r \in Requests, Active(r), Fits(r),
         RedeployMark(r) \/ RedeployApply(r) \/ RedeployMarkRunning(r) \/ RedeployStore(r)
         \/ RedeployHPA(r) \/ RedeployFails(r)
  PROVE  KeepsColumns(r)
<1>1. /\ row \in Application /\ req[r].op = "redeploy" /\ req[r].app \in Application
      /\ req \in [Requests -> Request] /\ req[r] \in Request
  BY Fields DEF TypeOK, At, RedeployMark, RedeployApply, RedeployMarkRunning, RedeployStore,
     RedeployHPA, RedeployFails
<1>2. /\ Same(row, row, {"status"}) /\ Own("redeploy") = {"status"}
      /\ \A st : Same(row, [row EXCEPT !.status = st], {"status"})
  BY <1>1, ColumnsOf DEF Same, Own
<1>3. Same(row, row', {"status"})
  BY <1>1, <1>2, WriteKeeps DEF RedeployMark, RedeployApply, RedeployMarkRunning, RedeployStore,
     RedeployHPA, RedeployFails, WriteStatus, Write, Kept, Fits, At
<1>4. Active(r)' => Fits(r)'
  <2>1. CASE RedeployMark(r)
    <3>1. req'[r].op = "redeploy" /\ req'[r].app = [row EXCEPT !.status = "building"]
      BY <1>1, <2>1 DEF RedeployMark, Request
    <3>2. Same(row, [row EXCEPT !.status = "building"], {"status"})
      BY <1>2
    <3>3. Same(row, req'[r].app, {"status"})
      BY <3>1, <3>2
    <3>4. Same(row', req'[r].app, {"status"})
      BY <1>3, <3>3 DEF Same
    <3> QED
      BY <3>1, <3>4 DEF Fits, Copying, Same
  <2>2. CASE ~ RedeployMark(r) /\ Active(r)'
    <3>1. \E pc \in PC : Goto(r, pc)
      BY <2>2 DEF RedeployMark, RedeployApply, RedeployMarkRunning, RedeployStore, RedeployHPA,
         RedeployFails, PC
    <3>2. req'[r].op = "redeploy" /\ req'[r].app = req[r].app
      BY <1>1, <2>2, <3>1, GotoEffect DEF Active, Ended
    <3>3. req[r].pc # "mark"
      BY <2>2 DEF RedeployMark, RedeployApply, RedeployMarkRunning, RedeployStore, RedeployHPA,
         RedeployFails, At
    <3>4. Same(row, req[r].app, {"status"})
      BY <1>1, <3>3 DEF Fits
    <3>5. Same(row', req'[r].app, {"status"})
      BY <1>3, <3>2, <3>4 DEF Same
    <3> QED
      BY <3>2, <3>5 DEF Fits, Copying, Same
  <2> QED
    BY <2>1, <2>2
<1> QED
  BY <1>1, <1>2, <1>3, <1>4 DEF KeepsColumns

(* A step of one request leaves the others alone, and all that are active  *)
(* are stale once it has written the row.                                  *)
LEMMA StepFrame ==
  ASSUME TypeOK, NEW r \in Requests, Step(r)
  PROVE  /\ Active(r) /\ stale \subseteq stale'
         /\ \A q \in Requests \ {r} : req'[q] = req[q]
         /\ Kept \/ \A q \in Requests \ {r} : Active(q) => q \in stale'
<1>1. Active(r)
  BY DEF Step, At, Active, Ended, UpdateReadOld, UpdateStore, UpdateHPA, UpdateApply,
     UpdateAfter, UpdateUndo, ScaleApply, StoreSettings, EnvApply, SecretsApply, SecretsUndo,
     MarkRestarting, RestartApply, StopHPA, MarkStopping, StopApply, MarkStopped, MarkError,
     CutShort, DeleteApply, DeleteRow, RollbackApply, RollbackMark, RedeployMark, RedeployApply,
     RedeployMarkRunning, RedeployStore, RedeployHPA, RedeployFails
<1>2. Kept \/ \E a : Write(r, a)
  BY DEF Step, WriteStatus, UpdateReadOld, UpdateStore, UpdateHPA, UpdateApply,
     UpdateAfter, UpdateUndo, ScaleApply, StoreSettings, EnvApply, SecretsApply, SecretsUndo,
     MarkRestarting, RestartApply, StopHPA, MarkStopping, StopApply, MarkStopped, MarkError,
     CutShort, DeleteApply, DeleteRow, RollbackApply, RollbackMark, RedeployMark, RedeployApply,
     RedeployMarkRunning, RedeployStore, RedeployHPA, RedeployFails
<1>3. \A q \in Requests \ {r} : req'[q] = req[q]
  <2>1. CASE UpdateReadOld(r) \/ ScaleApply(r) \/ RedeployMark(r)
    BY <2>1 DEF UpdateReadOld, ScaleApply, RedeployMark, Goto, TypeOK
  <2>2. CASE ~ (UpdateReadOld(r) \/ ScaleApply(r) \/ RedeployMark(r))
    <3>1. \E pc \in PC : Goto(r, pc)
      BY <2>2 DEF Step, UpdateStore, AfterStore, UpdateHPA, UpdateApply, UpdateAfter, UpdateUndo,
         StoreSettings, AfterSettings, EnvApply, SecretsApply, SecretsUndo,
         MarkRestarting, RestartApply, StopHPA, SuspendHPA, MarkStopping, StopApply, MarkStopped,
         MarkError, CutShort, DeleteApply, DeleteRow, RollbackApply, RollbackMark, RedeployApply,
         RedeployMarkRunning, RedeployStore, RedeployHPA, RedeployFails, PC
    <3> QED
      BY <3>1, GotoEffect
  <2> QED
    BY <2>1, <2>2
<1>4. stale \subseteq stale' /\ (Kept \/ \A q \in Requests \ {r} : Active(q) => q \in stale')
  BY <1>2 DEF Kept, Write
<1> QED
  BY <1>1, <1>3, <1>4

(* A request that has not been touched, and a row that has not either.     *)
LEMMA StaysFit ==
  ASSUME NEW r \in Requests, Fits(r), row' = row, req'[r] = req[r]
  PROVE  Fits(r)'
BY DEF Fits, Same

LEMMA BeginFits ==
  ASSUME TypeOK, NEW r \in Requests, Begin(r)
  PROVE  Fits(r)' /\ Kept /\ \A q \in Requests \ {r} : req'[q] = req[q]
<1>1. PICK op \in Ops, in \in Inputs, n \in {0, 2} :
        req' = [req EXCEPT ![r] =
            [op |-> op, pc |-> First(op), in |-> in, reps |-> n,
             app |-> OnCopy(r, op, row, in), base |-> row, old |-> Deployed,
             known |-> FALSE]]
  BY DEF Begin
<1>2. /\ req'[r].op = op /\ req'[r].pc = First(op) /\ req'[r].in = in
      /\ req'[r].app = OnCopy(r, op, row, in) /\ req'[r].base = row /\ ~ req'[r].known
      /\ \A q \in Requests \ {r} : req'[q] = req[q]
  BY <1>1 DEF TypeOK
<1>3. row.there /\ row' = row /\ Kept
  BY DEF Begin, Kept
<1>4. op \in Copying => First(op) \in {"old", "store"}
  BY DEF Copying, First
<1>5. op = "scale" => OnCopy(r, op, row, in) = row
  BY DEF OnCopy
<1>6. op = "redeploy" => First(op) = "mark"
  BY DEF First
<1>7. Fits(r)'
  BY <1>2, <1>3, <1>4, <1>5, <1>6 DEF Fits, Same
<1> QED
  BY <1>2, <1>3, <1>7

(* A step of a request that was not overtaken keeps the columns it does    *)
(* not own, and restores the row when it fails.                            *)
LEMMA StepKeeps ==
  ASSUME TypeOK, LostInv, NEW r \in Requests, Step(r), r \notin stale
  PROVE  KeepsColumns(r)
<1>1. Active(r) /\ Fits(r)
  BY StepFrame DEF LostInv
<1>2. CASE UpdateReadOld(r) \/ UpdateStore(r) \/ UpdateHPA(r) \/ UpdateApply(r)
           \/ UpdateAfter(r) \/ UpdateUndo(r)
  BY <1>1, <1>2, UpdateKeeps
<1>3. CASE ScaleApply(r) \/ StoreSettings(r) \/ EnvApply(r) \/ SecretsApply(r) \/ SecretsUndo(r)
  BY <1>1, <1>3, SettingsKeeps
<1>4. CASE Marks(r)
  BY <1>4, MarksKeeps
<1>5. CASE RedeployMark(r) \/ RedeployApply(r) \/ RedeployMarkRunning(r) \/ RedeployStore(r)
           \/ RedeployHPA(r) \/ RedeployFails(r)
  BY <1>1, <1>5, RedeployKeeps
<1> QED
  BY <1>2, <1>3, <1>4, <1>5 DEF Step, Marks

LEMMA LostInvStep ==
  ASSUME TypeOK, LostInv, Next
  PROVE  LostInv'
<1> SUFFICES ASSUME NEW r \in Requests, Active(r)', r \notin stale' PROVE Fits(r)'
  BY DEF LostInv
<1>1. ASSUME NEW q \in Requests, Begin(q) PROVE Fits(r)'
  <2>1. CASE q = r
    BY <1>1, <2>1, BeginFits
  <2>2. CASE q # r
    <3>1. req'[r] = req[r] /\ row' = row /\ stale' = stale
      BY <1>1, <2>2, BeginFits DEF Kept
    <3>2. Active(r) /\ Fits(r)
      BY <3>1 DEF Active, Ended, LostInv
    <3> QED
      BY <3>1, <3>2, StaysFit
  <2> QED
    BY <2>1, <2>2
<1>2. ASSUME NEW q \in Requests, Step(q) PROVE Fits(r)'
  <2>1. stale \subseteq stale'
    BY <1>2, StepFrame
  <2>2. CASE q = r
    BY <1>2, <2>1, <2>2, StepKeeps DEF KeepsColumns
  <2>3. CASE q # r
    <3>1. req'[r] = req[r] /\ (Kept \/ (Active(r) => r \in stale'))
      BY <1>2, <2>3, StepFrame
    <3>2. Active(r)
      BY <3>1 DEF Active, Ended
    <3>3. row' = row /\ Fits(r)
      BY <2>1, <3>1, <3>2 DEF Kept, LostInv
    <3> QED
      BY <3>1, <3>3, StaysFit
  <2> QED
    BY <2>2, <2>3
<1>3. ASSUME NEW p \in Pollers, Look(p) PROVE Fits(r)'
  <2>1. req' = req /\ Active(r)
    BY <1>3 DEF Look, PollRead, PollLook, PollWrite, Active, Ended
  <2>2. Kept
    BY <1>3, <2>1 DEF Look, PollRead, PollLook, PollWrite
  <2>3. Fits(r) /\ row' = row
    BY <2>1, <2>2 DEF Kept, LostInv
  <2> QED
    BY <2>1, <2>3, StaysFit
<1>4. CASE PodsSettle \/ PodsTurn \/ Autoscale
  <2>1. req' = req /\ row' = row /\ stale' = stale
    BY <1>4 DEF PodsSettle, PodsTurn, Autoscale, Kept
  <2>2. Active(r) /\ Fits(r)
    BY <2>1 DEF Active, Ended, LostInv
  <2> QED
    BY <2>1, <2>2, StaysFit
<1> QED
  BY <1>1, <1>2, <1>3, <1>4 DEF Next

LEMMA LostInvHolds == Spec => [](TypeOK /\ LostInv)
<1>1. Init => LostInv
  BY DEF Init, LostInv, Active, NoRequest
<1>2. TypeOK /\ LostInv /\ [Next]_vars => LostInv'
  <2>1. ASSUME LostInv, UNCHANGED vars PROVE LostInv'
    BY <2>1 DEF LostInv, vars, Active, Ended, Fits, Same
  <2> QED
    BY <2>1, LostInvStep
<1> QED
  BY <1>1, <1>2, LifecycleTypeCorrect, PTL DEF Spec

(* The request that moves, if it was not waiting to begin, is the one      *)
(* whose step it is.                                                       *)
LEMMA WhoMoves ==
  ASSUME TypeOK, [Next]_vars, NEW r \in Requests, req[r].pc # req'[r].pc, req[r].pc # "idle"
  PROVE  Step(r)
<1>1. Next
  BY DEF vars
<1>2. ASSUME NEW q \in Requests, Begin(q) PROVE FALSE
  BY <1>2, BeginFits DEF Begin
<1>3. ASSUME NEW q \in Requests, Step(q) PROVE Step(r)
  BY <1>3, StepFrame
<1>4. ASSUME NEW p \in Pollers, Look(p) PROVE FALSE
  BY <1>4 DEF Look, PollRead, PollLook, PollWrite
<1>5. ~ (PodsSettle \/ PodsTurn \/ Autoscale)
  BY DEF PodsSettle, PodsTurn, Autoscale
<1> QED
  BY <1>1, <1>2, <1>3, <1>4, <1>5 DEF Next

(* An edit is lost only to a request that overlapped it: a request that no *)
(* other actor has overtaken changes no column but its own, although every *)
(* one writes the whole row.                                               *)
THEOREM OverlapLoses == Spec => LostOnlyByOverlap
<1>1. ASSUME TypeOK, LostInv, [Next]_vars
      PROVE  \A r \in Requests :
               req[r].pc # req'[r].pc /\ req[r].pc # "idle" /\ r \notin stale
                 => \A f \in DOMAIN row \ Own(req[r].op) : row'[f] = row[f]
  <2>1. DOMAIN row = Cols
    BY <1>1, ColumnsOf DEF TypeOK
  <2> QED
    BY <1>1, <2>1, WhoMoves, StepKeeps DEF KeepsColumns, Same
<1> QED
  BY <1>1, LostInvHolds, PTL DEF Spec, LostOnlyByOverlap

(* A settings request that reports a failure, and was not overtaken, has   *)
(* left the row as it found it.                                            *)
THEOREM FailureRestores == Spec => FailedUpdateRestores
<1>1. ASSUME TypeOK, LostInv, [Next]_vars
      PROVE  \A r \in Requests :
               /\ req[r].op \in {"update", "secrets"} /\ Active(r) /\ req'[r].pc = "failed"
               /\ r \notin stale
               /\ req[r].op = "update" => req[r].known \/ req[r].pc = "store"
               => row' = req[r].base
  BY <1>1, WhoMoves, StepKeeps DEF KeepsColumns, Active, Ended
<1> QED
  BY <1>1, LostInvHolds, PTL DEF Spec, FailedUpdateRestores

-----------------------------------------------------------------------------
(* The autoscaler *)

(* What the autoscaler of the cluster has to do with the row, while a      *)
(* request that nobody overlaps is under way.                              *)
HpaOf(r) ==
  /\ row.there /\ req[r].app.there /\ (req[r].known => req[r].old.there)
  /\ req[r].op = "update" =>
       /\ req[r].pc \in {"old", "store", "hpa", "apply", "after", "undo"}
       /\ req[r].in.hpa = "keep" => req[r].app.hpa = req[r].base.hpa
       /\ req[r].in.hpa # "keep" => req[r].app.hpa = (req[r].in.hpa = "on")
       /\ req[r].pc = "hpa" => req[r].in.hpa # "keep"
       /\ req[r].known => req[r].old.hpa = req[r].base.hpa
       /\ req[r].pc \in {"old", "store"} => row.hpa = req[r].base.hpa
       /\ req[r].pc \in {"old", "store", "hpa", "undo"} => (k8s.hpa => req[r].base.hpa)
       /\ req[r].pc \in {"hpa", "apply", "after"} => row.hpa = req[r].app.hpa
       /\ req[r].pc \in {"apply", "after"} => (k8s.hpa => req[r].app.hpa)
  /\ req[r].op # "update" => (k8s.hpa => row.hpa)
  /\ req[r].op \in {"scale", "env", "secrets", "webhook", "stop"} => req[r].app.hpa = row.hpa
  /\ req[r].op = "redeploy" /\ req[r].pc # "mark" => req[r].app.hpa = row.hpa
  /\ req[r].op = "redeploy" /\ req[r].pc = "hpa" => req[r].app.hpa
  /\ req[r].op = "stop" /\ req[r].pc # "hpa" => ~ k8s.hpa
  /\ req[r].op = "stop" /\ req[r].pc = "finish" => k8s.reps = 0

HpaInv ==
  /\ held => ~ drift /\ ~ k8s.hpa /\ k8s.reps = 0 /\ \A r \in Requests : ~ Active(r)
  /\ ~ drift =>
       /\ \A q, r \in Requests : Active(q) /\ Active(r) => q = r
       /\ (\A r \in Requests : ~ Active(r)) => (k8s.hpa => row.hpa)
       /\ \A r \in Requests : Active(r) => HpaOf(r)
(* What a step of r keeps, r being the only request that is active.        *)
HpaKept(r) ==
  /\ Active(r)' => HpaOf(r)'
  /\ ~ Active(r)' => (k8s'.hpa => row'.hpa)
  /\ held' => held \/ (~ k8s'.hpa /\ k8s'.reps = 0 /\ ~ Active(r)' /\ ~ drift')

LEMMA ClusterParts ==
  ASSUME NEW k \in Cluster
  PROVE  /\ \A h : [k EXCEPT !.hpa = h].hpa = h /\ [k EXCEPT !.hpa = h].reps = k.reps
         /\ Rolled(k).hpa = k.hpa /\ \A n : [k EXCEPT !.reps = n].hpa = k.hpa
         /\ \A n : [k EXCEPT !.reps = n].reps = n
         /\ \A x : [k EXCEPT !.sec = x].hpa = k.hpa /\ Rolled([k EXCEPT !.env = x]).hpa = k.hpa
         /\ \A x : [k EXCEPT !.there = x].hpa = k.hpa
         /\ \A p : [k EXCEPT !.pods = p].hpa = k.hpa /\ [k EXCEPT !.pods = p].reps = k.reps
BY DEF Cluster, Rolled

LEMMA DeployKeepsHpa ==
  ASSUME TypeOK, NEW a
  PROVE  /\ Deploys(a) => k8s'.hpa = k8s.hpa
         /\ DeployFails(a) => k8s'.hpa = k8s.hpa
BY DEF Deploys, DeployFails, DeployObject, Rolled, TypeOK, Cluster

LEMMA HpaEnds ==
  ASSUME TypeOK, NEW r \in Requests, NEW pc \in {"failed", "done"}, Goto(r, pc), held' = held,
         k8s'.hpa => row'.hpa
  PROVE  HpaKept(r)
<1>1. req'[r].pc = pc
  BY GotoEffect DEF PC
<1>2. ~ Active(r)'
  BY <1>1 DEF Active, Ended
<1> QED
  BY <1>2 DEF HpaKept

LEMMA UpdateHpa ==
  ASSUME TypeOK, NEW r \in Requests, HpaOf(r), ~ drift',
         UpdateReadOld(r) \/ UpdateStore(r) \/ UpdateHPA(r) \/ UpdateApply(r)
         \/ UpdateAfter(r) \/ UpdateUndo(r)
  PROVE  HpaKept(r)
<1>1. /\ req[r] \in Request /\ req \in [Requests -> Request] /\ req[r].op = "update" /\ row \in Application
      /\ req[r].app \in Application /\ req[r].base \in Application /\ req[r].old \in Application
      /\ req[r].in \in [runtime : BOOLEAN, hpa : {"keep", "on", "off"}]
      /\ k8s \in Cluster /\ held' = held
  BY Fields DEF TypeOK, At, UpdateReadOld, UpdateStore, UpdateHPA, UpdateApply, UpdateAfter, UpdateUndo
<1>2. /\ row.there /\ req[r].app.there /\ (req[r].known => req[r].old.there)
      /\ req[r].in.hpa = "keep" => req[r].app.hpa = req[r].base.hpa
      /\ req[r].in.hpa # "keep" => req[r].app.hpa = (req[r].in.hpa = "on")
      /\ req[r].pc = "hpa" => req[r].in.hpa # "keep"
      /\ req[r].known => req[r].old.hpa = req[r].base.hpa
      /\ req[r].pc \in {"old", "store"} => row.hpa = req[r].base.hpa
      /\ req[r].pc \in {"old", "store", "hpa", "undo"} => (k8s.hpa => req[r].base.hpa)
      /\ req[r].pc \in {"hpa", "apply", "after"} => row.hpa = req[r].app.hpa
      /\ req[r].pc \in {"apply", "after"} => (k8s.hpa => req[r].app.hpa)
  BY <1>1 DEF HpaOf
<1>3. ASSUME NEW pc \in PC \ {"failed", "done"}, Goto(r, pc), pc \in {"hpa", "apply", "after", "undo"},
             row'.there, pc = "hpa" => req[r].in.hpa # "keep",
             pc \in {"hpa", "undo"} => (k8s'.hpa => req[r].base.hpa),
             pc \in {"hpa", "apply", "after"} => row'.hpa = req[r].app.hpa,
             pc \in {"apply", "after"} => (k8s'.hpa => req[r].app.hpa)
      PROVE  HpaKept(r)
  <2>1. /\ req'[r].op = "update" /\ req'[r].pc = pc /\ req'[r].app = req[r].app
        /\ req'[r].base = req[r].base /\ req'[r].in = req[r].in /\ req'[r].old = req[r].old
        /\ req'[r].known = req[r].known
    BY <1>1, <1>3, GotoEffect
  <2>2. HpaOf(r)'
    BY <1>2, <1>3, <2>1 DEF HpaOf
  <2>3. Active(r)'
    BY <1>3, <2>1 DEF Active, Ended
  <2> QED
    BY <1>1, <2>2, <2>3 DEF HpaKept
<1>4. CASE UpdateReadOld(r)
  <2>1. /\ req'[r].op = "update" /\ req'[r].pc = "store" /\ row' = row /\ k8s' = k8s
        /\ req'[r].app = req[r].app /\ req'[r].base = req[r].base /\ req'[r].in = req[r].in
        /\ req'[r].known => req'[r].old = row
    BY <1>1, <1>4 DEF UpdateReadOld, Kept, Request
  <2>2. req[r].pc = "old"
    BY <1>4 DEF UpdateReadOld, At
  <2>3. HpaOf(r)'
    BY <1>2, <2>1, <2>2 DEF HpaOf
  <2>4. Active(r)'
    BY <2>1 DEF Active, Ended
  <2> QED
    BY <1>1, <2>3, <2>4 DEF HpaKept
<1>5. CASE UpdateStore(r)
  <2>1. req[r].pc = "store" /\ k8s' = k8s /\ AfterStore(r) \in {"hpa", "apply", "done"}
    BY <1>5 DEF UpdateStore, At, AfterStore
  <2>2. CASE Write(r, req[r].app) /\ Goto(r, AfterStore(r))
    <3>1. row' = req[r].app
      BY <1>1, <1>2, <2>2, WriteKeeps
    <3>2. (AfterStore(r) # "hpa") <=> (req[r].in.hpa = "keep")
      BY DEF AfterStore
    <3>3. CASE AfterStore(r) = "done"
      BY <1>1, <1>2, <2>1, <2>2, <3>1, <3>2, <3>3, HpaEnds
    <3>4. CASE AfterStore(r) # "done"
      BY <1>2, <1>3, <2>1, <2>2, <3>1, <3>2, <3>4 DEF PC
    <3> QED
      BY <3>3, <3>4
  <2>3. CASE Kept /\ Goto(r, "failed")
    BY <1>1, <1>2, <2>1, <2>3, HpaEnds DEF Kept
  <2> QED
    BY <1>5, <2>2, <2>3 DEF UpdateStore
<1>6. CASE UpdateHPA(r)
  <2>1. row' = row /\ req[r].pc = "hpa"
    BY <1>6 DEF UpdateHPA, At, Kept
  <2>2. CASE /\ IF req[r].in.hpa = "on" THEN ConfigureHPA ELSE DeleteHPA
             /\ \E pc \in {"apply", "done"} : Goto(r, pc)
    <3>1. ConfigureHPA => k8s'.hpa = TRUE
      BY <1>1, ClusterParts DEF ConfigureHPA
    <3>2. DeleteHPA => k8s'.hpa = FALSE
      BY <1>1, ClusterParts DEF DeleteHPA
    <3>3. k8s'.hpa => req[r].app.hpa
      BY <1>2, <2>1, <2>2, <3>1, <3>2
    <3>4. ASSUME Goto(r, "done") PROVE HpaKept(r)
      BY <1>1, <1>2, <2>1, <3>3, <3>4, HpaEnds
    <3>5. ASSUME Goto(r, "apply") PROVE HpaKept(r)
      BY <1>2, <1>3, <2>1, <3>3, <3>5 DEF PC
    <3> QED
      BY <2>2, <3>4, <3>5
  <2>3. CASE UNCHANGED k8s /\ Goto(r, "undo")
    BY <1>2, <1>3, <2>1, <2>3 DEF PC
  <2>4. \/ UNCHANGED k8s /\ Goto(r, "undo")
        \/ /\ IF req[r].in.hpa = "on" THEN ConfigureHPA ELSE DeleteHPA
           /\ \E pc \in {"apply", "done"} : Goto(r, pc)
    BY <1>6 DEF UpdateHPA
  <2> QED
    BY <2>2, <2>3, <2>4
<1>7. CASE UpdateApply(r)
  <2>1. row' = row /\ req[r].pc = "apply" /\ k8s'.hpa = k8s.hpa
    BY <1>7, DeployKeepsHpa DEF UpdateApply, At, Kept
  <2>2. CASE Goto(r, "after")
    BY <1>2, <1>3, <2>1, <2>2 DEF PC
  <2>3. CASE Goto(r, "undo") /\ drift' = (drift \/ req[r].in.hpa # "keep")
    BY <1>2, <1>3, <2>1, <2>3 DEF PC
  <2> QED
    BY <1>7, <2>2, <2>3 DEF UpdateApply
<1>8. CASE UpdateAfter(r)
  <2>1. row' = req[r].app /\ Goto(r, "done") /\ req[r].pc = "after" /\ k8s' = k8s
    BY <1>1, <1>2, <1>8, WriteKeeps DEF UpdateAfter, At
  <2> QED
    BY <1>1, <1>2, <2>1, HpaEnds
<1>9. CASE UpdateUndo(r)
  <2>1. req[r].known /\ Goto(r, "failed") /\ req[r].pc = "undo" /\ k8s' = k8s
    BY <1>9 DEF UpdateUndo, At
  <2>2. row' = req[r].old
    BY <1>1, <1>2, <1>9, <2>1, WriteKeeps DEF UpdateUndo, Before
  <2> QED
    BY <1>1, <1>2, <2>1, <2>2, HpaEnds
<1> QED
  BY <1>4, <1>5, <1>6, <1>7, <1>8, <1>9

(* A request other than an Update goes on.                                 *)
LEMMA HpaGoesOn ==
  ASSUME TypeOK, NEW r \in Requests, HpaOf(r), req[r].op # "update",
         NEW pc \in PC \ {"failed", "done", "idle"}, Goto(r, pc), held' = held,
         row'.there, row'.hpa = row.hpa, k8s'.hpa => row'.hpa,
         req[r].op = "redeploy" => req[r].pc # "mark" /\ (pc = "hpa" => req[r].app.hpa),
         req[r].op = "stop" => ~ k8s'.hpa /\ (pc = "finish" => k8s'.reps = 0)
  PROVE  HpaKept(r)
<1>1. /\ req'[r].pc = pc /\ req'[r].op = req[r].op /\ req'[r].app = req[r].app
      /\ req'[r].old = req[r].old /\ req'[r].known = req[r].known
  BY GotoEffect
<1>2. HpaOf(r)'
  BY <1>1 DEF HpaOf
<1>3. Active(r)'
  BY <1>1 DEF Active, Ended
<1> QED
  BY <1>2, <1>3 DEF HpaKept

LEMMA SettingsHpa ==
  ASSUME TypeOK, NEW r \in Requests, HpaOf(r),
         ScaleApply(r) \/ StoreSettings(r) \/ EnvApply(r) \/ SecretsApply(r) \/ SecretsUndo(r)
  PROVE  HpaKept(r)
<1>1. /\ req[r] \in Request /\ req \in [Requests -> Request] /\ row \in Application
      /\ req[r].app \in Application /\ req[r].base \in Application /\ k8s \in Cluster
  BY Fields DEF TypeOK
<1>2. /\ req[r].op \in {"scale", "env", "secrets", "webhook"} /\ held' = held
      /\ req[r].pc # "idle"
  BY DEF ScaleApply, StoreSettings, EnvApply, SecretsApply, SecretsUndo, At
<1>3. /\ row.there /\ req[r].app.there /\ (k8s.hpa => row.hpa) /\ req[r].app.hpa = row.hpa
      /\ (req[r].known => req[r].old.there)
  BY <1>2 DEF HpaOf
<1>4. CASE ScaleApply(r)
  <2>1. req[r].op = "scale" /\ row' = row /\ k8s'.hpa = k8s.hpa
    <3>1. \A n : [k8s EXCEPT !.reps = n].hpa = k8s.hpa
      BY <1>1, ClusterParts
    <3> QED
      BY <1>4, <3>1 DEF ScaleApply, ScaleWorks, ScaleFails, Scaled, At, Kept
  <2>2. ASSUME req' = [req EXCEPT ![r].app.reps = req[r].reps, ![r].pc = "store"] PROVE HpaKept(r)
    <3>1. /\ req'[r].op = "scale" /\ req'[r].pc = "store"
          /\ req'[r].app = [req[r].app EXCEPT !.reps = req[r].reps]
          /\ req'[r].old = req[r].old /\ req'[r].known = req[r].known
      BY <1>1, <2>1, <2>2 DEF Request
    <3>2. req'[r].app.hpa = req[r].app.hpa /\ req'[r].app.there = req[r].app.there
      BY <1>1, <3>1 DEF Application
    <3>3. HpaOf(r)'
      BY <1>3, <2>1, <3>1, <3>2 DEF HpaOf
    <3>4. Active(r)'
      BY <3>1 DEF Active, Ended
    <3> QED
      BY <1>2, <3>3, <3>4 DEF HpaKept
  <2>3. CASE Goto(r, "failed")
    BY <1>2, <1>3, <2>1, <2>3, HpaEnds
  <2> QED
    BY <1>4, <2>2, <2>3 DEF ScaleApply
<1>5. CASE StoreSettings(r)
  <2>1. k8s' = k8s /\ AfterSettings(r) \in {"apply", "done"}
    BY <1>5 DEF StoreSettings, AfterSettings
  <2>2. CASE Write(r, req[r].app) /\ Goto(r, AfterSettings(r))
    <3>1. row' = req[r].app
      BY <1>1, <1>3, <2>2, WriteKeeps
    <3>2. CASE AfterSettings(r) = "done"
      BY <1>2, <1>3, <2>1, <2>2, <3>1, <3>2, HpaEnds
    <3>3. CASE AfterSettings(r) = "apply"
      BY <1>2, <1>3, <2>1, <2>2, <3>1, <3>3, HpaGoesOn DEF PC
    <3> QED
      BY <2>1, <3>2, <3>3
  <2>3. CASE Kept /\ Goto(r, "failed")
    BY <1>2, <1>3, <2>1, <2>3, HpaEnds DEF Kept
  <2> QED
    BY <1>5, <2>2, <2>3 DEF StoreSettings
<1>6. CASE EnvApply(r)
  <2>1. row' = row /\ k8s'.hpa = k8s.hpa
    <3>1. \A x : Rolled([k8s EXCEPT !.env = x]).hpa = k8s.hpa
      BY <1>1, ClusterParts
    <3> QED
      BY <1>6, <3>1 DEF EnvApply, Annotated, ScaleFails, Kept
  <2>2. \E pc \in {"failed", "done"} : Goto(r, pc)
    BY <1>6 DEF EnvApply
  <2> QED
    BY <1>2, <1>3, <2>1, <2>2, HpaEnds
<1>7. CASE SecretsApply(r)
  <2>1. row' = row /\ k8s'.hpa = k8s.hpa
    <3>1. \A x : [k8s EXCEPT !.sec = x].hpa = k8s.hpa
      BY <1>1, ClusterParts
    <3> QED
      BY <1>7, <3>1 DEF SecretsApply, EnsureSecret, Kept
  <2>2. CASE Goto(r, "done")
    BY <1>2, <1>3, <2>1, <2>2, HpaEnds
  <2>3. CASE Goto(r, "undo")
    BY <1>2, <1>3, <2>1, <2>3, HpaGoesOn DEF PC
  <2> QED
    BY <1>7, <2>2, <2>3 DEF SecretsApply
<1>8. CASE SecretsUndo(r)
  <2>1. Goto(r, "failed") /\ k8s' = k8s
    BY <1>8 DEF SecretsUndo
  <2>2. row' = [req[r].app EXCEPT !.sec = req[r].base.sec]
    <3>1. [req[r].app EXCEPT !.sec = req[r].base.sec] \in Application
      BY <1>1, Columns
    <3> QED
      BY <1>3, <1>8, <3>1, WriteKeeps DEF SecretsUndo
  <2>3. row'.hpa = req[r].app.hpa
    BY <1>1, <2>2 DEF Application
  <2> QED
    BY <1>2, <1>3, <2>1, <2>3, HpaEnds
<1> QED
  BY <1>4, <1>5, <1>6, <1>7, <1>8

LEMMA StatusOnly ==
  ASSUME TypeOK, NEW r \in Requests, NEW st \in AppStatus, WriteStatus(r, st)
  PROVE  row'.hpa = row.hpa /\ row'.there = row.there
BY DEF WriteStatus, Write, TypeOK, Application

(* Once Stop has suspended the autoscaler nothing brings it back; the      *)
(* other marks leave it alone.                                             *)
LEMMA MarksHpa ==
  ASSUME TypeOK, NEW r \in Requests, HpaOf(r), Marks(r), ~ drift
  PROVE  HpaKept(r)
<1>1. /\ req[r] \in Request /\ req \in [Requests -> Request] /\ row \in Application
      /\ req[r].app \in Application /\ k8s \in Cluster
      /\ {"mark", "apply", "finish", "undo"} \subseteq PC \ {"failed", "done", "idle"}
      /\ {"restarting", "stopping", "stopped", "error", "running"} \subseteq AppStatus
  BY Fields DEF TypeOK, PC, AppStatus
<1>2. req[r].op \in {"restart", "stop", "delete", "rollback"} /\ drift' = drift
  BY DEF Marks, MarkRestarting, RestartApply, StopHPA, MarkStopping, StopApply,
     MarkStopped, MarkError, CutShort, DeleteApply, DeleteRow, RollbackApply, RollbackMark, At
<1>3. /\ row.there /\ (k8s.hpa => row.hpa)
      /\ req[r].op = "stop" => req[r].app.hpa = row.hpa
      /\ req[r].op = "stop" /\ req[r].pc # "hpa" => ~ k8s.hpa
      /\ req[r].op = "stop" /\ req[r].pc = "finish" => k8s.reps = 0
  BY <1>2 DEF HpaOf
<1>4. CASE MarkRestarting(r) \/ MarkStopping(r)
  <2>1. k8s' = k8s /\ held' = held /\ Goto(r, "apply")
        /\ (req[r].op = "stop" => req[r].pc = "mark")
    BY <1>4 DEF MarkRestarting, MarkStopping, At
  <2>2. row'.hpa = row.hpa /\ row'.there = row.there
    BY <1>1, <1>4, StatusOnly DEF MarkRestarting, MarkStopping
  <2> QED
    BY <1>1, <1>2, <1>3, <2>1, <2>2, HpaGoesOn
<1>5. CASE RestartApply(r) \/ RollbackApply(r)
  <2>1. row' = row /\ held' = held /\ k8s'.hpa = k8s.hpa
        /\ req[r].op \in {"restart", "rollback"}
    BY <1>1, <1>5, ClusterParts DEF RestartApply, RollbackApply, Annotated, ScaleFails, Kept, At
  <2>2. Goto(r, "done") \/ Goto(r, "undo") \/ Goto(r, "finish") \/ Goto(r, "failed")
    BY <1>5 DEF RestartApply, RollbackApply
  <2>3. CASE Goto(r, "done") \/ Goto(r, "failed")
    BY <1>3, <2>1, <2>3, HpaEnds
  <2>4. CASE Goto(r, "undo") \/ Goto(r, "finish")
    BY <1>1, <1>3, <2>1, <2>4, HpaGoesOn
  <2> QED
    BY <2>2, <2>3, <2>4
<1>6. CASE StopHPA(r)
  <2>1. row' = row /\ held' = held /\ req[r].op = "stop"
    BY <1>6 DEF StopHPA, Kept, At
  <2>2. CASE Goto(r, "failed") /\ UNCHANGED k8s
    BY <1>3, <2>1, <2>2, HpaEnds
  <2>3. CASE Goto(r, "mark") /\ (DeleteHPA \/ (~ req[r].app.hpa /\ UNCHANGED k8s))
    <3>1. DeleteHPA => k8s'.hpa = FALSE
      BY <1>1, ClusterParts DEF DeleteHPA
    <3>2. ~ k8s'.hpa
      BY <1>3, <2>1, <2>3, <3>1
    <3> QED
      BY <1>1, <1>3, <2>1, <2>3, <3>2, HpaGoesOn
  <2> QED
    BY <1>6, <2>2, <2>3 DEF StopHPA, SuspendHPA
<1>7. CASE StopApply(r)
  <2>1. row' = row /\ held' = held /\ req[r].op = "stop" /\ ~ k8s.hpa
    BY <1>3, <1>7 DEF StopApply, Kept, At
  <2>2. CASE ScaleWorks(0) /\ Goto(r, "finish")
    <3>1. \A n : [k8s EXCEPT !.reps = n].hpa = k8s.hpa /\ [k8s EXCEPT !.reps = n].reps = n
      BY <1>1, ClusterParts
    <3>2. ~ k8s'.hpa /\ k8s'.reps = 0
      BY <2>1, <2>2, <3>1 DEF ScaleWorks, Scaled
    <3> QED
      BY <1>1, <1>3, <2>1, <2>2, <3>2, HpaGoesOn
  <2>3. CASE UNCHANGED k8s /\ Goto(r, "undo")
    BY <1>1, <1>3, <2>1, <2>3, HpaGoesOn
  <2> QED
    BY <1>7, <2>2, <2>3 DEF StopApply, ScaleFails
<1>8. CASE MarkStopped(r)
  <2>1. Goto(r, "done") /\ k8s' = k8s /\ ~ k8s.hpa /\ k8s.reps = 0
    BY <1>3, <1>8 DEF MarkStopped, At
  <2>2. req'[r].pc = "done"
    BY <2>1, GotoEffect DEF PC
  <2> QED
    BY <1>2, <2>1, <2>2 DEF HpaKept, Active, Ended
<1>9. CASE MarkError(r) \/ RollbackMark(r)
  <2>1. k8s' = k8s /\ held' = held /\ (Goto(r, "failed") \/ Goto(r, "done"))
    BY <1>9 DEF MarkError, RollbackMark
  <2>2. row'.hpa = row.hpa
    BY <1>1, <1>9, StatusOnly DEF MarkError, RollbackMark
  <2> QED
    BY <1>3, <2>1, <2>2, HpaEnds
<1>10. CASE CutShort(r)
  BY <1>3, <1>10, HpaEnds DEF CutShort, Kept
<1>11. CASE DeleteApply(r)
  <2>1. row' = row /\ held' = held /\ Goto(r, "finish") /\ req[r].op = "delete"
    BY <1>11 DEF DeleteApply, Kept, At
  <2>2. k8s'.hpa = k8s.hpa
    <3>1. [k8s EXCEPT !.there = FALSE].hpa = k8s.hpa
      BY <1>1 DEF Cluster
    <3> QED
      BY <1>11, <3>1 DEF DeleteApply, DeleteObjects
  <2> QED
    BY <1>1, <1>3, <2>1, <2>2, HpaGoesOn
<1>12. CASE DeleteRow(r)
  <2>1. k8s' = k8s /\ held' = held /\ Goto(r, "done")
    BY <1>12 DEF DeleteRow
  <2>2. row'.hpa = row.hpa
    BY <1>1, <1>12 DEF DeleteRow, Write, Application
  <2> QED
    BY <1>3, <2>1, <2>2, HpaEnds
<1> QED
  BY <1>4, <1>5, <1>6, <1>7, <1>8, <1>9, <1>10, <1>11, <1>12 DEF Marks

LEMMA RedeployHpa ==
  ASSUME TypeOK, NEW r \in Requests, HpaOf(r),
         RedeployMark(r) \/ RedeployApply(r) \/ RedeployMarkRunning(r) \/ RedeployStore(r)
         \/ RedeployHPA(r) \/ RedeployFails(r)
  PROVE  HpaKept(r)
<1>1. /\ req[r] \in Request /\ req \in [Requests -> Request] /\ row \in Application
      /\ req[r].app \in Application /\ k8s \in Cluster /\ held' = held /\ req[r].op = "redeploy"
      /\ {"apply", "finish", "store", "hpa", "undo"} \subseteq PC \ {"failed", "done", "idle"}
      /\ {"building", "error", "running"} \subseteq AppStatus
  BY Fields DEF TypeOK, PC, AppStatus, RedeployMark, RedeployApply, RedeployMarkRunning,
     RedeployStore, RedeployHPA, RedeployFails, At
<1>2. /\ row.there /\ req[r].app.there /\ (k8s.hpa => row.hpa)
      /\ (req[r].known => req[r].old.there)
      /\ req[r].pc # "mark" => req[r].app.hpa = row.hpa
      /\ req[r].pc = "hpa" => req[r].app.hpa
  BY <1>1 DEF HpaOf
<1>3. CASE RedeployMark(r)
  <2>1. row' = [row EXCEPT !.status = "building"] /\ k8s' = k8s
    BY <1>2, <1>3 DEF RedeployMark, WriteStatus, Write
  <2>2. /\ req'[r].op = "redeploy" /\ req'[r].pc = "apply"
        /\ req'[r].app = [row EXCEPT !.status = "building"]
        /\ req'[r].old = req[r].old /\ req'[r].known = req[r].known
    BY <1>1, <1>3 DEF RedeployMark, Request
  <2>3. /\ row'.hpa = row.hpa /\ row'.there = row.there
        /\ req'[r].app.hpa = row.hpa /\ req'[r].app.there = row.there
    BY <1>1, <2>1, <2>2 DEF Application
  <2>4. HpaOf(r)'
    BY <1>2, <2>1, <2>2, <2>3 DEF HpaOf
  <2>5. Active(r)'
    BY <2>2 DEF Active, Ended
  <2> QED
    BY <1>1, <2>4, <2>5 DEF HpaKept
<1>4. CASE RedeployApply(r)
  <2>1. row' = row /\ req[r].pc = "apply" /\ k8s'.hpa = k8s.hpa
    BY <1>4, DeployKeepsHpa DEF RedeployApply, Kept, At
  <2>2. Goto(r, "finish") \/ Goto(r, "undo")
    BY <1>4 DEF RedeployApply
  <2> QED
    BY <1>1, <1>2, <2>1, <2>2, HpaGoesOn
<1>5. CASE RedeployMarkRunning(r)
  <2>1. k8s' = k8s /\ req[r].pc = "finish" /\ Goto(r, "store")
    BY <1>5 DEF RedeployMarkRunning, At
  <2>2. row'.hpa = row.hpa /\ row'.there = row.there
    BY <1>1, <1>5, StatusOnly DEF RedeployMarkRunning
  <2> QED
    BY <1>1, <1>2, <2>1, <2>2, HpaGoesOn
<1>6. CASE RedeployStore(r)
  <2>1. row' = req[r].app /\ k8s' = k8s /\ req[r].pc = "store"
    BY <1>1, <1>2, <1>6, WriteKeeps DEF RedeployStore, At
  <2>2. CASE req[r].app.hpa /\ Goto(r, "hpa")
    BY <1>1, <1>2, <2>1, <2>2, HpaGoesOn
  <2>3. CASE Goto(r, "done")
    BY <1>1, <1>2, <2>1, <2>3, HpaEnds
  <2> QED
    BY <1>6, <2>2, <2>3 DEF RedeployStore
<1>7. CASE RedeployHPA(r)
  <2>1. row' = row /\ req[r].pc = "hpa" /\ Goto(r, "done")
    BY <1>7 DEF RedeployHPA, Kept, At
  <2> QED
    BY <1>1, <1>2, <2>1, HpaEnds
<1>8. CASE RedeployFails(r)
  <2>1. k8s' = k8s /\ Goto(r, "failed")
    BY <1>8 DEF RedeployFails
  <2>2. row'.hpa = row.hpa
    BY <1>1, <1>8, StatusOnly DEF RedeployFails
  <2> QED
    BY <1>1, <1>2, <2>1, <2>2, HpaEnds
<1> QED
  BY <1>3, <1>4, <1>5, <1>6, <1>7, <1>8

LEMMA StepHpa ==
  ASSUME TypeOK, NEW r \in Requests, HpaOf(r), Step(r), ~ drift'
  PROVE  HpaKept(r) /\ ~ drift
<1>1. ~ drift
  BY DEF Step, UpdateReadOld, UpdateStore, UpdateHPA, UpdateApply,
     UpdateAfter, UpdateUndo, ScaleApply, StoreSettings, EnvApply, SecretsApply, SecretsUndo,
     MarkRestarting, RestartApply, StopHPA, MarkStopping, StopApply, MarkStopped, MarkError,
     CutShort, DeleteApply, DeleteRow, RollbackApply, RollbackMark, RedeployMark, RedeployApply,
     RedeployMarkRunning, RedeployStore, RedeployHPA, RedeployFails
<1>2. CASE UpdateReadOld(r) \/ UpdateStore(r) \/ UpdateHPA(r) \/ UpdateApply(r)
           \/ UpdateAfter(r) \/ UpdateUndo(r)
  BY <1>1, <1>2, UpdateHpa
<1>3. CASE ScaleApply(r) \/ StoreSettings(r) \/ EnvApply(r) \/ SecretsApply(r) \/ SecretsUndo(r)
  BY <1>1, <1>3, SettingsHpa
<1>4. CASE Marks(r)
  BY <1>1, <1>4, MarksHpa
<1>5. CASE RedeployMark(r) \/ RedeployApply(r) \/ RedeployMarkRunning(r) \/ RedeployStore(r)
           \/ RedeployHPA(r) \/ RedeployFails(r)
  BY <1>1, <1>5, RedeployHpa
<1> QED
  BY <1>2, <1>3, <1>4, <1>5 DEF Step, Marks

LEMMA DriftStays ==
  ASSUME TypeOK, NEW r \in Requests, Step(r)
  PROVE  /\ drift => drift'
         /\ held' => held \/ (MarkStopped(r) /\ ~ drift')
<1>1. drift => drift'
  BY DEF Step, UpdateReadOld, UpdateStore, UpdateHPA, UpdateApply,
     UpdateAfter, UpdateUndo, ScaleApply, StoreSettings, EnvApply, SecretsApply, SecretsUndo,
     MarkRestarting, RestartApply, StopHPA, MarkStopping, StopApply, MarkStopped, MarkError,
     CutShort, DeleteApply, DeleteRow, RollbackApply, RollbackMark, RedeployMark, RedeployApply,
     RedeployMarkRunning, RedeployStore, RedeployHPA, RedeployFails
<1>2. CASE MarkStopped(r)
  BY <1>1, <1>2 DEF MarkStopped
<1>3. CASE ~ MarkStopped(r)
  <2>1. held' = held
    BY <1>3 DEF Step, UpdateReadOld, UpdateStore, UpdateHPA, UpdateApply,
       UpdateAfter, UpdateUndo, ScaleApply, StoreSettings, EnvApply, SecretsApply, SecretsUndo,
       MarkRestarting, RestartApply, StopHPA, MarkStopping, StopApply, MarkError,
       CutShort, DeleteApply, DeleteRow, RollbackApply, RollbackMark, RedeployMark, RedeployApply,
       RedeployMarkRunning, RedeployStore, RedeployHPA, RedeployFails
  <2> QED
    BY <1>1, <2>1
<1> QED
  BY <1>2, <1>3

LEMMA BeginHpa ==
  ASSUME TypeOK, HpaInv, NEW r \in Requests, Begin(r), ~ drift'
  PROVE  HpaOf(r)' /\ \A q \in Requests : ~ Active(q)
<1>1. /\ row \in Application /\ row.there /\ row' = row /\ k8s' = k8s
      /\ ~ drift /\ \A q \in Requests : ~ Active(q)
  BY DEF Begin, Kept, TypeOK
<1>2. k8s.hpa => row.hpa
  BY <1>1 DEF HpaInv
<1>3. PICK op \in Ops, in \in Inputs, n \in {0, 2} :
        req' = [req EXCEPT ![r] =
            [op |-> op, pc |-> First(op), in |-> in, reps |-> n,
             app |-> OnCopy(r, op, row, in), base |-> row, old |-> Deployed,
             known |-> FALSE]]
  BY DEF Begin
<1>4. /\ req'[r].op = op /\ req'[r].pc = First(op) /\ req'[r].in = in
      /\ req'[r].app = OnCopy(r, op, row, in) /\ req'[r].base = row /\ ~ req'[r].known
  BY <1>3 DEF TypeOK
<1>5. in \in [runtime : BOOLEAN, hpa : {"keep", "on", "off"}]
  BY LifecycleAssumption
<1>6. CASE op = "update"
  <2>1. req'[r].app = Edited(r, row, in) /\ req'[r].pc = "old"
    BY <1>4, <1>6 DEF OnCopy, First
  <2>2. /\ req'[r].app.there
        /\ in.hpa = "keep" => req'[r].app.hpa = row.hpa
        /\ in.hpa # "keep" => req'[r].app.hpa = (in.hpa = "on")
    BY <1>1, <1>5, <2>1 DEF Edited, Application
  <2> QED
    BY <1>1, <1>2, <1>4, <1>6, <2>1, <2>2 DEF HpaOf
<1>7. CASE op # "update"
  <2>1. OnCopy(r, op, row, in).hpa = row.hpa /\ OnCopy(r, op, row, in).there
    BY <1>1, <1>7 DEF OnCopy, WithEnv, WithSecrets, WithWebhook, Application
  <2>2. (op = "stop" => First(op) = "hpa") /\ (op = "redeploy" => First(op) = "mark")
    BY DEF First
  <2> QED
    BY <1>1, <1>2, <1>4, <1>7, <2>1, <2>2 DEF HpaOf
<1> QED
  BY <1>1, <1>6, <1>7

LEMMA HpaInvStep ==
  ASSUME TypeOK, HpaInv, Next
  PROVE  HpaInv'
<1>1. ASSUME NEW r \in Requests, Begin(r) PROVE HpaInv'
  <2>1. ~ held'
    BY <1>1 DEF Begin
  <2>2. ASSUME ~ drift' PROVE HpaOf(r)' /\ \A q \in Requests \ {r} : ~ Active(q)'
    BY <1>1, <2>2, BeginHpa, BeginFits DEF Active, Ended
  <2>3. Active(r)'
    <3>1. \A op : First(op) \notin {"idle", "failed", "done"}
      BY DEF First
    <3> QED
      BY <1>1, <3>1 DEF Begin, TypeOK, Active, Ended
  <2> QED
    BY <2>1, <2>2, <2>3 DEF HpaInv
<1>2. ASSUME NEW r \in Requests, Step(r) PROVE HpaInv'
  <2>1. Active(r) /\ \A q \in Requests \ {r} : req'[q] = req[q]
    BY <1>2, StepFrame
  <2>2. ~ held /\ (drift => drift') /\ (held' => ~ drift')
    BY <1>2, <2>1, DriftStays DEF HpaInv
  <2>3. CASE drift'
    BY <2>2, <2>3 DEF HpaInv
  <2>4. CASE ~ drift'
    <3>1. HpaOf(r) /\ \A q \in Requests \ {r} : ~ Active(q)
      BY <2>1, <2>2, <2>4 DEF HpaInv
    <3>2. HpaKept(r)
      BY <1>2, <2>4, <3>1, StepHpa
    <3>3. \A q \in Requests \ {r} : ~ Active(q)'
      BY <2>1, <3>1 DEF Active, Ended
    <3> QED
      BY <2>2, <2>4, <3>2, <3>3 DEF HpaKept, HpaInv
  <2> QED
    BY <2>3, <2>4
<1>3. ASSUME NEW p \in Pollers, Look(p) PROVE HpaInv'
  <2>1. k8s' = k8s /\ req' = req /\ drift' = drift /\ held' = held
    BY <1>3 DEF Look, PollRead, PollLook, PollWrite
  <2>2. row'.hpa = row.hpa /\ row'.there = row.there
    BY <1>3 DEF Look, PollRead, PollLook, PollWrite, Kept, TypeOK, Application
  <2> QED
    BY <2>1, <2>2 DEF HpaInv, HpaOf, Active, Ended
<1>4. CASE PodsSettle \/ PodsTurn \/ Autoscale
  <2>1. row' = row /\ req' = req /\ drift' = drift /\ held' = held
    BY <1>4 DEF PodsSettle, PodsTurn, Autoscale, Kept
  <2>2. k8s'.hpa = k8s.hpa /\ (~ k8s.hpa => k8s'.reps = k8s.reps)
    BY <1>4 DEF PodsSettle, PodsTurn, Autoscale, TypeOK, Cluster
  <2> QED
    BY <2>1, <2>2 DEF HpaInv, HpaOf, Active, Ended
<1> QED
  BY <1>1, <1>2, <1>3, <1>4 DEF Next

(* A Stop that succeeded holds: nothing brings replicas back before the    *)
(* next request, as long as requests have come one after another and no    *)
(* failed Update has left an autoscaler behind.                            *)
THEOREM StopStays == Spec => []StopHolds
<1>1. Init => HpaInv
  BY DEF Init, HpaInv, Active, NoRequest
<1>2. TypeOK /\ HpaInv /\ [Next]_vars => HpaInv'
  <2>1. ASSUME HpaInv, UNCHANGED vars PROVE HpaInv'
    BY <2>1 DEF HpaInv, HpaOf, vars, Active, Ended
  <2> QED
    BY <2>1, HpaInvStep
<1>3. HpaInv => StopHolds
  BY DEF HpaInv, StopHolds
<1> QED
  BY <1>1, <1>2, <1>3, LifecycleTypeCorrect, PTL DEF Spec

-----------------------------------------------------------------------------
(* Backups: what their invariant is made of *)

Callers == Workers \cup Users
Mid == {"mark", "dump", "upload", "fail", "done"}
Ending == {"ack", "list", "prune", "forget"}
Final == {"completed", "failed"}

(* A call has a storage; a job has a backup whose message is hidden.       *)
CallTyped ==
  /\ \A c \in Callers : call[c].pc # "free" => call[c].bucket \in Buckets
  /\ \A c \in Callers :
       call[c].pc \in {"enqueue", "undo"} => call[c].b \in Backups /\ bak[call[c].b].st # "none"
  /\ \A w \in Workers : exec[w].pc = "idle" <=> exec[w].b = 0
  /\ \A w \in Workers : exec[w].pc # "idle" => exec[w].n \in 1..ReadCap
  /\ \A w \in Workers : exec[w].pc \in {"prune", "forget"} => exec[w].todo # {}
  /\ \A w \in Workers : exec[w].pc \in Mid => exec[w].bucket \in Buckets
QueueInv ==
  /\ \A b \in Backups : bak[b].st = "none" => queue[b].st = "unsent"
  /\ \A w \in Workers : exec[w].b \in Backups => queue[exec[w].b].st = "hidden"
  /\ \A v, w \in Workers : exec[v].b = exec[w].b /\ exec[v].b # 0 => v = w

(* The scheduled minutes *)
Quiet(m) == /\ \A b \in Backups : bak[b].at # m
            /\ \A c \in Callers : call[c].pc = "create" => call[c].at # m
Past ==
  /\ \A b \in Backups : bak[b].at <= clock
  /\ \A c \in Callers : call[c].at <= clock
Named == 
  /\ \A b \in Backups : bak[b].at # 0 => B!MatchField(Cron, B!Wall(bak[b].at))
  /\ \A c \in Callers : call[c].at # 0 => B!MatchField(Cron, B!Wall(call[c].at))
LeadInv == "deposed" \notin odd => \A w \in Workers : proc[w].leader => lock = w
OneLeads == "moved" \notin odd => \A v, w \in Workers : proc[v].leader /\ proc[w].leader => v = w
OnceInv ==
  B!Barring({"moved", "late"}) =>
    /\ \A w \in Workers : proc[w].leader /\ proc[w].ticks > 0 => Quiet(clock)
    /\ \A b, c \in Backups : bak[b].at # 0 /\ bak[b].at = bak[c].at => b = c
    /\ \A c \in Callers, b \in Backups : call[c].pc = "create" /\ call[c].at # 0 => bak[b].at # call[c].at
    /\ \A c, d \in Callers : call[c].pc = "create" /\ call[d].pc = "create" /\ call[c].at # 0
                              /\ call[c].at = call[d].at => c = d

(* A job that has not written the end of its backup works on one that is   *)
(* neither completed nor pruned.                                           *)
WorkInv ==
  \A w \in Workers : exec[w].pc \in Mid => bak[exec[w].b].st # "completed" /\ ~ bak[exec[w].b].gone
(* One that comes to its end has written it, or is halted.                 *)
EndInv ==
  "halted" \notin odd => \A w \in Workers : exec[w].pc \in Ending => bak[exec[w].b].st \in Final
Unbound == \A c \in Callers : call[c].pc \in {"free", "create"} => call[c].b = 0

(* What is listed for pruning is settled, and nobody works on it.          *)
Over(t) == bak[t].st \in Final /\ \A w \in Workers : exec[w].b = t => exec[w].pc \notin Mid
OverInv == \A w \in Workers : \A t \in exec[w].todo : Over(t)
(* A path belongs to one backup.                                           *)
PathInv ==
  B!Barring({"twin"}) =>
    /\ \A b \in Backups : bak[b].path = B!NoPath \/ bak[b].path[1] = b
    /\ \A w \in Workers : exec[w].path = B!NoPath \/ exec[w].path[1] = exec[w].b
Stored ==
  /\ \A b \in B!Listed \ B!Forgetting : bak[b].st = "completed" => <<bak[b].bucket, bak[b].path>> \in object
  /\ \A b \in Backups : bak[b].st = "completed" => bak[b].path # B!NoPath
  /\ \A w \in Workers : exec[w].pc \in {"upload", "done"} => exec[w].path # B!NoPath
  /\ \A w \in Workers : exec[w].pc = "done" => <<bak[exec[w].b].bucket, exec[w].path>> \in object
StoreInv == B!Barring({"reconfigured", "twin", "halfpruned"}) => Stored
(* A backup is pruned only while a newer one is kept.                      *)
Retained(b) == bak[b].st = "completed" /\ ~ bak[b].gone
OneIsKept ==
  /\ \A w \in Workers : \A t \in exec[w].todo : Retained(t) => \E c \in Backups : Retained(c) /\ c > t
  /\ (\E b \in Backups : bak[b].st = "completed") => \E b \in Backups : Retained(b)
LastInv == B!Barring({"crowded", "undone"}) => OneIsKept

-----------------------------------------------------------------------------
(* Backups: types *)

ExecPC == {"idle", "load", "mark", "dump", "upload", "fail", "done", "list", "prune", "forget",
           "ack", "nack"}
RowState == {"none", "queued", "running", "completed", "failed"}
Oddities == {"deposed", "moved", "late", "reconfigured", "twin", "halfpruned", "crowded", "undone",
             "halted"}

LEMMA NothingTyped ==
  /\ 0 \in 0..Minutes /\ 0 \in 0..ReadCap
  /\ B!NoBackup \in B!Backup /\ B!NoCall \in B!Call
  /\ cfg \in B!Config => B!NoExec \in B!Exec
<1>1. 0 \in 0..Minutes /\ 0 \in 0..ReadCap
  BY BackupsAssumption
<1>2. B!NoBackup \in B!Backup /\ B!NoCall \in B!Call
  BY <1>1 DEF B!NoBackup, B!Backup, B!NoCall, B!Call, B!NoPath, B!Path
<1>3. ASSUME cfg \in B!Config PROVE B!NoExec \in B!Exec
  <2>1. Keeps # {}
    BY <1>3 DEF B!Config
  <2>2. (CHOOSE k \in Keeps : TRUE) \in Keeps
    BY <2>1
  <2> QED
    BY <1>1, <2>2 DEF B!NoExec, B!Exec, B!NoPath, B!Path
<1> QED
  BY <1>1, <1>2, <1>3

LEMMA BackupsInit ==
  ASSUME B!Init
  PROVE  B!TypeOK /\ CallTyped /\ QueueInv
<1>1. bak \in [Backups -> B!Backup] /\ \A b \in Backups : bak[b].st = "none"
  BY NothingTyped DEF B!Init, B!NoBackup
<1>2. cfg \in B!Config /\ save \in [todo : SUBSET B!Keys, to : B!Config]
  BY DEF B!Init
<1>3. call \in [B!Callers -> B!Call] /\ \A c \in B!Callers : call[c].pc = "free"
  BY NothingTyped DEF B!Init, B!NoCall
<1>4. /\ exec \in [Workers -> B!Exec]
      /\ \A w \in Workers : exec[w].pc = "idle" /\ exec[w].b = 0
  BY NothingTyped, <1>2 DEF B!Init, B!NoExec
<1>5. queue \in [Backups -> B!Queue!Message] /\ \A b \in Backups : queue[b].st = "unsent"
  BY NothingTyped DEF B!Init, B!Queue!QueueInit, B!Queue!Message, B!Queue!Places
<1>6. proc \in [Workers -> [leader : BOOLEAN, ticks : 0..2]]
  BY DEF B!Init
<1>7. clock \in 1..Minutes /\ rest \in 0..MaxEvents /\ 0 \in Workers \cup {0}
  BY BackupsAssumption DEF B!Init
<1> QED
  BY <1>1, <1>2, <1>3, <1>4, <1>5, <1>6, <1>7, BackupsAssumption
  DEF B!Init, B!TypeOK, CallTyped, QueueInv, Callers, B!Callers, Mid

-----------------------------------------------------------------------------
(* What the steps of a job do to it and to the rows *)

LEMMA JobMoves ==
  ASSUME B!TypeOK, NEW w \in Workers, NEW pc \in ExecPC, B!To(w, pc)
  PROVE  /\ exec' \in [Workers -> B!Exec] /\ \A v \in Workers \ {w} : exec'[v] = exec[v]
         /\ exec'[w] = [exec[w] EXCEPT !.pc = pc] /\ exec'[w].pc = pc
         /\ exec'[w].b = exec[w].b /\ exec'[w].n = exec[w].n /\ exec'[w].path = exec[w].path
         /\ exec'[w].bucket = exec[w].bucket /\ exec'[w].keep = exec[w].keep
         /\ exec'[w].todo = exec[w].todo /\ exec'[w].cut = exec[w].cut
<1>1. exec \in [Workers -> B!Exec] /\ exec[w] \in B!Exec
  BY DEF B!TypeOK
<1>2. PICK e : e = [exec[w] EXCEPT !.pc = pc]
  OBVIOUS
<1>3. e \in B!Exec
  BY <1>1, <1>2 DEF B!Exec, ExecPC
<1>4. /\ e.pc = pc /\ e.b = exec[w].b /\ e.n = exec[w].n /\ e.path = exec[w].path
      /\ e.bucket = exec[w].bucket /\ e.keep = exec[w].keep /\ e.todo = exec[w].todo
      /\ e.cut = exec[w].cut
  BY <1>1, <1>2 DEF B!Exec
<1>5. exec' = [exec EXCEPT ![w] = e]
  BY <1>1, <1>2 DEF B!To
<1>6. exec' \in [Workers -> B!Exec] /\ exec'[w] = e /\ \A v \in Workers \ {w} : exec'[v] = exec[v]
  BY <1>1, <1>3, <1>5
<1> QED
  BY <1>2, <1>4, <1>6

LEMMA JobEnds ==
  ASSUME B!TypeOK, NEW w \in Workers, exec' = [exec EXCEPT ![w] = B!NoExec]
  PROVE  /\ exec' \in [Workers -> B!Exec] /\ \A v \in Workers \ {w} : exec'[v] = exec[v]
         /\ exec'[w].pc = "idle" /\ exec'[w].b = 0 /\ exec'[w].todo = {} /\ exec'[w].path = B!NoPath
<1>1. exec \in [Workers -> B!Exec] /\ B!NoExec \in B!Exec
  BY NothingTyped DEF B!TypeOK
<1>2. exec' \in [Workers -> B!Exec] /\ exec'[w] = B!NoExec /\ \A v \in Workers \ {w} : exec'[v] = exec[v]
  BY <1>1
<1> QED
  BY <1>2 DEF B!NoExec

RowIs(b, st, path, gone) ==
  /\ bak' \in [Backups -> B!Backup] /\ \A c \in Backups \ {b} : bak'[c] = bak[c]
  /\ bak'[b].st = st /\ bak'[b].path = path /\ bak'[b].gone = gone
  /\ bak'[b].at = bak[b].at /\ bak'[b].bucket = bak[b].bucket

LEMMA RowMoves ==
  ASSUME B!TypeOK, NEW b \in Backups, NEW st \in RowState, bak' = [bak EXCEPT ![b].st = st]
  PROVE  RowIs(b, st, bak[b].path, bak[b].gone)
<1>1. bak \in [Backups -> B!Backup] /\ bak[b] \in B!Backup
  BY DEF B!TypeOK
<1>2. PICK r : r = [bak[b] EXCEPT !.st = st]
  OBVIOUS
<1>3. r \in B!Backup
  BY <1>1, <1>2 DEF B!Backup, RowState
<1>4. /\ r.st = st /\ r.path = bak[b].path /\ r.gone = bak[b].gone /\ r.at = bak[b].at
      /\ r.bucket = bak[b].bucket
  BY <1>1, <1>2 DEF B!Backup
<1>5. bak' = [bak EXCEPT ![b] = r]
  BY <1>1, <1>2
<1>6. bak' \in [Backups -> B!Backup] /\ bak'[b] = r /\ \A c \in Backups \ {b} : bak'[c] = bak[c]
  BY <1>1, <1>3, <1>5
<1> QED
  BY <1>4, <1>6 DEF RowIs

LEMMA RowEnds ==
  ASSUME B!TypeOK, NEW b \in Backups, NEW st \in RowState, NEW path \in B!Path,
         bak' = [bak EXCEPT ![b].st = st, ![b].path = path]
  PROVE  RowIs(b, st, path, bak[b].gone)
<1>1. bak \in [Backups -> B!Backup] /\ bak[b] \in B!Backup
  BY DEF B!TypeOK
<1>2. PICK r : r = [bak[b] EXCEPT !.st = st, !.path = path]
  OBVIOUS
<1>3. r \in B!Backup
  BY <1>1, <1>2 DEF B!Backup, RowState
<1>4. /\ r.st = st /\ r.path = path /\ r.gone = bak[b].gone /\ r.at = bak[b].at
      /\ r.bucket = bak[b].bucket
  BY <1>1, <1>2 DEF B!Backup
<1>5. bak' = [bak EXCEPT ![b] = r]
  BY <1>1, <1>2
<1>6. bak' \in [Backups -> B!Backup] /\ bak'[b] = r /\ \A c \in Backups \ {b} : bak'[c] = bak[c]
  BY <1>1, <1>3, <1>5
<1> QED
  BY <1>4, <1>6 DEF RowIs

LEMMA RowGoes ==
  ASSUME B!TypeOK, NEW b \in Backups, bak' = [bak EXCEPT ![b].gone = TRUE]
  PROVE  RowIs(b, bak[b].st, bak[b].path, TRUE)
<1>1. bak \in [Backups -> B!Backup] /\ bak[b] \in B!Backup
  BY DEF B!TypeOK
<1>2. PICK r : r = [bak[b] EXCEPT !.gone = TRUE]
  OBVIOUS
<1>3. r \in B!Backup
  BY <1>1, <1>2 DEF B!Backup
<1>4. /\ r.st = bak[b].st /\ r.path = bak[b].path /\ r.gone = TRUE /\ r.at = bak[b].at
      /\ r.bucket = bak[b].bucket
  BY <1>1, <1>2 DEF B!Backup
<1>5. bak' = [bak EXCEPT ![b] = r]
  BY <1>1, <1>2
<1>6. bak' \in [Backups -> B!Backup] /\ bak'[b] = r /\ \A c \in Backups \ {b} : bak'[c] = bak[c]
  BY <1>1, <1>3, <1>5
<1> QED
  BY <1>4, <1>6 DEF RowIs

(* A message *)
MessageIs(b, st) ==
  /\ queue' \in [Backups -> B!Queue!Message] /\ queue'[b].st = st
  /\ \A c \in Backups \ {b} : queue'[c] = queue[c]

LEMMA MessageSteps ==
  ASSUME B!TypeOK, NEW b \in Backups
  PROVE  /\ B!Queue!Enqueue(b) => MessageIs(b, "visible") /\ queue[b].st = "unsent"
         /\ B!Queue!Read(b) => MessageIs(b, "hidden") /\ queue[b].st = "visible" /\ queue[b].ct + 1 \in 1..ReadCap
         /\ B!Queue!Reappear(b) => MessageIs(b, "visible") /\ queue[b].st = "hidden"
         /\ B!Queue!Delete(b) => MessageIs(b, "deleted")
         /\ B!Queue!Archive(b) => MessageIs(b, "archived")
<1>1. queue \in [Backups -> B!Queue!Message] /\ queue[b] \in B!Queue!Message
  BY DEF B!TypeOK
<1>2. ASSUME NEW st \in B!Queue!Places, NEW n \in 0..ReadCap, NEW old \in SUBSET Backups, NEW m,
             m = [st |-> st, ct |-> n, older |-> old], queue' = [queue EXCEPT ![b] = m]
      PROVE  MessageIs(b, st)
  <2>1. m \in B!Queue!Message /\ m.st = st
    BY <1>2 DEF B!Queue!Message
  <2> QED
    BY <1>1, <1>2, <2>1 DEF MessageIs
<1>3. ASSUME NEW st \in B!Queue!Places, queue' = [queue EXCEPT ![b].st = st] PROVE MessageIs(b, st)
  <2>1. PICK m : m = [queue[b] EXCEPT !.st = st]
    OBVIOUS
  <2>2. m \in B!Queue!Message /\ m.st = st
    BY <1>1, <2>1 DEF B!Queue!Message
  <2>3. queue' = [queue EXCEPT ![b] = m]
    BY <1>1, <1>3, <2>1
  <2> QED
    BY <1>1, <2>2, <2>3 DEF MessageIs
<1>4. ASSUME B!Queue!Enqueue(b) PROVE MessageIs(b, "visible") /\ queue[b].st = "unsent"
  <2>1. queue[b].st = "unsent"
        /\ \E old \in SUBSET Backups : queue' = [queue EXCEPT ![b] = [st |-> "visible", ct |-> 0, older |-> old]]
    BY <1>4 DEF B!Queue!Enqueue, B!Queue!Sent
  <2>2. "visible" \in B!Queue!Places /\ 0 \in 0..ReadCap
    BY BackupsAssumption DEF B!Queue!Places
  <2> QED
    BY <1>2, <2>1, <2>2
<1>5. ASSUME B!Queue!Read(b)
      PROVE  MessageIs(b, "hidden") /\ queue[b].st = "visible" /\ queue[b].ct + 1 \in 1..ReadCap
  <2>1. /\ queue[b].st = "visible" /\ queue[b].ct < ReadCap
        /\ queue' = [queue EXCEPT ![b].st = "hidden", ![b].ct = @ + 1]
    BY <1>5 DEF B!Queue!Read
  <2>2. queue[b].ct \in 0..ReadCap
    BY <1>1 DEF B!Queue!Message
  <2>3. queue[b].ct + 1 \in 0..ReadCap /\ queue[b].ct + 1 \in 1..ReadCap
    BY <2>1, <2>2, BackupsAssumption
  <2>4. PICK m : m = [queue[b] EXCEPT !.st = "hidden", !.ct = queue[b].ct + 1]
    OBVIOUS
  <2>5. m \in B!Queue!Message /\ m.st = "hidden"
    BY <1>1, <2>3, <2>4 DEF B!Queue!Message, B!Queue!Places
  <2>6. queue' = [queue EXCEPT ![b] = m]
    BY <1>1, <2>1, <2>4
  <2> QED
    BY <1>1, <2>1, <2>3, <2>5, <2>6 DEF MessageIs
<1>6. {"visible", "deleted", "archived"} \subseteq B!Queue!Places
  BY DEF B!Queue!Places
<1> QED
  BY <1>3, <1>4, <1>5, <1>6 DEF B!Queue!Reappear, B!Queue!Delete, B!Queue!Archive

-----------------------------------------------------------------------------
(* Types, and who holds a message *)

Typed == B!TypeOK /\ CallTyped /\ QueueInv

LEMMA LeaderTypes ==
  ASSUME Typed, NEW w,
         \/ B!SessionLost \/ B!Minute \/ B!BeginSave \/ \E k \in B!Keys : B!SaveKey(k)
         \/ w \in Workers /\ (B!Elect(w) \/ B!StepDown(w))
  PROVE  Typed'
<1> USE DEF Typed, B!Job
<1>1. UNCHANGED <<call, bak, object, queue, exec>>
  BY DEF B!SessionLost, B!Minute, B!Elect, B!StepDown, B!BeginSave, B!SaveKey
<1>2. CallTyped' /\ QueueInv'
  BY <1>1 DEF CallTyped, QueueInv, Callers
<1>3. /\ proc \in [Workers -> [leader : BOOLEAN, ticks : 0..2]] /\ cfg \in B!Config
      /\ save \in [todo : SUBSET B!Keys, to : B!Config] /\ rest \in 0..MaxEvents
      /\ clock \in 1..Minutes /\ lock \in Workers \cup {0} /\ odd \subseteq Oddities
  BY DEF B!TypeOK, Oddities
<1>4. CASE B!SessionLost \/ (w \in Workers /\ (B!Elect(w) \/ B!StepDown(w)))
  <2>1. proc' \in [Workers -> [leader : BOOLEAN, ticks : 0..2]]
    <3>1. w \in Workers => proc[w] \in [leader : BOOLEAN, ticks : 0..2]
      BY <1>3
    <3>2. w \in Workers =>
            \A l \in BOOLEAN : [proc[w] EXCEPT !.leader = l] \in [leader : BOOLEAN, ticks : 0..2]
      BY <3>1
    <3>3. \/ UNCHANGED proc
          \/ w \in Workers /\ \E l \in BOOLEAN : proc' = [proc EXCEPT ![w] = [proc[w] EXCEPT !.leader = l]]
      BY <1>3, <1>4 DEF B!SessionLost, B!Elect, B!StepDown
    <3> QED
      BY <1>3, <3>2, <3>3
  <2>2. rest' \in 0..MaxEvents /\ lock' \in Workers \cup {0} /\ odd' \subseteq Oddities
    BY <1>3, <1>4, BackupsAssumption
    DEF B!SessionLost, B!Elect, B!StepDown, B!Spend, B!Note, Oddities
  <2>3. UNCHANGED <<clock, cfg, save>>
    BY <1>4 DEF B!SessionLost, B!Elect, B!StepDown
  <2> QED
    BY <1>1, <1>2, <2>1, <2>2, <2>3 DEF B!TypeOK, Oddities
<1>5. CASE B!Minute
  <2>1. \A v \in Workers : proc[v] \in [leader : BOOLEAN, ticks : 0..2]
    BY <1>3
  <2>2. \A v \in Workers : IF proc[v].ticks < 2 THEN proc[v].ticks + 1 \in 0..2 ELSE 2 \in 0..2
    BY <2>1
  <2>3. \A v \in Workers : [proc[v] EXCEPT !.ticks = IF @ < 2 THEN @ + 1 ELSE 2]
                             \in [leader : BOOLEAN, ticks : 0..2]
    BY <2>1, <2>2
  <2>4. proc' \in [Workers -> [leader : BOOLEAN, ticks : 0..2]]
    BY <1>5, <2>3 DEF B!Minute
  <2>5. clock' \in 1..Minutes
    BY <1>3, <1>5, BackupsAssumption DEF B!Minute
  <2>6. UNCHANGED <<lock, cfg, save, rest, odd>>
    BY <1>5 DEF B!Minute
  <2> QED
    BY <1>1, <1>2, <2>4, <2>5, <2>6 DEF B!TypeOK, Oddities
<1>6. CASE B!BeginSave
  <2>1. save' \in [todo : SUBSET B!Keys, to : B!Config]
    BY <1>6 DEF B!BeginSave
  <2>2. rest' \in 0..MaxEvents
    BY <1>3, <1>6, BackupsAssumption DEF B!BeginSave, B!Spend
  <2>3. UNCHANGED <<clock, lock, proc, cfg, odd>>
    BY <1>6 DEF B!BeginSave
  <2> QED
    BY <1>1, <1>2, <2>1, <2>2, <2>3 DEF B!TypeOK
<1>7. ASSUME NEW k \in B!Keys, B!SaveKey(k) PROVE Typed'
  <2>1. save.to \in B!Config /\ save.todo \subseteq B!Keys
    BY <1>3
  <2>2. cfg' \in B!Config
    <3>1. \/ UNCHANGED cfg
          \/ cfg' = [cfg EXCEPT ![k] = save.to[k]]
      BY <1>7 DEF B!SaveKey
    <3> QED
      BY <1>3, <2>1, <3>1 DEF B!Config, B!Keys
  <2>3. save' \in [todo : SUBSET B!Keys, to : B!Config]
    <3>1. \/ save' = [save EXCEPT !.todo = save.todo \ {k}]
          \/ save' = [save EXCEPT !.todo = {}]
      BY <1>7 DEF B!SaveKey
    <3>2. save.todo \ {k} \in SUBSET B!Keys /\ {} \in SUBSET B!Keys
      BY <2>1
    <3> QED
      BY <1>3, <3>1, <3>2
  <2>4. rest' \in 0..MaxEvents
    BY <1>3, <1>7, BackupsAssumption DEF B!SaveKey, B!Spend
  <2>5. UNCHANGED <<clock, lock, proc, odd>>
    BY <1>7 DEF B!SaveKey
  <2> QED
    BY <1>1, <1>2, <2>2, <2>3, <2>4, <2>5 DEF B!TypeOK
<1> QED
  BY <1>4, <1>5, <1>6, <1>7

LEMMA Asked ==
  ASSUME B!TypeOK, NEW c \in Callers, NEW at \in 0..Minutes, B!Ask(c, at)
  PROVE  /\ call' \in [B!Callers -> B!Call] /\ \A d \in Callers \ {c} : call'[d] = call[d]
         /\ \/ call'[c].pc = "free" /\ call'[c].b = 0 /\ call'[c].at = 0
            \/ /\ call'[c].pc = "create" /\ call'[c].b = 0 /\ call'[c].at = at
               /\ call'[c].bucket = cfg.bucket /\ cfg.bucket \in Buckets
<1>1. call \in [B!Callers -> B!Call] /\ cfg \in B!Config /\ c \in B!Callers
  BY DEF B!TypeOK, B!Callers, Callers
<1>2. cfg.bucket \in Buckets \cup {NoBucket}
  BY <1>1 DEF B!Config
<1>3. PICK x : x = [B!NoCall EXCEPT !.pc = "create", !.at = at, !.bucket = cfg.bucket]
  OBVIOUS
<1>4. x \in B!Call /\ x.pc = "create" /\ x.b = 0 /\ x.at = at /\ x.bucket = cfg.bucket
  BY <1>2, <1>3, NothingTyped DEF B!NoCall, B!Call
<1>5. B!NoCall \in B!Call /\ B!NoCall.pc = "free" /\ B!NoCall.b = 0 /\ B!NoCall.at = 0
  BY NothingTyped DEF B!NoCall
<1>6. CASE cfg.bucket = NoBucket
  <2>1. call' = [call EXCEPT ![c] = B!NoCall]
    BY <1>6 DEF B!Ask
  <2> QED
    BY <1>1, <1>5, <2>1 DEF B!Callers, Callers
<1>7. CASE cfg.bucket # NoBucket
  <2>1. call' = [call EXCEPT ![c] = x]
    BY <1>3, <1>7 DEF B!Ask
  <2>2. call' \in [B!Callers -> B!Call] /\ call'[c] = x /\ \A d \in Callers \ {c} : call'[d] = call[d]
    BY <1>1, <1>4, <2>1 DEF B!Callers, Callers
  <2> QED
    BY <1>2, <1>4, <1>7, <2>2
<1> QED
  BY <1>6, <1>7

LEMMA AskTypes ==
  ASSUME Typed, \/ \E w \in Workers : B!Tick(w)
                \/ \E u \in Users : B!UserAsks(u)
  PROVE  Typed'
<1> USE DEF Typed, B!Job
<1>1. PICK c \in Callers : (\/ c \in Workers /\ B!Tick(c)
                            \/ c \in Users /\ B!UserAsks(c))
  BY DEF Callers
<1>2. call[c].pc = "free" /\ UNCHANGED <<clock, lock, cfg, save, bak, object, queue, exec, rest>>
  BY <1>1 DEF B!Tick, B!UserAsks
<1>3. clock \in 0..Minutes /\ 0 \in 0..Minutes
  BY BackupsAssumption DEF B!TypeOK
<1>4. UNCHANGED call \/ B!Ask(c, clock) \/ B!Ask(c, 0)
  BY <1>1 DEF B!Tick, B!UserAsks
<1>5. /\ call' \in [B!Callers -> B!Call] /\ \A d \in Callers \ {c} : call'[d] = call[d]
      /\ \/ call'[c].pc = "free"
         \/ call'[c].pc = "create" /\ call'[c].bucket \in Buckets
  <2>1. call \in [B!Callers -> B!Call]
    BY DEF B!TypeOK
  <2> QED
    BY <1>2, <1>3, <1>4, <2>1, Asked
<1>6. CallTyped'
  BY <1>2, <1>5 DEF CallTyped, Callers
<1>7. QueueInv'
  BY <1>2 DEF QueueInv
<1>8. proc' \in [Workers -> [leader : BOOLEAN, ticks : 0..2]] /\ odd' \subseteq Oddities
  <2>1. proc \in [Workers -> [leader : BOOLEAN, ticks : 0..2]] /\ odd \subseteq Oddities
    BY DEF B!TypeOK, Oddities
  <2>2. CASE UNCHANGED <<proc, odd>>
    BY <2>1, <2>2
  <2>3. CASE c \in Workers /\ B!Tick(c)
    <3>1. proc[c] \in [leader : BOOLEAN, ticks : 0..2] /\ proc[c].ticks > 0
      BY <2>1, <2>3 DEF B!Tick
    <3>2. proc[c].ticks - 1 \in 0..2
      BY <3>1
    <3>3. [proc[c] EXCEPT !.ticks = @ - 1] \in [leader : BOOLEAN, ticks : 0..2]
      BY <3>1, <3>2
    <3>4. proc' = [proc EXCEPT ![c] = [proc[c] EXCEPT !.ticks = @ - 1]]
      BY <2>1, <2>3 DEF B!Tick
    <3> QED
      BY <2>1, <2>3, <3>3, <3>4 DEF B!Tick, B!Note, Oddities
  <2> QED
    BY <1>1, <2>2, <2>3 DEF B!UserAsks
<1> QED
  BY <1>2, <1>5, <1>6, <1>7, <1>8 DEF B!TypeOK, Oddities

CallIs(c, pc, b) ==
  /\ call' \in [B!Callers -> B!Call] /\ \A d \in Callers \ {c} : call'[d] = call[d]
  /\ call'[c].pc = pc /\ call'[c].b = b
  /\ call'[c].bucket = call[c].bucket /\ call'[c].at = call[c].at

LEMMA CallMoves ==
  ASSUME B!TypeOK, NEW c \in Callers, NEW pc \in {"enqueue", "undo"}, NEW b \in Backups,
         \/ call' = [call EXCEPT ![c].pc = pc] /\ b = call[c].b
         \/ call' = [call EXCEPT ![c].pc = pc, ![c].b = b]
  PROVE  CallIs(c, pc, b)
<1>1. call \in [B!Callers -> B!Call] /\ call[c] \in B!Call /\ c \in B!Callers
  BY DEF B!TypeOK, B!Callers, Callers
<1>2. PICK x : x = [call[c] EXCEPT !.pc = pc, !.b = b]
  OBVIOUS
<1>3. x \in B!Call
  BY <1>1, <1>2 DEF B!Call
<1>4. x.pc = pc /\ x.b = b /\ x.bucket = call[c].bucket /\ x.at = call[c].at
  BY <1>1, <1>2 DEF B!Call
<1>5. call' = [call EXCEPT ![c] = x]
  <2>1. CASE call' = [call EXCEPT ![c].pc = pc, ![c].b = b]
    BY <1>1, <1>2, <2>1
  <2>2. CASE call' = [call EXCEPT ![c].pc = pc] /\ b = call[c].b
    <3>1. x = [call[c] EXCEPT !.pc = pc]
      BY <1>1, <1>2, <2>2 DEF B!Call
    <3> QED
      BY <1>1, <2>2, <3>1
  <2> QED
    BY <2>1, <2>2
<1>6. call' \in [B!Callers -> B!Call] /\ call'[c] = x /\ \A d \in Callers \ {c} : call'[d] = call[d]
  BY <1>1, <1>3, <1>5 DEF B!Callers, Callers
<1> QED
  BY <1>4, <1>6 DEF CallIs

LEMMA CallEnds ==
  ASSUME B!TypeOK, NEW c \in Callers, call' = [call EXCEPT ![c] = B!NoCall]
  PROVE  /\ call' \in [B!Callers -> B!Call] /\ \A d \in Callers \ {c} : call'[d] = call[d]
         /\ call'[c].pc = "free" /\ call'[c].b = 0 /\ call'[c].at = 0
<1>1. call \in [B!Callers -> B!Call] /\ c \in B!Callers
  BY DEF B!TypeOK, B!Callers, Callers
<1> QED
  BY <1>1, NothingTyped DEF B!NoCall, B!Callers, Callers

(* What Create does *)
Created(c, b) ==
  /\ bak[b].st = "none" /\ bak' \in [Backups -> B!Backup]
  /\ \A a \in Backups \ {b} : bak'[a] = bak[a] 
  /\ bak'[b].st = "queued" /\ bak'[b].at = call[c].at /\ bak'[b].bucket = call[c].bucket
  /\ bak'[b].path = B!NoPath /\ ~ bak'[b].gone
  /\ call[c].pc = "create" /\ CallIs(c, "enqueue", b)
LEMMA Creates ==
  ASSUME B!TypeOK, NEW c \in Callers, B!Create(c)
  PROVE  \E b \in Backups : B!Fresh(b) /\ Created(c, b)
<1>1. PICK b \in Backups :
        /\ B!Fresh(b)
        /\ bak' = [bak EXCEPT ![b] = [B!NoBackup EXCEPT !.st = "queued", !.at = call[c].at,
                                                        !.bucket = call[c].bucket]]
        /\ call' = [call EXCEPT ![c].pc = "enqueue", ![c].b = b]
  BY DEF B!Create
<1>2. call[c] \in B!Call /\ bak \in [Backups -> B!Backup]
  BY DEF B!TypeOK, B!Callers, Callers
<1>3. PICK r : r = [B!NoBackup EXCEPT !.st = "queued", !.at = call[c].at, !.bucket = call[c].bucket]
  OBVIOUS
<1>4. call[c].at \in 0..Minutes /\ call[c].bucket \in Buckets \cup {NoBucket}
  BY <1>2 DEF B!Call
<1>5. /\ r \in B!Backup /\ r.st = "queued" /\ r.at = call[c].at /\ r.bucket = call[c].bucket
      /\ r.path = B!NoPath /\ ~ r.gone
  BY <1>3, <1>4 DEF B!NoBackup, B!Backup, B!NoPath, B!Path
<1>6. bak' = [bak EXCEPT ![b] = r]
  BY <1>1, <1>3
<1>7. bak' \in [Backups -> B!Backup] /\ bak'[b] = r /\ \A a \in Backups \ {b} : bak'[a] = bak[a]
  BY <1>2, <1>5, <1>6
<1>8. CallIs(c, "enqueue", b)
  BY <1>1, CallMoves
<1>9. bak[b].st = "none" /\ call[c].pc = "create"
  BY <1>1 DEF B!Fresh, B!Create
<1> QED
  BY <1>1, <1>5, <1>7, <1>8, <1>9 DEF Created

LEMMA TriggerTypes ==
  ASSUME Typed, NEW c \in Callers, B!Create(c) \/ B!Enqueue(c) \/ B!Undo(c)
  PROVE  Typed'
<1> USE DEF Typed
<1>1. UNCHANGED <<clock, lock, proc, cfg, save, object, exec>>
  BY DEF B!Create, B!Enqueue, B!Undo
<1>2. /\ bak \in [Backups -> B!Backup] /\ call \in [B!Callers -> B!Call]
      /\ queue \in [Backups -> B!Queue!Message]
      /\ rest \in 0..MaxEvents /\ odd \subseteq Oddities
      /\ \A b \in Backups : bak[b].st # "none" => bak[b].bucket \in Buckets
  BY DEF B!TypeOK, Oddities
<1>3. CASE B!Create(c)
  <2>1. PICK b \in Backups : Created(c, b)
    BY <1>3, Creates
  <2>2. call[c].bucket \in Buckets
    BY <2>1 DEF CallTyped, Created
  <2>3. UNCHANGED <<queue, rest, odd>>
    BY <1>3 DEF B!Create
  <2>4. call' \in [B!Callers -> B!Call] /\ bak' \in [Backups -> B!Backup]
    BY <2>1 DEF Created, CallIs
  <2>5. \A a \in Backups : bak'[a].st # "none" => bak'[a].bucket \in Buckets
    BY <1>2, <2>1, <2>2 DEF Created
  <2>6. \A w \in Workers : exec[w].b # 0 => exec[w].b # b
    BY <2>1 DEF QueueInv, Created
  <2>7. CallTyped'
    <3>1. \A d \in Callers : call'[d].pc # "free" => call'[d].bucket \in Buckets
      BY <2>1, <2>2 DEF CallTyped, Created, CallIs
    <3>2. \A d \in Callers : call'[d].pc \in {"enqueue", "undo"} =>
            call'[d].b \in Backups /\ bak'[call'[d].b].st # "none"
      BY <2>1 DEF CallTyped, Created, CallIs
    <3> QED
      BY <1>1, <3>1, <3>2 DEF CallTyped, Callers
  <2>8. QueueInv'
    BY <1>1, <2>1, <2>3 DEF QueueInv, Created
  <2> QED
    BY <1>1, <2>3, <2>4, <2>5, <2>7, <2>8 DEF B!TypeOK
<1>4. CASE B!Enqueue(c)
  <2>1. UNCHANGED <<bak, odd>> /\ call[c].pc = "enqueue" /\ rest' \in 0..MaxEvents
    BY <1>2, <1>4, BackupsAssumption DEF B!Enqueue, B!Spend
  <2>2. PICK b \in Backups : b = call[c].b /\ bak[b].st # "none"
    BY <2>1 DEF CallTyped
  <2>3. UNCHANGED queue \/ B!Queue!Enqueue(b)
    BY <1>4, <2>2 DEF B!Enqueue
  <2>4. call' = [call EXCEPT ![c] = B!NoCall] \/ call' = [call EXCEPT ![c].pc = "undo"]
    BY <1>4 DEF B!Enqueue
  <2>5. /\ call' \in [B!Callers -> B!Call] /\ \A d \in Callers \ {c} : call'[d] = call[d]
        /\ call'[c].pc = "free" \/ (call'[c].pc = "undo" /\ call'[c].b = b /\ call'[c].bucket = call[c].bucket)
    BY <2>2, <2>4, CallEnds, CallMoves DEF CallIs
  <2>6. CallTyped'
    <3>1. \A d \in Callers : call'[d].pc # "free" => call'[d].bucket \in Buckets
      BY <2>1, <2>5 DEF CallTyped
    <3>2. \A d \in Callers : call'[d].pc \in {"enqueue", "undo"} =>
            call'[d].b \in Backups /\ bak[call'[d].b].st # "none"
      BY <2>2, <2>5 DEF CallTyped
    <3> QED
      BY <1>1, <2>1, <3>1, <3>2 DEF CallTyped, Callers
  <2>7. queue' \in [Backups -> B!Queue!Message] /\ QueueInv'
    <3>1. CASE UNCHANGED queue
      BY <1>1, <1>2, <2>1, <3>1 DEF QueueInv
    <3>2. CASE B!Queue!Enqueue(b)
      <4>1. MessageIs(b, "visible") /\ queue[b].st = "unsent"
        BY <3>2, MessageSteps
      <4> QED
        BY <1>1, <2>1, <2>2, <4>1 DEF QueueInv, MessageIs
    <3> QED
      BY <2>3, <3>1, <3>2
  <2> QED
    BY <1>1, <1>2, <2>1, <2>5, <2>6, <2>7 DEF B!TypeOK, Oddities
<1>5. CASE B!Undo(c)
  <2>1. UNCHANGED <<queue, rest>> /\ call[c].pc = "undo" /\ odd' \subseteq Oddities
    BY <1>2, <1>5 DEF B!Undo, B!Note, Oddities
  <2>2. PICK b \in Backups : b = call[c].b /\ bak[b].st # "none"
    BY <2>1 DEF CallTyped
  <2>3. RowIs(b, "failed", bak[b].path, bak[b].gone)
    BY <1>5, <2>2, RowMoves DEF B!Undo, B!MarkFailed, RowState
  <2>4. /\ call' \in [B!Callers -> B!Call] /\ \A d \in Callers \ {c} : call'[d] = call[d]
        /\ call'[c].pc = "free"
    BY <1>5, CallEnds DEF B!Undo
  <2>5. \A a \in Backups : (bak'[a].st = "none" <=> bak[a].st = "none") /\ bak'[a].bucket = bak[a].bucket
    BY <2>2, <2>3 DEF RowIs
  <2>6. CallTyped'
    <3>1. \A d \in Callers : call'[d].pc # "free" => call'[d].bucket \in Buckets
      BY <2>1, <2>4 DEF CallTyped
    <3>2. \A d \in Callers : call'[d].pc \in {"enqueue", "undo"} =>
            call'[d].b \in Backups /\ bak'[call'[d].b].st # "none"
      BY <2>4, <2>5 DEF CallTyped
    <3> QED
      BY <1>1, <2>1, <3>1, <3>2 DEF CallTyped, Callers
  <2>7. QueueInv'
    BY <1>1, <2>1, <2>5 DEF QueueInv
  <2> QED
    BY <1>1, <1>2, <2>1, <2>3, <2>4, <2>5, <2>6, <2>7 DEF B!TypeOK, RowIs, Oddities
<1> QED
  BY <1>3, <1>4, <1>5

LEMMA FetchTypes ==
  ASSUME Typed, NEW w \in Workers, NEW b \in Backups, B!Fetch(w, b)
  PROVE  /\ Typed' /\ MessageIs(b, "hidden") /\ queue[b].st = "visible" /\ bak[b].st # "none"
         /\ exec[w].pc = "idle" /\ exec'[w].pc = "load" /\ exec'[w].b = b /\ exec'[w].todo = {}
         /\ exec'[w].path = B!NoPath
         /\ \A v \in Workers \ {w} : exec'[v] = exec[v] /\ exec[v].b # b
<1> USE DEF Typed
<1>1. /\ UNCHANGED <<clock, lock, proc, cfg, save, call, bak, object, rest, odd>>
      /\ exec[w].pc = "idle" /\ B!Queue!Read(b)
  BY DEF B!Fetch, B!Others
<1>2. MessageIs(b, "hidden") /\ queue[b].st = "visible" /\ queue[b].ct + 1 \in 1..ReadCap
  BY <1>1, MessageSteps
<1>3. PICK e : e = [B!NoExec EXCEPT !.pc = "load", !.b = b, !.n = queue[b].ct + 1]
  OBVIOUS
<1>4. exec \in [Workers -> B!Exec] /\ B!NoExec \in B!Exec
  BY NothingTyped DEF B!TypeOK
<1>5. queue[b].ct + 1 \in 0..ReadCap
  BY <1>2, BackupsAssumption
<1>6. /\ e \in B!Exec /\ e.pc = "load" /\ e.b = b /\ e.n \in 1..ReadCap /\ e.todo = {}
      /\ e.path = B!NoPath
  BY <1>2, <1>3, <1>4, <1>5 DEF B!Exec, B!NoExec
<1>7. exec' = [exec EXCEPT ![w] = e]
  BY <1>3 DEF B!Fetch
<1>8. exec' \in [Workers -> B!Exec] /\ exec'[w] = e /\ \A v \in Workers \ {w} : exec'[v] = exec[v]
  BY <1>4, <1>6, <1>7
<1>9. \A v \in Workers : exec[v].b # b
  BY <1>2 DEF QueueInv
<1>10. bak[b].st # "none"
  BY <1>2 DEF QueueInv
<1>11. b # 0
  BY BackupsAssumption
<1>12. CallTyped'
  BY <1>1, <1>6, <1>8, <1>11 DEF CallTyped, Callers, Mid
<1>13. QueueInv'
  <2>1. \A a \in Backups : bak'[a].st = "none" => queue'[a].st = "unsent"
    BY <1>1, <1>2, <1>10 DEF QueueInv, MessageIs
  <2>2. \A v \in Workers : exec'[v].b \in Backups => queue'[exec'[v].b].st = "hidden"
    BY <1>2, <1>6, <1>8, <1>9 DEF QueueInv, MessageIs
  <2>3. \A u, v \in Workers : exec'[u].b = exec'[v].b /\ exec'[u].b # 0 => u = v
    BY <1>6, <1>8, <1>9 DEF QueueInv
  <2> QED
    BY <2>1, <2>2, <2>3 DEF QueueInv
<1>14. B!TypeOK'
  BY <1>1, <1>2, <1>8 DEF B!TypeOK, MessageIs
<1> QED
  BY <1>1, <1>2, <1>6, <1>8, <1>9, <1>10, <1>12, <1>13, <1>14

(* What holds of every step of a job until its end.                        *)
Going(w) ==
  /\ exec' \in [Workers -> B!Exec] /\ \A v \in Workers \ {w} : exec'[v] = exec[v]
  /\ exec[w].pc # "idle" /\ exec'[w].pc # "idle"
  /\ exec'[w].b = exec[w].b /\ exec'[w].n = exec[w].n
  /\ exec'[w].todo \subseteq Backups
  /\ exec'[w].pc \in {"prune", "forget"} => exec'[w].todo # {}
  /\ exec'[w].pc \in Mid => exec'[w].bucket \in Buckets
RowsStay ==
  /\ bak' \in [Backups -> B!Backup]
  /\ \A b \in Backups : /\ bak'[b].at = bak[b].at /\ bak'[b].bucket = bak[b].bucket
                        /\ bak'[b].st = "none" <=> bak[b].st = "none"
LEMMA GoingTypes ==
  ASSUME Typed, NEW w \in Workers, Going(w), RowsStay,
         UNCHANGED <<clock, cfg, save, call, queue>>,
         proc' \in [Workers -> [leader : BOOLEAN, ticks : 0..2]], lock' \in Workers \cup {0},
         object' \subseteq Buckets \X B!Path, rest' \in 0..MaxEvents, odd' \subseteq Oddities
  PROVE  Typed'
<1> USE DEF Typed
<1>1. B!TypeOK'
  BY DEF B!TypeOK, Going, RowsStay, Oddities
<1>2. CallTyped'
  <2>1. \A c \in Callers : call'[c].pc # "free" => call'[c].bucket \in Buckets
    BY DEF CallTyped
  <2>2. \A c \in Callers : call'[c].pc \in {"enqueue", "undo"} => call'[c].b \in Backups /\ bak'[call'[c].b].st # "none"
    BY DEF CallTyped, RowsStay
  <2>3. \A v \in Workers : exec'[v].pc = "idle" <=> exec'[v].b = 0
    BY DEF CallTyped, Going
  <2>4. \A v \in Workers : exec'[v].pc # "idle" => exec'[v].n \in 1..ReadCap
    BY DEF CallTyped, Going
  <2>5. \A v \in Workers : exec'[v].pc \in {"prune", "forget"} => exec'[v].todo # {}
    BY DEF CallTyped, Going
  <2>6. \A v \in Workers : exec'[v].pc \in Mid => exec'[v].bucket \in Buckets
    BY DEF CallTyped, Going
  <2> QED
    BY <2>1, <2>2, <2>3, <2>4, <2>5, <2>6 DEF CallTyped, Callers
<1>3. QueueInv'
  BY DEF QueueInv, Going, RowsStay
<1> QED
  BY <1>1, <1>2, <1>3

(* A job whose backup is settled lets go of its message, or keeps it.      *)
JobOver(w) ==
  /\ exec' \in [Workers -> B!Exec] /\ \A v \in Workers \ {w} : exec'[v] = exec[v]
  /\ exec'[w].pc = "idle" /\ exec'[w].b = 0 /\ exec'[w].todo = {} /\ exec'[w].path = B!NoPath
LEMMA EndingTypes ==
  ASSUME Typed, NEW w \in Workers, JobOver(w),
         UNCHANGED <<clock, cfg, save, bak, object>>,
         \A c \in Callers : call'[c] = call[c] \/ call'[c].pc = "free",
         call' \in [B!Callers -> B!Call],
         \/ UNCHANGED queue
         \/ \E b \in Backups, st \in {"deleted", "archived"} : exec[w].b = b /\ MessageIs(b, st),
         proc' \in [Workers -> [leader : BOOLEAN, ticks : 0..2]], lock' \in Workers \cup {0},
         rest' \in 0..MaxEvents, odd' \subseteq Oddities
  PROVE  Typed'
<1> USE DEF Typed
<1>1. B!TypeOK'
  BY DEF B!TypeOK, JobOver, MessageIs, Oddities
<1>2. CallTyped'
  BY DEF CallTyped, JobOver, Mid
<1>3. QueueInv'
  <2>1. CASE UNCHANGED queue
    BY <2>1, BackupsAssumption DEF QueueInv, JobOver
  <2>2. ASSUME NEW b \in Backups, NEW st \in {"deleted", "archived"}, exec[w].b = b, MessageIs(b, st)
        PROVE  QueueInv'
    <3>1. queue[b].st = "hidden" /\ b # 0
      BY <2>2, BackupsAssumption DEF QueueInv
    <3>2. \A v \in Workers \ {w} : exec[v].b # b
      BY <2>2, <3>1 DEF QueueInv
    <3>3. \A a \in Backups : bak'[a].st = "none" => queue'[a].st = "unsent"
      BY <2>2, <3>1 DEF QueueInv, MessageIs
    <3>4. \A v \in Workers : exec'[v].b \in Backups => queue'[exec'[v].b].st = "hidden"
      <4>1. 0 \notin Backups
        BY BackupsAssumption
      <4>2. ASSUME NEW v \in Workers, exec'[v].b \in Backups PROVE queue'[exec'[v].b].st = "hidden"
        <5>1. v # w /\ exec'[v].b = exec[v].b
          BY <4>1, <4>2 DEF JobOver
        <5>2. exec[v].b \in Backups \ {b} /\ queue[exec[v].b].st = "hidden"
          BY <3>2, <4>2, <5>1 DEF QueueInv
        <5> QED
          BY <2>2, <5>1, <5>2 DEF MessageIs
      <4> QED
        BY <4>2
    <3>5. \A u, v \in Workers : exec'[u].b = exec'[v].b /\ exec'[u].b # 0 => u = v
      BY DEF QueueInv, JobOver
    <3> QED
      BY <3>3, <3>4, <3>5 DEF QueueInv
  <2> QED
    BY <2>1, <2>2
<1> QED
  BY <1>1, <1>2, <1>3

-----------------------------------------------------------------------------
(* Each step of a job: its types, and what it does *)

JobIs(w, e) ==
  /\ exec' \in [Workers -> B!Exec] /\ exec'[w] = e
  /\ \A v \in Workers \ {w} : exec'[v] = exec[v]
SamePath(w) == exec'[w].path = exec[w].path
SameTodo(w) == exec'[w].todo = exec[w].todo
Aside == UNCHANGED <<clock, lock, proc, cfg, save, call>>
Backup(w, b) == b \in Backups /\ exec[w].b = b /\ bak[b].st # "none"

LEMMA HasBackup ==
  ASSUME Typed, NEW w \in Workers, exec[w].pc # "idle"
  PROVE  /\ \E b \in Backups : Backup(w, b)
         /\ exec[w].n \in 1..ReadCap /\ <<exec[w].b, exec[w].n>> \in B!Path
         /\ <<exec[w].b, exec[w].n>> # B!NoPath
<1>1. exec[w] \in B!Exec /\ exec[w].b # 0 /\ exec[w].n \in 1..ReadCap
  BY DEF Typed, B!TypeOK, CallTyped
<1>2. exec[w].b \in Backups
  BY <1>1 DEF B!Exec
<1>3. queue[exec[w].b].st = "hidden"
  BY <1>2 DEF Typed, QueueInv
<1>4. bak[exec[w].b].st # "none"
  BY <1>2, <1>3 DEF Typed, QueueInv
<1> QED
  BY <1>1, <1>2, <1>4 DEF Backup, B!Path, B!NoPath

LEMMA JobTypes ==
  ASSUME Typed, NEW w \in Workers, NEW pc \in ExecPC \ {"idle"}, B!To(w, pc), exec[w].pc # "idle",
         pc \in {"prune", "forget"} => exec[w].todo # {},
         pc \in Mid => exec[w].bucket \in Buckets
  PROVE  Going(w) /\ exec'[w].pc = pc /\ SamePath(w) /\ SameTodo(w) /\ exec'[w].cut = exec[w].cut
<1>1. B!TypeOK /\ exec[w] \in B!Exec
  BY DEF Typed, B!TypeOK
<1>2. exec[w].todo \subseteq Backups
  BY <1>1 DEF B!Exec
<1> QED
  BY <1>1, <1>2, JobMoves DEF Going, SamePath, SameTodo

LEMMA RowsMove ==
  ASSUME Typed, NEW b \in Backups, NEW st \in RowState, NEW path, NEW gone,
         RowIs(b, st, path, gone), bak[b].st # "none", st # "none"
  PROVE  RowsStay
BY DEF RowIs, RowsStay
LEMMA RowsSame ==
  ASSUME Typed, UNCHANGED bak
  PROVE  RowsStay
BY DEF Typed, B!TypeOK, RowsStay

(* The rest of the state, of which a job changes little.                   *)
LEMMA AsideTypes ==
  ASSUME Typed
  PROVE  /\ Aside => /\ proc' \in [Workers -> [leader : BOOLEAN, ticks : 0..2]]
                     /\ lock' \in Workers \cup {0}
                     /\ call' \in [B!Callers -> B!Call]
         /\ UNCHANGED rest => rest' \in 0..MaxEvents
         /\ \A e : B!Spend(e) => rest' \in 0..MaxEvents
         /\ UNCHANGED odd => odd' \subseteq Oddities /\ odd \subseteq odd'
         /\ \A o \in Oddities : B!Note(o) => odd' \subseteq Oddities /\ odd \subseteq odd' /\ o \in odd'
         /\ UNCHANGED object => object' \subseteq Buckets \X B!Path
<1>1. /\ proc \in [Workers -> [leader : BOOLEAN, ticks : 0..2]] /\ lock \in Workers \cup {0}
      /\ call \in [B!Callers -> B!Call] /\ object \subseteq Buckets \X B!Path
      /\ rest \in 0..MaxEvents /\ odd \subseteq Oddities
  BY DEF Typed, B!TypeOK, Oddities
<1>2. ASSUME NEW e, B!Spend(e) PROVE rest' \in 0..MaxEvents
  BY <1>1, <1>2, BackupsAssumption DEF B!Spend
<1> QED
  BY <1>1, <1>2 DEF Aside, B!Note

Loaded(w) ==
  /\ Going(w) /\ Aside /\ UNCHANGED <<bak, object, queue, odd>>
  /\ exec[w].pc = "load" /\ exec'[w].pc \in {"ack", "mark", "nack"} /\ SamePath(w) /\ SameTodo(w)
  /\ exec'[w].pc = "ack" => bak[exec[w].b].st \in Final
  /\ exec'[w].pc = "mark" => bak[exec[w].b].st \notin Final /\ ~ bak[exec[w].b].gone
LEMMA LoadTypes ==
  ASSUME Typed, NEW w \in Workers, B!Load(w)
  PROVE  Typed' /\ Loaded(w)
<1>1. Aside /\ UNCHANGED <<bak, object, queue, odd>> /\ exec[w].pc = "load"
  BY DEF B!Load, B!Others, Aside
<1>2. exec \in [Workers -> B!Exec] /\ exec[w] \in B!Exec /\ cfg \in B!Config
  BY DEF Typed, B!TypeOK
<1>3. UNCHANGED rest \/ B!Spend("fault")
  BY DEF B!Load
<1>4. rest' \in 0..MaxEvents
  BY <1>3, AsideTypes
<1>5. Going(w) /\ SamePath(w) /\ SameTodo(w) /\ exec'[w].pc \in {"ack", "mark", "nack"}
      /\ (exec'[w].pc = "ack" => bak[exec[w].b].st \in Final)
      /\ (exec'[w].pc = "mark" => bak[exec[w].b].st \notin Final /\ ~ bak[exec[w].b].gone)
  <2>1. CASE B!To(w, "nack")
    BY <1>1, <2>1, JobTypes DEF ExecPC, Mid
  <2>2. CASE B!To(w, "ack") /\ B!Row(w).st \in {"completed", "failed"}
    BY <1>1, <2>2, JobTypes DEF ExecPC, Mid, B!Row, Final
  <2>3. CASE /\ B!Row(w).st \notin {"completed", "failed"} /\ cfg.bucket # NoBucket /\ ~ B!Row(w).gone
             /\ exec' = [exec EXCEPT ![w].pc = "mark", ![w].bucket = cfg.bucket, ![w].keep = cfg.keep]
    <3>1. PICK e : e = [exec[w] EXCEPT !.pc = "mark", !.bucket = cfg.bucket, !.keep = cfg.keep]
      OBVIOUS
    <3>2. cfg.bucket \in Buckets /\ cfg.keep \in Keeps
      BY <1>2, <2>3 DEF B!Config
    <3>3. /\ e \in B!Exec /\ e.pc = "mark" /\ e.bucket \in Buckets /\ e.b = exec[w].b
          /\ e.n = exec[w].n /\ e.path = exec[w].path /\ e.todo = exec[w].todo
      BY <1>2, <3>1, <3>2 DEF B!Exec
    <3>4. exec' = [exec EXCEPT ![w] = e]
      BY <1>2, <2>3, <3>1
    <3>5. JobIs(w, e)
      BY <1>2, <3>3, <3>4 DEF JobIs
    <3>6. exec[w].todo \subseteq Backups
      BY <1>2 DEF B!Exec
    <3> QED
      BY <1>1, <2>3, <3>3, <3>5, <3>6 DEF Going, JobIs, SamePath, SameTodo, B!Row, Final
  <2> QED
    BY <2>1, <2>2, <2>3 DEF B!Load
<1>6. Typed'
  BY <1>1, <1>4, <1>5, GoingTypes, AsideTypes, RowsSame DEF Aside
<1> QED
  BY <1>1, <1>5, <1>6 DEF Loaded

Marked(w) ==
  /\ Going(w) /\ Aside /\ UNCHANGED <<object, queue, odd>>
  /\ exec[w].pc = "mark" /\ SamePath(w) /\ SameTodo(w)
  /\ \/ exec'[w].pc = "dump" /\ RowIs(exec[w].b, "running", bak[exec[w].b].path, bak[exec[w].b].gone)
     \/ exec'[w].pc = "nack" /\ UNCHANGED bak
LEMMA MarkTypes ==
  ASSUME Typed, NEW w \in Workers, B!Mark(w)
  PROVE  Typed' /\ Marked(w)
<1>1. Aside /\ UNCHANGED <<object, queue, odd>> /\ exec[w].pc = "mark"
  BY DEF B!Mark, B!Others, Aside
<1>2. rest' \in 0..MaxEvents
  BY AsideTypes DEF B!Mark
<1>3. exec[w].bucket \in Buckets
  BY <1>1 DEF Typed, CallTyped, Mid
<1>4. PICK b \in Backups : Backup(w, b)
  BY <1>1, HasBackup
<1>5. Going(w) /\ SamePath(w) /\ SameTodo(w) /\ RowsStay
      /\ \/ exec'[w].pc = "dump" /\ RowIs(exec[w].b, "running", bak[exec[w].b].path, bak[exec[w].b].gone)
         \/ exec'[w].pc = "nack" /\ UNCHANGED bak
  <2>1. CASE B!To(w, "nack") /\ UNCHANGED bak
    BY <1>1, <2>1, JobTypes, RowsSame DEF ExecPC, Mid
  <2>2. CASE B!To(w, "dump") /\ bak' = [bak EXCEPT ![exec[w].b].st = "running"]
    <3>1. RowIs(b, "running", bak[b].path, bak[b].gone)
      BY <1>4, <2>2, RowMoves DEF Backup, RowState, Typed
    <3>2. RowsStay
      BY <1>4, <3>1, RowsMove DEF Backup, RowState
    <3> QED
      BY <1>1, <1>3, <1>4, <2>2, <3>1, <3>2, JobTypes DEF ExecPC, Backup
  <2> QED
    BY <2>1, <2>2 DEF B!Mark
<1>6. Typed'
  BY <1>1, <1>2, <1>5, GoingTypes, AsideTypes DEF Aside
<1> QED
  BY <1>1, <1>5, <1>6 DEF Marked

Dumped(w) ==
  /\ Going(w) /\ Aside /\ UNCHANGED <<bak, object, queue>> /\ odd \subseteq odd'
  /\ exec[w].pc = "dump" /\ SameTodo(w)
  /\ \/ exec'[w].pc = "fail" /\ SamePath(w) 
     \/ /\ exec'[w].pc = "upload"
        /\ exec'[w].path = <<exec[w].b, exec[w].n>> \/ "twin" \in odd'
LEMMA DumpTypes ==
  ASSUME Typed, NEW w \in Workers, B!Dump(w)
  PROVE  Typed' /\ Dumped(w)
<1>1. Aside /\ UNCHANGED <<bak, object, queue, rest>> /\ exec[w].pc = "dump"
  BY DEF B!Dump, B!Others, Aside
<1>2. rest' \in 0..MaxEvents
  BY <1>1, AsideTypes
<1>3. exec[w].bucket \in Buckets
  BY <1>1 DEF Typed, CallTyped, Mid
<1>4. exec \in [Workers -> B!Exec] /\ exec[w] \in B!Exec
  BY DEF Typed, B!TypeOK
<1>5. Going(w) /\ SameTodo(w) /\ odd \subseteq odd' /\ odd' \subseteq Oddities
      /\ \/ exec'[w].pc = "fail" /\ SamePath(w) 
         \/ /\ exec'[w].pc = "upload"
            /\ exec'[w].path = <<exec[w].b, exec[w].n>> \/ "twin" \in odd'
  <2>1. CASE B!To(w, "fail") /\ UNCHANGED odd
    BY <1>1, <1>3, <2>1, JobTypes, AsideTypes DEF ExecPC
  <2>2. ASSUME NEW path \in {<<exec[w].b, exec[w].n>>} \cup B!Twins(w),
               exec' = [exec EXCEPT ![w].pc = "upload", ![w].path = path],
               IF path \in B!Twins(w) THEN B!Note("twin") ELSE UNCHANGED odd
        PROVE  /\ Going(w) /\ SameTodo(w) /\ odd \subseteq odd' /\ odd' \subseteq Oddities
               /\ exec'[w].pc = "upload"
               /\ exec'[w].path = <<exec[w].b, exec[w].n>> \/ "twin" \in odd'
    <3>1. path \in B!Path
      <4>1. \A v \in Workers : exec[v].path \in B!Path
        BY <1>4 DEF B!Exec
      <4> QED
        BY <1>1, <2>2, <4>1, HasBackup DEF B!Twins
    <3>2. PICK e : e = [exec[w] EXCEPT !.pc = "upload", !.path = path]
      OBVIOUS
    <3>3. /\ e \in B!Exec /\ e.pc = "upload" /\ e.bucket = exec[w].bucket /\ e.b = exec[w].b
          /\ e.n = exec[w].n /\ e.path = path /\ e.todo = exec[w].todo
      BY <1>4, <3>1, <3>2 DEF B!Exec
    <3>4. exec' = [exec EXCEPT ![w] = e]
      BY <1>4, <2>2, <3>2
    <3>5. JobIs(w, e)
      BY <1>4, <3>3, <3>4 DEF JobIs
    <3>6. exec[w].todo \subseteq Backups
      BY <1>4 DEF B!Exec
    <3>7. odd \subseteq odd' /\ odd' \subseteq Oddities /\ (path = <<exec[w].b, exec[w].n>> \/ "twin" \in odd')
      BY <2>2, AsideTypes DEF Oddities
    <3>8. Going(w) /\ SameTodo(w)
      BY <1>1, <1>3, <3>3, <3>5, <3>6 DEF Going, JobIs, SameTodo
    <3> QED
      BY <3>3, <3>5, <3>7, <3>8 DEF JobIs
  <2> QED
    BY <2>1, <2>2 DEF B!Dump
<1>6. Typed'
  BY <1>1, <1>2, <1>5, GoingTypes, AsideTypes, RowsSame DEF Aside
<1> QED
  BY <1>1, <1>5, <1>6 DEF Dumped

Uploaded(w) ==
  /\ Going(w) /\ Aside /\ UNCHANGED <<bak, queue>> /\ odd \subseteq odd'
  /\ exec[w].pc = "upload" /\ SamePath(w) /\ SameTodo(w)
  /\ \/ exec'[w].pc = "fail" /\ UNCHANGED object
     \/ /\ exec'[w].pc = "done"
        /\ object' = object \cup {<<exec[w].bucket, exec[w].path>>}
        /\ exec[w].bucket = bak[exec[w].b].bucket \/ "reconfigured" \in odd'
LEMMA UploadTypes ==
  ASSUME Typed, NEW w \in Workers, B!Upload(w)
  PROVE  Typed' /\ Uploaded(w)
<1>1. Aside /\ UNCHANGED <<bak, queue, rest>> /\ exec[w].pc = "upload"
  BY DEF B!Upload, B!Others, Aside
<1>2. rest' \in 0..MaxEvents
  BY <1>1, AsideTypes
<1>3. exec[w].bucket \in Buckets /\ exec[w].path \in B!Path /\ object \subseteq Buckets \X B!Path
  BY <1>1 DEF Typed, CallTyped, Mid, B!TypeOK, B!Exec
<1>4. \/ B!To(w, "fail") /\ UNCHANGED <<object, odd>>
      \/ /\ B!To(w, "done") /\ object' = object \cup {<<exec[w].bucket, exec[w].path>>}
         /\ IF exec[w].bucket # bak[exec[w].b].bucket THEN B!Note("reconfigured") ELSE UNCHANGED odd
  BY DEF B!Upload, B!Row
<1>5. Going(w) /\ SamePath(w) /\ SameTodo(w) /\ exec'[w].pc \in {"fail", "done"}
      /\ (exec'[w].pc = "fail" <=> B!To(w, "fail"))
  <2>1. CASE B!To(w, "fail")
    BY <1>1, <1>3, <2>1, JobTypes DEF ExecPC
  <2>2. CASE B!To(w, "done") /\ ~ B!To(w, "fail")
    BY <1>1, <1>3, <2>2, JobTypes DEF ExecPC
  <2> QED
    BY <1>4, <2>1, <2>2
<1>6. odd \subseteq odd' /\ odd' \subseteq Oddities
  BY <1>4, AsideTypes DEF Oddities
<1>7. \/ exec'[w].pc = "fail" /\ UNCHANGED object
      \/ /\ exec'[w].pc = "done"
         /\ object' = object \cup {<<exec[w].bucket, exec[w].path>>}
         /\ exec[w].bucket = bak[exec[w].b].bucket \/ "reconfigured" \in odd'
  <2>1. CASE B!To(w, "fail") /\ UNCHANGED object
    BY <1>5, <2>1
  <2>2. CASE /\ B!To(w, "done") /\ object' = object \cup {<<exec[w].bucket, exec[w].path>>}
             /\ IF exec[w].bucket # bak[exec[w].b].bucket THEN B!Note("reconfigured") ELSE UNCHANGED odd
    <3>1. exec'[w].pc = "done"
      BY <1>1, <1>3, <2>2, JobTypes DEF ExecPC
    <3>2. exec[w].bucket = bak[exec[w].b].bucket \/ "reconfigured" \in odd'
      BY <2>2, AsideTypes DEF Oddities
    <3> QED
      BY <2>2, <3>1, <3>2
  <2> QED
    BY <1>4, <2>1, <2>2
<1>8. object' \subseteq Buckets \X B!Path
  BY <1>3, <1>7
<1>9. Typed'
  BY <1>1, <1>2, <1>5, <1>6, <1>8, GoingTypes, AsideTypes, RowsSame DEF Aside
<1> QED
  BY <1>1, <1>5, <1>6, <1>7, <1>9 DEF Uploaded

Written(w, from, st, to) ==
  /\ Going(w) /\ Aside /\ UNCHANGED <<object, queue>> /\ odd \subseteq odd'
  /\ exec[w].pc = from /\ exec'[w].pc = to /\ SamePath(w) /\ SameTodo(w)
  /\ \/ RowIs(exec[w].b, st, exec[w].path, bak[exec[w].b].gone)
     \/ UNCHANGED bak /\ "halted" \in odd'
LEMMA WriteTypes ==
  ASSUME Typed, NEW w \in Workers, B!Fail(w) \/ B!Complete(w)
  PROVE  /\ Typed'
         /\ B!Fail(w) => Written(w, "fail", "failed", "ack")
         /\ B!Complete(w) => Written(w, "done", "completed", "list")
<1>1. PICK from, st, to :
        /\ \/ from = "fail" /\ st = "failed" /\ to = "ack" /\ B!Fail(w)
           \/ from = "done" /\ st = "completed" /\ to = "list" /\ B!Complete(w)
        /\ exec[w].pc = from /\ B!Write(w, st) /\ B!To(w, to) /\ Aside /\ UNCHANGED <<object, queue>>
  BY DEF B!Fail, B!Complete, B!Others, Aside
<1>2. PICK b \in Backups : Backup(w, b)
  BY <1>1, HasBackup
<1>3. exec[w].path \in B!Path
  BY DEF Typed, B!TypeOK, B!Exec
<1>4. /\ RowsStay /\ rest' \in 0..MaxEvents /\ odd \subseteq odd' /\ odd' \subseteq Oddities
      /\ \/ RowIs(b, st, exec[w].path, bak[b].gone)
         \/ UNCHANGED bak /\ "halted" \in odd'
  <2>1. CASE /\ UNCHANGED <<rest, odd>>
             /\ bak' = [bak EXCEPT ![exec[w].b].st = st, ![exec[w].b].path = exec[w].path]
    <3>1. st \in RowState /\ st # "none" /\ exec[w].b = b /\ bak[b].st # "none"
      BY <1>1, <1>2 DEF RowState, Backup
    <3>2. RowIs(b, st, exec[w].path, bak[b].gone)
      BY <1>3, <2>1, <3>1, RowEnds DEF Typed
    <3>3. RowsStay
      BY <3>1, <3>2, RowsMove
    <3> QED
      BY <2>1, <3>2, <3>3, AsideTypes
  <2>2. CASE /\ UNCHANGED bak /\ B!Note("halted")
             /\ UNCHANGED rest \/ B!Spend("fault")
    BY <2>2, AsideTypes, RowsSame DEF Oddities
  <2> QED
    BY <1>1, <2>1, <2>2 DEF B!Write
<1>5. Going(w) /\ SamePath(w) /\ SameTodo(w) /\ exec'[w].pc = to
  BY <1>1, JobTypes DEF ExecPC, Mid
<1>6. Typed'
  BY <1>1, <1>4, <1>5, GoingTypes, AsideTypes DEF Aside
<1>7. Written(w, from, st, to)
  BY <1>1, <1>2, <1>4, <1>5 DEF Written, Backup
<1>8. ~ (B!Fail(w) /\ B!Complete(w))
  BY DEF B!Fail, B!Complete
<1> QED
  BY <1>1, <1>6, <1>7, <1>8

Old(w) == {b \in B!Listed : bak[b].st = "completed" /\ B!Beyond(b, exec[w].keep)}
OldListed(w) ==
  /\ Going(w) /\ Aside /\ UNCHANGED <<bak, object, queue>> /\ odd \subseteq odd'
  /\ exec[w].pc = "list" /\ SamePath(w) /\ exec[w].keep \in Keeps
  /\ \/ /\ exec'[w].pc \in {"ack", "prune"} /\ exec'[w].todo = Old(w)
        /\ (\E b \in Old(w) : B!Crowded(b)) => "crowded" \in odd'
     \/ exec'[w].pc = "ack" /\ SameTodo(w)
LEMMA ListTypes ==
  ASSUME Typed, NEW w \in Workers, B!ListOld(w)
  PROVE  Typed' /\ OldListed(w)
<1>1. Aside /\ UNCHANGED <<bak, object, queue>> /\ exec[w].pc = "list"
  BY DEF B!ListOld, B!Others, Aside
<1>2. exec \in [Workers -> B!Exec] /\ exec[w] \in B!Exec
  BY DEF Typed, B!TypeOK
<1>3. rest' \in 0..MaxEvents /\ exec[w].keep \in Keeps
  BY <1>2, AsideTypes DEF B!ListOld, B!Exec
<1>4. Going(w) /\ SamePath(w) /\ odd \subseteq odd' /\ odd' \subseteq Oddities
      /\ \/ /\ exec'[w].pc \in {"ack", "prune"} /\ exec'[w].todo = Old(w)
            /\ (\E b \in Old(w) : B!Crowded(b)) => "crowded" \in odd'
         \/ exec'[w].pc = "ack" /\ SameTodo(w)
  <2>1. CASE B!To(w, "ack") /\ UNCHANGED odd
    BY <1>1, <2>1, JobTypes, AsideTypes DEF ExecPC, Mid
  <2>2. CASE /\ exec' = [exec EXCEPT ![w].pc = IF Old(w) = {} THEN "ack" ELSE "prune", ![w].todo = Old(w)]
             /\ IF \E b \in Old(w) : B!Crowded(b) THEN B!Note("crowded") ELSE UNCHANGED odd
    <3>1. PICK pc, todo : pc = (IF Old(w) = {} THEN "ack" ELSE "prune") /\ todo = Old(w)
      OBVIOUS
    <3>2. todo \subseteq Backups /\ pc \in {"ack", "prune"} /\ (pc = "prune" => todo # {})
      BY <3>1 DEF Old, B!Listed
    <3>3. PICK e : e = [exec[w] EXCEPT !.pc = pc, !.todo = todo]
      OBVIOUS
    <3>4. /\ e \in B!Exec /\ e.pc = pc /\ e.bucket = exec[w].bucket /\ e.b = exec[w].b
          /\ e.n = exec[w].n /\ e.path = exec[w].path /\ e.todo = todo
      BY <1>2, <3>2, <3>3 DEF B!Exec
    <3>5. exec' = [exec EXCEPT ![w] = e]
      BY <1>2, <2>2, <3>1, <3>3
    <3>6. JobIs(w, e)
      BY <1>2, <3>4, <3>5 DEF JobIs
    <3>7. odd \subseteq odd' /\ odd' \subseteq Oddities /\ ((\E b \in Old(w) : B!Crowded(b)) => "crowded" \in odd')
      BY <2>2, AsideTypes DEF Oddities
    <3>8. Going(w) /\ SamePath(w)
      BY <1>1, <3>2, <3>4, <3>6 DEF Going, JobIs, SamePath, Mid
    <3> QED
      BY <3>1, <3>2, <3>4, <3>6, <3>7, <3>8 DEF JobIs
  <2> QED
    BY <2>1, <2>2 DEF B!ListOld, Old
<1>5. Typed'
  BY <1>1, <1>3, <1>4, GoingTypes, AsideTypes, RowsSame DEF Aside
<1> QED
  BY <1>1, <1>3, <1>4, <1>5 DEF OldListed

Pruned(w) ==
  /\ Going(w) /\ Aside /\ UNCHANGED <<bak, queue, odd>>
  /\ exec[w].pc = "prune" /\ exec'[w].pc = "forget" /\ SamePath(w) /\ SameTodo(w)
  /\ \/ UNCHANGED object
     \/ \E t \in Backups : B!Target(w, t) /\ object' = object \ {<<exec[w].bucket, bak[t].path>>}
LEMMA PruneTypes ==
  ASSUME Typed, NEW w \in Workers, B!Prune(w)
  PROVE  Typed' /\ Pruned(w)
<1>1. Aside /\ UNCHANGED <<bak, queue, odd>> /\ exec[w].pc = "prune" /\ B!To(w, "forget")
  BY DEF B!Prune, B!Others, Aside
<1>2. rest' \in 0..MaxEvents /\ odd' \subseteq Oddities
  BY <1>1, AsideTypes DEF B!Prune
<1>3. exec[w].todo # {}
  BY <1>1 DEF Typed, CallTyped
<1>4. Going(w) /\ exec'[w].pc = "forget" /\ SamePath(w) /\ SameTodo(w)
  BY <1>1, <1>3, JobTypes DEF ExecPC, Mid
<1>5. \/ UNCHANGED object
      \/ \E t \in Backups : B!Target(w, t) /\ object' = object \ {<<exec[w].bucket, bak[t].path>>}
  BY DEF B!Prune
<1>6. object' \subseteq Buckets \X B!Path
  BY <1>5 DEF Typed, B!TypeOK
<1>7. Typed'
  BY <1>1, <1>2, <1>4, <1>6, GoingTypes, AsideTypes, RowsSame DEF Aside
<1> QED
  BY <1>1, <1>4, <1>5, <1>7 DEF Pruned

Forgot(w, t) ==
  /\ Going(w) /\ Aside /\ UNCHANGED <<object, queue>> /\ odd \subseteq odd'
  /\ exec[w].pc = "forget" /\ exec'[w].pc \in {"ack", "prune"} /\ SamePath(w)
  /\ B!Target(w, t) /\ exec'[w].todo = exec[w].todo \ {t}
  /\ \/ RowIs(t, bak[t].st, bak[t].path, TRUE)
     \/ UNCHANGED bak /\ "halfpruned" \in odd'
LEMMA ForgetTypes ==
  ASSUME Typed, NEW w \in Workers, B!Forget(w)
  PROVE  Typed' /\ \E t \in Backups : Forgot(w, t)
<1>1. Aside /\ UNCHANGED <<object, queue>> /\ exec[w].pc = "forget"
  BY DEF B!Forget, B!Others, Aside
<1>2. exec \in [Workers -> B!Exec] /\ exec[w] \in B!Exec
  BY DEF Typed, B!TypeOK
<1>3. PICK t \in Backups :
        /\ B!Target(w, t)
        /\ \/ bak' = [bak EXCEPT ![t].gone = TRUE] /\ UNCHANGED <<rest, odd>>
           \/ UNCHANGED <<bak, rest>> /\ B!Note("halfpruned")
           \/ B!Spend("fault") /\ UNCHANGED bak /\ B!Note("halfpruned")
        /\ exec' = [exec EXCEPT ![w].todo = @ \ {t},
                                ![w].pc = IF exec[w].todo = {t} THEN "ack" ELSE "prune"]
  BY DEF B!Forget
<1>4. PICK pc, todo : pc = (IF exec[w].todo = {t} THEN "ack" ELSE "prune") /\ todo = exec[w].todo \ {t}
  OBVIOUS
<1>5. exec[w].todo \subseteq Backups /\ t \in exec[w].todo
  BY <1>2, <1>3 DEF B!Exec, B!Target
<1>6. todo \subseteq Backups /\ pc \in {"ack", "prune"} /\ (pc = "prune" => todo # {})
  BY <1>4, <1>5
<1>7. PICK e : e = [exec[w] EXCEPT !.todo = todo, !.pc = pc]
  OBVIOUS
<1>8. /\ e \in B!Exec /\ e.pc = pc /\ e.bucket = exec[w].bucket /\ e.b = exec[w].b
      /\ e.n = exec[w].n /\ e.path = exec[w].path /\ e.todo = todo
  BY <1>2, <1>6, <1>7 DEF B!Exec
<1>9. exec' = [exec EXCEPT ![w] = e]
  BY <1>2, <1>3, <1>4, <1>7
<1>10. JobIs(w, e)
  BY <1>2, <1>8, <1>9 DEF JobIs
<1>11. Going(w) /\ SamePath(w) /\ exec'[w].pc = pc /\ exec'[w].todo = todo
  BY <1>1, <1>6, <1>8, <1>10 DEF Going, JobIs, SamePath, Mid
<1>12. bak[t].st \in RowState
  BY DEF Typed, B!TypeOK, B!Backup, RowState
<1>13. /\ RowsStay
       /\ \/ RowIs(t, bak[t].st, bak[t].path, TRUE)
          \/ UNCHANGED bak /\ "halfpruned" \in odd'
  <2>1. CASE bak' = [bak EXCEPT ![t].gone = TRUE]
    <3>1. RowIs(t, bak[t].st, bak[t].path, TRUE)
      BY <2>1, RowGoes DEF Typed
    <3> QED
      BY <3>1 DEF RowIs, RowsStay
  <2>2. CASE UNCHANGED bak /\ B!Note("halfpruned")
    BY <2>2, RowsSame, AsideTypes DEF Oddities
  <2> QED
    BY <1>3, <2>1, <2>2
<1>14. rest' \in 0..MaxEvents /\ odd \subseteq odd' /\ odd' \subseteq Oddities
  BY <1>3, AsideTypes DEF Oddities
<1>15. Typed'
  BY <1>1, <1>11, <1>13, <1>14, GoingTypes, AsideTypes DEF Aside
<1>16. Forgot(w, t)
  BY <1>1, <1>3, <1>4, <1>6, <1>11, <1>13, <1>14 DEF Forgot
<1> QED
  BY <1>15, <1>16

(* The end of a job                                                        *)
Acked(w) ==
  /\ JobOver(w) /\ Aside /\ UNCHANGED <<bak, object, odd>> /\ exec[w].pc = "ack"
  /\ UNCHANGED queue \/ MessageIs(exec[w].b, "deleted")
Nacked(w) ==
  /\ JobOver(w) /\ Aside /\ UNCHANGED <<bak, object>> /\ odd \subseteq odd' /\ exec[w].pc = "nack"
  /\ UNCHANGED queue \/ (MessageIs(exec[w].b, "archived") /\ "halted" \in odd')
Crashed(w) ==
  /\ JobOver(w) /\ UNCHANGED <<clock, cfg, save, bak, object, queue>> /\ odd \subseteq odd'
  /\ \A c \in Callers \ {w} : call'[c] = call[c]
  /\ call'[w].pc = "free" /\ call'[w].b = 0 /\ call'[w].at = 0
  /\ call[w].pc \in {"enqueue", "undo"} => "halted" \in odd'
  /\ exec[w].pc = "forget" => "halfpruned" \in odd'
Resigned(w) ==
  /\ \A v \in Workers \ {w} : proc'[v] = proc[v]
  /\ ~ proc'[w].leader /\ proc'[w].ticks = 0
  /\ lock' = lock \/ (lock = w /\ lock' = 0)
LEMMA ResignTypes ==
  ASSUME Typed, NEW w \in Workers, B!Resign(w)
  PROVE  /\ proc' \in [Workers -> [leader : BOOLEAN, ticks : 0..2]] /\ lock' \in Workers \cup {0}
         /\ Resigned(w)
BY DEF Typed, B!TypeOK, B!Resign, Resigned

LEMMA EndTypes ==
  ASSUME Typed, NEW w \in Workers, B!Ack(w) \/ B!Nack(w)
  PROVE  Typed' /\ (B!Ack(w) => Acked(w)) /\ (B!Nack(w) => Nacked(w))
<1>1. Aside /\ UNCHANGED <<bak, object>> /\ exec' = [exec EXCEPT ![w] = B!NoExec] /\ exec[w].pc # "idle"
  BY DEF B!Ack, B!Nack, B!Others, Aside
<1>2. PICK b \in Backups : Backup(w, b)
  BY <1>1, HasBackup
<1>3. JobOver(w)
  BY <1>1, JobEnds DEF JobOver, Typed
<1>4. CASE B!Ack(w)
  <2>1. UNCHANGED odd /\ (UNCHANGED queue \/ MessageIs(b, "deleted"))
    BY <1>2, <1>4, MessageSteps DEF B!Ack, Backup, Typed
  <2>2. rest' \in 0..MaxEvents /\ odd' \subseteq Oddities
    BY <1>4, <2>1, AsideTypes DEF B!Ack
  <2>3. \/ UNCHANGED queue
        \/ \E a \in Backups, st \in {"deleted", "archived"} : exec[w].b = a /\ MessageIs(a, st)
    BY <1>2, <2>1 DEF Backup
  <2>4. Typed'
    BY <1>1, <1>3, <2>2, <2>3, EndingTypes, AsideTypes DEF Aside
  <2> QED
    BY <1>1, <1>2, <1>3, <1>4, <2>1, <2>4 DEF B!Ack, B!Nack, Acked, Backup
<1>5. CASE B!Nack(w)
  <2>1. \/ UNCHANGED <<queue, odd>>
        \/ MessageIs(b, "archived") /\ B!Note("halted")
    BY <1>2, <1>5, MessageSteps DEF B!Nack, Backup, Typed
  <2>2. rest' \in 0..MaxEvents /\ odd' \subseteq Oddities /\ odd \subseteq odd'
        /\ (UNCHANGED queue \/ (MessageIs(b, "archived") /\ "halted" \in odd'))
    BY <1>5, <2>1, AsideTypes DEF B!Nack, Oddities
  <2>3. \/ UNCHANGED queue
        \/ \E a \in Backups, st \in {"deleted", "archived"} : exec[w].b = a /\ MessageIs(a, st)
    BY <1>2, <2>1 DEF Backup
  <2>4. Typed'
    BY <1>1, <1>3, <2>2, <2>3, EndingTypes, AsideTypes DEF Aside
  <2> QED
    BY <1>1, <1>2, <1>3, <1>5, <2>2, <2>4 DEF B!Ack, B!Nack, Nacked, Backup
<1> QED
  BY <1>4, <1>5

LEMMA CrashTypes ==
  ASSUME Typed, NEW w \in Workers, B!Crash(w)
  PROVE  Typed' /\ Crashed(w) /\ Resigned(w)
<1>1. /\ UNCHANGED <<clock, cfg, save, bak, object, queue>> /\ exec' = [exec EXCEPT ![w] = B!NoExec]
      /\ call' = [call EXCEPT ![w] = B!NoCall] /\ w \in Callers
      /\ odd' = odd \cup (IF call[w].pc \in {"enqueue", "undo"} THEN {"halted"} ELSE {})
                    \cup (IF exec[w].pc = "forget" THEN {"halfpruned"} ELSE {})
  BY DEF B!Crash, Callers
<1>2. JobOver(w)
  BY <1>1, JobEnds DEF JobOver, Typed
<1>3. /\ call' \in [B!Callers -> B!Call] /\ \A c \in Callers \ {w} : call'[c] = call[c]
      /\ call'[w].pc = "free" /\ call'[w].b = 0 /\ call'[w].at = 0
  BY <1>1, CallEnds DEF Typed
<1>4. rest' \in 0..MaxEvents
  BY AsideTypes DEF B!Crash
<1>5. /\ odd' \subseteq Oddities /\ odd \subseteq odd'
      /\ call[w].pc \in {"enqueue", "undo"} => "halted" \in odd'
      /\ exec[w].pc = "forget" => "halfpruned" \in odd'
  BY <1>1 DEF Typed, B!TypeOK, Oddities
<1>6. /\ proc' \in [Workers -> [leader : BOOLEAN, ticks : 0..2]] /\ lock' \in Workers \cup {0}
      /\ Resigned(w)
  BY ResignTypes DEF B!Crash
<1>7. Typed'
  BY <1>1, <1>2, <1>3, <1>4, <1>5, <1>6, EndingTypes
<1> QED
  BY <1>1, <1>2, <1>3, <1>5, <1>6, <1>7 DEF Crashed

(* The context of a job is cancelled.                                      *)
WasCut(w) ==
  /\ Going(w) /\ exec'[w].pc = exec[w].pc /\ SamePath(w) /\ SameTodo(w)
  /\ UNCHANGED <<clock, cfg, save, call, bak, object, queue, odd>>
LEMMA CutTypes ==
  ASSUME Typed, NEW w \in Workers, B!Timeout(w) \/ B!Shutdown(w)
  PROVE  Typed' /\ WasCut(w) /\ (UNCHANGED <<proc, lock>> \/ Resigned(w))
<1>1. /\ UNCHANGED <<clock, cfg, save, call, bak, object, queue, odd>>
      /\ exec[w].pc \notin {"idle", "ack", "nack"} /\ exec' = [exec EXCEPT ![w].cut = TRUE]
  BY DEF B!Timeout, B!Shutdown, B!Cut, B!Others
<1>2. exec \in [Workers -> B!Exec] /\ exec[w] \in B!Exec
  BY DEF Typed, B!TypeOK
<1>3. PICK e : e = [exec[w] EXCEPT !.cut = TRUE]
  OBVIOUS
<1>4. /\ e \in B!Exec /\ e.pc = exec[w].pc /\ e.bucket = exec[w].bucket /\ e.b = exec[w].b
      /\ e.n = exec[w].n /\ e.path = exec[w].path /\ e.todo = exec[w].todo
  BY <1>2, <1>3 DEF B!Exec
<1>5. exec' = [exec EXCEPT ![w] = e]
  BY <1>1, <1>2, <1>3
<1>6. JobIs(w, e)
  BY <1>2, <1>4, <1>5 DEF JobIs
<1>7. /\ exec[w].todo \subseteq Backups
      /\ exec[w].pc \in {"prune", "forget"} => exec[w].todo # {}
      /\ exec[w].pc \in Mid => exec[w].bucket \in Buckets
  BY <1>2 DEF B!Exec, Typed, CallTyped
<1>8. WasCut(w)
  <2>1. Going(w)
    BY <1>1, <1>4, <1>6, <1>7 DEF Going, JobIs
  <2> QED
    BY <1>1, <1>4, <1>6, <2>1 DEF WasCut, JobIs, SamePath, SameTodo
<1>9. rest' \in 0..MaxEvents /\ odd' \subseteq Oddities /\ object' \subseteq Buckets \X B!Path
  BY <1>1, AsideTypes DEF B!Timeout, B!Shutdown
<1>10. /\ proc' \in [Workers -> [leader : BOOLEAN, ticks : 0..2]] /\ lock' \in Workers \cup {0}
       /\ UNCHANGED <<proc, lock>> \/ Resigned(w)
  <2>1. UNCHANGED <<proc, lock>> \/ B!Resign(w)
    BY DEF B!Timeout, B!Shutdown, B!Others
  <2> QED
    BY <2>1, ResignTypes DEF Typed, B!TypeOK
<1>11. RowsStay
  BY <1>1, RowsSame
<1>12. Typed'
  BY <1>1, <1>8, <1>9, <1>10, <1>11, GoingTypes DEF WasCut
<1> QED
  BY <1>8, <1>10, <1>12

Redelivered(b) ==
  /\ Aside /\ UNCHANGED <<bak, object, exec, odd>> /\ MessageIs(b, "visible") /\ queue[b].st = "hidden"
  /\ \A w \in Workers : exec[w].b # b
LEMMA RedeliverTypes ==
  ASSUME Typed, NEW b \in Backups, B!Redeliver(b)
  PROVE  Typed' /\ Redelivered(b)
<1>1. Redelivered(b) /\ UNCHANGED rest
  BY MessageSteps DEF B!Redeliver, B!Others, Aside, Redelivered, Typed
<1>2. B!TypeOK'
  BY <1>1 DEF Typed, B!TypeOK, Redelivered, Aside, MessageIs
<1>3. CallTyped'
  BY <1>1 DEF Typed, CallTyped, Redelivered, Aside
<1>4. QueueInv'
  BY <1>1 DEF Typed, QueueInv, Redelivered, Aside, MessageIs
<1> QED
  BY <1>1, <1>2, <1>3, <1>4 DEF Typed

-----------------------------------------------------------------------------
(* What can happen *)

Led(w) == B!Elect(w) \/ B!StepDown(w)
Passed == B!SessionLost \/ B!Minute \/ B!BeginSave \/ \E k \in B!Keys : B!SaveKey(k)
Called(c) ==
  \/ c \in Workers /\ B!Tick(c)
  \/ c \in Users /\ B!UserAsks(c)
  \/ B!Create(c) \/ B!Enqueue(c) \/ B!Undo(c)
Worked(w) ==
  \/ Loaded(w) \/ Marked(w) \/ Dumped(w) \/ Uploaded(w)
  \/ Written(w, "fail", "failed", "ack") \/ Written(w, "done", "completed", "list")
  \/ OldListed(w) \/ Pruned(w) \/ \E t \in Backups : Forgot(w, t)
JobEnded(w) == Acked(w) \/ Nacked(w) \/ (Crashed(w) /\ Resigned(w))
Halted(w) == WasCut(w) /\ (UNCHANGED <<proc, lock>> \/ Resigned(w))
Fetched(w, b) ==
  /\ Aside /\ UNCHANGED <<bak, object, odd>> /\ MessageIs(b, "hidden") /\ bak[b].st # "none"
  /\ exec[w].pc = "idle" /\ exec'[w].pc = "load" /\ exec'[w].b = b /\ exec'[w].todo = {}
  /\ exec'[w].path = B!NoPath
  /\ \A v \in Workers \ {w} : exec'[v] = exec[v] /\ exec[v].b # b

LEMMA BackupSteps ==
  ASSUME Typed, [B!Next]_backupVars
  PROVE  /\ Typed'
         /\ \/ UNCHANGED backupVars \/ Passed
            \/ \E w \in Workers : \/ Led(w) \/ Worked(w) \/ JobEnded(w) \/ Halted(w)
                                  \/ \E b \in Backups : Fetched(w, b)
            \/ \E c \in Callers : Called(c)
            \/ \E b \in Backups : Redelivered(b)
<1>1. CASE UNCHANGED backupVars
  <2>1. UNCHANGED <<clock, lock, proc, cfg, save, call, bak, object, queue, exec, rest, odd>>
    BY <1>1 DEF backupVars
  <2>2. B!TypeOK'
    BY <2>1 DEF Typed, B!TypeOK
  <2>3. CallTyped' /\ QueueInv'
    BY <2>1 DEF Typed, CallTyped, QueueInv
  <2> QED
    BY <1>1, <2>2, <2>3 DEF Typed
<1>2. CASE Passed \/ \E w \in Workers : Led(w)
  BY <1>2, LeaderTypes DEF Led, Passed
<1>3. ASSUME NEW c \in Callers, Called(c)
      PROVE  Typed' /\ \E d \in Callers : Called(d)
  BY <1>3, AskTypes, TriggerTypes DEF Called
<1>4. ASSUME NEW w \in Workers, B!JobNext(w)
      PROVE  Typed' /\ \E v \in Workers : Worked(v) \/ JobEnded(v) \/ Halted(v)
  <2>1. CASE B!Load(w) \/ B!Mark(w) \/ B!Dump(w) \/ B!Upload(w) \/ B!Fail(w) \/ B!Complete(w)
             \/ B!ListOld(w) \/ B!Prune(w) \/ B!Forget(w)
    BY <2>1, LoadTypes, MarkTypes, DumpTypes, UploadTypes, WriteTypes, ListTypes, PruneTypes, ForgetTypes
    DEF Worked
  <2>2. CASE B!Ack(w) \/ B!Nack(w) \/ B!Crash(w)
    BY <2>2, EndTypes, CrashTypes DEF JobEnded
  <2>3. CASE B!Timeout(w) \/ B!Shutdown(w)
    BY <2>3, CutTypes DEF Halted
  <2> QED
    BY <1>4, <2>1, <2>2, <2>3 DEF B!JobNext
<1>5. ASSUME NEW w \in Workers, NEW b \in Backups, B!Fetch(w, b)
      PROVE  Typed' /\ Fetched(w, b)
  <2>1. Aside /\ UNCHANGED <<bak, object, odd>>
    BY <1>5 DEF B!Fetch, B!Others, Aside
  <2> QED
    BY <1>5, <2>1, FetchTypes DEF Fetched
<1>6. ASSUME NEW b \in Backups, B!Redeliver(b)
      PROVE  Typed' /\ Redelivered(b)
  BY <1>6, RedeliverTypes
<1>7. \/ UNCHANGED backupVars \/ Passed
      \/ \E w \in Workers : Led(w) \/ B!JobNext(w) \/ \E b \in Backups : B!Fetch(w, b)
      \/ \E c \in Callers : Called(c)
      \/ \E b \in Backups : B!Redeliver(b)
  <2>1. CASE B!LeaderNext
    BY <2>1 DEF B!LeaderNext, Led, Passed, Called, Callers
  <2>2. CASE B!CallNext
    BY <2>2 DEF B!CallNext, Passed, Called, Callers, B!Callers
  <2>3. CASE UNCHANGED B!vars
    BY <2>3 DEF B!vars, backupVars
  <2> QED
    BY <2>1, <2>2, <2>3 DEF B!Next, backupVars
<1> QED
  BY <1>1, <1>2, <1>3, <1>4, <1>5, <1>6, <1>7

-----------------------------------------------------------------------------
(* One backup for a scheduled minute *)

(* Most steps leave alone who leads, what was asked and for which minute.  *)
SameMinutes ==
  /\ UNCHANGED <<clock, call>> /\ odd \subseteq odd'
  /\ \A b \in Backups : bak'[b].at = bak[b].at
SameLeaders ==
  /\ lock' = lock /\ \A w \in Workers : proc'[w].leader = proc[w].leader
SameTicks == \A w \in Workers : proc'[w].ticks = proc[w].ticks

LEMMA Unminuted ==
  ASSUME Typed
  PROVE  /\ UNCHANGED backupVars => SameMinutes /\ SameLeaders /\ SameTicks
         /\ \A w \in Workers : Worked(w) => SameMinutes /\ SameLeaders /\ SameTicks
         /\ \A w \in Workers : Acked(w) \/ Nacked(w) => SameMinutes /\ SameLeaders /\ SameTicks
         /\ \A w \in Workers : Halted(w) => SameMinutes /\ ((SameLeaders /\ SameTicks) \/ Resigned(w))
         /\ \A w \in Workers, b \in Backups : Fetched(w, b) => SameMinutes /\ SameLeaders /\ SameTicks
         /\ \A b \in Backups : Redelivered(b) => SameMinutes /\ SameLeaders /\ SameTicks
<1>1. ASSUME NEW w \in Workers, Worked(w) PROVE SameMinutes /\ SameLeaders /\ SameTicks
  <2>1. Aside /\ odd \subseteq odd'
    BY <1>1 DEF Worked, Loaded, Marked, Dumped, Uploaded, Written, OldListed, Pruned, Forgot
  <2>2. UNCHANGED bak \/ \E b, st, path, gone : RowIs(b, st, path, gone)
    BY <1>1 DEF Worked, Loaded, Marked, Dumped, Uploaded, Written, OldListed, Pruned, Forgot
  <2>3. \A b \in Backups : bak'[b].at = bak[b].at
    BY <2>2 DEF RowIs
  <2> QED
    BY <2>1, <2>3 DEF Aside, SameMinutes, SameLeaders, SameTicks
<1> QED
  BY <1>1 DEF Halted, WasCut, Acked, Nacked, Fetched, Redelivered, Aside, backupVars, SameMinutes,
              SameLeaders, SameTicks

LEMMA LeadStep ==
  ASSUME Typed, [B!Next]_backupVars, LeadInv, OneLeads
  PROVE  LeadInv' /\ OneLeads'
<1>1. CASE SameLeaders /\ odd \subseteq odd'
  BY <1>1 DEF SameLeaders, LeadInv, OneLeads
<1>2. ASSUME NEW w \in Workers, Resigned(w), odd \subseteq odd' PROVE LeadInv' /\ OneLeads'
  BY <1>2, BackupsAssumption DEF Resigned, LeadInv, OneLeads
<1>3. ASSUME NEW w \in Workers, B!Elect(w) PROVE LeadInv' /\ OneLeads'
  <2>1. /\ lock = 0 /\ lock' = w /\ odd \subseteq odd' /\ proc' = [proc EXCEPT ![w].leader = TRUE]
        /\ B!Rivals(w) # {} => "moved" \in odd'
    BY <1>3 DEF B!Elect, B!Granted, B!Note
  <2>2. \A v \in Workers \ {w} : proc'[v].leader = proc[v].leader
    BY <2>1 DEF Typed, B!TypeOK
  <2>3. LeadInv'
    BY <2>1, <2>2, BackupsAssumption DEF LeadInv
  <2>4. "moved" \notin odd' => \A v \in Workers \ {w} : ~ proc[v].leader
    BY <2>1 DEF B!Rivals
  <2>5. OneLeads'
    BY <2>2, <2>4 DEF OneLeads
  <2> QED
    BY <2>3, <2>5
<1>4. ASSUME NEW w \in Workers, B!StepDown(w) PROVE LeadInv' /\ OneLeads'
  <2>1. UNCHANGED <<lock, odd>> /\ proc' = [proc EXCEPT ![w].leader = FALSE]
    BY <1>4 DEF B!StepDown
  <2>2. ~ proc'[w].leader /\ \A v \in Workers \ {w} : proc'[v].leader = proc[v].leader
    BY <2>1 DEF Typed, B!TypeOK
  <2> QED
    BY <2>1, <2>2 DEF LeadInv, OneLeads
<1>5. CASE Passed
  <2>1. CASE B!SessionLost
    BY <2>1 DEF B!SessionLost, B!Note, LeadInv, OneLeads
  <2>2. CASE B!Minute
    <3>1. \A w \in Workers : proc'[w].leader = proc[w].leader
      BY <2>2 DEF B!Minute, Typed, B!TypeOK
    <3> QED
      BY <2>2, <3>1, <1>1 DEF B!Minute, SameLeaders
  <2>3. CASE UNCHANGED <<lock, proc, odd>>
    BY <2>3 DEF LeadInv, OneLeads
  <2> QED
    BY <1>5, <2>1, <2>2, <2>3 DEF Passed, B!BeginSave, B!SaveKey
<1>6. ASSUME NEW c \in Callers, Called(c) PROVE SameLeaders /\ odd \subseteq odd'
  <2>1. CASE c \in Workers /\ B!Tick(c)
    BY <2>1 DEF B!Tick, B!Note, SameLeaders, Typed, B!TypeOK
  <2>2. CASE UNCHANGED <<lock, proc>> /\ odd \subseteq odd'
    BY <2>2 DEF SameLeaders
  <2> QED
    BY <1>6, <2>1, <2>2 DEF Called, B!UserAsks, B!Create, B!Enqueue, B!Undo, B!Note
<1>7. ASSUME NEW w \in Workers, JobEnded(w) PROVE LeadInv' /\ OneLeads'
  BY <1>1, <1>2, <1>7, Unminuted DEF JobEnded, Crashed, SameMinutes
<1>8. ASSUME NEW w \in Workers, Halted(w) PROVE LeadInv' /\ OneLeads'
  BY <1>1, <1>2, <1>8, Unminuted DEF SameMinutes
<1> QED
  BY <1>1, <1>3, <1>4, <1>5, <1>6, <1>7, <1>8, BackupSteps, Unminuted DEF Led, SameMinutes

(* Nothing asks for a minute before the clock comes to it, and nothing but *)
(* the schedule asks for one.                                              *)
MinuteInv == Past /\ Named
LEMMA MinuteStep ==
  ASSUME Typed, [B!Next]_backupVars, MinuteInv
  PROVE  MinuteInv'
<1> USE DEF MinuteInv
<1>1. /\ clock \in 1..Minutes /\ \A c \in Callers : call[c].at \in 0..Minutes
      /\ \A b \in Backups : bak[b].at \in 0..Minutes
  BY DEF Typed, B!TypeOK, B!Callers, Callers, B!Call, B!Backup
<1>2. CASE SameMinutes
  BY <1>2 DEF SameMinutes, Past, Named
<1>3. CASE UNCHANGED <<clock, call, bak>>
  BY <1>3 DEF Past, Named
<1>4. CASE B!Minute
  <2>1. clock' = clock + 1 /\ UNCHANGED <<call, bak>>
    BY <1>4 DEF B!Minute, B!Job
  <2>2. Past'
    <3>1. \A n \in 0..Minutes : n <= clock => n <= clock'
      BY <1>1, <2>1, BackupsAssumption
    <3> QED
      BY <1>1, <2>1, <3>1 DEF Past
  <2>3. Named'
    BY <2>1 DEF Named
  <2> QED
    BY <2>2, <2>3
<1>5. ASSUME NEW c \in Callers, (c \in Workers /\ B!Tick(c)) \/ (c \in Users /\ B!UserAsks(c))
      PROVE  MinuteInv'
  <2>1. /\ UNCHANGED <<clock, bak>>
        /\ UNCHANGED call \/ B!Ask(c, 0)
           \/ (B!Ask(c, clock) /\ B!MatchField(Cron, B!Wall(clock)))
    BY <1>5 DEF B!Tick, B!UserAsks, B!Due, B!Job
  <2>2. CASE UNCHANGED call
    BY <1>3, <2>1, <2>2
  <2>3. ASSUME NEW at \in {0, clock}, B!Ask(c, at), at = 0 \/ B!MatchField(Cron, B!Wall(at))
        PROVE  MinuteInv'
    <3>1. at \in 0..Minutes /\ 0 <= clock /\ at <= clock
      BY <1>1, <2>3, BackupsAssumption
    <3>2. \A d \in Callers \ {c} : call'[d] = call[d]
      BY <2>3, <3>1, Asked DEF Typed
    <3>3. call'[c].at \in {0, at}
      BY <2>3, <3>1, Asked DEF Typed
    <3> QED
      BY <2>1, <2>3, <3>1, <3>2, <3>3 DEF Past, Named
  <2> QED
    BY <2>1, <2>2, <2>3
<1>6. ASSUME NEW c \in Callers, B!Create(c) PROVE MinuteInv'
  <2>1. PICK b \in Backups : Created(c, b)
    BY <1>6, Creates DEF Typed
  <2>2. UNCHANGED clock
    BY <1>6 DEF B!Create
  <2> QED
    BY <2>1, <2>2 DEF Created, CallIs, Past, Named
<1>7. ASSUME NEW c \in Callers, B!Enqueue(c) PROVE MinuteInv'
  <2>1. UNCHANGED <<clock, bak>> /\ call[c].pc = "enqueue"
    BY <1>7 DEF B!Enqueue
  <2>2. call' = [call EXCEPT ![c] = B!NoCall] \/ call' = [call EXCEPT ![c].pc = "undo"]
    BY <1>7 DEF B!Enqueue
  <2>3. call[c].b \in Backups
    BY <2>1 DEF Typed, CallTyped
  <2>4. \A d \in Callers : call'[d].at \in {0, call[d].at}
    BY <2>2, <2>3, CallEnds, CallMoves DEF CallIs, Typed
  <2>5. 0 <= clock
    BY <1>1
  <2> QED
    BY <2>1, <2>4, <2>5 DEF Past, Named
<1>8. ASSUME NEW c \in Callers, B!Undo(c) PROVE MinuteInv'
  <2>1. UNCHANGED clock /\ call[c].pc = "undo" /\ call' = [call EXCEPT ![c] = B!NoCall]
    BY <1>8 DEF B!Undo
  <2>2. PICK b \in Backups : b = call[c].b
    BY <2>1 DEF Typed, CallTyped
  <2>3. RowIs(b, "failed", bak[b].path, bak[b].gone)
    BY <1>8, <2>2, RowMoves DEF B!Undo, B!MarkFailed, RowState, Typed
  <2>4. \A d \in Callers : call'[d].at \in {0, call[d].at}
    BY <2>1, CallEnds DEF Typed
  <2>5. \A a \in Backups : bak'[a].at = bak[a].at
    BY <2>3 DEF RowIs
  <2>6. 0 <= clock
    BY <1>1
  <2> QED
    BY <2>1, <2>4, <2>5, <2>6 DEF Past, Named
<1>9. ASSUME NEW w \in Workers, Crashed(w) PROVE MinuteInv'
  <2>1. 0 <= clock
    BY <1>1
  <2> QED
    BY <1>9, <2>1 DEF Crashed, Past, Named, Callers
<1>10. ASSUME NEW w \in Workers, Led(w) PROVE UNCHANGED <<clock, call, bak>>
  BY <1>10 DEF Led, B!Elect, B!StepDown, B!Job
<1>11. CASE Passed
  BY <1>3, <1>4, <1>11 DEF Passed, B!SessionLost, B!BeginSave, B!SaveKey, B!Job
<1>12. ASSUME NEW c \in Callers, Called(c) PROVE MinuteInv'
  BY <1>5, <1>6, <1>7, <1>8, <1>12 DEF Called
<1>13. ASSUME NEW w \in Workers,
              Led(w) \/ Worked(w) \/ JobEnded(w) \/ Halted(w) \/ \E b \in Backups : Fetched(w, b)
       PROVE  MinuteInv'
  BY <1>2, <1>3, <1>9, <1>10, <1>13, Unminuted DEF JobEnded
<1>14. ASSUME NEW b \in Backups, Redelivered(b) PROVE MinuteInv'
  BY <1>2, <1>14, Unminuted
<1>15. CASE UNCHANGED backupVars
  BY <1>2, <1>15, Unminuted
<1> QED
  BY <1>11, <1>12, <1>13, <1>14, <1>15, BackupSteps

OneStarted ==
  /\ \A w \in Workers : proc[w].leader /\ proc[w].ticks > 0 => Quiet(clock)
  /\ \A b, c \in Backups : bak[b].at # 0 /\ bak[b].at = bak[c].at => b = c
  /\ \A c \in Callers, b \in Backups : call[c].pc = "create" /\ call[c].at # 0 => bak[b].at # call[c].at
  /\ \A c, d \in Callers : call[c].pc = "create" /\ call[d].pc = "create" /\ call[c].at # 0
                             /\ call[c].at = call[d].at => c = d
LEMMA OnceStep ==
  ASSUME Typed, [B!Next]_backupVars, MinuteInv, OneLeads, OnceInv
  PROVE  OnceInv'
<1> SUFFICES ASSUME B!Barring({"moved", "late"})' PROVE OneStarted'
  BY DEF OnceInv, OneStarted
<1>1. odd \subseteq odd' => OneStarted /\ "moved" \notin odd
  BY DEF B!Barring, OnceInv, OneStarted
<1>2. clock \in 1..Minutes
  BY DEF Typed, B!TypeOK
<1>3. CASE SameMinutes /\ SameLeaders /\ SameTicks
  BY <1>1, <1>3 DEF SameMinutes, SameLeaders, SameTicks, OneStarted, Quiet
<1>4. ASSUME NEW w \in Workers, SameMinutes, Resigned(w) PROVE OneStarted'
  BY <1>1, <1>4 DEF SameMinutes, Resigned, OneStarted, Quiet
<1>5. ASSUME NEW w \in Workers, Crashed(w), Resigned(w) PROVE OneStarted'
  <2>1. OneStarted /\ UNCHANGED <<clock, bak>> /\ \A c \in Callers : call'[c] = call[c] \/ call'[c].pc = "free"
    BY <1>1, <1>5 DEF Crashed
  <2>2. \A v \in Workers : proc'[v].leader /\ proc'[v].ticks > 0 => proc[v].leader /\ proc[v].ticks > 0
    BY <1>5 DEF Resigned
  <2> QED
    BY <2>1, <2>2 DEF OneStarted, Quiet
<1>6. ASSUME NEW w \in Workers, B!Elect(w) PROVE OneStarted'
  <2>1. /\ UNCHANGED <<clock, bak, call>> /\ odd \subseteq odd' /\ proc' = [proc EXCEPT ![w].leader = TRUE]
        /\ B!Handled \/ B!Scheduled => "moved" \in odd'
    BY <1>6 DEF B!Elect, B!Note, B!Job
  <2>2. ~ B!Handled /\ ~ B!Scheduled
    BY <2>1 DEF B!Barring
  <2>3. Quiet(clock)
    BY <2>2 DEF B!Handled, B!Scheduled, Quiet, B!Callers, Callers
  <2>4. \A v \in Workers \ {w} : proc'[v] = proc[v]
    BY <2>1 DEF Typed, B!TypeOK
  <2>5. Quiet(clock)'
    BY <2>1, <2>3 DEF Quiet
  <2> QED
    BY <1>1, <2>1, <2>5 DEF OneStarted
<1>7. ASSUME NEW w \in Workers, B!StepDown(w) PROVE OneStarted'
  <2>1. UNCHANGED <<clock, bak, call, odd>> /\ proc' = [proc EXCEPT ![w].leader = FALSE]
    BY <1>7 DEF B!StepDown, B!Job
  <2>2. ~ proc'[w].leader /\ \A v \in Workers \ {w} : proc'[v] = proc[v]
    BY <2>1 DEF Typed, B!TypeOK
  <2> QED
    BY <1>1, <2>1, <2>2 DEF OneStarted, Quiet
<1>8. CASE B!Minute
  <2>1. clock' = clock + 1 /\ UNCHANGED <<call, bak, odd>>
    BY <1>8 DEF B!Minute, B!Job
  <2>2. /\ \A b \in Backups : bak[b].at \in 0..Minutes /\ bak[b].at <= clock
        /\ \A c \in Callers : call[c].at \in 0..Minutes /\ call[c].at <= clock
    BY DEF Typed, B!TypeOK, B!Callers, Callers, B!Call, B!Backup, MinuteInv, Past
  <2>3. /\ \A b \in Backups : bak[b].at # clock'
        /\ \A c \in Callers : call[c].at # clock'
    BY <1>2, <2>1, <2>2
  <2>4. Quiet(clock)'
    BY <2>1, <2>3 DEF Quiet
  <2> QED
    BY <1>1, <2>1, <2>4 DEF OneStarted
<1>9. CASE Passed
  <2>1. CASE UNCHANGED <<clock, call, bak, proc>> /\ odd \subseteq odd'
    BY <1>1, <2>1 DEF OneStarted, Quiet
  <2> QED
    BY <1>8, <1>9, <2>1 DEF Passed, B!SessionLost, B!BeginSave, B!SaveKey, B!Note, B!Job
<1>10. ASSUME NEW w \in Workers, B!Tick(w) PROVE OneStarted'
  <2>1. /\ UNCHANGED <<clock, bak>> /\ odd \subseteq odd' /\ call[w].pc = "free" /\ w \in Callers
        /\ proc' = [proc EXCEPT ![w].ticks = @ - 1] /\ proc[w].ticks > 0
        /\ proc[w].ticks # 2
        /\ UNCHANGED call \/ (proc[w].leader /\ B!Ask(w, clock))
    BY <1>10 DEF B!Tick, B!Note, B!Due, B!Leads, B!Job, B!Barring, Callers
  <2>2. proc[w] \in [leader : BOOLEAN, ticks : 0..2] /\ proc \in [Workers -> [leader : BOOLEAN, ticks : 0..2]]
    BY DEF Typed, B!TypeOK
  <2>3. proc[w].ticks = 1 /\ proc[w].ticks - 1 = 0
    BY <2>1, <2>2
  <2>4. /\ proc'[w].ticks = 0 /\ proc'[w].leader = proc[w].leader
        /\ \A v \in Workers \ {w} : proc'[v] = proc[v]
    BY <2>1, <2>2, <2>3
  <2>5. CASE UNCHANGED call
    BY <1>1, <2>1, <2>4, <2>5 DEF OneStarted, Quiet
  <2>6. CASE proc[w].leader /\ B!Ask(w, clock)
    <3>1. Quiet(clock)
      BY <1>1, <2>1, <2>3, <2>6 DEF OneStarted
    <3>2. \A v \in Workers : ~ (proc'[v].leader /\ proc'[v].ticks > 0)
      BY <1>1, <2>1, <2>4, <2>6 DEF OneLeads
    <3>3. clock \in 0..Minutes
      BY <1>2
    <3>4. /\ \A d \in Callers \ {w} : call'[d] = call[d]
          /\ call'[w].pc = "free" \/ (call'[w].pc = "create" /\ call'[w].at = clock)
      BY <2>1, <2>6, <3>3, Asked DEF Typed
    <3> QED
      BY <1>1, <2>1, <3>1, <3>2, <3>4 DEF OneStarted, Quiet
  <2> QED
    BY <2>1, <2>5, <2>6
<1>11. ASSUME NEW u \in Users, B!UserAsks(u) PROVE OneStarted'
  <2>1. UNCHANGED <<clock, bak, proc, odd>> /\ u \in Callers /\ B!Ask(u, 0)
    BY <1>11 DEF B!UserAsks, B!Job, Callers
  <2>2. 0 \in 0..Minutes /\ clock # 0
    BY <1>2, BackupsAssumption
  <2>3. /\ \A d \in Callers \ {u} : call'[d] = call[d]
        /\ call'[u].at = 0
    BY <2>1, <2>2, Asked DEF Typed
  <2> QED
    BY <1>1, <2>1, <2>2, <2>3 DEF OneStarted, Quiet
<1>12. ASSUME NEW c \in Callers, B!Create(c) PROVE OneStarted'
  <2>1. PICK b \in Backups : Created(c, b)
    BY <1>12, Creates DEF Typed
  <2>2. UNCHANGED <<clock, proc, odd>>
    BY <1>12 DEF B!Create
  <2>3. /\ bak'[b].at = call[c].at /\ call[c].pc = "create" /\ call'[c].pc = "enqueue"
        /\ \A a \in Backups \ {b} : bak'[a] = bak[a]
        /\ \A d \in Callers \ {c} : call'[d] = call[d]
    BY <2>1 DEF Created, CallIs
  <2>4. \A w \in Workers : proc'[w].leader /\ proc'[w].ticks > 0 => Quiet(clock)'
    BY <1>1, <2>2, <2>3 DEF OneStarted, Quiet
  <2>5. \A a, d \in Backups : bak'[a].at # 0 /\ bak'[a].at = bak'[d].at => a = d
    BY <1>1, <2>2, <2>3 DEF OneStarted
  <2>6. \A d \in Callers, a \in Backups : call'[d].pc = "create" /\ call'[d].at # 0 => bak'[a].at # call'[d].at
    BY <1>1, <2>2, <2>3 DEF OneStarted
  <2>7. \A d, e \in Callers : call'[d].pc = "create" /\ call'[e].pc = "create" /\ call'[d].at # 0
                                 /\ call'[d].at = call'[e].at => d = e
    BY <1>1, <2>2, <2>3 DEF OneStarted
  <2> QED
    BY <2>4, <2>5, <2>6, <2>7 DEF OneStarted
<1>13. ASSUME NEW c \in Callers, B!Enqueue(c) \/ B!Undo(c) PROVE OneStarted'
  <2>1. UNCHANGED <<clock, proc>> /\ odd \subseteq odd' /\ call[c].pc \in {"enqueue", "undo"}
    BY <1>13 DEF B!Enqueue, B!Undo, B!Note
  <2>2. PICK b \in Backups : b = call[c].b
    BY <2>1 DEF Typed, CallTyped
  <2>3. call' = [call EXCEPT ![c] = B!NoCall] \/ call' = [call EXCEPT ![c].pc = "undo"]
    BY <1>13 DEF B!Enqueue, B!Undo
  <2>4. call'[c].pc \in {"free", "undo"} /\ \A d \in Callers \ {c} : call'[d] = call[d]
    BY <2>2, <2>3, CallEnds, CallMoves DEF CallIs, Typed
  <2>5. \A a \in Backups : bak'[a].at = bak[a].at
    <3>1. UNCHANGED bak \/ bak' = [bak EXCEPT ![b].st = "failed"]
      BY <1>13, <2>2 DEF B!Enqueue, B!Undo, B!MarkFailed
    <3>2. ASSUME bak' = [bak EXCEPT ![b].st = "failed"] PROVE RowIs(b, "failed", bak[b].path, bak[b].gone)
      BY <3>2, RowMoves DEF RowState, Typed
    <3> QED
      BY <3>1, <3>2 DEF RowIs
  <2> QED
    BY <1>1, <2>1, <2>4, <2>5 DEF OneStarted, Quiet
<1>14. ASSUME NEW c \in Callers, Called(c) PROVE OneStarted'
  BY <1>10, <1>11, <1>12, <1>13, <1>14 DEF Called
<1>15. ASSUME NEW w \in Workers,
              Led(w) \/ Worked(w) \/ JobEnded(w) \/ Halted(w) \/ \E b \in Backups : Fetched(w, b)
       PROVE  OneStarted'
  BY <1>3, <1>4, <1>5, <1>6, <1>7, <1>15, Unminuted DEF Led, JobEnded
<1>16. ASSUME NEW b \in Backups, Redelivered(b) PROVE OneStarted'
  BY <1>3, <1>16, Unminuted
<1>17. CASE UNCHANGED backupVars
  BY <1>3, <1>17, Unminuted
<1> QED
  BY <1>9, <1>14, <1>15, <1>16, <1>17, BackupSteps

(* The minutes that the schedule matches are among those that cron expands *)
(* it to.                                                                  *)
LEMMA Divides ==
  ASSUME NEW v \in 0..59, NEW s \in Nat \ {0}, v % s = 0
  PROVE  \E k \in 0..59 : v = k * s
<1>1. PICK k \in Int : k = v \div s
  BY Z3
<1>2. v = s * k + (v % s)
  BY <1>1, Z3
<1>3. PICK r \in Int : r = s * k
  BY <1>1, Z3
<1>4. v = r + (v % s)
  BY <1>2, <1>3
<1>5. v = r + 0
  BY <1>4
<1>6. v = s * k
  BY <1>3, <1>5
<1>7. k \in 0..59
  BY <1>6, Z3
<1> QED
  BY <1>6, <1>7, Z3

LEMMA AtomMeans ==
  ASSUME NEW a \in Cron, NEW v \in 0..59, B!Matches(a, v)
  PROVE  B!Names(a, v)
<1>1. a.kind \in {"star", "range", "number"} /\ a.lo \in Nat /\ a.hi \in Nat /\ a.step \in Nat \ {0}
  BY BackupsAssumption
<1>2. ASSUME NEW lo \in Nat, v >= lo, (v - lo) % a.step = 0
      PROVE  \E k \in 0..59 : v = lo + k * a.step
  <2>1. PICK d \in 0..59 : d = v - lo
    BY <1>2
  <2>2. PICK k \in 0..59 : d = k * a.step
    BY <1>1, <1>2, <2>1, Divides, ZenonT(60)
  <2>3. PICK r \in Int : r = k * a.step
    BY <1>1, Z3
  <2>4. v = lo + r
    BY <2>1, <2>2, <2>3
  <2> QED
    BY <2>3, <2>4
<1>3. CASE a.kind = "star"
  <2>1. PICK k \in 0..59 : v = k * a.step
    BY <1>1, <1>3, Divides DEF B!Matches
  <2>2. v = 0 + k * a.step
    BY <2>1
  <2> QED
    BY <1>3, <2>2 DEF B!Names, B!First, B!Last
<1>4. CASE a.kind = "range"
  <2>1. v >= a.lo /\ v <= a.hi /\ (v - a.lo) % a.step = 0
    BY <1>4 DEF B!Matches
  <2>2. PICK k \in 0..59 : v = a.lo + k * a.step
    BY <1>1, <1>2, <2>1
  <2>3. v \in a.lo..a.hi
    BY <1>1, <2>1
  <2> QED
    BY <1>4, <2>2, <2>3 DEF B!Names, B!First, B!Last
<1>5. CASE a.kind = "number" /\ a.step = 1
  <2>1. v = a.lo
    BY <1>5 DEF B!Matches
  <2>2. v = a.lo + 0 * a.step /\ v \in a.lo..a.lo /\ 0 \in 0..59
    BY <1>1, <1>5, <2>1
  <2> QED
    BY <1>5, <2>2 DEF B!Names, B!First, B!Last
<1>6. CASE a.kind = "number" /\ a.step # 1
  <2>1. v >= a.lo /\ (v - a.lo) % a.step = 0
    BY <1>6 DEF B!Matches
  <2>2. PICK k \in 0..59 : v = a.lo + k * a.step
    BY <1>1, <1>2, <2>1
  <2>3. v \in a.lo..59
    BY <1>1, <2>1
  <2> QED
    BY <1>6, <2>2, <2>3 DEF B!Names, B!First, B!Last
<1> QED
  BY <1>1, <1>3, <1>4, <1>5, <1>6

LEMMA ScheduleMeans ==
  ASSUME NEW v \in 0..59, B!MatchField(Cron, v)
  PROVE  B!Expands(Cron, v)
<1>1. PICK a \in Cron : B!Matches(a, v)
  BY DEF B!MatchField
<1> QED
  BY <1>1, AtomMeans DEF B!Expands

LEMMA WallClock ==
  ASSUME NEW m \in Nat
  PROVE  B!Wall(m) \in 0..59
BY Z3 DEF B!Wall

-----------------------------------------------------------------------------
(* One that is under way is pursued *)

(* What a step of a call does to the rows: it makes one, fails one or none.*)
Calls(c) ==
  /\ Called(c) /\ UNCHANGED exec /\ odd \subseteq odd'
  /\ \A d \in Callers \ {c} : call'[d] = call[d]
  /\ \/ UNCHANGED bak
     \/ \E b \in Backups : Created(c, b)
     \/ \E b \in Backups : /\ call[c].b = b /\ RowIs(b, "failed", bak[b].path, bak[b].gone)
                           /\ bak[b].st # "none" /\ (bak[b].st = "queued" \/ "undone" \in odd')
LEMMA CallSteps ==
  ASSUME Typed, NEW c \in Callers, Called(c)
  PROVE  Calls(c) /\ UNCHANGED object
<1>1. CASE (c \in Workers /\ B!Tick(c)) \/ (c \in Users /\ B!UserAsks(c))
  <2>1. UNCHANGED <<exec, bak, object>> /\ odd \subseteq odd'
    BY <1>1 DEF B!Tick, B!UserAsks, B!Note, B!Job
  <2>2. UNCHANGED call \/ \E at \in {0, clock} : B!Ask(c, at)
    BY <1>1 DEF B!Tick, B!UserAsks
  <2>3. 0 \in 0..Minutes /\ clock \in 0..Minutes
    BY BackupsAssumption DEF Typed, B!TypeOK
  <2>4. \A d \in Callers \ {c} : call'[d] = call[d]
    BY <2>2, <2>3, Asked DEF Typed
  <2> QED
    BY <2>1, <2>4 DEF Calls
<1>2. CASE B!Create(c)
  <2>1. PICK b \in Backups : Created(c, b)
    BY <1>2, Creates DEF Typed
  <2> QED
    BY <1>2, <2>1 DEF Calls, Created, CallIs, B!Create
<1>3. CASE B!Enqueue(c) \/ B!Undo(c)
  <2>1. UNCHANGED <<exec, object>> /\ odd \subseteq odd' /\ call[c].pc \in {"enqueue", "undo"}
    BY <1>3 DEF B!Enqueue, B!Undo, B!Note
  <2>2. PICK b \in Backups : b = call[c].b /\ bak[b].st # "none"
    BY <2>1 DEF Typed, CallTyped
  <2>3. call' = [call EXCEPT ![c] = B!NoCall] \/ call' = [call EXCEPT ![c].pc = "undo"]
    BY <1>3 DEF B!Enqueue, B!Undo
  <2>4. \A d \in Callers \ {c} : call'[d] = call[d]
    BY <2>2, <2>3, CallEnds, CallMoves DEF CallIs, Typed
  <2>5. CASE B!Enqueue(c)
    BY <2>1, <2>4, <2>5 DEF B!Enqueue, Calls, Called
  <2>6. CASE B!Undo(c)
    <3>1. RowIs(b, "failed", bak[b].path, bak[b].gone)
      BY <2>2, <2>6, RowMoves DEF B!Undo, B!MarkFailed, RowState, Typed
    <3>2. bak[b].st = "queued" \/ "undone" \in odd'
      BY <2>2, <2>6 DEF B!Undo, B!Note
    <3> QED
      BY <2>1, <2>2, <2>4, <2>6, <3>1, <3>2 DEF Calls, Called
  <2> QED
    BY <1>3, <2>5, <2>6
<1> QED
  BY <1>1, <1>2, <1>3 DEF Called

LEMMA PassedSteps ==
  ASSUME Passed \/ \E w \in Workers : Led(w)
  PROVE  UNCHANGED <<call, bak, object, queue, exec>> /\ odd \subseteq odd'
BY DEF Passed, Led, B!SessionLost, B!Minute, B!Elect, B!StepDown, B!BeginSave, B!SaveKey, B!Note, B!Job

(* Two jobs work on two backups.                                           *)
LEMMA OthersWork ==
  ASSUME Typed, NEW w \in Workers, NEW v \in Workers \ {w}, exec[w].pc # "idle"
  PROVE  exec[v].b # exec[w].b /\ exec[w].b \in Backups
BY HasBackup, BackupsAssumption DEF Typed, QueueInv, Backup

(* A row changes under a job only in its own hands, and then to a failure, *)
(* or to what it works on.                                                 *)
LEMMA WorkStep ==
  ASSUME Typed, [B!Next]_backupVars, WorkInv, OverInv
  PROVE  WorkInv'
<1>1. CASE UNCHANGED <<bak, exec>>
  BY <1>1 DEF WorkInv
<1>2. ASSUME NEW c \in Callers, Calls(c) PROVE WorkInv'
  <2>1. ASSUME NEW b \in Backups, Created(c, b) PROVE WorkInv'
    <3>1. \A w \in Workers : exec[w].pc \in Mid => exec[w].b \in Backups \ {b}
      BY <2>1, HasBackup DEF Created, Backup, Mid
    <3> QED
      BY <1>2, <2>1, <3>1 DEF Calls, Created, WorkInv
  <2>2. ASSUME NEW b \in Backups, RowIs(b, "failed", bak[b].path, bak[b].gone) PROVE WorkInv'
    <3>1. \A w \in Workers : exec[w].pc \in Mid => exec[w].b \in Backups
      BY HasBackup DEF Backup, Mid
    <3> QED
      BY <1>2, <2>2, <3>1 DEF Calls, RowIs, WorkInv
  <2> QED
    BY <1>1, <1>2, <2>1, <2>2 DEF Calls
<1>3. ASSUME NEW w \in Workers, Worked(w) PROVE WorkInv'
  <2>1. Going(w) /\ exec[w].b \in Backups /\ \A v \in Workers \ {w} : exec[v].pc # "idle" => exec[v].b # exec[w].b
    BY <1>3, HasBackup, OthersWork
    DEF Worked, Loaded, Marked, Dumped, Uploaded, Written, OldListed, Pruned, Forgot, Going, Backup
  <2>2. ASSUME NEW v \in Workers \ {w}, exec[v].pc \in Mid
        PROVE  bak'[exec[v].b].st # "completed" /\ ~ bak'[exec[v].b].gone
    <3>1. exec[v].b \in Backups /\ exec[v].b # exec[w].b
      BY <2>1, <2>2, HasBackup DEF Backup, Mid
    <3>2. ASSUME NEW t \in Backups, Forgot(w, t) PROVE bak'[exec[v].b] = bak[exec[v].b]
      <4>1. Over(t)
        BY <3>2 DEF Forgot, B!Target, OverInv
      <4> QED
        BY <2>2, <3>1, <3>2, <4>1 DEF Forgot, RowIs, Over
    <3>3. bak'[exec[v].b] = bak[exec[v].b]
      BY <1>3, <3>1, <3>2 DEF Worked, Loaded, Marked, Dumped, Uploaded, Written, OldListed, Pruned, RowIs
    <3> QED
      BY <2>2, <3>3 DEF WorkInv
  <2>3. ASSUME exec'[w].pc \in Mid PROVE bak'[exec[w].b].st # "completed" /\ ~ bak'[exec[w].b].gone
    BY <1>3, <2>1, <2>3
    DEF Worked, Loaded, Marked, Dumped, Uploaded, Written, OldListed, Pruned, Forgot, RowIs, Mid, Final,
        WorkInv
  <2> QED
    BY <2>1, <2>2, <2>3 DEF Going, WorkInv
<1>4. ASSUME NEW w \in Workers, JobEnded(w) PROVE WorkInv'
  BY <1>4 DEF JobEnded, Acked, Nacked, Crashed, JobOver, WorkInv, Mid
<1>5. ASSUME NEW w \in Workers, Halted(w) PROVE WorkInv'
  BY <1>5 DEF Halted, WasCut, Going, WorkInv
<1>6. ASSUME NEW w \in Workers, NEW b \in Backups, Fetched(w, b) PROVE WorkInv'
  BY <1>6 DEF Fetched, WorkInv, Mid
<1>7. CASE UNCHANGED backupVars \/ \E b \in Backups : Redelivered(b)
  BY <1>1, <1>7 DEF backupVars, Redelivered
<1>8. CASE Passed \/ \E w \in Workers : Led(w)
  BY <1>1, <1>8, PassedSteps
<1> QED
  BY <1>2, <1>3, <1>4, <1>5, <1>6, <1>7, <1>8, BackupSteps, CallSteps

LEMMA EndStep ==
  ASSUME Typed, [B!Next]_backupVars, WorkInv, EndInv
  PROVE  EndInv'
<1> SUFFICES ASSUME "halted" \notin odd', NEW w \in Workers, exec'[w].pc \in Ending
             PROVE  bak'[exec'[w].b].st \in Final
  BY DEF EndInv
<1> DEFINE Done == bak'[exec'[w].b].st \in Final
<1>1. odd \subseteq odd' => (exec[w].pc \in Ending => bak[exec[w].b].st \in Final)
  BY DEF EndInv
<1>2. CASE UNCHANGED <<bak, exec>> /\ odd \subseteq odd'
  BY <1>1, <1>2
<1>3. exec[w].pc # "idle" => exec[w].b \in Backups /\ bak[exec[w].b].st # "none"
  BY HasBackup DEF Backup
<1>4. ASSUME NEW c \in Callers, Calls(c) PROVE Done
  <2>1. exec[w].pc \in Ending /\ exec'[w].b = exec[w].b /\ exec[w].b \in Backups
        /\ bak[exec[w].b].st \in Final
    BY <1>1, <1>3, <1>4 DEF Calls, Ending
  <2>2. ASSUME NEW b \in Backups, Created(c, b) PROVE bak'[exec[w].b] = bak[exec[w].b]
    BY <2>1, <2>2 DEF Created, Final
  <2> QED
    BY <1>4, <2>1, <2>2 DEF Calls, RowIs, Final
<1>5. ASSUME NEW v \in Workers \ {w}, Worked(v) PROVE Done
  <2>1. /\ exec'[w] = exec[w] /\ exec[v].pc # "idle" /\ odd \subseteq odd'
    BY <1>5
    DEF Worked, Loaded, Marked, Dumped, Uploaded, Written, OldListed, Pruned, Forgot, Going
  <2>2. exec[w].b \in Backups /\ exec[w].b # exec[v].b /\ bak[exec[w].b].st \in Final
    BY <1>1, <1>3, <2>1, OthersWork DEF Ending
  <2>3. bak'[exec[w].b].st = bak[exec[w].b].st
    BY <1>5, <2>2
    DEF Worked, Loaded, Marked, Dumped, Uploaded, Written, OldListed, Pruned, Forgot, RowIs
  <2> QED
    BY <2>1, <2>2, <2>3
<1>6. CASE Worked(w)
  <2>1. exec'[w].b = exec[w].b /\ exec[w].b \in Backups /\ odd \subseteq odd'
    BY <1>3, <1>6
    DEF Worked, Loaded, Marked, Dumped, Uploaded, Written, OldListed, Pruned, Forgot, Going
  <2>2. CASE Loaded(w) \/ Marked(w) \/ Dumped(w) \/ Uploaded(w)
    BY <2>1, <2>2 DEF Loaded, Marked, Dumped, Uploaded, Ending
  <2>3. CASE Written(w, "fail", "failed", "ack") \/ Written(w, "done", "completed", "list")
    BY <2>1, <2>3 DEF Written, RowIs, Final
  <2>4. CASE OldListed(w) \/ Pruned(w)
    BY <1>1, <2>1, <2>4 DEF OldListed, Pruned, Ending
  <2>5. ASSUME NEW t \in Backups, Forgot(w, t) PROVE Done
    <3>1. bak[exec[w].b].st \in Final
      BY <1>1, <2>1, <2>5 DEF Forgot, Ending
    <3>2. bak'[exec[w].b].st = bak[exec[w].b].st
      BY <2>1, <2>5 DEF Forgot, RowIs
    <3> QED
      BY <2>1, <3>1, <3>2
  <2> QED
    BY <1>6, <2>2, <2>3, <2>4, <2>5 DEF Worked
<1>7. ASSUME NEW v \in Workers, JobEnded(v) PROVE Done
  BY <1>1, <1>7 DEF JobEnded, Acked, Nacked, Crashed, JobOver, Ending
<1>8. ASSUME NEW v \in Workers, Halted(v) PROVE Done
  BY <1>1, <1>8 DEF Halted, WasCut, Going
<1>9. ASSUME NEW v \in Workers, NEW b \in Backups, Fetched(v, b) PROVE Done
  BY <1>1, <1>9 DEF Fetched, Ending
<1>10. CASE UNCHANGED backupVars \/ \E b \in Backups : Redelivered(b)
  BY <1>2, <1>10 DEF backupVars, Redelivered
<1>11. CASE Passed \/ \E v \in Workers : Led(v)
  BY <1>2, <1>11, PassedSteps
<1> QED
  BY <1>4, <1>5, <1>6, <1>7, <1>8, <1>9, <1>10, <1>11, BackupSteps, CallSteps

PursuitInv == B!BackupIsPursued /\ Unbound
Sought(b) == B!Queue!Held(b) \/ \E c \in Callers : call[c].b = b
LEMMA PursuitStep ==
  ASSUME Typed, [B!Next]_backupVars, EndInv, PursuitInv
  PROVE  PursuitInv'
<1>1. ASSUME "halted" \notin odd, NEW b \in Backups, bak[b].st \in {"queued", "running"} PROVE Sought(b)
  BY <1>1 DEF PursuitInv, B!BackupIsPursued, B!Barring, Sought, B!Callers, Callers
<1>2. ASSUME odd \subseteq odd', Unbound',
             \A b \in Backups : "halted" \notin odd' /\ bak'[b].st \in {"queued", "running"} => Sought(b)'
      PROVE  PursuitInv'
  BY <1>2 DEF PursuitInv, B!BackupIsPursued, B!Barring, Sought, B!Callers, Callers
<1>3. CASE UNCHANGED <<bak, call, queue>> /\ odd \subseteq odd'
  <2>1. Unbound'
    BY <1>3 DEF PursuitInv, Unbound
  <2>2. ASSUME NEW b \in Backups, "halted" \notin odd', bak'[b].st \in {"queued", "running"} PROVE Sought(b)'
    BY <1>1, <1>3, <2>2 DEF Sought, B!Queue!Held
  <2> QED
    BY <1>2, <1>3, <2>1, <2>2
<1>4. ASSUME NEW c \in Callers, Called(c) PROVE PursuitInv'
  <2>1. Calls(c) /\ odd \subseteq odd'
    BY <1>4, CallSteps DEF Calls
  <2>2. CASE (c \in Workers /\ B!Tick(c)) \/ (c \in Users /\ B!UserAsks(c))
    <3>1. UNCHANGED <<bak, queue>> /\ call[c].pc = "free" /\ call[c].b = 0
      BY <2>2 DEF B!Tick, B!UserAsks, B!Job, PursuitInv, Unbound
    <3>2. UNCHANGED call \/ \E at \in {0, clock} : B!Ask(c, at)
      BY <2>2 DEF B!Tick, B!UserAsks
    <3>3. 0 \in 0..Minutes /\ clock \in 0..Minutes
      BY BackupsAssumption DEF Typed, B!TypeOK
    <3>4. call'[c].b = 0 /\ \A d \in Callers \ {c} : call'[d] = call[d]
      BY <3>1, <3>2, <3>3, Asked DEF Typed
    <3>5. Unbound'
      BY <3>4 DEF PursuitInv, Unbound
    <3>6. ASSUME NEW b \in Backups, "halted" \notin odd', bak'[b].st \in {"queued", "running"} PROVE Sought(b)'
      <4>1. b # 0
        BY BackupsAssumption
      <4> QED
        BY <1>1, <2>1, <3>1, <3>4, <3>6, <4>1 DEF Sought, B!Queue!Held
    <3> QED
      BY <1>2, <2>1, <3>5, <3>6
  <2>3. CASE B!Create(c)
    <3>1. PICK b \in Backups : Created(c, b)
      BY <2>3, Creates DEF Typed
    <3>2. call[c].b = 0 /\ UNCHANGED queue
      BY <2>3 DEF B!Create, PursuitInv, Unbound
    <3>3. call'[c].pc = "enqueue" /\ call'[c].b = b /\ \A d \in Callers \ {c} : call'[d] = call[d]
      BY <3>1 DEF Created, CallIs
    <3>4. Unbound'
      BY <3>3 DEF PursuitInv, Unbound
    <3>5. ASSUME NEW a \in Backups, "halted" \notin odd', bak'[a].st \in {"queued", "running"} PROVE Sought(a)'
      <4>1. CASE a = b
        BY <3>3, <4>1 DEF Sought
      <4>2. CASE a # b
        <5>1. bak'[a] = bak[a] /\ a # 0
          BY <3>1, <4>2, BackupsAssumption DEF Created
        <5> QED
          BY <1>1, <2>1, <3>2, <3>3, <3>5, <5>1 DEF Sought, B!Queue!Held
      <4> QED
        BY <4>1, <4>2
    <3> QED
      BY <1>2, <2>1, <3>4, <3>5
  <2>4. CASE B!Enqueue(c) \/ B!Undo(c)
    <3>1. call[c].pc \in {"enqueue", "undo"}
      BY <2>4 DEF B!Enqueue, B!Undo
    <3>2. PICK b \in Backups : b = call[c].b /\ bak[b].st # "none"
      BY <3>1 DEF Typed, CallTyped
    <3>3. UNCHANGED queue \/ MessageIs(b, "visible")
      BY <2>4, <3>2, MessageSteps DEF B!Enqueue, B!Undo, Typed
    <3>4. \/ call' = [call EXCEPT ![c] = B!NoCall]
          \/ call' = [call EXCEPT ![c].pc = "undo"]
      BY <2>4 DEF B!Enqueue, B!Undo
    <3>5. /\ \A d \in Callers \ {c} : call'[d] = call[d]
          /\ \/ call'[c].pc = "free" /\ call'[c].b = 0
             \/ call'[c].pc = "undo" /\ call'[c].b = b
      BY <3>2, <3>4, CallEnds, CallMoves DEF CallIs, Typed
    <3>6. Unbound'
      BY <3>5 DEF PursuitInv, Unbound
    <3>7. ASSUME NEW a \in Backups, "halted" \notin odd', bak'[a].st \in {"queued", "running"} PROVE Sought(a)'
      <4>1. B!Queue!Held(a) => B!Queue!Held(a)'
        BY <3>3 DEF MessageIs, B!Queue!Held
      <4>2. CASE a # b
        <5>1. bak'[a] = bak[a]
          <6>1. UNCHANGED bak \/ bak' = [bak EXCEPT ![b].st = "failed"]
            BY <2>4, <3>2 DEF B!Enqueue, B!Undo, B!MarkFailed
          <6> QED
            BY <4>2, <6>1 DEF Typed, B!TypeOK
        <5> QED
          BY <1>1, <2>1, <3>2, <3>5, <3>7, <4>1, <4>2, <5>1 DEF Sought
      <4>3. CASE a = b /\ B!Enqueue(c)
        <5>1. UNCHANGED bak
          BY <4>3 DEF B!Enqueue
        <5>2. (B!Queue!Enqueue(b) /\ MessageIs(b, "visible")) \/ call'[c].b = b
          <6>1. B!Queue!Enqueue(b) \/ call' = [call EXCEPT ![c].pc = "undo"]
            BY <3>2, <4>3 DEF B!Enqueue
          <6>2. call' = [call EXCEPT ![c].pc = "undo"] => call'[c].b = b
            BY <3>2, CallMoves DEF CallIs, Typed
          <6> QED
            BY <6>1, <6>2, MessageSteps DEF Typed
        <5> QED
          BY <4>3, <5>2 DEF Sought, B!Queue!Held, MessageIs
      <4>4. CASE a = b /\ B!Undo(c)
        <5>1. RowIs(b, "failed", bak[b].path, bak[b].gone)
          BY <3>2, <4>4, RowMoves DEF B!Undo, B!MarkFailed, RowState, Typed
        <5> QED
          BY <3>7, <4>4, <5>1 DEF RowIs
      <4> QED
        BY <2>4, <4>2, <4>3, <4>4
    <3> QED
      BY <1>2, <2>1, <3>6, <3>7
  <2> QED
    BY <1>4, <2>2, <2>3, <2>4 DEF Called
<1>5. ASSUME NEW w \in Workers, Worked(w) PROVE PursuitInv'
  <2>1. UNCHANGED <<call, queue>> /\ odd \subseteq odd'
    BY <1>5
    DEF Worked, Loaded, Marked, Dumped, Uploaded, Written, OldListed, Pruned, Forgot, Aside
  <2>2. exec[w].b \in Backups /\ queue[exec[w].b].st = "hidden"
    BY <1>5, HasBackup
    DEF Worked, Loaded, Marked, Dumped, Uploaded, Written, OldListed, Pruned, Forgot, Backup, Typed, QueueInv
  <2>3. \A b \in Backups \ {exec[w].b} : bak'[b].st = bak[b].st
    BY <1>5
    DEF Worked, Loaded, Marked, Dumped, Uploaded, Written, OldListed, Pruned, Forgot, RowIs
  <2>4. Unbound'
    BY <2>1 DEF PursuitInv, Unbound
  <2>5. ASSUME NEW b \in Backups, "halted" \notin odd', bak'[b].st \in {"queued", "running"} PROVE Sought(b)'
    <3>1. Sought(b)
      BY <1>1, <2>1, <2>2, <2>3, <2>5 DEF Sought, B!Queue!Held
    <3> QED
      BY <2>1, <3>1 DEF Sought, B!Queue!Held
  <2> QED
    BY <1>2, <2>1, <2>4, <2>5
<1>6. ASSUME NEW w \in Workers, Acked(w) \/ Nacked(w) PROVE PursuitInv'
  <2>1. /\ UNCHANGED <<call, bak>> /\ odd \subseteq odd' /\ exec[w].b \in Backups
        /\ \A b \in Backups \ {exec[w].b} : queue'[b] = queue[b]
    BY <1>6, HasBackup DEF Acked, Nacked, Aside, MessageIs, Backup
  <2>2. "halted" \in odd' \/ UNCHANGED queue \/ bak[exec[w].b].st \in Final
    BY <1>6 DEF Acked, Nacked, EndInv, Ending
  <2>3. Unbound'
    BY <2>1 DEF PursuitInv, Unbound
  <2>4. ASSUME NEW b \in Backups, "halted" \notin odd', bak'[b].st \in {"queued", "running"} PROVE Sought(b)'
    <3>1. Sought(b)
      BY <1>1, <2>1, <2>4
    <3>2. b # exec[w].b \/ UNCHANGED queue
      BY <2>1, <2>2, <2>4 DEF Final
    <3>3. queue'[b] = queue[b]
      BY <2>1, <3>2
    <3> QED
      BY <2>1, <3>1, <3>3 DEF Sought, B!Queue!Held
  <2> QED
    BY <1>2, <2>1, <2>3, <2>4
<1>7. ASSUME NEW w \in Workers, Crashed(w) PROVE PursuitInv'
  <2>1. UNCHANGED <<bak, queue>> /\ odd \subseteq odd' /\ w \in Callers
    BY <1>7 DEF Crashed, Callers
  <2>2. Unbound'
    BY <1>7 DEF PursuitInv, Unbound, Crashed
  <2>3. ASSUME NEW b \in Backups, "halted" \notin odd', bak'[b].st \in {"queued", "running"} PROVE Sought(b)'
    <3>1. Sought(b) /\ b # 0
      BY <1>1, <2>1, <2>3, BackupsAssumption
    <3>2. call[w].b = 0
      <4>1. call[w] \in B!Call
        BY DEF Typed, B!TypeOK, B!Callers
      <4>2. call[w].pc \notin {"enqueue", "undo"}
        BY <1>7, <2>3 DEF Crashed
      <4> QED
        BY <2>1, <4>1, <4>2 DEF B!Call, PursuitInv, Unbound
    <3> QED
      BY <1>7, <2>1, <3>1, <3>2 DEF Sought, B!Queue!Held, Crashed
  <2> QED
    BY <1>2, <2>1, <2>2, <2>3
<1>8. ASSUME NEW w \in Workers, Halted(w) PROVE PursuitInv'
  BY <1>3, <1>8 DEF Halted, WasCut
<1>9. ASSUME NEW b \in Backups, MessageIs(b, "hidden") \/ MessageIs(b, "visible"),
             UNCHANGED <<bak, call, odd>>
      PROVE  PursuitInv'
  <2>1. Unbound'
    BY <1>9 DEF PursuitInv, Unbound
  <2>2. ASSUME NEW a \in Backups, "halted" \notin odd', bak'[a].st \in {"queued", "running"} PROVE Sought(a)'
    <3>1. Sought(a)
      BY <1>1, <1>9, <2>2
    <3> QED
      BY <1>9, <3>1 DEF Sought, B!Queue!Held, MessageIs
  <2> QED
    BY <1>2, <1>9, <2>1, <2>2
<1>10. CASE UNCHANGED backupVars
  BY <1>3, <1>10 DEF backupVars
<1>11. CASE Passed \/ \E w \in Workers : Led(w)
  BY <1>3, <1>11, PassedSteps
<1>12. ASSUME NEW w \in Workers, NEW b \in Backups, Fetched(w, b) PROVE PursuitInv'
  BY <1>9, <1>12 DEF Fetched, Aside
<1>13. ASSUME NEW b \in Backups, Redelivered(b) PROVE PursuitInv'
  BY <1>9, <1>13 DEF Redelivered, Aside
<1> QED
  BY <1>4, <1>5, <1>6, <1>7, <1>8, <1>10, <1>11, <1>12, <1>13, BackupSteps DEF JobEnded

-----------------------------------------------------------------------------
(* Backups are kept *)

LEMMA OverStep ==
  ASSUME Typed, [B!Next]_backupVars, WorkInv, OverInv
  PROVE  OverInv'
<1>0. \A w \in Workers : exec[w].todo \subseteq Backups
  BY DEF Typed, B!TypeOK, B!Exec
<1>1. CASE UNCHANGED <<bak, exec>>
  BY <1>1 DEF OverInv, Over
<1>2. ASSUME NEW c \in Callers, Calls(c) PROVE OverInv'
  <2>1. \A w \in Workers : \A t \in exec[w].todo : bak[t].st \in Final
    BY DEF OverInv, Over
  <2>2. \A w \in Workers : \A t \in exec[w].todo : bak'[t].st \in Final
    <3>1. ASSUME NEW b \in Backups, Created(c, b), NEW t \in Backups, bak[t].st \in Final
          PROVE  bak'[t].st \in Final
      BY <3>1 DEF Created, Final
    <3>2. ASSUME NEW b \in Backups, RowIs(b, "failed", bak[b].path, bak[b].gone), NEW t \in Backups,
                 bak[t].st \in Final
          PROVE  bak'[t].st \in Final
      BY <3>2 DEF RowIs, Final
    <3> QED
      BY <1>0, <1>2, <2>1, <3>1, <3>2 DEF Calls
  <2> QED
    BY <1>2, <2>2 DEF Calls, OverInv, Over
<1>3. ASSUME NEW w \in Workers, Worked(w) PROVE OverInv'
  <2>1. Going(w) /\ exec[w].pc # "idle" /\ exec[w].b \in Backups
    BY <1>3, HasBackup
    DEF Worked, Loaded, Marked, Dumped, Uploaded, Written, OldListed, Pruned, Forgot, Going, Backup
  <2>2. exec'[w].b = exec[w].b /\ \A v \in Workers \ {w} : exec'[v] = exec[v]
    BY <2>1 DEF Going
  <2>3. ASSUME NEW t \in Backups, Over(t) PROVE Over(t)'
    <3>1. bak'[t].st \in Final
      <4>1. CASE UNCHANGED bak
        BY <2>3, <4>1 DEF Over
      <4>2. ASSUME NEW f \in Backups, Forgot(w, f) PROVE bak'[t].st = bak[t].st
        BY <4>2 DEF Forgot, RowIs
      <4>3. CASE exec[w].pc \in Mid
        <5>1. t # exec[w].b
          BY <2>3, <4>3 DEF Over
        <5>2. bak'[t].st = bak[t].st
          BY <1>3, <4>2, <5>1
          DEF Worked, Loaded, Marked, Dumped, Uploaded, Written, OldListed, Pruned, RowIs
        <5> QED
          BY <2>3, <5>2 DEF Over
      <4>4. CASE exec[w].pc \notin Mid
        <5>1. bak'[t].st = bak[t].st
          BY <1>3, <4>2, <4>4
          DEF Worked, Loaded, Marked, Dumped, Uploaded, Written, OldListed, Pruned, RowIs, Mid
        <5> QED
          BY <2>3, <5>1 DEF Over
      <4> QED
        BY <4>3, <4>4
    <3>2. exec[w].b = t => exec'[w].pc \notin Mid
      BY <1>3, <2>3
      DEF Worked, Loaded, Marked, Dumped, Uploaded, Written, OldListed, Pruned, Forgot, Over, Mid
    <3> QED
      BY <2>2, <2>3, <3>1, <3>2 DEF Over
  <2>4. \A v \in Workers \ {w} : \A t \in exec'[v].todo : Over(t)'
    BY <1>0, <2>2, <2>3 DEF OverInv
  <2>5. \A t \in exec'[w].todo : Over(t)'
    <3>1. CASE exec'[w].todo \subseteq exec[w].todo
      BY <1>0, <2>3, <3>1 DEF OverInv
    <3>2. CASE OldListed(w) /\ exec'[w].todo = Old(w)
      <4>1. ASSUME NEW t \in Old(w) PROVE Over(t) /\ t \in Backups
        <5>1. t \in Backups /\ bak[t].st = "completed"
          BY DEF Old, B!Listed
        <5> QED
          BY <5>1 DEF Over, WorkInv, Final
      <4> QED
        BY <2>3, <3>2, <4>1
    <3> QED
      BY <1>3, <3>1, <3>2
      DEF Worked, Loaded, Marked, Dumped, Uploaded, Written, OldListed, Pruned, Forgot, SameTodo
  <2> QED
    BY <2>4, <2>5 DEF OverInv
<1>4. ASSUME NEW w \in Workers, JobEnded(w) PROVE OverInv'
  BY <1>4 DEF JobEnded, Acked, Nacked, Crashed, JobOver, OverInv, Over, Mid
<1>5. ASSUME NEW w \in Workers, Halted(w) PROVE OverInv'
  BY <1>5 DEF Halted, WasCut, Going, SameTodo, OverInv, Over
<1>6. ASSUME NEW w \in Workers, NEW b \in Backups, Fetched(w, b) PROVE OverInv'
  BY <1>6 DEF Fetched, OverInv, Over, Mid
<1>7. CASE UNCHANGED backupVars \/ \E b \in Backups : Redelivered(b)
  BY <1>1, <1>7 DEF backupVars, Redelivered
<1>8. CASE Passed \/ \E w \in Workers : Led(w)
  BY <1>1, <1>8, PassedSteps
<1> QED
  BY <1>2, <1>3, <1>4, <1>5, <1>6, <1>7, <1>8, BackupSteps, CallSteps

LEMMA Grows ==
  ASSUME Typed, [B!Next]_backupVars
  PROVE  odd \subseteq odd'
<1>1. \A w \in Workers : Worked(w) \/ JobEnded(w) => odd \subseteq odd'
  BY DEF Worked, Loaded, Marked, Dumped, Uploaded, Written, OldListed, Pruned, Forgot, JobEnded, Acked, Nacked,
         Crashed
<1>2. \A w \in Workers, b \in Backups : Halted(w) \/ Fetched(w, b) \/ Redelivered(b) => odd \subseteq odd'
  BY DEF Halted, WasCut, Fetched, Redelivered
<1>3. \A c \in Callers : Called(c) => odd \subseteq odd'
  BY CallSteps DEF Calls
<1>4. \A w \in Workers : Halted(w) => odd \subseteq odd'
  BY DEF Halted, WasCut
<1>5. \A b \in Backups : Redelivered(b) => odd \subseteq odd'
  BY DEF Redelivered
<1> QED
  BY <1>1, <1>2, <1>3, <1>4, <1>5, BackupSteps, PassedSteps DEF backupVars

Paths ==
  /\ \A b \in Backups : bak[b].path = B!NoPath \/ bak[b].path[1] = b
  /\ \A w \in Workers : exec[w].path = B!NoPath \/ exec[w].path[1] = exec[w].b
LEMMA PathStep ==
  ASSUME Typed, [B!Next]_backupVars, PathInv
  PROVE  PathInv'
<1> SUFFICES ASSUME "twin" \notin odd' PROVE Paths'
  BY DEF PathInv, Paths, B!Barring
<1>0. Paths
  BY Grows DEF PathInv, Paths, B!Barring
<1>1. CASE UNCHANGED <<bak, exec>>
  BY <1>0, <1>1 DEF Paths
<1>2. ASSUME NEW c \in Callers, Calls(c) PROVE Paths'
  <2>1. \A b \in Backups : Created(c, b) => Paths'
    BY <1>0, <1>2 DEF Calls, Created, Paths
  <2>2. \A b \in Backups : RowIs(b, "failed", bak[b].path, bak[b].gone) => Paths'
    BY <1>0, <1>2 DEF Calls, RowIs, Paths
  <2> QED
    BY <1>1, <1>2, <2>1, <2>2 DEF Calls
<1>3. ASSUME NEW w \in Workers, Worked(w) PROVE Paths'
  <2>1. Going(w) /\ exec[w].b \in Backups
    BY <1>3, HasBackup
    DEF Worked, Loaded, Marked, Dumped, Uploaded, Written, OldListed, Pruned, Forgot, Going, Backup
  <2>2. \A b \in Backups : bak'[b].path = B!NoPath \/ bak'[b].path[1] = b
    <3>1. CASE UNCHANGED bak
      BY <1>0, <3>1 DEF Paths
    <3>2. CASE \E b \in Backups : \E st, gone : RowIs(b, st, bak[b].path, gone)
      BY <1>0, <3>2 DEF Paths, RowIs
    <3>3. CASE \E st, gone : RowIs(exec[w].b, st, exec[w].path, gone)
      BY <1>0, <2>1, <3>3 DEF Paths, RowIs
    <3> QED
      BY <1>3, <2>1, <3>1, <3>2, <3>3
      DEF Worked, Loaded, Marked, Dumped, Uploaded, Written, OldListed, Pruned, Forgot
  <2>3. exec'[w].path = exec[w].path \/ exec'[w].path = <<exec[w].b, exec[w].n>>
    BY <1>3
    DEF Worked, Loaded, Marked, Dumped, Uploaded, Written, OldListed, Pruned, Forgot, SamePath
  <2>4. \A v \in Workers : exec'[v].path = B!NoPath \/ exec'[v].path[1] = exec'[v].b
    BY <1>0, <2>1, <2>3 DEF Paths, Going
  <2> QED
    BY <2>2, <2>4 DEF Paths
<1>4. ASSUME NEW w \in Workers, JobEnded(w) PROVE Paths'
  BY <1>0, <1>4 DEF JobEnded, Acked, Nacked, Crashed, JobOver, Paths
<1>5. ASSUME NEW w \in Workers, Halted(w) PROVE Paths'
  BY <1>0, <1>5 DEF Halted, WasCut, Going, SamePath, Paths
<1>6. ASSUME NEW w \in Workers, NEW b \in Backups, Fetched(w, b) PROVE Paths'
  BY <1>0, <1>6 DEF Fetched, Paths
<1>7. CASE UNCHANGED backupVars \/ \E b \in Backups : Redelivered(b)
  BY <1>1, <1>7 DEF backupVars, Redelivered
<1>8. CASE Passed \/ \E w \in Workers : Led(w)
  BY <1>1, <1>8, PassedSteps
<1> QED
  BY <1>2, <1>3, <1>4, <1>5, <1>6, <1>7, <1>8, BackupSteps, CallSteps

LEMMA ForgettingStays ==
  ASSUME NEW w \in Workers, \A v \in Workers \ {w} : exec'[v] = exec[v],
         \/ exec[w].pc # "forget" /\ exec'[w].pc # "forget"
         \/ exec'[w].pc = exec[w].pc /\ exec'[w].todo = exec[w].todo
  PROVE  B!Forgetting' = B!Forgetting
BY DEF B!Forgetting, B!Target

(* What a job has stored is where its row says; to delete the object of    *)
(* one backup leaves those of the others.                                  *)
LEMMA StoreStep ==
  ASSUME Typed, [B!Next]_backupVars, WorkInv, OverInv, PathInv, StoreInv
  PROVE  StoreInv'
<1> SUFFICES ASSUME B!Barring({"reconfigured", "twin", "halfpruned"})' PROVE Stored'
  BY DEF StoreInv
<1>0. /\ Stored /\ Paths
      /\ "reconfigured" \notin odd' /\ "twin" \notin odd' /\ "halfpruned" \notin odd'
  BY Grows DEF StoreInv, PathInv, Paths, B!Barring
<1> DEFINE InPlace == \A b \in B!Listed' \ B!Forgetting' :
                        bak'[b].st = "completed" => <<bak'[b].bucket, bak'[b].path>> \in object'
           HasPath == \A b \in Backups : bak'[b].st = "completed" => bak'[b].path # B!NoPath
           ChosenPath == \A v \in Workers : exec'[v].pc \in {"upload", "done"} => exec'[v].path # B!NoPath
           DoneIn == \A v \in Workers : exec'[v].pc = "done" => <<bak'[exec'[v].b].bucket, exec'[v].path>> \in object'
<1>a. ASSUME InPlace, HasPath, ChosenPath, DoneIn PROVE Stored'
  BY <1>a DEF Stored
<1> HIDE DEF InPlace, HasPath, ChosenPath, DoneIn
<1>b. \A v \in Workers : exec[v].pc = "done" => exec[v].b \in Backups /\ bak[exec[v].b].st # "none"
  BY HasBackup DEF Backup
<1>1. CASE UNCHANGED <<bak, object>> /\ \E w \in Workers :
             /\ \A v \in Workers \ {w} : exec'[v] = exec[v]
             /\ exec'[w].b = exec[w].b \/ exec'[w].pc # "done"
             /\ exec'[w].path = exec[w].path \/ exec'[w].pc \notin {"upload", "done"}
             /\ exec'[w].pc \notin {"upload", "done"} \/ exec'[w].pc = exec[w].pc
             /\ \/ exec[w].pc # "forget" /\ exec'[w].pc # "forget"
                \/ exec'[w].pc = exec[w].pc /\ exec'[w].todo = exec[w].todo
  <2>1. B!Forgetting' = B!Forgetting /\ B!Listed' = B!Listed
    BY <1>1, ForgettingStays DEF B!Listed
  <2>2. InPlace /\ HasPath
    BY <1>0, <1>1, <2>1 DEF Stored, InPlace, HasPath
  <2>3. ChosenPath /\ DoneIn
    BY <1>0, <1>1 DEF Stored, ChosenPath, DoneIn
  <2> QED
    BY <1>a, <2>2, <2>3
<1>2. CASE UNCHANGED <<bak, exec, object>>
  <2>1. B!Forgetting' = B!Forgetting /\ B!Listed' = B!Listed
    BY <1>2 DEF B!Forgetting, B!Target, B!Listed
  <2> QED
    BY <1>0, <1>2, <2>1 DEF Stored
<1>3. ASSUME NEW c \in Callers, Calls(c), UNCHANGED object PROVE Stored'
  <2>1. B!Forgetting' = B!Forgetting /\ UNCHANGED exec
    BY <1>3 DEF B!Forgetting, B!Target, Calls
  <2>2. ASSUME NEW b \in Backups, Created(c, b) PROVE Stored'
    <3>1. InPlace /\ HasPath
      BY <1>0, <1>3, <2>1, <2>2 DEF Stored, InPlace, HasPath, Created, B!Listed
    <3>2. ChosenPath /\ DoneIn
      BY <1>0, <1>b, <1>3, <2>1, <2>2 DEF Stored, ChosenPath, DoneIn, Created
    <3> QED
      BY <1>a, <3>1, <3>2
  <2>3. ASSUME NEW b \in Backups, RowIs(b, "failed", bak[b].path, bak[b].gone) PROVE Stored'
    <3>1. InPlace /\ HasPath
      BY <1>0, <1>3, <2>1, <2>3 DEF Stored, InPlace, HasPath, RowIs, B!Listed
    <3>2. ChosenPath /\ DoneIn
      BY <1>0, <1>b, <1>3, <2>1, <2>3 DEF Stored, ChosenPath, DoneIn, RowIs
    <3> QED
      BY <1>a, <3>1, <3>2
  <2> QED
    BY <1>2, <1>3, <2>1, <2>2, <2>3 DEF Calls
<1>4. ASSUME NEW w \in Workers, Loaded(w) \/ OldListed(w) PROVE Stored'
  BY <1>1, <1>4 DEF Loaded, OldListed, Going
<1>5. ASSUME NEW w \in Workers, Marked(w) PROVE Stored'
  <2>1. exec[w].b \in Backups /\ exec[w].pc = "mark" /\ bak[exec[w].b].st # "none"
    BY <1>5, HasBackup DEF Marked, Backup
  <2>2. B!Forgetting' = B!Forgetting
    BY <1>5, ForgettingStays DEF Marked, Going
  <2>3. CASE UNCHANGED bak
    BY <1>1, <1>5, <2>3 DEF Marked, Going
  <2>4. CASE RowIs(exec[w].b, "running", bak[exec[w].b].path, bak[exec[w].b].gone)
    <3>1. InPlace /\ HasPath
      BY <1>0, <1>5, <2>1, <2>2, <2>4 DEF Stored, InPlace, HasPath, RowIs, B!Listed, Marked
    <3>2. ChosenPath /\ DoneIn
      BY <1>0, <1>b, <1>5, <2>1, <2>4 DEF Stored, ChosenPath, DoneIn, RowIs, Marked, Going
    <3> QED
      BY <1>a, <3>1, <3>2
  <2> QED
    BY <1>5, <2>3, <2>4 DEF Marked
<1>6. ASSUME NEW w \in Workers, Dumped(w) PROVE Stored'
  <2>1. B!Forgetting' = B!Forgetting /\ B!Listed' = B!Listed
    BY <1>6, ForgettingStays DEF Dumped, Going, B!Listed
  <2>2. InPlace /\ HasPath
    BY <1>0, <1>6, <2>1 DEF Stored, InPlace, HasPath, Dumped
  <2>3. exec'[w].pc # "done" /\ (exec'[w].pc = "upload" => exec'[w].path # B!NoPath)
    <3>1. <<exec[w].b, exec[w].n>> # B!NoPath
      BY <1>6, HasBackup DEF Dumped
    <3> QED
      BY <1>0, <1>6, <3>1 DEF Dumped
  <2>4. ChosenPath /\ DoneIn
    BY <1>0, <1>6, <2>3 DEF Stored, ChosenPath, DoneIn, Dumped, Going
  <2> QED
    BY <1>a, <2>2, <2>4
<1>7. ASSUME NEW w \in Workers, Uploaded(w) PROVE Stored'
  <2>1. B!Forgetting' = B!Forgetting /\ B!Listed' = B!Listed /\ UNCHANGED bak
    BY <1>7, ForgettingStays DEF Uploaded, Going, B!Listed
  <2>2. object \subseteq object'
    BY <1>7 DEF Uploaded
  <2>3. InPlace /\ HasPath
    BY <1>0, <2>1, <2>2 DEF Stored, InPlace, HasPath
  <2>4. exec[w].path # B!NoPath
    BY <1>0, <1>7 DEF Uploaded, Stored
  <2>5. exec'[w].pc = "done" => <<bak'[exec'[w].b].bucket, exec'[w].path>> \in object'
    BY <1>0, <1>7 DEF Uploaded, Going, SamePath
  <2>6. ChosenPath
    BY <1>0, <1>7, <2>4 DEF Stored, ChosenPath, Uploaded, Going, SamePath
  <2>7. DoneIn
    <3>1. ASSUME NEW v \in Workers \ {w}, exec'[v].pc = "done"
          PROVE  <<bak'[exec'[v].b].bucket, exec'[v].path>> \in object'
      <4>1. exec'[v] = exec[v] /\ exec[v].pc = "done"
        BY <1>7, <3>1 DEF Uploaded, Going
      <4>2. <<bak[exec[v].b].bucket, exec[v].path>> \in object
        BY <1>0, <4>1 DEF Stored
      <4> QED
        BY <2>1, <2>2, <4>1, <4>2
    <3> QED
      BY <2>5, <3>1 DEF DoneIn
  <2> QED
    BY <1>a, <2>3, <2>6, <2>7
<1>8. ASSUME NEW w \in Workers, NEW st \in {"failed", "completed"}, NEW from \in {"fail", "done"},
             NEW to \in {"ack", "list"}, Written(w, from, st, to), st = "completed" => from = "done"
      PROVE  Stored'
  <2>1. B!Forgetting' = B!Forgetting /\ UNCHANGED object /\ exec[w].pc = from
    BY <1>8, ForgettingStays DEF Written, Going
  <2>2. exec[w].b \in Backups /\ exec[w].pc # "idle"
    BY <1>8, HasBackup DEF Written, Backup
  <2>3. CASE UNCHANGED bak
    BY <1>1, <1>8, <2>1, <2>3 DEF Written, Going
  <2>4. CASE RowIs(exec[w].b, st, exec[w].path, bak[exec[w].b].gone)
    <3>1. ASSUME st = "completed"
          PROVE  exec[w].path # B!NoPath /\ <<bak[exec[w].b].bucket, exec[w].path>> \in object
      BY <1>0, <1>8, <2>1, <3>1 DEF Stored
    <3>2. InPlace
      BY <1>0, <2>1, <2>2, <2>4, <3>1 DEF Stored, InPlace, RowIs, B!Listed
    <3>3. HasPath
      BY <1>0, <2>2, <2>4, <3>1 DEF Stored, HasPath, RowIs
    <3>4. ChosenPath
      BY <1>0, <1>8 DEF Stored, ChosenPath, Written, Going
    <3>5. DoneIn
      BY <1>0, <1>8, <1>b, <2>1, <2>2, <2>4, SMTT(60) DEF Stored, DoneIn, RowIs, Written, Going
    <3> QED
      BY <1>a, <3>2, <3>3, <3>4, <3>5
  <2> QED
    BY <1>8, <2>3, <2>4 DEF Written
<1>9. ASSUME NEW w \in Workers, Pruned(w) PROVE Stored'
  <2>1. /\ UNCHANGED bak /\ exec'[w].pc = "forget" /\ SameTodo(w) /\ Going(w)
        /\ exec[w].pc = "prune"
    BY <1>9 DEF Pruned
  <2>2. B!Forgetting \subseteq B!Forgetting' /\ B!Listed' = B!Listed
    BY <2>1 DEF B!Forgetting, B!Target, B!Listed, Going
  <2>3. HasPath
    BY <1>0, <2>1 DEF Stored, HasPath
  <2>4. ChosenPath
    BY <1>0, <2>1 DEF Stored, ChosenPath, Going
  <2>5. CASE UNCHANGED object
    <3>1. InPlace
      BY <1>0, <2>1, <2>2, <2>5 DEF Stored, InPlace
    <3>2. DoneIn
      BY <1>0, <2>1, <2>5 DEF Stored, DoneIn, Going
    <3> QED
      BY <1>a, <2>3, <2>4, <3>1, <3>2
  <2>6. ASSUME NEW t \in Backups, B!Target(w, t), object' = object \ {<<exec[w].bucket, bak[t].path>>}
        PROVE  Stored'
    <3>1. t \in B!Forgetting' /\ Over(t) /\ t # 0
      BY <2>1, <2>6, BackupsAssumption DEF B!Forgetting, B!Target, SameTodo, OverInv
    <3>2. ASSUME NEW b \in B!Listed' \ B!Forgetting', bak'[b].st = "completed"
          PROVE  <<bak'[b].bucket, bak'[b].path>> \in object'
      <4>1. b \in Backups /\ b # t /\ b \notin B!Forgetting /\ b \in B!Listed
        BY <2>2, <3>1, <3>2 DEF B!Listed
      <4>2. <<bak[b].bucket, bak[b].path>> \in object /\ bak[b].path # B!NoPath
        BY <1>0, <2>1, <3>2, <4>1 DEF Stored
      <4>3. bak[b].path # bak[t].path
        BY <1>0, <4>1, <4>2 DEF Paths
      <4> QED
        BY <2>1, <2>6, <4>2, <4>3
    <3>3. InPlace
      BY <3>2 DEF InPlace
    <3>4. ASSUME NEW v \in Workers, exec'[v].pc = "done"
          PROVE  <<bak'[exec'[v].b].bucket, exec'[v].path>> \in object'
      <4>1. v # w /\ exec'[v] = exec[v]
        BY <2>1, <3>4 DEF Going
      <4>2. exec[v].b # t
        BY <3>1, <3>4, <4>1 DEF Over, Mid
      <4>3. <<bak[exec[v].b].bucket, exec[v].path>> \in object /\ exec[v].path # B!NoPath
        BY <1>0, <3>4, <4>1 DEF Stored
      <4>4. exec[v].path # bak[t].path
        BY <1>0, <4>2, <4>3 DEF Paths
      <4> QED
        BY <2>1, <2>6, <4>1, <4>3, <4>4
    <3>5. DoneIn
      BY <3>4 DEF DoneIn
    <3> QED
      BY <1>a, <2>3, <2>4, <3>3, <3>5
  <2> QED
    BY <1>9, <2>5, <2>6 DEF Pruned
<1>10. ASSUME NEW w \in Workers, NEW t \in Backups, Forgot(w, t) PROVE Stored'
  <2>1. /\ RowIs(t, bak[t].st, bak[t].path, TRUE) /\ UNCHANGED object /\ B!Target(w, t)
        /\ Going(w) /\ SamePath(w) /\ exec'[w].pc \in {"ack", "prune"}
    BY <1>0, <1>10 DEF Forgot
  <2>2. ASSUME NEW b \in B!Listed' \ B!Forgetting' PROVE b \in B!Listed \ B!Forgetting /\ b # t
    <3>1. b \in Backups /\ b # t /\ b \in B!Listed
      BY <2>1, <2>2 DEF B!Listed, RowIs
    <3>2. ASSUME NEW v \in Workers, exec[v].pc = "forget", B!Target(v, b) PROVE FALSE
      <4>1. CASE v = w
        <5>1. b <= t /\ t <= b
          BY <2>1, <3>2, <4>1 DEF B!Target
        <5> QED
          BY <3>1, <5>1, BackupsAssumption
      <4>2. CASE v # w
        <5>1. exec'[v] = exec[v]
          BY <2>1, <4>2 DEF Going
        <5> QED
          BY <2>2, <3>1, <3>2, <5>1 DEF B!Forgetting, B!Target
      <4> QED
        BY <4>1, <4>2
    <3> QED
      BY <3>1, <3>2 DEF B!Forgetting
  <2>3. \A b \in Backups : /\ bak'[b].st = bak[b].st /\ bak'[b].path = bak[b].path
                           /\ bak'[b].bucket = bak[b].bucket
    BY <2>1 DEF RowIs
  <2>4. \A b \in B!Listed' : b \in Backups
    BY DEF B!Listed
  <2>5. InPlace
    BY <1>0, <2>1, <2>2, <2>3, <2>4 DEF Stored, InPlace
  <2>6. HasPath
    BY <1>0, <2>3 DEF Stored, HasPath
  <2>7. ChosenPath
    BY <1>0, <2>1 DEF Stored, ChosenPath, Going
  <2>8. DoneIn
    BY <1>0, <1>b, <2>1, <2>3, SMTT(60) DEF Stored, DoneIn, Going
  <2> QED
    BY <1>a, <2>5, <2>6, <2>7, <2>8
<1>11. ASSUME NEW w \in Workers, Worked(w) PROVE Stored'
  BY <1>4, <1>5, <1>6, <1>7, <1>8, <1>9, <1>10, <1>11 DEF Worked
<1>12. ASSUME NEW w \in Workers, Acked(w) \/ Nacked(w) PROVE Stored'
  BY <1>1, <1>12 DEF Acked, Nacked, JobOver
<1>13. ASSUME NEW w \in Workers, Crashed(w) PROVE Stored'
  <2>1. exec[w].pc # "forget"
    BY <1>0, <1>13 DEF Crashed
  <2> QED
    BY <1>1, <1>13, <2>1 DEF Crashed, JobOver
<1>14. ASSUME NEW w \in Workers, Halted(w) PROVE Stored'
  BY <1>1, <1>14 DEF Halted, WasCut, Going, SamePath, SameTodo
<1>15. ASSUME NEW w \in Workers, NEW b \in Backups, Fetched(w, b) PROVE Stored'
  BY <1>1, <1>15 DEF Fetched
<1>16. CASE UNCHANGED backupVars \/ \E b \in Backups : Redelivered(b)
  BY <1>2, <1>16 DEF backupVars, Redelivered
<1>17. CASE Passed \/ \E w \in Workers : Led(w)
  BY <1>2, <1>17, PassedSteps
<1> QED
  BY <1>3, <1>11, <1>12, <1>13, <1>14, <1>15, <1>16, <1>17, BackupSteps, CallSteps DEF JobEnded

(* A listed backup is pruned only behind a newer one that is kept.         *)
LEMMA SameCardinality == \A S : B!Cardinality(S) = Cardinality(S)
BY DEF B!Cardinality, Cardinality

LEMMA LastStep ==
  ASSUME Typed, [B!Next]_backupVars, WorkInv, OverInv, LastInv
  PROVE  LastInv'
<1> SUFFICES ASSUME "crowded" \notin odd', "undone" \notin odd' PROVE OneIsKept'
  BY DEF LastInv, B!Barring
<1>0. OneIsKept /\ \A w \in Workers : exec[w].todo \subseteq Backups
  BY Grows DEF LastInv, B!Barring, Typed, B!TypeOK, B!Exec
<1>1. ASSUME \A b \in Backups : Retained(b)' <=> Retained(b),
             \A b \in Backups : bak'[b].st = "completed" <=> bak[b].st = "completed",
             \A w \in Workers : exec'[w].todo \subseteq exec[w].todo
      PROVE  OneIsKept'
  <2>1. \A w \in Workers : \A t \in exec'[w].todo : t \in exec[w].todo /\ t \in Backups
    BY <1>0, <1>1
  <2>2. \A w \in Workers : \A t \in exec'[w].todo : Retained(t)' => \E c \in Backups : Retained(c)' /\ c > t
    BY <1>0, <1>1, <2>1 DEF OneIsKept
  <2>3. (\E b \in Backups : bak'[b].st = "completed") => \E b \in Backups : Retained(b)'
    BY <1>0, <1>1 DEF OneIsKept
  <2> QED
    BY <2>2, <2>3 DEF OneIsKept
<1>2. ASSUME UNCHANGED bak, \A w \in Workers : exec'[w].todo \subseteq exec[w].todo PROVE OneIsKept'
  BY <1>1, <1>2 DEF Retained
<1>3. ASSUME NEW c \in Callers, Calls(c) PROVE OneIsKept'
  <2>1. ASSUME NEW b \in Backups, Created(c, b) PROVE OneIsKept'
    BY <1>1, <1>3, <2>1 DEF Calls, Created, Retained
  <2>2. ASSUME NEW b \in Backups, RowIs(b, "failed", bak[b].path, bak[b].gone), bak[b].st = "queued"
        PROVE  OneIsKept'
    BY <1>1, <1>3, <2>2 DEF Calls, RowIs, Retained
  <2> QED
    BY <1>2, <1>3, <2>1, <2>2 DEF Calls
<1>4. ASSUME NEW w \in Workers, Loaded(w) \/ Dumped(w) \/ Uploaded(w) \/ Pruned(w) PROVE OneIsKept'
  <2>1. UNCHANGED bak /\ SameTodo(w) /\ \A v \in Workers \ {w} : exec'[v] = exec[v]
    BY <1>4 DEF Loaded, Dumped, Uploaded, Pruned, Going
  <2> QED
    BY <1>2, <2>1 DEF SameTodo
<1>5. ASSUME NEW w \in Workers, Marked(w) PROVE OneIsKept'
  <2>1. SameTodo(w) /\ exec[w].b \in Backups /\ exec[w].pc \in Mid
        /\ \A v \in Workers \ {w} : exec'[v] = exec[v]
    BY <1>5, HasBackup DEF Marked, Going, Backup, Mid
  <2>2. UNCHANGED bak \/ RowIs(exec[w].b, "running", bak[exec[w].b].path, bak[exec[w].b].gone)
    BY <1>5 DEF Marked
  <2>3. bak[exec[w].b].st # "completed"
    BY <2>1 DEF WorkInv
  <2>4. \A b \in Backups : (Retained(b)' <=> Retained(b)) /\ (bak'[b].st = "completed" <=> bak[b].st = "completed")
    BY <2>1, <2>2, <2>3 DEF RowIs, Retained
  <2> QED
    BY <1>1, <2>1, <2>4 DEF SameTodo
<1>6. ASSUME NEW w \in Workers, Written(w, "fail", "failed", "ack") PROVE OneIsKept'
  <2>1. SameTodo(w) /\ exec[w].b \in Backups /\ exec[w].pc \in Mid
        /\ \A v \in Workers \ {w} : exec'[v] = exec[v]
    BY <1>6, HasBackup DEF Written, Going, Backup, Mid
  <2>2. UNCHANGED bak \/ RowIs(exec[w].b, "failed", exec[w].path, bak[exec[w].b].gone)
    BY <1>6 DEF Written
  <2>3. bak[exec[w].b].st # "completed"
    BY <2>1 DEF WorkInv
  <2>4. \A b \in Backups : (Retained(b)' <=> Retained(b)) /\ (bak'[b].st = "completed" <=> bak[b].st = "completed")
    BY <2>1, <2>2, <2>3 DEF RowIs, Retained
  <2> QED
    BY <1>1, <2>1, <2>4 DEF SameTodo
<1>7. ASSUME NEW w \in Workers, Written(w, "done", "completed", "list") PROVE OneIsKept'
  <2>1. SameTodo(w) /\ exec[w].b \in Backups /\ exec[w].pc \in Mid
        /\ \A v \in Workers \ {w} : exec'[v] = exec[v]
    BY <1>7, HasBackup DEF Written, Going, Backup, Mid
  <2>2. CASE UNCHANGED bak
    BY <1>2, <2>1, <2>2 DEF SameTodo
  <2>3. CASE RowIs(exec[w].b, "completed", exec[w].path, bak[exec[w].b].gone)
    <3>1. bak[exec[w].b].st # "completed" /\ ~ bak[exec[w].b].gone
      BY <2>1 DEF WorkInv
    <3>2. PICK b \in Backups : b = exec[w].b
      BY <2>1
    <3>2a. RowIs(b, "completed", exec[w].path, bak[b].gone)
      BY <2>3, <3>2
    <3>2b. Retained(b)' /\ \A c \in Backups : Retained(c) => Retained(c)'
      BY <3>1, <3>2, <3>2a DEF RowIs, Retained
    <3>3. ASSUME NEW v \in Workers, NEW t \in exec'[v].todo, Retained(t)'
          PROVE  \E c \in Backups : Retained(c)' /\ c > t
      <4>1. t \in exec[v].todo /\ t \in Backups
        BY <1>0, <2>1, <3>3 DEF SameTodo
      <4>2. t # b
        BY <2>1, <3>2, <4>1 DEF OverInv, Over
      <4>3. Retained(t)
        BY <3>2a, <3>3, <4>1, <4>2 DEF RowIs, Retained
      <4>4. PICK c \in Backups : Retained(c) /\ c > t
        BY <1>0, <4>1, <4>3 DEF OneIsKept
      <4> QED
        BY <3>2b, <4>4
    <3>4. \E c \in Backups : Retained(c)'
      BY <3>2b
    <3> QED
      BY <3>3, <3>4 DEF OneIsKept
  <2> QED
    BY <1>7, <2>2, <2>3 DEF Written
<1>8. ASSUME NEW w \in Workers, OldListed(w) PROVE OneIsKept'
  <2>1. UNCHANGED bak /\ exec[w].keep \in Keeps /\ \A v \in Workers \ {w} : exec'[v] = exec[v]
    BY <1>8 DEF OldListed, Going
  <2>2. CASE SameTodo(w)
    BY <1>2, <2>1, <2>2 DEF SameTodo
  <2>3. CASE exec'[w].todo = Old(w) /\ ((\E b \in Old(w) : B!Crowded(b)) => "crowded" \in odd')
    <3>1. ASSUME NEW t \in Old(w) PROVE \E c \in Backups : Retained(c) /\ c > t
      <4>1. t \in B!Listed /\ B!Beyond(t, exec[w].keep) /\ ~ B!Crowded(t)
        BY <2>3 DEF Old
      <4>2. {c \in B!Listed : c > t} # {}
        <5>1. Cardinality({}) = 0
          BY FS_EmptySet
        <5>2. exec[w].keep \in Nat \ {0}
          BY <2>1, BackupsAssumption
        <5>3. PICK k \in Keeps : k = exec[w].keep
          BY <2>1
        <5>3a. Cardinality({c \in B!Listed : c > t}) >= k
          BY <4>1, <5>3, SameCardinality DEF B!Beyond
        <5>4. ~ (0 >= k)
          BY <5>2, <5>3
        <5> QED
          BY <5>1, <5>3a, <5>4
      <4>3. PICK c \in B!Listed : c > t /\ bak[c].st = "completed"
        BY <4>1, <4>2 DEF B!Crowded
      <4> QED
        BY <4>3 DEF B!Listed, Retained
    <3>2. \A b : Retained(b)' <=> Retained(b)
      BY <2>1 DEF Retained
    <3>3. \A v \in Workers : \A t \in exec'[v].todo : Retained(t)' => \E c \in Backups : Retained(c)' /\ c > t
      BY <1>0, <2>1, <2>3, <3>1, <3>2 DEF OneIsKept
    <3>4. (\E b \in Backups : bak'[b].st = "completed") => \E b \in Backups : Retained(b)'
      BY <1>0, <2>1, <3>2 DEF OneIsKept
    <3> QED
      BY <3>3, <3>4 DEF OneIsKept
  <2> QED
    BY <1>8, <2>2, <2>3 DEF OldListed
<1>9. ASSUME NEW w \in Workers, NEW t \in Backups, Forgot(w, t) PROVE OneIsKept'
  <2>1. /\ t \in exec[w].todo /\ exec'[w].todo \subseteq exec[w].todo
        /\ \A v \in Workers \ {w} : exec'[v] = exec[v]
    BY <1>9 DEF Forgot, B!Target, Going
  <2>2. CASE UNCHANGED bak
    BY <1>2, <2>1, <2>2
  <2>3. CASE RowIs(t, bak[t].st, bak[t].path, TRUE)
    <3>1. /\ ~ Retained(t)' /\ \A b \in Backups \ {t} : Retained(b)' <=> Retained(b)
          /\ \A b \in Backups : bak'[b].st = "completed" <=> bak[b].st = "completed"
      BY <2>3 DEF RowIs, Retained
    <3>2. ASSUME NEW c \in Backups, Retained(c) PROVE \E d \in Backups : Retained(d)' /\ d >= c
      <4>1. c \in Nat /\ t \in Nat
        BY BackupsAssumption
      <4>2. CASE c # t
        BY <3>1, <3>2, <4>1, <4>2
      <4>3. CASE c = t
        <5>1. PICK d \in Backups : Retained(d) /\ d > t
          BY <1>0, <2>1, <3>2, <4>3 DEF OneIsKept
        <5>2. d \in Nat
          BY BackupsAssumption
        <5>3. d # t /\ d >= c
          BY <4>1, <4>3, <5>1, <5>2
        <5> QED
          BY <3>1, <5>1, <5>3
      <4> QED
        BY <4>2, <4>3
    <3>3. ASSUME NEW v \in Workers, NEW u \in exec'[v].todo, Retained(u)'
          PROVE  \E c \in Backups : Retained(c)' /\ c > u
      <4>1. u \in exec[v].todo /\ u \in Backups /\ Retained(u)
        BY <1>0, <2>1, <3>1, <3>3
      <4>2. PICK c \in Backups : Retained(c) /\ c > u
        BY <1>0, <4>1 DEF OneIsKept
      <4>3. PICK d \in Backups : Retained(d)' /\ d >= c
        BY <3>2, <4>2
      <4>4. c \in Nat /\ d \in Nat /\ u \in Nat
        BY <4>1, BackupsAssumption
      <4>5. d > u
        BY <4>2, <4>3, <4>4
      <4> QED
        BY <4>3, <4>5
    <3>4. (\E b \in Backups : bak'[b].st = "completed") => \E b \in Backups : Retained(b)'
      BY <1>0, <3>1, <3>2 DEF OneIsKept
    <3> QED
      BY <3>3, <3>4 DEF OneIsKept
  <2> QED
    BY <1>9, <2>2, <2>3 DEF Forgot
<1>10. ASSUME NEW w \in Workers, Worked(w) PROVE OneIsKept'
  BY <1>4, <1>5, <1>6, <1>7, <1>8, <1>9, <1>10 DEF Worked
<1>11. ASSUME NEW w \in Workers, JobEnded(w) PROVE OneIsKept'
  BY <1>2, <1>11 DEF JobEnded, Acked, Nacked, Crashed, JobOver
<1>12. ASSUME NEW w \in Workers, Halted(w) PROVE OneIsKept'
  <2>1. UNCHANGED bak /\ SameTodo(w) /\ \A v \in Workers \ {w} : exec'[v] = exec[v]
    BY <1>12 DEF Halted, WasCut, Going
  <2> QED
    BY <1>2, <2>1 DEF SameTodo
<1>13. ASSUME NEW w \in Workers, NEW b \in Backups, Fetched(w, b) PROVE OneIsKept'
  <2>1. UNCHANGED bak /\ exec'[w].todo = {} /\ \A v \in Workers \ {w} : exec'[v] = exec[v]
    BY <1>13 DEF Fetched
  <2> QED
    BY <1>2, <2>1
<1>14. CASE UNCHANGED backupVars \/ \E b \in Backups : Redelivered(b)
  BY <1>2, <1>14 DEF backupVars, Redelivered
<1>15. CASE Passed \/ \E w \in Workers : Led(w)
  BY <1>2, <1>15, PassedSteps
<1> QED
  BY <1>3, <1>10, <1>11, <1>12, <1>13, <1>14, <1>15, BackupSteps, CallSteps

-----------------------------------------------------------------------------
BackupInv ==
  /\ Typed /\ MinuteInv /\ LeadInv /\ OneLeads /\ OnceInv /\ WorkInv /\ EndInv /\ PursuitInv /\ OverInv
  /\ PathInv /\ StoreInv /\ LastInv

LEMMA BackupInvHolds == B!Spec => []BackupInv
<1>1. B!Init => BackupInv
  <2> SUFFICES ASSUME B!Init PROVE BackupInv
    OBVIOUS
  <2>1. Typed
    BY BackupsInit DEF Typed
  <2>2. \A b \in Backups : bak[b].st = "none" /\ bak[b].at = 0 /\ bak[b].path = B!NoPath
    BY DEF B!Init, B!NoBackup
  <2>3. \A c \in Callers : call[c].pc = "free" /\ call[c].at = 0 /\ call[c].b = 0
    BY DEF B!Init, B!NoCall, B!Callers, Callers
  <2>4. \A w \in Workers : /\ exec[w].pc = "idle" /\ exec[w].todo = {} /\ exec[w].path = B!NoPath
                           /\ ~ proc[w].leader
    BY DEF B!Init, B!NoExec
  <2>5. clock = 1
    BY DEF B!Init
  <2>6. MinuteInv
    BY <2>2, <2>3, <2>5 DEF MinuteInv, Past, Named
  <2>7. LeadInv /\ OneLeads
    BY <2>4 DEF LeadInv, OneLeads
  <2>8. OnceInv
    BY <2>2, <2>3, <2>4, <2>5 DEF OnceInv
  <2>9. WorkInv /\ EndInv /\ OverInv
    BY <2>4 DEF WorkInv, EndInv, OverInv, Mid, Ending
  <2>10. PursuitInv
    BY <2>2, <2>3 DEF PursuitInv, Unbound, B!BackupIsPursued
  <2>11. PathInv
    BY <2>2, <2>4 DEF PathInv
  <2>12. StoreInv
    BY <2>2, <2>4 DEF StoreInv, Stored, B!Listed
  <2>13. LastInv
    BY <2>2, <2>4 DEF LastInv, OneIsKept
  <2> QED
    BY <2>1, <2>6, <2>7, <2>8, <2>9, <2>10, <2>11, <2>12, <2>13 DEF BackupInv
<1>2. BackupInv /\ [B!Next]_B!vars => BackupInv'
  <2> SUFFICES ASSUME BackupInv, [B!Next]_B!vars PROVE BackupInv'
    OBVIOUS
  <2>0. [B!Next]_backupVars
    BY DEF B!vars, backupVars
  <2>1. Typed'
    BY <2>0, BackupSteps DEF BackupInv
  <2>2. MinuteInv' /\ LeadInv' /\ OneLeads' /\ OnceInv'
    BY <2>0, MinuteStep, LeadStep, OnceStep DEF BackupInv
  <2>3. WorkInv' /\ EndInv' /\ PursuitInv' /\ OverInv'
    BY <2>0, WorkStep, EndStep, PursuitStep, OverStep DEF BackupInv
  <2>4. PathInv' /\ StoreInv' /\ LastInv'
    BY <2>0, PathStep, StoreStep, LastStep DEF BackupInv
  <2> QED
    BY <2>1, <2>2, <2>3, <2>4 DEF BackupInv
<1> QED
  BY <1>1, <1>2, PTL DEF B!Spec

(* Every reachable state is typed, for all bounds.                         *)
THEOREM BackupsTypeCorrect == B!Spec => []B!TypeOK
<1>1. BackupInv => B!TypeOK
  BY DEF BackupInv, Typed
<1> QED
  BY <1>1, BackupInvHolds, PTL

(* A scheduled minute starts one backup, and only one that the schedule    *)
(* names does, for any schedule and any number of replicas.                *)
THEOREM OneBackupPerMinute == B!Spec => []OnePerMinute
<1>1. BackupInv => OnePerMinute
  <2> SUFFICES ASSUME BackupInv PROVE OnePerMinute
    OBVIOUS
  <2>1. \A v, w \in Workers : proc[v].leader /\ proc[w].leader => v = w \/ ~ B!Barring({"deposed"})
    BY DEF BackupInv, LeadInv, B!Barring
  <2>2. \A b, c \in Backups : bak[b].at # 0 /\ bak[b].at = bak[c].at => b = c \/ ~ B!Barring({"moved", "late"})
    BY DEF BackupInv, OnceInv
  <2>3. \A b \in Backups : bak[b].at # 0 => B!Expands(Cron, B!Wall(bak[b].at))
    <3>1. ASSUME NEW b \in Backups, bak[b].at # 0 PROVE B!Expands(Cron, B!Wall(bak[b].at))
      <4>1. bak[b].at \in 0..Minutes
        BY DEF BackupInv, Typed, B!TypeOK, B!Backup
      <4>2. bak[b].at \in Nat
        BY <4>1, BackupsAssumption
      <4>3. B!Wall(bak[b].at) \in 0..59
        BY <4>2, WallClock
      <4>4. B!MatchField(Cron, B!Wall(bak[b].at))
        BY <3>1 DEF BackupInv, MinuteInv, Named
      <4> QED
        BY <4>3, <4>4, ScheduleMeans
    <3> QED
      BY <3>1
  <2> QED
    BY <2>1, <2>2, <2>3 DEF OnePerMinute, B!OnePerMinute
<1> QED
  BY <1>1, BackupInvHolds, PTL

(* What is listed as completed is in the bucket and at the path that its   *)
(* row names, and pruning leaves one of them.                              *)
THEOREM CompletedAreKept == B!Spec => []BackupsAreKept
<1>1. BackupInv => BackupsAreKept
  <2> SUFFICES ASSUME BackupInv PROVE BackupsAreKept
    OBVIOUS
  <2>1. B!Barring({"reconfigured", "twin", "halfpruned"}) => Stored
    BY DEF BackupInv, StoreInv
  <2>2. B!Barring({"crowded", "undone"}) => OneIsKept
    BY DEF BackupInv, LastInv
  <2>3. OneIsKept /\ (\E b \in Backups : bak[b].st = "completed") => \E b \in B!Listed : bak[b].st = "completed"
    BY DEF OneIsKept, Retained, B!Listed
  <2> QED
    BY <2>1, <2>2, <2>3 DEF BackupsAreKept, B!BackupsAreKept, Stored
<1> QED
  BY <1>1, BackupInvHolds, PTL

(* One that its row shows as queued or running has a message, or a request *)
(* that is about to send or to fail it.                                    *)
THEOREM PendingArePursued == B!Spec => []BackupIsPursued
<1>1. BackupInv => BackupIsPursued
  BY DEF BackupInv, PursuitInv, BackupIsPursued
<1> QED
  BY <1>1, BackupInvHolds, PTL
=============================================================================
