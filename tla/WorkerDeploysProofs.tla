------------------------- MODULE WorkerDeploysProofs -------------------------
(***************************************************************************)
(* Theorems of WorkerDeploys, for any number of deployments, slots,        *)
(* requests, accounts and events.                                          *)
(***************************************************************************)
EXTENDS WorkerDeploys, FiniteSetTheorems, TLAPS

-----------------------------------------------------------------------------
(* Types *)

WorkerStates == {"idle", "deploying", "live", "error"}

LEMMA WorkerUpdates ==
  /\ \A a \in Accounts \cup {NoAccount} : Fresh(a) \in Worker
  /\ \A w \in Worker :
       /\ w.status \in WorkerStates /\ w.account \in Accounts \cup {NoAccount}
       /\ w.confirmed \in BOOLEAN /\ w.script \in BOOLEAN
       /\ \A st \in WorkerStates : [w EXCEPT !.status = st] \in Worker
       /\ \A a \in Accounts \cup {NoAccount} : [w EXCEPT !.account = a] \in Worker
       /\ \A b \in BOOLEAN : /\ [w EXCEPT !.confirmed = b] \in Worker
                             /\ [w EXCEPT !.script = b] \in Worker
       /\ [w EXCEPT !.life = "deleted"] \in Worker
BY DEF Worker, Fresh, WorkerStates

LEMMA Blanks ==
  /\ FreeSlot \in Slot
  /\ FreeRequest \in Request
  /\ NoPod \in Pod
<1>1. (CHOOSE d \in Deploys : TRUE) \in Deploys
  BY WorkersAssumption
<1>2. Fresh(NoAccount) \in Worker /\ 0 \in 0..ReadCap
  BY WorkerUpdates, WorkersAssumption
<1> QED
  BY <1>1, <1>2 DEF FreeSlot, Slot, Status, FreeRequest, Request, NoPod, Pod

SlotPCs == {"idle", "load", "loadWorker", "start", "mark", "resolve", "wait", "runtime",
            "end", "endWorker", "ack", "nack"}
RequestPCs == {"free", "latest", "claim", "persist", "read", "mark", "create", "enqueue",
               "undo", "restore", "finish", "revert", "write", "delete"}

LEMMA SlotUpdates ==
  \A x \in Slot :
    /\ x.pc \in SlotPCs /\ x.d \in Deploys /\ x.n \in 0..ReadCap /\ x.row \in Status
    /\ x.copy \in Worker /\ x.cut \in BOOLEAN
    /\ \A pc \in SlotPCs : /\ [x EXCEPT !.pc = pc] \in Slot
                           /\ \A st \in Status : [x EXCEPT !.pc = pc, !.row = st] \in Slot
                           /\ \A w \in Worker : [x EXCEPT !.pc = pc, !.copy = w] \in Slot
    /\ [x EXCEPT !.pc = "runtime", !.row = "success", !.copy.script = TRUE] \in Slot
    /\ [x EXCEPT !.cut = TRUE] \in Slot
<1> SUFFICES ASSUME NEW x \in Slot
             PROVE  /\ x.pc \in SlotPCs /\ x.d \in Deploys /\ x.n \in 0..ReadCap /\ x.row \in Status
                    /\ x.copy \in Worker /\ x.cut \in BOOLEAN
                    /\ \A pc \in SlotPCs :
                         /\ [x EXCEPT !.pc = pc] \in Slot
                         /\ \A st \in Status : [x EXCEPT !.pc = pc, !.row = st] \in Slot
                         /\ \A w \in Worker : [x EXCEPT !.pc = pc, !.copy = w] \in Slot
                    /\ [x EXCEPT !.pc = "runtime", !.row = "success", !.copy.script = TRUE] \in Slot
                    /\ [x EXCEPT !.cut = TRUE] \in Slot
  OBVIOUS
<1>1. "success" \in Status /\ [x.copy EXCEPT !.script = TRUE] \in Worker
  <2>1. x.copy \in Worker
    BY DEF Slot
  <2> QED
    BY <2>1, WorkerUpdates DEF Status, Done
<1> QED
  BY <1>1 DEF Slot, SlotPCs

LEMMA RequestUpdates ==
  \A x \in Request :
    /\ x.op \in {"none", "deploy", "confirm", "edit", "move", "delete"} /\ x.pc \in RequestPCs
    /\ x.copy \in Worker /\ x.d \in Deploys \cup {0} /\ x.old \in Deploys \cup {0}
    /\ \A pc \in RequestPCs :
         /\ [x EXCEPT !.pc = pc] \in Request
         /\ \A w \in Worker : [x EXCEPT !.pc = pc, !.copy = w] \in Request
         /\ \A d \in Deploys : /\ [x EXCEPT !.pc = pc, !.d = d] \in Request
                               /\ [x EXCEPT !.pc = pc, !.old = d] \in Request
<1> SUFFICES ASSUME NEW x \in Request
             PROVE  /\ x.op \in {"none", "deploy", "confirm", "edit", "move", "delete"}
                    /\ x.pc \in RequestPCs /\ x.copy \in Worker
                    /\ x.d \in Deploys \cup {0} /\ x.old \in Deploys \cup {0}
                    /\ \A pc \in RequestPCs :
                         /\ [x EXCEPT !.pc = pc] \in Request
                         /\ \A w \in Worker : [x EXCEPT !.pc = pc, !.copy = w] \in Request
                         /\ \A d \in Deploys : /\ [x EXCEPT !.pc = pc, !.d = d] \in Request
                                               /\ [x EXCEPT !.pc = pc, !.old = d] \in Request
  OBVIOUS
<1> USE DEF Request, RequestPCs
<1>1. /\ x.op \in {"none", "deploy", "confirm", "edit", "move", "delete"}
      /\ x.pc \in RequestPCs /\ x.copy \in Worker
      /\ x.d \in Deploys \cup {0} /\ x.old \in Deploys \cup {0}
  OBVIOUS
<1>2. ASSUME NEW pc \in RequestPCs
      PROVE  /\ [x EXCEPT !.pc = pc] \in Request
             /\ \A w \in Worker : [x EXCEPT !.pc = pc, !.copy = w] \in Request
             /\ \A d \in Deploys : /\ [x EXCEPT !.pc = pc, !.d = d] \in Request
                                   /\ [x EXCEPT !.pc = pc, !.old = d] \in Request
  OBVIOUS
<1> QED
  BY <1>1, <1>2


(* A pod has an account from its creation to its deletion.                 *)
Attempts == Deploys \X (1..ReadCap)
Placed == \A p \in Attempts : pod[p].ph # "absent" => pod[p].account \in Accounts
Typed == TypeOK /\ Placed

LEMMA TypeInit == Init => Typed
<1> SUFFICES ASSUME Init PROVE Typed
  OBVIOUS
<1> USE Blanks, WorkerUpdates, WorkersAssumption DEF Init, TypeOK
<1>1. worker \in Worker
  OBVIOUS
<1>2. dep \in [Deploys -> Status]
  BY DEF Status
<1>3. queue \in [Deploys -> Queue!Message]
  BY DEF Queue!QueueInit, Queue!Message, Queue!Places
<1>4. exec \in [Slots -> Slot] /\ req \in [Requests -> Request]
  OBVIOUS
<1>5. pod \in [Attempts -> Pod] /\ Placed
  BY DEF Attempts, Placed, NoPod
<1>6. cloud \in [bucket : SUBSET Accounts, script : SUBSET Accounts, by : SUBSET Deploys,
                 approved : SUBSET Accounts]
  OBVIOUS
<1>7. recov \in [Deploys -> {"idle", "mark", "worker"}] /\ tear \subseteq Accounts
  OBVIOUS
<1>8. left \in [ops : 0..MaxOps, events : 0..MaxEvents] /\ odd = {}
  OBVIOUS
<1> QED
  BY <1>1, <1>2, <1>3, <1>4, <1>5, <1>6, <1>7, <1>8 DEF Typed, Attempts

(* What the helpers do to the types.                                       *)
Oddities == {"rewritten", "overtaken", "misread", "unchecked", "moved", "halted", "orphan"}

LEMMA Helpers ==
  ASSUME TypeOK
  PROVE  /\ \A st \in WorkerStates : SetStatus(st) => worker' \in Worker
         /\ \A e \in {"abort", "crash", "shutdown", "fault"} :
              Spend(e) => left' \in [ops : 0..MaxOps, events : 0..MaxEvents]
         /\ \A what \in Oddities : Note(what) => odd' \subseteq Oddities
         /\ \A r \in Requests : End(r) => req' \in [Requests -> Request]
         /\ \A r \in Requests, pc \in RequestPCs : Goto(r, pc) => req' \in [Requests -> Request]
         /\ \A s \in Slots, pc \in SlotPCs : To(s, pc) => exec' \in [Slots -> Slot]
         /\ \A s \in Slots, pc \in SlotPCs, st \in Status :
              Outcome(s, st, pc) => exec' \in [Slots -> Slot]
         /\ \A s \in Slots, st \in Status : Save(s, st) => dep' \in [Deploys -> Status]
<1> USE DEF TypeOK
<1>1. ASSUME NEW st \in WorkerStates, SetStatus(st) PROVE worker' \in Worker
  BY <1>1, WorkerUpdates DEF SetStatus
<1>2. ASSUME NEW e \in {"abort", "crash", "shutdown", "fault"}, Spend(e)
      PROVE  left' \in [ops : 0..MaxOps, events : 0..MaxEvents]
  BY <1>2, WorkersAssumption DEF Spend
<1>3. ASSUME NEW what \in Oddities, Note(what) PROVE odd' \subseteq Oddities
  BY <1>3 DEF Note, Oddities
<1>4. ASSUME NEW r \in Requests, End(r) PROVE req' \in [Requests -> Request]
  BY <1>4, Blanks DEF End
<1>5. ASSUME NEW r \in Requests, NEW pc \in RequestPCs, Goto(r, pc)
      PROVE  req' \in [Requests -> Request]
  BY <1>5, RequestUpdates DEF Goto
<1>6. ASSUME NEW s \in Slots, NEW pc \in SlotPCs, To(s, pc) PROVE exec' \in [Slots -> Slot]
  BY <1>6, SlotUpdates DEF To
<1>7. ASSUME NEW s \in Slots, NEW pc \in SlotPCs, NEW st \in Status, Outcome(s, st, pc)
      PROVE  exec' \in [Slots -> Slot]
  BY <1>7, SlotUpdates DEF Outcome
<1>8. ASSUME NEW s \in Slots, NEW st \in Status, Save(s, st) PROVE dep' \in [Deploys -> Status]
  BY <1>8 DEF Save
<1> QED
  BY <1>1, <1>2, <1>3, <1>4, <1>5, <1>6, <1>7, <1>8

LEMMA EnqueueType ==
  ASSUME TypeOK, NEW j, Queue!Enqueue(j)
  PROVE  queue' \in [Deploys -> Queue!Message]
<1>1. PICK ks \in SUBSET Deploys :
        queue' = [queue EXCEPT ![j] = [st |-> "visible", ct |-> 0, older |-> ks]]
  <2>1. {k \in Deploys : Queue!Sent(k)} \in SUBSET Deploys
    OBVIOUS
  <2> QED
    BY <2>1 DEF Queue!Enqueue
<1>2. [st |-> "visible", ct |-> 0, older |-> ks] \in Queue!Message
  BY WorkersAssumption DEF Queue!Message, Queue!Places
<1> QED
  BY <1>1, <1>2 DEF TypeOK

(* A step that leaves the pods alone, and the components it changes within *)
(* their types.                                                            *)
LEMMA Rest ==
  ASSUME Typed, UNCHANGED pod, worker' \in Worker, dep' \in [Deploys -> Status],
         queue' \in [Deploys -> Queue!Message], exec' \in [Slots -> Slot],
         cloud' \in [bucket : SUBSET Accounts, script : SUBSET Accounts, by : SUBSET Deploys,
                     approved : SUBSET Accounts],
         req' \in [Requests -> Request], recov' \in [Deploys -> {"idle", "mark", "worker"}],
         tear' \subseteq Accounts, left' \in [ops : 0..MaxOps, events : 0..MaxEvents],
         odd' \subseteq Oddities
  PROVE  Typed'
BY DEF Typed, TypeOK, Placed, Oddities

LEMMA TriggerType ==
  ASSUME Typed, NEW r \in Requests, TriggerNext(r)
  PROVE  Typed'
<1> USE DEF Typed, TypeOK
<1>0. req[r] \in Request /\ odd \subseteq Oddities
  BY DEF Oddities
<1>b. ASSUME NEW op, NEW pc \in RequestPCs, NEW w \in Worker, Begin(r, op, pc, w) PROVE Typed'
  <2>1. op \in {"deploy", "confirm", "edit", "move", "delete"}
    BY <1>b, WorkersAssumption DEF Begin
  <2>2. [FreeRequest EXCEPT !.op = op, !.pc = pc, !.copy = w] \in Request
    BY <2>1, Blanks DEF Request, RequestPCs
  <2>3. left' \in [ops : 0..MaxOps, events : 0..MaxEvents]
    BY <1>b, WorkersAssumption DEF Begin
  <2> QED
    BY <1>b, <2>2, <2>3, <1>0, Rest DEF Begin
<1>r. Refused(r) => req' \in [Requests -> Request]
  BY Helpers DEF Refused, RequestPCs
<1>1. CASE BeginDeploy(r)
  BY <1>1, <1>b DEF BeginDeploy, RequestPCs
<1>2. CASE Mark(r)
  BY <1>0, <1>2, <1>r, Helpers, Rest DEF Mark, RequestPCs, WorkerStates
<1>3. CASE Create(r)
  <2>1. PICK d \in Deploys : /\ dep' = [dep EXCEPT ![d] = "queued"]
                             /\ req' = [req EXCEPT ![r].pc = "enqueue", ![r].d = d]
    BY <1>3 DEF Create, Spare
  <2>2. dep' \in [Deploys -> Status] /\ req' \in [Requests -> Request]
    BY <1>0, <2>1, RequestUpdates DEF Status, RequestPCs
  <2> QED
    BY <1>0, <1>3, <2>2, Rest DEF Create
<1>4. CASE CreateFails(r)
  BY <1>0, <1>4, Helpers, Rest DEF CreateFails, RequestPCs
<1>q. Queue!Enqueue(req[r].d) => queue' \in [Deploys -> Queue!Message]
  BY EnqueueType
<1>5. CASE EnqueueJob(r)
  <2>1. req' \in [Requests -> Request]
    BY <1>5, Helpers DEF EnqueueJob, RequestPCs
  <2> QED
    BY <1>0, <1>5, <1>q, <2>1, Rest DEF EnqueueJob
<1>6. CASE EnqueueFails(r)
  <2>1. /\ req' \in [Requests -> Request] /\ left' \in [ops : 0..MaxOps, events : 0..MaxEvents]
        /\ odd' \subseteq Oddities
    BY <1>0, <1>6, Helpers DEF EnqueueFails, RequestPCs, Oddities
  <2> QED
    BY <1>6, <1>q, <2>1, Rest DEF EnqueueFails
<1>7. CASE UndoCreate(r)
  <2>1. dep' \in [Deploys -> Status] /\ req' \in [Requests -> Request]
    BY <1>7, Helpers DEF UndoCreate, RequestPCs, Status, Done
  <2> QED
    BY <1>0, <1>7, <2>1, Rest DEF UndoCreate
<1>8. CASE Restore(r)
  <2>1. req[r].copy.status \in WorkerStates
    BY <1>0, RequestUpdates, WorkerUpdates
  <2>2. worker' \in Worker
    BY <1>8, <2>1, Helpers DEF Restore, TakeBack
  <2> QED
    BY <1>0, <1>8, <1>r, <2>2, Rest DEF Restore
<1> QED
  BY <1>1, <1>2, <1>3, <1>4, <1>5, <1>6, <1>7, <1>8 DEF TriggerNext

LEMMA ConfirmType ==
  ASSUME Typed, NEW r \in Requests, ConfirmNext(r) \/ OtherNext(r)
  PROVE  Typed'
<1> USE DEF Typed, TypeOK
<1>0. req[r] \in Request /\ odd \subseteq Oddities /\ req[r].copy \in Worker
  BY RequestUpdates DEF Oddities
<1>b. ASSUME NEW op, NEW pc \in RequestPCs, NEW w \in Worker, Begin(r, op, pc, w) PROVE Typed'
  <2>1. op \in {"deploy", "confirm", "edit", "move", "delete"}
    BY <1>b, WorkersAssumption DEF Begin
  <2>2. [FreeRequest EXCEPT !.op = op, !.pc = pc, !.copy = w] \in Request
    BY <2>1, Blanks DEF Request, RequestPCs
  <2>3. left' \in [ops : 0..MaxOps, events : 0..MaxEvents]
    BY <1>b, WorkersAssumption DEF Begin
  <2> QED
    BY <1>b, <2>2, <2>3, <1>0, Rest DEF Begin
<1>e. End(r) => req' \in [Requests -> Request]
  BY Helpers
<1>1. CASE BeginConfirm(r)
  BY <1>1, <1>b DEF BeginConfirm, RequestPCs
<1>2. CASE ReadLatest(r)
  <2>1. req' \in [Requests -> Request]
    <3>1. ASSUME NEW d \in Latest, req' = [req EXCEPT ![r].pc = "claim", ![r].old = d]
          PROVE  req' \in [Requests -> Request]
      <4>1. d \in Deploys
        BY <3>1 DEF Latest
      <4> QED
        BY <1>0, <3>1, <4>1, RequestUpdates DEF RequestPCs
    <3> QED
      BY <1>2, <1>e, <3>1 DEF ReadLatest
  <2> QED
    BY <1>0, <1>2, <2>1, Rest DEF ReadLatest
<1>3. CASE Claim(r)
  <2>1. req' \in [Requests -> Request]
    BY <1>3, <1>e, Helpers DEF Claim, RequestPCs
  <2>2. dep' \in [Deploys -> Status]
    BY <1>3 DEF Claim, Status, Done
  <2>3. cloud' \in [bucket : SUBSET Accounts, script : SUBSET Accounts, by : SUBSET Deploys,
                    approved : SUBSET Accounts]
    BY <1>3 DEF Claim
  <2> QED
    BY <1>0, <1>3, <2>1, <2>2, <2>3, Rest DEF Claim
<1>4. CASE Persist(r)
  <2>1. worker' \in Worker
    BY <1>0, <1>4, WorkerUpdates DEF Persist, Rewrite
  <2>2. odd' \subseteq Oddities
    BY <1>0, <1>4, Helpers DEF Persist, Rewrite, Oddities
  <2>3. req' \in [Requests -> Request]
    BY <1>4, Helpers DEF Persist, RequestPCs
  <2> QED
    BY <1>4, <2>1, <2>2, <2>3, Rest DEF Persist
<1>5. CASE PersistFails(r)
  BY <1>0, <1>5, Helpers, Rest DEF PersistFails, RequestPCs
<1>6. CASE ReadAgain(r)
  <2>1. req' \in [Requests -> Request]
    <3>1. PICK pc \in {"mark", "revert"} : req' = [req EXCEPT ![r].pc = pc, ![r].copy = worker]
      BY <1>6 DEF ReadAgain
    <3> QED
      BY <1>0, <3>1, RequestUpdates DEF RequestPCs
  <2> QED
    BY <1>0, <1>6, <2>1, Rest DEF ReadAgain
<1>7. CASE Finish(r) \/ Revert(r)
  <2>1. dep' \in [Deploys -> Status]
    BY <1>7 DEF Finish, Revert, Status, Done
  <2> QED
    BY <1>0, <1>7, <1>e, <2>1, Rest DEF Finish, Revert
<1>8. CASE BeginEdit(r) \/ BeginDelete(r)
  BY <1>8, <1>b DEF BeginEdit, BeginDelete, RequestPCs
<1>9. CASE BeginMove(r)
  <2>1. PICK a \in Accounts : Begin(r, "move", "write", [worker EXCEPT !.account = a])
    BY <1>9 DEF BeginMove
  <2>2. [worker EXCEPT !.account = a] \in Worker
    BY WorkerUpdates
  <2> QED
    BY <1>b, <2>1, <2>2 DEF RequestPCs
<1>10. CASE Write(r)
  <2>1. worker' \in Worker /\ odd' \subseteq Oddities
    <3>1. req[r].copy.account \in Accounts \cup {NoAccount}
      BY <1>0, WorkerUpdates
    <3>2. worker' \in Worker
      <4>1. PICK a \in Accounts \cup {NoAccount} :
              worker' = [worker EXCEPT !.account = a] \/ worker' = worker
        BY <1>10, <3>1 DEF Write
      <4>2. worker \in Worker
        OBVIOUS
      <4>3. [worker EXCEPT !.account = a] \in Worker
        BY <4>2, WorkerUpdates
      <4> QED
        BY <4>1, <4>2, <4>3
    <3>3. odd' \subseteq Oddities
      BY <1>0, <1>10, Helpers DEF Write, Oddities
    <3> QED
      BY <3>2, <3>3
  <2> QED
    BY <1>10, <1>e, <2>1, Rest DEF Write
<1>11. CASE Delete(r)
  <2>1. worker' \in Worker /\ tear' \subseteq Accounts
    BY <1>11, WorkerUpdates DEF Delete
  <2> QED
    BY <1>0, <1>11, <1>e, <2>1, Rest DEF Delete
<1>12. CASE Abort(r)
  BY <1>0, <1>12, <1>e, Helpers, Rest DEF Abort, Oddities
<1> QED
  BY <1>1, <1>2, <1>3, <1>4, <1>5, <1>6, <1>7, <1>8, <1>9, <1>10, <1>11, <1>12
     DEF ConfirmNext, OtherNext

LEMMA JobType ==
  ASSUME Typed, NEW s \in Slots, JobNext(s)
  PROVE  Typed'
<1> USE DEF Typed, TypeOK
<1>0. exec[s] \in Slot /\ odd \subseteq Oddities /\ exec[s].copy \in Worker
      /\ exec[s].row \in Status /\ exec[s].d \in Deploys
  BY SlotUpdates DEF Oddities
<1>1. CASE Load(s)
  BY <1>0, <1>1, Helpers, Rest DEF Load, SlotPCs
<1>2. CASE LoadWorker(s)
  <2>1. exec' \in [Slots -> Slot]
    BY <1>0, <1>2, SlotUpdates, ZenonT(60) DEF LoadWorker, SlotPCs
  <2> QED
    BY <1>0, <1>2, <2>1, Rest DEF LoadWorker
<1>3. CASE LoadFails(s)
  BY <1>0, <1>3, Helpers, Rest DEF LoadFails, SlotPCs
<1>4. CASE Start(s)
  <2>1. exec' \in [Slots -> Slot]
    BY <1>0, <1>4, SlotUpdates, ZenonT(60) DEF Start, SlotPCs, Status
  <2>2. dep' \in [Deploys -> Status]
    BY <1>4, Helpers DEF Start, Status
  <2> QED
    BY <1>0, <1>4, <2>1, <2>2, Rest DEF Start
<1>5. CASE MarkWorker(s)
  <2>1. worker' \in Worker /\ exec' \in [Slots -> Slot]
    BY <1>5, Helpers DEF MarkWorker, WorkerStates, SlotPCs
  <2> QED
    BY <1>0, <1>5, <2>1, Rest DEF MarkWorker
<1>6. CASE Log(s)
  <2>1. dep' \in [Deploys -> Status]
    BY <1>6, Helpers DEF Log, Status
  <2> QED
    BY <1>0, <1>6, <2>1, Rest DEF Log
<1>7. CASE SaveRuntime(s)
  <2>1. worker' \in Worker
    <3>1. Script(s) \in BOOLEAN
      BY <1>0, WorkerUpdates DEF Script
    <3>2. PICK b \in BOOLEAN : worker' = [worker EXCEPT !.script = b] \/ worker' = worker
      BY <1>7, <3>1 DEF SaveRuntime
    <3>3. worker \in Worker
      OBVIOUS
    <3>4. [worker EXCEPT !.script = b] \in Worker
      BY <3>3, WorkerUpdates
    <3> QED
      BY <3>2, <3>3, <3>4
  <2>2. /\ exec' \in [Slots -> Slot] /\ odd' \subseteq Oddities
        /\ left' \in [ops : 0..MaxOps, events : 0..MaxEvents]
    BY <1>0, <1>7, Helpers DEF SaveRuntime, SlotPCs, Oddities
  <2> QED
    BY <1>7, <2>1, <2>2, Rest DEF SaveRuntime
<1>8. CASE Finished(s)
  <2>1. /\ exec' \in [Slots -> Slot] /\ odd' \subseteq Oddities
        /\ left' \in [ops : 0..MaxOps, events : 0..MaxEvents] /\ dep' \in [Deploys -> Status]
    BY <1>0, <1>8, Helpers DEF Finished, SlotPCs, Oddities
  <2> QED
    BY <1>8, <2>1, Rest DEF Finished
<1>9. CASE FinishedWorker(s)
  <2>1. WorkerStatus(exec[s].row) \in WorkerStates
    BY DEF WorkerStatus, WorkerStates
  <2>2. worker' \in Worker /\ exec' \in [Slots -> Slot]
    BY <1>9, <2>1, Helpers DEF FinishedWorker, SlotPCs
  <2> QED
    BY <1>0, <1>9, <2>2, Rest DEF FinishedWorker
<1>10. CASE Ack(s)
  <2>1. queue' \in [Deploys -> Queue!Message]
    <3>1. PICK d \in Deploys : queue' = queue \/ queue' = [queue EXCEPT ![d] = [queue[d] EXCEPT !.st = "deleted"]]
      BY <1>0, <1>10 DEF Ack, Queue!Delete
    <3>2. queue[d] \in Queue!Message
      OBVIOUS
    <3>3. /\ [queue[d] EXCEPT !.st = "deleted"] \in Queue!Message
          /\ [queue[d] EXCEPT !.st = "archived"] \in Queue!Message
      BY <3>2 DEF Queue!Message, Queue!Places
    <3> QED
      BY <3>1, <3>3
  <2>2. exec' \in [Slots -> Slot] /\ left' \in [ops : 0..MaxOps, events : 0..MaxEvents]
    BY <1>10, Blanks, Helpers DEF Ack
  <2> QED
    BY <1>0, <1>10, <2>1, <2>2, Rest DEF Ack
<1>11. CASE Nack(s)
  <2>1. queue' \in [Deploys -> Queue!Message]
    <3>1. PICK d \in Deploys : queue' = queue \/ queue' = [queue EXCEPT ![d] = [queue[d] EXCEPT !.st = "archived"]]
      BY <1>0, <1>11 DEF Nack, Queue!Archive
    <3>2. queue[d] \in Queue!Message
      OBVIOUS
    <3>3. /\ [queue[d] EXCEPT !.st = "deleted"] \in Queue!Message
          /\ [queue[d] EXCEPT !.st = "archived"] \in Queue!Message
      BY <3>2 DEF Queue!Message, Queue!Places
    <3> QED
      BY <3>1, <3>3
  <2>2. exec' \in [Slots -> Slot] /\ odd' \subseteq Oddities
    BY <1>0, <1>11, Blanks, Helpers DEF Nack, Oddities
  <2> QED
    BY <1>11, <2>1, <2>2, Rest DEF Nack
<1>12. CASE Resolve(s)
  <2>1. exec' \in [Slots -> Slot]
    BY <1>12, Helpers DEF Resolve, SlotPCs, Status, Done
  <2>2. pod' \in [Attempts -> Pod] /\ Placed'
    <3> DEFINE w == exec[s].copy
               new == [ph |-> "new", account |-> w.account, confirmed |-> w.confirmed]
    <3>1. pod' = pod \/ (w.account # NoAccount /\ pod' = [pod EXCEPT ![<<exec[s].d, exec[s].n>>] = new])
      BY <1>12 DEF Resolve
    <3>2. w.account # NoAccount => new \in Pod /\ new.account \in Accounts
      BY <1>0, WorkerUpdates DEF Pod
    <3>3. pod \in [Attempts -> Pod]
      BY DEF Attempts
    <3>4. \A p \in Attempts : pod'[p] = pod[p] \/ (w.account # NoAccount /\ pod'[p] = new)
      BY <3>1, <3>3
    <3>5. DOMAIN pod' = Attempts /\ pod' = [p \in Attempts |-> pod'[p]]
      BY <3>1, <3>3
    <3> HIDE DEF new
    <3> QED
      BY <3>2, <3>3, <3>4, <3>5 DEF Placed
  <2> QED
    BY <1>0, <1>12, <2>1, <2>2 DEF Resolve, Attempts
<1>l. ASSUME Leave(s) PROVE pod' \in [Attempts -> Pod] /\ Placed'
  <2>1. pod \in [Attempts -> Pod] /\ NoPod.ph = "absent"
    BY DEF Attempts, NoPod
  <2> QED
    BY <1>l, <2>1, Blanks DEF Leave, Placed
<1>13. CASE Deployed(s)
  <2>1. exec' \in [Slots -> Slot]
    BY <1>0, <1>13, SlotUpdates DEF Deployed
  <2> QED
    BY <1>0, <1>13, <1>l, <2>1 DEF Deployed, Attempts
<1>14. CASE Parked(s)
  <2>1. exec' \in [Slots -> Slot]
    BY <1>14, Helpers DEF Parked, SlotPCs, Status, Done
  <2> QED
    BY <1>0, <1>14, <1>l, <2>1 DEF Parked, Attempts
<1>15. CASE Misread(s)
  <2>1. /\ exec' \in [Slots -> Slot] /\ odd' \subseteq Oddities
        /\ left' \in [ops : 0..MaxOps, events : 0..MaxEvents]
    BY <1>15, Helpers DEF Misread, SlotPCs, Status, Done, Oddities
  <2> QED
    BY <1>15, <1>l, <2>1 DEF Misread, Attempts, Oddities
<1>16. CASE WaitFails(s)
  <2>1. exec' \in [Slots -> Slot] /\ odd' \subseteq Oddities
    BY <1>0, <1>16, Helpers DEF WaitFails, SlotPCs, Status, Done, Oddities
  <2> QED
    BY <1>16, <1>l, <2>1 DEF WaitFails, Attempts, Oddities
<1> QED
  BY <1>1, <1>2, <1>3, <1>4, <1>5, <1>6, <1>7, <1>8, <1>9, <1>10, <1>11, <1>12, <1>13, <1>14,
     <1>15, <1>16 DEF JobNext

LEMMA PodType ==
  ASSUME Typed, NEW p \in Attempts, Preflight(p) \/ Wrangler(p) \/ IdleOver(p)
  PROVE  Typed'
<1> USE DEF Typed, TypeOK
<1>0. pod \in [Attempts -> Pod] /\ odd \subseteq Oddities
  BY DEF Attempts, Oddities
<1>1. \A ph \in {"checked", "paused", "failed", "done", "exited"} :
        pod' = [pod EXCEPT ![p].ph = ph] /\ pod[p].ph # "absent" =>
          pod' \in [Attempts -> Pod] /\ Placed'
  BY <1>0 DEF Placed, Pod
<1>2. pod' \in [Attempts -> Pod] /\ Placed'
  BY <1>1 DEF Preflight, Wrangler, IdleOver
<1>3. odd' \subseteq Oddities
  BY <1>0, Helpers DEF Preflight, Wrangler, IdleOver, Oddities
<1>4. left' \in [ops : 0..MaxOps, events : 0..MaxEvents]
  BY Helpers DEF Preflight, Wrangler, IdleOver
<1>5. cloud' \in [bucket : SUBSET Accounts, script : SUBSET Accounts, by : SUBSET Deploys,
                  approved : SUBSET Accounts]
  <2>1. p[1] \in Deploys
    BY DEF Attempts
  <2>2. pod[p].ph # "absent" => pod[p].account \in Accounts
    BY DEF Placed
  <2>3. CASE Preflight(p)
    BY <2>1, <2>2, <2>3 DEF Preflight
  <2>4. CASE Wrangler(p)
    <3>1. pod[p].account \in Accounts
      BY <2>2, <2>4 DEF Wrangler
    <3>2. PICK a \in Accounts, d \in Deploys :
            \/ cloud' = cloud
            \/ cloud' = [cloud EXCEPT !.script = @ \cup {a}, !.by = @ \cup {d}]
      BY <2>1, <2>4, <3>1 DEF Wrangler
    <3>3. CASE cloud' = cloud
      BY <3>3
    <3>4. CASE cloud' = [cloud EXCEPT !.script = @ \cup {a}, !.by = @ \cup {d}]
      BY <3>4
    <3> QED
      BY <3>2, <3>3, <3>4
  <2>5. CASE IdleOver(p)
    BY <2>5 DEF IdleOver
  <2> QED
    BY <2>3, <2>4, <2>5
<1> QED
  BY <1>2, <1>3, <1>4, <1>5 DEF Preflight, Wrangler, IdleOver, Attempts, Oddities

LEMMA TimeType ==
  ASSUME Typed,
         \/ \E d \in Deploys : \/ Redeliver(d) \/ RecoverList(d) \/ RecoverMark(d) \/ RecoverWorker(d)
                               \/ \E s \in Slots : Fetch(s, d)
         \/ \E a \in Accounts : Teardown(a)
         \/ Shutdown \/ Crash
  PROVE  Typed'
<1> USE DEF Typed, TypeOK
<1>0. odd \subseteq Oddities
  BY DEF Oddities
<1>1. ASSUME NEW d \in Deploys, Redeliver(d) PROVE Typed'
  <2>1. queue' \in [Deploys -> Queue!Message]
    BY <1>1, ZenonT(60) DEF Redeliver, Queue!Reappear, Queue!Message, Queue!Places
  <2> QED
    BY <1>0, <1>1, <2>1, Rest DEF Redeliver
<1>2. ASSUME NEW d \in Deploys, RecoverList(d) PROVE Typed'
  BY <1>0, <1>2, Rest DEF RecoverList
<1>3. ASSUME NEW d \in Deploys, RecoverMark(d) PROVE Typed'
  <2>1. dep' \in [Deploys -> Status] /\ recov' \in [Deploys -> {"idle", "mark", "worker"}]
    BY <1>3 DEF RecoverMark, Status, Done
  <2>2. odd' \subseteq Oddities
    BY <1>0, <1>3, Helpers DEF RecoverMark, Oddities
  <2> QED
    BY <1>3, <2>1, <2>2, Rest DEF RecoverMark
<1>4. ASSUME NEW d \in Deploys, RecoverWorker(d) PROVE Typed'
  <2>1. worker' \in Worker
    BY <1>4, Helpers DEF RecoverWorker, WorkerStates
  <2> QED
    BY <1>0, <1>4, <2>1, Rest DEF RecoverWorker
<1>5. ASSUME NEW d \in Deploys, NEW s \in Slots, Fetch(s, d) PROVE Typed'
  <2>1. queue[d].ct + 1 \in 0..ReadCap /\ queue[d] \in Queue!Message
    <3>1. queue[d] \in Queue!Message /\ queue[d].ct \in 0..ReadCap /\ queue[d].ct < ReadCap
      BY <1>5 DEF Fetch, Queue!Read, Queue!Message
    <3> QED
      BY <3>1, WorkersAssumption
  <2>2. queue' \in [Deploys -> Queue!Message]
    <3>1. queue' = [queue EXCEPT ![d].st = "hidden", ![d].ct = @ + 1]
      BY <1>5 DEF Fetch, Queue!Read
    <3> QED
      BY <2>1, <3>1 DEF Queue!Message, Queue!Places
  <2>3. exec' \in [Slots -> Slot]
    <3>1. [FreeSlot EXCEPT !.pc = "load", !.d = d, !.n = queue[d].ct + 1] \in Slot
      BY <2>1, Blanks DEF Slot
    <3> QED
      BY <1>5, <3>1 DEF Fetch
  <2> QED
    BY <1>0, <1>5, <2>2, <2>3, Rest DEF Fetch
<1>6. ASSUME NEW a \in Accounts, Teardown(a) PROVE Typed'
  <2>1. /\ tear' \subseteq Accounts /\ odd' \subseteq Oddities
        /\ left' \in [ops : 0..MaxOps, events : 0..MaxEvents]
    BY <1>0, <1>6, Helpers DEF Teardown, Oddities
  <2>2. cloud' \in [bucket : SUBSET Accounts, script : SUBSET Accounts, by : SUBSET Deploys,
                    approved : SUBSET Accounts]
    BY <1>6 DEF Teardown
  <2> QED
    BY <1>6, <2>1, <2>2, Rest DEF Teardown
<1>7. CASE Shutdown
  <2>1. exec' \in [Slots -> Slot]
    BY <1>7, SlotUpdates DEF Shutdown
  <2>2. odd' \subseteq Oddities /\ left' \in [ops : 0..MaxOps, events : 0..MaxEvents]
    BY <1>7, Helpers DEF Shutdown, Oddities
  <2> QED
    BY <1>7, <2>1, <2>2, Rest DEF Shutdown
<1>8. CASE Crash
  <2>1. /\ exec' \in [Slots -> Slot] /\ left' \in [ops : 0..MaxOps, events : 0..MaxEvents]
        /\ recov' \in [Deploys -> {"idle", "mark", "worker"}]
    BY <1>8, Blanks, Helpers DEF Crash
  <2>2. odd' \subseteq Oddities
    BY <1>0, <1>8 DEF Crash, Oddities
  <2> QED
    BY <1>8, <2>1, <2>2, Rest DEF Crash
<1> QED
  BY <1>1, <1>2, <1>3, <1>4, <1>5, <1>6, <1>7, <1>8

LEMMA TypeStep == Typed /\ [Next]_vars => Typed'
<1> SUFFICES ASSUME Typed, [Next]_vars PROVE Typed'
  OBVIOUS
<1>1. CASE UNCHANGED vars
  BY <1>1 DEF vars, Typed, TypeOK, Placed
<1>2. DOMAIN pod = Attempts
  BY DEF Typed, TypeOK, Attempts
<1> QED
  BY <1>1, <1>2, TriggerType, ConfirmType, JobType, PodType, TimeType DEF Next

(* Every variable keeps its type; a pod has an account.                    *)
THEOREM WorkersTypeCorrect == Spec => []Typed
BY TypeInit, TypeStep, PTL DEF Spec

-----------------------------------------------------------------------------
(* Confirmations *)

(* The message of a running job is hidden, and only one slot runs it; what *)
(* has been sent has a row.                                                *)
Leased ==
  /\ \A s \in Slots : exec[s].pc # "idle" => queue[exec[s].d].st = "hidden"
  /\ \A s, t \in Slots : exec[s].pc # "idle" /\ exec[t].pc # "idle" /\ exec[s].d = exec[t].d => s = t
  /\ \A d \in Deploys : Queue!Sent(d) => dep[d] # "none"

(* The deployments are created in their order.                             *)
InOrder == \A d, e \in Deploys : e < d /\ dep[d] # "none" => dep[e] # "none"

(* A request that confirms has taken the parked deployment for itself,     *)
(* which stays cancelled, or failed, until the request ends; the one it    *)
(* creates in its place comes later.                                       *)
Confirms(r) == req[r].old # 0 /\ req[r].pc # "claim"
Asked(r) ==
  /\ req[r].old # 0 =>
       /\ req[r].op = "confirm"
       /\ req[r].pc \in {"claim", "persist", "read", "mark", "create", "enqueue", "undo", "restore",
                         "finish", "revert"}
  /\ req[r].op = "confirm" => req[r].pc # "free" /\ (req[r].old = 0 => req[r].pc = "latest")
  /\ req[r].pc \in {"latest", "claim", "persist", "read", "finish", "revert"} => req[r].op = "confirm"
  /\ req[r].d # 0 => dep[req[r].d] # "none"
  /\ req[r].pc = "enqueue" => req[r].d # 0 /\ dep[req[r].d] = "queued" /\ ~ Queue!Sent(req[r].d)
  /\ req[r].pc \in {"enqueue", "finish"} /\ req[r].old # 0 => req[r].d > req[r].old
  /\ Confirms(r) => dep[req[r].old] \in {"cancelled", "failed"}
Apart ==
  \A r, q \in Requests : r # q =>
    /\ req[r].d # 0 => req[q].d # req[r].d
    /\ Confirms(r) /\ Confirms(q) => req[q].old # req[r].old

(* A job that may still write has not been parked, nor taken by a request. *)
Works(s) == exec[s].pc \in {"loadWorker", "start", "mark", "resolve", "wait", "runtime", "end"}
Writes ==
  \A s \in Slots :
    /\ Works(s) => /\ dep[exec[s].d] \notin {"needs_confirmation", "cancelled"}
                   /\ \A r \in Requests : Confirms(r) => req[r].old # exec[s].d
    /\ exec[s].pc \in {"runtime", "end"} =>
         exec[s].row \in {"needs_confirmation", "success", "failed"}

Replaced ==
  Barring({"halted"}) =>
    \A d \in Deploys :
      dep[d] = "cancelled" =>
        \/ \E r \in Requests : Confirms(r) /\ req[r].old = d
        \/ \E e \in Deploys : e > d /\ dep[e] # "none"

AnswerInv ==
  /\ Typed /\ Leased /\ InOrder /\ Apart /\ Writes /\ Replaced
  /\ \A r \in Requests : Asked(r)

(* A step of one request that leaves the rows, the messages and the slots  *)
(* alone, and does not begin to confirm.                                   *)
LEMMA QuietRequest ==
  ASSUME AnswerInv, Typed', NEW r \in Requests,
         UNCHANGED <<dep, queue, exec>>, odd \subseteq odd',
         \A q \in Requests \ {r} : req'[q] = req[q],
         Asked(r)', req'[r].d \in {0, req[r].d},
         Confirms(r)' => Confirms(r) /\ req'[r].old = req[r].old,
         Confirms(r) => Confirms(r)' \/ "halted" \in odd'
  PROVE  AnswerInv'
<1> USE DEF AnswerInv
<1>1. Leased' /\ InOrder'
  BY DEF Leased, InOrder, Queue!Sent
<1>2. Apart'
  BY DEF Apart, Confirms
<1>3. Writes'
  BY DEF Writes, Works, Confirms
<1>4. Replaced'
  BY DEF Replaced, Confirms, Barring
<1>5. \A q \in Requests : Asked(q)'
  BY DEF Asked, Confirms, Queue!Sent
<1> QED
  BY <1>1, <1>2, <1>3, <1>4, <1>5

(* A request that begins or ends, or goes on to another step.              *)
LEMMA RequestMoves ==
  ASSUME Typed, NEW r \in Requests
  PROVE  /\ \A op, pc, w : Begin(r, op, pc, w) =>
              /\ req[r].pc = "free" /\ req'[r].op = op /\ req'[r].pc = pc /\ op \in Ops
              /\ req'[r].d = 0 /\ req'[r].old = 0
              /\ \A q \in Requests \ {r} : req'[q] = req[q]
         /\ \A pc : Goto(r, pc) =>
              /\ req'[r].pc = pc /\ req'[r].op = req[r].op
              /\ req'[r].d = req[r].d /\ req'[r].old = req[r].old
              /\ \A q \in Requests \ {r} : req'[q] = req[q]
         /\ End(r) =>
              /\ req'[r].pc = "free" /\ req'[r].op = "none"
              /\ req'[r].d = 0 /\ req'[r].old = 0
              /\ \A q \in Requests \ {r} : req'[q] = req[q]
<1> USE DEF Typed, TypeOK
<1>1. ASSUME NEW op, NEW pc, NEW w, Begin(r, op, pc, w)
      PROVE  /\ req[r].pc = "free" /\ req'[r].op = op /\ req'[r].pc = pc /\ op \in Ops
             /\ req'[r].d = 0 /\ req'[r].old = 0
             /\ \A q \in Requests \ {r} : req'[q] = req[q]
  BY <1>1 DEF Begin, FreeRequest
<1>2. ASSUME NEW pc, Goto(r, pc)
      PROVE  /\ req'[r].pc = pc /\ req'[r].op = req[r].op
             /\ req'[r].d = req[r].d /\ req'[r].old = req[r].old
             /\ \A q \in Requests \ {r} : req'[q] = req[q]
  BY <1>2 DEF Goto, Request
<1>3. ASSUME End(r)
      PROVE  /\ req'[r].pc = "free" /\ req'[r].op = "none"
             /\ req'[r].d = 0 /\ req'[r].old = 0
             /\ \A q \in Requests \ {r} : req'[q] = req[q]
  BY <1>3 DEF End, FreeRequest
<1> QED
  BY <1>1, <1>2, <1>3

LEMMA AnswerTrigger ==
  ASSUME AnswerInv, Typed', NEW r \in Requests, TriggerNext(r)
  PROVE  AnswerInv'
<1>0. Typed /\ Asked(r)
  BY DEF AnswerInv
<1>1. CASE BeginDeploy(r)
  <2>1. /\ req[r].pc = "free" /\ req'[r].op = "deploy" /\ req'[r].pc = "mark"
        /\ req'[r].d = 0 /\ req'[r].old = 0
        /\ \A q \in Requests \ {r} : req'[q] = req[q]
        /\ UNCHANGED <<dep, queue, exec, odd>>
    <3>1. Begin(r, "deploy", "mark", worker)
      BY <1>1 DEF BeginDeploy
    <3>2. UNCHANGED <<dep, queue, exec, odd>>
      BY <3>1 DEF Begin
    <3> QED
      BY <1>0, <3>1, <3>2, RequestMoves
  <2> QED
    BY <1>0, <2>1, QuietRequest DEF Asked, Confirms
<1>m. CASE Mark(r) \/ CreateFails(r) \/ Restore(r)
  <2>1. /\ req[r].pc \in {"mark", "create", "restore"} /\ UNCHANGED <<dep, queue, exec, odd>>
        /\ \/ End(r) /\ req[r].op # "confirm"
           \/ Goto(r, "create") \/ Goto(r, "restore")
           \/ Goto(r, "revert") /\ req[r].op = "confirm"
    BY <1>m DEF Mark, CreateFails, Restore, Refused
  <2>2. CASE End(r) /\ req[r].op # "confirm"
    <3>1. req'[r].pc = "free" /\ req'[r].op = "none" /\ req'[r].d = 0 /\ req'[r].old = 0
          /\ \A q \in Requests \ {r} : req'[q] = req[q]
      BY <1>0, <2>2, RequestMoves
    <3> QED
      BY <1>0, <2>1, <2>2, <3>1, QuietRequest DEF Asked, Confirms
  <2>3. ASSUME NEW pc \in {"create", "restore", "revert"}, Goto(r, pc),
               pc = "revert" => req[r].op = "confirm"
        PROVE  AnswerInv'
    <3>1. /\ req'[r].pc = pc /\ req'[r].op = req[r].op
          /\ req'[r].d = req[r].d /\ req'[r].old = req[r].old
          /\ \A q \in Requests \ {r} : req'[q] = req[q]
      BY <1>0, <2>3, RequestMoves
    <3> QED
      BY <1>0, <2>1, <2>3, <3>1, QuietRequest DEF Asked, Confirms
  <2> QED
    BY <2>1, <2>2, <2>3
<1>2. CASE Create(r)
  <2>1. PICK d \in Spare : dep' = [dep EXCEPT ![d] = "queued"]
                           /\ req' = [req EXCEPT ![r].pc = "enqueue", ![r].d = d]
    BY <1>2 DEF Create
  <2>2. /\ req[r].pc = "create" /\ UNCHANGED <<queue, exec, odd>>
        /\ d \in Deploys /\ dep[d] = "none" /\ \A e \in Deploys : e < d => dep[e] # "none"
        /\ dep'[d] = "queued" /\ \A e \in Deploys \ {d} : dep'[e] = dep[e]
        /\ ~ Queue!Sent(d)
    BY <1>0, <1>2, <2>1 DEF Create, Spare, Typed, TypeOK, AnswerInv, Leased
  <2>3. /\ req'[r].pc = "enqueue" /\ req'[r].d = d
        /\ req'[r].op = req[r].op /\ req'[r].old = req[r].old
        /\ \A q \in Requests \ {r} : req'[q] = req[q]
    BY <1>0, <2>1 DEF Typed, TypeOK, Request
  <2> HIDE DEF Spare
  <2>n. \A e \in Deploys : e \in Nat /\ e # 0
    BY WorkersAssumption
  <2>o. \A q \in Requests : req[q].d \in Deploys \cup {0} /\ req[q].old \in Deploys \cup {0}
    BY <1>0, RequestUpdates DEF Typed, TypeOK
  <2>4. Leased'
    BY <2>2 DEF AnswerInv, Leased, Queue!Sent
  <2>5. InOrder'
    <3>1. \A x, y \in Deploys : y < x /\ dep[x] # "none" => dep[y] # "none"
      BY DEF AnswerInv, InOrder
    <3>2. ASSUME NEW x \in Deploys, NEW y \in Deploys, y < x, dep'[x] # "none" PROVE dep'[y] # "none"
      <4>1. CASE y = d
        BY <2>2, <4>1
      <4>2. CASE x = d /\ y # d
        BY <2>2, <3>2, <4>2
      <4>3. CASE x # d /\ y # d
        BY <2>2, <3>1, <3>2, <4>3
      <4> QED
        BY <4>1, <4>2, <4>3
    <3> QED
      BY <3>2 DEF InOrder
  <2>6. Apart'
    <3>1. \A q \in Requests : req[q].d # d
      BY <2>2, <2>n DEF AnswerInv, Asked
    <3> QED
      BY <2>2, <2>3, <3>1 DEF AnswerInv, Apart, Confirms
  <2>7. Writes'
    <3>1. ASSUME NEW s \in Slots, Works(s) PROVE exec[s].d \in Deploys /\ exec[s].d # d
      <4>1. exec[s].d \in Deploys /\ queue[exec[s].d].st = "hidden"
        BY <1>0, <3>1, SlotUpdates DEF Typed, TypeOK, AnswerInv, Leased, Works
      <4> QED
        BY <2>2, <4>1 DEF Queue!Sent
    <3> QED
      BY <2>2, <2>3, <3>1 DEF AnswerInv, Writes, Works, Confirms
  <2>8. Replaced'
    BY <2>2, <2>3 DEF AnswerInv, Replaced, Confirms, Barring
  <2>9. \A q \in Requests : Asked(q)'
    <3>1. ASSUME NEW q \in Requests \ {r} PROVE Asked(q)'
      BY <2>2, <2>3, <2>n, <2>o DEF AnswerInv, Asked, Confirms, Queue!Sent
    <3>2. Asked(r)'
      <4>1. req[r].old # 0 => dep[req[r].old] \in {"cancelled", "failed"} /\ req[r].op = "confirm"
        BY <1>0, <2>2 DEF Asked, Confirms
      <4>2. req[r].old # 0 => d > req[r].old
        <5>1. ASSUME req[r].old # 0 PROVE d > req[r].old
          <6>1. req[r].old \in Deploys /\ dep[req[r].old] # "none"
            BY <2>o, <4>1, <5>1
          <6>2. ~ (d < req[r].old)
            BY <2>2, <6>1 DEF AnswerInv, InOrder
          <6>3. d # req[r].old /\ d \in Nat /\ req[r].old \in Nat
            BY <2>2, <2>n, <6>1
          <6> QED
            BY <6>2, <6>3
        <5> QED
          BY <5>1
      <4>3. req[r].op = "confirm" => req[r].old # 0
        BY <1>0, <2>2 DEF Asked
      <4> QED
        BY <2>2, <2>3, <2>n, <2>o, <4>1, <4>2, <4>3 DEF Asked, Confirms, Queue!Sent
    <3> QED
      BY <3>1, <3>2
  <2> QED
    BY <2>4, <2>5, <2>6, <2>7, <2>8, <2>9 DEF AnswerInv
<1>3. CASE EnqueueJob(r) \/ EnqueueFails(r)
  <2> DEFINE d == req[r].d
  <2>1. /\ req[r].pc = "enqueue" /\ d \in Deploys /\ dep[d] = "queued" /\ ~ Queue!Sent(d)
        /\ UNCHANGED <<dep, exec>> /\ odd \subseteq odd' /\ ("halted" \in odd' <=> "halted" \in odd)
    <3>1. d \in Deploys \cup {0}
      BY <1>0, RequestUpdates DEF Typed, TypeOK
    <3> QED
      BY <1>0, <1>3, <3>1 DEF Asked, EnqueueJob, EnqueueFails, Note
  <2>2. \/ queue' = queue
        \/ /\ queue'[d].st = "visible" /\ \A e \in Deploys \ {d} : queue'[e] = queue[e]
    BY <1>0, <1>3, <2>1 DEF EnqueueJob, EnqueueFails, Queue!Enqueue, Typed, TypeOK, Queue!Message
  <2>3. /\ \A q \in Requests \ {r} : req'[q] = req[q]
        /\ \/ /\ req'[r].pc = "free" /\ req'[r].op = "none" /\ req'[r].d = 0 /\ req'[r].old = 0
              /\ req[r].op # "confirm"
           \/ /\ req'[r].pc \in {"finish", "undo"} /\ req'[r].op = req[r].op
              /\ req'[r].d = d /\ req'[r].old = req[r].old
              /\ req'[r].pc = "finish" => req[r].op = "confirm"
    BY <1>0, <1>3, RequestMoves DEF EnqueueJob, EnqueueFails
  <2> HIDE DEF d
  <2>o. \A s \in Slots : exec[s].d \in Deploys
    BY <1>0, SlotUpdates DEF Typed, TypeOK
  <2>4. Leased'
    BY <2>1, <2>2, <2>o DEF AnswerInv, Leased, Queue!Sent
  <2>5. InOrder'
    BY <2>1 DEF AnswerInv, InOrder
  <2>6. Apart'
    BY <2>1, <2>3 DEF AnswerInv, Apart, Confirms, Asked, d
  <2>7. Writes'
    BY <2>1, <2>3 DEF AnswerInv, Writes, Works, Confirms, Asked
  <2>8. Replaced'
    BY <1>0, <2>1, <2>3 DEF AnswerInv, Replaced, Confirms, Asked, Barring
  <2>9. \A q \in Requests : Asked(q)'
    <3>1. ASSUME NEW q \in Requests \ {r} PROVE Asked(q)'
      <4>1. req[q].d # d /\ req[q].d \in Deploys \cup {0}
        BY <1>0, <2>1, RequestUpdates, WorkersAssumption DEF AnswerInv, Apart, d, Typed, TypeOK
      <4> QED
        BY <2>1, <2>2, <2>3, <4>1 DEF AnswerInv, Asked, Confirms, Queue!Sent
    <3>2. Asked(r)'
      BY <1>0, <2>1, <2>3 DEF Asked, Confirms, d
    <3> QED
      BY <3>1, <3>2
  <2> QED
    BY <2>4, <2>5, <2>6, <2>7, <2>8, <2>9 DEF AnswerInv
<1>4. CASE UndoCreate(r)
  <2> DEFINE d == req[r].d
  <2>1. /\ req[r].pc = "undo" /\ UNCHANGED <<queue, exec, odd>>
        /\ \A e \in Deploys : dep'[e] = IF e = d THEN "failed" ELSE dep[e]
    BY <1>0, <1>4 DEF UndoCreate, Typed, TypeOK
  <2>2. /\ \A q \in Requests \ {r} : req'[q] = req[q]
        /\ req'[r].pc = "restore" /\ req'[r].op = req[r].op
        /\ req'[r].d = d /\ req'[r].old = req[r].old
    BY <1>0, <1>4, RequestMoves DEF UndoCreate
  <2> HIDE DEF d
  <2>o. /\ \A s \in Slots : exec[s].d \in Deploys
        /\ \A q \in Requests : req[q].d \in Deploys \cup {0} /\ req[q].old \in Deploys \cup {0}
        /\ \A q \in Requests : d # 0 /\ q # r => req[q].d # d
    BY <1>0, SlotUpdates, RequestUpdates DEF Typed, TypeOK, AnswerInv, Apart, d
  <2>m. d \in Deploys => dep[d] # "none" /\ d # 0
    BY <1>0, WorkersAssumption DEF Asked, d
  <2>4. Leased'
    BY <2>1, <2>m DEF AnswerInv, Leased, Queue!Sent
  <2>5. InOrder'
    BY <2>1, <2>m DEF AnswerInv, InOrder
  <2>6. Apart'
    BY <2>1, <2>2 DEF AnswerInv, Apart, Confirms, d
  <2>7. Writes'
    BY <2>1, <2>2, <2>o DEF AnswerInv, Writes, Works, Confirms
  <2>8. Replaced'
    BY <2>1, <2>2, <2>m DEF AnswerInv, Replaced, Confirms, Barring
  <2>9. \A q \in Requests : Asked(q)'
    <3>1. ASSUME NEW q \in Requests \ {r} PROVE Asked(q)'
      BY <2>1, <2>2, <2>o, <2>m DEF AnswerInv, Asked, Confirms, Queue!Sent
    <3>2. Asked(r)'
      BY <1>0, <2>1, <2>2, <2>o, <2>m DEF Asked, Confirms, d
    <3> QED
      BY <3>1, <3>2
  <2> QED
    BY <2>4, <2>5, <2>6, <2>7, <2>8, <2>9 DEF AnswerInv
<1> QED
  BY <1>1, <1>m, <1>2, <1>3, <1>4 DEF TriggerNext

LEMMA AnswerConfirm ==
  ASSUME AnswerInv, Typed', NEW r \in Requests, ConfirmNext(r) \/ OtherNext(r)
  PROVE  AnswerInv'
<1>0. Typed /\ Asked(r)
  BY DEF AnswerInv
<1>b. ASSUME NEW op, NEW pc, NEW w, Begin(r, op, pc, w),
             pc \notin {"claim", "persist", "read", "finish", "revert", "enqueue", "free"},
             pc = "latest" <=> op = "confirm"
      PROVE  AnswerInv'
  <2>1. /\ req[r].pc = "free" /\ req'[r].op = op /\ req'[r].pc = pc
        /\ req'[r].d = 0 /\ req'[r].old = 0
        /\ \A q \in Requests \ {r} : req'[q] = req[q]
    BY <1>0, <1>b, RequestMoves
  <2>2. UNCHANGED <<dep, queue, exec, odd>>
    BY <1>b DEF Begin
  <2> QED
    BY <1>0, <1>b, <2>1, <2>2, QuietRequest DEF Asked, Confirms
<1>e. ASSUME End(r), UNCHANGED <<dep, queue, exec>>, odd \subseteq odd',
             Confirms(r) => "halted" \in odd'
      PROVE  AnswerInv'
  <2>1. /\ req'[r].pc = "free" /\ req'[r].op = "none" /\ req'[r].d = 0 /\ req'[r].old = 0
        /\ \A q \in Requests \ {r} : req'[q] = req[q]
    BY <1>0, <1>e, RequestMoves
  <2> QED
    BY <1>0, <1>e, <2>1, QuietRequest DEF Asked, Confirms
<1>g. ASSUME NEW pc \in {"persist", "read", "mark", "revert"},
             req[r].op = "confirm", Confirms(r), UNCHANGED <<dep, queue, exec>>, odd \subseteq odd',
             /\ req'[r].pc = pc /\ req'[r].op = req[r].op
             /\ req'[r].d = req[r].d /\ req'[r].old = req[r].old
             /\ \A q \in Requests \ {r} : req'[q] = req[q]
      PROVE  AnswerInv'
  BY <1>0, <1>g, QuietRequest DEF Asked, Confirms
<1>1. CASE BeginConfirm(r) \/ BeginEdit(r) \/ BeginMove(r) \/ BeginDelete(r)
  <2>1. PICK op, pc, w : /\ Begin(r, op, pc, w)
                         /\ <<op, pc>> \in {<<"confirm", "latest">>, <<"edit", "write">>,
                                            <<"move", "write">>, <<"delete", "delete">>}
    <3>1. CASE BeginMove(r)
      <4>1. PICK a : Begin(r, "move", "write", [worker EXCEPT !.account = a])
        BY <3>1 DEF BeginMove
      <4> QED
        BY <4>1
    <3> QED
      BY <1>1, <3>1 DEF BeginConfirm, BeginEdit, BeginDelete
  <2> QED
    BY <1>b, <2>1
<1>2. CASE ReadLatest(r)
  <2>1. req[r].pc = "latest" /\ UNCHANGED <<dep, queue, exec, odd>>
    BY <1>2 DEF ReadLatest
  <2>2. CASE End(r)
    BY <1>0, <1>e, <2>1, <2>2 DEF Confirms, Asked
  <2>3. CASE ~ End(r)
    <3>1. PICK d \in Deploys : req' = [req EXCEPT ![r].pc = "claim", ![r].old = d]
      BY <1>2, <2>3 DEF ReadLatest, Latest
    <3>2. /\ req'[r].pc = "claim" /\ req'[r].op = req[r].op
          /\ req'[r].d = req[r].d /\ req'[r].old = d /\ d # 0
          /\ \A q \in Requests \ {r} : req'[q] = req[q]
      BY <1>0, <3>1, WorkersAssumption DEF Typed, TypeOK, Request
    <3> QED
      BY <1>0, <2>1, <3>2, QuietRequest DEF Asked, Confirms
  <2> QED
    BY <2>2, <2>3
<1>3. CASE Claim(r)
  <2> DEFINE d == req[r].old
  <2>0. /\ req[r].pc = "claim" /\ UNCHANGED <<queue, exec, odd>> /\ d \in Deploys
        /\ req[r].op = "confirm"
    <3>1. d \in Deploys \cup {0}
      BY <1>0, RequestUpdates DEF Typed, TypeOK
    <3> QED
      BY <1>0, <1>3, <3>1 DEF Claim, Asked
  <2>1. CASE ~ Claimable(d)
    BY <1>3, <1>e, <2>0, <2>1 DEF Claim, Confirms
  <2>2. CASE Claimable(d)
    <3>1. /\ dep[d] = "needs_confirmation"
          /\ \A e \in Deploys : dep'[e] = IF e = d THEN "cancelled" ELSE dep[e]
      BY <1>0, <1>3, <2>2 DEF Claim, Claimable, Typed, TypeOK
    <3>2. /\ \A q \in Requests \ {r} : req'[q] = req[q]
          /\ req'[r].pc = "persist" /\ req'[r].op = req[r].op
          /\ req'[r].d = req[r].d /\ req'[r].old = d
      BY <1>0, <1>3, <2>2, RequestMoves DEF Claim
    <3> HIDE DEF d
    <3>o. /\ \A s \in Slots : exec[s].d \in Deploys
          /\ \A q \in Requests : req[q].d \in Deploys \cup {0} /\ req[q].old \in Deploys \cup {0}
          /\ d # 0 /\ 0 \notin Deploys
      BY <1>0, <2>0, SlotUpdates, RequestUpdates, WorkersAssumption DEF Typed, TypeOK
    <3>3. \A q \in Requests : Confirms(q) => req[q].old # d
      BY <3>1 DEF AnswerInv, Asked
    <3>4. Leased' /\ InOrder'
      BY <2>0, <3>1 DEF AnswerInv, Leased, InOrder, Queue!Sent
    <3>5. Apart'
      BY <3>2, <3>3 DEF AnswerInv, Apart, Confirms
    <3>6. Writes'
      BY <2>0, <3>1, <3>2, <3>o DEF AnswerInv, Writes, Works, Confirms
    <3>7. Replaced'
      <4>1. Confirms(r)' /\ req'[r].old = d
        BY <3>2, <3>o DEF Confirms
      <4>2. \A q \in Requests : Confirms(q) => Confirms(q)' /\ req'[q].old = req[q].old
        BY <2>0, <3>2 DEF Confirms
      <4> HIDE DEF Confirms
      <4> QED
        BY <2>0, <3>1, <4>1, <4>2 DEF AnswerInv, Replaced, Barring
    <3>8. \A q \in Requests : Asked(q)'
      <4>1. ASSUME NEW q \in Requests \ {r} PROVE Asked(q)'
        BY <2>0, <3>1, <3>2, <3>3, <3>o DEF AnswerInv, Asked, Confirms, Queue!Sent
      <4>2. Asked(r)'
        BY <1>0, <2>0, <3>1, <3>2, <3>o DEF Asked, Confirms
      <4> QED
        BY <4>1, <4>2
    <3> QED
      BY <3>4, <3>5, <3>6, <3>7, <3>8 DEF AnswerInv
  <2> QED
    BY <2>1, <2>2
<1>4. CASE Persist(r) \/ PersistFails(r)
  <2>1. PICK pc \in {"read", "revert"} :
          /\ req[r].pc = "persist" /\ Goto(r, pc)
          /\ UNCHANGED <<dep, queue, exec>> /\ odd \subseteq odd'
    BY <1>4 DEF Persist, PersistFails, Rewrite, Note
  <2>2. req[r].op = "confirm" /\ Confirms(r)
    BY <1>0, <2>1 DEF Asked, Confirms
  <2> QED
    BY <1>0, <1>g, <2>1, <2>2, RequestMoves
<1>5. CASE ReadAgain(r)
  <2>1. PICK pc \in {"mark", "revert"} : req' = [req EXCEPT ![r].pc = pc, ![r].copy = worker]
    BY <1>5 DEF ReadAgain
  <2>2. /\ req'[r].pc = pc /\ req'[r].op = req[r].op
        /\ req'[r].d = req[r].d /\ req'[r].old = req[r].old
        /\ \A q \in Requests \ {r} : req'[q] = req[q]
    BY <1>0, <2>1 DEF Typed, TypeOK, Request
  <2>3. req[r].op = "confirm" /\ Confirms(r) /\ UNCHANGED <<dep, queue, exec, odd>>
    BY <1>0, <1>5 DEF ReadAgain, Asked, Confirms
  <2> QED
    BY <1>g, <2>2, <2>3
<1>6. CASE Finish(r) \/ Revert(r)
  <2> DEFINE d == req[r].old
  <2>1. /\ req[r].pc \in {"finish", "revert"} /\ UNCHANGED <<queue, exec, odd>> /\ d \in Deploys
        /\ Confirms(r) /\ dep[d] \in {"cancelled", "failed"}
    <3>1. d \in Deploys \cup {0}
      BY <1>0, RequestUpdates DEF Typed, TypeOK
    <3> QED
      BY <1>0, <1>6, <3>1 DEF Finish, Revert, Asked, Confirms
  <2>2. PICK st \in {"cancelled", "needs_confirmation"} :
          /\ \A e \in Deploys : dep'[e] = IF e = d THEN st ELSE dep[e]
          /\ st = "cancelled" => req[r].pc = "finish"
    BY <1>0, <1>6 DEF Finish, Revert, Typed, TypeOK
  <2>3. /\ req'[r].pc = "free" /\ req'[r].op = "none" /\ req'[r].d = 0 /\ req'[r].old = 0
        /\ \A q \in Requests \ {r} : req'[q] = req[q]
    BY <1>0, <1>6, RequestMoves DEF Finish, Revert
  <2> HIDE DEF d
  <2>o. /\ \A s \in Slots : exec[s].d \in Deploys
        /\ \A q \in Requests : req[q].d \in Deploys \cup {0} /\ req[q].old \in Deploys \cup {0}
        /\ d # 0 /\ 0 \notin Deploys
    BY <1>0, <2>1, SlotUpdates, RequestUpdates, WorkersAssumption DEF Typed, TypeOK
  <2>4. Leased' /\ InOrder'
    BY <2>1, <2>2 DEF AnswerInv, Leased, InOrder, Queue!Sent
  <2>5. Apart'
    BY <2>3 DEF AnswerInv, Apart, Confirms
  <2>6. Writes'
    <3>1. \A s \in Slots : Works(s) => exec[s].d # d
      BY <2>1 DEF AnswerInv, Writes, d
    <3> QED
      BY <2>1, <2>2, <2>3, <2>o, <3>1 DEF AnswerInv, Writes, Works, Confirms
  <2>7. Replaced'
    <3>1. st = "cancelled" => req[r].d \in Deploys /\ req[r].d > d /\ dep[req[r].d] # "none"
      <4>1. st = "cancelled" => /\ req[r].pc = "finish" /\ req[r].old = d /\ req[r].d > d
                                /\ (req[r].d # 0 => dep[req[r].d] # "none")
        BY <1>0, <2>2, <2>o DEF Asked, d
      <4>2. d \in Nat /\ req[r].d \in Deploys \cup {0}
        BY <2>1, <2>o, WorkersAssumption
      <4>3. st = "cancelled" => req[r].d # 0
        BY <4>1, <4>2
      <4> QED
        BY <4>1, <4>2, <4>3
    <3>2. \A q \in Requests \ {r} : Confirms(q) => Confirms(q)' /\ req'[q].old = req[q].old
      BY <2>3 DEF Confirms
    <3>3. Confirms(r) /\ req[r].old = d
      BY <2>1 DEF d
    <3>4. \A e \in Deploys : dep[e] # "none" => dep'[e] # "none"
      BY <2>2
    <3>5. \A e \in Deploys \ {d} : dep'[e] = dep[e]
      BY <2>2
    <3>6. dep'[d] = "cancelled" => \E e \in Deploys : e > d /\ dep'[e] # "none"
      BY <2>1, <2>2, <3>1, <3>4
    <3> HIDE DEF Confirms
    <3> QED
      BY <2>1, <3>2, <3>3, <3>4, <3>5, <3>6 DEF AnswerInv, Replaced, Barring
  <2>8. \A q \in Requests : Asked(q)'
    <3>1. ASSUME NEW q \in Requests \ {r} PROVE Asked(q)'
      <4>1. Confirms(q) => req[q].old # d
        BY <2>1 DEF AnswerInv, Apart, d
      <4> QED
        BY <2>1, <2>2, <2>3, <2>o, <4>1 DEF AnswerInv, Asked, Confirms, Queue!Sent
    <3>2. Asked(r)'
      BY <2>3 DEF Asked, Confirms
    <3> QED
      BY <3>1, <3>2
  <2> QED
    BY <2>4, <2>5, <2>6, <2>7, <2>8 DEF AnswerInv
<1>7. CASE Write(r) \/ Delete(r)
  <2>1. /\ End(r) /\ UNCHANGED <<dep, queue, exec>> /\ odd \subseteq odd'
        /\ req[r].pc \in {"write", "delete"}
    BY <1>7 DEF Write, Delete, Note
  <2> QED
    BY <1>0, <1>e, <2>1 DEF Confirms, Asked
<1>8. CASE Abort(r)
  BY <1>e, <1>8 DEF Abort, Note
<1> QED
  BY <1>1, <1>2, <1>3, <1>4, <1>5, <1>6, <1>7, <1>8 DEF ConfirmNext, OtherNext

(* A step of the jobs that leaves the rows and the messages alone, and     *)
(* brings no job to where it may write that was not there.                 *)
LEMMA QuietSlots ==
  ASSUME AnswerInv, Typed', UNCHANGED <<dep, queue, req>>, odd \subseteq odd',
         \A s \in Slots :
           /\ exec'[s].pc # "idle" => exec[s].pc # "idle" /\ exec'[s].d = exec[s].d
           /\ Works(s)' => Works(s)
           /\ exec'[s].pc \in {"runtime", "end"} =>
                exec'[s].row \in {"needs_confirmation", "success", "failed"}
  PROVE  AnswerInv'
<1> USE DEF AnswerInv
<1>1. Leased' /\ InOrder'
  BY DEF Leased, InOrder, Queue!Sent
<1>2. Apart' /\ Replaced' /\ \A q \in Requests : Asked(q)'
  BY DEF Apart, Replaced, Asked, Confirms, Barring, Queue!Sent
<1>3. Writes'
  BY DEF Writes, Works, Confirms
<1> QED
  BY <1>1, <1>2, <1>3

(* A job writes the row of its deployment.                                 *)
LEMMA JobWrites ==
  ASSUME AnswerInv, Typed', UNCHANGED <<queue, req>>, odd \subseteq odd',
         NEW s \in Slots, Works(s), NEW st \in Status \ {"none", "queued", "cancelled"},
         dep' = [dep EXCEPT ![exec[s].d] = st],
         \A t \in Slots \ {s} : exec'[t] = exec[t],
         exec'[s].d = exec[s].d, exec'[s].pc # "idle", exec'[s].pc # "end",
         exec'[s].pc # "runtime", Works(s)' => st # "needs_confirmation"
  PROVE  AnswerInv'
<1>0. Typed
  BY DEF AnswerInv
<1>1. PICK d \in Deploys : d = exec[s].d
  BY <1>0, SlotUpdates DEF Typed, TypeOK
<1>2. \A e \in Deploys : dep'[e] = IF e = d THEN st ELSE dep[e]
  BY <1>0, <1>1 DEF Typed, TypeOK
<1>3. /\ queue[d].st = "hidden" /\ dep[d] # "none" /\ exec[s].pc # "idle"
      /\ \A t \in Slots \ {s} : exec[t].pc # "idle" => exec[t].d # d
  BY <1>1 DEF AnswerInv, Leased, Works, Queue!Sent
<1>4. \A q \in Requests : /\ Confirms(q) => req[q].old # d
                          /\ req[q].pc = "enqueue" => req[q].d # d
  BY <1>1, <1>3 DEF AnswerInv, Writes, Asked, Queue!Sent
<1>o. /\ \A t \in Slots : exec[t].d \in Deploys
      /\ \A q \in Requests : req[q].d \in Deploys \cup {0} /\ req[q].old \in Deploys \cup {0}
  BY <1>0, SlotUpdates, RequestUpdates DEF Typed, TypeOK
<1>5. Leased' /\ InOrder'
  BY <1>1, <1>2, <1>3 DEF AnswerInv, Leased, InOrder, Queue!Sent
<1>6. Apart'
  BY DEF AnswerInv, Apart, Confirms
<1>7. Writes'
  <2>1. ASSUME NEW t \in Slots, Works(t)'
        PROVE  /\ dep'[exec'[t].d] \notin {"needs_confirmation", "cancelled"}
               /\ \A q \in Requests : Confirms(q)' => req'[q].old # exec'[t].d
    <3>1. CASE t = s
      BY <1>1, <1>2, <1>4, <2>1, <3>1 DEF Confirms
    <3>2. CASE t # s
      BY <1>2, <1>3, <1>o, <2>1, <3>2 DEF AnswerInv, Writes, Works, Confirms
    <3> QED
      BY <3>1, <3>2
  <2>2. \A t \in Slots : exec'[t].pc \in {"runtime", "end"} =>
          exec'[t].row \in {"needs_confirmation", "success", "failed"}
    BY DEF AnswerInv, Writes
  <2> QED
    BY <2>1, <2>2 DEF Writes
<1>8. Replaced'
  BY <1>2, <1>3 DEF AnswerInv, Replaced, Confirms, Barring
<1>9. \A q \in Requests : Asked(q)'
  BY <1>2, <1>4, <1>o DEF AnswerInv, Asked, Confirms, Queue!Sent
<1> QED
  BY <1>5, <1>6, <1>7, <1>8, <1>9 DEF AnswerInv

LEMMA AnswerJob ==
  ASSUME AnswerInv, Typed', NEW s \in Slots, JobNext(s)
  PROVE  AnswerInv'
<1>0. /\ Typed /\ exec \in [Slots -> Slot]
      /\ \A x \in Slot : /\ x.pc \in SlotPCs
                         /\ \A pc : /\ [x EXCEPT !.pc = pc].pc = pc
                                    /\ [x EXCEPT !.pc = pc].d = x.d
                                    /\ [x EXCEPT !.pc = pc].row = x.row
  BY DEF AnswerInv, Typed, TypeOK, Slot, SlotPCs
<1>t. ASSUME NEW pc, To(s, pc)
      PROVE  /\ exec'[s].pc = pc /\ exec'[s].d = exec[s].d /\ exec'[s].row = exec[s].row
             /\ \A t \in Slots \ {s} : exec'[t] = exec[t]
  BY <1>0, <1>t DEF To
<1>o. ASSUME NEW pc, NEW st, Outcome(s, st, pc)
      PROVE  /\ exec'[s].pc = pc /\ exec'[s].d = exec[s].d /\ exec'[s].row = st
             /\ \A t \in Slots \ {s} : exec'[t] = exec[t]
  BY <1>0, <1>o DEF Outcome, Slot
<1>q. ASSUME UNCHANGED <<dep, queue, req>>, odd \subseteq odd', exec[s].pc # "idle",
             exec'[s].d = exec[s].d, Works(s)' => Works(s),
             exec'[s].pc \in {"runtime", "end"} =>
               exec'[s].row \in {"needs_confirmation", "success", "failed"},
             \A t \in Slots \ {s} : exec'[t] = exec[t]
      PROVE  AnswerInv'
  <2>1. \A t \in Slots \ {s} :
          /\ Works(t)' => Works(t)
          /\ exec'[t].pc \in {"runtime", "end"} =>
               exec'[t].row \in {"needs_confirmation", "success", "failed"}
    BY <1>q DEF AnswerInv, Writes, Works
  <2> QED
    BY <1>q, <2>1, QuietSlots
<1>1. CASE Load(s)
  <2>1. PICK pc \in {"ack", "loadWorker"} :
          /\ To(s, pc) /\ (pc = "loadWorker" => dep[exec[s].d] \notin Done)
          /\ UNCHANGED <<dep, queue, req, odd>> /\ exec[s].pc = "load"
    BY <1>1 DEF Load
  <2>2. /\ exec'[s].pc = pc /\ exec'[s].d = exec[s].d /\ exec'[s].row = exec[s].row
        /\ \A t \in Slots \ {s} : exec'[t] = exec[t]
    BY <1>t, <2>1
  <2>3. Leased' /\ InOrder'
    BY <2>1, <2>2 DEF AnswerInv, Leased, InOrder, Queue!Sent
  <2>4. Apart' /\ Replaced' /\ \A q \in Requests : Asked(q)'
    BY <2>1 DEF AnswerInv, Apart, Replaced, Asked, Confirms, Barring, Queue!Sent
  <2>5. Writes'
    <3>1. pc = "loadWorker" =>
            /\ dep[exec[s].d] \notin {"needs_confirmation", "cancelled"}
            /\ \A q \in Requests : Confirms(q) => req[q].old # exec[s].d
      BY <2>1 DEF AnswerInv, Asked, Done
    <3> QED
      BY <2>1, <2>2, <3>1 DEF AnswerInv, Writes, Works, Confirms
  <2> QED
    BY <2>3, <2>4, <2>5 DEF AnswerInv
<1>2. CASE LoadWorker(s)
  <2>1. /\ exec'[s].pc = "start" /\ exec'[s].d = exec[s].d
        /\ \A t \in Slots \ {s} : exec'[t] = exec[t]
    BY <1>0, <1>2 DEF LoadWorker, Slot
  <2> QED
    BY <1>2, <1>q, <2>1 DEF LoadWorker, Works
<1>3. CASE LoadFails(s)
  BY <1>3, <1>t, <1>q DEF LoadFails, Works
<1>4. CASE Start(s)
  <2>1. /\ exec'[s].pc = "mark" /\ exec'[s].d = exec[s].d
        /\ \A t \in Slots \ {s} : exec'[t] = exec[t]
    BY <1>0, <1>4 DEF Start, Slot
  <2>2. exec[s].pc = "start" /\ UNCHANGED <<queue, req, odd>> /\ Works(s)
        /\ "deploying" \in Status \ {"none", "queued", "cancelled"}
    BY <1>4 DEF Start, Works, Status
  <2>3. CASE UNCHANGED dep
    BY <1>q, <2>1, <2>2, <2>3
  <2>4. CASE dep' = [dep EXCEPT ![exec[s].d] = "deploying"]
    BY <2>1, <2>2, <2>4, JobWrites
  <2> QED
    BY <1>4, <2>3, <2>4 DEF Start, Save
<1>5. CASE MarkWorker(s)
  BY <1>5, <1>t, <1>q DEF MarkWorker, Works
<1>6. CASE Log(s)
  <2>1. exec[s].pc = "wait" /\ UNCHANGED <<queue, req, odd, exec>> /\ Works(s)
        /\ "deploying" \in Status \ {"none", "queued", "cancelled"}
    BY <1>6 DEF Log, Works, Waits, Status
  <2>2. CASE UNCHANGED dep
    BY <1>q, <2>1, <2>2 DEF Works
  <2>3. CASE dep' = [dep EXCEPT ![exec[s].d] = "deploying"]
    BY <2>1, <2>3, JobWrites
  <2> QED
    BY <1>6, <2>2, <2>3 DEF Log, Save
<1>7. CASE SaveRuntime(s)
  <2>1. /\ exec[s].pc = "runtime" /\ To(s, "end") /\ UNCHANGED <<dep, queue, req>>
        /\ odd \subseteq odd'
    BY <1>7 DEF SaveRuntime, Note
  <2> QED
    BY <1>t, <1>q, <2>1 DEF AnswerInv, Writes, Works
<1>8. CASE Finished(s)
  <2>1. /\ exec[s].pc = "end" /\ To(s, "endWorker") /\ UNCHANGED <<queue, req>>
        /\ odd \subseteq odd' /\ Works(s)
        /\ \/ UNCHANGED dep
           \/ dep' = [dep EXCEPT ![exec[s].d] = exec[s].row]
    BY <1>8 DEF Finished, Note, Works, Save
  <2>2. /\ exec'[s].pc = "endWorker" /\ exec'[s].d = exec[s].d
        /\ \A t \in Slots \ {s} : exec'[t] = exec[t]
    BY <1>t, <2>1
  <2>3. CASE UNCHANGED dep
    BY <1>q, <2>1, <2>2, <2>3 DEF Works
  <2>4. CASE dep' = [dep EXCEPT ![exec[s].d] = exec[s].row]
    <3>1. exec[s].row \in Status \ {"none", "queued", "cancelled"}
      BY <2>1 DEF AnswerInv, Writes, Status, Done
    <3>2. ~ Works(s)'
      BY <2>2 DEF Works
    <3> QED
      BY <2>1, <2>2, <2>4, <3>1, <3>2, JobWrites
  <2> QED
    BY <2>1, <2>3, <2>4
<1>9. CASE FinishedWorker(s)
  BY <1>9, <1>t, <1>q DEF FinishedWorker, Works
<1>10. CASE Ack(s) \/ Nack(s)
  <2>1. /\ exec'[s].pc = "idle" /\ \A t \in Slots \ {s} : exec'[t] = exec[t]
        /\ exec[s].pc \in {"ack", "nack"} /\ UNCHANGED <<dep, req>> /\ odd \subseteq odd'
    BY <1>0, <1>10 DEF Ack, Nack, FreeSlot, Note
  <2>2. PICK d \in Deploys : d = exec[s].d
    BY <1>0, SlotUpdates
  <2>3. /\ \A e \in Deploys \ {d} : queue'[e] = queue[e]
        /\ (queue'[d].st = "unsent" <=> queue[d].st = "unsent")
    BY <1>0, <1>10, <2>2 DEF Ack, Nack, Queue!Delete, Queue!Archive, Queue!Held, Typed, TypeOK,
       Queue!Message, Queue!Places
  <2>4. Leased'
    <3>1. \A t \in Slots : exec'[t].pc # "idle" => t # s /\ exec[t].d # d /\ exec[t].d \in Deploys
      <4>1. \A t \in Slots : exec[t].d \in Deploys
        BY <1>0, SlotUpdates
      <4>2. \A t \in Slots : exec[t].pc # "idle" /\ exec[t].d = exec[s].d => t = s
        BY <2>1 DEF AnswerInv, Leased
      <4> QED
        BY <2>1, <2>2, <4>1, <4>2
    <3>2. \A e \in Deploys : (queue'[e].st = "unsent" <=> queue[e].st = "unsent")
      BY <2>3
    <3> QED
      BY <2>1, <2>3, <3>1, <3>2 DEF AnswerInv, Leased, Queue!Sent
  <2>5. InOrder' /\ Apart' /\ Replaced'
    BY <2>1 DEF AnswerInv, InOrder, Apart, Replaced, Confirms, Barring
  <2>6. Writes'
    BY <2>1 DEF AnswerInv, Writes, Works, Confirms
  <2>7. \A q \in Requests : Asked(q)'
    <3>1. \A q \in Requests : req[q].d \in Deploys \cup {0}
      BY <1>0, RequestUpdates DEF Typed, TypeOK
    <3> QED
      BY <2>1, <2>3, <3>1 DEF AnswerInv, Asked, Confirms, Queue!Sent
  <2> QED
    BY <2>4, <2>5, <2>6, <2>7 DEF AnswerInv
<1>11. CASE Resolve(s)
  <2>1. exec[s].pc = "resolve" /\ UNCHANGED <<dep, queue, req, odd>>
        /\ (Outcome(s, "failed", "end") \/ To(s, "wait"))
    BY <1>11 DEF Resolve
  <2> QED
    BY <1>t, <1>o, <1>q, <2>1 DEF Works
<1>12. CASE Deployed(s)
  <2>1. /\ exec'[s].pc = "runtime" /\ exec'[s].d = exec[s].d /\ exec'[s].row = "success"
        /\ \A t \in Slots \ {s} : exec'[t] = exec[t]
    BY <1>0, <1>12 DEF Deployed, Slot
  <2> QED
    BY <1>12, <1>q, <2>1 DEF Deployed, Works, Waits
<1>13. CASE Parked(s) \/ Misread(s) \/ WaitFails(s)
  <2>1. /\ exec[s].pc = "wait" /\ UNCHANGED <<dep, queue, req>> /\ odd \subseteq odd'
        /\ \/ Outcome(s, "needs_confirmation", "end")
           \/ Outcome(s, "success", "runtime")
           \/ Outcome(s, "failed", "end")
    BY <1>13 DEF Parked, Misread, WaitFails, Waits, Note
  <2> QED
    BY <1>o, <1>q, <2>1 DEF Works
<1> QED
  BY <1>1, <1>2, <1>3, <1>4, <1>5, <1>6, <1>7, <1>8, <1>9, <1>10, <1>11, <1>12, <1>13 DEF JobNext

LEMMA AnswerTime ==
  ASSUME AnswerInv, Typed',
         \/ \E d \in Deploys : \/ Redeliver(d) \/ RecoverList(d) \/ RecoverMark(d) \/ RecoverWorker(d)
                               \/ \E s \in Slots : Fetch(s, d)
         \/ \E p \in DOMAIN pod : Preflight(p) \/ Wrangler(p) \/ IdleOver(p)
         \/ \E a \in Accounts : Teardown(a)
         \/ Shutdown \/ Crash
  PROVE  AnswerInv'
<1>0. /\ Typed /\ \A s \in Slots : exec[s].d \in Deploys
      /\ \A q \in Requests : req[q].d \in Deploys \cup {0} /\ req[q].old \in Deploys \cup {0}
  BY SlotUpdates, RequestUpdates DEF AnswerInv, Typed, TypeOK
<1>q. ASSUME UNCHANGED <<dep, queue, req, exec>>, odd \subseteq odd' PROVE AnswerInv'
  BY <1>q, QuietSlots DEF AnswerInv, Writes, Works
<1>1. ASSUME NEW d \in Deploys, Redeliver(d) PROVE AnswerInv'
  <2>1. /\ UNCHANGED <<dep, req, exec, odd>> /\ \A s \in Slots : ~ Runs(s, d)
        /\ \A e \in Deploys \ {d} : queue'[e] = queue[e]
        /\ queue[d].st = "hidden" /\ queue'[d].st = "visible"
    BY <1>0, <1>1 DEF Redeliver, Queue!Reappear, Typed, TypeOK, Queue!Message
  <2>2. Leased'
    BY <1>0, <2>1 DEF AnswerInv, Leased, Queue!Sent, Runs
  <2>3. InOrder' /\ Apart' /\ Replaced' /\ Writes'
    BY <2>1 DEF AnswerInv, InOrder, Apart, Replaced, Writes, Works, Confirms, Barring
  <2>4. \A q \in Requests : Asked(q)'
    BY <1>0, <2>1 DEF AnswerInv, Asked, Confirms, Queue!Sent
  <2> QED
    BY <2>2, <2>3, <2>4 DEF AnswerInv
<1>2. ASSUME NEW d \in Deploys, RecoverList(d) \/ RecoverWorker(d) PROVE AnswerInv'
  BY <1>2, <1>q DEF RecoverList, RecoverWorker
<1>3. ASSUME NEW d \in Deploys, RecoverMark(d) PROVE AnswerInv'
  <2>1. UNCHANGED <<queue, req, exec>> /\ odd \subseteq odd'
    BY <1>3 DEF RecoverMark, Note
  <2>2. CASE UNCHANGED dep
    BY <1>q, <2>1, <2>2
  <2>3. CASE dep' # dep
    <3>1. /\ dep[d] = "deploying" /\ dep'[d] = "failed" /\ odd' \in {odd, odd \cup {"overtaken"}}
          /\ \A e \in Deploys \ {d} : dep'[e] = dep[e]
      BY <1>0, <1>3, <2>3 DEF RecoverMark, Typed, TypeOK, Note
    <3>2. Leased' /\ InOrder' /\ Apart'
      BY <2>1, <3>1 DEF AnswerInv, Leased, InOrder, Apart, Confirms, Queue!Sent
    <3>3. Writes'
      BY <1>0, <2>1, <3>1 DEF AnswerInv, Writes, Works, Confirms
    <3>4. Replaced'
      BY <2>1, <3>1 DEF AnswerInv, Replaced, Confirms, Barring
    <3>5. \A q \in Requests : Asked(q)'
      BY <1>0, <2>1, <3>1 DEF AnswerInv, Asked, Confirms, Queue!Sent
    <3> QED
      BY <3>2, <3>3, <3>4, <3>5 DEF AnswerInv
  <2> QED
    BY <2>2, <2>3
<1>4. ASSUME NEW d \in Deploys, NEW s \in Slots, Fetch(s, d) PROVE AnswerInv'
  <2>1. /\ UNCHANGED <<dep, req, odd>>
        /\ \A e \in Deploys \ {d} : queue'[e] = queue[e]
        /\ queue[d].st = "visible" /\ queue'[d].st = "hidden"
        /\ exec'[s].pc = "load" /\ exec'[s].d = d
        /\ \A t \in Slots \ {s} : exec'[t] = exec[t]
    <3>1. /\ UNCHANGED <<dep, req, odd>> /\ queue[d].st = "visible"
          /\ queue' = [queue EXCEPT ![d].st = "hidden", ![d].ct = @ + 1]
          /\ exec' = [exec EXCEPT ![s] = [FreeSlot EXCEPT !.pc = "load", !.d = d, !.n = queue[d].ct + 1]]
      BY <1>4 DEF Fetch, Queue!Read
    <3>2. /\ \A e \in Deploys \ {d} : queue'[e] = queue[e]
          /\ queue'[d].st = "hidden"
      BY <1>0, <3>1 DEF Typed, TypeOK, Queue!Message
    <3>3. /\ exec'[s].pc = "load" /\ exec'[s].d = d
          /\ \A t \in Slots \ {s} : exec'[t] = exec[t]
      BY <1>0, <3>1 DEF Typed, TypeOK, FreeSlot
    <3> QED
      BY <3>1, <3>2, <3>3
  <2>2. Leased'
    <3>1. \A t \in Slots : exec[t].pc # "idle" => exec[t].d # d
      BY <2>1 DEF AnswerInv, Leased
    <3> QED
      BY <1>0, <2>1, <3>1 DEF AnswerInv, Leased, Queue!Sent
  <2>3. InOrder' /\ Apart' /\ Replaced' /\ Writes'
    BY <2>1 DEF AnswerInv, InOrder, Apart, Replaced, Writes, Works, Confirms, Barring
  <2>4. \A q \in Requests : Asked(q)'
    BY <1>0, <2>1 DEF AnswerInv, Asked, Confirms, Queue!Sent
  <2> QED
    BY <2>2, <2>3, <2>4 DEF AnswerInv
<1>5. ASSUME NEW p \in DOMAIN pod, Preflight(p) \/ Wrangler(p) \/ IdleOver(p) PROVE AnswerInv'
  BY <1>5, <1>q DEF Preflight, Wrangler, IdleOver, Note
<1>6. ASSUME NEW a \in Accounts, Teardown(a) PROVE AnswerInv'
  BY <1>6, <1>q DEF Teardown, Note
<1>7. CASE Shutdown
  <2>1. \A s \in Slots : /\ exec'[s].pc = exec[s].pc /\ exec'[s].d = exec[s].d
                         /\ exec'[s].row = exec[s].row
    BY <1>0, <1>7 DEF Shutdown, Typed, TypeOK, Slot
  <2>2. UNCHANGED <<dep, queue, req>> /\ odd \subseteq odd'
    BY <1>7 DEF Shutdown, Note
  <2> QED
    BY <2>1, <2>2, QuietSlots DEF AnswerInv, Writes, Works
<1>8. CASE Crash
  <2>1. \A s \in Slots : exec'[s].pc = "idle"
    BY <1>8 DEF Crash, FreeSlot
  <2>2. UNCHANGED <<dep, queue, req>> /\ odd \subseteq odd'
    BY <1>8 DEF Crash
  <2> QED
    BY <2>1, <2>2, QuietSlots DEF Works
<1> QED
  BY <1>1, <1>2, <1>3, <1>4, <1>5, <1>6, <1>7, <1>8

LEMMA AnswerInit == Init => AnswerInv
<1> SUFFICES ASSUME Init PROVE AnswerInv
  OBVIOUS
<1>1. /\ \A d \in Deploys : dep[d] = "none" /\ ~ Queue!Sent(d)
      /\ \A s \in Slots : exec[s].pc = "idle"
      /\ \A r \in Requests : req[r] = FreeRequest
  BY DEF Init, Queue!QueueInit, Queue!Sent, FreeSlot
<1>2. Leased /\ InOrder /\ Writes /\ Replaced
  BY <1>1 DEF Leased, InOrder, Writes, Works, Replaced
<1>3. Apart /\ \A r \in Requests : Asked(r)
  BY <1>1 DEF Apart, Asked, Confirms, FreeRequest
<1> QED
  BY <1>2, <1>3, TypeInit DEF AnswerInv

LEMMA AnswerStep == AnswerInv /\ [Next]_vars => AnswerInv'
<1> SUFFICES ASSUME AnswerInv, [Next]_vars PROVE AnswerInv'
  OBVIOUS
<1>1. Typed'
  BY TypeStep DEF AnswerInv
<1>2. CASE UNCHANGED vars
  BY <1>1, <1>2, QuietSlots DEF vars, AnswerInv, Writes, Works
<1>3. CASE Next
  BY <1>1, <1>3, AnswerTrigger, AnswerConfirm, AnswerJob, AnswerTime DEF Next
<1> QED
  BY <1>2, <1>3

LEMMA AtMostOne ==
  ASSUME NEW S, \A x, y \in S : x = y
  PROVE  Cardinality(S) <= 1
<1>1. CASE S = {}
  BY <1>1, FS_EmptySet
<1>2. CASE S # {}
  <2>1. PICK x : S = {x}
    BY <1>2
  <2>2. Cardinality({x}) = 1
    BY FS_Singleton
  <2> QED
    BY <2>1, <2>2
<1> QED
  BY <1>1, <1>2

(* A parked deployment that a user confirms is either replaced by a later  *)
(* one or waits for confirmation again, and one request at a time has it   *)
(* in its hands.                                                           *)
THEOREM ConfirmationAnswered == Spec => []ConfirmationIsAnswered
<1>1. AnswerInv => ConfirmationIsAnswered
  <2> SUFFICES ASSUME AnswerInv, NEW d \in Deploys
               PROVE  /\ Cardinality(Confirming(d)) <= 1
                      /\ dep[d] = "cancelled" /\ Confirming(d) = {} /\ Barring({"halted"}) =>
                           \E e \in Deploys : e > d /\ dep[e] # "none"
    BY DEF ConfirmationIsAnswered
  <2>0. d # 0
    BY WorkersAssumption
  <2>1. Confirming(d) = {r \in Requests : Confirms(r) /\ req[r].old = d}
    BY <2>0 DEF AnswerInv, Asked, Confirms, Confirming
  <2>2. Cardinality(Confirming(d)) <= 1
    <3>1. \A r, q \in Confirming(d) : r = q
      BY <2>1 DEF AnswerInv, Apart
    <3> QED
      BY <3>1, AtMostOne
  <2>3. dep[d] = "cancelled" /\ Confirming(d) = {} /\ Barring({"halted"}) =>
          \E e \in Deploys : e > d /\ dep[e] # "none"
    BY <2>1 DEF AnswerInv, Replaced
  <2> QED
    BY <2>2, <2>3
<1> QED
  BY <1>1, AnswerInit, AnswerStep, PTL DEF Spec

-----------------------------------------------------------------------------
(* Earned successes *)

(* A worker without an account has left nothing anywhere.                  *)
Nowhere == Barring({"rewritten", "moved"}) /\ worker.account = NoAccount
NothingPlaced ==
  /\ \A s \in Slots : exec[s].copy.account = NoAccount /\ exec[s].row # "needs_confirmation"
  /\ \A p \in Attempts : pod[p].ph = "absent"
  /\ \A d \in Deploys : dep[d] # "needs_confirmation"
  /\ \A r \in Requests : ~ Confirms(r)
  /\ cloud.script = {} /\ tear = {}

(* What says that the bucket is confirmed says so of an account in which a *)
(* user has agreed to it.                                                  *)
Agreed ==
  Barring({"rewritten", "moved"}) =>
    /\ worker.confirmed => worker.account \in cloud.approved
    /\ \A s \in Slots : exec[s].copy.confirmed => exec[s].copy.account \in cloud.approved
    /\ \A p \in Attempts : pod[p].confirmed => pod[p].account \in cloud.approved
    /\ \A r \in Requests :
         req[r].pc = "persist" => req[r].copy.account \in cloud.approved \cup {NoAccount}

Checked ==
  Barring({"unchecked", "moved", "rewritten"}) =>
    /\ \A p \in Attempts : pod[p].ph = "checked" /\ pod[p].account \in Preowned =>
         pod[p].account \in cloud.approved
    /\ cloud.script \cap Preowned \subseteq cloud.approved

RanWrangler ==
  /\ \A p \in Attempts : pod[p].ph = "done" => p[1] \in cloud.by
  /\ Barring({"misread"}) =>
       /\ \A d \in Deploys : dep[d] = "success" => d \in cloud.by
       /\ \A s \in Slots : exec[s].row = "success" => exec[s].d \in cloud.by

Counted == \A s \in Slots : exec[s].pc # "idle" => exec[s].n \in 1..ReadCap

EarnInv ==
  /\ Preowned \subseteq cloud.bucket /\ Counted
  /\ Nowhere => NothingPlaced
  /\ Agreed /\ Checked /\ RanWrangler

LEMMA EarnInit == Init => EarnInv
<1> SUFFICES ASSUME Init PROVE EarnInv
  OBVIOUS
<1>0. /\ FreeSlot.pc = "idle" /\ FreeSlot.row = "none"
      /\ FreeSlot.copy.account = NoAccount /\ FreeSlot.copy.confirmed = FALSE
      /\ NoPod.ph = "absent" /\ NoPod.confirmed = FALSE
      /\ FreeRequest.pc = "free" /\ FreeRequest.old = 0
  BY DEF FreeSlot, FreeRequest, NoPod, Fresh
<1>1. /\ \A s \in Slots : exec[s] = FreeSlot
      /\ \A p \in Attempts : pod[p] = NoPod
      /\ \A d \in Deploys : dep[d] = "none"
      /\ \A r \in Requests : req[r] = FreeRequest
      /\ cloud = [bucket |-> Preowned, script |-> {}, by |-> {}, approved |-> {}] /\ tear = {}
      /\ ~ worker.confirmed
  BY DEF Init, Attempts, Fresh
<1>2. NothingPlaced /\ Counted
  BY <1>1, <1>0 DEF NothingPlaced, Counted, Confirms
<1>3. Agreed /\ Checked /\ RanWrangler
  BY <1>1, <1>0 DEF Agreed, Checked, RanWrangler
<1> QED
  BY <1>1, <1>2, <1>3 DEF EarnInv

(* A step that creates no pod, changes no account and asks nobody.         *)
Earned(row, d) ==
  /\ row = "needs_confirmation" => ~ Nowhere
  /\ row = "success" => d \in cloud.by \/ "misread" \in odd'
Copied(s) ==
  \/ exec'[s].copy.account = exec[s].copy.account /\ exec'[s].copy.confirmed = exec[s].copy.confirmed
  \/ exec'[s].copy.account = NoAccount /\ exec'[s].copy.confirmed = FALSE
  \/ exec'[s].copy.account = worker.account /\ exec'[s].copy.confirmed = worker.confirmed
LEMMA QuietEarn ==
  ASSUME Typed, EarnInv, Typed', odd \subseteq odd',
         worker'.account = worker.account, worker'.confirmed = worker.confirmed,
         UNCHANGED cloud, tear' \subseteq tear,
         \A p \in Attempts : pod'[p] = pod[p] \/ pod'[p] = NoPod,
         \A d \in Deploys : dep'[d] = dep[d] \/ Earned(dep'[d], d),
         \A r \in Requests :
           /\ Confirms(r)' => Confirms(r)
           /\ req'[r].pc = "persist" => req[r].pc = "persist" /\ req'[r].copy = req[r].copy,
         Counted',
         \A s \in Slots :
           /\ Copied(s)
           /\ \/ exec'[s].row = exec[s].row /\ exec'[s].d = exec[s].d
              \/ Earned(exec'[s].row, exec'[s].d)
  PROVE  EarnInv'
<1>0. NoPod.ph = "absent" /\ NoPod.confirmed = FALSE
  BY DEF NoPod
<1>1. Nowhere' => NothingPlaced'
  <2>1. Nowhere' => Nowhere
    BY DEF Nowhere, Barring
  <2> QED
    BY <1>0, <2>1 DEF EarnInv, NothingPlaced, Nowhere, Copied, Earned
<1>2. Agreed'
  BY <1>0 DEF EarnInv, Agreed, Copied, Barring
<1>3. Checked'
  BY <1>0 DEF EarnInv, Checked, Barring
<1>4. RanWrangler'
  BY <1>0 DEF EarnInv, RanWrangler, Barring, Earned
<1> QED
  BY <1>1, <1>2, <1>3, <1>4 DEF EarnInv

LEMMA StatusOnly ==
  ASSUME Typed
  PROVE  \A st : SetStatus(st) => worker'.account = worker.account /\ worker'.confirmed = worker.confirmed
BY DEF Typed, TypeOK, SetStatus, Worker

LEMMA EarnTrigger ==
  ASSUME AnswerInv, EarnInv, Typed', NEW r \in Requests, TriggerNext(r)
  PROVE  EarnInv'
<1>0. Typed
  BY DEF AnswerInv
<1>1. /\ UNCHANGED <<pod, cloud, tear, exec>> /\ odd \subseteq odd'
      /\ worker'.account = worker.account /\ worker'.confirmed = worker.confirmed
  <2>1. UNCHANGED <<pod, cloud, tear, exec>> /\ odd \subseteq odd'
    BY DEF TriggerNext, BeginDeploy, Begin, Mark, Create, CreateFails, EnqueueJob, EnqueueFails,
       UndoCreate, Restore, Note
  <2>2. UNCHANGED worker \/ \E st : SetStatus(st)
    BY DEF TriggerNext, BeginDeploy, Begin, Mark, Create, CreateFails, EnqueueJob, EnqueueFails,
       UndoCreate, Restore, TakeBack
  <2> QED
    BY <1>0, <2>1, <2>2, StatusOnly
<1>2. \A d \in Deploys : dep'[d] = dep[d] \/ dep'[d] \notin {"needs_confirmation", "success"}
  BY <1>0 DEF TriggerNext, BeginDeploy, Begin, Mark, Create, CreateFails, EnqueueJob, EnqueueFails,
     UndoCreate, Restore, Typed, TypeOK
<1>3. /\ \A q \in Requests \ {r} : req'[q] = req[q]
      /\ Confirms(r)' => Confirms(r)
      /\ req'[r].pc # "persist"
  <2>1. CASE BeginDeploy(r)
    BY <1>0, <2>1, RequestMoves DEF BeginDeploy, Confirms
  <2>2. CASE Create(r)
    <3>1. PICK d \in Spare : req' = [req EXCEPT ![r].pc = "enqueue", ![r].d = d]
      BY <2>2 DEF Create
    <3>2. /\ \A q \in Requests \ {r} : req'[q] = req[q]
          /\ req'[r].old = req[r].old /\ req'[r].pc = "enqueue"
      BY <1>0, <3>1 DEF Typed, TypeOK, Request
    <3> QED
      BY <2>2, <3>2 DEF Confirms, Create
  <2>3. CASE ~ BeginDeploy(r) /\ ~ Create(r)
    <3>1. /\ req[r].pc \in {"mark", "create", "enqueue", "undo", "restore"}
          /\ \/ End(r)
             \/ \E pc \in {"create", "restore", "finish", "undo", "revert"} : Goto(r, pc)
      BY <2>3 DEF TriggerNext, Mark, CreateFails, EnqueueJob, EnqueueFails,
         UndoCreate, Restore, Refused
    <3> QED
      BY <1>0, <3>1, RequestMoves DEF Confirms
  <2> QED
    BY <2>1, <2>2, <2>3
<1>4. Counted' /\ \A s \in Slots : Copied(s)
  BY <1>1 DEF EarnInv, Counted, Copied
<1> QED
  BY <1>0, <1>1, <1>2, <1>3, <1>4, QuietEarn DEF Confirms, Earned

(* The account of the worker changes only where the history says so, and   *)
(* it is confirmed only by a request whose user has agreed.                *)
LEMMA Persisted ==
  ASSUME AnswerInv, EarnInv, NEW r \in Requests, Persist(r), Barring({"rewritten", "moved"})'
  PROVE  /\ worker'.account = worker.account
         /\ worker'.confirmed => worker.account \in cloud.approved
<1>0. Typed /\ Barring({"rewritten", "moved"})
  BY DEF AnswerInv, Barring, Persist, Rewrite, Note
<1>1. worker \in Worker /\ req[r].copy \in Worker /\ req[r].pc = "persist" /\ Confirms(r)
  BY <1>0, RequestUpdates DEF Typed, TypeOK, Persist, AnswerInv, Asked, Confirms
<1>2. CASE ~ There
  BY <1>0, <1>1, <1>2 DEF Persist, Rewrite, EarnInv, Agreed
<1>3. CASE There
  <2> DEFINE copy == [req[r].copy EXCEPT !.confirmed = TRUE]
  <2>1. worker' = copy /\ [copy EXCEPT !.confirmed = worker.confirmed] = worker
    BY <1>0, <1>3 DEF Persist, Rewrite, Note, Barring
  <2>2. copy.account = req[r].copy.account
    BY <1>1 DEF Worker
  <2>3. worker.account = copy.account
    <3>1. [copy EXCEPT !.confirmed = worker.confirmed].account = copy.account
      BY <1>1 DEF Worker
    <3> QED
      BY <2>1, <3>1
  <2>4. worker.account # NoAccount
    BY <1>0, <1>1 DEF EarnInv, Nowhere, NothingPlaced
  <2>5. req[r].copy.account \in cloud.approved \cup {NoAccount}
    BY <1>0, <1>1 DEF EarnInv, Agreed
  <2> QED
    BY <2>1, <2>2, <2>3, <2>4, <2>5
<1> QED
  BY <1>2, <1>3

LEMMA Written ==
  ASSUME AnswerInv, EarnInv, NEW r \in Requests, Write(r), Barring({"rewritten", "moved"})'
  PROVE  /\ worker'.confirmed = worker.confirmed
         /\ worker'.account = worker.account \/ worker.account = NoAccount
<1>0. Typed /\ Barring({"rewritten", "moved"})
  BY DEF AnswerInv, Barring, Write, Note
<1>1. PICK a : a = req[r].copy.account
  OBVIOUS
<1>2. \/ worker' = worker
      \/ worker' = [worker EXCEPT !.account = a] /\ worker.account \in {a, NoAccount}
  <2>1. \/ worker' = worker
        \/ /\ worker' = [worker EXCEPT !.account = a]
           /\ \/ worker.account \in {a, NoAccount}
              \/ Note(IF req[r].op = "move" THEN "moved" ELSE "rewritten")
    BY <1>1 DEF Write
  <2>2. ~ Note(IF req[r].op = "move" THEN "moved" ELSE "rewritten")
    BY DEF Note, Barring
  <2> QED
    BY <2>1, <2>2
<1>3. worker \in Worker
  BY <1>0 DEF Typed, TypeOK
<1> QED
  BY <1>2, <1>3 DEF Worker

LEMMA EarnConfirm ==
  ASSUME AnswerInv, EarnInv, Typed', NEW r \in Requests, ConfirmNext(r) \/ OtherNext(r)
  PROVE  EarnInv'
<1>0. Typed /\ Asked(r)
  BY DEF AnswerInv
<1>q. ASSUME UNCHANGED <<worker, pod, cloud, tear, exec>>, odd \subseteq odd',
             \A d \in Deploys : dep'[d] = dep[d] \/ dep'[d] \notin {"needs_confirmation", "success"},
             \A q \in Requests \ {r} : req'[q] = req[q],
             Confirms(r)' => Confirms(r), req'[r].pc # "persist"
      PROVE  EarnInv'
  <2>1. Counted' /\ \A s \in Slots : Copied(s)
    BY <1>q DEF EarnInv, Counted, Copied
  <2>2. \A q \in Requests :
          /\ Confirms(q)' => Confirms(q)
          /\ req'[q].pc = "persist" => req[q].pc = "persist" /\ req'[q].copy = req[q].copy
    BY <1>q DEF Confirms
  <2> QED
    BY <1>0, <1>q, <2>1, <2>2, QuietEarn DEF Earned
<1>1. CASE BeginConfirm(r) \/ BeginEdit(r) \/ BeginMove(r) \/ BeginDelete(r)
  <2>1. PICK op, pc, w : Begin(r, op, pc, w) /\ pc \in {"latest", "write", "delete"}
    <3>1. CASE BeginMove(r)
      <4>1. PICK a : Begin(r, "move", "write", [worker EXCEPT !.account = a])
        BY <3>1 DEF BeginMove
      <4> QED
        BY <4>1
    <3> QED
      BY <1>1, <3>1 DEF BeginConfirm, BeginEdit, BeginDelete
  <2>2. UNCHANGED <<worker, pod, cloud, tear, exec, dep, odd>>
    BY <2>1 DEF Begin
  <2>3. req'[r].old = 0 /\ req'[r].pc = pc /\ \A q \in Requests \ {r} : req'[q] = req[q]
    BY <1>0, <2>1, RequestMoves
  <2> QED
    BY <1>q, <2>1, <2>2, <2>3 DEF Confirms
<1>2. CASE ReadLatest(r) \/ ReadAgain(r)
  <2>1. UNCHANGED <<worker, pod, cloud, tear, exec, dep, odd>>
    BY <1>2 DEF ReadLatest, ReadAgain
  <2>2. /\ \A q \in Requests \ {r} : req'[q] = req[q]
        /\ req'[r].pc # "persist" /\ (Confirms(r)' => Confirms(r))
    <3>1. CASE End(r)
      BY <1>0, <3>1, RequestMoves DEF Confirms
    <3>2. CASE ReadLatest(r) /\ ~ End(r)
      <4>1. PICK d : req' = [req EXCEPT ![r].pc = "claim", ![r].old = d]
        BY <3>2 DEF ReadLatest
      <4> QED
        BY <1>0, <4>1 DEF Typed, TypeOK, Request, Confirms
    <3>3. CASE ReadAgain(r)
      <4>1. PICK pc \in {"mark", "revert"} : req' = [req EXCEPT ![r].pc = pc, ![r].copy = worker]
        BY <3>3 DEF ReadAgain
      <4>2. req'[r].pc = pc /\ req'[r].old = req[r].old /\ \A q \in Requests \ {r} : req'[q] = req[q]
        BY <1>0, <4>1 DEF Typed, TypeOK, Request
      <4> QED
        BY <3>3, <4>2 DEF Confirms, ReadAgain
    <3> QED
      BY <1>2, <3>1, <3>2, <3>3
  <2> QED
    BY <1>q, <2>1, <2>2
<1>3. CASE PersistFails(r) \/ Finish(r) \/ Abort(r)
  <2>1. UNCHANGED <<worker, pod, cloud, tear, exec>> /\ odd \subseteq odd'
    BY <1>3 DEF PersistFails, Finish, Abort, Note
  <2>2. \A d \in Deploys : dep'[d] = dep[d] \/ dep'[d] \notin {"needs_confirmation", "success"}
    BY <1>0, <1>3 DEF PersistFails, Finish, Abort, Typed, TypeOK
  <2>3. End(r) \/ (Goto(r, "revert") /\ req[r].pc = "persist")
    BY <1>3 DEF PersistFails, Finish, Abort
  <2>4. /\ \A q \in Requests \ {r} : req'[q] = req[q]
        /\ req'[r].pc # "persist" /\ (Confirms(r)' => Confirms(r))
    BY <1>0, <2>3, RequestMoves DEF Confirms
  <2> QED
    BY <1>q, <2>1, <2>2, <2>4
<1>4. CASE Claim(r)
  <2> DEFINE d == req[r].old
  <2>1. CASE ~ Claimable(d)
    <3>1. UNCHANGED <<worker, pod, cloud, tear, exec, dep, odd>> /\ End(r)
      BY <1>4, <2>1 DEF Claim
    <3> QED
      BY <1>0, <1>q, <3>1, RequestMoves DEF Confirms
  <2>2. CASE Claimable(d)
    <3>1. PICK a \in Accounts \cup {NoAccount} : a = req[r].copy.account
      BY <1>0, RequestUpdates, WorkerUpdates DEF Typed, TypeOK
    <3>2. /\ dep' = [dep EXCEPT ![d] = "cancelled"] /\ Goto(r, "persist")
          /\ cloud' = [cloud EXCEPT !.approved = @ \cup ({a} \cap Accounts)]
          /\ UNCHANGED <<worker, pod, tear, exec, odd>>
      BY <1>4, <2>2, <3>1 DEF Claim
    <3>3. d \in Deploys /\ dep[d] = "needs_confirmation"
      <4>1. d # 0 /\ d \in Deploys \cup {0}
        BY <1>0, <1>4, RequestUpdates DEF Claim, Asked, Typed, TypeOK
      <4> QED
        BY <2>2, <4>1 DEF Claimable
    <3>4. ~ Nowhere'
      BY <3>2, <3>3 DEF EarnInv, Nowhere, NothingPlaced, Barring
    <3>5. /\ cloud'.bucket = cloud.bucket /\ cloud'.script = cloud.script /\ cloud'.by = cloud.by
          /\ cloud.approved \subseteq cloud'.approved
          /\ (a = NoAccount \/ a \in cloud'.approved)
      BY <1>0, <3>2 DEF Typed, TypeOK
    <3>6. /\ req'[r].copy = req[r].copy /\ \A q \in Requests \ {r} : req'[q] = req[q]
      BY <1>0, <3>2 DEF Goto, Typed, TypeOK, Request
    <3>7. \A e \in Deploys : dep'[e] = dep[e] \/ dep'[e] = "cancelled"
      BY <1>0, <3>2 DEF Typed, TypeOK
    <3>8. Agreed'
      BY <3>1, <3>2, <3>5, <3>6 DEF EarnInv, Agreed, Barring
    <3>9. Checked' /\ RanWrangler' /\ Counted'
      BY <3>2, <3>5, <3>7 DEF EarnInv, Checked, RanWrangler, Counted, Barring
    <3> QED
      BY <3>4, <3>5, <3>8, <3>9 DEF EarnInv
  <2> QED
    BY <2>1, <2>2
<1>5. CASE Revert(r)
  <2>1. /\ UNCHANGED <<worker, pod, cloud, tear, exec, odd>> /\ End(r) /\ Confirms(r)
        /\ \A e \in Deploys : dep'[e] = dep[e] \/ dep'[e] = "needs_confirmation"
    BY <1>0, <1>5 DEF Revert, Asked, Confirms, Typed, TypeOK
  <2>2. ~ Nowhere'
    BY <2>1 DEF EarnInv, Nowhere, NothingPlaced, Barring
  <2>3. req'[r].pc = "free" /\ \A q \in Requests \ {r} : req'[q] = req[q]
    BY <1>0, <2>1, RequestMoves
  <2>4. Agreed'
    BY <2>1, <2>3 DEF EarnInv, Agreed, Barring
  <2>5. Checked' /\ RanWrangler' /\ Counted'
    BY <2>1 DEF EarnInv, Checked, RanWrangler, Counted, Barring
  <2> QED
    BY <2>1, <2>2, <2>4, <2>5 DEF EarnInv
<1>6. CASE Persist(r) \/ Write(r)
  <2>1. UNCHANGED <<pod, cloud, tear, exec, dep>> /\ odd \subseteq odd'
    BY <1>6 DEF Persist, Write, Rewrite, Note
  <2>2. /\ \A q \in Requests \ {r} : req'[q] = req[q]
        /\ req'[r].pc # "persist" /\ (Confirms(r)' => Confirms(r))
    <3>1. End(r) \/ (Goto(r, "read") /\ req[r].pc = "persist")
      BY <1>6 DEF Persist, Write
    <3> QED
      BY <1>0, <3>1, RequestMoves DEF Confirms
  <2>3. Barring({"rewritten", "moved"})' =>
          /\ worker'.account = worker.account \/ worker.account = NoAccount
          /\ worker'.confirmed => worker'.account \in cloud.approved
    <3>1. ASSUME Barring({"rewritten", "moved"})', Write(r)
          PROVE  /\ worker'.account = worker.account \/ worker.account = NoAccount
                 /\ worker'.confirmed => worker'.account \in cloud.approved
      <4>1. /\ worker'.confirmed = worker.confirmed
            /\ worker'.account = worker.account \/ worker.account = NoAccount
        BY <3>1, Written
      <4>2. Barring({"rewritten", "moved"})
        BY <2>1, <3>1 DEF Barring
      <4>3. NoAccount \notin cloud.approved
        BY <1>0, WorkersAssumption DEF Typed, TypeOK
      <4> QED
        BY <4>1, <4>2, <4>3 DEF EarnInv, Agreed
    <3> QED
      BY <1>6, <3>1, Persisted
  <2>4. Nowhere' => NothingPlaced'
    <3>1. Nowhere' => Nowhere
      BY <2>1, <2>3 DEF Nowhere, Barring
    <3> QED
      BY <2>1, <2>2, <3>1 DEF EarnInv, NothingPlaced, Confirms
  <2>5. Agreed'
    BY <2>1, <2>2, <2>3 DEF EarnInv, Agreed, Barring
  <2>6. Checked' /\ RanWrangler' /\ Counted'
    BY <2>1 DEF EarnInv, Checked, RanWrangler, Counted, Barring
  <2> QED
    BY <2>1, <2>4, <2>5, <2>6 DEF EarnInv
<1>7. CASE Delete(r)
  <2>1. UNCHANGED <<pod, cloud, exec, dep, odd>> /\ End(r)
        /\ tear' \in {tear, tear \cup ({worker.account} \cap Accounts)}
    BY <1>7 DEF Delete
  <2>2. req'[r].pc = "free" /\ req'[r].old = 0 /\ \A q \in Requests \ {r} : req'[q] = req[q]
    BY <1>0, <2>1, RequestMoves
  <2>3. worker'.account = worker.account /\ worker'.confirmed = worker.confirmed
    BY <1>0, <1>7 DEF Delete, Typed, TypeOK, Worker
  <2>4. Nowhere' => NothingPlaced'
    <3>1. Nowhere' => Nowhere /\ tear' = tear
      BY <2>1, <2>3, WorkersAssumption DEF Nowhere, Barring
    <3> QED
      BY <2>1, <2>2, <3>1 DEF EarnInv, NothingPlaced, Confirms
  <2>5. Agreed'
    BY <2>1, <2>2, <2>3 DEF EarnInv, Agreed, Barring
  <2>6. Checked' /\ RanWrangler' /\ Counted'
    BY <2>1 DEF EarnInv, Checked, RanWrangler, Counted, Barring
  <2> QED
    BY <2>1, <2>4, <2>5, <2>6 DEF EarnInv
<1> QED
  BY <1>1, <1>2, <1>3, <1>4, <1>5, <1>6, <1>7 DEF ConfirmNext, OtherNext

LEMMA EarnJob ==
  ASSUME AnswerInv, EarnInv, Typed', NEW s \in Slots, JobNext(s)
  PROVE  EarnInv'
<1>0. Typed /\ exec[s] \in Slot /\ exec[s].copy \in Worker /\ exec \in [Slots -> Slot]
  BY SlotUpdates DEF AnswerInv, Typed, TypeOK
<1>t. ASSUME NEW pc, To(s, pc)
      PROVE  /\ exec'[s] = [exec[s] EXCEPT !.pc = pc]
             /\ exec'[s].pc = pc /\ exec'[s].d = exec[s].d /\ exec'[s].n = exec[s].n
             /\ exec'[s].row = exec[s].row /\ exec'[s].copy = exec[s].copy
             /\ \A t \in Slots \ {s} : exec'[t] = exec[t]
  BY <1>0, <1>t DEF To, Slot
<1>o. ASSUME NEW pc, NEW st, Outcome(s, st, pc)
      PROVE  /\ exec'[s].pc = pc /\ exec'[s].d = exec[s].d /\ exec'[s].n = exec[s].n
             /\ exec'[s].row = st /\ exec'[s].copy = exec[s].copy
             /\ \A t \in Slots \ {s} : exec'[t] = exec[t]
  BY <1>0, <1>o DEF Outcome, Slot
<1>c. exec[s].pc # "idle" => exec[s].n \in 1..ReadCap /\ Mine(s) \in Attempts
  BY <1>0, SlotUpdates DEF EarnInv, Counted, Mine, Attempts
<1>l. Leave(s) => \A p \in Attempts : pod'[p] = pod[p] \/ pod'[p] = NoPod
  BY <1>0 DEF Leave, Typed, TypeOK, Attempts
<1>q. ASSUME odd \subseteq odd',
             worker'.account = worker.account, worker'.confirmed = worker.confirmed,
             UNCHANGED <<cloud, tear, req>>, UNCHANGED pod \/ Leave(s),
             \A d \in Deploys : dep'[d] = dep[d] \/ Earned(dep'[d], d),
             \A t \in Slots \ {s} : exec'[t] = exec[t],
             Copied(s),
             exec'[s].pc # "idle" => exec'[s].n = exec[s].n /\ exec[s].pc # "idle",
             \/ exec'[s].row = exec[s].row /\ exec'[s].d = exec[s].d
             \/ Earned(exec'[s].row, exec'[s].d)
      PROVE  EarnInv'
  <2>1. Counted'
    BY <1>q DEF EarnInv, Counted
  <2>2. \A t \in Slots : /\ Copied(t)
                         /\ \/ exec'[t].row = exec[t].row /\ exec'[t].d = exec[t].d
                            \/ Earned(exec'[t].row, exec'[t].d)
    BY <1>q DEF Copied
  <2>3. \A p \in Attempts : pod'[p] = pod[p] \/ pod'[p] = NoPod
    BY <1>q, <1>l
  <2>4. \A q \in Requests :
          /\ Confirms(q)' => Confirms(q)
          /\ req'[q].pc = "persist" => req[q].pc = "persist" /\ req'[q].copy = req[q].copy
    BY <1>q DEF Confirms
  <2> QED
    BY <1>0, <1>q, <2>1, <2>2, <2>3, <2>4, QuietEarn
<1>s. \A st \in {"deploying", "failed", "none"} : \A d : Earned(st, d)
  BY DEF Earned
<1>1. CASE Load(s) \/ LoadFails(s) \/ MarkWorker(s) \/ FinishedWorker(s) \/ SaveRuntime(s)
  <2>1. UNCHANGED <<cloud, tear, req, pod, dep>> /\ odd \subseteq odd' /\ exec[s].pc # "idle"
    BY <1>1 DEF Load, LoadFails, MarkWorker, FinishedWorker, SaveRuntime, Note
  <2>2. worker'.account = worker.account /\ worker'.confirmed = worker.confirmed
    <3>1. CASE SaveRuntime(s)
      <4>1. PICK b : worker' = worker \/ worker' = [worker EXCEPT !.script = b]
        BY <3>1 DEF SaveRuntime
      <4> QED
        BY <1>0, <4>1 DEF Typed, TypeOK, Worker
    <3>2. CASE ~ SaveRuntime(s)
      <4>1. UNCHANGED worker \/ \E st : SetStatus(st)
        BY <1>1, <3>2 DEF Load, LoadFails, MarkWorker, FinishedWorker
      <4> QED
        BY <1>0, <4>1, StatusOnly
    <3> QED
      BY <3>1, <3>2
  <2>3. \E pc : To(s, pc)
    BY <1>1 DEF Load, LoadFails, MarkWorker, FinishedWorker, SaveRuntime
  <2> QED
    BY <1>t, <1>q, <2>1, <2>2, <2>3 DEF Copied
<1>2. CASE LoadWorker(s)
  <2>1. /\ exec'[s].copy = worker /\ exec'[s].d = exec[s].d /\ exec'[s].n = exec[s].n
        /\ exec'[s].row = exec[s].row /\ \A t \in Slots \ {s} : exec'[t] = exec[t]
    BY <1>0, <1>2 DEF LoadWorker, Slot
  <2> QED
    BY <1>2, <1>q, <2>1 DEF LoadWorker, Copied
<1>3. CASE Start(s) \/ Log(s)
  <2>1. UNCHANGED <<worker, cloud, tear, req, pod, odd>> /\ exec[s].pc # "idle"
        /\ Save(s, "deploying")
    BY <1>3 DEF Start, Log, Waits
  <2>2. /\ exec'[s].copy = exec[s].copy /\ exec'[s].d = exec[s].d /\ exec'[s].n = exec[s].n
        /\ exec'[s].row \in {exec[s].row, "deploying"} /\ \A t \in Slots \ {s} : exec'[t] = exec[t]
    BY <1>0, <1>3 DEF Start, Log, Slot
  <2>3. \A d \in Deploys : dep'[d] = dep[d] \/ dep'[d] = "deploying"
    BY <1>0, <2>1 DEF Save, Typed, TypeOK
  <2> QED
    BY <1>q, <1>s, <2>1, <2>2, <2>3 DEF Copied
<1>4. CASE Finished(s)
  <2>1. UNCHANGED <<worker, cloud, tear, req, pod>> /\ exec[s].pc # "idle"
        /\ odd \subseteq odd' /\ (UNCHANGED dep \/ Save(s, exec[s].row)) /\ To(s, "endWorker")
    BY <1>4 DEF Finished, Note
  <2>2. \A d \in Deploys : dep'[d] = dep[d] \/ (d = exec[s].d /\ dep'[d] = exec[s].row)
    BY <1>0, <2>1 DEF Save, Typed, TypeOK
  <2>3. Earned(exec[s].row, exec[s].d)
    <3>1. exec[s].row = "needs_confirmation" => ~ Nowhere
      BY DEF EarnInv, NothingPlaced
    <3>2. exec[s].row = "success" => exec[s].d \in cloud.by \/ "misread" \in odd
      BY DEF EarnInv, RanWrangler, Barring
    <3> QED
      BY <2>1, <3>1, <3>2 DEF Earned
  <2>4. \A d \in Deploys : dep'[d] = dep[d] \/ Earned(dep'[d], d)
    BY <2>2, <2>3
  <2> QED
    BY <1>t, <1>q, <2>1, <2>4 DEF Copied
<1>5. CASE Ack(s) \/ Nack(s)
  <2>1. UNCHANGED <<worker, cloud, tear, req, pod, dep>> /\ odd \subseteq odd'
        /\ exec' = [exec EXCEPT ![s] = FreeSlot]
    BY <1>5 DEF Ack, Nack, Note
  <2>2. FreeSlot.pc = "idle" /\ FreeSlot.row = "none" /\ FreeSlot.copy.account = NoAccount
        /\ FreeSlot.copy.confirmed = FALSE
    BY DEF FreeSlot, Fresh
  <2>3. exec'[s] = FreeSlot /\ \A t \in Slots \ {s} : exec'[t] = exec[t]
    BY <1>0, <2>1
  <2> QED
    BY <1>q, <1>s, <2>1, <2>2, <2>3 DEF Copied
<1>6. CASE Deployed(s) \/ Parked(s) \/ Misread(s) \/ WaitFails(s)
  <2>1. UNCHANGED <<worker, cloud, tear, req, dep>> /\ odd \subseteq odd' /\ Leave(s)
        /\ exec[s].pc = "wait"
    BY <1>6 DEF Deployed, Parked, Misread, WaitFails, Waits, Note
  <2>2. /\ exec'[s].d = exec[s].d /\ exec'[s].n = exec[s].n
        /\ exec'[s].copy.account = exec[s].copy.account
        /\ exec'[s].copy.confirmed = exec[s].copy.confirmed
        /\ \A t \in Slots \ {s} : exec'[t] = exec[t]
    <3>1. CASE Deployed(s)
      BY <1>0, <3>1 DEF Deployed, Slot, Worker
    <3>2. CASE ~ Deployed(s)
      BY <1>6, <1>o, <3>2 DEF Parked, Misread, WaitFails
    <3> QED
      BY <3>1, <3>2
  <2>3. Earned(exec'[s].row, exec[s].d)
    <3>1. CASE Deployed(s)
      <4>1. exec'[s].row = "success" /\ pod[Mine(s)].ph = "done"
        BY <1>0, <3>1 DEF Deployed, Slot, Phase
      <4>2. Mine(s)[1] = exec[s].d /\ Mine(s)[1] \in cloud.by
        BY <1>c, <2>1, <4>1 DEF EarnInv, RanWrangler, Mine
      <4> QED
        BY <4>1, <4>2 DEF Earned
    <3>2. CASE Parked(s)
      <4>1. exec'[s].row = "needs_confirmation" /\ pod[Mine(s)].ph = "paused"
        BY <1>o, <3>2 DEF Parked, Phase
      <4>2. ~ Nowhere
        BY <1>c, <2>1, <4>1 DEF EarnInv, NothingPlaced
      <4> QED
        BY <4>1, <4>2 DEF Earned
    <3>3. CASE Misread(s)
      BY <1>o, <3>3 DEF Misread, Note, Earned
    <3>4. CASE WaitFails(s)
      BY <1>o, <1>s, <3>4 DEF WaitFails
    <3> QED
      BY <1>6, <3>1, <3>2, <3>3, <3>4
  <2> QED
    BY <1>q, <2>1, <2>2, <2>3 DEF Copied
<1>7. CASE Resolve(s)
  <2>1. UNCHANGED <<worker, cloud, tear, req, dep, odd>> /\ exec[s].pc = "resolve"
    BY <1>7 DEF Resolve
  <2>2. CASE Outcome(s, "failed", "end") /\ UNCHANGED pod
    BY <1>o, <1>q, <1>s, <2>1, <2>2 DEF Copied
  <2>3. CASE ~ (Outcome(s, "failed", "end") /\ UNCHANGED pod)
    <3>1. PICK a, b : a = exec[s].copy.account /\ b = exec[s].copy.confirmed
      OBVIOUS
    <3> DEFINE new == [ph |-> "new", account |-> a, confirmed |-> b]
    <3>2. /\ a # NoAccount /\ To(s, "wait")
          /\ pod' = [pod EXCEPT ![<<exec[s].d, exec[s].n>>] = new]
      BY <1>7, <2>3, <3>1 DEF Resolve
    <3>3. \A p \in Attempts : pod'[p] = pod[p] \/ pod'[p] = new
      BY <1>0, <3>2 DEF Typed, TypeOK, Attempts
    <3>4. new.ph = "new" /\ new.account = a /\ new.confirmed = b
      OBVIOUS
    <3> HIDE DEF new
    <3>5. ~ Nowhere' /\ ~ Nowhere
      BY <2>1, <3>1, <3>2 DEF EarnInv, Nowhere, NothingPlaced, Barring
    <3>6. /\ exec'[s].copy = exec[s].copy /\ exec'[s].row = exec[s].row /\ exec'[s].n = exec[s].n
          /\ exec'[s].d = exec[s].d /\ \A t \in Slots \ {s} : exec'[t] = exec[t]
      BY <1>t, <3>2
    <3>7. Agreed'
      <4>1. Barring({"rewritten", "moved"}) => (b => a \in cloud.approved)
        BY <3>1 DEF EarnInv, Agreed
      <4> QED
        BY <2>1, <3>3, <3>4, <3>6, <4>1 DEF EarnInv, Agreed, Barring
    <3>8. Checked'
      BY <2>1, <3>3, <3>4 DEF EarnInv, Checked, Barring
    <3>9. RanWrangler'
      BY <2>1, <3>3, <3>4, <3>6 DEF EarnInv, RanWrangler, Barring
    <3>10. Counted'
      BY <2>1, <3>6 DEF EarnInv, Counted
    <3> QED
      BY <2>1, <3>5, <3>7, <3>8, <3>9, <3>10 DEF EarnInv
  <2> QED
    BY <2>2, <2>3
<1> QED
  BY <1>1, <1>2, <1>3, <1>4, <1>5, <1>6, <1>7 DEF JobNext

LEMMA EarnPod ==
  ASSUME AnswerInv, EarnInv, Typed', NEW p \in Attempts, Preflight(p) \/ Wrangler(p) \/ IdleOver(p)
  PROVE  EarnInv'
<1>0. Typed /\ UNCHANGED <<worker, dep, exec, req, tear>> /\ odd \subseteq odd'
  BY DEF AnswerInv, Preflight, Wrangler, IdleOver, Note
<1>1. pod[p].ph # "absent" /\ pod[p].account \in Accounts
  BY <1>0 DEF Preflight, Wrangler, IdleOver, Typed, Placed
<1>2. PICK a \in Accounts : a = pod[p].account
  BY <1>1
<1>d. PICK d : d = p[1]
  OBVIOUS
<1>r. cloud \in [bucket : SUBSET Accounts, script : SUBSET Accounts, by : SUBSET Deploys,
                approved : SUBSET Accounts]
  BY <1>0 DEF Typed, TypeOK
<1>3. ~ Nowhere /\ ~ Nowhere'
  BY <1>0, <1>1 DEF EarnInv, Nowhere, NothingPlaced, Barring
<1>4. PICK ph \in {"checked", "paused", "failed", "done", "exited"} : pod' = [pod EXCEPT ![p].ph = ph]
  BY DEF Preflight, Wrangler, IdleOver
<1>5. /\ \A q \in Attempts : pod'[q].account = pod[q].account /\ pod'[q].confirmed = pod[q].confirmed
      /\ \A q \in Attempts \ {p} : pod'[q] = pod[q]
      /\ pod'[p].ph = ph
  BY <1>0, <1>4 DEF Typed, TypeOK, Attempts, Pod
<1>6. /\ cloud.bucket \subseteq cloud'.bucket /\ cloud'.approved = cloud.approved
      /\ \/ cloud'.script = cloud.script /\ cloud'.by = cloud.by
         \/ /\ cloud'.script = cloud.script \cup {a} /\ cloud'.by = cloud.by \cup {p[1]}
            /\ pod[p].ph = "checked"
  <2>1. \/ UNCHANGED cloud
        \/ cloud' = [cloud EXCEPT !.bucket = @ \cup {a}]
        \/ cloud' = [cloud EXCEPT !.script = @ \cup {a}, !.by = @ \cup {d}] /\ pod[p].ph = "checked"
    BY <1>2, <1>d DEF Preflight, Wrangler, IdleOver
  <2>2. CASE UNCHANGED cloud
    BY <2>2
  <2>3. CASE cloud' = [cloud EXCEPT !.bucket = @ \cup {a}]
    BY <1>r, <2>3
  <2>4. CASE cloud' = [cloud EXCEPT !.script = @ \cup {a}, !.by = @ \cup {d}] /\ pod[p].ph = "checked"
    BY <1>r, <1>d, <2>4
  <2> QED
    BY <2>1, <2>2, <2>3, <2>4
<1>7. ph = "done" => p[1] \in cloud'.by
  <2>1. ph = "done" => Wrangler(p)
    <3>1. pod'[p].ph = ph
      BY <1>5
    <3>2. Preflight(p) => pod'[p].ph # "done"
      BY <1>0 DEF Preflight, Typed, TypeOK, Attempts, Pod
    <3>3. IdleOver(p) => pod'[p].ph # "done"
      BY <1>0 DEF IdleOver, Typed, TypeOK, Attempts, Pod
    <3> QED
      BY <3>1, <3>2, <3>3
  <2>2. Wrangler(p) /\ ph = "done" => cloud' = [cloud EXCEPT !.script = @ \cup {a}, !.by = @ \cup {d}]
    <3>1. pod' = [pod EXCEPT ![p].ph = "failed"] => pod'[p].ph = "failed"
      BY <1>0 DEF Typed, TypeOK, Attempts, Pod
    <3> QED
      BY <1>2, <1>5, <1>d, <3>1 DEF Wrangler
  <2>3. cloud' = [cloud EXCEPT !.script = @ \cup {a}, !.by = @ \cup {d}] => d \in cloud'.by
    BY <1>r
  <2> QED
    BY <1>d, <2>1, <2>2, <2>3
<1>8. Agreed'
  BY <1>0, <1>5, <1>6 DEF EarnInv, Agreed, Barring
<1>9. Checked'
  <2>1. ASSUME Barring({"unchecked", "moved", "rewritten"})', ph = "checked", a \in Preowned
        PROVE  a \in cloud.approved
    <3>1. Preflight(p)
      <4>1. Wrangler(p) => pod'[p].ph # "checked"
        BY <1>0 DEF Wrangler, Typed, TypeOK, Attempts, Pod
      <4>2. IdleOver(p) => pod'[p].ph # "checked"
        BY <1>0 DEF IdleOver, Typed, TypeOK, Attempts, Pod
      <4> QED
        BY <1>5, <2>1, <4>1, <4>2
    <3>2. Pass(p)
      <4>1. pod' = [pod EXCEPT ![p].ph = "failed"] => pod'[p].ph = "failed"
        BY <1>0 DEF Typed, TypeOK, Attempts, Pod
      <4>2. pod' = [pod EXCEPT ![p].ph = "paused"] => pod'[p].ph = "paused"
        BY <1>0 DEF Typed, TypeOK, Attempts, Pod
      <4>3. ~ Note("unchecked")
        BY <2>1 DEF Note, Barring
      <4> QED
        BY <1>5, <2>1, <3>1, <4>1, <4>2, <4>3 DEF Preflight
    <3>3. pod[p].confirmed
      BY <1>2, <2>1, <3>2 DEF Pass, EarnInv
    <3> QED
      BY <1>0, <1>2, <2>1, <3>3 DEF EarnInv, Agreed, Barring
  <2>2. Barring({"unchecked", "moved", "rewritten"})' => Barring({"unchecked", "moved", "rewritten"})
    BY <1>0 DEF Barring
  <2>3. Barring({"unchecked", "moved", "rewritten"})' =>
          cloud'.script \cap Preowned \subseteq cloud.approved
    BY <1>2, <1>6, <2>2 DEF EarnInv, Checked
  <2> QED
    BY <1>2, <1>5, <1>6, <2>1, <2>2, <2>3 DEF EarnInv, Checked
<1>10. RanWrangler'
  BY <1>0, <1>5, <1>6, <1>7 DEF EarnInv, RanWrangler, Barring
<1> QED
  BY <1>0, <1>3, <1>6, <1>8, <1>9, <1>10 DEF EarnInv, Counted

LEMMA EarnTime ==
  ASSUME AnswerInv, EarnInv, Typed',
         \/ \E d \in Deploys : \/ Redeliver(d) \/ RecoverList(d) \/ RecoverMark(d) \/ RecoverWorker(d)
                               \/ \E s \in Slots : Fetch(s, d)
         \/ \E a \in Accounts : Teardown(a)
         \/ Shutdown \/ Crash \/ UNCHANGED vars
  PROVE  EarnInv'
<1>0. Typed
  BY DEF AnswerInv
<1>q. ASSUME UNCHANGED <<pod, cloud, tear, req, exec>>, odd \subseteq odd',
             worker'.account = worker.account, worker'.confirmed = worker.confirmed,
             \A d \in Deploys : dep'[d] = dep[d] \/ dep'[d] = "failed"
      PROVE  EarnInv'
  <2>1. Counted' /\ \A s \in Slots : Copied(s)
    BY <1>q DEF EarnInv, Counted, Copied
  <2>2. \A q \in Requests :
          /\ Confirms(q)' => Confirms(q)
          /\ req'[q].pc = "persist" => req[q].pc = "persist" /\ req'[q].copy = req[q].copy
    BY <1>q DEF Confirms
  <2> QED
    BY <1>0, <1>q, <2>1, <2>2, QuietEarn DEF Earned
<1>x. ASSUME UNCHANGED <<worker, dep, pod, cloud, tear, req>>, odd \subseteq odd',
             \A s \in Slots :
               \/ /\ exec'[s].pc = exec[s].pc /\ exec'[s].n = exec[s].n /\ exec'[s].d = exec[s].d
                  /\ exec'[s].row = exec[s].row /\ exec'[s].copy = exec[s].copy
               \/ /\ exec'[s].copy = Fresh(NoAccount) /\ exec'[s].row = "none"
                  /\ exec'[s].pc # "idle" => exec'[s].n \in 1..ReadCap
      PROVE  EarnInv'
  <2>0. Fresh(NoAccount).account = NoAccount /\ Fresh(NoAccount).confirmed = FALSE
    BY DEF Fresh
  <2>1. Counted' /\ \A s \in Slots : Copied(s)
    BY <1>x, <2>0 DEF EarnInv, Counted, Copied
  <2>2. \A q \in Requests :
          /\ Confirms(q)' => Confirms(q)
          /\ req'[q].pc = "persist" => req[q].pc = "persist" /\ req'[q].copy = req[q].copy
    BY <1>x DEF Confirms
  <2>3. \A s \in Slots : \/ exec'[s].row = exec[s].row /\ exec'[s].d = exec[s].d
                         \/ Earned(exec'[s].row, exec'[s].d)
    BY <1>x DEF Earned
  <2> QED
    BY <1>0, <1>x, <2>1, <2>2, <2>3, QuietEarn
<1>1. ASSUME NEW d \in Deploys,
             Redeliver(d) \/ RecoverList(d) \/ RecoverMark(d) \/ RecoverWorker(d)
      PROVE  EarnInv'
  <2>1. UNCHANGED <<pod, cloud, tear, req, exec>> /\ odd \subseteq odd'
    BY <1>1 DEF Redeliver, RecoverList, RecoverMark, RecoverWorker, Note
  <2>2. UNCHANGED worker \/ \E st : SetStatus(st)
    BY <1>1 DEF Redeliver, RecoverList, RecoverMark, RecoverWorker
  <2>3. \A e \in Deploys : dep'[e] = dep[e] \/ dep'[e] = "failed"
    BY <1>0, <1>1 DEF Redeliver, RecoverList, RecoverMark, RecoverWorker, Typed, TypeOK
  <2> QED
    BY <1>0, <1>q, <2>1, <2>2, <2>3, StatusOnly
<1>2. ASSUME NEW d \in Deploys, NEW s \in Slots, Fetch(s, d) PROVE EarnInv'
  <2>1. queue[d].ct + 1 \in 1..ReadCap
    <3>1. queue[d].ct \in 0..ReadCap /\ queue[d].ct < ReadCap
      BY <1>0, <1>2 DEF Fetch, Queue!Read, Typed, TypeOK, Queue!Message
    <3> QED
      BY <3>1, WorkersAssumption
  <2>2. PICK n \in 1..ReadCap : n = queue[d].ct + 1
    BY <2>1
  <2>3. exec' = [exec EXCEPT ![s] = [FreeSlot EXCEPT !.pc = "load", !.d = d, !.n = n]]
    BY <1>2, <2>2 DEF Fetch
  <2>4. /\ exec'[s].copy = Fresh(NoAccount) /\ exec'[s].row = "none" /\ exec'[s].n = n
        /\ \A t \in Slots \ {s} : exec'[t] = exec[t]
    BY <1>0, <2>3 DEF Typed, TypeOK, FreeSlot
  <2>5. UNCHANGED <<worker, dep, pod, cloud, tear, req, odd>>
    BY <1>2 DEF Fetch
  <2> QED
    BY <1>x, <2>4, <2>5
<1>3. ASSUME NEW a \in Accounts, Teardown(a) PROVE EarnInv'
  <2>1. /\ UNCHANGED <<worker, dep, pod, exec, req>> /\ odd \subseteq odd' /\ tear' \subseteq tear
        /\ (UNCHANGED cloud \/ cloud' = [cloud EXCEPT !.script = @ \ {a}])
    BY <1>3 DEF Teardown, Note
  <2>2. /\ cloud'.bucket = cloud.bucket /\ cloud'.by = cloud.by /\ cloud'.approved = cloud.approved
        /\ cloud'.script \subseteq cloud.script
    BY <1>0, <2>1 DEF Typed, TypeOK
  <2>3. Nowhere' => NothingPlaced'
    <3>1. Nowhere' => Nowhere
      BY <2>1 DEF Nowhere, Barring
    <3> QED
      BY <2>1, <2>2, <3>1 DEF EarnInv, NothingPlaced, Confirms
  <2>4. Agreed' /\ Checked' /\ RanWrangler' /\ Counted'
    BY <2>1, <2>2 DEF EarnInv, Agreed, Checked, RanWrangler, Counted, Barring
  <2> QED
    BY <2>2, <2>3, <2>4 DEF EarnInv
<1>4. CASE Shutdown
  <2>1. UNCHANGED <<worker, dep, pod, cloud, tear, req>> /\ odd \subseteq odd'
    BY <1>4 DEF Shutdown, Note
  <2>2. \A s \in Slots :
          /\ exec'[s].pc = exec[s].pc /\ exec'[s].n = exec[s].n /\ exec'[s].d = exec[s].d
          /\ exec'[s].row = exec[s].row /\ exec'[s].copy = exec[s].copy
    BY <1>0, <1>4 DEF Shutdown, Typed, TypeOK, Slot
  <2> QED
    BY <1>x, <2>1, <2>2
<1>5. CASE Crash
  <2>1. UNCHANGED <<worker, dep, pod, cloud, tear, req>> /\ odd \subseteq odd'
    BY <1>5 DEF Crash
  <2>2. \A s \in Slots : exec'[s].copy = Fresh(NoAccount) /\ exec'[s].row = "none" /\ exec'[s].pc = "idle"
    BY <1>5 DEF Crash, FreeSlot
  <2> QED
    BY <1>x, <2>1, <2>2
<1>6. CASE UNCHANGED vars
  BY <1>6, <1>q DEF vars
<1> QED
  BY <1>1, <1>2, <1>3, <1>4, <1>5, <1>6

LEMMA EarnStep == AnswerInv /\ EarnInv /\ [Next]_vars => EarnInv'
<1> SUFFICES ASSUME AnswerInv, EarnInv, [Next]_vars PROVE EarnInv'
  OBVIOUS
<1>1. Typed' /\ DOMAIN pod = Attempts
  BY TypeStep DEF AnswerInv, Typed, TypeOK, Attempts
<1>2. CASE UNCHANGED vars
  BY <1>1, <1>2, EarnTime
<1>3. CASE Next
  BY <1>1, <1>3, EarnTrigger, EarnConfirm, EarnJob, EarnPod, EarnTime DEF Next
<1> QED
  BY <1>2, <1>3

(* A deployment that succeeded has run wrangler, unless the answer of its  *)
(* pod was misread; and where another application has the bucket, a script *)
(* uses it only after a user has agreed.                                   *)
THEOREM SuccessEarned == Spec => []SuccessIsEarned
<1>1. EarnInv => SuccessIsEarned
  BY DEF EarnInv, RanWrangler, Checked, SuccessIsEarned
<1> QED
  BY <1>1, AnswerInit, AnswerStep, EarnInit, EarnStep, PTL DEF Spec

-----------------------------------------------------------------------------
(* The lock *)

(* Who may still write the status of the worker, or its account of a       *)
(* deployment under way.                                                   *)
Holds(d) ==
  \/ dep[d] \in {"queued", "deploying"} \/ recov[d] = "worker"
  \/ \E s \in Slots : exec[s].pc = "endWorker" /\ exec[s].d = d
HoldsFor(r) == req[r].pc \in {"create", "restore"}
OneHolder ==
  /\ \A d, e \in Deploys : Holds(d) /\ Holds(e) => d = e
  /\ \A r, q \in Requests : HoldsFor(r) /\ HoldsFor(q) => r = q
  /\ \A r \in Requests, d \in Deploys : ~ (HoldsFor(r) /\ Holds(d))
  /\ (\E d \in Deploys : Holds(d)) \/ (\E r \in Requests : HoldsFor(r)) =>
       There /\ worker.status = "deploying"

(* What the jobs, the recoveries and the requests that give up rely on.    *)
Building(s) == exec[s].pc \in {"mark", "resolve", "wait", "runtime", "end"}
JobsHold ==
  \A s \in Slots :
    /\ ~ exec[s].cut
    /\ exec[s].pc \in {"loadWorker", "start"} => dep[exec[s].d] \in {"queued", "deploying"}
    /\ Building(s) => dep[exec[s].d] = "deploying"
    /\ exec[s].pc = "endWorker" => dep[exec[s].d] \in Done
RecoveriesHold ==
  \A d \in Deploys :
    recov[d] = "worker" => dep[d] \in Done /\ \A s \in Slots : Runs(s, d) => exec[s].pc # "endWorker"
UndoHolds ==
  \A r \in Requests :
    req[r].pc = "undo" => req[r].d # 0 /\ dep[req[r].d] = "queued" /\ ~ Queue!Sent(req[r].d)
Locked == OneHolder /\ JobsHold /\ RecoveriesHold /\ UndoHolds
LockInv == Barring({"rewritten", "overtaken", "halted"}) => Locked

(* Nobody begins to hold the lock, and nobody else takes it away.          *)
LEMMA LockKept ==
  ASSUME OneHolder,
         \A d \in Deploys : Holds(d)' => Holds(d),
         \A r \in Requests : HoldsFor(r)' => HoldsFor(r),
         There /\ worker.status = "deploying" => There' /\ worker'.status = "deploying"
  PROVE  OneHolder'
<1> HIDE DEF Holds, HoldsFor, There
<1> QED
  BY DEF OneHolder

LEMMA LockFree ==
  ASSUME \A d \in Deploys : ~ Holds(d)', \A r \in Requests : ~ HoldsFor(r)'
  PROVE  OneHolder'
<1> HIDE DEF Holds, HoldsFor, There
<1> QED
  BY DEF OneHolder

LEMMA LifeAndStatus ==
  ASSUME Typed
  PROVE  /\ \A st : SetStatus(st) => /\ There' = There
                                     /\ There => worker'.status = st
         /\ \A r \in Requests : Write(r) => There' = There /\ worker'.status = worker.status
         /\ \A r \in Requests : Persist(r) /\ "rewritten" \notin odd' =>
              There' = There /\ worker'.status = worker.status /\ worker'.script = worker.script
<1>0. worker \in Worker
  BY DEF Typed, TypeOK
<1>1. ASSUME NEW st, SetStatus(st) PROVE There' = There /\ (There => worker'.status = st)
  BY <1>0, <1>1 DEF SetStatus, There, Worker
<1>2. ASSUME NEW r \in Requests, Write(r) PROVE There' = There /\ worker'.status = worker.status
  <2>1. PICK a : worker' = worker \/ worker' = [worker EXCEPT !.account = a]
    BY <1>2 DEF Write
  <2> QED
    BY <1>0, <2>1 DEF There, Worker
<1>3. ASSUME NEW r \in Requests, Persist(r), "rewritten" \notin odd'
      PROVE  There' = There /\ worker'.status = worker.status /\ worker'.script = worker.script
  <2>1. PICK copy \in Worker :
          /\ worker' = IF There THEN copy ELSE worker
          /\ There => [copy EXCEPT !.confirmed = worker.confirmed] = worker
    <3>1. [req[r].copy EXCEPT !.confirmed = TRUE] \in Worker
      BY RequestUpdates, WorkerUpdates DEF Typed, TypeOK
    <3> QED
      BY <1>3, <3>1 DEF Persist, Rewrite, Note
  <2>2. /\ [copy EXCEPT !.confirmed = worker.confirmed].status = copy.status
        /\ [copy EXCEPT !.confirmed = worker.confirmed].script = copy.script
        /\ [copy EXCEPT !.confirmed = worker.confirmed].life = copy.life
    BY DEF Worker
  <2> QED
    BY <2>1, <2>2 DEF There
<1> QED
  BY <1>1, <1>2, <1>3

LEMMA LockRequest ==
  ASSUME AnswerInv, Typed', Locked, Barring({"rewritten", "overtaken", "halted"})',
         NEW r \in Requests, TriggerNext(r) \/ ConfirmNext(r) \/ OtherNext(r)
  PROVE  Locked'
<1>0. Typed /\ Asked(r) /\ UNCHANGED <<exec, recov>>
  BY DEF AnswerInv, TriggerNext, BeginDeploy, Begin, Mark, Create, CreateFails, EnqueueJob,
     EnqueueFails, UndoCreate, Restore, ConfirmNext, BeginConfirm, ReadLatest, Claim, Persist,
     PersistFails, ReadAgain, Finish, Revert, OtherNext, BeginEdit, BeginMove, Write, BeginDelete,
     Delete, Abort
<1>o. /\ \A s \in Slots : exec[s].d \in Deploys
      /\ \A q \in Requests : req[q].d \in Deploys \cup {0} /\ req[q].old \in Deploys \cup {0}
  BY <1>0, SlotUpdates, RequestUpdates DEF Typed, TypeOK
(* A step that leaves the rows and the messages alone.                     *)
<1>q. ASSUME UNCHANGED <<dep, queue>>, \A q \in Requests \ {r} : req'[q] = req[q],
             HoldsFor(r)' => HoldsFor(r),
             req'[r].pc = "undo" => req[r].pc = "undo" /\ req'[r].d = req[r].d,
             There /\ worker.status = "deploying" => There' /\ worker'.status = "deploying"
      PROVE  Locked'
  <2>1. OneHolder'
    BY <1>0, <1>q, LockKept DEF Locked, Holds, HoldsFor
  <2>2. JobsHold' /\ RecoveriesHold' /\ UndoHolds'
    BY <1>0, <1>q DEF Locked, JobsHold, RecoveriesHold, UndoHolds, Building, Runs, Queue!Sent
  <2> QED
    BY <2>1, <2>2 DEF Locked
<1>1. CASE BeginDeploy(r) \/ BeginConfirm(r) \/ BeginEdit(r) \/ BeginMove(r) \/ BeginDelete(r)
  <2>1. PICK op, pc, w : Begin(r, op, pc, w) /\ pc \in {"mark", "latest", "write", "delete"}
    <3>1. CASE BeginMove(r)
      <4>1. PICK a : Begin(r, "move", "write", [worker EXCEPT !.account = a])
        BY <3>1 DEF BeginMove
      <4> QED
        BY <4>1
    <3> QED
      BY <1>1, <3>1 DEF BeginDeploy, BeginConfirm, BeginEdit, BeginDelete
  <2>2. UNCHANGED <<worker, dep, queue>>
    BY <2>1 DEF Begin
  <2>3. req'[r].pc = pc /\ \A q \in Requests \ {r} : req'[q] = req[q]
    BY <1>0, <2>1, RequestMoves
  <2> QED
    BY <1>q, <2>1, <2>2, <2>3 DEF HoldsFor, There
<1>2. CASE Mark(r)
  <2>1. CASE ~ TryMark
    <3>1. UNCHANGED <<worker, dep, queue>> /\ (End(r) \/ Goto(r, "revert"))
      BY <1>2, <2>1 DEF Mark, Refused
    <3> QED
      BY <1>0, <1>q, <3>1, RequestMoves DEF HoldsFor, There
  <2>2. CASE TryMark
    <3>1. SetStatus("deploying") /\ Goto(r, "create") /\ UNCHANGED <<dep, queue>>
      BY <1>2, <2>2 DEF Mark
    <3>2. There' /\ worker'.status = "deploying"
      BY <1>0, <2>2, <3>1, LifeAndStatus DEF TryMark
    <3>3. (\A d \in Deploys : ~ Holds(d)) /\ (\A q \in Requests : ~ HoldsFor(q))
      BY <2>2 DEF TryMark, Locked, OneHolder
    <3>4. req'[r].pc = "create" /\ \A q \in Requests \ {r} : req'[q] = req[q]
      BY <1>0, <3>1, RequestMoves
    <3>5. (\A d \in Deploys : ~ Holds(d)') /\ (\A q \in Requests \ {r} : ~ HoldsFor(q)')
      BY <1>0, <3>1, <3>3, <3>4 DEF Holds, HoldsFor
    <3>6. OneHolder'
      BY <3>2, <3>5 DEF OneHolder
    <3>7. JobsHold' /\ RecoveriesHold' /\ UndoHolds'
      BY <1>0, <3>1, <3>4 DEF Locked, JobsHold, RecoveriesHold, UndoHolds, Building, Runs, Queue!Sent
    <3> QED
      BY <3>6, <3>7 DEF Locked
  <2> QED
    BY <2>1, <2>2
<1>3. CASE Create(r)
  <2>1. PICK d \in Deploys : /\ dep' = [dep EXCEPT ![d] = "queued"] /\ dep[d] = "none"
                             /\ req' = [req EXCEPT ![r].pc = "enqueue", ![r].d = d]
    BY <1>3 DEF Create, Spare
  <2>2. /\ dep'[d] = "queued" /\ \A e \in Deploys \ {d} : dep'[e] = dep[e]
        /\ req'[r].pc = "enqueue" /\ \A q \in Requests \ {r} : req'[q] = req[q]
        /\ UNCHANGED <<worker, queue>> /\ HoldsFor(r)
    BY <1>0, <1>3, <2>1 DEF Create, HoldsFor, Typed, TypeOK, Request
  <2>3. (\A e \in Deploys : ~ Holds(e)) /\ (\A q \in Requests \ {r} : ~ HoldsFor(q))
        /\ There /\ worker.status = "deploying"
    BY <2>2 DEF Locked, OneHolder
  <2>4. (\A e \in Deploys \ {d} : ~ Holds(e)') /\ (\A q \in Requests : ~ HoldsFor(q)')
    BY <1>0, <2>2, <2>3 DEF Holds, HoldsFor
  <2>5. OneHolder'
    <3> HIDE DEF Holds, HoldsFor
    <3> QED
      BY <2>2, <2>3, <2>4 DEF OneHolder, There
  <2>6. JobsHold' /\ RecoveriesHold'
    <3>1. \A s \in Slots : Works(s) => exec[s].d # d
      BY <1>o, <2>1 DEF AnswerInv, Leased, Works, Queue!Sent
    <3>2. \A s \in Slots : exec[s].pc = "endWorker" => exec[s].d # d
      BY <1>o, <2>1 DEF Locked, JobsHold, Done
    <3>3. recov[d] # "worker"
      BY <2>1 DEF Locked, RecoveriesHold, Done
    <3> QED
      BY <1>0, <1>o, <2>2, <3>1, <3>2, <3>3 DEF Locked, JobsHold, RecoveriesHold, Building, Works, Runs
  <2>7. UndoHolds'
    BY <1>0, <1>o, <2>1, <2>2, ZenonT(60) DEF Locked, UndoHolds, Queue!Sent
  <2> QED
    BY <2>5, <2>6, <2>7 DEF Locked
<1>4. CASE CreateFails(r)
  <2>1. UNCHANGED <<worker, dep, queue>> /\ Goto(r, "restore") /\ HoldsFor(r)
    BY <1>4 DEF CreateFails, HoldsFor
  <2> QED
    BY <1>0, <1>q, <2>1, RequestMoves DEF There
<1>5. CASE EnqueueJob(r) \/ EnqueueFails(r)
  <2> DEFINE d == req[r].d
  <2>1. /\ req[r].pc = "enqueue" /\ UNCHANGED <<worker, dep>>
        /\ d \in Deploys /\ dep[d] = "queued" /\ ~ Queue!Sent(d)
    BY <1>0, <1>5, <1>o DEF EnqueueJob, EnqueueFails, Asked
  <2>2. /\ \A q \in Requests \ {r} : req'[q] = req[q]
        /\ \/ /\ req'[r].pc \in {"free", "finish"}
              /\ \A e \in Deploys \ {d} : queue'[e] = queue[e]
           \/ req'[r].pc = "undo" /\ req'[r].d = d /\ queue' = queue
    <3>1. CASE EnqueueJob(r)
      <4>1. \A e \in Deploys \ {d} : queue'[e] = queue[e]
        BY <1>0, <3>1 DEF EnqueueJob, Queue!Enqueue, Typed, TypeOK
      <4> QED
        BY <1>0, <3>1, <4>1, RequestMoves DEF EnqueueJob
    <3>2. CASE EnqueueFails(r)
      BY <1>0, <3>2, RequestMoves DEF EnqueueFails, Note, Barring
    <3> QED
      BY <1>5, <3>1, <3>2
  <2>3. \A q \in Requests \ {r} : req[q].d # d
    BY <2>1, WorkersAssumption DEF AnswerInv, Apart
  <2>4. UndoHolds'
    <3> HIDE DEF d
    <3>1. ASSUME NEW q \in Requests \ {r}, req[q].pc = "undo"
          PROVE  req[q].d # 0 /\ dep'[req[q].d] = "queued" /\ queue'[req[q].d].st = "unsent"
      BY <1>o, <2>1, <2>2, <2>3, <3>1 DEF Locked, UndoHolds, Queue!Sent
    <3>2. req'[r].pc = "undo" => d # 0 /\ dep'[d] = "queued" /\ queue'[d].st = "unsent"
      BY <2>1, <2>2, WorkersAssumption DEF Queue!Sent
    <3> QED
      BY <2>2, <3>1, <3>2 DEF UndoHolds, Queue!Sent
  <2>5. OneHolder'
    BY <1>0, <2>1, <2>2, LockKept DEF Locked, Holds, HoldsFor, There
  <2>6. JobsHold' /\ RecoveriesHold'
    BY <1>0, <2>1 DEF Locked, JobsHold, RecoveriesHold, Building, Runs
  <2> QED
    BY <2>4, <2>5, <2>6 DEF Locked
<1>6. CASE UndoCreate(r)
  <2> DEFINE d == req[r].d
  <2>1. /\ d \in Deploys /\ dep[d] = "queued" /\ ~ Queue!Sent(d) /\ UNCHANGED <<worker, queue>>
        /\ dep'[d] = "failed" /\ \A e \in Deploys \ {d} : dep'[e] = dep[e]
    <3>1. d # 0 /\ dep[d] = "queued" /\ ~ Queue!Sent(d)
      BY <1>6 DEF UndoCreate, Locked, UndoHolds
    <3> QED
      BY <1>0, <1>o, <1>6, <3>1 DEF UndoCreate, Typed, TypeOK
  <2>2. req'[r].pc = "restore" /\ req'[r].d = d /\ \A q \in Requests \ {r} : req'[q] = req[q]
    BY <1>0, <1>6, RequestMoves DEF UndoCreate
  <2>3. \A q \in Requests \ {r} : req[q].d # d
    BY <2>1, WorkersAssumption DEF AnswerInv, Apart
  <2> HIDE DEF d
  <2>4. /\ Holds(d) /\ (\A e \in Deploys \ {d} : ~ Holds(e)) /\ (\A q \in Requests : ~ HoldsFor(q))
        /\ There /\ worker.status = "deploying"
    <3>1. Holds(d)
      BY <2>1 DEF Holds
    <3> QED
      BY <2>1, <3>1 DEF Locked, OneHolder
  <2>5. recov[d] # "worker" /\ \A s \in Slots : exec[s].d = d => exec[s].pc \notin {"endWorker"} /\ ~ Works(s)
    BY <2>1 DEF Locked, RecoveriesHold, JobsHold, Done, AnswerInv, Leased, Works, Queue!Sent
  <2>6. (\A e \in Deploys : ~ Holds(e)') /\ (\A q \in Requests \ {r} : ~ HoldsFor(q)')
    BY <1>0, <2>1, <2>2, <2>4, <2>5 DEF Holds, HoldsFor
  <2>7. OneHolder'
    <3> HIDE DEF Holds, HoldsFor
    <3> QED
      BY <2>1, <2>4, <2>6 DEF OneHolder, There
  <2>8. JobsHold' /\ RecoveriesHold'
    BY <1>0, <1>o, <2>1, <2>5 DEF Locked, JobsHold, RecoveriesHold, Building, Works, Runs
  <2>9. UndoHolds'
    BY <1>o, <2>1, <2>2, <2>3 DEF Locked, UndoHolds, Queue!Sent
  <2> QED
    BY <2>7, <2>8, <2>9 DEF Locked
<1>7. CASE Restore(r)
  <2>1. HoldsFor(r) /\ UNCHANGED <<dep, queue>> /\ (End(r) \/ Goto(r, "revert"))
    BY <1>7 DEF Restore, HoldsFor, Refused
  <2>2. (\A e \in Deploys : ~ Holds(e)) /\ (\A q \in Requests \ {r} : ~ HoldsFor(q))
    BY <2>1 DEF Locked, OneHolder
  <2>3. req'[r].pc \in {"free", "revert"} /\ \A q \in Requests \ {r} : req'[q] = req[q]
    BY <1>0, <2>1, RequestMoves
  <2>4. (\A e \in Deploys : ~ Holds(e)') /\ (\A q \in Requests : ~ HoldsFor(q)')
    BY <1>0, <2>1, <2>2, <2>3 DEF Holds, HoldsFor
  <2>5. OneHolder'
    BY <2>4, LockFree
  <2>6. JobsHold' /\ RecoveriesHold' /\ UndoHolds'
    BY <1>0, <2>1, <2>3 DEF Locked, JobsHold, RecoveriesHold, UndoHolds, Building, Runs, Queue!Sent
  <2> QED
    BY <2>5, <2>6 DEF Locked
<1>8. CASE ReadLatest(r) \/ ReadAgain(r) \/ Persist(r) \/ PersistFails(r) \/ Write(r)
  <2>1. UNCHANGED <<dep, queue>>
    BY <1>8 DEF ReadLatest, ReadAgain, Persist, PersistFails, Write
  <2>2. (\A q \in Requests \ {r} : req'[q] = req[q])
        /\ req'[r].pc \in {"free", "claim", "mark", "revert", "read"}
    <3>1. CASE ReadLatest(r) /\ ~ End(r)
      <4>1. PICK d : req' = [req EXCEPT ![r].pc = "claim", ![r].old = d]
        BY <3>1 DEF ReadLatest
      <4> QED
        BY <1>0, <4>1 DEF Typed, TypeOK, Request
    <3>2. CASE ReadAgain(r)
      <4>1. PICK pc \in {"mark", "revert"} : req' = [req EXCEPT ![r].pc = pc, ![r].copy = worker]
        BY <3>2 DEF ReadAgain
      <4>2. req'[r].pc = pc /\ \A q \in Requests \ {r} : req'[q] = req[q]
        BY <1>0, <4>1 DEF Typed, TypeOK, Request
      <4> QED
        BY <4>2
    <3>3. CASE End(r) \/ Goto(r, "read") \/ Goto(r, "revert")
      BY <1>0, <3>3, RequestMoves
    <3> QED
      BY <1>8, <3>1, <3>2, <3>3 DEF ReadLatest, Persist, PersistFails, Write
  <2>3. There' = There /\ worker'.status = worker.status
    <3>1. CASE Persist(r) \/ Write(r)
      BY <1>0, <3>1, LifeAndStatus DEF Barring
    <3>2. CASE ~ (Persist(r) \/ Write(r))
      BY <1>8, <3>2 DEF ReadLatest, ReadAgain, PersistFails, There
    <3> QED
      BY <3>1, <3>2
  <2> QED
    BY <1>q, <2>1, <2>2, <2>3 DEF HoldsFor
<1>9. CASE Claim(r) \/ Finish(r) \/ Revert(r)
  <2> DEFINE d == req[r].old
  <2>1. /\ UNCHANGED <<worker, queue>> /\ (End(r) \/ Goto(r, "persist"))
        /\ \/ UNCHANGED dep
           \/ /\ d \in Deploys /\ dep[d] \in Done
              /\ dep'[d] \in Done /\ \A e \in Deploys \ {d} : dep'[e] = dep[e]
    <3>1. d # 0 /\ d \in Deploys
      BY <1>0, <1>9, <1>o DEF Claim, Finish, Revert, Asked
    <3>2. CASE Claim(r)
      <4>1. UNCHANGED <<worker, queue>> /\ (End(r) \/ Goto(r, "persist"))
            /\ (UNCHANGED dep \/ (dep[d] = "needs_confirmation" /\ dep' = [dep EXCEPT ![d] = "cancelled"]))
        BY <3>2 DEF Claim, Claimable
      <4> QED
        BY <1>0, <3>1, <4>1 DEF Typed, TypeOK, Done
    <3>3. CASE Finish(r) \/ Revert(r)
      <4>1. /\ UNCHANGED <<worker, queue>> /\ End(r)
            /\ \E st \in {"cancelled", "needs_confirmation"} : dep' = [dep EXCEPT ![d] = st]
        BY <3>3 DEF Finish, Revert
      <4>2. dep[d] \in {"cancelled", "failed"}
        BY <1>0, <3>1, <3>3 DEF Finish, Revert, Asked, Confirms
      <4> QED
        BY <1>0, <3>1, <4>1, <4>2 DEF Typed, TypeOK, Done
    <3> QED
      BY <1>9, <3>2, <3>3
  <2>2. req'[r].pc \in {"free", "persist"} /\ \A q \in Requests \ {r} : req'[q] = req[q]
    BY <1>0, <2>1, RequestMoves
  <2>3. CASE UNCHANGED dep
    BY <1>q, <2>1, <2>2, <2>3 DEF HoldsFor, There
  <2>4. CASE ~ UNCHANGED dep
    <3> HIDE DEF d
    <3>1. \A e \in Deploys : Holds(e)' => Holds(e)
      BY <1>0, <2>1, <2>4 DEF Holds, Done
    <3>2. OneHolder'
      BY <2>1, <2>2, <3>1, LockKept DEF Locked, HoldsFor, There
    <3>3. \A s \in Slots : Building(s) \/ exec[s].pc \in {"loadWorker", "start"} => exec[s].d # d
      BY <1>o, <2>1, <2>4 DEF Locked, JobsHold, Done
    <3>4. JobsHold' /\ RecoveriesHold'
      BY <1>0, <1>o, <2>1, <2>4, <3>3 DEF Locked, JobsHold, RecoveriesHold, Building, Runs
    <3>5. UndoHolds'
      BY <1>o, <2>1, <2>2, <2>4 DEF Locked, UndoHolds, Queue!Sent, Done
    <3> QED
      BY <3>2, <3>4, <3>5 DEF Locked
  <2> QED
    BY <2>3, <2>4
<1>10. CASE Delete(r)
  <2>1. UNCHANGED <<dep, queue>> /\ End(r)
    BY <1>10 DEF Delete
  <2>2. req'[r].pc = "free" /\ \A q \in Requests \ {r} : req'[q] = req[q]
    BY <1>0, <2>1, RequestMoves
  <2>3. There /\ worker.status = "deploying" => There' /\ worker'.status = "deploying"
    BY <1>10 DEF Delete, Deletable, There
  <2> QED
    BY <1>q, <2>1, <2>2, <2>3 DEF HoldsFor
<1>11. CASE Abort(r)
  BY <1>11 DEF Abort, Note, Barring
<1> QED
  BY <1>1, <1>2, <1>3, <1>4, <1>5, <1>6, <1>7, <1>8, <1>9, <1>10, <1>11
     DEF TriggerNext, ConfirmNext, OtherNext

LEMMA SlotMoves ==
  ASSUME Typed, NEW s \in Slots
  PROVE  /\ \A pc : To(s, pc) =>
              /\ exec'[s].pc = pc /\ exec'[s].d = exec[s].d /\ exec'[s].n = exec[s].n
              /\ exec'[s].row = exec[s].row /\ exec'[s].copy = exec[s].copy
              /\ exec'[s].cut = exec[s].cut /\ \A t \in Slots \ {s} : exec'[t] = exec[t]
         /\ \A pc, st : Outcome(s, st, pc) =>
              /\ exec'[s].pc = pc /\ exec'[s].d = exec[s].d /\ exec'[s].n = exec[s].n
              /\ exec'[s].row = st /\ exec'[s].copy = exec[s].copy
              /\ exec'[s].cut = exec[s].cut /\ \A t \in Slots \ {s} : exec'[t] = exec[t]
         /\ Deployed(s) =>
              /\ exec'[s].pc = "runtime" /\ exec'[s].d = exec[s].d /\ exec'[s].n = exec[s].n
              /\ exec'[s].row = "success" /\ exec'[s].copy.account = exec[s].copy.account
              /\ exec'[s].copy.script = TRUE
              /\ exec'[s].cut = exec[s].cut /\ \A t \in Slots \ {s} : exec'[t] = exec[t]
         /\ Start(s) =>
              /\ exec'[s].pc = "mark" /\ exec'[s].d = exec[s].d /\ exec'[s].n = exec[s].n
              /\ exec'[s].row = "deploying" /\ exec'[s].copy = exec[s].copy
              /\ exec'[s].cut = exec[s].cut /\ \A t \in Slots \ {s} : exec'[t] = exec[t]
         /\ LoadWorker(s) =>
              /\ exec'[s].pc = "start" /\ exec'[s].d = exec[s].d /\ exec'[s].n = exec[s].n
              /\ exec'[s].row = exec[s].row /\ exec'[s].copy = worker
              /\ exec'[s].cut = exec[s].cut /\ \A t \in Slots \ {s} : exec'[t] = exec[t]
         /\ Ack(s) \/ Nack(s) =>
              /\ exec'[s] = FreeSlot /\ FreeSlot.pc = "idle" /\ FreeSlot.cut = FALSE
              /\ FreeSlot.copy.account = NoAccount
              /\ \A t \in Slots \ {s} : exec'[t] = exec[t]
<1>0. exec \in [Slots -> Slot] /\ exec[s].copy \in Worker
  BY SlotUpdates DEF Typed, TypeOK
<1>1. ASSUME NEW pc, To(s, pc)
      PROVE  /\ exec'[s].pc = pc /\ exec'[s].d = exec[s].d /\ exec'[s].n = exec[s].n
             /\ exec'[s].row = exec[s].row /\ exec'[s].copy = exec[s].copy
             /\ exec'[s].cut = exec[s].cut /\ \A t \in Slots \ {s} : exec'[t] = exec[t]
  BY <1>0, <1>1 DEF To, Slot
<1>2. ASSUME NEW pc, NEW st, Outcome(s, st, pc)
      PROVE  /\ exec'[s].pc = pc /\ exec'[s].d = exec[s].d /\ exec'[s].n = exec[s].n
             /\ exec'[s].row = st /\ exec'[s].copy = exec[s].copy
             /\ exec'[s].cut = exec[s].cut /\ \A t \in Slots \ {s} : exec'[t] = exec[t]
  BY <1>0, <1>2 DEF Outcome, Slot
<1>3. ASSUME Deployed(s)
      PROVE  /\ exec'[s].pc = "runtime" /\ exec'[s].d = exec[s].d /\ exec'[s].n = exec[s].n
             /\ exec'[s].row = "success" /\ exec'[s].copy.account = exec[s].copy.account
             /\ exec'[s].copy.script = TRUE
             /\ exec'[s].cut = exec[s].cut /\ \A t \in Slots \ {s} : exec'[t] = exec[t]
  BY <1>0, <1>3 DEF Deployed, Slot, Worker
<1>4. ASSUME Start(s)
      PROVE  /\ exec'[s].pc = "mark" /\ exec'[s].d = exec[s].d /\ exec'[s].n = exec[s].n
             /\ exec'[s].row = "deploying" /\ exec'[s].copy = exec[s].copy
             /\ exec'[s].cut = exec[s].cut /\ \A t \in Slots \ {s} : exec'[t] = exec[t]
  BY <1>0, <1>4 DEF Start, Slot
<1>5. ASSUME LoadWorker(s)
      PROVE  /\ exec'[s].pc = "start" /\ exec'[s].d = exec[s].d /\ exec'[s].n = exec[s].n
             /\ exec'[s].row = exec[s].row /\ exec'[s].copy = worker
             /\ exec'[s].cut = exec[s].cut /\ \A t \in Slots \ {s} : exec'[t] = exec[t]
  BY <1>0, <1>5 DEF LoadWorker, Slot
<1>6. ASSUME Ack(s) \/ Nack(s)
      PROVE  /\ exec'[s] = FreeSlot /\ FreeSlot.pc = "idle" /\ FreeSlot.cut = FALSE
             /\ FreeSlot.copy.account = NoAccount
             /\ \A t \in Slots \ {s} : exec'[t] = exec[t]
  <2>1. exec' = [exec EXCEPT ![s] = FreeSlot]
    BY <1>6 DEF Ack, Nack
  <2>2. FreeSlot.pc = "idle" /\ FreeSlot.cut = FALSE /\ FreeSlot.copy.account = NoAccount
    BY DEF FreeSlot, Fresh
  <2> QED
    BY <1>0, <2>1, <2>2
<1> QED
  BY <1>1, <1>2, <1>3, <1>4, <1>5, <1>6

LEMMA LockJob ==
  ASSUME AnswerInv, Typed', Locked, Barring({"rewritten", "overtaken", "halted"})',
         NEW s \in Slots, JobNext(s)
  PROVE  Locked'
<1>0. Typed /\ UNCHANGED <<req, recov>>
  BY DEF AnswerInv, JobNext, Load, LoadWorker, LoadFails, Start, MarkWorker, Resolve, Log,
     Deployed, Parked, Misread, WaitFails, SaveRuntime, Finished, FinishedWorker, Ack, Nack
<1>c. ~ exec[s].cut
  BY DEF Locked, JobsHold
<1>d. PICK d \in Deploys : d = exec[s].d
  BY <1>0, SlotUpdates DEF Typed, TypeOK
<1>o. /\ \A t \in Slots : exec[t].d \in Deploys
      /\ \A q \in Requests : req[q].d \in Deploys \cup {0}
  BY <1>0, SlotUpdates, RequestUpdates DEF Typed, TypeOK
<1>a. exec[s].pc # "idle" => \A t \in Slots \ {s} : exec[t].pc # "idle" => exec[t].d # d
  BY <1>d DEF AnswerInv, Leased
<1>u. \A q \in Requests : exec[s].pc # "idle" /\ req[q].pc = "undo" => req[q].d # d
  BY <1>d DEF AnswerInv, Leased, Locked, UndoHolds, Queue!Sent
(* What the step leaves of the queue does not matter to the lock.          *)
<1>q. ASSUME UNCHANGED queue \/ exec[s].pc \in {"ack", "nack"},
             There /\ worker.status = "deploying" => There' /\ worker'.status = "deploying",
             \A e \in Deploys \ {d} : dep'[e] = dep[e],
             \A t \in Slots \ {s} : exec'[t] = exec[t],
             exec[s].pc # "idle", ~ exec'[s].cut,
             dep'[d] \in {"queued", "deploying"} \/ exec'[s].pc = "endWorker" => Holds(d),
             exec'[s].pc = "idle" \/ exec'[s].d = d,
             exec'[s].pc \in {"loadWorker", "start"} => dep'[d] \in {"queued", "deploying"},
             Building(s)' => dep'[d] = "deploying",
             exec'[s].pc = "endWorker" => dep'[d] \in Done /\ recov[d] # "worker",
             recov[d] = "worker" => dep'[d] \in Done
      PROVE  Locked'
  <2>1. \A e \in Deploys : Holds(e)' => Holds(e)
    BY <1>0, <1>q DEF Holds
  <2>2. OneHolder'
    BY <1>0, <1>q, <2>1, LockKept DEF Locked, HoldsFor
  <2>3. JobsHold'
    <3>1. ASSUME NEW t \in Slots \ {s}
          PROVE  /\ ~ exec'[t].cut
                 /\ exec'[t].pc \in {"loadWorker", "start"} => dep'[exec'[t].d] \in {"queued", "deploying"}
                 /\ Building(t)' => dep'[exec'[t].d] = "deploying"
                 /\ exec'[t].pc = "endWorker" => dep'[exec'[t].d] \in Done
      BY <1>a, <1>o, <1>q DEF Locked, JobsHold, Building
    <3>2. /\ ~ exec'[s].cut
          /\ exec'[s].pc \in {"loadWorker", "start"} => dep'[exec'[s].d] \in {"queued", "deploying"}
          /\ Building(s)' => dep'[exec'[s].d] = "deploying"
          /\ exec'[s].pc = "endWorker" => dep'[exec'[s].d] \in Done
      BY <1>q DEF Building
    <3> QED
      BY <3>1, <3>2 DEF JobsHold
  <2>4. RecoveriesHold'
    BY <1>0, <1>q DEF Locked, RecoveriesHold, Runs
  <2>5. UndoHolds'
    <3>1. \A e \in Deploys \ {d} : queue'[e] = queue[e]
      BY <1>0, <1>d, <1>q DEF JobNext, Ack, Nack, Queue!Delete, Queue!Archive, Load, LoadWorker,
         LoadFails, Start, MarkWorker, Resolve, Log, Deployed, Parked, Misread, WaitFails,
         SaveRuntime, Finished, FinishedWorker, Typed, TypeOK
    <3> QED
      BY <1>0, <1>o, <1>q, <1>u, <3>1 DEF Locked, UndoHolds, Queue!Sent
  <2> QED
    BY <2>2, <2>3, <2>4, <2>5 DEF Locked
<1>w. \A st : exec[s].pc # "idle" /\ SetStatus(st) => There' = There
  BY <1>0, LifeAndStatus
<1>r. exec[s].pc \in {"loadWorker", "start"} \/ Building(s) =>
        recov[d] # "worker" /\ dep[d] \in {"queued", "deploying"} /\ Holds(d)
  BY <1>d DEF Locked, JobsHold, RecoveriesHold, Done, Holds
<1>v. recov[d] = "worker" => dep[d] \in Done
  BY DEF Locked, RecoveriesHold
<1>1. CASE Load(s)
  <2>1. PICK pc \in {"ack", "loadWorker"} :
          /\ To(s, pc) /\ (pc = "loadWorker" => dep[d] \notin Done)
          /\ UNCHANGED <<worker, dep, queue>> /\ exec[s].pc = "load"
    BY <1>1, <1>d DEF Load
  <2>2. /\ exec'[s].pc = pc /\ exec'[s].d = d /\ ~ exec'[s].cut
        /\ \A t \in Slots \ {s} : exec'[t] = exec[t]
    BY <1>0, <1>c, <1>d, <2>1, SlotMoves
  <2>3. dep[d] # "none" /\ dep[d] \in Status
    BY <1>0, <1>d, <2>1 DEF AnswerInv, Leased, Queue!Sent, Typed, TypeOK
  <2> QED
    BY <1>q, <1>v, <2>1, <2>2, <2>3 DEF Building, Holds, Status, There
<1>2. CASE LoadWorker(s)
  BY <1>0, <1>c, <1>d, <1>q, <1>r, <1>2, SlotMoves DEF LoadWorker, Building, There
<1>3. CASE LoadFails(s)
  <2>1. /\ UNCHANGED <<worker, dep, queue>> /\ exec[s].pc \in {"load", "loadWorker"} /\ To(s, "nack")
    BY <1>3 DEF LoadFails
  <2>2. /\ exec'[s].pc = "nack" /\ exec'[s].d = d /\ ~ exec'[s].cut
        /\ \A t \in Slots \ {s} : exec'[t] = exec[t]
    BY <1>0, <1>c, <1>d, <2>1, SlotMoves
  <2> QED
    BY <1>q, <1>v, <2>1, <2>2 DEF Building, Holds, There
<1>4. CASE Start(s) \/ Log(s)
  <2>1. /\ UNCHANGED <<worker, queue>> /\ (exec[s].pc = "start" \/ Building(s))
        /\ dep' = [dep EXCEPT ![d] = "deploying"]
    BY <1>4, <1>c, <1>d DEF Start, Log, Save, Waits, Building
  <2>2. dep'[d] = "deploying" /\ \A e \in Deploys \ {d} : dep'[e] = dep[e]
    BY <1>0, <2>1 DEF Typed, TypeOK
  <2>3. /\ exec'[s].pc \in {"mark", "wait"} /\ exec'[s].d = d /\ ~ exec'[s].cut
        /\ \A t \in Slots \ {s} : exec'[t] = exec[t]
    BY <1>0, <1>c, <1>d, <1>4, SlotMoves DEF Log, Waits
  <2> QED
    BY <1>q, <1>r, <2>1, <2>2, <2>3 DEF Building, There
<1>5. CASE MarkWorker(s)
  <2>1. /\ UNCHANGED <<dep, queue>> /\ exec[s].pc = "mark" /\ To(s, "resolve")
        /\ (UNCHANGED worker \/ SetStatus("deploying"))
    BY <1>5 DEF MarkWorker
  <2>2. /\ exec'[s].pc = "resolve" /\ exec'[s].d = d /\ ~ exec'[s].cut
        /\ \A t \in Slots \ {s} : exec'[t] = exec[t]
    BY <1>0, <1>c, <1>d, <2>1, SlotMoves
  <2>3. There /\ worker.status = "deploying" => There' /\ worker'.status = "deploying"
    BY <1>0, <2>1, LifeAndStatus DEF There
  <2>4. dep[d] = "deploying" /\ recov[d] # "worker" /\ Holds(d)
    BY <1>d, <1>r, <2>1 DEF Locked, JobsHold, Building
  <2> QED
    BY <1>q, <2>1, <2>2, <2>3, <2>4 DEF Building
<1>6. CASE Resolve(s) \/ Deployed(s) \/ Parked(s) \/ Misread(s) \/ WaitFails(s) \/ SaveRuntime(s)
  <2>1. UNCHANGED <<dep, queue>> /\ Building(s)
    BY <1>6 DEF Resolve, Deployed, Parked, Misread, WaitFails, SaveRuntime, Waits, Building
  <2>2. /\ exec'[s].pc \in {"wait", "end", "runtime"} /\ exec'[s].d = d /\ ~ exec'[s].cut
        /\ \A t \in Slots \ {s} : exec'[t] = exec[t]
    BY <1>0, <1>c, <1>d, <1>6, SlotMoves, ZenonT(60) DEF Resolve, Parked, Misread, WaitFails, SaveRuntime
  <2>3. There /\ worker.status = "deploying" => There' /\ worker'.status = "deploying"
    <3>1. CASE SaveRuntime(s)
      <4>1. PICK b : worker' = worker \/ worker' = [worker EXCEPT !.script = b]
        BY <3>1 DEF SaveRuntime
      <4> QED
        BY <1>0, <4>1 DEF There, Typed, TypeOK, Worker
    <3>2. CASE ~ SaveRuntime(s)
      BY <1>6, <3>2 DEF Resolve, Deployed, Parked, Misread, WaitFails, There
    <3> QED
      BY <3>1, <3>2
  <2>4. dep[d] = "deploying" /\ recov[d] # "worker" /\ Holds(d)
    BY <1>d, <1>r, <2>1 DEF Locked, JobsHold
  <2>5. exec[s].pc # "idle" /\ exec'[s].pc # "endWorker"
    BY <2>1, <2>2 DEF Building
  <2> QED
    BY <1>q, <2>1, <2>2, <2>3, <2>4, <2>5
<1>7. CASE Finished(s)
  <2>1. /\ UNCHANGED <<worker, queue>> /\ exec[s].pc = "end" /\ To(s, "endWorker")
        /\ dep' = [dep EXCEPT ![d] = exec[s].row]
    BY <1>7, <1>c, <1>d DEF Finished, Save, Note, Barring
  <2>2. exec[s].row \in Done
    BY <2>1 DEF AnswerInv, Writes, Done
  <2>3. dep'[d] \in Done /\ \A e \in Deploys \ {d} : dep'[e] = dep[e]
    BY <1>0, <2>1, <2>2 DEF Typed, TypeOK
  <2>4. /\ exec'[s].pc = "endWorker" /\ exec'[s].d = d /\ ~ exec'[s].cut
        /\ \A t \in Slots \ {s} : exec'[t] = exec[t]
    BY <1>0, <1>c, <1>d, <2>1, SlotMoves
  <2>5. recov[d] # "worker" /\ Holds(d)
    BY <1>r, <2>1 DEF Building
  <2> QED
    BY <1>q, <2>1, <2>3, <2>4, <2>5 DEF Building, There
<1>8. CASE FinishedWorker(s)
  <2>1. /\ UNCHANGED <<dep, queue>> /\ exec[s].pc = "endWorker" /\ To(s, "ack")
    BY <1>8 DEF FinishedWorker
  <2>2. /\ exec'[s].pc = "ack" /\ exec'[s].d = d /\ ~ exec'[s].cut
        /\ \A t \in Slots \ {s} : exec'[t] = exec[t]
    BY <1>0, <1>c, <1>d, <2>1, SlotMoves
  <2>3. Holds(d) /\ dep[d] \in Done /\ recov[d] # "worker"
    BY <1>d, <2>1 DEF Holds, Locked, JobsHold, RecoveriesHold, Runs
  <2>4. (\A e \in Deploys \ {d} : ~ Holds(e)) /\ (\A q \in Requests : ~ HoldsFor(q))
    BY <2>3 DEF Locked, OneHolder
  <2>5. (\A e \in Deploys : ~ Holds(e)') /\ (\A q \in Requests : ~ HoldsFor(q)')
    BY <1>0, <1>a, <2>1, <2>2, <2>3, <2>4 DEF Holds, HoldsFor, Done
  <2>6. OneHolder'
    BY <2>5, LockFree
  <2>7. JobsHold' /\ RecoveriesHold' /\ UndoHolds'
    BY <1>0, <2>1, <2>2 DEF Locked, JobsHold, RecoveriesHold, UndoHolds, Building, Runs, Queue!Sent
  <2> QED
    BY <2>6, <2>7 DEF Locked
<1>9. CASE Ack(s) \/ Nack(s)
  <2>1. UNCHANGED <<worker, dep>> /\ exec[s].pc \in {"ack", "nack"}
    BY <1>9 DEF Ack, Nack
  <2>2. exec'[s].pc = "idle" /\ ~ exec'[s].cut /\ \A t \in Slots \ {s} : exec'[t] = exec[t]
    BY <1>0, <1>9, SlotMoves
  <2> QED
    BY <1>q, <1>v, <2>1, <2>2 DEF Building, Holds, There
<1> QED
  BY <1>1, <1>2, <1>3, <1>4, <1>5, <1>6, <1>7, <1>8, <1>9 DEF JobNext

LEMMA LockTime ==
  ASSUME AnswerInv, Typed', Locked, Barring({"rewritten", "overtaken", "halted"})',
         \/ \E d \in Deploys : \/ Redeliver(d) \/ RecoverList(d) \/ RecoverMark(d) \/ RecoverWorker(d)
                               \/ \E s \in Slots : Fetch(s, d)
         \/ \E p \in DOMAIN pod : Preflight(p) \/ Wrangler(p) \/ IdleOver(p)
         \/ \E a \in Accounts : Teardown(a)
         \/ Shutdown \/ Crash \/ UNCHANGED vars
  PROVE  Locked'
<1>0. Typed /\ UNCHANGED req
  BY DEF AnswerInv, Redeliver, RecoverList, RecoverMark, RecoverWorker, Fetch, Preflight, Wrangler,
     IdleOver, Teardown, Shutdown, Crash, vars
<1>o. /\ \A t \in Slots : exec[t].d \in Deploys
      /\ \A q \in Requests : req[q].d \in Deploys \cup {0}
  BY <1>0, SlotUpdates, RequestUpdates DEF Typed, TypeOK
<1>q. ASSUME UNCHANGED <<worker, dep>>, \A d \in Deploys : (queue'[d].st # "unsent") => Queue!Sent(d),
             \A d \in Deploys : recov'[d] = "worker" => recov[d] = "worker",
             \A s \in Slots : /\ ~ exec'[s].cut
                              /\ \/ exec'[s].pc \in {"idle", "load"}
                                 \/ exec'[s].pc = exec[s].pc /\ exec'[s].d = exec[s].d
      PROVE  Locked'
  <2>1. OneHolder'
    BY <1>0, <1>q, LockKept DEF Locked, Holds, HoldsFor, There
  <2>2. JobsHold' /\ RecoveriesHold'
    BY <1>q DEF Locked, JobsHold, RecoveriesHold, Building, Runs
  <2>3. UndoHolds'
    BY <1>0, <1>o, <1>q DEF Locked, UndoHolds, Queue!Sent
  <2> QED
    BY <2>1, <2>2, <2>3 DEF Locked
<1>c. \A s \in Slots : ~ exec[s].cut
  BY DEF Locked, JobsHold
<1>1. ASSUME NEW d \in Deploys, Redeliver(d) PROVE Locked'
  <2>1. UNCHANGED <<worker, dep, exec, recov>>
        /\ \A e \in Deploys : queue'[e].st # "unsent" => Queue!Sent(e)
    BY <1>0, <1>1 DEF Redeliver, Queue!Reappear, Queue!Sent, Typed, TypeOK
  <2> QED
    BY <1>c, <1>q, <2>1
<1>2. ASSUME NEW d \in Deploys, RecoverList(d) PROVE Locked'
  <2>1. UNCHANGED <<worker, dep, exec, queue>> /\ \A e \in Deploys : recov'[e] = "worker" => recov[e] = "worker"
    BY <1>0, <1>2 DEF RecoverList, Typed, TypeOK
  <2> QED
    BY <1>c, <1>q, <2>1 DEF Queue!Sent
<1>3. ASSUME NEW d \in Deploys, RecoverMark(d) PROVE Locked'
  <2>1. CASE dep[d] # "deploying"
    <3>1. UNCHANGED <<worker, dep, exec, queue>> /\ \A e \in Deploys : recov'[e] = "worker" => recov[e] = "worker"
      BY <1>0, <1>3, <2>1 DEF RecoverMark, Typed, TypeOK
    <3> QED
      BY <1>c, <1>q, <3>1 DEF Queue!Sent
  <2>2. CASE dep[d] = "deploying"
    <3>1. /\ UNCHANGED <<worker, exec, queue>> /\ dep'[d] = "failed" /\ recov'[d] = "worker"
          /\ \A e \in Deploys \ {d} : dep'[e] = dep[e] /\ recov'[e] = recov[e]
      BY <1>0, <1>3, <2>2 DEF RecoverMark, Typed, TypeOK
    <3>2. \A s \in Slots : ~ Runs(s, d)
      BY <1>3, <2>2 DEF RecoverMark, Note, Barring
    <3>3. \A e \in Deploys : Holds(e)' => Holds(e)
      BY <2>2, <3>1 DEF Holds
    <3>4. OneHolder'
      BY <1>0, <3>1, <3>3, LockKept DEF Locked, HoldsFor, There
    <3>5. JobsHold'
      BY <1>o, <3>1, <3>2 DEF Locked, JobsHold, Building, Runs
    <3>6. RecoveriesHold'
      BY <3>1, <3>2 DEF Locked, RecoveriesHold, Runs, Done
    <3>7. UndoHolds'
      BY <1>0, <1>o, <2>2, <3>1 DEF Locked, UndoHolds, Queue!Sent
    <3> QED
      BY <3>4, <3>5, <3>6, <3>7 DEF Locked
  <2> QED
    BY <2>1, <2>2
<1>4. ASSUME NEW d \in Deploys, RecoverWorker(d) PROVE Locked'
  <2>1. /\ recov[d] = "worker" /\ UNCHANGED <<dep, queue, exec>> /\ recov'[d] = "idle"
        /\ \A e \in Deploys \ {d} : recov'[e] = recov[e]
    BY <1>0, <1>4 DEF RecoverWorker, Typed, TypeOK
  <2>2. Holds(d) /\ dep[d] \in Done /\ \A s \in Slots : Runs(s, d) => exec[s].pc # "endWorker"
    BY <2>1 DEF Holds, Locked, RecoveriesHold
  <2>3. (\A e \in Deploys \ {d} : ~ Holds(e)) /\ (\A q \in Requests : ~ HoldsFor(q))
    BY <2>2 DEF Locked, OneHolder
  <2>4. (\A e \in Deploys : ~ Holds(e)') /\ (\A q \in Requests : ~ HoldsFor(q)')
    BY <1>0, <2>1, <2>2, <2>3 DEF Holds, HoldsFor, Done, Runs
  <2>5. OneHolder'
    BY <2>4, LockFree
  <2>6. JobsHold' /\ RecoveriesHold' /\ UndoHolds'
    BY <1>0, <2>1 DEF Locked, JobsHold, RecoveriesHold, UndoHolds, Building, Runs, Queue!Sent
  <2> QED
    BY <2>5, <2>6 DEF Locked
<1>5. ASSUME NEW d \in Deploys, NEW s \in Slots, Fetch(s, d) PROVE Locked'
  <2>1. /\ UNCHANGED <<worker, dep, recov>> /\ queue[d].st = "visible"
        /\ queue' = [queue EXCEPT ![d].st = "hidden", ![d].ct = @ + 1]
        /\ exec' = [exec EXCEPT ![s] = [FreeSlot EXCEPT !.pc = "load", !.d = d, !.n = queue[d].ct + 1]]
    BY <1>5 DEF Fetch, Queue!Read
  <2>2. \A e \in Deploys : queue'[e].st # "unsent" => Queue!Sent(e)
    BY <1>0, <2>1 DEF Queue!Sent, Typed, TypeOK
  <2>3. /\ exec'[s].pc = "load" /\ exec'[s].cut = FALSE
        /\ \A t \in Slots \ {s} : exec'[t] = exec[t]
    BY <1>0, <2>1 DEF Typed, TypeOK, FreeSlot
  <2> QED
    BY <1>c, <1>q, <2>1, <2>2, <2>3
<1>6. CASE UNCHANGED vars \/ (\E p \in DOMAIN pod : Preflight(p) \/ Wrangler(p) \/ IdleOver(p))
           \/ \E a \in Accounts : Teardown(a)
  <2>1. UNCHANGED <<worker, dep, exec, queue, recov>>
    BY <1>6 DEF vars, Preflight, Wrangler, IdleOver, Teardown
  <2> QED
    BY <1>c, <1>q, <2>1 DEF Queue!Sent
<1>7. CASE Shutdown
  BY <1>7 DEF Shutdown, Note, Barring
<1>8. CASE Crash
  <2>1. UNCHANGED <<worker, dep, queue>>
    BY <1>8 DEF Crash
  <2>2. \A s \in Slots : exec'[s].pc = "idle" /\ ~ exec'[s].cut
    BY <1>8 DEF Crash, FreeSlot
  <2>3. \A d \in Deploys : recov'[d] # "worker"
    BY <1>8 DEF Crash
  <2> QED
    BY <1>q, <2>1, <2>2, <2>3 DEF Queue!Sent
<1> QED
  BY <1>1, <1>2, <1>3, <1>4, <1>5, <1>6, <1>7, <1>8

(* What has happened stays known.                                          *)
LEMMA History == [Next]_vars => odd \subseteq odd'
<1> SUFFICES ASSUME [Next]_vars PROVE odd \subseteq odd'
  OBVIOUS
<1>1. CASE UNCHANGED vars
  BY <1>1 DEF vars
<1>2. ASSUME NEW r \in Requests, TriggerNext(r) \/ ConfirmNext(r) \/ OtherNext(r) PROVE odd \subseteq odd'
  BY <1>2 DEF TriggerNext, BeginDeploy, Begin, Mark, Create, CreateFails, EnqueueJob,
     EnqueueFails, UndoCreate, Restore, ConfirmNext, BeginConfirm, ReadLatest, Claim, Persist,
     PersistFails, ReadAgain, Finish, Revert, OtherNext, BeginEdit, BeginMove, Write, BeginDelete,
     Delete, Abort, Rewrite, Note
<1>3. ASSUME NEW s \in Slots, JobNext(s) PROVE odd \subseteq odd'
  BY <1>3 DEF JobNext, Load, LoadWorker, LoadFails, Start, MarkWorker, Resolve, Log, Note,
     Deployed, Parked, Misread, WaitFails, SaveRuntime, Finished, FinishedWorker, Ack, Nack
<1>4. ASSUME NEW d \in Deploys, \/ Redeliver(d) \/ RecoverList(d) \/ RecoverMark(d) \/ RecoverWorker(d)
                                \/ \E s \in Slots : Fetch(s, d)
      PROVE  odd \subseteq odd'
  BY <1>4 DEF Redeliver, RecoverList, RecoverMark, RecoverWorker, Fetch, Note
<1>5. ASSUME NEW p \in DOMAIN pod, Preflight(p) \/ Wrangler(p) \/ IdleOver(p) PROVE odd \subseteq odd'
  BY <1>5 DEF Preflight, Wrangler, IdleOver, Note
<1>6. ASSUME NEW a \in Accounts, Teardown(a) PROVE odd \subseteq odd'
  BY <1>6 DEF Teardown, Note
<1>7. Shutdown \/ Crash => odd \subseteq odd'
  BY DEF Shutdown, Crash, Note
<1> QED
  BY <1>1, <1>2, <1>3, <1>4, <1>5, <1>6, <1>7 DEF Next

LEMMA LockStep == AnswerInv /\ LockInv /\ [Next]_vars => LockInv'
<1> SUFFICES ASSUME AnswerInv, LockInv, [Next]_vars, Barring({"rewritten", "overtaken", "halted"})'
             PROVE  Locked'
  BY DEF LockInv
<1>1. Locked /\ Typed'
  BY History, TypeStep DEF LockInv, Barring, AnswerInv
<1>2. CASE UNCHANGED vars
  BY <1>1, <1>2, LockTime
<1>3. CASE Next
  BY <1>1, <1>3, LockRequest, LockJob, LockTime DEF Next
<1> QED
  BY <1>2, <1>3

LEMMA LockInit == Init => LockInv
<1> SUFFICES ASSUME Init PROVE Locked
  BY DEF LockInv
<1>1. /\ \A d \in Deploys : dep[d] = "none" /\ recov[d] = "idle"
      /\ \A s \in Slots : exec[s].pc = "idle" /\ exec[s].cut = FALSE
      /\ \A r \in Requests : req[r].pc = "free"
  BY DEF Init, FreeSlot, FreeRequest
<1> QED
  BY <1>1 DEF Locked, OneHolder, Holds, HoldsFor, JobsHold, Building, RecoveriesHold, UndoHolds

-----------------------------------------------------------------------------
(* The script *)

(* A pod is there only while a job waits for it.                           *)
Attended == \A p \in Attempts : pod[p].ph # "absent" => \E s \in Slots : Waits(s) /\ Mine(s) = p
AttendInv == Barring({"rewritten", "overtaken", "halted", "orphan"}) => Attended

(* Some job is about to record that the script is there.                   *)
PendingAt(s) == exec[s].pc = "runtime" \/ (Waits(s) /\ Phase(s) \in {"done", "exited"})
Pending == \E s \in Slots : PendingAt(s)
OnePlace ==
  /\ \A s \in Slots : exec[s].copy.account \in {NoAccount, worker.account}
  /\ \A p \in Attempts : pod[p].ph # "absent" => pod[p].account = worker.account
  /\ cloud.script \subseteq {worker.account}
Known ==
  /\ \A s \in Slots : exec[s].pc = "runtime" => Script(s)
  /\ There => tear = {} /\ (cloud.script # {} => worker.script \/ Pending)
  /\ ~ There => (cloud.script # {} => tear = {worker.account})
Untroubled == Barring({"orphan", "moved", "rewritten", "overtaken", "halted", "misread"})
ScriptInv == AttendInv /\ (Untroubled => OnePlace /\ Known)

LEMMA AttendedStep ==
  ASSUME AnswerInv, EarnInv, Attended, Locked, [Next]_vars,
         Barring({"rewritten", "overtaken", "halted", "orphan"})'
  PROVE  Attended'
<1>0. Typed /\ \A s \in Slots : exec[s].pc # "idle" => Mine(s) \in Attempts
  BY SlotUpdates DEF AnswerInv, EarnInv, Counted, Mine, Attempts, Typed, TypeOK
<1>q. ASSUME UNCHANGED exec, \A p \in Attempts : pod'[p].ph # "absent" => pod[p].ph # "absent"
      PROVE  Attended'
  BY <1>q DEF Attended, Waits, Mine
<1>1. CASE UNCHANGED vars
  BY <1>1, <1>q DEF vars
<1>2. ASSUME NEW r \in Requests, TriggerNext(r) \/ ConfirmNext(r) \/ OtherNext(r) PROVE Attended'
  <2>1. UNCHANGED <<exec, pod>>
    BY <1>2 DEF TriggerNext, BeginDeploy, Begin, Mark, Create, CreateFails, EnqueueJob,
       EnqueueFails, UndoCreate, Restore, ConfirmNext, BeginConfirm, ReadLatest, Claim, Persist,
       PersistFails, ReadAgain, Finish, Revert, OtherNext, BeginEdit, BeginMove, Write, BeginDelete,
       Delete, Abort
  <2> QED
    BY <1>q, <2>1
<1>3. ASSUME NEW s \in Slots, JobNext(s) PROVE Attended'
  <2>x. ASSUME \A t \in Slots \ {s} : exec'[t] = exec[t],
               Waits(s) => Waits(s)' /\ Mine(s)' = Mine(s), UNCHANGED pod
        PROVE  Attended'
    <3>1. \A t \in Slots : Waits(t) => Waits(t)' /\ Mine(t)' = Mine(t)
      BY <2>x DEF Waits, Mine
    <3> HIDE DEF Waits, Mine
    <3> QED
      BY <2>x, <3>1 DEF Attended
  <2>1. CASE Load(s) \/ LoadWorker(s) \/ LoadFails(s) \/ Start(s) \/ MarkWorker(s) \/ SaveRuntime(s)
             \/ Finished(s) \/ FinishedWorker(s) \/ Ack(s) \/ Nack(s)
    <3>1. ~ Waits(s) /\ UNCHANGED pod
      BY <2>1 DEF Load, LoadWorker, LoadFails, Start, MarkWorker, SaveRuntime, Finished,
         FinishedWorker, Ack, Nack, Waits
    <3>2. \A t \in Slots \ {s} : exec'[t] = exec[t]
      BY <1>0, <2>1, SlotMoves DEF Load, LoadFails, MarkWorker, SaveRuntime, Finished, FinishedWorker
    <3> QED
      BY <2>x, <3>1, <3>2
  <2>2. CASE Log(s)
    BY <1>q, <2>2 DEF Log
  <2>3. CASE Deployed(s) \/ Parked(s) \/ Misread(s) \/ WaitFails(s)
    <3>1. Waits(s) /\ Leave(s) /\ \A t \in Slots \ {s} : exec'[t] = exec[t]
      BY <1>0, <2>3, SlotMoves DEF Deployed, Parked, Misread, WaitFails
    <3>2. Mine(s) \in Attempts
      BY <1>0, <3>1 DEF Waits
    <3>3. PICK m \in Attempts : m = Mine(s)
      BY <3>2
    <3>4. pod'[m].ph = "absent" /\ \A p \in Attempts \ {m} : pod'[p] = pod[p]
      BY <1>0, <3>1, <3>3 DEF Leave, NoPod, Typed, TypeOK, Attempts
    <3>5. \A t \in Slots \ {s} : Waits(t) => Waits(t)' /\ Mine(t)' = Mine(t)
      BY <3>1 DEF Waits, Mine
    <3> HIDE DEF Waits, Mine
    <3> QED
      BY <3>3, <3>4, <3>5 DEF Attended
  <2>4. CASE Resolve(s)
    <3>1. CASE UNCHANGED pod
      BY <1>0, <2>4, <2>x, <3>1, SlotMoves DEF Resolve, Waits
    <3>2. CASE ~ UNCHANGED pod
      <4>1. To(s, "wait") /\ exec[s].pc = "resolve" /\ \E x : pod' = [pod EXCEPT ![Mine(s)] = x]
        BY <2>4, <3>2 DEF Resolve, Mine
      <4>2. PICK m \in Attempts : m = Mine(s)
        BY <1>0, <4>1
      <4>3. \A p \in Attempts \ {m} : pod'[p] = pod[p]
        BY <1>0, <4>1, <4>2 DEF Typed, TypeOK, Attempts
      <4>4. /\ Waits(s)' /\ Mine(s)' = Mine(s)
            /\ \A t \in Slots \ {s} : Waits(t) => Waits(t)' /\ Mine(t)' = Mine(t)
            /\ ~ Waits(s)
        BY <1>0, <4>1, SlotMoves DEF Waits, Mine
      <4> HIDE DEF Waits, Mine
      <4> QED
        BY <4>2, <4>3, <4>4 DEF Attended
    <3> QED
      BY <3>1, <3>2
  <2> QED
    BY <1>3, <2>1, <2>2, <2>3, <2>4 DEF JobNext
<1>4. ASSUME NEW p \in DOMAIN pod, Preflight(p) \/ Wrangler(p) \/ IdleOver(p) PROVE Attended'
  <2>1. PICK ph : pod' = [pod EXCEPT ![p].ph = ph] /\ pod[p].ph # "absent" /\ UNCHANGED exec
    BY <1>4 DEF Preflight, Wrangler, IdleOver
  <2>2. \A q \in Attempts : pod'[q].ph # "absent" => pod[q].ph # "absent"
    BY <1>0, <2>1 DEF Typed, TypeOK, Attempts
  <2> QED
    BY <1>q, <2>1, <2>2
<1>5. ASSUME NEW d \in Deploys, NEW s \in Slots, Fetch(s, d) PROVE Attended'
  <2>1. exec[s].pc = "idle" /\ UNCHANGED pod /\ \A t \in Slots \ {s} : exec'[t] = exec[t]
    BY <1>0, <1>5 DEF Fetch, Typed, TypeOK
  <2>2. \A t \in Slots : Waits(t) => Waits(t)' /\ Mine(t)' = Mine(t)
    BY <2>1 DEF Waits, Mine
  <2> HIDE DEF Waits, Mine
  <2> QED
    BY <2>1, <2>2 DEF Attended
<1>6. CASE \/ \E d \in Deploys : Redeliver(d) \/ RecoverList(d) \/ RecoverMark(d) \/ RecoverWorker(d)
           \/ \E a \in Accounts : Teardown(a)
  BY <1>6, <1>q DEF Redeliver, RecoverList, RecoverMark, RecoverWorker, Teardown
<1>7. CASE Shutdown
  BY <1>7 DEF Shutdown, Note, Barring
<1>8. CASE Crash
  <2>1. \A p \in Attempts : pod'[p].ph = "absent"
    BY <1>0, <1>8 DEF Crash, Barring, Typed, TypeOK, Attempts
  <2> QED
    BY <2>1 DEF Attended
<1> QED
  BY <1>1, <1>2, <1>3, <1>4, <1>5, <1>6, <1>7, <1>8 DEF Next

(* A job that waits, or is about to record, keeps the worker there.        *)
LEMMA WorkingIsThere ==
  ASSUME AnswerInv, Locked, NEW s \in Slots, Building(s)
  PROVE  There /\ worker.status = "deploying" /\ exec[s].d \in Deploys /\ dep[exec[s].d] = "deploying"
<1>1. exec[s].d \in Deploys
  BY SlotUpdates DEF AnswerInv, Typed, TypeOK
<1>2. dep[exec[s].d] = "deploying"
  BY DEF Locked, JobsHold
<1>3. Holds(exec[s].d)
  BY <1>2 DEF Holds
<1> QED
  BY <1>1, <1>2, <1>3 DEF Locked, OneHolder

(* A step that leaves the slots, the pods and the scripts alone.           *)
LEMMA PlaceRequest ==
  ASSUME AnswerInv, EarnInv, Locked, OnePlace, Known, Untroubled, Untroubled',
         NEW r \in Requests, TriggerNext(r) \/ ConfirmNext(r) \/ OtherNext(r)
  PROVE  (OnePlace /\ Known)'
<1>0. Typed
  BY DEF AnswerInv
<1>1. UNCHANGED <<exec, pod>> /\ cloud'.script = cloud.script
  <2>1. UNCHANGED <<exec, pod>> /\ (UNCHANGED cloud \/ Claim(r))
    BY DEF TriggerNext, BeginDeploy, Begin, Mark, Create, CreateFails, EnqueueJob,
       EnqueueFails, UndoCreate, Restore, ConfirmNext, BeginConfirm, ReadLatest, Claim, Persist,
       PersistFails, ReadAgain, Finish, Revert, OtherNext, BeginEdit, BeginMove, Write, BeginDelete,
       Delete, Abort
  <2>2. CASE Claim(r)
    <3>1. PICK x : UNCHANGED cloud \/ cloud' = [cloud EXCEPT !.approved = x]
      BY <2>2 DEF Claim
    <3> QED
      BY <1>0, <2>1, <3>1 DEF Typed, TypeOK
  <2> QED
    BY <2>1, <2>2
<1>2. Pending' = Pending
  BY <1>1 DEF Pending, PendingAt, Waits, Phase, Mine
<1>q. ASSUME worker'.account = worker.account, There' = There, worker'.script = worker.script,
             UNCHANGED tear
      PROVE  (OnePlace /\ Known)'
  <2>1. OnePlace'
    BY <1>1, <1>q DEF OnePlace
  <2>2. Known'
    <3> HIDE DEF There, Pending
    <3>1. \A s \in Slots : exec'[s].pc = "runtime" => Script(s)'
      BY <1>1 DEF Known, Script
    <3> QED
      BY <1>1, <1>2, <1>q, <3>1 DEF Known
  <2> QED
    BY <2>1, <2>2
<1>3. CASE Write(r)
  <2>1. UNCHANGED tear /\ There' = There /\ worker'.script = worker.script
    <3>1. PICK a : worker' = worker \/ worker' = [worker EXCEPT !.account = a]
      BY <1>3 DEF Write
    <3> QED
      BY <1>0, <1>3, <3>1 DEF Write, There, Typed, TypeOK, Worker
  <2>2. worker'.account = worker.account \/ worker.account = NoAccount
    BY <1>3, Written DEF Untroubled, Barring
  <2>3. CASE worker'.account = worker.account
    BY <1>q, <2>1, <2>3
  <2>4. CASE worker'.account # worker.account
    <3>1. NothingPlaced /\ There
      <4>1. There
        BY <1>3, <2>4 DEF Write
      <4> QED
        BY <2>2, <2>4, <4>1 DEF EarnInv, Nowhere, Untroubled, Barring
    <3>2. OnePlace'
      BY <1>1, <3>1 DEF OnePlace, NothingPlaced
    <3>3. Known'
      <4> HIDE DEF There, Pending
      <4>1. \A s \in Slots : exec'[s].pc = "runtime" => Script(s)'
        BY <1>1 DEF Known, Script
      <4> QED
        BY <1>1, <1>2, <2>1, <3>1, <4>1 DEF Known
    <3> QED
      BY <3>2, <3>3
  <2> QED
    BY <2>3, <2>4
<1>4. CASE Persist(r)
  <2>1. UNCHANGED tear /\ Barring({"rewritten", "moved"})' /\ "rewritten" \notin odd'
    BY <1>4 DEF Persist, Untroubled, Barring
  <2> QED
    BY <1>0, <1>4, <1>q, <2>1, Persisted, LifeAndStatus
<1>5. CASE Delete(r)
  <2>1. CASE ~ Deletable
    BY <1>5, <1>q, <2>1 DEF Delete, There
  <2>2. CASE Deletable
    <3>1. /\ There /\ worker.status # "deploying"
          /\ worker' = [worker EXCEPT !.life = "deleted"]
          /\ tear' = tear \cup (IF worker.script THEN {worker.account} \cap Accounts ELSE {})
      BY <1>5, <2>2 DEF Delete, Deletable
    <3>2. ~ There' /\ worker'.account = worker.account
      BY <1>0, <3>1 DEF There, Typed, TypeOK, Worker
    <3>3. ~ Pending
      <4>1. ASSUME NEW s \in Slots, PendingAt(s) PROVE FALSE
        <5>1. Building(s)
          BY <4>1 DEF PendingAt, Waits, Building
        <5> QED
          BY <3>1, <5>1, WorkingIsThere
      <4> QED
        BY <4>1 DEF Pending
    <3>4. OnePlace'
      BY <1>1, <3>2 DEF OnePlace
    <3>5. Known'
      <4>1. \A s \in Slots : exec'[s].pc = "runtime" => Script(s)'
        BY <1>1 DEF Known, Script
      <4>2. tear = {} /\ (cloud.script # {} => worker.script)
        BY <3>1, <3>3 DEF Known
      <4>3. cloud.script # {} => worker.account \in Accounts
        BY <1>0 DEF OnePlace, Typed, TypeOK
      <4>4. cloud.script # {} => tear' = {worker.account}
        BY <3>1, <4>2, <4>3
      <4> HIDE DEF There
      <4> QED
        BY <1>1, <3>2, <4>1, <4>4 DEF Known
    <3> QED
      BY <3>4, <3>5
  <2> QED
    BY <2>1, <2>2
<1>6. CASE ~ (Write(r) \/ Persist(r) \/ Delete(r))
  <2>1. UNCHANGED tear /\ (UNCHANGED worker \/ \E st : SetStatus(st))
    BY <1>6 DEF TriggerNext, BeginDeploy, Begin, Mark, Create, CreateFails, EnqueueJob,
       EnqueueFails, UndoCreate, Restore, TakeBack, ConfirmNext, BeginConfirm, ReadLatest, Claim,
       PersistFails, ReadAgain, Finish, Revert, OtherNext, BeginEdit, BeginMove, BeginDelete, Abort
  <2>2. worker'.account = worker.account /\ There' = There /\ worker'.script = worker.script
    BY <1>0, <2>1 DEF SetStatus, There, Typed, TypeOK, Worker
  <2> QED
    BY <1>q, <2>1, <2>2
<1> QED
  BY <1>3, <1>4, <1>5, <1>6

LEMMA PlaceJob ==
  ASSUME AnswerInv, EarnInv, Locked, OnePlace, Known, Untroubled, Untroubled',
         NEW s \in Slots, JobNext(s)
  PROVE  (OnePlace /\ Known)'
<1>0. /\ Typed /\ \A t \in Slots : exec[t].pc # "idle" => Mine(t) \in Attempts
      /\ ~ exec[s].cut
  BY SlotUpdates DEF AnswerInv, EarnInv, Counted, Mine, Attempts, Typed, TypeOK, Locked, JobsHold
<1>1. UNCHANGED <<cloud, tear>>
  BY DEF JobNext, Load, LoadWorker, LoadFails, Start, MarkWorker, Resolve, Log, Deployed, Parked,
     Misread, WaitFails, SaveRuntime, Finished, FinishedWorker, Ack, Nack
<1>a. \A t \in Slots \ {s} : exec[s].pc # "idle" /\ exec[t].pc # "idle" => Mine(t) # Mine(s)
  BY DEF AnswerInv, Leased, Mine
<1>q. ASSUME \A t \in Slots \ {s} : exec'[t] = exec[t],
             \A p \in Attempts \ {Mine(s)} : pod'[p] = pod[p], exec[s].pc # "idle",
             worker'.account = worker.account, There' = There,
             worker.script => worker'.script,
             exec'[s].copy.account \in {NoAccount, worker.account},
             pod'[Mine(s)].ph # "absent" => pod'[Mine(s)].account = worker.account,
             exec'[s].pc = "runtime" => Script(s)',
             PendingAt(s) => PendingAt(s)' \/ (There => worker'.script)
      PROVE  (OnePlace /\ Known)'
  <2>1. OnePlace'
    BY <1>1, <1>q DEF OnePlace
  <2>2. ASSUME NEW t \in Slots \ {s}, PendingAt(t) PROVE PendingAt(t)'
    <3>1. CASE exec[t].pc = "runtime"
      BY <1>q, <3>1 DEF PendingAt
    <3>2. CASE Waits(t) /\ Phase(t) \in {"done", "exited"}
      <4>1. Mine(t) \in Attempts \ {Mine(s)} /\ Mine(t)' = Mine(t) /\ Waits(t)'
        BY <1>0, <1>a, <1>q, <3>2 DEF Waits, Mine
      <4>2. pod'[Mine(t)] = pod[Mine(t)]
        BY <1>q, <4>1
      <4>3. Phase(t)' = pod'[Mine(t)].ph
        BY <4>1 DEF Phase
      <4> QED
        BY <3>2, <4>1, <4>2, <4>3 DEF PendingAt, Phase
    <3> QED
      BY <2>2, <3>1, <3>2 DEF PendingAt
  <2>3. Pending => Pending' \/ (There => worker'.script)
    BY <1>q, <2>2 DEF Pending
  <2>4. \A t \in Slots : exec'[t].pc = "runtime" => Script(t)'
    BY <1>q DEF Known, Script
  <2>5. Known'
    <3> HIDE DEF There, Pending
    <3> QED
      BY <1>1, <1>q, <2>3, <2>4 DEF Known
  <2> QED
    BY <2>1, <2>5
<1>p. ASSUME NEW p \in Attempts, pod[p].ph # "absent" PROVE pod[p].account = worker.account
  BY <1>p DEF OnePlace
<1>c. exec[s].copy.account \in {NoAccount, worker.account}
  BY DEF OnePlace
<1>2. CASE Load(s) \/ LoadFails(s) \/ MarkWorker(s) \/ Finished(s) \/ FinishedWorker(s)
  <2>1. /\ UNCHANGED pod /\ exec[s].pc \notin {"idle", "wait", "runtime"}
        /\ (UNCHANGED worker \/ \E st : SetStatus(st))
        /\ \E pc \in {"ack", "loadWorker", "nack", "resolve", "endWorker"} : To(s, pc)
    BY <1>2 DEF Load, LoadFails, MarkWorker, Finished, FinishedWorker
  <2>2. worker'.account = worker.account /\ There' = There /\ worker'.script = worker.script
    BY <1>0, <2>1 DEF SetStatus, There, Typed, TypeOK, Worker
  <2>3. /\ exec'[s].pc # "runtime" /\ exec'[s].copy = exec[s].copy
        /\ \A t \in Slots \ {s} : exec'[t] = exec[t]
    BY <1>0, <2>1, SlotMoves
  <2>4. pod'[Mine(s)].ph # "absent" => pod'[Mine(s)].account = worker.account
    BY <1>0, <1>p, <2>1
  <2>5. ~ PendingAt(s)
    BY <2>1 DEF PendingAt, Waits
  <2> QED
    BY <1>c, <1>q, <2>1, <2>2, <2>3, <2>4, <2>5
<1>3. CASE LoadWorker(s) \/ Start(s) \/ Ack(s) \/ Nack(s)
  <2>1. UNCHANGED <<worker, pod>> /\ exec[s].pc \notin {"idle", "wait", "runtime"}
    BY <1>3 DEF LoadWorker, Start, Ack, Nack
  <2>2. /\ exec'[s].pc # "runtime" /\ exec'[s].copy.account \in {NoAccount, worker.account}
        /\ \A t \in Slots \ {s} : exec'[t] = exec[t]
    <3>1. CASE LoadWorker(s)
      BY <1>0, <3>1, SlotMoves
    <3>2. CASE Start(s)
      BY <1>0, <1>c, <3>2, SlotMoves
    <3>3. CASE Ack(s) \/ Nack(s)
      BY <1>0, <3>3, SlotMoves
    <3> QED
      BY <1>3, <3>1, <3>2, <3>3
  <2>3. pod'[Mine(s)].ph # "absent" => pod'[Mine(s)].account = worker.account
    BY <1>0, <1>p, <2>1
  <2>4. ~ PendingAt(s)
    BY <2>1 DEF PendingAt, Waits
  <2> QED
    BY <1>q, <2>1, <2>2, <2>3, <2>4 DEF There
<1>4. CASE Log(s)
  <2>1. UNCHANGED <<worker, pod, exec>> /\ exec[s].pc = "wait"
    BY <1>4 DEF Log, Waits
  <2>2. PendingAt(s)' = PendingAt(s)
    BY <2>1 DEF PendingAt, Waits, Phase, Mine
  <2>3. pod'[Mine(s)].ph # "absent" => pod'[Mine(s)].account = worker.account
    BY <1>0, <1>p, <2>1
  <2> QED
    BY <1>c, <1>q, <2>1, <2>2, <2>3 DEF There
<1>5. CASE SaveRuntime(s)
  <2>1. /\ exec[s].pc = "runtime" /\ UNCHANGED pod /\ To(s, "end") /\ Script(s)
        /\ worker' = IF There THEN [worker EXCEPT !.script = TRUE] ELSE worker
    <3>1. exec[s].pc = "runtime" /\ Script(s) /\ exec[s].copy.script \in BOOLEAN
      BY <1>0, <1>5, SlotUpdates, WorkerUpdates DEF SaveRuntime, Known, Typed, TypeOK
    <3>2. Script(s) = TRUE
      BY <3>1 DEF Script
    <3>3. ~ Note("orphan")
      BY DEF Note, Untroubled, Barring
    <3>4. worker' = IF There THEN [worker EXCEPT !.script = Script(s)] ELSE worker
      BY <1>0, <1>5, <3>3 DEF SaveRuntime
    <3> QED
      BY <1>5, <3>1, <3>2, <3>4 DEF SaveRuntime
  <2>2. worker'.account = worker.account /\ There' = There /\ (There => worker'.script)
        /\ (worker.script => worker'.script)
    BY <1>0, <2>1 DEF There, Typed, TypeOK, Worker
  <2>3. /\ exec'[s].pc = "end" /\ exec'[s].copy = exec[s].copy
        /\ \A t \in Slots \ {s} : exec'[t] = exec[t]
    BY <1>0, <2>1, SlotMoves
  <2>4. pod'[Mine(s)].ph # "absent" => pod'[Mine(s)].account = worker.account
    BY <1>0, <1>p, <2>1
  <2> QED
    BY <1>c, <1>q, <2>1, <2>2, <2>3, <2>4
<1>6. CASE Deployed(s) \/ Parked(s) \/ Misread(s) \/ WaitFails(s)
  <2>1. UNCHANGED worker /\ Leave(s) /\ exec[s].pc = "wait" /\ Mine(s) \in Attempts
    BY <1>0, <1>6 DEF Deployed, Parked, Misread, WaitFails, Waits
  <2>2. PICK m \in Attempts : m = Mine(s)
    BY <2>1
  <2>3. pod'[m].ph = "absent" /\ \A p \in Attempts \ {m} : pod'[p] = pod[p]
    BY <1>0, <2>1, <2>2 DEF Leave, NoPod, Typed, TypeOK, Attempts
  <2>4. /\ exec'[s].copy.account = exec[s].copy.account
        /\ \A t \in Slots \ {s} : exec'[t] = exec[t]
        /\ exec'[s].pc = "runtime" => Script(s)'
        /\ PendingAt(s) => exec'[s].pc = "runtime"
    <3>1. ~ Misread(s)
      BY DEF Misread, Note, Untroubled, Barring
    <3>2. CASE Deployed(s)
      BY <1>0, <3>2, SlotMoves DEF Script
    <3>3. CASE Parked(s)
      BY <1>0, <3>3, SlotMoves DEF Parked, PendingAt, Waits
    <3>4. CASE WaitFails(s)
      <4>1. Phase(s) \notin {"done", "exited"} /\ Waits(s)
        BY <3>4 DEF WaitFails, Note, Untroubled, Barring
      <4> QED
        BY <1>0, <3>4, <4>1, SlotMoves DEF WaitFails, PendingAt, Waits
    <3> QED
      BY <1>6, <3>1, <3>2, <3>3, <3>4
  <2>5. PendingAt(s) => PendingAt(s)'
    BY <2>4 DEF PendingAt
  <2> QED
    BY <1>c, <1>q, <2>1, <2>2, <2>3, <2>4, <2>5 DEF There
<1>7. CASE Resolve(s)
  <2>1. UNCHANGED worker /\ exec[s].pc = "resolve" /\ Mine(s) \in Attempts /\ ~ PendingAt(s)
    BY <1>0, <1>7 DEF Resolve, PendingAt, Waits
  <2>2. /\ exec'[s].pc # "runtime" /\ exec'[s].copy = exec[s].copy
        /\ \A t \in Slots \ {s} : exec'[t] = exec[t]
    <3>1. Outcome(s, "failed", "end") \/ To(s, "wait")
      BY <1>7 DEF Resolve
    <3>2. CASE Outcome(s, "failed", "end")
      BY <1>0, <3>2, SlotMoves
    <3>3. CASE To(s, "wait")
      <4>1. \A pc : To(s, pc) =>
              /\ exec'[s].pc = pc /\ exec'[s].copy = exec[s].copy
              /\ \A t \in Slots \ {s} : exec'[t] = exec[t]
        BY <1>0, SlotMoves
      <4> QED
        BY <3>3, <4>1
    <3> QED
      BY <3>1, <3>2, <3>3
  <2>3. CASE UNCHANGED pod
    BY <1>c, <1>p, <1>q, <2>1, <2>2, <2>3 DEF There
  <2>4. CASE ~ UNCHANGED pod
    <3>1. PICK a, b : a = exec[s].copy.account /\ b = exec[s].copy.confirmed
      OBVIOUS
    <3> DEFINE new == [ph |-> "new", account |-> a, confirmed |-> b]
    <3>2. a # NoAccount /\ pod' = [pod EXCEPT ![Mine(s)] = new]
      BY <1>7, <2>4, <3>1 DEF Resolve, Mine
    <3>3. new.account = worker.account
      BY <1>c, <3>1, <3>2
    <3> HIDE DEF new
    <3>4. PICK m \in Attempts : m = Mine(s)
      BY <2>1
    <3>5. pod'[m] = new /\ \A p \in Attempts \ {m} : pod'[p] = pod[p]
      BY <1>0, <3>2, <3>4 DEF Typed, TypeOK, Attempts
    <3> QED
      BY <1>c, <1>q, <2>1, <2>2, <3>3, <3>4, <3>5 DEF There
  <2> QED
    BY <2>3, <2>4
<1> QED
  BY <1>2, <1>3, <1>4, <1>5, <1>6, <1>7 DEF JobNext

LEMMA PlacePod ==
  ASSUME AnswerInv, EarnInv, Locked, Attended, OnePlace, Known, Untroubled, Untroubled',
         NEW p \in Attempts, Preflight(p) \/ Wrangler(p) \/ IdleOver(p)
  PROVE  (OnePlace /\ Known)'
<1>0. Typed /\ UNCHANGED <<worker, exec, tear>>
  BY DEF AnswerInv, Preflight, Wrangler, IdleOver
<1>1. pod[p].ph # "absent" /\ pod[p].account = worker.account
  BY DEF Preflight, Wrangler, IdleOver, OnePlace
<1>2. PICK s \in Slots : Waits(s) /\ Mine(s) = p
  BY <1>1 DEF Attended
<1>3. There
  BY <1>2, WorkingIsThere DEF Waits, Building
<1>4. PICK ph \in {"checked", "paused", "failed", "done", "exited"} :
        /\ pod' = [pod EXCEPT ![p].ph = ph]
        /\ pod[p].ph \in {"done", "exited"} => ph = "exited"
  BY DEF Preflight, Wrangler, IdleOver
<1>5. /\ \A q \in Attempts : pod'[q].account = pod[q].account
      /\ \A q \in Attempts \ {p} : pod'[q] = pod[q]
      /\ pod'[p].ph = ph
  BY <1>0, <1>4 DEF Typed, TypeOK, Attempts, Pod
<1>6. \/ cloud'.script = cloud.script
      \/ cloud'.script = cloud.script \cup {worker.account} /\ ph = "done"
  <2>r. cloud \in [bucket : SUBSET Accounts, script : SUBSET Accounts, by : SUBSET Deploys,
                   approved : SUBSET Accounts]
    BY <1>0 DEF Typed, TypeOK
  <2>1. PICK a, d : a = worker.account /\ d = p[1]
    OBVIOUS
  <2>2. \/ UNCHANGED cloud
        \/ cloud' = [cloud EXCEPT !.bucket = @ \cup {a}]
        \/ /\ cloud' = [cloud EXCEPT !.script = @ \cup {a}, !.by = @ \cup {d}]
           /\ pod' = [pod EXCEPT ![p].ph = "done"]
    <3>1. ~ Note("orphan")
      BY DEF Note, Untroubled, Barring
    <3> QED
      BY <1>1, <2>1, <3>1 DEF Preflight, Wrangler, IdleOver
  <2>3. CASE UNCHANGED cloud
    BY <2>3
  <2>4. CASE cloud' = [cloud EXCEPT !.bucket = @ \cup {a}]
    BY <2>r, <2>4
  <2>5. CASE /\ cloud' = [cloud EXCEPT !.script = @ \cup {a}, !.by = @ \cup {d}]
             /\ pod' = [pod EXCEPT ![p].ph = "done"]
    <3>1. cloud'.script = cloud.script \cup {a}
      BY <2>r, <2>5
    <3>2. pod'[p].ph = "done"
      BY <1>0, <2>5 DEF Typed, TypeOK, Attempts, Pod
    <3> QED
      BY <1>5, <2>1, <3>1, <3>2
  <2> QED
    BY <2>2, <2>3, <2>4, <2>5
<1>7. Pending => Pending'
  <2>1. \A t \in Slots : exec[t].pc # "idle" => Mine(t) \in Attempts
    BY <1>0, SlotUpdates DEF EarnInv, Counted, Mine, Attempts, Typed, TypeOK
  <2>2. ASSUME NEW t \in Slots, PendingAt(t) PROVE PendingAt(t)'
    <3>1. CASE exec[t].pc = "runtime"
      BY <1>0, <3>1 DEF PendingAt
    <3>2. CASE Waits(t) /\ Phase(t) \in {"done", "exited"}
      <4>1. PICK m \in Attempts : m = Mine(t) /\ m = Mine(t)' /\ Waits(t)'
        BY <1>0, <2>1, <3>2 DEF Waits, Mine
      <4>2. pod'[m].ph \in {"done", "exited"}
        BY <1>4, <1>5, <3>2, <4>1 DEF Phase
      <4> QED
        BY <4>1, <4>2 DEF PendingAt, Phase
    <3> QED
      BY <2>2, <3>1, <3>2 DEF PendingAt
  <2> QED
    BY <2>2 DEF Pending
<1>8. ph = "done" => Pending'
  <2>1. Waits(s)' /\ Mine(s)' = p
    BY <1>0, <1>2 DEF Waits, Mine
  <2>2. ph = "done" => Phase(s)' = "done"
    BY <1>5, <2>1 DEF Phase
  <2> QED
    BY <2>1, <2>2 DEF Pending, PendingAt
<1>9. OnePlace'
  <2>1. \A q \in Attempts : pod'[q].ph # "absent" => pod[q].ph # "absent"
    BY <1>1, <1>5
  <2> QED
    BY <1>0, <1>5, <1>6, <2>1 DEF OnePlace
<1>10. Known'
  <2>1. There' /\ \A t \in Slots : exec'[t].pc = "runtime" => Script(t)'
    BY <1>0, <1>3 DEF There, Known, Script
  <2> HIDE DEF There, Pending
  <2> QED
    BY <1>0, <1>3, <1>6, <1>7, <1>8, <2>1 DEF Known
<1> QED
  BY <1>9, <1>10

LEMMA PlaceTime ==
  ASSUME AnswerInv, EarnInv, Locked, OnePlace, Known, Untroubled, Untroubled',
         \/ \E d \in Deploys : \/ Redeliver(d) \/ RecoverList(d) \/ RecoverMark(d) \/ RecoverWorker(d)
                               \/ \E s \in Slots : Fetch(s, d)
         \/ \E a \in Accounts : Teardown(a)
         \/ Shutdown \/ Crash \/ UNCHANGED vars
  PROVE  (OnePlace /\ Known)'
<1>0. Typed /\ UNCHANGED pod
  BY DEF AnswerInv, Redeliver, RecoverList, RecoverMark, RecoverWorker, Fetch, Teardown, Shutdown,
     Crash, vars
<1>q. ASSUME UNCHANGED <<cloud, tear>>,
             worker'.account = worker.account, There' = There, worker'.script = worker.script,
             \A s \in Slots :
               /\ exec'[s].copy.account \in {NoAccount, exec[s].copy.account}
               /\ exec'[s].pc = "runtime" => Script(s)',
             Pending => Pending'
      PROVE  (OnePlace /\ Known)'
  <2>1. OnePlace'
    BY <1>0, <1>q DEF OnePlace
  <2>2. Known'
    <3> HIDE DEF There, Pending
    <3> QED
      BY <1>q DEF Known
  <2> QED
    BY <2>1, <2>2
<1>1. ASSUME NEW d \in Deploys,
             Redeliver(d) \/ RecoverList(d) \/ RecoverMark(d) \/ RecoverWorker(d)
      PROVE  (OnePlace /\ Known)'
  <2>1. UNCHANGED <<cloud, tear, exec>> /\ (UNCHANGED worker \/ \E st : SetStatus(st))
    BY <1>1 DEF Redeliver, RecoverList, RecoverMark, RecoverWorker
  <2>2. worker'.account = worker.account /\ There' = There /\ worker'.script = worker.script
    BY <1>0, <2>1 DEF SetStatus, There, Typed, TypeOK, Worker
  <2>3. Pending' = Pending
    BY <1>0, <2>1 DEF Pending, PendingAt, Waits, Phase, Mine
  <2> QED
    BY <1>q, <2>1, <2>2, <2>3 DEF Known, Script
<1>2. ASSUME NEW d \in Deploys, NEW s \in Slots, Fetch(s, d) PROVE (OnePlace /\ Known)'
  <2>1. UNCHANGED <<worker, cloud, tear>> /\ exec[s].pc = "idle"
    BY <1>2 DEF Fetch
  <2>2. /\ exec'[s].copy.account = NoAccount /\ exec'[s].pc = "load"
        /\ \A t \in Slots \ {s} : exec'[t] = exec[t]
    BY <1>0, <1>2 DEF Fetch, Typed, TypeOK, FreeSlot, Fresh
  <2>3. Pending => Pending'
    <3>1. ASSUME NEW t \in Slots, PendingAt(t) PROVE PendingAt(t)'
      <4>1. t # s
        BY <2>1, <3>1 DEF PendingAt, Waits
      <4>2. PendingAt(t)' = PendingAt(t)
        BY <1>0, <2>2, <4>1 DEF PendingAt, Waits, Phase, Mine
      <4> QED
        BY <3>1, <4>2
    <3> QED
      BY <3>1 DEF Pending
  <2> QED
    BY <1>q, <2>1, <2>2, <2>3 DEF Known, Script, There
<1>3. ASSUME NEW a \in Accounts, Teardown(a) PROVE (OnePlace /\ Known)'
  <2>1. /\ UNCHANGED <<worker, exec>> /\ a \in tear /\ tear' = tear \ {a}
        /\ cloud' = [cloud EXCEPT !.script = @ \ {a}]
    BY <1>3 DEF Teardown, Note, Untroubled, Barring
  <2>2. cloud'.script = cloud.script \ {a}
    BY <1>0, <2>1 DEF Typed, TypeOK
  <2>3. ~ There /\ ~ There'
    BY <2>1 DEF Known, There
  <2>4. cloud'.script = {}
    BY <2>1, <2>2, <2>3 DEF Known, OnePlace
  <2>5. OnePlace'
    BY <1>0, <2>1, <2>4 DEF OnePlace
  <2>6. Known'
    <3> HIDE DEF There, Pending
    <3> QED
      BY <2>1, <2>3, <2>4 DEF Known, Script
  <2> QED
    BY <2>5, <2>6
<1>4. CASE Shutdown
  BY <1>4 DEF Shutdown, Note, Untroubled, Barring
<1>5. CASE Crash
  <2>1. /\ UNCHANGED <<worker, cloud, tear>>
        /\ \A s \in Slots : exec'[s].copy.account = NoAccount /\ exec'[s].pc = "idle"
    BY <1>5 DEF Crash, FreeSlot, Fresh
  <2>2. /\ \A p \in Attempts : pod[p].ph = "absent"
        /\ \A s \in Slots : exec[s].pc # "runtime"
    BY <1>0, <1>5 DEF Crash, Untroubled, Barring, Typed, TypeOK, Attempts
  <2>3. ~ Pending
    <3>1. \A s \in Slots : Waits(s) => Mine(s) \in Attempts
      BY <1>0, SlotUpdates DEF EarnInv, Counted, Waits, Mine, Attempts, Typed, TypeOK
    <3> QED
      BY <2>2, <3>1 DEF Pending, PendingAt, Phase
  <2> QED
    BY <1>q, <2>1, <2>3 DEF There
<1>6. CASE UNCHANGED vars
  <2>1. Pending' = Pending
    BY <1>6 DEF vars, Pending, PendingAt, Waits, Phase, Mine
  <2> QED
    BY <1>6, <1>q, <2>1 DEF vars, Known, Script, There
<1> QED
  BY <1>1, <1>2, <1>3, <1>4, <1>5, <1>6

LEMMA ScriptStep == AnswerInv /\ EarnInv /\ LockInv /\ ScriptInv /\ [Next]_vars => ScriptInv'
<1> SUFFICES ASSUME AnswerInv, EarnInv, LockInv, ScriptInv, [Next]_vars PROVE ScriptInv'
  OBVIOUS
<1>0. odd \subseteq odd' /\ DOMAIN pod = Attempts
  BY History DEF AnswerInv, Typed, TypeOK, Attempts
<1>1. AttendInv'
  <2> SUFFICES ASSUME Barring({"rewritten", "overtaken", "halted", "orphan"})' PROVE Attended'
    BY DEF AttendInv
  <2>1. Attended /\ Locked
    BY <1>0 DEF ScriptInv, AttendInv, LockInv, Barring
  <2> QED
    BY <2>1, AttendedStep
<1>2. ASSUME Untroubled' PROVE (OnePlace /\ Known)'
  <2>1. Untroubled /\ Attended /\ Locked /\ OnePlace /\ Known
    BY <1>0, <1>2 DEF ScriptInv, AttendInv, LockInv, Untroubled, Barring
  <2>2. CASE UNCHANGED vars
    BY <1>2, <2>1, <2>2, PlaceTime
  <2>3. CASE Next
    BY <1>0, <1>2, <2>1, <2>3, PlaceRequest, PlaceJob, PlacePod, PlaceTime DEF Next
  <2> QED
    BY <2>2, <2>3
<1> QED
  BY <1>1, <1>2 DEF ScriptInv

LEMMA ScriptInit == Init => ScriptInv
<1> SUFFICES ASSUME Init PROVE Attended /\ OnePlace /\ Known
  BY DEF ScriptInv, AttendInv
<1>1. /\ \A s \in Slots : exec[s] = FreeSlot
      /\ FreeSlot.pc = "idle" /\ FreeSlot.copy.account = NoAccount
      /\ \A p \in Attempts : pod[p].ph = "absent"
      /\ cloud.script = {} /\ tear = {}
  BY DEF Init, FreeSlot, Fresh, NoPod, Attempts
<1> QED
  BY <1>1 DEF Attended, OnePlace, Known

LEMMA WorkersInv == Spec => [](AnswerInv /\ EarnInv /\ LockInv /\ ScriptInv)
BY AnswerInit, EarnInit, LockInit, ScriptInit, AnswerStep, EarnStep, LockStep, ScriptStep, PTL
   DEF Spec

(* Of a deleted worker nothing stays at Cloudflare once its teardown is    *)
(* over, neither the script nor a pod that would deploy it again.          *)
THEOREM ScriptIsTornDown == Spec => []NoScriptIsLeft
<1>1. AnswerInv /\ LockInv /\ ScriptInv => NoScriptIsLeft
  <2> SUFFICES ASSUME AnswerInv, LockInv, ScriptInv, ~ There, tear = {},
                      Barring({"orphan", "moved", "rewritten", "overtaken", "halted", "misread"})
               PROVE  cloud.script = {} /\ \A p \in DOMAIN pod : ~ Running(p)
    BY DEF NoScriptIsLeft
  <2>1. Locked /\ Attended /\ Known
    BY DEF LockInv, ScriptInv, AttendInv, Untroubled, Barring
  <2>2. cloud.script = {}
    BY <2>1 DEF Known
  <2>3. ASSUME NEW p \in DOMAIN pod, Running(p) PROVE FALSE
    <3>1. p \in Attempts /\ pod[p].ph # "absent"
      BY <2>3 DEF AnswerInv, Typed, TypeOK, Attempts, Running
    <3>2. PICK s \in Slots : Waits(s)
      BY <2>1, <3>1 DEF Attended
    <3> QED
      BY <2>1, <3>2, WorkingIsThere DEF Waits, Building
  <2> QED
    BY <2>2, <2>3
<1> QED
  BY <1>1, WorkersInv, PTL

(* One deployment of the worker is under way at a time, in the database    *)
(* and in the cluster.                                                     *)
THEOREM DeploysOneAtATime == Spec => []OneAtATime
<1>1. AnswerInv /\ LockInv /\ ScriptInv => OneAtATime
  <2> SUFFICES ASSUME AnswerInv, LockInv, ScriptInv, Barring({"rewritten", "overtaken", "halted"})
               PROVE  /\ Cardinality(InFlight) <= 1
                      /\ Barring({"rewritten", "overtaken", "halted", "orphan"}) =>
                           Cardinality({p \in DOMAIN pod : Running(p)}) <= 1
    BY DEF OneAtATime, Barring
  <2>1. Locked
    BY DEF LockInv
  <2>2. \A d, e \in InFlight : d = e
    BY <2>1 DEF InFlight, Holds, Locked, OneHolder
  <2>3. ASSUME Barring({"rewritten", "overtaken", "halted", "orphan"}),
               NEW p \in DOMAIN pod, NEW q \in DOMAIN pod, Running(p), Running(q)
        PROVE  p = q
    <3>1. p \in Attempts /\ q \in Attempts /\ pod[p].ph # "absent" /\ pod[q].ph # "absent"
      BY <2>3 DEF AnswerInv, Typed, TypeOK, Attempts, Running
    <3>2. Attended
      BY <2>3 DEF ScriptInv, AttendInv
    <3>3. PICK s \in Slots : Waits(s) /\ Mine(s) = p
      BY <3>1, <3>2 DEF Attended
    <3>4. PICK t \in Slots : Waits(t) /\ Mine(t) = q
      BY <3>1, <3>2 DEF Attended
    <3>5. exec[s].d \in InFlight /\ exec[t].d \in InFlight
      BY <2>1, <3>3, <3>4, WorkingIsThere DEF Waits, Building, InFlight
    <3>6. s = t
      BY <2>2, <3>3, <3>4, <3>5 DEF AnswerInv, Leased, Waits
    <3> QED
      BY <3>3, <3>4, <3>6
  <2> QED
    BY <2>2, <2>3, AtMostOne
<1> QED
  BY <1>1, WorkersInv, PTL
=============================================================================
