------------------------- MODULE PageDeploysProofs -------------------------
(***************************************************************************)
(* Proofs about PageDeploys for every number of deployments, slots and     *)
(* settings requests: its types, and that the status of the page is a lock *)
(* as long as no job has outlived its claim.                               *)
(***************************************************************************)
EXTENDS PageDeploys, TLAPS

-----------------------------------------------------------------------------
(* Types *)

LEMMA Bounds ==
  /\ 0 \in 0..ReadCap /\ 0 \in 0..MaxEvents
  /\ NoRow \in Row /\ Queued \in Row /\ NewPage \in PageRow
  /\ NoEdit \in Edit /\ Ended \in Request
<1>1. 0 \in 0..ReadCap /\ 0 \in 0..MaxEvents
  BY PagesAssumption
<1>2. NoRow \in Row /\ Queued \in Row
  BY <1>1 DEF NoRow, Queued, Row
<1>3. NewPage \in PageRow
  BY <1>1 DEF NewPage, PageRow, PageStatus, Sites
<1> QED
  BY <1>1, <1>2, <1>3 DEF NoEdit, Edit, Ended, Request, PageStatus

LEMMA PageUpdates ==
  ASSUME NEW p \in PageRow
  PROVE  /\ p.site \in Sites /\ p.target \in 0..MaxEvents
         /\ p.status # "gone" => p.status \in PageStatus
         /\ \A st \in PageStatus \cup {"gone"} : [p EXCEPT !.status = st] \in PageRow
         /\ \A x \in Sites : [p EXCEPT !.site = x] \in PageRow
         /\ \A t \in 0..MaxEvents : [p EXCEPT !.target = t] \in PageRow
BY DEF PageRow

LEMMA StatusType ==
  ASSUME TypeOK, NEW st \in PageStatus, SetStatus(st)
  PROVE  page' \in PageRow
BY PageUpdates DEF SetStatus, TypeOK

LEMMA RowUpdates ==
  ASSUME NEW r \in Row
  PROVE  \A st \in {"success", "failed"} : [r EXCEPT !.status = st] \in Row
BY DEF Row, Terminal

LEMMA SlotUpdates ==
  ASSUME NEW x \in Slot
  PROVE  /\ x.row \in Row /\ x.page \in PageRow /\ x.d \in Deploys /\ x.n \in 0..ReadCap
         /\ \A pc \in SlotPC : [x EXCEPT !.pc = pc] \in Slot
         /\ \A pc \in SlotPC, row \in Row : [x EXCEPT !.row = row, !.pc = pc] \in Slot
         /\ \A pc \in SlotPC, p \in PageRow : [x EXCEPT !.pc = pc, !.page = p] \in Slot
         /\ [x EXCEPT !.cut = TRUE] \in Slot
BY DEF Slot

LEMMA Deliveries ==
  /\ \A pc \in SlotPC, d \in Deploys, n \in 0..ReadCap : Delivery(pc, d, n) \in Slot
  /\ FreeSlot \in Slot
<1>1. \A pc \in SlotPC, d \in Deploys, n \in 0..ReadCap : Delivery(pc, d, n) \in Slot
  BY Bounds DEF Delivery, Slot
<1>2. (CHOOSE d \in Deploys : TRUE) \in Deploys
  BY PagesAssumption
<1> QED
  BY <1>1, <1>2, Bounds DEF FreeSlot, SlotPC

LEMMA QueueUpdates ==
  ASSUME TypeOK, NEW d \in Deploys
  PROVE  /\ Queue!Enqueue(d) => queue' \in [Deploys -> Queue!Message]
         /\ Queue!Read(d) => /\ queue' \in [Deploys -> Queue!Message]
                             /\ queue[d].ct + 1 \in 0..ReadCap
         /\ Queue!Reappear(d) => queue' \in [Deploys -> Queue!Message]
         /\ Queue!Delete(d) => queue' \in [Deploys -> Queue!Message]
         /\ Queue!Archive(d) => queue' \in [Deploys -> Queue!Message]
<1>1. /\ queue \in [Deploys -> Queue!Message] /\ queue[d] \in Queue!Message
      /\ queue[d].ct \in 0..ReadCap
  BY DEF TypeOK, Queue!Message
<1>2. Queue!Enqueue(d) => queue' \in [Deploys -> Queue!Message]
  BY <1>1, Bounds DEF Queue!Enqueue, Queue!Message, Queue!Places
<1>3. ASSUME Queue!Read(d)
      PROVE  queue' \in [Deploys -> Queue!Message] /\ queue[d].ct + 1 \in 0..ReadCap
  <2>1. queue[d].ct + 1 \in 0..ReadCap
    BY <1>1, <1>3, PagesAssumption DEF Queue!Read
  <2>2. [queue[d] EXCEPT !.st = "hidden", !.ct = @ + 1] \in Queue!Message
    BY <1>1, <2>1 DEF Queue!Message, Queue!Places
  <2> QED
    BY <1>1, <1>3, <2>1, <2>2 DEF Queue!Read
<1>4. \A st \in {"visible", "deleted", "archived"} :
        [queue[d] EXCEPT !.st = st] \in Queue!Message
  BY <1>1 DEF Queue!Message, Queue!Places
<1> QED
  BY <1>1, <1>2, <1>3, <1>4 DEF Queue!Reappear, Queue!Delete, Queue!Archive

LEMMA SpendType ==
  ASSUME TypeOK, NEW e, Spend(e)
  PROVE  left' \in 0..MaxEvents
BY PagesAssumption DEF Spend, TypeOK

LEMMA RequestType ==
  ASSUME NEW d \in Deploys, TypeOK, RequestNext(d)
  PROVE  TypeOK'
<1> USE DEF TypeOK
<1>1. trig[d] \in Request /\ trig[d].prev \in PageStatus
  BY DEF Request
<1>2. \A pc \in {"create", "enqueue", "undo", "restore"} :
        [trig[d] EXCEPT !.pc = pc] \in Request
  BY <1>1 DEF Request
<1>3. CASE TriggerRead(d)
  <2>1. [pc |-> "claim", prev |-> page.status] \in Request
    BY <1>3, PageUpdates DEF TriggerRead, Request
  <2> QED
    BY <1>3, <2>1 DEF TriggerRead
<1>4. CASE TriggerClaim(d)
  <2>1. [page EXCEPT !.status = "deploying"] \in PageRow
    BY PageUpdates DEF PageStatus
  <2> QED
    BY <1>2, <1>4, <2>1, Bounds DEF TriggerClaim
<1>5. CASE TriggerCreate(d)
  BY <1>2, <1>5, Bounds DEF TriggerCreate
<1>6. CASE TriggerCreateFails(d)
  <2>1. left' \in 0..MaxEvents
    BY <1>6, SpendType DEF TriggerCreateFails
  <2> QED
    BY <1>2, <1>6, <2>1 DEF TriggerCreateFails
<1>7. CASE TriggerEnqueue(d)
  BY <1>7, Bounds, QueueUpdates DEF TriggerEnqueue
<1>8. CASE TriggerEnqueueFails(d)
  <2>1. left' \in 0..MaxEvents
    BY <1>8, SpendType DEF TriggerEnqueueFails
  <2> QED
    BY <1>2, <1>8, <2>1, QueueUpdates DEF TriggerEnqueueFails
<1>9. CASE TriggerUndo(d)
  <2>1. [Queued EXCEPT !.status = "failed"] \in Row
    BY Bounds, RowUpdates
  <2> QED
    BY <1>2, <1>9, <2>1 DEF TriggerUndo
<1>10. CASE TriggerRestore(d)
  <2>1. page' \in PageRow
    BY <1>1, <1>10, StatusType DEF TriggerRestore
  <2> QED
    BY <1>10, <2>1, Bounds DEF TriggerRestore
<1>11. CASE TriggerAborts(d)
  <2>1. left' \in 0..MaxEvents
    BY <1>11, SpendType DEF TriggerAborts
  <2> QED
    BY <1>11, <2>1, Bounds DEF TriggerAborts
<1> QED
  BY <1>3, <1>4, <1>5, <1>6, <1>7, <1>8, <1>9, <1>10, <1>11 DEF RequestNext

LEMMA TimeType ==
  ASSUME NEW d \in Deploys, TypeOK, TimeNext(d)
  PROVE  TypeOK'
<1> USE DEF TypeOK
<1>1. CASE FortyMinutesPass(d)
  <2>1. late[d] + 1 \in 0..ReadCap
    BY <1>1, PagesAssumption DEF FortyMinutesPass
  <2> QED
    BY <1>1, <2>1 DEF FortyMinutesPass
<1>2. CASE Redeliver(d)
  BY <1>2, QueueUpdates DEF Redeliver
<1>3. CASE RecoverList(d) \/ RecoverSkip(d)
  BY <1>3 DEF RecoverList, RecoverSkip
<1>4. CASE RecoverMark(d)
  <2>1. [dep[d] EXCEPT !.status = "failed"] \in Row
    BY RowUpdates
  <2> QED
    BY <1>4, <2>1 DEF RecoverMark
<1>5. CASE RecoverPage(d)
  <2>1. page' \in PageRow
    BY <1>5, StatusType DEF RecoverPage, ErrorPage, PageStatus
  <2> QED
    BY <1>5, <2>1 DEF RecoverPage
<1> QED
  BY <1>1, <1>2, <1>3, <1>4, <1>5 DEF TimeNext

LEMMA FetchType ==
  ASSUME NEW d \in Deploys, NEW s \in Slots, TypeOK, Fetch(s, d)
  PROVE  TypeOK'
<1>1. /\ queue' \in [Deploys -> Queue!Message]
      /\ queue[d].ct + 1 \in 0..ReadCap
  BY QueueUpdates DEF Fetch
<1>2. Delivery("load", d, queue[d].ct + 1) \in Slot
  BY <1>1, Deliveries DEF SlotPC
<1> QED
  BY <1>1, <1>2 DEF Fetch, TypeOK

LEMMA DeliveryType ==
  ASSUME NEW s \in Slots, TypeOK, DeliveryNext(s)
  PROVE  TypeOK'
<1> USE DEF TypeOK
<1>1. exec[s] \in Slot /\ exec[s].d \in Deploys /\ FreeSlot \in Slot
  BY SlotUpdates, Deliveries
<1>2. \A pc \in SlotPC : [exec[s] EXCEPT !.pc = pc] \in Slot
  BY <1>1, SlotUpdates
<1>3. CASE Load(s)
  <2>1. [exec[s] EXCEPT !.pc = "loadPage", !.row = dep[exec[s].d]] \in Slot
    BY <1>1 DEF Slot, SlotPC
  <2> QED
    BY <1>2, <1>3, <2>1 DEF Load, Goto, SlotPC
<1>4. CASE LoadPage(s)
  <2>1. [exec[s] EXCEPT !.pc = "start", !.page = page] \in Slot
    BY <1>1, SlotUpdates DEF SlotPC
  <2> QED
    BY <1>4, <2>1 DEF LoadPage
<1>5. CASE LoadFails(s)
  <2>1. left' \in 0..MaxEvents
    BY <1>5, SpendType DEF LoadFails
  <2> QED
    BY <1>2, <1>5, <2>1 DEF LoadFails, Goto, SlotPC
<1>6. CASE Ack(s)
  BY <1>1, <1>6, QueueUpdates DEF Ack
<1>7. CASE AckFails(s)
  <2>1. left' \in 0..MaxEvents
    BY <1>7, SpendType DEF AckFails
  <2> QED
    BY <1>1, <1>7, <2>1 DEF AckFails
<1>8. CASE Nack(s)
  BY <1>1, <1>8, QueueUpdates DEF Nack
<1>9. CASE Shutdown(s)
  <2>1. left' \in 0..MaxEvents
    BY <1>9, SpendType DEF Shutdown
  <2>2. [exec[s] EXCEPT !.cut = TRUE] \in Slot
    BY <1>1, SlotUpdates
  <2> QED
    BY <1>1, <1>9, <2>1, <2>2 DEF Shutdown
<1>10. CASE Crash(s)
  <2>1. left' \in 0..MaxEvents
    BY <1>10, SpendType DEF Crash
  <2> QED
    BY <1>1, <1>10, <2>1 DEF Crash
<1> QED
  BY <1>3, <1>4, <1>5, <1>6, <1>7, <1>8, <1>9, <1>10 DEF DeliveryNext

LEMMA SlotMoves ==
  ASSUME NEW s \in Slots, TypeOK, NEW pc \in SlotPC
  PROVE  /\ Goto(s, pc) => exec' \in [Slots -> Slot]
         /\ \A row \in Row : Save(s, row, pc) =>
              exec' \in [Slots -> Slot] /\ dep' \in [Deploys -> Row]
         /\ \A st \in PageStatus : SetPage(s, st, pc) =>
              exec' \in [Slots -> Slot] /\ page' \in PageRow
<1>1. exec[s] \in Slot /\ exec[s].d \in Deploys
  BY SlotUpdates DEF TypeOK
<1>2. Goto(s, pc) => exec' \in [Slots -> Slot]
  <2>1. [exec[s] EXCEPT !.pc = pc] \in Slot
    BY <1>1, SlotUpdates
  <2> QED
    BY <2>1 DEF Goto, TypeOK
<1>3. ASSUME NEW row \in Row, Save(s, row, pc)
      PROVE  exec' \in [Slots -> Slot] /\ dep' \in [Deploys -> Row]
  <2>1. [exec[s] EXCEPT !.row = row, !.pc = pc] \in Slot
    BY <1>1, SlotUpdates
  <2> QED
    BY <1>1, <1>3, <2>1 DEF Save, TypeOK
<1>4. ASSUME NEW st \in PageStatus, SetPage(s, st, pc)
      PROVE  exec' \in [Slots -> Slot] /\ page' \in PageRow
  <2>1. [exec[s].page EXCEPT !.status = st] \in PageRow
    BY <1>1, SlotUpdates, PageUpdates
  <2>2. [exec[s] EXCEPT !.page.status = st, !.pc = pc] \in Slot
    BY <1>1, <2>1 DEF Slot
  <2>3. page' \in PageRow
    BY <1>4, StatusType DEF SetPage, TypeOK
  <2> QED
    BY <1>4, <2>2, <2>3 DEF SetPage, TypeOK
<1> QED
  BY <1>2, <1>3, <1>4

LEMMA JobType ==
  ASSUME NEW s \in Slots, TypeOK, JobNext(s)
  PROVE  TypeOK'
<1>1. /\ exec[s] \in Slot /\ exec[s].d \in Deploys /\ exec[s].n \in 0..ReadCap
      /\ exec[s].row \in Row /\ exec[s].page \in PageRow
      /\ exec \in [Slots -> Slot]
  BY SlotUpdates DEF TypeOK
<1>2. CASE Start(s)
  <2>1. [status |-> "deploying", started |-> exec[s].n] \in Row
    BY <1>1 DEF Row
  <2> QED
    BY <1>2, <2>1, SlotMoves DEF Start, SlotPC, TypeOK
<1>3. CASE StartPage(s) \/ SucceedPage(s) \/ FailPage(s)
  BY <1>3, SlotMoves DEF StartPage, SucceedPage, FailPage, SlotPC, PageStatus, TypeOK
<1>4. CASE Log(s) \/ Prepare(s) \/ SkipUnchanged(s)
  BY <1>1, <1>4, SlotMoves DEF Log, Prepare, SkipUnchanged, SlotPC, TypeOK
<1>5. CASE Provision(s)
  <2>1. ASSUME exec[s].page.site = NoSite
        PROVE  exec' \in [Slots -> Slot]
    <3>1. <<exec[s].d, exec[s].n>> \in Sites
      BY <1>1 DEF Sites
    <3>2. [exec[s].page EXCEPT !.site = <<exec[s].d, exec[s].n>>] \in PageRow
      BY <1>1, <3>1, PageUpdates
    <3>3. [exec[s] EXCEPT !.page.site = <<exec[s].d, exec[s].n>>, !.pc = "save"] \in Slot
      BY <1>1, <3>2 DEF Slot, SlotPC
    <3> QED
      BY <1>1, <1>5, <2>1, <3>3 DEF Provision
  <2>2. ASSUME exec[s].page.site # NoSite
        PROVE  exec' \in [Slots -> Slot]
    <3>1. [exec[s] EXCEPT !.pc = "upload"] \in Slot
      BY <1>1, SlotUpdates DEF SlotPC
    <3> QED
      BY <1>1, <1>5, <2>2, <3>1 DEF Provision
  <2> QED
    BY <1>5, <2>1, <2>2 DEF Provision, TypeOK
<1>6. CASE SaveRuntime(s)
  <2>1. page' \in PageRow
    BY <1>1, <1>6, PageUpdates DEF SaveRuntime, TypeOK
  <2> QED
    BY <1>6, <2>1, SlotMoves DEF SaveRuntime, SlotPC, TypeOK
<1>7. CASE Upload(s) \/ StepFails(s)
  BY <1>7, SlotMoves DEF Upload, StepFails, SlotPC, TypeOK
<1>8. CASE Succeed(s) \/ Fail(s)
  <2>1. \A st \in {"success", "failed"} : [exec[s].row EXCEPT !.status = st] \in Row
    BY <1>1, RowUpdates
  <2> QED
    BY <1>8, <2>1, SlotMoves DEF Succeed, Fail, SlotPC, TypeOK
<1> QED
  BY <1>2, <1>3, <1>4, <1>5, <1>6, <1>7, <1>8 DEF JobNext

LEMMA SettingsType ==
  ASSUME TypeOK, (\E x \in Editors : EditRead(x) \/ EditWrite(x)) \/ DeleteRead \/ DeleteRow
  PROVE  TypeOK'
<1> USE DEF TypeOK
<1>1. ASSUME NEW x \in Editors, EditRead(x) PROVE TypeOK'
  <2>1. left' \in 0..MaxEvents
    BY <1>1, SpendType DEF EditRead
  <2>2. MaxEvents - left + 1 \in 0..MaxEvents
    BY <1>1, PagesAssumption DEF EditRead, Spend
  <2>3. [page EXCEPT !.target = MaxEvents - left + 1] \in PageRow
    BY <2>2, PageUpdates
  <2>4. \A b \in BOOLEAN, p \in PageRow :
          [pc |-> "write", retarget |-> b, row |-> p] \in Edit
    BY DEF Edit
  <2> QED
    BY <1>1, <2>1, <2>3, <2>4 DEF EditRead
<1>2. ASSUME NEW x \in Editors, EditWrite(x) PROVE TypeOK'
  <2>1. edit[x].row \in PageRow
    BY DEF Edit
  <2>2. page' \in PageRow
    BY <1>2, <2>1, PageUpdates DEF EditWrite, Stored
  <2> QED
    BY <1>2, <2>2, Bounds DEF EditWrite
<1>3. CASE DeleteRead
  BY <1>3, SpendType DEF DeleteRead
<1>4. CASE DeleteRow
  <2>1. page' \in PageRow
    BY <1>4, PageUpdates DEF DeleteRow, Deleted
  <2> QED
    BY <1>4, <2>1, Bounds DEF DeleteRow
<1> QED
  BY <1>1, <1>2, <1>3, <1>4

(* The types of the pages hold in every state.                             *)
THEOREM PageTypeCorrect == Spec => []TypeOK
<1>1. Init => TypeOK
  <2>1. Queue!QueueInit => queue \in [Deploys -> Queue!Message]
    BY Bounds DEF Queue!QueueInit, Queue!Message, Queue!Places
  <2>2. [pc |-> "idle", prev |-> "idle"] \in Request
    BY DEF Request, PageStatus
  <2> QED
    BY <2>1, <2>2, Bounds, Deliveries, PagesAssumption DEF Init, TypeOK
<1>2. TypeOK /\ [Next]_vars => TypeOK'
  <2>1. CASE UNCHANGED vars
    BY <2>1 DEF vars, TypeOK
  <2> QED
    BY <2>1, RequestType, TimeType, FetchType, DeliveryType, JobType, SettingsType DEF Next
<1> QED
  BY <1>1, <1>2, PTL DEF Spec

-----------------------------------------------------------------------------
(* The lock *)

Outside == {"load", "ack", "nack"}   \* RunJob has not begun, or has returned
Busy(s, d) == Runs(s, d) /\ exec[s].pc \notin Outside

(* The request, the row, the recovery or the job of d may still take the   *)
(* page out of deploying.                                                  *)
Owns(d) ==
  \/ trig[d].pc \in {"create", "enqueue", "undo", "restore"}
  \/ InFlight(d)
  \/ recov[d] = "page"
  \/ \E s \in Slots : Busy(s, d)

Sent(d) == queue[d].st # "unsent"

(* What a deployment has not done before its job is sent.                  *)
BeforeSent(d) ==
  /\ trig[d].pc # "done" => ~Sent(d)
  /\ trig[d].pc \in {"idle", "claim", "create"} => dep[d].status = "none"
  /\ trig[d].pc = "restore" => dep[d].status \in {"none", "failed"}
  /\ recov[d] # "idle" => Sent(d)
  /\ dep[d].status = "deploying" => Sent(d)

(* The stale recovery, or a job that writes its last status of the page,   *)
(* is the only one left to write for d.                                    *)
LastWriter(d) ==
  /\ recov[d] = "page" => ~InFlight(d) /\ \A s \in Slots : ~Busy(s, d)
  /\ \A s \in Slots :
       Runs(s, d) /\ exec[s].pc \in {"succeedPage", "failPage"} /\ ~exec[s].cut
         => ~InFlight(d)

(* A deployment that owns the page holds its lock, and is the only one.    *)
Locked ==
  \A d \in Deploys :
    Owns(d) => page.status = "deploying" /\ \A e \in Deploys : Owns(e) => d = e

OneSlot == \A d \in Deploys : \A s, t \in Slots : Runs(s, d) /\ Runs(t, d) => s = t
JobIsSent == \A d \in Deploys : \A s \in Slots : Runs(s, d) => Sent(d)
Ordered == \A d \in Deploys : BeforeSent(d) /\ LastWriter(d)

(* The inductive invariant.                                                *)
LockInv == JobIsSent /\ (strays = {} => OneSlot /\ Locked /\ Ordered)

LEMMA LockInit == Init => LockInv
<1>1. Init => /\ \A s \in Slots, d \in Deploys : ~Runs(s, d)
              /\ \A d \in Deploys : /\ ~Sent(d) /\ recov[d] = "idle"
                                    /\ trig[d].pc = "idle" /\ dep[d].status = "none"
  <2>1. FreeSlot.pc = "idle" /\ NoRow.status = "none"
    BY DEF FreeSlot, Delivery, NoRow
  <2> QED
    BY <2>1 DEF Init, Runs, Sent, Queue!QueueInit
<1>2. Init => \A d \in Deploys : ~Owns(d) /\ BeforeSent(d) /\ LastWriter(d)
  BY <1>1 DEF Owns, Busy, InFlight, BeforeSent, LastWriter
<1> QED
  BY <1>1, <1>2 DEF LockInv, JobIsSent, OneSlot, Locked, Ordered

(* A step of slot s that leaves requests and recoveries alone.             *)
LEMMA SlotStep ==
  ASSUME NEW s \in Slots, NEW d \in Deploys, LockInv, Runs(s, d),
         strays' = strays,
         \A e \in Deploys : /\ trig'[e] = trig[e] /\ recov'[e] = recov[e]
                            /\ Sent(e)' <=> Sent(e)
                            /\ e # d => dep'[e] = dep[e],
         \A t \in Slots \ {s} : exec'[t] = exec[t],
         exec'[s].pc = "idle" \/ exec'[s].d = d,
         dep'[d] = dep[d] \/ Busy(s, d),
         Busy(s, d)' => Busy(s, d) \/ InFlight(d),
         Busy(s, d)' /\ exec'[s].pc \in {"succeedPage", "failPage"} /\ ~exec'[s].cut
           => ~InFlight(d)',
         \/ page'.status = page.status
         \/ Busy(s, d) /\ ~Busy(s, d)' /\ ~InFlight(d)'
  PROVE  LockInv'
<1>1. /\ \A t \in Slots, e \in Deploys : Runs(t, e)' => Runs(t, e)
      /\ \A t \in Slots, e \in Deploys :
           t # s => (Runs(t, e)' <=> Runs(t, e)) /\ (Busy(t, e)' <=> Busy(t, e))
      /\ \A e \in Deploys : Busy(s, e)' => e = d
  BY DEF Runs, Busy
<1>2. JobIsSent'
  BY <1>1 DEF LockInv, JobIsSent
<1> SUFFICES ASSUME strays = {} PROVE (OneSlot /\ Locked /\ Ordered)'
  BY <1>2 DEF LockInv
<1>3. OneSlot /\ Locked /\ Ordered /\ Sent(d)
  BY DEF LockInv, JobIsSent
<1>4. trig[d].pc = "done" /\ \A t \in Slots : Runs(t, d) => t = s
  BY <1>3 DEF Ordered, BeforeSent, OneSlot
<1>5. OneSlot'
  BY <1>1, <1>3 DEF OneSlot
<1>6. \A e \in Deploys : e # d => (Owns(e)' <=> Owns(e)) /\ (InFlight(e)' <=> InFlight(e))
  BY <1>1 DEF Owns, InFlight, Busy, Runs
<1>7. Owns(d)' => Owns(d)
  BY <1>1, <1>4 DEF Owns, InFlight
<1>8. Locked'
  <2>1. CASE page'.status = page.status
    BY <1>3, <1>6, <1>7, <2>1 DEF Locked
  <2>2. CASE Busy(s, d) /\ ~Busy(s, d)' /\ ~InFlight(d)'
    <3>1. Owns(d) /\ recov[d] # "page"
      BY <1>3, <2>2 DEF Owns, Ordered, LastWriter
    <3>2. \A t \in Slots : ~Busy(t, d)'
      BY <1>1, <1>4, <2>2 DEF Busy
    <3>3. ~Owns(d)'
      BY <1>4, <2>2, <3>1, <3>2 DEF Owns
    <3> QED
      BY <1>3, <1>6, <3>1, <3>3 DEF Locked
  <2> QED
    BY <2>1, <2>2
<1>9. \A e \in Deploys : BeforeSent(e)'
  <2>1. BeforeSent(d)'
    BY <1>3, <1>4 DEF BeforeSent
  <2> QED
    BY <1>3, <2>1 DEF Ordered, BeforeSent, Sent
<1>10. \A e \in Deploys : LastWriter(e)'
  <2>1. LastWriter(d)'
    <3>1. recov[d] = "page" => ~InFlight(d) /\ \A t \in Slots : ~Busy(t, d)
      BY <1>3 DEF Ordered, LastWriter
    <3>2. recov'[d] = "page" => ~InFlight(d)' /\ \A t \in Slots : ~Busy(t, d)'
      BY <1>1, <3>1 DEF InFlight
    <3>3. \A t \in Slots : Runs(t, d)' => t = s
      BY <1>1, <1>4
    <3> QED
      BY <3>2, <3>3 DEF LastWriter, Busy, Outside
  <2>2. ASSUME NEW e \in Deploys, e # d PROVE LastWriter(e)'
    BY <1>1, <1>3, <1>6, <2>2 DEF Ordered, LastWriter, Runs
  <2> QED
    BY <2>1, <2>2
<1> QED
  BY <1>5, <1>8, <1>9, <1>10 DEF Ordered

LEMMA SlotPointwise ==
  ASSUME NEW s \in Slots, TypeOK
  PROVE  /\ \A pc \in SlotPC : Goto(s, pc) =>
              /\ exec'[s].pc = pc /\ exec'[s].d = exec[s].d /\ exec'[s].cut = exec[s].cut
              /\ \A t \in Slots \ {s} : exec'[t] = exec[t]
         /\ \A pc \in SlotPC, row \in Row : Save(s, row, pc) =>
              /\ exec'[s].pc = pc /\ exec'[s].d = exec[s].d /\ exec'[s].cut = exec[s].cut
              /\ \A t \in Slots \ {s} : exec'[t] = exec[t]
              /\ \A e \in Deploys : e # exec[s].d => dep'[e] = dep[e]
              /\ ~exec[s].cut => dep'[exec[s].d].status \in {row.status, "none"}
         /\ \A pc \in SlotPC, st \in PageStatus : SetPage(s, st, pc) =>
              /\ exec'[s].pc = pc /\ exec'[s].d = exec[s].d /\ exec'[s].cut = exec[s].cut
              /\ \A t \in Slots \ {s} : exec'[t] = exec[t]
              /\ \/ page' = page
                 \/ ~exec[s].cut /\ page'.status = st /\ page.status # "gone"
<1>1. /\ exec \in [Slots -> Slot] /\ exec[s] \in Slot /\ exec[s].d \in Deploys
      /\ dep \in [Deploys -> Row] /\ page \in PageRow
  BY SlotUpdates DEF TypeOK
<1>2. ASSUME NEW pc \in SlotPC, Goto(s, pc)
      PROVE  /\ exec'[s].pc = pc /\ exec'[s].d = exec[s].d /\ exec'[s].cut = exec[s].cut
             /\ \A t \in Slots \ {s} : exec'[t] = exec[t]
  BY <1>1, <1>2 DEF Goto, Slot
<1>3. ASSUME NEW pc \in SlotPC, NEW row \in Row, Save(s, row, pc)
      PROVE  /\ exec'[s].pc = pc /\ exec'[s].d = exec[s].d /\ exec'[s].cut = exec[s].cut
             /\ \A t \in Slots \ {s} : exec'[t] = exec[t]
             /\ \A e \in Deploys : e # exec[s].d => dep'[e] = dep[e]
             /\ ~exec[s].cut => dep'[exec[s].d].status \in {row.status, "none"}
  BY <1>1, <1>3 DEF Save, Slot
<1>4. ASSUME NEW pc \in SlotPC, NEW st \in PageStatus, SetPage(s, st, pc)
      PROVE  /\ exec'[s].pc = pc /\ exec'[s].d = exec[s].d /\ exec'[s].cut = exec[s].cut
             /\ \A t \in Slots \ {s} : exec'[t] = exec[t]
             /\ \/ page' = page
                \/ ~exec[s].cut /\ page'.status = st /\ page.status # "gone"
  <2>1. /\ exec'[s].pc = pc /\ exec'[s].d = exec[s].d /\ exec'[s].cut = exec[s].cut
        /\ \A t \in Slots \ {s} : exec'[t] = exec[t]
    BY <1>1, <1>4 DEF SetPage, Slot
  <2>2. \/ page' = page
        \/ ~exec[s].cut /\ page'.status = st /\ page.status # "gone"
    BY <1>1, <1>4 DEF SetPage, SetStatus, PageRow
  <2> QED
    BY <2>1, <2>2
<1> QED
  BY <1>2, <1>3, <1>4

LEMMA DeliveryLock ==
  ASSUME NEW s \in Slots, TypeOK, LockInv, DeliveryNext(s)
  PROVE  LockInv'
<1>0. PICK d \in Deploys : exec[s].d = d
  BY SlotUpdates DEF TypeOK
<1>1. /\ exec[s].d = d /\ exec \in [Slots -> Slot] /\ exec[s] \in Slot
      /\ queue \in [Deploys -> Queue!Message]
  BY <1>0, SlotUpdates DEF TypeOK
<1>2. Runs(s, d) /\ strays' = strays
  BY <1>1 DEF DeliveryNext, Runs, Load, LoadPage, LoadFails, Ack, AckFails, Nack, Shutdown, Crash
<1>3. \A e \in Deploys : /\ trig'[e] = trig[e] /\ recov'[e] = recov[e] /\ dep'[e] = dep[e]
                         /\ page' = page
  BY DEF DeliveryNext, Load, LoadPage, LoadFails, Ack, AckFails, Nack, Shutdown, Crash
<1>4. \A e \in Deploys : Sent(e)' <=> Sent(e)
  BY <1>1 DEF DeliveryNext, Load, LoadPage, LoadFails, Ack, AckFails, Nack, Shutdown, Crash,
              Sent, Queue!Delete, Queue!Archive, Queue!Held, Queue!Message
<1>5. FreeSlot.pc = "idle"
  BY DEF FreeSlot, Delivery
<1>6. /\ \A t \in Slots \ {s} : exec'[t] = exec[t]
      /\ exec'[s].pc = "idle" \/ exec'[s].d = d
      /\ Busy(s, d)' => Busy(s, d) \/ InFlight(d)
      /\ exec'[s].pc \in {"succeedPage", "failPage"} => exec'[s].cut
  <2>1. CASE Load(s)
    <3>1. /\ exec'[s].pc \in {"ack", "loadPage"} /\ exec'[s].d = d
          /\ \A t \in Slots \ {s} : exec'[t] = exec[t]
          /\ exec'[s].pc = "loadPage" => dep[d].status \notin {"none"} \cup Terminal
      BY <1>1, <2>1 DEF Load, Goto, Slot
    <3>2. dep[d].status \notin {"none"} \cup Terminal => InFlight(d)
      BY <1>1 DEF TypeOK, Row, InFlight
    <3> QED
      BY <3>1, <3>2 DEF Busy, Outside
  <2>2. CASE LoadPage(s)
    BY <1>1, <2>2 DEF LoadPage, Slot, Busy, Outside, Runs
  <2>3. CASE LoadFails(s)
    BY <1>1, <2>3 DEF LoadFails, Goto, Slot, Busy, Outside
  <2>4. CASE Shutdown(s)
    BY <1>1, <2>4 DEF Shutdown, Slot, Busy, Outside, Runs
  <2>5. CASE Ack(s) \/ AckFails(s) \/ Nack(s) \/ Crash(s)
    <3>1. exec' = [exec EXCEPT ![s] = FreeSlot]
      BY <2>5 DEF Ack, AckFails, Nack, Crash
    <3> QED
      BY <1>1, <1>5, <3>1 DEF Busy, Runs
  <2> QED
    BY <2>1, <2>2, <2>3, <2>4, <2>5 DEF DeliveryNext
<1> QED
  BY <1>1, <1>2, <1>3, <1>4, <1>6, SlotStep

LEMMA JobLock ==
  ASSUME NEW s \in Slots, TypeOK, LockInv, JobNext(s)
  PROVE  LockInv'
<1>0. PICK d \in Deploys : exec[s].d = d
  BY SlotUpdates DEF TypeOK
<1>1. /\ exec[s].d = d /\ exec \in [Slots -> Slot] /\ exec[s] \in Slot
      /\ exec[s].row \in Row /\ exec[s].n \in 0..ReadCap /\ page \in PageRow
  BY <1>0, SlotUpdates DEF TypeOK
<1>2. /\ Busy(s, d) /\ Runs(s, d)
      /\ strays' = strays
  BY <1>1 DEF JobNext, Busy, Outside, Runs, Start, StartPage, Log, Prepare, SkipUnchanged,
              Provision, SaveRuntime, Upload, StepFails, Succeed, SucceedPage, Fail,
              FailPage, Phases
<1>3. \A e \in Deploys : /\ trig'[e] = trig[e] /\ recov'[e] = recov[e]
                         /\ Sent(e)' <=> Sent(e)
  BY DEF JobNext, Start, StartPage, Log, Prepare, SkipUnchanged,
         Provision, SaveRuntime, Upload, StepFails, Succeed, SucceedPage, Fail,
         FailPage, Sent
<1>4. ASSUME \A t \in Slots \ {s} : exec'[t] = exec[t], exec'[s].d = d,
             \A e \in Deploys : e # d => dep'[e] = dep[e],
             exec'[s].pc \in {"succeedPage", "failPage"} /\ ~exec'[s].cut
               => ~InFlight(d)',
             page'.status = page.status \/ (exec'[s].pc = "ack" /\ ~InFlight(d)')
      PROVE  LockInv'
  <2>1. exec'[s].pc = "ack" => ~Busy(s, d)'
    BY DEF Busy, Outside
  <2> QED
    BY <1>2, <1>3, <1>4, <2>1, SlotStep
<1>5. CASE StartPage(s)
  <2>1. /\ exec'[s].pc = "prepare" /\ exec'[s].d = d /\ dep' = dep
        /\ \A t \in Slots \ {s} : exec'[t] = exec[t]
        /\ page' = page \/ (page'.status = "deploying" /\ page.status # "gone")
    BY <1>1, <1>5, SlotPointwise DEF StartPage, SlotPC, PageStatus
  <2>2. strays = {} => page.status = "deploying"
    BY <1>2 DEF LockInv, Locked, Owns
  <2>3. CASE strays = {}
    BY <1>4, <2>1, <2>2, <2>3
  <2>4. CASE strays # {}
    <3>1. \A t \in Slots, e \in Deploys : Runs(t, e)' => Runs(t, e)
      BY <1>1, <1>2, <2>1 DEF Runs
    <3> QED
      BY <1>2, <1>3, <2>4, <3>1 DEF LockInv, JobIsSent
  <2> QED
    BY <2>3, <2>4
<1>6. CASE Start(s) \/ Log(s) \/ Prepare(s) \/ SkipUnchanged(s)
  <2>1. PICK pc \in SlotPC \ {"succeedPage", "failPage"}, row \in Row : Save(s, row, pc)
    <3>1. [status |-> "deploying", started |-> exec[s].n] \in Row
      BY <1>1 DEF Row
    <3> QED
      BY <1>1, <1>6, <3>1 DEF Start, Log, Prepare, SkipUnchanged, SlotPC
  <2>2. page' = page
    BY <1>6 DEF Start, Log, Prepare, SkipUnchanged
  <2> QED
    BY <1>1, <1>4, <2>1, <2>2, SlotPointwise
<1>7. CASE Succeed(s) \/ Fail(s)
  <2>1. PICK pc \in SlotPC, row \in Row : Save(s, row, pc) /\ row.status \in Terminal
    <3>1. \A st \in Terminal : /\ [exec[s].row EXCEPT !.status = st] \in Row
                               /\ [exec[s].row EXCEPT !.status = st].status \in Terminal
      BY <1>1 DEF Row, Terminal
    <3> QED
      BY <1>7, <3>1 DEF Succeed, Fail, SlotPC, Terminal
  <2>2. ~exec[s].cut => ~InFlight(d)'
    BY <1>1, <2>1, SlotPointwise DEF InFlight, Terminal
  <2>3. page' = page
    BY <1>7 DEF Succeed, Fail
  <2> QED
    BY <1>1, <1>4, <2>1, <2>2, <2>3, SlotPointwise
<1>8. CASE SucceedPage(s) \/ FailPage(s)
  <2>1. /\ exec'[s].pc = "ack" /\ exec'[s].d = d /\ dep' = dep
        /\ \A t \in Slots \ {s} : exec'[t] = exec[t]
        /\ page' = page \/ ~exec[s].cut
    BY <1>1, <1>8, SlotPointwise DEF SucceedPage, FailPage, SlotPC, PageStatus
  <2>2. strays = {} /\ ~exec[s].cut => ~InFlight(d)'
    <3>1. exec[s].pc \in {"succeedPage", "failPage"}
      BY <1>8 DEF SucceedPage, FailPage
    <3> QED
      BY <1>2, <2>1, <3>1 DEF LockInv, Ordered, LastWriter, InFlight
  <2>3. CASE strays = {}
    BY <1>4, <2>1, <2>2, <2>3
  <2>4. CASE strays # {}
    <3>1. \A t \in Slots, e \in Deploys : Runs(t, e)' => Runs(t, e)
      BY <1>1, <1>2, <2>1 DEF Runs
    <3> QED
      BY <1>2, <1>3, <2>4, <3>1 DEF LockInv, JobIsSent
  <2> QED
    BY <2>3, <2>4
<1>9. CASE Provision(s)
  BY <1>1, <1>4, <1>9 DEF Provision, Slot
<1>10. CASE SaveRuntime(s)
  <2>1. page'.status = page.status
    BY <1>1, <1>10 DEF SaveRuntime, PageRow
  <2> QED
    BY <1>1, <1>4, <1>10, <2>1, SlotPointwise DEF SaveRuntime, SlotPC
<1>11. CASE Upload(s) \/ StepFails(s)
  BY <1>1, <1>4, <1>11, SlotPointwise DEF Upload, StepFails, SlotPC
<1> QED
  BY <1>5, <1>6, <1>7, <1>8, <1>9, <1>10, <1>11 DEF JobNext

LEMMA FetchLock ==
  ASSUME NEW d \in Deploys, NEW s \in Slots, TypeOK, LockInv, Fetch(s, d)
  PROVE  LockInv'
<1>1. /\ exec \in [Slots -> Slot] /\ queue \in [Deploys -> Queue!Message]
      /\ exec[s].pc = "idle"
  BY DEF TypeOK, Fetch
<1>2. /\ exec'[s].pc = "load" /\ exec'[s].d = d
      /\ \A t \in Slots \ {s} : exec'[t] = exec[t]
  BY <1>1 DEF Fetch, Delivery
<1>3. /\ Sent(d) /\ \A e \in Deploys : Sent(e)' <=> Sent(e)
  BY <1>1 DEF Fetch, Queue!Read, Sent, Queue!Message
<1>4. /\ \A t \in Slots, e \in Deploys : Runs(t, e)' <=> Runs(t, e) \/ (t = s /\ e = d)
      /\ \A t \in Slots, e \in Deploys : Busy(t, e)' <=> Busy(t, e)
  BY <1>1, <1>2 DEF Runs, Busy, Outside
<1>5. JobIsSent'
  BY <1>3, <1>4 DEF LockInv, JobIsSent
<1> SUFFICES ASSUME strays' = {} PROVE (OneSlot /\ Locked /\ Ordered)'
  BY <1>5 DEF LockInv
<1>6. strays = {} /\ \A t \in Slots : ~Runs(t, d)
  BY DEF Fetch
<1>7. OneSlot /\ Locked /\ Ordered
  BY <1>6 DEF LockInv
<1>8. OneSlot'
  BY <1>4, <1>6, <1>7 DEF OneSlot
<1>9. page' = page /\ dep' = dep /\ trig' = trig /\ recov' = recov
  BY DEF Fetch
<1>10. Locked'
  BY <1>4, <1>7, <1>9 DEF Locked, Owns, InFlight
<1>11. \A e \in Deploys : BeforeSent(e)' /\ LastWriter(e)'
  <2>1. \A e \in Deploys : BeforeSent(e)'
    BY <1>3, <1>7, <1>9 DEF Ordered, BeforeSent
  <2>2. \A e \in Deploys : LastWriter(e)'
    BY <1>2, <1>4, <1>7, <1>9 DEF Ordered, LastWriter, InFlight
  <2> QED
    BY <2>1, <2>2
<1> QED
  BY <1>8, <1>10, <1>11 DEF Ordered

(* A step of the request or the recovery of d.                             *)
LEMMA OtherStep ==
  ASSUME NEW d \in Deploys, TypeOK, LockInv, exec' = exec, strays = {}, strays' = {},
         \A e \in Deploys : /\ Sent(e) => Sent(e)'
                            /\ e # d => /\ trig'[e] = trig[e] /\ recov'[e] = recov[e]
                                        /\ dep'[e] = dep[e] /\ (Sent(e)' <=> Sent(e)),
         BeforeSent(d)', LastWriter(d)',
         \/ page'.status = page.status /\ (Owns(d)' => Owns(d))
         \/ page.status # "deploying" /\ page'.status = "deploying"
         \/ Owns(d) /\ ~Owns(d)'
  PROVE  LockInv'
<1>1. OneSlot /\ Locked /\ Ordered /\ JobIsSent
  BY DEF LockInv
<1>2. \A t \in Slots, e \in Deploys : /\ Runs(t, e)' <=> Runs(t, e)
                                      /\ Busy(t, e)' <=> Busy(t, e)
  BY DEF Runs, Busy
<1>3. JobIsSent' /\ OneSlot'
  BY <1>1, <1>2 DEF JobIsSent, OneSlot
<1>4. \A e \in Deploys : e # d => (Owns(e)' <=> Owns(e)) /\ (InFlight(e)' <=> InFlight(e))
  BY <1>2 DEF Owns, InFlight
<1>5. Locked'
  BY <1>1, <1>4 DEF Locked
<1>6. \A e \in Deploys : e # d => BeforeSent(e)' /\ LastWriter(e)'
  <2>1. \A e \in Deploys : e # d => BeforeSent(e)'
    BY <1>1 DEF Ordered, BeforeSent
  <2>2. \A e \in Deploys : e # d => LastWriter(e)'
    BY <1>1, <1>2, <1>4 DEF Ordered, LastWriter
  <2> QED
    BY <2>1, <2>2
<1> QED
  BY <1>3, <1>5, <1>6 DEF LockInv, Ordered

LEMMA NotSent ==
  ASSUME NEW d \in Deploys, LockInv, ~Sent(d)
  PROVE  \A s \in Slots : ~Runs(s, d) /\ ~Busy(s, d)
BY DEF LockInv, JobIsSent, Busy

LEMMA StillSent ==
  ASSUME LockInv, exec' = exec, \A e \in Deploys : Sent(e) => Sent(e)', strays' # {}
  PROVE  LockInv'
BY DEF LockInv, JobIsSent, Runs

LEMMA RequestLock ==
  ASSUME NEW d \in Deploys, TypeOK, LockInv, RequestNext(d)
  PROVE  LockInv'
<1>1. /\ trig \in [Deploys -> Request] /\ trig[d] \in Request
      /\ dep \in [Deploys -> Row] /\ dep[d] \in Row
      /\ queue \in [Deploys -> Queue!Message] /\ page \in PageRow
  BY DEF TypeOK
<1>2. /\ exec' = exec /\ recov' = recov /\ strays \subseteq strays'
      /\ \A e \in Deploys : /\ Sent(e) => Sent(e)'
                            /\ e # d => /\ trig'[e] = trig[e] /\ dep'[e] = dep[e]
                                        /\ (Sent(e)' <=> Sent(e))
  <2>1. exec' = exec /\ recov' = recov /\ strays \subseteq strays'
    BY DEF RequestNext, TriggerRead, TriggerClaim, TriggerCreate, TriggerCreateFails,
           TriggerEnqueue, TriggerEnqueueFails, TriggerUndo, TriggerRestore, TriggerAborts
  <2>2. \A e \in Deploys : Sent(e) => Sent(e)'
    BY <1>1 DEF RequestNext, TriggerRead, TriggerClaim, TriggerCreate, TriggerCreateFails,
           TriggerEnqueue, TriggerEnqueueFails, TriggerUndo, TriggerRestore, TriggerAborts,
           Queue!Enqueue, Sent
  <2>3. \A e \in Deploys : e # d => trig'[e] = trig[e] /\ dep'[e] = dep[e]
                                    /\ (Sent(e)' <=> Sent(e))
    BY <1>1 DEF RequestNext, TriggerRead, TriggerClaim, TriggerCreate, TriggerCreateFails,
           TriggerEnqueue, TriggerEnqueueFails, TriggerUndo, TriggerRestore, TriggerAborts,
           Queue!Enqueue, Sent
  <2> QED
    BY <2>1, <2>2, <2>3
<1> SUFFICES ASSUME strays' = {} PROVE LockInv'
  BY <1>2, StillSent
<1>3. strays = {} /\ BeforeSent(d) /\ LastWriter(d)
  BY <1>2 DEF LockInv, Ordered
<1>4. /\ trig[d].pc # "done"
      /\ ~Sent(d) /\ recov[d] = "idle" /\ dep[d].status # "deploying"
      /\ \A t \in Slots : ~Runs(t, d) /\ ~Busy(t, d)
  <2>1. trig[d].pc # "done"
    BY DEF RequestNext, TriggerRead, TriggerClaim, TriggerCreate, TriggerCreateFails,
           TriggerEnqueue, TriggerEnqueueFails, TriggerUndo, TriggerRestore, TriggerAborts
  <2> QED
    BY <1>3, <2>1, NotSent DEF BeforeSent
<1>5. LastWriter(d)'
  BY <1>2, <1>4 DEF LastWriter, Runs
<1>6. \A t \in Slots : ~Busy(t, d)'
  BY <1>2, <1>4 DEF Busy, Runs
<1>7. ASSUME BeforeSent(d)',
             \/ page'.status = page.status /\ (Owns(d)' => Owns(d))
             \/ page.status # "deploying" /\ page'.status = "deploying"
             \/ Owns(d) /\ ~Owns(d)'
      PROVE  LockInv'
  BY <1>2, <1>3, <1>5, <1>7, OtherStep
<1>8. CASE TriggerRead(d)
  <2>1. trig'[d].pc = "claim" /\ trig[d].pc = "idle"
    BY <1>1, <1>8 DEF TriggerRead
  <2>2. dep' = dep /\ queue' = queue /\ page' = page
    BY <1>8 DEF TriggerRead
  <2> QED
    BY <1>2, <1>3, <1>6, <1>7, <2>1, <2>2 DEF BeforeSent, Sent, Owns, InFlight
<1>9. CASE TriggerClaim(d)
  <2>1. /\ dep' = dep /\ queue' = queue /\ trig[d].pc = "claim"
        /\ \/ /\ trig'[d].pc = "create" /\ page'.status = "deploying"
              /\ page.status # "deploying"
           \/ trig'[d].pc = "done" /\ page' = page
    BY <1>1, <1>9 DEF TriggerClaim, Claimable, Request, Ended, PageRow
  <2> QED
    BY <1>2, <1>3, <1>6, <1>7, <2>1 DEF BeforeSent, Sent, Owns, InFlight
<1>10. CASE TriggerCreate(d)
  <2>1. /\ trig'[d].pc = "enqueue" /\ trig[d].pc = "create" /\ dep'[d].status = "queued"
        /\ queue' = queue /\ page' = page
    BY <1>1, <1>10 DEF TriggerCreate, Request, Queued
  <2> QED
    BY <1>2, <1>3, <1>4, <1>7, <2>1 DEF BeforeSent, Sent, Owns
<1>11. CASE TriggerCreateFails(d)
  <2>1. /\ trig'[d].pc = "restore" /\ trig[d].pc = "create"
        /\ dep' = dep /\ queue' = queue /\ page' = page
    BY <1>1, <1>11 DEF TriggerCreateFails, Request
  <2> QED
    BY <1>2, <1>3, <1>7, <2>1 DEF BeforeSent, Sent, Owns
<1>12. CASE TriggerEnqueue(d)
  <2>1. /\ trig'[d].pc = "done" /\ trig[d].pc = "enqueue" /\ Sent(d)'
        /\ dep' = dep /\ page' = page
    BY <1>1, <1>12 DEF TriggerEnqueue, Ended, Queue!Enqueue, Sent
  <2> QED
    BY <1>2, <1>3, <1>7, <2>1 DEF BeforeSent, Owns
<1>13. CASE TriggerEnqueueFails(d)
  <2>1. /\ trig'[d].pc = "undo" /\ trig[d].pc = "enqueue"
        /\ dep' = dep /\ queue' = queue /\ page' = page
    BY <1>1, <1>13 DEF TriggerEnqueueFails, Request
  <2> QED
    BY <1>2, <1>3, <1>7, <2>1 DEF BeforeSent, Sent, Owns
<1>14. CASE TriggerUndo(d)
  <2>1. /\ trig'[d].pc = "restore" /\ trig[d].pc = "undo"
        /\ dep'[d].status \in {"none", "failed"} /\ queue' = queue /\ page' = page
    BY <1>1, <1>14 DEF TriggerUndo, Request, Queued
  <2> QED
    BY <1>2, <1>4, <1>7, <2>1 DEF BeforeSent, Sent, Owns
<1>15. CASE TriggerRestore(d)
  <2>1. /\ trig'[d].pc = "done" /\ trig[d].pc = "restore"
        /\ dep' = dep /\ queue' = queue
    BY <1>1, <1>15 DEF TriggerRestore, Ended
  <2>2. Owns(d) /\ ~Owns(d)'
    BY <1>2, <1>3, <1>4, <1>6, <2>1 DEF Owns, InFlight, BeforeSent
  <2> QED
    BY <1>2, <1>3, <1>4, <1>7, <2>1, <2>2 DEF BeforeSent, Sent
<1>16. CASE TriggerAborts(d)
  <2>1. /\ trig'[d].pc = "done" /\ dep' = dep /\ queue' = queue /\ page' = page
    BY <1>1, <1>16 DEF TriggerAborts, Ended
  <2> QED
    BY <1>2, <1>3, <1>4, <1>6, <1>7, <2>1 DEF BeforeSent, Sent, Owns, InFlight
<1> QED
  BY <1>8, <1>9, <1>10, <1>11, <1>12, <1>13, <1>14, <1>15, <1>16 DEF RequestNext

LEMMA TimeLock ==
  ASSUME NEW d \in Deploys, TypeOK, LockInv, TimeNext(d)
  PROVE  LockInv'
<1>1. /\ recov \in [Deploys -> {"idle", "mark", "page"}] /\ dep \in [Deploys -> Row]
      /\ dep[d] \in Row /\ queue \in [Deploys -> Queue!Message] /\ page \in PageRow
  BY DEF TypeOK
<1>2. /\ exec' = exec /\ trig' = trig /\ strays \subseteq strays'
      /\ \A e \in Deploys : /\ Sent(e)' <=> Sent(e)
                            /\ e # d => recov'[e] = recov[e] /\ dep'[e] = dep[e]
  <2>1. exec' = exec /\ trig' = trig /\ strays \subseteq strays'
    BY DEF TimeNext, FortyMinutesPass, Redeliver, RecoverList, RecoverMark, RecoverSkip,
           RecoverPage
  <2>2. \A e \in Deploys : Sent(e)' <=> Sent(e)
    BY <1>1 DEF TimeNext, FortyMinutesPass, Redeliver, RecoverList, RecoverMark,
           RecoverSkip, RecoverPage, Queue!Reappear, Queue!Message, Sent
  <2>3. \A e \in Deploys : e # d => recov'[e] = recov[e] /\ dep'[e] = dep[e]
    BY <1>1 DEF TimeNext, FortyMinutesPass, Redeliver, RecoverList, RecoverMark,
           RecoverSkip, RecoverPage
  <2> QED
    BY <2>1, <2>2, <2>3
<1> SUFFICES ASSUME strays' = {} PROVE LockInv'
  BY <1>2, StillSent
<1>3. strays = {} /\ BeforeSent(d) /\ LastWriter(d)
  BY <1>2 DEF LockInv, Ordered
<1>4. \A t \in Slots : (Runs(t, d)' <=> Runs(t, d)) /\ (Busy(t, d)' <=> Busy(t, d))
  BY <1>2 DEF Runs, Busy
<1>5. ASSUME BeforeSent(d)', LastWriter(d)',
             \/ page'.status = page.status /\ (Owns(d)' => Owns(d))
             \/ Owns(d) /\ ~Owns(d)'
      PROVE  LockInv'
  BY <1>2, <1>3, <1>5, OtherStep
<1>6. CASE FortyMinutesPass(d) \/ Redeliver(d)
  <2>1. page' = page /\ dep' = dep /\ recov' = recov
    BY <1>6 DEF FortyMinutesPass, Redeliver
  <2> QED
    BY <1>2, <1>3, <1>4, <1>5, <2>1 DEF BeforeSent, LastWriter, InFlight, Owns
<1>7. CASE RecoverList(d)
  <2>1. /\ page' = page /\ dep' = dep /\ recov'[d] = "mark"
        /\ dep[d].status = "deploying"
    BY <1>1, <1>7 DEF RecoverList, Stale
  <2> QED
    BY <1>2, <1>3, <1>4, <1>5, <2>1 DEF BeforeSent, LastWriter, InFlight, Owns
<1>8. CASE RecoverMark(d)
  <2>1. /\ page' = page /\ recov'[d] = "page" /\ recov[d] = "mark"
        /\ dep[d].status = "deploying" /\ dep'[d].status = "failed"
        /\ \A t \in Slots : ~Runs(t, d)
    BY <1>1, <1>8 DEF RecoverMark, StillDeploying, Row
  <2>2. BeforeSent(d)'
    BY <1>2, <1>3, <2>1 DEF BeforeSent
  <2>3. LastWriter(d)'
    BY <1>4, <2>1 DEF LastWriter, InFlight, Busy
  <2> QED
    BY <1>5, <2>1, <2>2, <2>3 DEF Owns, InFlight
<1>9. CASE RecoverSkip(d)
  <2>1. page' = page /\ dep' = dep /\ recov'[d] = "idle" /\ recov[d] = "mark"
    BY <1>1, <1>9 DEF RecoverSkip
  <2> QED
    BY <1>2, <1>3, <1>4, <1>5, <2>1 DEF BeforeSent, LastWriter, InFlight, Owns
<1>10. CASE RecoverPage(d)
  <2>1. dep' = dep /\ recov'[d] = "idle" /\ recov[d] = "page"
    BY <1>1, <1>10 DEF RecoverPage
  <2>2. Owns(d) /\ ~Owns(d)'
    <3>1. ~InFlight(d) /\ Sent(d) /\ trig[d].pc = "done" /\ \A t \in Slots : ~Busy(t, d)
      BY <1>3, <2>1 DEF BeforeSent, LastWriter
    <3> QED
      BY <1>2, <1>4, <2>1, <3>1 DEF Owns, InFlight
  <2>3. BeforeSent(d)' /\ LastWriter(d)'
    BY <1>2, <1>3, <1>4, <2>1 DEF BeforeSent, LastWriter, InFlight
  <2> QED
    BY <1>5, <2>2, <2>3
<1> QED
  BY <1>6, <1>7, <1>8, <1>9, <1>10 DEF TimeNext

LEMMA SettingsLock ==
  ASSUME TypeOK, LockInv,
         (\E x \in Editors : EditRead(x) \/ EditWrite(x)) \/ DeleteRead \/ DeleteRow
  PROVE  LockInv'
<1>1. /\ exec' = exec /\ trig' = trig /\ recov' = recov /\ queue' = queue
      /\ strays' = strays
  BY DEF EditRead, EditWrite, DeleteRead, DeleteRow
<1>2. /\ dep' = dep
      /\ page'.status = page.status \/ page.status # "deploying"
  <2>1. page \in PageRow
    BY DEF TypeOK
  <2>2. ASSUME NEW x \in Editors, EditRead(x) \/ EditWrite(x)
        PROVE  page'.status = page.status /\ dep' = dep
    BY <2>1, <2>2 DEF EditRead, EditWrite, Stored, PageRow
  <2>3. CASE DeleteRead \/ DeleteRow
    BY <2>3 DEF DeleteRead, DeleteRow, Deletable
  <2> QED
    BY <2>2, <2>3
<1>3. JobIsSent'
  BY <1>1 DEF LockInv, JobIsSent, Runs, Sent
<1> SUFFICES ASSUME strays = {} PROVE (OneSlot /\ Locked /\ Ordered)'
  BY <1>1, <1>3 DEF LockInv
<1>4. OneSlot /\ Locked /\ Ordered
  BY DEF LockInv
<1>5. \A t \in Slots, e \in Deploys : /\ Runs(t, e)' <=> Runs(t, e)
                                      /\ Busy(t, e)' <=> Busy(t, e)
  BY <1>1 DEF Runs, Busy
<1>6. OneSlot'
  BY <1>4, <1>5 DEF OneSlot
<1>7. \A d \in Deploys : InFlight(d)' <=> InFlight(d)
  BY <1>2 DEF InFlight
<1>8. \A d \in Deploys : Owns(d)' <=> Owns(d)
  BY <1>1, <1>5, <1>7 DEF Owns
<1>9. \A d \in Deploys : BeforeSent(d)'
  BY <1>1, <1>2, <1>4 DEF Ordered, BeforeSent, Sent
<1>10. \A d \in Deploys : LastWriter(d)'
  BY <1>1, <1>4, <1>5, <1>7 DEF Ordered, LastWriter
<1>11. Ordered'
  BY <1>9, <1>10 DEF Ordered
<1>12. Locked'
  <2> SUFFICES ASSUME NEW d \in Deploys, Owns(d)'
               PROVE  /\ page'.status = "deploying"
                      /\ \A e \in Deploys : Owns(e)' => d = e
    BY DEF Locked
  <2>1. Owns(d)
    BY <1>8
  <2>2. page.status = "deploying" /\ \A e \in Deploys : Owns(e) => d = e
    BY <1>4, <2>1 DEF Locked
  <2> QED
    BY <1>2, <1>8, <2>2
<1> QED
  BY <1>6, <1>12, <1>11

LEMMA LockHolds == Spec => [](TypeOK /\ LockInv)
<1>1. TypeOK /\ LockInv /\ [Next]_vars => LockInv'
  <2>1. CASE UNCHANGED vars
    BY <2>1 DEF vars, LockInv, JobIsSent, OneSlot, Locked, Ordered, BeforeSent, LastWriter,
                Owns, Busy, Runs, InFlight, Sent
  <2> QED
    BY <2>1, RequestLock, TimeLock, FetchLock, DeliveryLock, JobLock, SettingsLock DEF Next
<1> QED
  BY <1>1, LockInit, PageTypeCorrect, PTL DEF Spec

(* Two deployments of a page are never in flight at once: the update of    *)
(* TryMarkDeploying is conditional, and whoever writes the last status of  *)
(* the page does so when nothing of the deployment is left.                *)
THEOREM OneDeployment == Spec => []OneAtATime
<1>1. LockInv => OneAtATime
  BY DEF LockInv, Locked, Owns, OneAtATime
<1> QED
  BY <1>1, LockHolds, PTL

(* The page is not deleted while a job of its deployments is at work.      *)
THEOREM JobKeepsPage == Spec => []PageOutlivesJob
<1>1. TypeOK /\ LockInv => PageOutlivesJob
  <2> SUFFICES ASSUME TypeOK, LockInv, strays = {}, NEW s \in Slots, exec[s].pc \in Phases
               PROVE  page.status # "gone"
    BY DEF PageOutlivesJob
  <2>1. PICK d \in Deploys : exec[s].d = d
    BY SlotUpdates DEF TypeOK
  <2>2. Busy(s, d)
    BY <2>1 DEF Busy, Runs, Outside, Phases
  <2> QED
    BY <2>2 DEF LockInv, Locked, Owns
<1> QED
  BY <1>1, LockHolds, PTL

-----------------------------------------------------------------------------
(* The site *)

(* A job that works on a copy of the page knows its site, or has just made *)
(* the first one.                                                          *)
Copying == {"start", "startPage", "prepare", "prepared", "save", "upload"}
SiteInv ==
  strays = {} =>
    \A s \in Slots : exec[s].pc \in Copying =>
      \/ exec[s].page.site = page.site
      \/ exec[s].pc = "save" /\ page.site = NoSite

SiteSame == page'.site = page.site
SiteKept == SiteInv' /\ (strays = {} /\ page.site # NoSite => SiteSame)

LEMMA StatusKeepsSite ==
  ASSUME TypeOK, NEW st \in PageStatus, SetStatus(st)
  PROVE  SiteSame
BY DEF SetStatus, TypeOK, PageRow, SiteSame

(* A step of one slot that does not store a site.                          *)
LEMMA SlotKeepsSite ==
  ASSUME NEW s \in Slots, SiteInv, SiteSame, strays \subseteq strays',
         \A t \in Slots \ {s} : exec'[t] = exec[t],
         exec'[s].pc \in Copying =>
           \/ exec'[s].page.site = page.site
           \/ exec[s].pc \in Copying /\ exec'[s].page.site = exec[s].page.site
                /\ exec'[s].pc = exec[s].pc
           \/ exec[s].pc \in Copying \ {"save"} /\ exec'[s].page.site = exec[s].page.site
           \/ exec'[s].pc = "save" /\ page.site = NoSite
  PROVE  SiteKept
BY DEF SiteInv, SiteSame, SiteKept

LEMMA DeliveryKeepsSite ==
  ASSUME NEW s \in Slots, TypeOK, SiteInv, DeliveryNext(s)
  PROVE  SiteKept
<1>1. exec \in [Slots -> Slot] /\ exec[s] \in Slot /\ FreeSlot.pc = "idle"
  BY DEF TypeOK, FreeSlot, Delivery
<1>2. page' = page /\ strays' = strays
  BY DEF DeliveryNext, Load, LoadPage, LoadFails, Ack, AckFails, Nack, Shutdown, Crash
<1>3. CASE LoadPage(s)
  <2>1. exec'[s].page = page /\ \A t \in Slots \ {s} : exec'[t] = exec[t]
    BY <1>1, <1>3 DEF LoadPage, Slot
  <2> QED
    BY <1>2, <2>1, SlotKeepsSite DEF SiteSame
<1>4. CASE Shutdown(s)
  <2>1. /\ exec'[s].pc = exec[s].pc /\ exec'[s].page = exec[s].page
        /\ \A t \in Slots \ {s} : exec'[t] = exec[t]
    BY <1>1, <1>4 DEF Shutdown, Slot
  <2> QED
    BY <1>2, <2>1, SlotKeepsSite DEF SiteSame
<1>5. CASE Load(s) \/ LoadFails(s)
  <2>1. /\ exec'[s].pc \in {"ack", "nack", "loadPage"}
        /\ \A t \in Slots \ {s} : exec'[t] = exec[t]
    BY <1>1, <1>5 DEF Load, LoadFails, Goto, Slot
  <2> QED
    BY <1>2, <2>1, SlotKeepsSite DEF SiteSame, Copying
<1>6. CASE Ack(s) \/ AckFails(s) \/ Nack(s) \/ Crash(s)
  <2>1. exec' = [exec EXCEPT ![s] = FreeSlot]
    BY <1>6 DEF Ack, AckFails, Nack, Crash
  <2>2. exec'[s].pc = "idle" /\ \A t \in Slots \ {s} : exec'[t] = exec[t]
    BY <1>1, <2>1
  <2> QED
    BY <1>2, <2>2, SlotKeepsSite DEF SiteSame, Copying
<1> QED
  BY <1>3, <1>4, <1>5, <1>6 DEF DeliveryNext

LEMMA JobKeepsSite ==
  ASSUME NEW s \in Slots, TypeOK, LockInv, SiteInv, JobNext(s)
  PROVE  SiteKept
<1>1. /\ exec \in [Slots -> Slot] /\ exec[s] \in Slot /\ exec[s].page \in PageRow
      /\ exec[s].row \in Row /\ exec[s].n \in 0..ReadCap /\ page \in PageRow
  BY SlotUpdates DEF TypeOK
<1>2. strays' = strays
  BY DEF JobNext, Start, StartPage, Log, Prepare, SkipUnchanged, Provision, SaveRuntime,
         Upload, StepFails, Succeed, SucceedPage, Fail, FailPage
<1>3. CASE Start(s) \/ Log(s) \/ Prepare(s) \/ SkipUnchanged(s) \/ Succeed(s) \/ Fail(s)
  <2>1. PICK pc \in SlotPC, row \in Row : Save(s, row, pc) /\ exec[s].pc # "save"
                                          /\ (pc \in Copying => exec[s].pc \in Copying)
    <3>1. /\ [status |-> "deploying", started |-> exec[s].n] \in Row
          /\ \A st \in {"success", "failed"} : [exec[s].row EXCEPT !.status = st] \in Row
      BY <1>1, RowUpdates DEF Row
    <3> QED
      BY <1>1, <1>3, <3>1
         DEF Start, Log, Prepare, SkipUnchanged, Succeed, Fail, SlotPC, Copying
  <2>2. /\ exec'[s].pc = pc /\ exec'[s].page = exec[s].page
        /\ \A t \in Slots \ {s} : exec'[t] = exec[t]
    BY <1>1, <2>1 DEF Save, Slot
  <2>3. page' = page
    BY <1>3 DEF Start, Log, Prepare, SkipUnchanged, Succeed, Fail
  <2> QED
    BY <1>2, <2>1, <2>2, <2>3, SlotKeepsSite DEF SiteSame
<1>4. CASE StartPage(s) \/ SucceedPage(s) \/ FailPage(s)
  <2>1. PICK pc \in SlotPC, st \in PageStatus :
          SetPage(s, st, pc) /\ (pc \in Copying => exec[s].pc = "startPage")
    BY <1>4 DEF StartPage, SucceedPage, FailPage, SlotPC, PageStatus, Copying
  <2>2. /\ exec'[s].pc = pc /\ exec'[s].page.site = exec[s].page.site
        /\ \A t \in Slots \ {s} : exec'[t] = exec[t]
    BY <1>1, <2>1 DEF SetPage, Slot, PageRow
  <2>3. SiteSame
    BY <2>1, StatusKeepsSite DEF SetPage, SiteSame
  <2>4. "startPage" \in Copying \ {"save"}
    BY DEF Copying
  <2> QED
    BY <1>2, <2>1, <2>2, <2>3, <2>4, SlotKeepsSite
<1>5. CASE Provision(s)
  <2>1. page' = page /\ exec[s].pc = "prepared" /\ "prepared" \in Copying \ {"save"}
    BY <1>5 DEF Provision, Copying
  <2>2. /\ \/ exec'[s].pc = "save" /\ exec[s].page.site = NoSite
           \/ exec'[s].pc = "upload" /\ exec'[s].page = exec[s].page
        /\ \A t \in Slots \ {s} : exec'[t] = exec[t]
    BY <1>1, <1>5 DEF Provision, Slot
  <2>3. strays = {} => exec[s].page.site = page.site
    BY <2>1 DEF SiteInv
  <2>4. CASE strays = {}
    BY <1>2, <2>1, <2>2, <2>3, <2>4, SlotKeepsSite DEF SiteSame
  <2>5. CASE strays # {}
    BY <1>2, <2>5 DEF SiteKept, SiteInv
  <2> QED
    BY <2>4, <2>5
<1>6. CASE SaveRuntime(s)
  <2>1. CASE strays # {}
    BY <1>2, <2>1 DEF SiteKept, SiteInv
  <2>2. CASE strays = {}
    <3>1. PICK d \in Deploys : exec[s].d = d
      BY SlotUpdates DEF TypeOK
    <3>2. Locked /\ exec[s].pc = "save" /\ Busy(s, d)
      BY <1>6, <2>2, <3>1 DEF LockInv, SaveRuntime, Busy, Runs, Outside
    <3>3. page.status = "deploying"
      BY <3>2 DEF Locked, Owns
    <3>4. /\ page'.site = exec[s].page.site
          /\ exec'[s].pc = "upload" /\ exec'[s].page = exec[s].page
          /\ \A t \in Slots \ {s} : exec'[t] = exec[t]
      BY <1>1, <1>6, <3>3 DEF SaveRuntime, Goto, Slot, PageRow
    <3>5. \A t \in Slots \ {s} : exec[t].pc \notin Copying
      <4> SUFFICES ASSUME NEW t \in Slots \ {s}, exec[t].pc \in Copying PROVE FALSE
        OBVIOUS
      <4>1. PICK e \in Deploys : exec[t].d = e
        BY SlotUpdates DEF TypeOK
      <4>2. Busy(t, e)
        BY <4>1 DEF Busy, Runs, Outside, Copying
      <4>3. d = e
        BY <3>2, <4>2 DEF Locked, Owns
      <4> QED
        BY <2>2, <3>2, <4>2, <4>3 DEF LockInv, OneSlot, Busy
    <3>6. SiteInv'
      BY <3>4, <3>5 DEF SiteInv
    <3>7. page.site # NoSite => exec[s].page.site = page.site
      BY <2>2, <3>2 DEF SiteInv, Copying
    <3> QED
      BY <3>4, <3>6, <3>7 DEF SiteKept, SiteSame
  <2> QED
    BY <2>1, <2>2
<1>7. CASE Upload(s) \/ StepFails(s)
  <2>1. /\ page' = page /\ exec'[s].pc \notin Copying
        /\ \A t \in Slots \ {s} : exec'[t] = exec[t]
    BY <1>1, <1>7 DEF Upload, StepFails, Goto, Slot, Copying
  <2> QED
    BY <1>2, <2>1, SlotKeepsSite DEF SiteSame
<1> QED
  BY <1>3, <1>4, <1>5, <1>6, <1>7 DEF JobNext

LEMMA OthersKeepSite ==
  ASSUME TypeOK, SiteInv,
         \/ \E d \in Deploys : \/ RequestNext(d) \/ TimeNext(d)
                               \/ \E s \in Slots : Fetch(s, d)
         \/ \E x \in Editors : EditRead(x) \/ EditWrite(x)
         \/ DeleteRead \/ DeleteRow
  PROVE  SiteKept
<1>1. page \in PageRow /\ exec \in [Slots -> Slot]
  BY DEF TypeOK
<1>2. ASSUME exec' = exec, strays \subseteq strays', SiteSame PROVE SiteKept
  BY <1>2 DEF SiteKept, SiteSame, SiteInv
<1>3. ASSUME NEW d \in Deploys, RequestNext(d) PROVE SiteKept
  <2>1. exec' = exec /\ strays \subseteq strays'
    BY <1>3 DEF RequestNext, TriggerRead, TriggerClaim, TriggerCreate, TriggerCreateFails,
           TriggerEnqueue, TriggerEnqueueFails, TriggerUndo, TriggerRestore, TriggerAborts
  <2>2. trig[d].prev \in PageStatus
    BY DEF TypeOK, Request
  <2>3. CASE TriggerClaim(d) \/ TriggerRestore(d)
    BY <1>1, <1>2, <2>1, <2>2, <2>3, StatusKeepsSite
       DEF TriggerClaim, TriggerRestore, SiteSame, PageRow
  <2>4. CASE ~(TriggerClaim(d) \/ TriggerRestore(d))
    <3>1. page' = page
      BY <1>3, <2>4 DEF RequestNext, TriggerRead, TriggerCreate, TriggerCreateFails,
             TriggerEnqueue, TriggerEnqueueFails, TriggerUndo, TriggerAborts
    <3> QED
      BY <1>2, <2>1, <3>1 DEF SiteSame
  <2> QED
    BY <2>3, <2>4
<1>4. ASSUME NEW d \in Deploys, TimeNext(d) PROVE SiteKept
  <2>1. /\ exec' = exec /\ strays \subseteq strays'
        /\ page' = page \/ SetStatus("error")
    BY <1>4 DEF TimeNext, FortyMinutesPass, Redeliver, RecoverList, RecoverMark, RecoverSkip,
           RecoverPage, ErrorPage
  <2> QED
    BY <1>2, <2>1, StatusKeepsSite DEF SiteSame, PageStatus
<1>5. ASSUME NEW d \in Deploys, NEW s \in Slots, Fetch(s, d) PROVE SiteKept
  <2>1. /\ page' = page /\ exec'[s].pc \notin Copying /\ strays \subseteq strays'
        /\ \A t \in Slots \ {s} : exec'[t] = exec[t]
    BY <1>1, <1>5 DEF Fetch, Delivery, Copying
  <2> QED
    BY <2>1, SlotKeepsSite DEF SiteSame
<1>6. ASSUME NEW x \in Editors, EditRead(x) \/ EditWrite(x) PROVE SiteKept
  <2>1. exec' = exec /\ strays' = strays /\ SiteSame
    BY <1>1, <1>6 DEF EditRead, EditWrite, Stored, SiteSame, PageRow
  <2> QED
    BY <1>2, <2>1
<1>7. CASE DeleteRead \/ DeleteRow
  <2>1. exec' = exec /\ strays' = strays /\ SiteSame
    BY <1>1, <1>7 DEF DeleteRead, DeleteRow, Deleted, SiteSame, PageRow
  <2> QED
    BY <1>2, <2>1
<1> QED
  BY <1>3, <1>4, <1>5, <1>6, <1>7

(* The site that a page records is never replaced or erased: not by a      *)
(* change of settings, and not by a job that provisions from its copy.     *)
THEOREM SiteStays == Spec => SiteIsKept
<1>1. Init => SiteInv
  BY DEF Init, SiteInv, FreeSlot, Delivery, Copying
<1>2. TypeOK /\ LockInv /\ SiteInv /\ [Next]_vars => SiteInv'
  <2>1. CASE UNCHANGED vars
    BY <2>1 DEF vars, SiteInv
  <2> QED
    BY <2>1, DeliveryKeepsSite, JobKeepsSite, OthersKeepSite DEF Next, SiteKept
<1>3. TypeOK /\ LockInv /\ SiteInv /\ [Next]_vars
        => [strays = {} /\ page.site # NoSite => page'.site = page.site]_vars
  <2>1. CASE UNCHANGED vars
    BY <2>1
  <2> QED
    BY <2>1, DeliveryKeepsSite, JobKeepsSite, OthersKeepSite DEF Next, SiteKept, SiteSame
<1> QED
  BY <1>1, <1>2, <1>3, LockHolds, PTL DEF Spec, SiteIsKept
=============================================================================
