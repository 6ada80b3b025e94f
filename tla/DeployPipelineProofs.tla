------------------------ MODULE DeployPipelineProofs ------------------------
(***************************************************************************)
(* Theorems of DeployPipeline, for any number of deployments, slots and    *)
(* events.                                                                 *)
(***************************************************************************)
EXTENDS DeployPipeline, TLAPS

LEMMA Blanks ==
  /\ NoRow \in Row
  /\ BlankApp \in AppRow
  /\ FreeSlot \in Slot
  /\ \A pcs : "idle" \in pcs => NoCopy \in Copy(pcs)
<1>1. NoRow \in Row
  BY PipelineAssumption DEF NoRow, Row
<1>2. BlankApp \in AppRow
  <2>1. (CHOOSE x \in Sources : TRUE) \in Sources
    BY PipelineAssumption
  <2> QED
    BY <2>1, PipelineAssumption DEF BlankApp, NewApp, AppRow, AppStatus
<1>3. FreeSlot \in Slot
  <2>1. (CHOOSE d \in Deploys : TRUE) \in Deploys
    BY PipelineAssumption
  <2> QED
    BY <1>1, <1>2, <2>1, PipelineAssumption DEF FreeSlot, Delivery, Slot, SlotPC
<1>4. ASSUME NEW pcs, "idle" \in pcs PROVE NoCopy \in Copy(pcs)
  BY <1>1, <1>4 DEF NoCopy, Holding, Copy
<1> QED
  BY <1>1, <1>2, <1>3, <1>4

LEMMA RowUpdates ==
  /\ \A ds \in SUBSET Deploys : Created(ds) \in Row
  /\ \A r \in Row : /\ Undone(r) \in Row
                    /\ [r EXCEPT !.sha = TRUE] \in Row
                    /\ [r EXCEPT !.cancel = TRUE] \in Row
                    /\ r.earlier \in SUBSET Deploys
                    /\ \A st \in {"building", "deploying", "success", "failed", "cancelled"} :
                         [r EXCEPT !.status = st] \in Row
<1>1. /\ {"queued", "building", "deploying", "success", "failed", "cancelled"}
           \subseteq {"none"} \cup InProgress \cup Terminal
      /\ 0 \in 0..ReadCap
  BY PipelineAssumption DEF InProgress, Terminal, Running
<1>2. \A ds \in SUBSET Deploys : Created(ds) \in Row
  BY <1>1 DEF Created, Row
<1>3. \A r \in Row : /\ Undone(r) \in Row
                     /\ [r EXCEPT !.sha = TRUE] \in Row
                     /\ [r EXCEPT !.cancel = TRUE] \in Row
                     /\ r.earlier \in SUBSET Deploys
  BY <1>1 DEF Undone, Row
<1>4. ASSUME NEW r \in Row,
             NEW st \in {"building", "deploying", "success", "failed", "cancelled"}
      PROVE  [r EXCEPT !.status = st] \in Row
  BY <1>1, <1>4 DEF Row
<1> QED
  BY <1>2, <1>3, <1>4

LEMMA TriggerType ==
  ASSUME NEW d \in Deploys, TypeOK, TriggerNext(d)
  PROVE  TypeOK'
<1> USE PipelineAssumption DEF TypeOK
<1>1. CASE TriggerAdmit(d)
  BY <1>1 DEF TriggerAdmit, TrigPC
<1>2. CASE TriggerCreate(d)
  <2>1. {e \in Deploys : dep[e].status # "none"} \in SUBSET Deploys
    OBVIOUS
  <2> QED
    BY <1>2, <2>1, RowUpdates DEF TriggerCreate, TrigPC
<1>3. ASSUME Queue!Enqueue(d) PROVE queue' \in [Deploys -> Queue!Message]
  <2>1. {k \in Deploys : Queue!Sent(k)} \in SUBSET Deploys
    OBVIOUS
  <2>2. \A ks \in SUBSET Deploys :
          [st |-> "visible", ct |-> 0, older |-> ks] \in Queue!Message
    BY DEF Queue!Message, Queue!Places
  <2> QED
    BY <1>3, <2>1, <2>2 DEF Queue!Enqueue
<1>4. CASE TriggerEnqueue(d)
  BY <1>3, <1>4 DEF TriggerEnqueue, TrigPC
<1>9. CASE TriggerEnqueueFails(d)
  BY <1>3, <1>9 DEF TriggerEnqueueFails, TrigPC, Spend
<1>5. CASE TriggerUndo(d)
  BY <1>5, RowUpdates DEF TriggerUndo, TrigPC
<1>6. CASE TriggerMarkBuilding(d)
  BY <1>6 DEF TriggerMarkBuilding, TrigPC, AppRow, AppStatus
<1>7. CASE WebhookCommit(d)
  BY <1>7, RowUpdates DEF WebhookCommit, TrigPC
<1>8. CASE TriggerAborts(d)
  BY <1>8 DEF TriggerAborts, TrigPC, Spend
<1> QED
  BY <1>1, <1>2, <1>4, <1>9, <1>5, <1>6, <1>7, <1>8 DEF TriggerNext

LEMMA CopyUpdates ==
  /\ \A row \in Row : /\ \A pc \in CancPC : Holding(pc, row) \in Copy(CancPC)
                      /\ \A pc \in RecovPC : Holding(pc, row) \in Copy(RecovPC)
  /\ \A c \in Copy(CancPC) : /\ c.row \in Row
                             /\ \A pc \in CancPC : [c EXCEPT !.pc = pc] \in Copy(CancPC)
  /\ \A c \in Copy(RecovPC) : c.row \in Row
  /\ NoCopy \in Copy(CancPC) /\ NoCopy \in Copy(RecovPC)
  /\ NoRow \in Row
BY Blanks DEF Copy, Holding, CancPC, RecovPC

LEMMA AppUpdates ==
  ASSUME NEW r \in AppRow, NEW st \in AppStatus
  PROVE  [r EXCEPT !.status = st] \in AppRow
BY DEF AppRow

LEMMA SlotUpdates ==
  ASSUME NEW x \in Slot
  PROVE  /\ x.row \in Row /\ x.app \in AppRow /\ x.d \in Deploys /\ x.n \in 0..ReadCap
         /\ x.bg \in BOOLEAN /\ x.gone \in BOOLEAN
         /\ \A pc \in SlotPC : [x EXCEPT !.pc = pc] \in Slot
         /\ \A pc \in SlotPC, row \in Row : [x EXCEPT !.row = row, !.pc = pc] \in Slot
         /\ \A c \in {"live", "cancelled", "deadline"} : [x EXCEPT !.ctx = c] \in Slot
         /\ \A b \in BOOLEAN : [x EXCEPT !.gone = b] \in Slot
         /\ \A pc \in SlotPC, b \in BOOLEAN : [x EXCEPT !.pc = pc, !.bg = b] \in Slot
         /\ \A pc \in SlotPC, a \in AppRow : [x EXCEPT !.pc = pc, !.app = a] \in Slot
BY DEF Slot

LEMMA SpendType ==
  ASSUME NEW e, left \in 0..MaxEvents, Spend(e)
  PROVE  left' \in 0..MaxEvents
BY PipelineAssumption DEF Spend

LEMMA CancelType ==
  ASSUME NEW d \in Deploys, TypeOK, CancelNext(d)
  PROVE  TypeOK'
<1> USE PipelineAssumption DEF TypeOK
<1>1. CASE CancelRead(d)
  <2>1. Holding("write", [dep[d] EXCEPT !.cancel = TRUE]) \in Copy(CancPC)
    BY RowUpdates, CopyUpdates DEF CancPC
  <2> QED
    BY <1>1, <2>1, SpendType DEF CancelRead
<1>2. CASE CancelWrite(d)
  BY <1>2, CopyUpdates DEF CancelWrite, CancPC
<1>3. CASE CancelBuild(d)
  <2>1. exec' \in [Slots -> Slot]
    <3>1. PICK listed \in {{}, {s \in Slots : exec[s].pc = "building"}} :
            exec' = [s \in Slots |-> [exec[s] EXCEPT !.gone = exec[s].gone \/ s \in listed]]
      BY <1>3 DEF CancelBuild
    <3>2. \A s \in Slots :
            [exec[s] EXCEPT !.gone = exec[s].gone \/ s \in listed] \in Slot
      <4> TAKE s \in Slots
      <4>1. (exec[s].gone \/ s \in listed) \in BOOLEAN
        OBVIOUS
      <4>2. exec[s] \in Slot
        OBVIOUS
      <4> HIDE DEF TypeOK
      <4> QED
        BY <4>1, <4>2, SlotUpdates
    <3> QED
      BY <3>1, <3>2
  <2> QED
    BY <1>3, <2>1, CopyUpdates DEF CancelBuild, CancPC
<1>4. CASE CancelFinalize(d)
  BY <1>4, RowUpdates, CopyUpdates DEF CancelFinalize, CancPC
<1>5. CASE CancelFinalizeApp(d)
  BY <1>5, CopyUpdates, AppUpdates DEF CancelFinalizeApp, Restored, AppStatus
<1>6. CASE CancelAborts(d)
  BY <1>6, CopyUpdates DEF CancelAborts, Spend
<1> QED
  BY <1>1, <1>2, <1>3, <1>4, <1>5, <1>6 DEF CancelNext

LEMMA RecoverType ==
  ASSUME NEW d \in Deploys, TypeOK, RecoverNext(d)
  PROVE  TypeOK'
<1> USE PipelineAssumption DEF TypeOK
<1>1. CASE RecoverList(d)
  BY <1>1, CopyUpdates DEF RecoverList, RecovPC
<1>2. CASE RecoverWrite(d)
  BY <1>2, RowUpdates, CopyUpdates DEF RecoverWrite, RecovPC
<1>3. CASE RecoverApp(d)
  BY <1>3, CopyUpdates, AppUpdates DEF RecoverApp, AppStatus
<1> QED
  BY <1>1, <1>2, <1>3 DEF RecoverNext

LEMMA TimeType ==
  ASSUME NEW d \in Deploys, TypeOK, HalfHourPasses(d)
  PROVE  TypeOK'
<1> USE PipelineAssumption DEF TypeOK
<1>1. late' \in [Deploys -> 0..ReadCap + 1]
  <2>1. queue[d].ct \in 0..ReadCap
    BY DEF Queue!Message
  <2> QED
    BY <2>1 DEF HalfHourPasses
<1>2. exec' \in [Slots -> Slot]
  BY SlotUpdates DEF HalfHourPasses
<1> QED
  BY <1>1, <1>2 DEF HalfHourPasses

LEMMA QueueUpdates ==
  ASSUME NEW m \in Queue!Message
  PROVE  /\ \A p \in Queue!Places : [m EXCEPT !.st = p] \in Queue!Message
         /\ m.ct < ReadCap => [m EXCEPT !.st = "hidden", !.ct = m.ct + 1] \in Queue!Message
<1>1. \A p \in Queue!Places : [m EXCEPT !.st = p] \in Queue!Message
  BY DEF Queue!Message
<1>2. ASSUME m.ct < ReadCap
      PROVE  [m EXCEPT !.st = "hidden", !.ct = m.ct + 1] \in Queue!Message
  <2>1. m.ct \in 0..ReadCap /\ m.ct + 1 \in 0..ReadCap
    BY <1>2, PipelineAssumption DEF Queue!Message
  <2> QED
    BY <2>1 DEF Queue!Message, Queue!Places
<1> QED
  BY <1>1, <1>2

LEMMA DeliveryType ==
  ASSUME NEW s \in Slots, TypeOK, DeliveryNext(s)
  PROVE  TypeOK'
<1> USE PipelineAssumption DEF TypeOK
<1> DEFINE x == exec[s]
<1>0. x \in Slot /\ x.d \in Deploys /\ dep[x.d] \in Row
  BY SlotUpdates
<1>1. CASE Load(s)
  <2>1. /\ [x EXCEPT !.pc = "ack"] \in Slot
        /\ [x EXCEPT !.pc = "finalize", !.row = dep[x.d]] \in Slot
        /\ [x EXCEPT !.pc = "loadApp", !.row = dep[x.d]] \in Slot
    BY <1>0 DEF Slot, SlotPC
  <2> QED
    BY <1>1, <2>1, ZenonT(60) DEF Load, Goto
<1>2. CASE LoadApp(s)
  <2>1. [x EXCEPT !.pc = "start", !.app = app, !.row.started = x.n] \in Slot
    BY <1>0 DEF Slot, SlotPC, Row
  <2> QED
    BY <1>2, <2>1 DEF LoadApp
<1>3. CASE LoadFails(s)
  <2>1. [x EXCEPT !.pc = "nack"] \in Slot
    BY <1>0 DEF Slot, SlotPC
  <2>2. left' \in 0..MaxEvents
    BY <1>3, SpendType DEF LoadFails
  <2> QED
    BY <1>3, <2>1, <2>2 DEF LoadFails, Goto
<1>4. CASE Ack(s)
  BY <1>0, <1>4, Blanks, QueueUpdates DEF Ack, Queue!Delete, Queue!Places
<1>5. CASE AckFails(s)
  BY <1>5, Blanks DEF AckFails, Spend
<1>6. CASE Nack(s)
  <2>1. [queue[x.d] EXCEPT !.st = "archived"] \in Queue!Message
    BY <1>0, QueueUpdates DEF Queue!Places
  <2>2. queue' \in [Deploys -> Queue!Message]
    BY <1>0, <1>6, <2>1 DEF Nack, Leave, Queue!Archive
  <2> QED
    BY <1>6, <2>2, Blanks DEF Nack
<1>7. CASE PollCancel(s)
  BY <1>0, <1>7, SlotUpdates DEF PollCancel
<1>8. CASE Shutdown(s)
  <2>1. [x EXCEPT !.ctx = "cancelled"] \in Slot
    BY <1>0 DEF Slot
  <2> QED
    BY <1>0, <1>8, <2>1, SpendType DEF Shutdown
<1>9. CASE Crash(s)
  BY <1>9, Blanks DEF Crash, Spend
<1> QED
  BY <1>1, <1>2, <1>3, <1>4, <1>5, <1>6, <1>7, <1>8, <1>9 DEF DeliveryNext

LEMMA QueueStepType ==
  ASSUME NEW d \in Deploys, TypeOK,
         Redeliver(d) \/ \E s \in Slots : Fetch(s, d)
  PROVE  TypeOK'
<1> USE PipelineAssumption DEF TypeOK
<1>0. queue[d] \in Queue!Message /\ queue[d].ct \in 0..ReadCap
  BY DEF Queue!Message
<1>1. CASE Redeliver(d)
  BY <1>0, <1>1, QueueUpdates DEF Redeliver, Queue!Reappear, Queue!Places
<1>2. ASSUME NEW s \in Slots, Fetch(s, d) PROVE TypeOK'
  <2>1. queue[d].ct < ReadCap
    BY <1>2 DEF Fetch, Queue!Read
  <2>2. queue' \in [Deploys -> Queue!Message]
    BY <1>0, <1>2, <2>1, QueueUpdates DEF Fetch, Queue!Read
  <2>3. Delivery("load", d, queue[d].ct + 1) \in Slot
    BY <1>0, <2>1, Blanks DEF Delivery, Slot, SlotPC
  <2> QED
    BY <1>2, <2>2, <2>3 DEF Fetch
<1> QED
  BY <1>1, <1>2

LEMMA SlotMoves ==
  ASSUME NEW s \in Slots, TypeOK, NEW pc \in SlotPC
  PROVE  /\ Goto(s, pc) => exec' \in [Slots -> Slot]
         /\ \A row \in Row : Save(s, row, pc) =>
              exec' \in [Slots -> Slot] /\ dep' \in [Deploys -> Row]
         /\ \A row \in AppRow : SetApp(s, row) => app' \in AppRow
<1>1. exec[s] \in Slot /\ exec[s].d \in Deploys
  BY SlotUpdates DEF TypeOK
<1>2. Goto(s, pc) => exec' \in [Slots -> Slot]
  <2>1. [exec[s] EXCEPT !.pc = pc] \in Slot
    BY <1>1, SlotUpdates
  <2> QED
    BY <2>1 DEF Goto, TypeOK
<1>3. ASSUME NEW row \in Row, Save(s, row, pc)
      PROVE  exec' \in [Slots -> Slot] /\ dep' \in [Deploys -> Row]
  <2>1. [exec[s] EXCEPT !.row = row, !.pc = pc] \in Slot
    BY <1>1 DEF Slot
  <2> QED
    BY <1>1, <1>3, <2>1 DEF Save, TypeOK
<1>4. ASSUME NEW row \in AppRow, SetApp(s, row) PROVE app' \in AppRow
  BY <1>4 DEF SetApp, TypeOK
<1> QED
  BY <1>2, <1>3, <1>4

LEMMA SlotJumps ==
  ASSUME NEW s \in Slots, TypeOK
  PROVE  /\ GotoFinalize(s) => exec' \in [Slots -> Slot]
         /\ \A b \in BOOLEAN : GotoFail(s, b) => exec' \in [Slots -> Slot]
<1>1. exec[s] \in Slot
  BY DEF TypeOK
<1>2. \A b \in BOOLEAN : /\ [exec[s] EXCEPT !.pc = "finalize", !.bg = b] \in Slot
                         /\ [exec[s] EXCEPT !.pc = "fail", !.bg = b] \in Slot
  BY <1>1 DEF Slot, SlotPC
<1> QED
  BY <1>2 DEF GotoFinalize, GotoFail, TypeOK

LEMMA BuildType ==
  ASSUME NEW s \in Slots, TypeOK, BuildNext(s)
  PROVE  TypeOK'
<1> DEFINE x == exec[s]
<1>0. x \in Slot /\ x.d \in Deploys /\ x.row \in Row /\ x.app \in AppRow
  BY SlotUpdates DEF TypeOK
<1>1. CASE BeginBuild(s)
  <2> DEFINE row == [x.row EXCEPT !.status = "building"]
  <2>1. row \in Row
    BY <1>0, RowUpdates
  <2>2. [x EXCEPT !.row = row, !.pc = "building", !.gone = FALSE] \in Slot
    BY <1>0, <2>1 DEF Slot, SlotPC
  <2> HIDE DEF row
  <2>3. exec' \in [Slots -> Slot] /\ dep' \in [Deploys -> Row]
    BY <1>0, <1>1, <2>1, <2>2 DEF BeginBuild, row, TypeOK
  <2> QED
    BY <1>1, <2>3 DEF BeginBuild, TypeOK
<1>2. CASE SkipBuild(s)
  <2>1. exec' \in [Slots -> Slot] /\ dep' \in [Deploys -> Row]
    BY <1>0, <1>2, SlotMoves DEF SkipBuild, SlotPC
  <2> QED
    BY <1>2, <2>1 DEF SkipBuild, TypeOK
<1>3. CASE BuildLogs(s)
  <2>1. exec' \in [Slots -> Slot] /\ dep' \in [Deploys -> Row]
    BY <1>0, <1>3, SlotMoves DEF BuildLogs, SlotPC
  <2> QED
    BY <1>3, <2>1 DEF BuildLogs, TypeOK
<1>4. CASE BuildError(s)
  <2>1. exec' \in [Slots -> Slot] /\ dep' \in [Deploys -> Row]
    BY <1>0, <1>4, SlotMoves DEF BuildError, SlotPC
  <2> QED
    BY <1>4, <2>1 DEF BuildError, TypeOK
<1>5. CASE BuildErrorCancelled(s)
  BY <1>5, SlotJumps DEF BuildErrorCancelled, TypeOK
<1>6. CASE BuildErrorFailed(s)
  BY <1>6, SlotJumps DEF BuildErrorFailed, TypeOK
<1>7. CASE BuildDone(s)
  <2>1. exec' \in [Slots -> Slot]
    BY <1>7, SlotMoves DEF BuildDone, SlotPC
  <2> QED
    BY <1>0, <1>7, <2>1 DEF BuildDone, TypeOK
<1>8. CASE BuildStored(s)
  <2>1. exec' \in [Slots -> Slot] /\ dep' \in [Deploys -> Row]
    BY <1>0, <1>8, SlotMoves DEF BuildStored, SlotPC
  <2> QED
    BY <1>8, <2>1 DEF BuildStored, TypeOK
<1>11. CASE BuildChecked(s)
  <2>1. exec' \in [Slots -> Slot]
    BY <1>11, SlotMoves, SlotJumps DEF BuildChecked, SlotPC
  <2> QED
    BY <1>11, <2>1 DEF BuildChecked, TypeOK
<1>9. CASE Reload(s)
  <2>1. [x EXCEPT !.pc = "deployWrite", !.app = app] \in Slot
    BY <1>0 DEF Slot, SlotPC, TypeOK
  <2> QED
    BY <1>9, <2>1 DEF Reload, TypeOK
<1>10. CASE ReloadFails(s)
  <2>1. left' \in 0..MaxEvents
    BY <1>10, SpendType DEF ReloadFails, TypeOK
  <2> QED
    BY <1>10, <2>1, SlotJumps DEF ReloadFails, TypeOK
<1> QED
  BY <1>1, <1>2, <1>3, <1>4, <1>5, <1>6, <1>7, <1>8, <1>9, <1>10, <1>11 DEF BuildNext

LEMMA RolloutType ==
  ASSUME NEW s \in Slots, TypeOK, RolloutNext(s)
  PROVE  TypeOK'
<1> DEFINE x == exec[s]
<1>0. x \in Slot /\ x.d \in Deploys /\ x.row \in Row /\ x.app \in AppRow
  BY SlotUpdates DEF TypeOK
<1>1. CASE DeployWrite(s)
  <2>1. exec' \in [Slots -> Slot] /\ dep' \in [Deploys -> Row]
    BY <1>0, <1>1, RowUpdates, SlotMoves DEF DeployWrite, SlotPC
  <2> QED
    BY <1>1, <2>1 DEF DeployWrite, TypeOK
<1>2. CASE PrepareFails(s)
  BY <1>2, SlotJumps DEF PrepareFails, TypeOK
<1>3. CASE DeployErrorCancelled(s)
  BY <1>3, SlotJumps DEF DeployErrorCancelled, TypeOK
<1>4. CASE DeployErrorFailed(s)
  BY <1>4, SlotJumps DEF DeployErrorFailed, TypeOK
<1>5. CASE DeployApplied(s)
  <2>1. exec' \in [Slots -> Slot]
    BY <1>5, SlotMoves DEF DeployApplied, SlotPC
  <2> QED
    BY <1>0, <1>5, <2>1 DEF DeployApplied, TypeOK, Phases
<1>6. CASE Succeed(s)
  <2>1. exec' \in [Slots -> Slot] /\ dep' \in [Deploys -> Row]
    BY <1>0, <1>6, RowUpdates, SlotMoves DEF Succeed, SlotPC
  <2> QED
    BY <1>6, <2>1 DEF Succeed, TypeOK
<1>7. CASE SucceedApp(s)
  <2>1. [app EXCEPT !.status = "running"] \in AppRow
    BY AppUpdates DEF TypeOK, AppStatus
  <2>2. exec' \in [Slots -> Slot] /\ app' \in AppRow
    BY <1>7, <2>1, SlotMoves DEF SucceedApp, SlotPC
  <2> QED
    BY <1>7, <2>2 DEF SucceedApp, TypeOK
<1>8. CASE SaveApp(s)
  <2>1. exec' \in [Slots -> Slot] /\ app' \in AppRow
    BY <1>0, <1>8, SlotMoves DEF SaveApp, SlotPC
  <2> QED
    BY <1>8, <2>1 DEF SaveApp, TypeOK
<1>9. CASE Fail(s)
  <2>1. exec' \in [Slots -> Slot] /\ dep' \in [Deploys -> Row]
    BY <1>0, <1>9, RowUpdates, SlotMoves DEF Fail, SlotPC
  <2> QED
    BY <1>9, <2>1 DEF Fail, TypeOK
<1>10. CASE FailApp(s)
  <2>1. [app EXCEPT !.status = "error"] \in AppRow
    BY AppUpdates DEF TypeOK, AppStatus
  <2>2. exec' \in [Slots -> Slot] /\ app' \in AppRow
    BY <1>10, <2>1, SlotMoves DEF FailApp, SlotPC
  <2> QED
    BY <1>10, <2>2 DEF FailApp, TypeOK
<1>11. CASE Finalize(s)
  <2>1. exec' \in [Slots -> Slot] /\ dep' \in [Deploys -> Row]
    BY <1>0, <1>11, RowUpdates, SlotMoves DEF Finalize, SlotPC
  <2> QED
    BY <1>11, <2>1 DEF Finalize, TypeOK
<1>12. CASE FinalizeApp(s)
  <2>1. \A st \in Restored : [app EXCEPT !.status = st] \in AppRow
    BY AppUpdates DEF TypeOK, AppStatus, Restored
  <2>2. exec' \in [Slots -> Slot] /\ app' \in AppRow
    BY <1>12, <2>1, SlotMoves DEF FinalizeApp, SlotPC
  <2> QED
    BY <1>12, <2>2 DEF FinalizeApp, TypeOK
<1> QED
  BY <1>1, <1>2, <1>3, <1>4, <1>5, <1>6, <1>7, <1>8, <1>9, <1>10, <1>11, <1>12
     DEF RolloutNext

LEMMA RequestType ==
  ASSUME TypeOK, PodsChange \/ StatusRead \/ StatusWrite \/ EditRead \/ EditWrite \/ EditPush
  PROVE  TypeOK'
<1> USE PipelineAssumption DEF TypeOK
<1>1. CASE PodsChange
  BY <1>1, SpendType DEF PodsChange, Phases
<1>2. CASE StatusRead
  <2>1. \A p \in DOMAIN StatusOf : StatusOf[p] \in {"running", "error", "stopped"}
    BY DEF StatusOf
  <2> QED
    BY <1>2, <2>1, SpendType DEF StatusRead
<1>3. CASE StatusWrite
  BY <1>3, AppUpdates DEF StatusWrite, AppStatus
<1>4. CASE EditRead
  <2>1. left \in 1..MaxEvents
    BY <1>4 DEF EditRead, Spend
  <2>2. [app EXCEPT !.cfg = MaxEvents - left + 1] \in AppRow
    BY <2>1 DEF AppRow
  <2> QED
    BY <1>4, <2>2, SpendType DEF EditRead
<1>5. CASE EditWrite
  BY <1>5, Blanks DEF EditWrite
<1>6. CASE EditPush
  BY <1>6 DEF EditPush, Phases
<1> QED
  BY <1>1, <1>2, <1>3, <1>4, <1>5, <1>6

(* Every variable stays within its type, whatever the actors do.           *)
THEOREM TypeCorrect == Spec => []TypeOK
<1>1. Init => TypeOK
  <2> SUFFICES ASSUME Init PROVE TypeOK
    OBVIOUS
  <2>1. \A x \in Sources : NewApp("idle", x) \in AppRow /\ NewApp("running", x) \in AppRow
    BY PipelineAssumption DEF NewApp, AppRow, AppStatus
  <2>2. queue \in [Deploys -> Queue!Message]
    BY PipelineAssumption DEF Init, Queue!QueueInit, Queue!Message, Queue!Places
  <2>3. app \in AppRow /\ live \in Phases
    BY <2>1 DEF Init, Phases
  <2> QED
    BY <2>2, <2>3, Blanks, PipelineAssumption
       DEF Init, TypeOK, TrigPC, CancPC, RecovPC
<1>2. TypeOK /\ [Next]_vars => TypeOK'
  <2> SUFFICES ASSUME TypeOK, [Next]_vars PROVE TypeOK'
    OBVIOUS
  <2>1. CASE Next
    BY <2>1, TriggerType, CancelType, RecoverType, TimeType, QueueStepType,
       DeliveryType, BuildType, RolloutType, RequestType DEF Next
  <2>2. CASE UNCHANGED vars
    BY <2>2 DEF vars, TypeOK
  <2> QED
    BY <2>1, <2>2
<1> QED
  BY <1>1, <1>2, PTL DEF Spec

-----------------------------------------------------------------------------
(* The lease *)

(* A slot keeps its deployment and its attempt until it becomes idle.      *)
SameJob(s) == exec'[s].pc # "idle" =>
  exec[s].pc # "idle" /\ exec'[s].d = exec[s].d /\ exec'[s].n = exec[s].n

LEMMA SlotStep ==
  ASSUME NEW s \in Slots, TypeOK,
         BuildNext(s) \/ RolloutNext(s) \/ DeliveryNext(s)
  PROVE  \A t \in Slots : SameJob(t)
<1> SUFFICES ASSUME NEW t \in Slots PROVE SameJob(t)
  OBVIOUS
<1> USE DEF SameJob
<1>0. /\ exec \in [Slots -> Slot]
      /\ exec[s] \in Slot /\ exec[t] \in Slot /\ exec[s].pc \in SlotPC
  BY DEF TypeOK, Slot
<1>1. CASE BuildNext(s)
  BY <1>0, <1>1
     DEF BuildNext, BeginBuild, SkipBuild, BuildLogs, BuildError, BuildErrorCancelled,
         BuildErrorFailed, BuildDone, BuildStored, BuildChecked, Reload, ReloadFails,
         Save, Goto, GotoFail, GotoFinalize, Slot
<1>2. CASE RolloutNext(s)
  <2>1. CASE PrepareFails(s) \/ DeployErrorCancelled(s) \/ DeployErrorFailed(s)
    BY <1>0, <2>1 DEF PrepareFails, DeployErrorCancelled, DeployErrorFailed, GotoFail,
                      GotoFinalize, Slot
  <2>2. CASE DeployWrite(s)
    BY <1>0, <2>2 DEF DeployWrite, Save, Slot
  <2>3. CASE Succeed(s) \/ Fail(s) \/ Finalize(s)
    BY <1>0, <2>3 DEF Succeed, Fail, Finalize, Save, Slot
  <2>4. CASE DeployApplied(s) \/ SucceedApp(s) \/ SaveApp(s) \/ FailApp(s) \/ FinalizeApp(s)
    BY <1>0, <2>4 DEF DeployApplied, SucceedApp, SaveApp, FailApp, FinalizeApp, Goto, Slot
  <2> QED
    BY <1>2, <2>1, <2>2, <2>3, <2>4 DEF RolloutNext
<1>3. CASE DeliveryNext(s)
  <2>1. CASE Ack(s) \/ AckFails(s) \/ Nack(s) \/ Crash(s)
    <3>1. exec' = [exec EXCEPT ![s] = FreeSlot]
      BY <2>1 DEF Ack, AckFails, Nack, Crash
    <3> QED
      BY <1>0, <3>1 DEF FreeSlot, Delivery
  <2>2. CASE PollCancel(s) \/ Shutdown(s)
    BY <1>0, <2>2 DEF PollCancel, Shutdown, Slot
  <2>3. CASE Load(s)
    BY <1>0, <2>3 DEF Load, Goto, Slot
  <2>4. CASE LoadApp(s)
    BY <1>0, <2>4 DEF LoadApp, Slot
  <2>5. CASE LoadFails(s)
    BY <1>0, <2>5 DEF LoadFails, Goto, Slot
  <2> QED
    BY <1>3, <2>1, <2>2, <2>3, <2>4, <2>5 DEF DeliveryNext
<1> QED
  BY <1>1, <1>2, <1>3

LEMMA QueueUntouched ==
  ASSUME NEW s \in Slots, BuildNext(s) \/ RolloutNext(s) \/ DeliveryNext(s),
         ~Ack(s), ~Nack(s)
  PROVE  UNCHANGED queue
BY DEF BuildNext, BeginBuild, SkipBuild, BuildLogs, BuildError, BuildErrorCancelled,
       BuildErrorFailed, BuildDone, BuildStored, BuildChecked, Reload, ReloadFails,
       RolloutNext, DeployWrite, PrepareFails, DeployErrorCancelled,
       DeployErrorFailed, DeployApplied, Succeed, SucceedApp, SaveApp, Fail,
       FailApp, Finalize, FinalizeApp,
       DeliveryNext, Load, LoadApp, LoadFails, AckFails, PollCancel, Shutdown, Crash

(* The message of a running job stays hidden at the attempt's read count:  *)
(* only the slot that runs it removes it, and it reappears only when no    *)
(* slot runs it.  Two slots that run the same deployment would both have   *)
(* read the message; the second read needs it to be visible.               *)
LEMMA LeaseStep ==
  ASSUME TypeOK, TypeOK', Lease, OneRunner, [Next]_vars
  PROVE  Lease' /\ OneRunner'
<1> DEFINE Same == /\ UNCHANGED queue
                   /\ \A t \in Slots : SameJob(t)
<1>1. ASSUME Same PROVE Lease' /\ OneRunner'
  BY <1>1 DEF Lease, OneRunner, Runs, SameJob
<1>2. ASSUME NEW d \in Deploys, TriggerNext(d) PROVE Lease' /\ OneRunner'
  <2>1. UNCHANGED exec
    BY <1>2 DEF TriggerNext, TriggerAdmit, TriggerCreate, TriggerEnqueue,
                TriggerEnqueueFails, TriggerUndo, TriggerMarkBuilding,
                WebhookCommit, TriggerAborts
  <2>2. CASE Queue!Enqueue(d)
    BY <2>1, <2>2 DEF Queue!Enqueue, Queue!Sent, Lease, OneRunner, Runs, TypeOK
  <2>3. CASE ~Queue!Enqueue(d)
    <3>1. UNCHANGED queue
      BY <1>2, <2>3 DEF TriggerNext, TriggerAdmit, TriggerCreate, TriggerEnqueue,
                TriggerEnqueueFails, TriggerUndo, TriggerMarkBuilding,
                WebhookCommit, TriggerAborts
    <3> QED
      BY <1>1, <2>1, <3>1 DEF SameJob
  <2> QED
    BY <2>2, <2>3
<1>3. ASSUME NEW d \in Deploys, CancelNext(d) PROVE Lease' /\ OneRunner'
  <2>1. UNCHANGED queue
    BY <1>3 DEF CancelNext, CancelRead, CancelWrite, CancelBuild, CancelFinalize,
                CancelFinalizeApp, CancelAborts
  <2>2. CASE CancelBuild(d)
    <3>1. \A t \in Slots : exec[t] \in Slot
      BY DEF TypeOK
    <3>2. \A t \in Slots : SameJob(t)
      BY <2>2, <3>1 DEF CancelBuild, SameJob, Slot
    <3> QED
      BY <1>1, <2>1, <3>2
  <2>3. CASE ~CancelBuild(d)
    <3>1. UNCHANGED exec
      BY <1>3, <2>3 DEF CancelNext, CancelRead, CancelWrite, CancelFinalize,
                        CancelFinalizeApp, CancelAborts
    <3> QED
      BY <1>1, <2>1, <3>1 DEF SameJob
  <2> QED
    BY <2>2, <2>3
<1>4. ASSUME NEW d \in Deploys, RecoverNext(d) PROVE Lease' /\ OneRunner'
  <2>1. UNCHANGED <<queue, exec>>
    BY <1>4 DEF RecoverNext, RecoverList, RecoverWrite, RecoverApp
  <2> QED
    BY <1>1, <2>1 DEF SameJob
<1>5. ASSUME NEW d \in Deploys, HalfHourPasses(d) PROVE Lease' /\ OneRunner'
  <2>1. \A t \in Slots : exec[t] \in Slot
    BY DEF TypeOK
  <2>2. \A t \in Slots : SameJob(t)
    BY <1>5, <2>1 DEF HalfHourPasses, SameJob, Slot
  <2> QED
    BY <1>1, <1>5, <2>2 DEF HalfHourPasses
<1>6. ASSUME NEW d \in Deploys, Redeliver(d) PROVE Lease' /\ OneRunner'
  BY <1>6 DEF Redeliver, VisibilityOver, Queue!Reappear, Lease, OneRunner, Runs, TypeOK
<1>7. ASSUME NEW d \in Deploys, NEW s \in Slots, Fetch(s, d)
      PROVE  Lease' /\ OneRunner'
  <2>1. \A t \in Slots : ~Runs(t, d)
    BY <1>7 DEF Fetch, Queue!Read, Lease
  <2>2. /\ exec[s].pc = "idle"
        /\ exec' = [exec EXCEPT ![s] = Delivery("load", d, queue[d].ct + 1)]
        /\ queue' = [queue EXCEPT ![d].st = "hidden", ![d].ct = @ + 1]
    BY <1>7 DEF Fetch, Queue!Read
  <2>3. queue[d] \in Queue!Message
    BY DEF TypeOK
  <2>4. queue'[d].st = "hidden" /\ queue'[d].ct = queue[d].ct + 1
    BY <2>2, <2>3 DEF TypeOK, Queue!Message
  <2>5. \A e \in Deploys \ {d} : queue'[e] = queue[e]
    BY <2>2 DEF TypeOK
  <2>6. exec'[s].d = d /\ exec'[s].n = queue[d].ct + 1
    BY <2>2 DEF TypeOK, Delivery
  <2>7. \A t \in Slots \ {s} : exec'[t] = exec[t]
    BY <2>2 DEF TypeOK
  <2>8. Lease'
    BY <2>1, <2>4, <2>5, <2>6, <2>7 DEF Lease, Runs
  <2>9. OneRunner'
    BY <2>1, <2>6, <2>7 DEF OneRunner, Runs
  <2> QED
    BY <2>8, <2>9
<1>8. ASSUME NEW s \in Slots, DeliveryNext(s) \/ BuildNext(s) \/ RolloutNext(s)
      PROVE  Lease' /\ OneRunner'
  <2>1. \A t \in Slots : SameJob(t)
    BY <1>8, SlotStep
  <2>2. CASE Ack(s) \/ Nack(s)
    <3> DEFINE d == exec[s].d
    <3>1. /\ exec[s].pc # "idle"
          /\ exec' = [exec EXCEPT ![s] = FreeSlot]
      BY <2>2 DEF Ack, Nack
    <3>2. \A t \in Slots \ {s} : ~Runs(t, d)
      BY <3>1, SlotUpdates DEF OneRunner, Runs, TypeOK
    <3>3. \A e \in Deploys \ {d} : queue'[e] = queue[e]
      BY <2>2 DEF Ack, Nack, Leave, Queue!Delete, Queue!Archive, TypeOK
    <3>4. exec'[s].pc = "idle" /\ \A t \in Slots \ {s} : exec'[t] = exec[t]
      BY <3>1 DEF FreeSlot, Delivery, TypeOK
    <3> QED
      BY <3>2, <3>3, <3>4 DEF Lease, OneRunner, Runs
  <2>3. CASE ~Ack(s) /\ ~Nack(s)
    BY <1>1, <1>8, <2>1, <2>3, QueueUntouched
  <2> QED
    BY <2>2, <2>3
<1>9. CASE PodsChange \/ StatusRead \/ StatusWrite \/ EditRead \/ EditWrite \/ EditPush
  <2>1. UNCHANGED <<queue, exec>>
    BY <1>9 DEF PodsChange, StatusRead, StatusWrite, EditRead, EditWrite, EditPush
  <2> QED
    BY <1>1, <2>1 DEF SameJob
<1>10. CASE UNCHANGED vars
  BY <1>1, <1>10 DEF vars, SameJob
<1> QED
  BY <1>2, <1>3, <1>4, <1>5, <1>6, <1>7, <1>8, <1>9, <1>10 DEF Next

(* No two slots ever run the same deployment, and a slot that runs one     *)
(* holds the delivery it will delete.                                      *)
THEOREM LeaseHolds == Spec => [](Lease /\ OneRunner)
<1>1. Init => Lease /\ OneRunner
  <2> SUFFICES ASSUME Init PROVE \A s \in Slots : exec[s].pc = "idle"
    BY DEF Lease, OneRunner, Runs
  <2>1. exec = [s \in Slots |-> FreeSlot]
    BY DEF Init
  <2> QED
    BY <2>1 DEF FreeSlot, Delivery
<1>2. TypeOK /\ TypeOK' /\ Lease /\ OneRunner /\ [Next]_vars => Lease' /\ OneRunner'
  BY LeaseStep
<1> QED
  BY <1>1, <1>2, TypeCorrect, PTL DEF Spec

-----------------------------------------------------------------------------
(* The queue *)

LEMMA QueueStep ==
  ASSUME TypeOK, [Next]_vars
  PROVE  [Queue!QueueNext]_queue
<1>1. ASSUME NEW d \in Deploys, TriggerNext(d) PROVE [Queue!QueueNext]_queue
  BY <1>1 DEF TriggerNext, TriggerAdmit, TriggerCreate, TriggerEnqueue,
              TriggerEnqueueFails, TriggerUndo, TriggerMarkBuilding, WebhookCommit,
              TriggerAborts, Queue!QueueNext
<1>2. ASSUME NEW d \in Deploys, CancelNext(d) \/ RecoverNext(d) \/ HalfHourPasses(d)
      PROVE  UNCHANGED queue
  BY <1>2 DEF CancelNext, CancelRead, CancelWrite, CancelBuild, CancelFinalize,
              CancelFinalizeApp, CancelAborts, RecoverNext, RecoverList, RecoverWrite,
              RecoverApp, HalfHourPasses
<1>3. ASSUME NEW d \in Deploys, Redeliver(d) \/ \E s \in Slots : Fetch(s, d)
      PROVE  Queue!QueueNext
  BY <1>3 DEF Redeliver, Fetch, Queue!QueueNext
<1>4. ASSUME NEW s \in Slots, DeliveryNext(s) \/ BuildNext(s) \/ RolloutNext(s)
      PROVE  [Queue!QueueNext]_queue
  <2>1. exec[s].d \in Deploys
    BY SlotUpdates DEF TypeOK
  <2>2. CASE Ack(s) \/ Nack(s)
    BY <2>1, <2>2 DEF Ack, Nack, Leave, Queue!QueueNext
  <2>3. CASE ~Ack(s) /\ ~Nack(s)
    BY <1>4, <2>3, QueueUntouched
  <2> QED
    BY <2>2, <2>3
<1>5. CASE PodsChange \/ StatusRead \/ StatusWrite \/ EditRead \/ EditWrite \/ EditPush
  BY <1>5 DEF PodsChange, StatusRead, StatusWrite, EditRead, EditWrite, EditPush
<1>6. CASE UNCHANGED vars
  BY <1>6 DEF vars
<1> QED
  BY <1>1, <1>2, <1>3, <1>4, <1>5, <1>6 DEF Next

(* Whatever the pipeline does with the queue, the queue allows: messages   *)
(* are sent once, read only while visible and oldest first, and removed    *)
(* only while they are held.                                               *)
THEOREM QueueRefinement == Spec => QueueRefined
<1>1. Init => Queue!QueueInit
  BY DEF Init
<1>2. TypeOK /\ [Next]_vars => [Queue!QueueNext]_queue
  BY QueueStep
<1> QED
  BY <1>1, <1>2, TypeCorrect, PTL DEF Spec, QueueRefined, Queue!QueueSpec

-----------------------------------------------------------------------------
(* Terminal rows *)

(* A slot whose copy is terminal has only the application left to write.   *)
RowInHand ==
  \A s \in Slots :
    exec[s].row.status \in Terminal
      => exec[s].pc \in {"successApp", "saveApp", "failApp", "finalizeApp", "ack"}

LEMMA SlotRowStep ==
  ASSUME NEW s \in Slots, BuildNext(s) \/ RolloutNext(s) \/ DeliveryNext(s),
         TypeOK, RowInHand
  PROVE  RowInHand'
<1>1. /\ exec \in [Slots -> Slot] /\ exec[s] \in Slot /\ exec[s].row \in Row
      /\ FreeSlot.row = NoRow /\ NoRow.status = "none"
  BY SlotUpdates DEF TypeOK, FreeSlot, Delivery, NoRow
<1>a. /\ exec[s].pc \notin {"successApp", "saveApp", "failApp", "finalizeApp", "ack"}
            => exec[s].row.status \notin Terminal
      /\ \A t \in Slots \ {s} :
           exec'[t] = exec[t]
             => (exec'[t].row.status \in Terminal =>
                  exec'[t].pc \in {"successApp", "saveApp", "failApp", "finalizeApp", "ack"})
  BY DEF RowInHand
<1>b. ASSUME NEW row \in Row, NEW pc \in SlotPC, Save(s, row, pc),
             row.status \in Terminal
               => pc \in {"successApp", "saveApp", "failApp", "finalizeApp", "ack"}
      PROVE  RowInHand'
  <2>1. /\ exec'[s].row = row /\ exec'[s].pc = pc
        /\ \A t \in Slots \ {s} : exec'[t] = exec[t]
    BY <1>1, <1>b DEF Save, Slot
  <2> QED
    BY <1>a, <1>b, <2>1 DEF RowInHand
<1>c. ASSUME exec'[s].row = exec[s].row,
             \A t \in Slots \ {s} : exec'[t] = exec[t],
             exec'[s].row.status \in Terminal
               => exec'[s].pc \in {"successApp", "saveApp", "failApp", "finalizeApp", "ack"}
      PROVE  RowInHand'
  BY <1>a, <1>c DEF RowInHand
<1>d. \A st \in {"building", "deploying", "success", "failed", "cancelled"} :
        /\ [exec[s].row EXCEPT !.status = st] \in Row
        /\ [exec[s].row EXCEPT !.status = st].status = st
  BY <1>1, RowUpdates DEF Row
<1>e. {"building", "check", "buildErr", "deployWrite", "deploying", "successApp",
       "failApp", "finalizeApp"} \subseteq SlotPC
  BY DEF SlotPC
<1>2. CASE BuildNext(s)
  <2>1. CASE BeginBuild(s)
    <3> DEFINE row == [exec[s].row EXCEPT !.status = "building"]
    <3>1. /\ exec'[s].row = row
          /\ \A t \in Slots \ {s} : exec'[t] = exec[t]
      BY <1>1, <2>1 DEF BeginBuild, Slot
    <3>2. row.status \notin Terminal
      BY <1>d DEF Terminal
    <3> HIDE DEF row
    <3> QED
      BY <1>a, <3>1, <3>2 DEF RowInHand
  <2>2. CASE SkipBuild(s) \/ BuildLogs(s) \/ BuildError(s) \/ BuildStored(s)
    BY <1>1, <1>a, <1>b, <1>e, <2>2 DEF SkipBuild, BuildLogs, BuildError, BuildStored
  <2>3. CASE \/ BuildErrorCancelled(s) \/ BuildErrorFailed(s) \/ BuildDone(s)
             \/ BuildChecked(s) \/ Reload(s) \/ ReloadFails(s)
    <3>1. /\ exec'[s].row = exec[s].row
          /\ \A t \in Slots \ {s} : exec'[t] = exec[t]
      BY <1>1, <2>3 DEF BuildErrorCancelled, BuildErrorFailed, BuildDone, BuildChecked,
                        Reload, ReloadFails, Goto, GotoFail, GotoFinalize, Slot
    <3>2. exec[s].row.status \notin Terminal
      BY <1>a, <2>3 DEF BuildErrorCancelled, BuildErrorFailed, BuildDone, BuildChecked,
                        Reload, ReloadFails
    <3> QED
      BY <1>c, <3>1, <3>2
  <2> QED
    BY <1>2, <2>1, <2>2, <2>3 DEF BuildNext
<1>3. CASE RolloutNext(s)
  <2>1. CASE DeployWrite(s) \/ Succeed(s) \/ Fail(s) \/ Finalize(s)
    BY <1>b, <1>d, <1>e, <2>1 DEF DeployWrite, Succeed, Fail, Finalize, Terminal
  <2>2. CASE \/ PrepareFails(s) \/ DeployErrorCancelled(s) \/ DeployErrorFailed(s)
             \/ DeployApplied(s)
    <3>1. /\ exec'[s].row = exec[s].row
          /\ \A t \in Slots \ {s} : exec'[t] = exec[t]
      BY <1>1, <2>2 DEF PrepareFails, DeployErrorCancelled, DeployErrorFailed,
                        DeployApplied, Goto, GotoFail, GotoFinalize, Slot
    <3>2. exec[s].row.status \notin Terminal
      BY <1>a, <2>2 DEF PrepareFails, DeployErrorCancelled, DeployErrorFailed,
                        DeployApplied
    <3> QED
      BY <1>c, <3>1, <3>2
  <2>3. CASE SucceedApp(s) \/ SaveApp(s) \/ FailApp(s) \/ FinalizeApp(s)
    <3>1. /\ exec'[s].row = exec[s].row
          /\ exec'[s].pc \in {"saveApp", "ack"}
          /\ \A t \in Slots \ {s} : exec'[t] = exec[t]
      BY <1>1, <2>3 DEF SucceedApp, SaveApp, FailApp, FinalizeApp, Goto, Slot
    <3> QED
      BY <1>c, <3>1
  <2> QED
    BY <1>3, <2>1, <2>2, <2>3 DEF RolloutNext
<1>4. CASE DeliveryNext(s)
  BY <1>1, <1>4 DEF DeliveryNext, Load, LoadApp, LoadFails, Ack, AckFails, Nack,
              PollCancel, Shutdown, Crash, Goto, IsTerminal, Polled,
              RowInHand, Terminal, Slot, Row
<1> QED
  BY <1>2, <1>3, <1>4

LEMMA RowStep ==
  ASSUME TypeOK, RowInHand, [Next]_vars
  PROVE  RowInHand'
<1>1. exec \in [Slots -> Slot]
  BY DEF TypeOK
<1>2. ASSUME NEW d \in Deploys, NEW s \in Slots, Fetch(s, d)
      PROVE  RowInHand'
  BY <1>1, <1>2 DEF Fetch, Delivery, NoRow, RowInHand, Terminal
<1>3. ASSUME NEW d \in Deploys, HalfHourPasses(d)
      PROVE  RowInHand'
  BY <1>1, <1>3 DEF HalfHourPasses, RowInHand, Slot
<1>4. ASSUME NEW d \in Deploys, CancelNext(d)
      PROVE  RowInHand'
  BY <1>1, <1>4, SMTT(60) DEF CancelNext, CancelRead, CancelWrite, CancelBuild, CancelFinalize,
              CancelFinalizeApp, CancelAborts, RowInHand, Slot
<1>5. ASSUME NEW d \in Deploys, TriggerNext(d) \/ RecoverNext(d) \/ Redeliver(d)
      PROVE  UNCHANGED exec
  BY <1>5 DEF TriggerNext, TriggerAdmit, TriggerCreate, TriggerEnqueue,
              TriggerEnqueueFails, TriggerUndo, TriggerMarkBuilding, WebhookCommit,
              TriggerAborts, RecoverNext, RecoverList, RecoverWrite, RecoverApp,
              Redeliver
<1>6. CASE PodsChange \/ StatusRead \/ StatusWrite \/ EditRead \/ EditWrite \/ EditPush
  BY <1>6 DEF PodsChange, StatusRead, StatusWrite, EditRead, EditWrite, EditPush,
              RowInHand
<1>7. CASE UNCHANGED vars
  BY <1>7 DEF vars, RowInHand
<1> QED
  BY <1>2, <1>3, <1>4, <1>5, <1>6, <1>7, SlotRowStep DEF Next, RowInHand

(* When a slot writes neither to the rows nor to the cluster.              *)
LEMMA SlotWrites ==
  ASSUME NEW s \in Slots, BuildNext(s) \/ RolloutNext(s) \/ DeliveryNext(s),
         exec[s].pc \in {"idle", "load", "ack", "nack", "successApp", "saveApp",
                         "failApp", "finalizeApp"}
  PROVE  UNCHANGED <<dep, applied>>
BY DEF BuildNext, BeginBuild, SkipBuild, BuildLogs, BuildError, BuildErrorCancelled,
       BuildErrorFailed, BuildDone, BuildStored, BuildChecked, Reload, ReloadFails,
       RolloutNext, DeployWrite, PrepareFails, DeployErrorCancelled,
       DeployErrorFailed, DeployApplied, Succeed, SucceedApp, SaveApp, Fail,
       FailApp, Finalize, FinalizeApp,
       DeliveryNext, Load, LoadApp, LoadFails, Ack, AckFails, Nack, PollCancel,
       Shutdown, Crash

LEMMA SlotWritesOwn ==
  ASSUME NEW s \in Slots, BuildNext(s) \/ RolloutNext(s) \/ DeliveryNext(s),
         TypeOK, NEW d \in Deploys, d # exec[s].d
  PROVE  dep'[d] = dep[d] /\ (d \in applied' => d \in applied)
<1> USE DEF TypeOK
<1>1. CASE BuildNext(s)
  BY <1>1 DEF BuildNext, BeginBuild, SkipBuild, BuildLogs, BuildError,
              BuildErrorCancelled, BuildErrorFailed, BuildDone, BuildStored,
              BuildChecked, Reload, ReloadFails, Save
<1>2. CASE RolloutNext(s)
  BY <1>2 DEF RolloutNext, DeployWrite, PrepareFails, DeployErrorCancelled,
              DeployErrorFailed, DeployApplied, Succeed, SucceedApp, SaveApp, Fail,
              FailApp, Finalize, FinalizeApp, Save
<1>3. CASE DeliveryNext(s)
  BY <1>3 DEF DeliveryNext, Load, LoadApp, LoadFails, Ack, AckFails, Nack, PollCancel,
              Shutdown, Crash
<1> QED
  BY <1>1, <1>2, <1>3

LEMMA SettledStep ==
  ASSUME TypeOK, RowInHand, [Next]_vars, NEW d \in Deploys, Settled(d)
  PROVE  dep'[d] = dep[d] /\ (d \in applied' => d \in applied)
<1> USE DEF Settled
<1>1. ASSUME NEW e \in Deploys, TriggerNext(e)
      PROVE  dep'[d] = dep[d] /\ (d \in applied' => d \in applied)
  BY <1>1 DEF TriggerNext, TriggerAdmit, TriggerCreate, TriggerEnqueue,
              TriggerEnqueueFails, TriggerUndo, TriggerMarkBuilding, WebhookCommit,
              TriggerAborts, TypeOK
<1>2. ASSUME NEW e \in Deploys, CancelNext(e)
      PROVE  dep'[d] = dep[d] /\ (d \in applied' => d \in applied)
  BY <1>2 DEF CancelNext, CancelRead, CancelWrite, CancelBuild, CancelFinalize,
              CancelFinalizeApp, CancelAborts, TypeOK
<1>3. ASSUME NEW e \in Deploys, RecoverNext(e) \/ HalfHourPasses(e) \/ Redeliver(e)
                                \/ \E s \in Slots : Fetch(s, e)
      PROVE  dep'[d] = dep[d] /\ (d \in applied' => d \in applied)
  BY <1>3 DEF RecoverNext, RecoverList, RecoverWrite, RecoverApp, HalfHourPasses,
              Redeliver, Fetch, TypeOK
<1>4. ASSUME NEW s \in Slots, DeliveryNext(s) \/ BuildNext(s) \/ RolloutNext(s)
      PROVE  dep'[d] = dep[d] /\ (d \in applied' => d \in applied)
  <2>1. CASE Runs(s, d) \/ exec[s].pc = "idle"
    BY <1>4, <2>1, SlotWrites DEF RowInHand
  <2>2. CASE ~Runs(s, d) /\ exec[s].pc # "idle"
    BY <1>4, <2>2, SlotWritesOwn DEF Runs
  <2> QED
    BY <2>1, <2>2
<1>5. CASE PodsChange \/ StatusRead \/ StatusWrite \/ EditRead \/ EditWrite \/ EditPush
  BY <1>5 DEF PodsChange, StatusRead, StatusWrite, EditRead, EditWrite, EditPush
<1>6. CASE UNCHANGED vars
  BY <1>6 DEF vars
<1> QED
  BY <1>1, <1>2, <1>3, <1>4, <1>5, <1>6 DEF Next

(* A settled deployment keeps its row and is never applied again.          *)
THEOREM SettledForGood == Spec => SettledIsFinal
<1>1. Init => RowInHand
  BY DEF Init, FreeSlot, Delivery, NoRow, RowInHand, Terminal
<1>2. TypeOK /\ RowInHand /\ [Next]_vars => RowInHand'
  BY RowStep
<1>3. TypeOK /\ RowInHand /\ [Next]_vars =>
        [\A d \in Deploys :
           Settled(d) => dep'[d] = dep[d] /\ (d \in applied' => d \in applied)]_vars
  BY SettledStep
<1> QED
  BY <1>1, <1>2, <1>3, TypeCorrect, PTL DEF Spec, SettledIsFinal

-----------------------------------------------------------------------------
(* Success *)

(* The row is written back from copies, so a copy may not claim a success  *)
(* either, and a slot that is about to claim one has applied.              *)
SuccessInv ==
  /\ \A d \in Deploys :
       /\ dep[d].status = "success" => d \in applied
       /\ canc[d].row.status = "success" => d \in applied
       /\ recov[d].row.status = "success" => d \in applied
  /\ \A s \in Slots :
       exec[s].row.status = "success" \/ exec[s].pc = "success" => exec[s].d \in applied

LEMMA SuccessSave ==
  ASSUME NEW s \in Slots, TypeOK, SuccessInv, NEW row \in Row, NEW pc \in SlotPC,
         Save(s, row, pc), pc # "success",
         row.status = "success" => exec[s].d \in applied,
         UNCHANGED <<canc, recov, applied>>
  PROVE  SuccessInv'
<1>1. exec[s] \in Slot /\ exec[s].d \in Deploys
  BY SlotUpdates DEF TypeOK
<1>2. /\ exec'[s].row = row /\ exec'[s].pc = pc /\ exec'[s].d = exec[s].d
      /\ \A t \in Slots \ {s} : exec'[t] = exec[t]
  BY <1>1 DEF Save, TypeOK, Slot
<1>3. \A d \in Deploys : dep'[d] = dep[d] \/ (d = exec[s].d /\ dep'[d] = row)
  BY <1>1 DEF Save, TypeOK
<1> QED
  BY <1>2, <1>3 DEF SuccessInv

(* Any step of a slot that writes no deployment.                           *)
LEMMA SuccessMove ==
  ASSUME NEW s \in Slots, SuccessInv, UNCHANGED <<dep, canc, recov>>,
         applied \subseteq applied',
         \A t \in Slots \ {s} : exec'[t] = exec[t],
         exec'[s].row.status = "success" \/ exec'[s].pc = "success"
           => exec'[s].d \in applied'
  PROVE  SuccessInv'
BY DEF SuccessInv

LEMMA SuccessSlotStep ==
  ASSUME NEW s \in Slots, TypeOK, SuccessInv,
         BuildNext(s) \/ RolloutNext(s) \/ DeliveryNext(s)
  PROVE  SuccessInv'
<1> DEFINE x == exec[s]
<1>0. x \in Slot /\ x.d \in Deploys /\ x.row \in Row
  BY SlotUpdates DEF TypeOK
<1>s. /\ x.row.status = "success" \/ x.pc = "success" => x.d \in applied
      /\ dep[x.d].status = "success" => x.d \in applied
  BY <1>0 DEF SuccessInv
<1>1. CASE BeginBuild(s)
  <2> DEFINE row == [x.row EXCEPT !.status = "building"]
  <2>1. row.status = "building"
    BY <1>0 DEF Row
  <2>2. /\ exec'[s].row = row /\ exec'[s].pc = "building" /\ exec'[s].d = x.d
        /\ \A t \in Slots \ {s} : exec'[t] = exec[t]
    BY <1>0, <1>1 DEF BeginBuild, TypeOK, Slot
  <2>3. \A d \in Deploys : dep'[d] = dep[d] \/ dep'[d] = row
    BY <1>0, <1>1 DEF BeginBuild, TypeOK
  <2>4. UNCHANGED <<canc, recov, applied>>
    BY <1>1 DEF BeginBuild
  <2> HIDE DEF row
  <2> QED
    BY <2>1, <2>2, <2>3, <2>4 DEF SuccessInv
<1>2. CASE SkipBuild(s) \/ BuildLogs(s) \/ BuildError(s) \/ BuildStored(s)
  BY <1>0, <1>s, <1>2, SuccessSave DEF SkipBuild, BuildLogs, BuildError, BuildStored, SlotPC
<1>3. CASE BuildErrorCancelled(s) \/ BuildErrorFailed(s) \/ ReloadFails(s)
           \/ PrepareFails(s) \/ DeployErrorCancelled(s) \/ DeployErrorFailed(s)
  <2>1. UNCHANGED <<dep, canc, recov, applied>>
    BY <1>3 DEF BuildErrorCancelled, BuildErrorFailed, ReloadFails, PrepareFails,
                DeployErrorCancelled, DeployErrorFailed
  <2>2. GotoFinalize(s) \/ \E b \in BOOLEAN : GotoFail(s, b)
    BY <1>3 DEF BuildErrorCancelled, BuildErrorFailed, ReloadFails, PrepareFails,
                DeployErrorCancelled, DeployErrorFailed
  <2>3. /\ exec'[s].row = x.row /\ exec'[s].d = x.d /\ exec'[s].pc # "success"
        /\ \A t \in Slots \ {s} : exec'[t] = exec[t]
    BY <1>0, <2>2 DEF GotoFinalize, GotoFail, TypeOK, Slot
  <2> QED
    BY <1>s, <2>1, <2>3, SuccessMove
<1>4. CASE BuildDone(s) \/ SucceedApp(s) \/ SaveApp(s) \/ FailApp(s) \/ FinalizeApp(s)
           \/ Reload(s) \/ PollCancel(s) \/ Shutdown(s) \/ LoadFails(s)
  <2>1. UNCHANGED <<dep, canc, recov, applied>>
    BY <1>4 DEF BuildDone, SucceedApp, SaveApp, FailApp, FinalizeApp, Reload,
                PollCancel, Shutdown, LoadFails
  <2>2. /\ exec'[s].row = x.row /\ exec'[s].d = x.d
        /\ exec'[s].pc # "success" \/ exec'[s].pc = x.pc
        /\ \A t \in Slots \ {s} : exec'[t] = exec[t]
    BY <1>0, <1>4 DEF BuildDone, SucceedApp, SaveApp, FailApp, FinalizeApp, Reload,
                      PollCancel, Shutdown, LoadFails, Goto, TypeOK, Slot
  <2> QED
    BY <1>s, <2>1, <2>2, SuccessMove
<1>5. CASE BuildChecked(s)
  <2>1. /\ exec'[s].row = x.row /\ exec'[s].d = x.d /\ exec'[s].pc # "success"
        /\ \A t \in Slots \ {s} : exec'[t] = exec[t]
    BY <1>0, <1>5 DEF BuildChecked, Goto, GotoFinalize, TypeOK, Slot
  <2>2. UNCHANGED <<dep, canc, recov, applied>>
    BY <1>5 DEF BuildChecked
  <2> QED
    BY <1>s, <2>1, <2>2, SuccessMove
<1>6. CASE DeployWrite(s)
  <2>1. [x.row EXCEPT !.status = "deploying"] \in Row
    BY <1>0, RowUpdates
  <2>2. [x.row EXCEPT !.status = "deploying"].status = "deploying"
    BY <1>0 DEF Row
  <2> QED
    BY <1>6, <2>1, <2>2, SuccessSave DEF DeployWrite, SlotPC
<1>7. CASE DeployApplied(s)
  <2>1. /\ exec'[s].row = x.row /\ exec'[s].d = x.d
        /\ \A t \in Slots \ {s} : exec'[t] = exec[t]
    BY <1>0, <1>7 DEF DeployApplied, Goto, TypeOK, Slot
  <2>2. UNCHANGED <<dep, canc, recov>> /\ applied' = applied \cup {x.d}
    BY <1>7 DEF DeployApplied
  <2> QED
    BY <2>1, <2>2, SuccessMove
<1>8. CASE Succeed(s)
  <2>1. [x.row EXCEPT !.status = "success"] \in Row
    BY <1>0, RowUpdates
  <2> QED
    BY <1>s, <1>8, <2>1, SuccessSave DEF Succeed, SlotPC
<1>9. CASE Fail(s)
  <2>1. [x.row EXCEPT !.status = "failed"] \in Row
    BY <1>0, RowUpdates
  <2>2. [x.row EXCEPT !.status = "failed"].status = "failed"
    BY <1>0 DEF Row
  <2> QED
    BY <1>9, <2>1, <2>2, SuccessSave DEF Fail, SlotPC
<1>10. CASE Finalize(s)
  <2>1. [x.row EXCEPT !.status = "cancelled"] \in Row
    BY <1>0, RowUpdates
  <2>2. [x.row EXCEPT !.status = "cancelled"].status = "cancelled"
    BY <1>0 DEF Row
  <2> QED
    BY <1>10, <2>1, <2>2, SuccessSave DEF Finalize, SlotPC
<1>11. CASE Load(s)
  <2>1. /\ exec'[s].row \in {x.row, dep[x.d]} /\ exec'[s].d = x.d /\ exec'[s].pc # "success"
        /\ \A t \in Slots \ {s} : exec'[t] = exec[t]
    BY <1>0, <1>11 DEF Load, Goto, TypeOK, Slot
  <2> QED
    BY <1>s, <1>11, <2>1, SuccessMove DEF Load
<1>12. CASE LoadApp(s)
  <2>1. /\ exec'[s].row.status = x.row.status /\ exec'[s].d = x.d /\ exec'[s].pc = "start"
        /\ \A t \in Slots \ {s} : exec'[t] = exec[t]
    <3>1. [x EXCEPT !.pc = "start", !.app = app, !.row.started = x.n].row.status
            = x.row.status
      BY <1>0 DEF Slot, Row
    <3>2. [x EXCEPT !.pc = "start", !.app = app, !.row.started = x.n].d = x.d
      BY <1>0 DEF Slot
    <3>3. [x EXCEPT !.pc = "start", !.app = app, !.row.started = x.n].pc = "start"
      BY <1>0 DEF Slot
    <3> QED
      BY <1>0, <1>12, <3>1, <3>2, <3>3 DEF LoadApp, TypeOK
  <2>2. UNCHANGED <<dep, canc, recov, applied>>
    BY <1>12 DEF LoadApp
  <2> QED
    BY <1>s, <2>1, <2>2, SuccessMove
<1>13. CASE Ack(s) \/ AckFails(s) \/ Nack(s) \/ Crash(s)
  <2>1. exec' = [exec EXCEPT ![s] = FreeSlot] /\ UNCHANGED <<dep, canc, recov, applied>>
    BY <1>13 DEF Ack, AckFails, Nack, Crash
  <2>2. /\ exec'[s].pc = "idle" /\ exec'[s].row.status = "none"
        /\ \A t \in Slots \ {s} : exec'[t] = exec[t]
    BY <2>1 DEF FreeSlot, Delivery, NoRow, TypeOK
  <2> QED
    BY <2>1, <2>2, SuccessMove
<1> QED
  BY <1>1, <1>2, <1>3, <1>4, <1>5, <1>6, <1>7, <1>8, <1>9, <1>10, <1>11, <1>12, <1>13
     DEF BuildNext, RolloutNext, DeliveryNext

LEMMA SuccessRequestStep ==
  ASSUME NEW d \in Deploys, TypeOK, SuccessInv,
         TriggerNext(d) \/ CancelNext(d) \/ RecoverNext(d)
  PROVE  SuccessInv'
<1>0. dep[d] \in Row /\ canc[d] \in Copy(CancPC) /\ recov[d] \in Copy(RecovPC)
  BY DEF TypeOK
<1> DEFINE Fine(row) == row.status = "success" => d \in applied
<1>1. Fine(dep[d]) /\ Fine(canc[d].row) /\ Fine(recov[d].row) /\ Fine(NoRow)
  BY DEF SuccessInv, NoRow
<1>2. ASSUME applied' = applied,
             \A s \in Slots : exec'[s].row = exec[s].row /\ exec'[s].d = exec[s].d
                             /\ exec'[s].pc = exec[s].pc,
             Fine(dep'[d]), Fine(canc'[d].row), Fine(recov'[d].row),
             \A e \in Deploys \ {d} :
               dep'[e] = dep[e] /\ canc'[e] = canc[e] /\ recov'[e] = recov[e]
      PROVE  SuccessInv'
  BY <1>2 DEF SuccessInv
<1>3. CASE TriggerNext(d)
  <2>1. UNCHANGED <<exec, canc, recov, applied>>
    BY <1>3 DEF TriggerNext, TriggerAdmit, TriggerCreate, TriggerEnqueue,
                TriggerEnqueueFails, TriggerUndo, TriggerMarkBuilding, WebhookCommit,
                TriggerAborts
  <2>2. \A e \in Deploys \ {d} : dep'[e] = dep[e]
    BY <1>3 DEF TriggerNext, TriggerAdmit, TriggerCreate, TriggerEnqueue,
                TriggerEnqueueFails, TriggerUndo, TriggerMarkBuilding, WebhookCommit,
                TriggerAborts, TypeOK
  <2>3. dep'[d].status \in {dep[d].status, "queued", "failed"}
    BY <1>0, <1>3
       DEF TriggerNext, TriggerAdmit, TriggerCreate, TriggerEnqueue,
           TriggerEnqueueFails, TriggerUndo, TriggerMarkBuilding, WebhookCommit,
           TriggerAborts, Created, Undone, Row, TypeOK
  <2> QED
    BY <1>1, <1>2, <2>1, <2>2, <2>3
<1>4. CASE CancelNext(d)
  <2>1. UNCHANGED <<recov, applied>>
    BY <1>4 DEF CancelNext, CancelRead, CancelWrite, CancelBuild, CancelFinalize,
                CancelFinalizeApp, CancelAborts
  <2>2. \A e \in Deploys \ {d} : dep'[e] = dep[e] /\ canc'[e] = canc[e]
    BY <1>4 DEF CancelNext, CancelRead, CancelWrite, CancelBuild, CancelFinalize,
                CancelFinalizeApp, CancelAborts, TypeOK
  <2>3. \A s \in Slots : exec'[s].row = exec[s].row /\ exec'[s].d = exec[s].d
                        /\ exec'[s].pc = exec[s].pc
    BY <1>4 DEF CancelNext, CancelRead, CancelWrite, CancelBuild, CancelFinalize,
                CancelFinalizeApp, CancelAborts, TypeOK, Slot
  <2>4. Fine(dep'[d])
    BY <1>0, <1>1, <1>4
       DEF CancelNext, CancelRead, CancelWrite, CancelBuild, CancelFinalize,
           CancelFinalizeApp, CancelAborts, Copy, Row, TypeOK
  <2>5. Fine(canc'[d].row)
    <3>1. [dep[d] EXCEPT !.cancel = TRUE].status = dep[d].status
      BY <1>0 DEF Row
    <3>2. [canc[d] EXCEPT !.pc = "kill"].row = canc[d].row
      BY <1>0 DEF Copy
    <3>3. canc'[d].row \in {canc[d].row, [dep[d] EXCEPT !.cancel = TRUE], NoRow}
      <4>1. CASE CancelRead(d)
        BY <4>1 DEF CancelRead, Holding, TypeOK
      <4>2. CASE CancelWrite(d)
        BY <3>2, <4>2 DEF CancelWrite, TypeOK
      <4>3. CASE CancelBuild(d) \/ CancelFinalize(d) \/ CancelFinalizeApp(d) \/ CancelAborts(d)
        BY <4>3 DEF CancelBuild, CancelFinalize, CancelFinalizeApp, CancelAborts,
                    Holding, NoCopy, TypeOK
      <4> QED
        BY <1>4, <4>1, <4>2, <4>3 DEF CancelNext
    <3> QED
      BY <1>1, <3>1, <3>3
  <2> QED
    BY <1>1, <1>2, <2>1, <2>2, <2>3, <2>4, <2>5
<1>5. CASE RecoverNext(d)
  <2>1. UNCHANGED <<exec, canc, applied>>
    BY <1>5 DEF RecoverNext, RecoverList, RecoverWrite, RecoverApp
  <2>2. \A e \in Deploys \ {d} : dep'[e] = dep[e] /\ recov'[e] = recov[e]
    BY <1>5 DEF RecoverNext, RecoverList, RecoverWrite, RecoverApp, TypeOK
  <2>3. Fine(dep'[d])
    BY <1>0, <1>1, <1>5 DEF RecoverNext, RecoverList, RecoverWrite, RecoverApp, Copy, Row,
                            TypeOK
  <2>4. Fine(recov'[d].row)
    BY <1>0, <1>1, <1>5 DEF RecoverNext, RecoverList, RecoverWrite, RecoverApp, Holding,
                            NoCopy, TypeOK
  <2> QED
    BY <1>1, <1>2, <2>1, <2>2, <2>3, <2>4
<1> QED
  BY <1>3, <1>4, <1>5

LEMMA SuccessStep ==
  ASSUME TypeOK, SuccessInv, [Next]_vars
  PROVE  SuccessInv'
<1>1. ASSUME NEW d \in Deploys, HalfHourPasses(d) PROVE SuccessInv'
  <2>1. \A s \in Slots : exec'[s].row = exec[s].row /\ exec'[s].d = exec[s].d
                        /\ exec'[s].pc = exec[s].pc
    BY <1>1 DEF HalfHourPasses, TypeOK, Slot
  <2> QED
    BY <1>1, <2>1 DEF HalfHourPasses, SuccessInv
<1>2. ASSUME NEW d \in Deploys, Redeliver(d) PROVE SuccessInv'
  BY <1>2 DEF Redeliver, SuccessInv
<1>3. ASSUME NEW d \in Deploys, NEW s \in Slots, Fetch(s, d) PROVE SuccessInv'
  <2>1. /\ exec'[s].row.status = "none" /\ exec'[s].pc = "load"
        /\ \A t \in Slots \ {s} : exec'[t] = exec[t]
    BY <1>3 DEF Fetch, Delivery, NoRow, TypeOK
  <2> QED
    BY <1>3, <2>1, SuccessMove DEF Fetch
<1>4. CASE PodsChange \/ StatusRead \/ StatusWrite \/ EditRead \/ EditWrite \/ EditPush
  <2>1. UNCHANGED <<dep, canc, recov, exec, applied>>
    BY <1>4 DEF PodsChange, StatusRead, StatusWrite, EditRead, EditWrite, EditPush
  <2> QED
    BY <2>1 DEF SuccessInv
<1>5. CASE UNCHANGED vars
  BY <1>5 DEF vars, SuccessInv
<1> QED
  BY <1>1, <1>2, <1>3, <1>4, <1>5, SuccessRequestStep, SuccessSlotStep DEF Next

(* No deployment is reported successful that the cluster never accepted,   *)
(* although every actor writes whole rows back from old copies.            *)
THEOREM SuccessApplied == Spec => []SuccessWasApplied
<1>1. Init => SuccessInv
  <2> SUFFICES ASSUME Init PROVE SuccessInv
    OBVIOUS
  <2>1. /\ \A d \in Deploys : dep[d] = NoRow /\ canc[d].row = NoRow /\ recov[d].row = NoRow
        /\ \A s \in Slots : exec[s].row = NoRow /\ exec[s].pc = "idle"
    BY DEF Init, FreeSlot, Delivery, NoCopy, Holding
  <2> QED
    BY <2>1 DEF SuccessInv, NoRow
<1>2. TypeOK /\ SuccessInv /\ [Next]_vars => SuccessInv'
  BY SuccessStep
<1>3. SuccessInv => SuccessWasApplied
  BY DEF SuccessInv, SuccessWasApplied
<1> QED
  BY <1>1, <1>2, <1>3, TypeCorrect, PTL DEF Spec

-----------------------------------------------------------------------------
(* What the steps of a slot do to its copy and to the row *)

(* A slot that has got beyond its first write to the row, and not yet to   *)
(* the writes that follow a cancellation.                                  *)
Begun == {"building", "buildErr", "built", "check", "reload", "deploying", "success", "successApp",
          "saveApp", "fail", "failApp"}

SameOthers(s) ==
  /\ UNCHANGED <<canc, recov, trig, asked, late, aborted>>
  /\ \A t \in Slots \ {s} : exec'[t] = exec[t]
SameAttempt(s) == exec'[s].d = exec[s].d /\ exec'[s].n = exec[s].n
Walks(s, from, to) ==
  /\ exec[s].pc \in from /\ exec'[s].pc \in to
  /\ exec'[s].row = exec[s].row /\ exec'[s].ctx = exec[s].ctx /\ SameAttempt(s)
  /\ UNCHANGED <<dep, cut>>
Stores(s, from, to, statuses) ==
  /\ exec[s].pc \in from /\ exec'[s].pc \in to /\ exec'[s].row.status \in statuses
  /\ exec'[s].row.cancel = exec[s].row.cancel /\ exec'[s].ctx = exec[s].ctx /\ SameAttempt(s)
  /\ UNCHANGED cut
  /\ \/ dep' = [dep EXCEPT ![exec[s].d] = exec'[s].row]
     \/ exec[s].ctx # "live" /\ UNCHANGED dep
Loads(s) ==
  /\ exec[s].pc = "load" /\ exec'[s].row = dep[exec[s].d] /\ dep[exec[s].d].status \notin Terminal
  /\ exec'[s].pc = IF dep[exec[s].d].cancel THEN "finalize" ELSE "loadApp"
  /\ exec'[s].ctx = exec[s].ctx /\ SameAttempt(s) /\ UNCHANGED <<dep, cut>>
Starts(s) ==
  /\ exec[s].pc = "loadApp" /\ exec'[s].pc = "start"
  /\ exec'[s].row.status = exec[s].row.status /\ exec'[s].row.cancel = exec[s].row.cancel
  /\ exec'[s].ctx = exec[s].ctx /\ SameAttempt(s) /\ UNCHANGED <<dep, cut>>
Stops(s) ==
  /\ exec[s].pc # "idle"
  /\ exec'[s].pc = exec[s].pc /\ exec'[s].row = exec[s].row /\ SameAttempt(s) /\ UNCHANGED dep
  /\ (Asked(s) /\ UNCHANGED cut) \/ cut' = cut \cup {exec[s].d}
Leaves(s) == exec'[s] = FreeSlot /\ UNCHANGED <<dep, cut>>

SlotEffect(s) ==
  \/ Walks(s, Begun, (Begun \ {"building"}) \cup {"deployWrite", "ack"})
  \/ Walks(s, Begun, {"finalize"}) /\ (exec[s].ctx # "live" \/ Asked(s))
  \/ Walks(s, {"finalizeApp"}, {"ack"})
  \/ Walks(s, {"load"}, {"ack"}) /\ dep[exec[s].d].status \in Terminal
  \/ Walks(s, {"load", "loadApp"}, {"nack"})
  \/ Stores(s, {"start", "deployWrite"}, {"building", "deploying"}, {"building", "deploying"})
  \/ Stores(s, {"start"}, {"deployWrite"}, {exec[s].row.status}) /\ exec[s].ctx = "live"
  \/ Stores(s, Begun, Begun, {exec[s].row.status, "success", "failed"})
  \/ Stores(s, {"finalize"}, {"finalizeApp"}, {"cancelled"})
  \/ Loads(s) \/ Starts(s) \/ Stops(s) \/ Leaves(s)

LEMMA SlotEffects ==
  ASSUME NEW s \in Slots, TypeOK, BuildNext(s) \/ RolloutNext(s) \/ DeliveryNext(s)
  PROVE  SameOthers(s) /\ SlotEffect(s)
<1> DEFINE x == exec[s]
           y == exec'[s]
<1>0. x \in Slot /\ x.d \in Deploys /\ x.row \in Row /\ exec \in [Slots -> Slot]
  BY SlotUpdates DEF TypeOK
<1>1. SameOthers(s)
  <2>1. UNCHANGED <<canc, recov, trig, asked, late, aborted>>
    BY DEF BuildNext, BeginBuild, SkipBuild, BuildLogs, BuildError, BuildErrorCancelled,
           BuildErrorFailed, BuildDone, BuildStored, BuildChecked, Reload, ReloadFails,
           RolloutNext, DeployWrite, PrepareFails, DeployErrorCancelled,
           DeployErrorFailed, DeployApplied, Succeed, SucceedApp, SaveApp, Fail,
           FailApp, Finalize, FinalizeApp,
           DeliveryNext, Load, LoadApp, LoadFails, Ack, AckFails, Nack, PollCancel, Shutdown, Crash
  <2>2. \E r : exec' = [exec EXCEPT ![s] = r]
    <3>1. CASE BuildNext(s)
      BY <3>1 DEF BuildNext, BeginBuild, SkipBuild, BuildLogs, BuildError, BuildErrorCancelled,
                  BuildErrorFailed, BuildDone, BuildStored, BuildChecked, Reload, ReloadFails,
                  Save, Goto, GotoFail, GotoFinalize
    <3>2. CASE RolloutNext(s)
      BY <3>2 DEF RolloutNext, DeployWrite, PrepareFails, DeployErrorCancelled,
                  DeployErrorFailed, DeployApplied, Succeed, SucceedApp, SaveApp, Fail,
                  FailApp, Finalize, FinalizeApp, Save, Goto, GotoFail, GotoFinalize
    <3>3. CASE DeliveryNext(s)
      BY <3>3 DEF DeliveryNext, Load, LoadApp, LoadFails, Ack, AckFails, Nack, PollCancel, Shutdown,
                  Crash, Goto
    <3> QED
      BY <3>1, <3>2, <3>3
  <2> QED
    BY <1>0, <2>1, <2>2 DEF SameOthers
(* The three ways in which the actions are written.                        *)
<1>2. ASSUME NEW pc \in SlotPC, NEW from, NEW to, x.pc \in from, pc \in to, UNCHANGED <<dep, cut>>,
             Goto(s, pc) \/ (pc = "finalize" /\ GotoFinalize(s))
               \/ (pc = "fail" /\ \E b \in BOOLEAN : GotoFail(s, b))
      PROVE  Walks(s, from, to)
  BY <1>0, <1>2 DEF Walks, SameAttempt, Goto, GotoFinalize, GotoFail, Slot
<1>3. ASSUME NEW pc \in SlotPC, NEW row \in Row, NEW from, NEW to, NEW sts,
             x.pc \in from, pc \in to, row.status \in sts,
             row.cancel = x.row.cancel, UNCHANGED cut, Save(s, row, pc)
      PROVE  Stores(s, from, to, sts)
  <2>1. y.pc = pc /\ y.row = row /\ y.ctx = x.ctx /\ y.d = x.d /\ y.n = x.n
    BY <1>0, <1>3 DEF Save, Slot
  <2> QED
    BY <1>3, <2>1 DEF Stores, SameAttempt, Save, Writes
<1>4. \A st \in {"building", "deploying", "success", "failed", "cancelled"} :
        LET row == [x.row EXCEPT !.status = st] IN
        row \in Row /\ row.status = st /\ row.cancel = x.row.cancel
  BY <1>0, RowUpdates DEF Row
<1>6. ASSUME NEW st \in {"building", "deploying", "success", "failed", "cancelled"}, NEW pc \in SlotPC,
             Save(s, [x.row EXCEPT !.status = st], pc), NEW from, NEW to, NEW sts,
             x.pc \in from, pc \in to, st \in sts, UNCHANGED cut
      PROVE  Stores(s, from, to, sts)
  <2> DEFINE row == [x.row EXCEPT !.status = st]
  <2>1. row \in Row /\ row.status = st /\ row.cancel = x.row.cancel /\ Save(s, row, pc)
    BY <1>4, <1>6
  <2> HIDE DEF row
  <2> QED
    BY <1>3, <1>6, <2>1
<1>5. SlotEffect(s)
  <2>1. CASE BeginBuild(s)
    <3> DEFINE row == [x.row EXCEPT !.status = "building"]
    <3>1. row \in Row /\ row.status = "building" /\ row.cancel = x.row.cancel
      BY <1>4
    <3>2. /\ exec' = [exec EXCEPT ![s].row = row, ![s].pc = "building", ![s].gone = FALSE]
          /\ dep' = IF Writes(s) THEN [dep EXCEPT ![x.d] = row] ELSE dep
          /\ x.pc = "start" /\ UNCHANGED cut
      BY <2>1 DEF BeginBuild
    <3> HIDE DEF row
    <3>3. y.pc = "building" /\ y.row = row /\ y.ctx = x.ctx /\ y.d = x.d /\ y.n = x.n
      BY <1>0, <3>2 DEF Slot
    <3>4. Stores(s, {"start", "deployWrite"}, {"building", "deploying"}, {"building", "deploying"})
      BY <3>1, <3>2, <3>3 DEF Stores, SameAttempt, Writes
    <3> QED
      BY <3>4 DEF SlotEffect
  <2>2. CASE SkipBuild(s)
    <3>1. Stores(s, {"start"}, {"deployWrite"}, {x.row.status}) /\ x.ctx = "live"
      BY <1>0, <1>3, <2>2 DEF SkipBuild, SlotPC
    <3> QED
      BY <3>1 DEF SlotEffect
  <2>3. CASE BuildLogs(s) \/ BuildError(s) \/ BuildStored(s)
    <3>1. Stores(s, Begun, Begun, {x.row.status, "success", "failed"})
      BY <1>0, <1>3, <2>3 DEF BuildLogs, BuildError, BuildStored, SlotPC, Begun
    <3> QED
      BY <3>1 DEF SlotEffect
  <2>4. CASE BuildErrorFailed(s) \/ BuildDone(s) \/ Reload(s) \/ ReloadFails(s)
             \/ PrepareFails(s) \/ DeployErrorFailed(s) \/ DeployApplied(s) \/ SucceedApp(s)
             \/ SaveApp(s) \/ FailApp(s) \/ (BuildChecked(s) /\ Goto(s, "reload"))
    <3>1. \E pc \in (Begun \ {"building"}) \cup {"deployWrite", "ack"} :
            exec[s].pc \in Begun /\ UNCHANGED <<dep, cut>> /\
            \/ Goto(s, pc) \/ (pc = "fail" /\ \E b \in BOOLEAN : GotoFail(s, b))
            \/ (exec' = [exec EXCEPT ![s].pc = "deployWrite", ![s].app = app] /\ pc = "deployWrite")
      BY <2>4 DEF BuildErrorFailed, BuildDone, Reload, ReloadFails, BuildChecked, PrepareFails,
                  DeployErrorFailed, DeployApplied, SucceedApp, SaveApp, FailApp, Begun
    <3>2. (Begun \ {"building"}) \cup {"deployWrite", "ack"} \subseteq SlotPC
      BY DEF Begun, SlotPC
    <3>3. Walks(s, Begun, (Begun \ {"building"}) \cup {"deployWrite", "ack"})
      <4>1. PICK pc \in (Begun \ {"building"}) \cup {"deployWrite", "ack"} :
              exec[s].pc \in Begun /\ UNCHANGED <<dep, cut>> /\
              \/ Goto(s, pc) \/ (pc = "fail" /\ \E b \in BOOLEAN : GotoFail(s, b))
              \/ (exec' = [exec EXCEPT ![s].pc = "deployWrite", ![s].app = app] /\ pc = "deployWrite")
        BY <3>1
      <4>2. CASE Goto(s, pc) \/ (pc = "fail" /\ \E b \in BOOLEAN : GotoFail(s, b))
        BY <1>2, <3>2, <4>1, <4>2
      <4>3. CASE exec' = [exec EXCEPT ![s].pc = "deployWrite", ![s].app = app]
        BY <1>0, <4>1, <4>3 DEF Walks, SameAttempt, Slot
      <4> QED
        BY <4>1, <4>2, <4>3
    <3> QED
      BY <3>3 DEF SlotEffect
  <2>5. CASE BuildErrorCancelled(s) \/ DeployErrorCancelled(s)
             \/ (BuildChecked(s) /\ x.ctx # "live" /\ GotoFinalize(s))
    <3>1. Walks(s, Begun, {"finalize"}) /\ (x.ctx # "live" \/ Asked(s))
      <4>1. /\ x.pc \in Begun /\ GotoFinalize(s) /\ UNCHANGED <<dep, cut>>
            /\ x.ctx # "live" \/ Asked(s)
        BY <2>5 DEF BuildErrorCancelled, DeployErrorCancelled, BuildChecked, Begun
      <4> QED
        BY <1>2, <4>1 DEF SlotPC
    <3> QED
      BY <3>1 DEF SlotEffect
  <2>6. CASE DeployWrite(s)
    <3>1. Stores(s, {"start", "deployWrite"}, {"building", "deploying"}, {"building", "deploying"})
      BY <1>6, <2>6 DEF DeployWrite, SlotPC
    <3> QED
      BY <3>1 DEF SlotEffect
  <2>7. CASE Succeed(s) \/ Fail(s)
    <3>1. Stores(s, Begun, Begun, {x.row.status, "success", "failed"})
      BY <1>6, <2>7 DEF Succeed, Fail, SlotPC, Begun
    <3> QED
      BY <3>1 DEF SlotEffect
  <2>8. CASE Finalize(s)
    <3>1. Stores(s, {"finalize"}, {"finalizeApp"}, {"cancelled"})
      BY <1>6, <2>8 DEF Finalize, SlotPC
    <3> QED
      BY <3>1 DEF SlotEffect
  <2>9. CASE FinalizeApp(s)
    <3>1. Walks(s, {"finalizeApp"}, {"ack"})
      BY <1>0, <1>2, <2>9 DEF FinalizeApp, SlotPC
    <3> QED
      BY <3>1 DEF SlotEffect
  <2>10. CASE Load(s)
    <3>1. CASE IsTerminal(dep[x.d]) /\ Goto(s, "ack")
      <4>1. Walks(s, {"load"}, {"ack"}) /\ dep[x.d].status \in Terminal
        BY <1>0, <1>2, <2>10, <3>1 DEF Load, IsTerminal, SlotPC
      <4> QED
        BY <4>1 DEF SlotEffect
    <3>2. CASE ~ (IsTerminal(dep[x.d]) /\ Goto(s, "ack"))
      <4>1. Loads(s)
        BY <1>0, <2>10, <3>2 DEF Load, Loads, IsTerminal, SameAttempt, Slot
      <4> QED
        BY <4>1 DEF SlotEffect
    <3> QED
      BY <3>1, <3>2
  <2>11. CASE LoadApp(s)
    <3> DEFINE z == [x EXCEPT !.pc = "start", !.app = app, !.row.started = x.n]
    <3>1. z.row.status = x.row.status /\ z.row.cancel = x.row.cancel
      BY <1>0 DEF Slot, Row
    <3>2. z.pc = "start" /\ z.d = x.d /\ z.n = x.n /\ z.ctx = x.ctx
      BY <1>0 DEF Slot
    <3>3. y = z
      BY <1>0, <2>11 DEF LoadApp
    <3> HIDE DEF z
    <3>4. Starts(s)
      BY <2>11, <3>1, <3>2, <3>3 DEF LoadApp, Starts, SameAttempt
    <3> QED
      BY <3>4 DEF SlotEffect
  <2>12. CASE LoadFails(s)
    <3>1. Walks(s, {"load", "loadApp"}, {"nack"})
      BY <1>0, <1>2, <2>12 DEF LoadFails, SlotPC
    <3> QED
      BY <3>1 DEF SlotEffect
  <2>13. CASE PollCancel(s) \/ Shutdown(s)
    <3>1. Stops(s)
      BY <1>0, <2>13 DEF PollCancel, Shutdown, Stops, SameAttempt, Asked, Polled, Slot
    <3> QED
      BY <3>1 DEF SlotEffect
  <2>14. CASE Ack(s) \/ AckFails(s) \/ Nack(s) \/ Crash(s)
    <3>1. Leaves(s)
      BY <1>0, <2>14 DEF Ack, AckFails, Nack, Crash, Leaves
    <3> QED
      BY <3>1 DEF SlotEffect
  <2> QED
    BY <2>1, <2>2, <2>3, <2>4, <2>5, <2>6, <2>7, <2>8, <2>9, <2>10, <2>11, <2>12, <2>13, <2>14
       DEF BuildNext, RolloutNext, DeliveryNext, BuildChecked
<1> QED
  BY <1>1, <1>5

-----------------------------------------------------------------------------
(* Cancellation *)

Reason(d) == d \in asked \cup cut \/ late[d] > 1

(* No copy of a row is cancelled, and no copy but that of the Cancel       *)
(* request itself asks for it, without a reason; a job whose context is    *)
(* done has one, since the attempt that is half an hour old is number 1 or *)
(* higher.                                                                 *)
SlotCause(s) ==
  /\ exec[s].row.status = "cancelled" => Reason(exec[s].d)
  /\ exec[s].row.cancel => exec[s].d \in asked
  /\ exec[s].ctx # "live" \/ exec[s].pc = "finalize" => Reason(exec[s].d)
  /\ exec[s].pc # "idle" => exec[s].n > 0
RowCause(d) ==
  /\ dep[d].status = "cancelled" \/ canc[d].row.status = "cancelled"
       \/ recov[d].row.status = "cancelled" => Reason(d)
  /\ dep[d].cancel \/ recov[d].row.cancel \/ canc[d].pc \in {"kill", "finalize"} => d \in asked
CauseInv == (\A d \in Deploys : RowCause(d)) /\ (\A s \in Slots : SlotCause(s))

LEMMA CauseSlotStep ==
  ASSUME NEW s \in Slots, TypeOK, CauseInv, BuildNext(s) \/ RolloutNext(s) \/ DeliveryNext(s)
  PROVE  CauseInv'
<1> DEFINE d == exec[s].d
<1>0. /\ SameOthers(s) /\ SlotEffect(s) /\ d \in Deploys /\ dep \in [Deploys -> Row]
      /\ exec \in [Slots -> Slot]
  BY SlotEffects, SlotUpdates DEF TypeOK
<1>1. cut \subseteq cut' /\ asked' = asked /\ late' = late
  BY <1>0 DEF SlotEffect, SameOthers, Walks, Stores, Loads, Starts, Stops, Leaves
<1>2. \A e \in Deploys : Reason(e) => Reason(e)'
  BY <1>1 DEF Reason
<1>3. \A t \in Slots \ {s} : SlotCause(t)'
  <2> TAKE t \in Slots \ {s}
  <2>1. SlotCause(t) /\ exec'[t] = exec[t] /\ exec[t].d \in Deploys
    BY <1>0, SlotUpdates DEF CauseInv, SameOthers
  <2> QED
    BY <1>1, <1>2, <2>1 DEF SlotCause
<1>4. ASSUME NEW e \in Deploys, dep'[e] = dep[e] PROVE RowCause(e)'
  BY <1>0, <1>1, <1>2, <1>4 DEF CauseInv, RowCause, SameOthers
<1>5. SlotCause(s) /\ RowCause(d)
  BY <1>0 DEF CauseInv
<1>6. ASSUME SlotCause(s)', UNCHANGED dep PROVE CauseInv'
  BY <1>3, <1>4, <1>6 DEF CauseInv
<1>7. ASSUME NEW from, NEW to, Walks(s, from, to), "finalize" \in to => Reason(d), from \cap {"idle"} = {}
      PROVE  CauseInv'
  <2>1. SlotCause(s)'
    BY <1>1, <1>2, <1>0, <1>5, <1>7 DEF SlotCause, Walks, SameAttempt
  <2> QED
    BY <1>6, <1>7, <2>1 DEF Walks
<1>8. ASSUME NEW from, NEW to, NEW sts, Stores(s, from, to, sts), "finalize" \notin to, "idle" \notin from,
             "cancelled" \in sts => Reason(d)
      PROVE  CauseInv'
  <2>1. exec'[s].row.status = "cancelled" => Reason(d)
    BY <1>8 DEF Stores
  <2>2. SlotCause(s)'
    BY <1>0, <1>1, <1>2, <1>5, <1>8, <2>1 DEF SlotCause, Stores, SameAttempt
  <2>3. ASSUME NEW e \in Deploys PROVE RowCause(e)'
    <3>1. CASE dep'[e] = dep[e]
      BY <1>4, <3>1
    <3>2. CASE dep'[e] # dep[e]
      <4>1. e = d /\ dep'[e] = exec'[s].row
        BY <1>0, <1>8, <3>2 DEF Stores
      <4>2. exec'[s].row.cancel => d \in asked
        BY <1>5, <1>8 DEF SlotCause, Stores
      <4> QED
        BY <1>0, <1>1, <1>2, <1>5, <2>1, <4>1, <4>2 DEF RowCause, SameOthers
    <3> QED
      BY <3>1, <3>2
  <2> QED
    BY <1>3, <2>2, <2>3 DEF CauseInv
<1>a. exec[s].row.status = "cancelled" => Reason(d)
  BY <1>5 DEF SlotCause
<1>9. Asked(s) => Reason(d)
  BY <1>5 DEF Asked, RowCause, Reason
<1>10. CASE Loads(s)
  <2>1. dep[d].cancel => Reason(d)
    BY <1>5 DEF RowCause, Reason
  <2>2. SlotCause(s)'
    BY <1>0, <1>1, <1>2, <1>5, <1>10, <2>1 DEF Loads, SameAttempt, SlotCause, RowCause, Terminal
  <2> QED
    BY <1>6, <1>10, <2>2 DEF Loads
<1>11. CASE Starts(s)
  <2>1. SlotCause(s)'
    BY <1>0, <1>1, <1>2, <1>5, <1>11 DEF Starts, SameAttempt, SlotCause
  <2> QED
    BY <1>6, <1>11, <2>1 DEF Starts
<1>12. CASE Stops(s)
  <2>1. Reason(d)'
    BY <1>0, <1>2, <1>9, <1>12 DEF Stops, SameAttempt, Reason
  <2>2. SlotCause(s)'
    BY <1>0, <1>1, <1>2, <1>5, <1>12, <2>1 DEF Stops, SameAttempt, SlotCause
  <2> QED
    BY <1>6, <1>12, <2>2 DEF Stops
<1>13. CASE Leaves(s)
  <2>1. SlotCause(s)'
    BY <1>0, <1>13 DEF Leaves, SlotCause, FreeSlot, Delivery, NoRow
  <2> QED
    BY <1>6, <1>13, <2>1 DEF Leaves
<1>14. CASE Walks(s, Begun, (Begun \ {"building"}) \cup {"deployWrite", "ack"})
  BY <1>7, <1>14 DEF Begun
<1>15. CASE Walks(s, Begun, {"finalize"}) /\ (exec[s].ctx # "live" \/ Asked(s))
  <2>1. Reason(d)
    BY <1>5, <1>9, <1>15 DEF SlotCause
  <2> QED
    BY <1>7, <1>15, <2>1 DEF Begun
<1>16. CASE Walks(s, {"finalizeApp"}, {"ack"}) \/ Walks(s, {"load"}, {"ack"})
            \/ Walks(s, {"load", "loadApp"}, {"nack"})
  BY <1>7, <1>16
<1>17. CASE Stores(s, {"start", "deployWrite"}, {"building", "deploying"}, {"building", "deploying"})
            \/ Stores(s, {"start"}, {"deployWrite"}, {exec[s].row.status})
  BY <1>8, <1>17, <1>a
<1>18. CASE Stores(s, Begun, Begun, {exec[s].row.status, "success", "failed"})
  BY <1>8, <1>18, <1>a DEF Begun
<1>19. CASE Stores(s, {"finalize"}, {"finalizeApp"}, {"cancelled"})
  <2>1. Reason(d)
    BY <1>5, <1>19 DEF SlotCause, Stores
  <2> QED
    BY <1>8, <1>19, <2>1
<1> QED
  BY <1>0, <1>10, <1>11, <1>12, <1>13, <1>14, <1>15, <1>16, <1>17, <1>18, <1>19 DEF SlotEffect

(* The requests and the recovery.                                          *)
LEMMA CauseRequestStep ==
  ASSUME NEW d \in Deploys, TypeOK, CauseInv, TriggerNext(d) \/ CancelNext(d) \/ RecoverNext(d)
  PROVE  CauseInv'
<1>0. /\ dep[d] \in Row /\ canc[d] \in Copy(CancPC) /\ recov[d] \in Copy(RecovPC)
      /\ canc[d].row \in Row /\ recov[d].row \in Row
  BY CopyUpdates DEF TypeOK
<1>1. RowCause(d)
  BY DEF CauseInv
<1>2. ASSUME UNCHANGED <<late, cut>>, asked \subseteq asked', RowCause(d)',
             \A s \in Slots : exec'[s].row = exec[s].row /\ exec'[s].d = exec[s].d
                             /\ exec'[s].pc = exec[s].pc /\ exec'[s].n = exec[s].n
                             /\ exec'[s].ctx = exec[s].ctx,
             \A e \in Deploys \ {d} :
               dep'[e] = dep[e] /\ canc'[e] = canc[e] /\ recov'[e] = recov[e]
      PROVE  CauseInv'
  <2>1. \A e \in Deploys : Reason(e) => Reason(e)'
    BY <1>2 DEF Reason
  <2>2. \A e \in Deploys \ {d} : RowCause(e)'
    BY <1>2, <2>1 DEF CauseInv, RowCause
  <2>3. ASSUME NEW s \in Slots PROVE SlotCause(s)'
    <3>1. SlotCause(s) /\ exec[s].d \in Deploys
      BY SlotUpdates DEF CauseInv, TypeOK
    <3> QED
      BY <1>2, <2>1, <3>1 DEF SlotCause
  <2> QED
    BY <1>2, <2>2, <2>3 DEF CauseInv
<1>3. CASE TriggerNext(d)
  <2>1. UNCHANGED <<exec, canc, recov, late, cut, asked>>
    BY <1>3 DEF TriggerNext, TriggerAdmit, TriggerCreate, TriggerEnqueue,
                TriggerEnqueueFails, TriggerUndo, TriggerMarkBuilding, WebhookCommit,
                TriggerAborts
  <2>2. \A e \in Deploys \ {d} : dep'[e] = dep[e]
    BY <1>3 DEF TriggerNext, TriggerAdmit, TriggerCreate, TriggerEnqueue,
                TriggerEnqueueFails, TriggerUndo, TriggerMarkBuilding, WebhookCommit,
                TriggerAborts, TypeOK
  <2>3. UNCHANGED dep[d] \/ (dep'[d].status \in {"queued", "failed"} /\ ~ dep'[d].cancel)
    BY <1>0, <1>3, SMTT(60)
       DEF TriggerNext, TriggerAdmit, TriggerCreate, TriggerEnqueue,
           TriggerEnqueueFails, TriggerUndo, TriggerMarkBuilding, WebhookCommit,
           TriggerAborts, Created, Undone, Row, TypeOK
  <2>4. RowCause(d)'
    BY <1>1, <2>1, <2>3 DEF RowCause, Reason
  <2> QED
    BY <1>2, <2>1, <2>2, <2>4
<1>4. CASE CancelNext(d)
  <2>1. UNCHANGED <<recov, late, cut>> /\ asked \subseteq asked'
    BY <1>4 DEF CancelNext, CancelRead, CancelWrite, CancelBuild, CancelFinalize,
                CancelFinalizeApp, CancelAborts
  <2>2. \A e \in Deploys \ {d} : dep'[e] = dep[e] /\ canc'[e] = canc[e]
    BY <1>4 DEF CancelNext, CancelRead, CancelWrite, CancelBuild, CancelFinalize,
                CancelFinalizeApp, CancelAborts, TypeOK
  <2>3. \A s \in Slots : exec'[s].row = exec[s].row /\ exec'[s].d = exec[s].d
                        /\ exec'[s].pc = exec[s].pc /\ exec'[s].n = exec[s].n
                        /\ exec'[s].ctx = exec[s].ctx
    BY <1>4 DEF CancelNext, CancelRead, CancelWrite, CancelBuild, CancelFinalize,
                CancelFinalizeApp, CancelAborts, TypeOK, Slot
  <2>4. RowCause(d)'
    <3>1. CASE CancelRead(d)
      <4> DEFINE row == [dep[d] EXCEPT !.cancel = TRUE]
      <4>1. row.status = dep[d].status /\ dep[d].status # "cancelled"
        BY <1>0, <3>1 DEF Row, CancelRead, InProgress, Running
      <4> HIDE DEF row
      <4>2. canc'[d] = Holding("write", row) /\ UNCHANGED <<dep, recov, asked, late, cut>>
        BY <3>1 DEF CancelRead, TypeOK, row
      <4> QED
        BY <1>1, <4>1, <4>2 DEF RowCause, Reason, Holding
    <3>2. CASE CancelWrite(d)
      <4>1. canc'[d].row = canc[d].row /\ canc'[d].pc = "kill" /\ dep'[d] = canc[d].row
            /\ asked' = asked \cup {d} /\ UNCHANGED <<recov, late, cut>>
        BY <1>0, <3>2 DEF CancelWrite, TypeOK, Copy
      <4> QED
        BY <4>1 DEF RowCause, Reason
    <3>3. CASE CancelBuild(d)
      <4>1. /\ canc'[d] = Holding("finalize", canc[d].row) \/ canc'[d] = NoCopy
            /\ canc[d].pc = "kill" /\ UNCHANGED <<dep, recov, asked, late, cut>>
        BY <3>3 DEF CancelBuild, TypeOK
      <4> QED
        BY <1>1, <4>1 DEF RowCause, Reason, Holding, NoCopy, NoRow
    <3>4. CASE CancelFinalize(d)
      <4>1. d \in asked
        BY <1>1, <3>4 DEF CancelFinalize, RowCause
      <4> QED
        BY <3>4, <4>1 DEF CancelFinalize, RowCause, Reason
    <3>5. CASE CancelFinalizeApp(d) \/ CancelAborts(d)
      <4>1. canc'[d] = NoCopy /\ UNCHANGED <<dep, recov, asked, late, cut>>
        BY <3>5 DEF CancelFinalizeApp, CancelAborts, TypeOK
      <4> QED
        BY <1>1, <4>1 DEF RowCause, Reason, Holding, NoCopy, NoRow
    <3> QED
      BY <1>4, <3>1, <3>2, <3>3, <3>4, <3>5 DEF CancelNext
  <2> QED
    BY <1>2, <2>1, <2>2, <2>3, <2>4
<1>5. CASE RecoverNext(d)
  <2>1. UNCHANGED <<exec, canc, late, cut, asked>>
    BY <1>5 DEF RecoverNext, RecoverList, RecoverWrite, RecoverApp
  <2>2. \A e \in Deploys \ {d} : dep'[e] = dep[e] /\ recov'[e] = recov[e]
    BY <1>5 DEF RecoverNext, RecoverList, RecoverWrite, RecoverApp, TypeOK
  <2>3. /\ UNCHANGED dep[d] \/ (dep'[d].status = "failed" /\ dep'[d].cancel = recov[d].row.cancel)
        /\ recov'[d].row \in {dep[d], NoRow, recov[d].row}
    BY <1>0, <1>5, SMTT(60) DEF RecoverNext, RecoverList, RecoverWrite, RecoverApp, Holding, NoCopy, Row, TypeOK
  <2>4. RowCause(d)'
    BY <1>1, <2>1, <2>3 DEF RowCause, Reason, NoRow
  <2> QED
    BY <1>2, <2>1, <2>2, <2>4
<1> QED
  BY <1>3, <1>4, <1>5

LEMMA CauseStep ==
  ASSUME TypeOK, CauseInv, [Next]_vars
  PROVE  CauseInv'
<1>1. ASSUME NEW d \in Deploys, HalfHourPasses(d) PROVE CauseInv'
  <2>1. late[d] \in Nat /\ late'[d] = late[d] + 1 /\ \A e \in Deploys \ {d} : late'[e] = late[e]
    BY <1>1, PipelineAssumption DEF HalfHourPasses, TypeOK
  <2>2. \A e \in Deploys : Reason(e) => Reason(e)'
    BY <1>1, <2>1 DEF HalfHourPasses, Reason
  <2>3. \A e \in Deploys : RowCause(e)'
    BY <1>1, <2>2 DEF HalfHourPasses, CauseInv, RowCause
  <2>4. ASSUME NEW s \in Slots PROVE SlotCause(s)'
    <3>1. exec[s].d \in Deploys /\ exec[s] \in Slot /\ exec[s].n \in 0..ReadCap
      BY SlotUpdates DEF TypeOK
    <3>2. CASE Runs(s, d) /\ exec[s].n = late[d] /\ exec[s].ctx = "live"
      <4>1. exec'[s] = [exec[s] EXCEPT !.ctx = "deadline"]
        BY <1>1, <3>2 DEF HalfHourPasses
      <4>2. exec[s].n > 0
        BY <3>2 DEF CauseInv, SlotCause, Runs
      <4>3. Reason(d)'
        BY <2>1, <3>2, <4>2 DEF Reason
      <4>4. /\ exec'[s].d = d /\ exec'[s].row = exec[s].row /\ exec'[s].pc = exec[s].pc
            /\ exec'[s].n = exec[s].n
        BY <3>1, <3>2, <4>1 DEF Slot, Runs
      <4>5. exec'[s].row.cancel => d \in asked'
        BY <1>1, <3>2, <4>4 DEF CauseInv, SlotCause, Runs, HalfHourPasses
      <4> QED
        BY <4>2, <4>3, <4>4, <4>5 DEF SlotCause
    <3>3. CASE ~ (Runs(s, d) /\ exec[s].n = late[d] /\ exec[s].ctx = "live")
      <4>1. exec'[s] = exec[s] /\ asked' = asked
        BY <1>1, <3>3 DEF HalfHourPasses
      <4> QED
        BY <2>2, <3>1, <4>1 DEF CauseInv, SlotCause
    <3> QED
      BY <3>2, <3>3
  <2> QED
    BY <2>3, <2>4 DEF CauseInv
<1>2. ASSUME NEW d \in Deploys, NEW s \in Slots, Fetch(s, d) PROVE CauseInv'
  <2>1. UNCHANGED <<dep, canc, recov, late, cut, asked>>
    BY <1>2 DEF Fetch
  <2>2. queue[d].ct + 1 > 0
    BY PipelineAssumption DEF TypeOK, Queue!Message
  <2>3. /\ exec'[s].row.status = "none" /\ ~ exec'[s].row.cancel /\ exec'[s].pc = "load"
        /\ exec'[s].ctx = "live" /\ exec'[s].n = queue[d].ct + 1
        /\ \A t \in Slots \ {s} : exec'[t] = exec[t]
    BY <1>2 DEF Fetch, Delivery, NoRow, TypeOK
  <2> QED
    BY <2>1, <2>2, <2>3 DEF CauseInv, RowCause, SlotCause, Reason
<1>3. CASE \/ \E d \in Deploys : Redeliver(d)
           \/ PodsChange \/ StatusRead \/ StatusWrite \/ EditRead \/ EditWrite \/ EditPush
           \/ UNCHANGED vars
  <2>1. UNCHANGED <<dep, canc, recov, exec, late, cut, asked>>
    BY <1>3 DEF Redeliver, PodsChange, StatusRead, StatusWrite, EditRead, EditWrite, EditPush, vars
  <2> QED
    BY <2>1 DEF CauseInv, RowCause, SlotCause, Reason
<1> QED
  BY <1>1, <1>2, <1>3, CauseRequestStep, CauseSlotStep DEF Next

(* A deployment ends cancelled only because somebody asked, its worker was *)
(* shut down or half an hour was over.                                     *)
THEOREM CancelledWithReason == Spec => []CancelledForAReason
<1>1. Init => CauseInv
  <2> SUFFICES ASSUME Init PROVE CauseInv
    OBVIOUS
  <2>1. /\ \A d \in Deploys : dep[d] = NoRow /\ canc[d] = NoCopy /\ recov[d] = NoCopy
        /\ \A s \in Slots : exec[s] = FreeSlot
    BY DEF Init
  <2>2. /\ NoRow.status = "none" /\ ~ NoRow.cancel /\ NoCopy.row = NoRow /\ NoCopy.pc = "idle"
        /\ FreeSlot.row = NoRow /\ FreeSlot.pc = "idle" /\ FreeSlot.ctx = "live"
    BY DEF NoRow, NoCopy, Holding, FreeSlot, Delivery
  <2>3. \A d \in Deploys : RowCause(d)
    BY <2>1, <2>2 DEF RowCause
  <2>4. \A s \in Slots : SlotCause(s)
    BY <2>1, <2>2 DEF SlotCause
  <2> QED
    BY <2>3, <2>4 DEF CauseInv
<1>2. TypeOK /\ CauseInv /\ [Next]_vars => CauseInv'
  BY CauseStep
<1>3. CauseInv => CancelledForAReason
  BY DEF CauseInv, RowCause, Reason, CancelledForAReason
<1> QED
  BY <1>1, <1>2, <1>3, TypeCorrect, PTL DEF Spec

-----------------------------------------------------------------------------
(* Orphans *)

Excepted(d) == d \in cut \cup aborted \/ trig[d] = "hooked"
Seen(d) == dep[d].status # "queued" \/ Owed(d) \/ Excepted(d)

(* Once a slot has written to the row, or its context is done, the row is  *)
(* queued only if a Cancel request has put it back and will finalize it,   *)
(* so that the slot may remove the message.                                *)
Ending == {"finalize", "finalizeApp", "ack"}
SlotSeen(s) ==
  /\ exec[s].pc # "idle" /\ (exec[s].ctx # "live" \/ exec[s].pc \in Begun \cup Ending) => Seen(exec[s].d)
  /\ exec[s].row.cancel => exec[s].pc \in Ending
  /\ exec[s].pc \in Begun => exec[s].row.status # "queued"
RowSeen(d) ==
  /\ trig[d] \in {"idle", "create", "enqueue"} => queue[d].st = "unsent"
  /\ dep[d].cancel => Seen(d)
  /\ queue[d].st # "archived" /\ ~ Excepted(d) => Delivered(d)
OrphanInv == (\A d \in Deploys : RowSeen(d)) /\ (\A s \in Slots : SlotSeen(s))

LEMMA OrphanSlotStep ==
  ASSUME NEW s \in Slots, TypeOK, Lease, OneRunner, OrphanInv,
         BuildNext(s) \/ RolloutNext(s) \/ DeliveryNext(s)
  PROVE  OrphanInv'
<1>0. /\ SameOthers(s) /\ SlotEffect(s) /\ exec[s].d \in Deploys /\ dep \in [Deploys -> Row]
      /\ exec \in [Slots -> Slot]
  BY SlotEffects, SlotUpdates DEF TypeOK
<1> PICK d \in Deploys : d = exec[s].d
  BY <1>0
<1>1. /\ UNCHANGED <<canc, trig, aborted>> /\ cut \subseteq cut'
      /\ exec[s].pc # "idle" /\ queue[d].st = "hidden"
  <2>1. UNCHANGED <<canc, trig, aborted>> /\ cut \subseteq cut'
    BY <1>0 DEF SlotEffect, SameOthers, Walks, Stores, Loads, Starts, Stops, Leaves
  <2>2. exec[s].pc # "idle"
    BY DEF BuildNext, BeginBuild, SkipBuild, BuildLogs, BuildError, BuildErrorCancelled,
           BuildErrorFailed, BuildDone, BuildStored, BuildChecked, Reload, ReloadFails,
           RolloutNext, DeployWrite, PrepareFails, DeployErrorCancelled,
           DeployErrorFailed, DeployApplied, Succeed, SucceedApp, SaveApp, Fail,
           FailApp, Finalize, FinalizeApp,
           DeliveryNext, Load, LoadApp, LoadFails, Ack, AckFails, Nack, PollCancel, Shutdown, Crash,
           Polled
  <2> QED
    BY <2>1, <2>2 DEF Lease, Runs
<1>2. \A e \in Deploys : (Excepted(e) => Excepted(e)') /\ (Owed(e)' <=> Owed(e)) /\ (Requested(e)' <=> Requested(e))
  BY <1>1 DEF Excepted, Owed, Requested
<1>3. \A e \in Deploys : dep'[e] = dep[e] \/ (e = d /\ dep'[e] = exec'[s].row)
  BY <1>0 DEF SlotEffect, Walks, Stores, Loads, Starts, Stops, Leaves
<1>4. \A e \in Deploys : dep'[e] = dep[e] /\ Seen(e) => Seen(e)'
  BY <1>2 DEF Seen
<1>5. \A e \in Deploys \ {d} : queue'[e] = queue[e]
  <2>1. CASE Ack(s) \/ Nack(s)
    BY <2>1 DEF Ack, Nack, Leave, Queue!Delete, Queue!Archive, TypeOK
  <2>2. CASE ~ (Ack(s) \/ Nack(s))
    BY <2>2, QueueUntouched
  <2> QED
    BY <2>1, <2>2
<1>6. \A e \in Deploys \ {d} : RowSeen(e)'
  <2> TAKE e \in Deploys \ {d}
  <2>1. RowSeen(e) /\ dep'[e] = dep[e] /\ queue'[e] = queue[e]
    BY <1>3, <1>5 DEF OrphanInv
  <2> QED
    BY <1>1, <1>2, <1>4, <2>1 DEF RowSeen, Delivered, Queue!Held
<1>7. \A t \in Slots \ {s} : SlotSeen(t)'
  <2> TAKE t \in Slots \ {s}
  <2>1. SlotSeen(t) /\ exec'[t] = exec[t] /\ exec[t].d \in Deploys
    BY <1>0, SlotUpdates DEF OrphanInv, SameOthers
  <2>2. exec[t].pc # "idle" => dep'[exec[t].d] = dep[exec[t].d]
    BY <1>1, <1>3, <2>1 DEF OneRunner, Runs
  <2> QED
    BY <1>4, <2>1, <2>2 DEF SlotSeen
<1>8. RowSeen(d) /\ SlotSeen(s)
  BY DEF OrphanInv
(* The steps of a slot that goes on.                                       *)
<1>9. ASSUME ~ Leaves(s), exec'[s].d = d, SlotSeen(s)', dep'[d].cancel => Seen(d)'
      PROVE  OrphanInv'
  <2>1. UNCHANGED queue
    BY <1>0, <1>9, QueueUntouched DEF Leaves, Ack, Nack, SlotEffect, Walks, Stores, Loads, Starts, Stops
  <2>2. RowSeen(d)'
    BY <1>1, <1>8, <1>9, <2>1 DEF RowSeen, Delivered, Queue!Held
  <2> QED
    BY <1>6, <1>7, <1>9, <2>2 DEF OrphanInv
<1>a. ASSUME Seen(d), UNCHANGED dep PROVE Seen(d)'
  BY <1>2, <1>a DEF Seen
<1>10. ASSUME UNCHANGED dep, exec'[s].d = d, exec'[s].row = exec[s].row, exec'[s].pc # "idle",
              exec'[s].ctx # "live" \/ exec'[s].pc \in Begun \cup Ending => Seen(d)',
              exec[s].row.cancel => exec'[s].pc \in Ending,
              exec'[s].pc \in Begun => exec[s].row.status # "queued"
       PROVE  OrphanInv'
  <2>1. SlotSeen(s)'
    BY <1>10 DEF SlotSeen
  <2>2. dep'[d].cancel => Seen(d)'
    BY <1>8, <1>10, <1>a DEF RowSeen
  <2>3. ~ Leaves(s)
    BY <1>0, <1>10 DEF Leaves, FreeSlot, Delivery
  <2> QED
    BY <1>9, <1>10, <2>1, <2>2, <2>3
<1>b. Begun \cap Ending = {} /\ "idle" \notin Begun \cup Ending
  BY DEF Begun, Ending
<1>11. CASE Walks(s, Begun, (Begun \ {"building"}) \cup {"deployWrite", "ack"})
  <2>1. Seen(d)' /\ exec[s].row.status # "queued" /\ ~ exec[s].row.cancel
    BY <1>a, <1>8, <1>11, <1>1, <1>b DEF Walks, SlotSeen
  <2> QED
    BY <1>10, <1>11, <1>b, <2>1 DEF Walks, SameAttempt
<1>12. CASE Walks(s, Begun, {"finalize"})
  <2>1. Seen(d)' /\ exec'[s].pc = "finalize"
    BY <1>a, <1>8, <1>12, <1>1 DEF Walks, SlotSeen
  <2> QED
    BY <1>10, <1>12, <2>1 DEF Walks, SameAttempt, Ending, Begun
<1>13. CASE Walks(s, {"finalizeApp"}, {"ack"})
  <2>1. Seen(d)' /\ exec'[s].pc = "ack"
    BY <1>a, <1>8, <1>13, <1>1 DEF Walks, SlotSeen, Ending
  <2> QED
    BY <1>10, <1>13, <2>1 DEF Walks, SameAttempt, Ending, Begun
<1>14. CASE Walks(s, {"load"}, {"ack"}) /\ dep[exec[s].d].status \in Terminal
  <2>1. Seen(d)' /\ exec'[s].pc = "ack"
    BY <1>a, <1>14 DEF Walks, Seen, Terminal
  <2> QED
    BY <1>10, <1>14, <2>1 DEF Walks, SameAttempt, Ending, Begun
<1>15. CASE Walks(s, {"load", "loadApp"}, {"nack"})
  <2>1. /\ exec'[s].pc = "nack" /\ exec[s].pc \notin Ending
        /\ exec'[s].ctx # "live" => Seen(d)'
    BY <1>a, <1>1, <1>8, <1>15 DEF Walks, SlotSeen, Ending
  <2> QED
    BY <1>8, <1>10, <1>15, <2>1 DEF Walks, SameAttempt, Ending, Begun, SlotSeen
<1>16. CASE Stops(s)
  <2>1. exec[s].row.cancel => exec[s].pc \in Ending
    BY <1>8 DEF SlotSeen
  <2>2. exec[s].pc \in Begun => exec[s].row.status # "queued"
    BY <1>8 DEF SlotSeen
  <2>3. Seen(d)'
    <3>1. CASE Asked(s)
      BY <1>8, <1>a, <1>16, <3>1 DEF RowSeen, Stops, Asked
    <3>2. CASE ~ Asked(s)
      BY <1>16, <3>2 DEF Stops, Seen, Excepted
    <3> QED
      BY <3>1, <3>2
  <2> QED
    BY <1>10, <1>16, <2>1, <2>2, <2>3 DEF Stops, SameAttempt
<1>17. CASE Loads(s)
  <2>1. exec'[s].d = d /\ UNCHANGED dep /\ exec'[s].ctx = exec[s].ctx /\ exec'[s].row = dep[d]
        /\ exec'[s].pc = IF dep[d].cancel THEN "finalize" ELSE "loadApp"
    BY <1>17 DEF Loads, SameAttempt
  <2>2. dep[d].cancel \/ exec[s].ctx # "live" => Seen(d)'
    BY <1>a, <1>1, <1>8, <2>1 DEF RowSeen, SlotSeen
  <2>3. SlotSeen(s)'
    BY <2>1, <2>2 DEF SlotSeen, Begun, Ending
  <2>4. ~ Leaves(s)
    BY <1>0, <2>1 DEF Leaves, FreeSlot, Delivery
  <2> QED
    BY <1>9, <2>1, <2>2, <2>3, <2>4
<1>18. CASE Starts(s)
  <2>1. exec'[s].d = d /\ UNCHANGED dep /\ exec'[s].ctx = exec[s].ctx /\ ~ exec'[s].row.cancel
        /\ exec'[s].pc = "start"
    BY <1>8, <1>18 DEF Starts, SameAttempt, SlotSeen, Ending
  <2>2. exec[s].ctx # "live" \/ dep[d].cancel => Seen(d)'
    BY <1>a, <1>1, <1>8, <2>1 DEF RowSeen, SlotSeen
  <2>3. SlotSeen(s)'
    BY <2>1, <2>2 DEF SlotSeen, Begun, Ending
  <2>4. ~ Leaves(s)
    BY <1>0, <2>1 DEF Leaves, FreeSlot, Delivery
  <2> QED
    BY <1>9, <2>1, <2>2, <2>3, <2>4
(* The writes.                                                             *)
<1>19. ASSUME NEW from, NEW to, NEW sts, Stores(s, from, to, sts)
       PROVE  /\ exec[s].pc \in from /\ exec'[s].pc \in to /\ exec'[s].row.status \in sts
              /\ exec'[s].row.cancel = exec[s].row.cancel /\ exec'[s].ctx = exec[s].ctx
              /\ exec'[s].d = d
              /\ dep'[d] = exec'[s].row \/ (exec[s].ctx # "live" /\ UNCHANGED dep)
  BY <1>0, <1>19 DEF Stores, SameAttempt
<1>20. ASSUME exec'[s].row.status # "queued",
              dep'[d] = exec'[s].row \/ (exec[s].ctx # "live" /\ UNCHANGED dep)
       PROVE  Seen(d)'
  BY <1>1, <1>8, <1>a, <1>20 DEF SlotSeen, Seen
<1>21. CASE Stores(s, {"start", "deployWrite"}, {"building", "deploying"}, {"building", "deploying"})
            \/ Stores(s, Begun, Begun, {exec[s].row.status, "success", "failed"})
  <2>1. /\ exec[s].pc \in {"start", "deployWrite"} \cup Begun /\ exec'[s].pc \in Begun
        /\ exec'[s].row.status # "queued" /\ exec'[s].row.cancel = exec[s].row.cancel
        /\ exec'[s].ctx = exec[s].ctx /\ exec'[s].d = d
        /\ dep'[d] = exec'[s].row \/ (exec[s].ctx # "live" /\ UNCHANGED dep)
    <3>1. CASE Stores(s, {"start", "deployWrite"}, {"building", "deploying"}, {"building", "deploying"})
      <4>1. {"building", "deploying"} \subseteq Begun
        BY DEF Begun
      <4> QED
        BY <1>19, <3>1, <4>1
    <3>2. CASE Stores(s, Begun, Begun, {exec[s].row.status, "success", "failed"})
      <4>1. exec[s].pc \in Begun
        BY <1>19, <3>2
      <4> QED
        BY <1>8, <1>19, <3>2, <4>1 DEF SlotSeen
    <3> QED
      BY <1>21, <3>1, <3>2
  <2>2. ~ exec'[s].row.cancel
    BY <1>8, <2>1, <1>b DEF SlotSeen, Ending
  <2>3. Seen(d)'
    BY <1>20, <2>1
  <2>4. SlotSeen(s)'
    BY <2>1, <2>2, <2>3 DEF SlotSeen
  <2>5. ~ Leaves(s)
    BY <1>0, <1>b, <2>1 DEF Leaves, FreeSlot, Delivery
  <2> QED
    BY <1>9, <2>1, <2>3, <2>4, <2>5
<1>22. CASE Stores(s, {"start"}, {"deployWrite"}, {exec[s].row.status}) /\ exec[s].ctx = "live"
  <2>1. /\ exec'[s].pc = "deployWrite" /\ exec'[s].row.cancel = exec[s].row.cancel /\ exec'[s].ctx = "live"
        /\ exec'[s].d = d /\ dep'[d] = exec'[s].row /\ exec[s].pc = "start"
    BY <1>19, <1>22
  <2>2. ~ exec'[s].row.cancel
    BY <1>8, <2>1 DEF SlotSeen, Ending
  <2>3. SlotSeen(s)'
    BY <2>1, <2>2 DEF SlotSeen, Begun, Ending
  <2>4. ~ Leaves(s)
    BY <1>0, <2>1 DEF Leaves, FreeSlot, Delivery
  <2> QED
    BY <1>9, <2>1, <2>2, <2>3, <2>4
<1>23. CASE Stores(s, {"finalize"}, {"finalizeApp"}, {"cancelled"})
  <2>1. /\ exec'[s].pc = "finalizeApp" /\ exec'[s].d = d /\ exec'[s].row.status = "cancelled"
        /\ dep'[d] = exec'[s].row \/ (exec[s].ctx # "live" /\ UNCHANGED dep)
    BY <1>19, <1>23
  <2>2. Seen(d)'
    BY <1>20, <2>1
  <2>3. SlotSeen(s)'
    BY <2>1, <2>2 DEF SlotSeen, Begun, Ending
  <2>4. ~ Leaves(s)
    BY <1>0, <2>1 DEF Leaves, FreeSlot, Delivery
  <2> QED
    BY <1>9, <2>1, <2>2, <2>3, <2>4
<1>24. CASE Leaves(s)
  <2>1. exec'[s] = FreeSlot /\ UNCHANGED dep
    BY <1>24 DEF Leaves
  <2>2. SlotSeen(s)'
    BY <2>1 DEF SlotSeen, FreeSlot, Delivery, NoRow, Begun
  <2>3. queue'[d].st \in {"hidden", "archived"} \/ (queue'[d].st = "deleted" /\ exec[s].pc = "ack")
    <3>1. CASE Ack(s) \/ Nack(s)
      BY <1>1, <3>1 DEF Ack, Nack, Leave, Queue!Delete, Queue!Archive, TypeOK, Queue!Message
    <3>2. CASE ~ (Ack(s) \/ Nack(s))
      BY <1>1, <3>2, QueueUntouched
    <3> QED
      BY <3>1, <3>2
  <2>4. exec[s].pc = "ack" => Seen(d)'
    BY <1>8, <1>a, <2>1 DEF SlotSeen, Ending
  <2>5. dep[d].cancel => Seen(d)'
    BY <1>8, <1>a, <2>1 DEF RowSeen
  <2>6. RowSeen(d)'
    BY <1>1, <1>8, <2>1, <2>3, <2>4, <2>5 DEF RowSeen, Delivered, Queue!Held, Seen
  <2> QED
    BY <1>6, <1>7, <2>2, <2>6 DEF OrphanInv
<1> QED
  BY <1>0, <1>11, <1>12, <1>13, <1>14, <1>15, <1>16, <1>17, <1>18, <1>21, <1>22, <1>23, <1>24
     DEF SlotEffect

LEMMA OrphanRequestStep ==
  ASSUME NEW d \in Deploys, TypeOK, Lease, OrphanInv,
         TriggerNext(d) \/ CancelNext(d) \/ RecoverNext(d)
  PROVE  OrphanInv'
<1>0. /\ dep[d] \in Row /\ canc[d] \in Copy(CancPC) /\ recov[d] \in Copy(RecovPC)
      /\ canc[d].row \in Row /\ recov[d].row \in Row
  BY CopyUpdates DEF TypeOK
<1>1. RowSeen(d)
  BY DEF OrphanInv
<1>2. ASSUME UNCHANGED cut, aborted \subseteq aborted',
             \A s \in Slots : exec'[s].row = exec[s].row /\ exec'[s].d = exec[s].d
                             /\ exec'[s].pc = exec[s].pc /\ exec'[s].ctx = exec[s].ctx,
             \A e \in Deploys \ {d} :
               dep'[e] = dep[e] /\ canc'[e] = canc[e] /\ queue'[e] = queue[e] /\ trig'[e] = trig[e],
             RowSeen(d)', queue[d].st # "unsent" /\ Seen(d) => Seen(d)'
      PROVE  OrphanInv'
  <2>1. \A e \in Deploys \ {d} : Seen(e) => Seen(e)'
    BY <1>2 DEF Seen, Owed, Excepted
  <2>2. \A e \in Deploys \ {d} : RowSeen(e)'
    <3> TAKE e \in Deploys \ {d}
    <3>1. RowSeen(e) /\ (Seen(e) => Seen(e)') /\ (Excepted(e) => Excepted(e)')
      BY <1>2, <2>1 DEF OrphanInv, Excepted
    <3> QED
      BY <1>2, <3>1 DEF RowSeen, Delivered, Owed, Requested, Queue!Held
  <2>3. ASSUME NEW s \in Slots PROVE SlotSeen(s)'
    <3>1. SlotSeen(s) /\ exec[s].d \in Deploys
      BY SlotUpdates DEF OrphanInv, TypeOK
    <3>2. exec[s].pc # "idle" /\ Seen(exec[s].d) => Seen(exec[s].d)'
      BY <1>2, <2>1, <3>1 DEF Lease, Runs
    <3> QED
      BY <1>2, <3>1, <3>2 DEF SlotSeen
  <2> QED
    BY <1>2, <2>2, <2>3 DEF OrphanInv
<1>3. CASE TriggerNext(d)
  <2>1. UNCHANGED <<exec, canc, cut>> /\ aborted \subseteq aborted'
    BY <1>3 DEF TriggerNext, TriggerAdmit, TriggerCreate, TriggerEnqueue,
                TriggerEnqueueFails, TriggerUndo, TriggerMarkBuilding, WebhookCommit,
                TriggerAborts
  <2>2. \A e \in Deploys \ {d} : dep'[e] = dep[e] /\ queue'[e] = queue[e] /\ trig'[e] = trig[e]
    BY <1>3 DEF TriggerNext, TriggerAdmit, TriggerCreate, TriggerEnqueue,
                TriggerEnqueueFails, TriggerUndo, TriggerMarkBuilding, WebhookCommit,
                TriggerAborts, Queue!Enqueue, TypeOK
  <2>3. RowSeen(d)' /\ (queue[d].st # "unsent" /\ Seen(d) => Seen(d)')
    <3>1. CASE TriggerAdmit(d)
      <4>1. trig'[d] = "create" /\ trig[d] = "idle" /\ UNCHANGED <<dep, canc, queue, cut, aborted>>
        BY <3>1 DEF TriggerAdmit, TypeOK
      <4> QED
        BY <1>1, <4>1 DEF RowSeen, Seen, Owed, Excepted, Delivered, Requested, Queue!Held
    <3>2. CASE TriggerCreate(d)
      <4>1. /\ trig'[d] = "enqueue" /\ trig[d] = "create" /\ dep'[d].status = "queued"
            /\ ~ dep'[d].cancel /\ UNCHANGED <<canc, queue, cut, aborted>>
        BY <3>2 DEF TriggerCreate, TypeOK, Created
      <4> QED
        BY <1>1, <4>1 DEF RowSeen, Delivered, Requested
    <3>3. CASE TriggerEnqueue(d) \/ TriggerEnqueueFails(d)
      <4>1. /\ trig'[d] \in {"mark", "undo"} /\ trig[d] = "enqueue" /\ UNCHANGED <<canc, dep, cut, aborted>>
            /\ queue'[d].st = "visible" \/ (trig'[d] = "undo" /\ UNCHANGED queue)
        BY <3>3 DEF TriggerEnqueue, TriggerEnqueueFails, Queue!Enqueue, TypeOK
      <4>2. Seen(d)' <=> Seen(d)
        BY <4>1 DEF Seen, Owed, Excepted
      <4> QED
        BY <1>1, <4>1, <4>2 DEF RowSeen, Delivered, Requested, Queue!Held
    <3>4. CASE TriggerUndo(d)
      <4>1. dep'[d].status = "failed" /\ trig'[d] = "done"
        BY <1>0, <3>4 DEF TriggerUndo, TypeOK, Undone, Created, Row
      <4> QED
        BY <4>1 DEF RowSeen, Seen, Delivered
    <3>5. CASE TriggerMarkBuilding(d)
      <4>1. /\ trig'[d] \in {"done", "commit"} /\ trig[d] = "mark" /\ UNCHANGED <<dep, canc, queue, cut, aborted>>
        BY <3>5 DEF TriggerMarkBuilding, TypeOK
      <4> QED
        BY <1>1, <4>1 DEF RowSeen, Seen, Owed, Excepted, Delivered, Requested, Queue!Held
    <3>6. CASE WebhookCommit(d)
      <4>1. trig'[d] = "hooked"
        BY <3>6 DEF WebhookCommit, TypeOK
      <4> QED
        BY <4>1 DEF RowSeen, Seen, Excepted
    <3>7. CASE TriggerAborts(d)
      <4>1. d \in aborted' /\ trig'[d] = "done"
        BY <3>7 DEF TriggerAborts, TypeOK
      <4> QED
        BY <4>1 DEF RowSeen, Seen, Excepted
    <3> QED
      BY <1>3, <3>1, <3>2, <3>3, <3>4, <3>5, <3>6, <3>7 DEF TriggerNext
  <2> QED
    BY <1>2, <2>1, <2>2, <2>3
<1>4. CASE CancelNext(d)
  <2>1. UNCHANGED <<trig, queue, cut>> /\ aborted \subseteq aborted'
    BY <1>4 DEF CancelNext, CancelRead, CancelWrite, CancelBuild, CancelFinalize,
                CancelFinalizeApp, CancelAborts
  <2>2. \A e \in Deploys \ {d} : dep'[e] = dep[e] /\ canc'[e] = canc[e]
    BY <1>4 DEF CancelNext, CancelRead, CancelWrite, CancelBuild, CancelFinalize,
                CancelFinalizeApp, CancelAborts, TypeOK
  <2>3. \A s \in Slots : exec'[s].row = exec[s].row /\ exec'[s].d = exec[s].d
                        /\ exec'[s].pc = exec[s].pc /\ exec'[s].ctx = exec[s].ctx
    BY <1>4 DEF CancelNext, CancelRead, CancelWrite, CancelBuild, CancelFinalize,
                CancelFinalizeApp, CancelAborts, TypeOK, Slot
  <2>4. RowSeen(d)' /\ (Seen(d) => Seen(d)')
    (* A request that is not to finalize anything.                         *)
    <3>a. ASSUME UNCHANGED <<dep, trig, queue, cut, aborted>>, Owed(d)' <=> Owed(d)
          PROVE  RowSeen(d)' /\ (Seen(d) => Seen(d)')
      BY <1>1, <3>a DEF RowSeen, Seen, Excepted, Delivered, Requested, Queue!Held
    <3>1. CASE CancelRead(d)
      <4>1. canc[d].pc = "idle" /\ canc'[d].pc = "write" /\ UNCHANGED <<dep, trig, queue, cut, aborted>>
        BY <3>1 DEF CancelRead, TypeOK, Holding
      <4> QED
        BY <3>a, <4>1 DEF Owed
    <3>2. CASE CancelWrite(d)
      <4>1. canc'[d].row = canc[d].row /\ canc'[d].pc = "kill" /\ dep'[d] = canc[d].row
        BY <1>0, <3>2 DEF CancelWrite, TypeOK, Copy
      <4>2. dep'[d].status # "queued" \/ Owed(d)'
        BY <4>1 DEF Owed
      <4> QED
        BY <1>1, <2>1, <4>2 DEF RowSeen, Seen, Delivered
    <3>3. CASE CancelBuild(d)
      <4>1. /\ canc[d].pc = "kill" /\ UNCHANGED <<dep, trig, queue, cut, aborted>>
            /\ canc'[d] = IF canc[d].row.status = "queued" THEN Holding("finalize", canc[d].row) ELSE NoCopy
        BY <3>3 DEF CancelBuild, TypeOK
      <4>2. Owed(d)' <=> Owed(d)
        BY <4>1 DEF Owed, Holding, NoCopy
      <4> QED
        BY <3>a, <4>1, <4>2
    <3>4. CASE CancelFinalize(d)
      <4>1. dep'[d].status = "cancelled"
        BY <1>0, <3>4 DEF CancelFinalize, TypeOK, Row
      <4> QED
        BY <1>1, <2>1, <4>1 DEF RowSeen, Seen, Delivered
    <3>5. CASE CancelFinalizeApp(d)
      <4>1. /\ canc[d].pc = "finalizeApp" /\ canc'[d] = NoCopy
            /\ UNCHANGED <<dep, trig, queue, cut, aborted>>
        BY <3>5 DEF CancelFinalizeApp, TypeOK
      <4> QED
        BY <3>a, <4>1 DEF Owed, Holding, NoCopy
    <3>6. CASE CancelAborts(d)
      <4>1. d \in aborted'
        BY <3>6 DEF CancelAborts
      <4> QED
        BY <1>1, <2>1, <4>1 DEF RowSeen, Seen, Excepted
    <3> QED
      BY <1>4, <3>1, <3>2, <3>3, <3>4, <3>5, <3>6 DEF CancelNext
  <2> QED
    BY <1>2, <2>1, <2>2, <2>3, <2>4
<1>5. CASE RecoverNext(d)
  <2>1. UNCHANGED <<exec, canc, trig, queue, cut, aborted>>
    BY <1>5 DEF RecoverNext, RecoverList, RecoverWrite, RecoverApp
  <2>2. \A e \in Deploys \ {d} : dep'[e] = dep[e]
    BY <1>5 DEF RecoverNext, RecoverList, RecoverWrite, RecoverApp, TypeOK
  <2>3. UNCHANGED dep[d] \/ dep'[d].status = "failed"
    BY <1>0, <1>5 DEF RecoverNext, RecoverList, RecoverWrite, RecoverApp, Row, TypeOK
  <2>4. RowSeen(d)' /\ (Seen(d) => Seen(d)')
    BY <1>1, <2>1, <2>3 DEF RowSeen, Seen, Owed, Excepted, Delivered, Requested, Queue!Held
  <2> QED
    BY <1>2, <2>1, <2>2, <2>4
<1> QED
  BY <1>3, <1>4, <1>5

LEMMA OrphanStep ==
  ASSUME TypeOK, Lease, OneRunner, OrphanInv, [Next]_vars
  PROVE  OrphanInv'
<1>1. ASSUME UNCHANGED <<dep, canc, trig, cut, aborted>> PROVE \A e \in Deploys : Seen(e)' <=> Seen(e)
  BY <1>1 DEF Seen, Owed, Excepted
<1>2. ASSUME NEW d \in Deploys, HalfHourPasses(d) PROVE OrphanInv'
  <2>1. UNCHANGED <<dep, canc, trig, queue, cut, aborted>>
    BY <1>2 DEF HalfHourPasses
  <2>2. \A e \in Deploys : RowSeen(e)'
    BY <1>1, <2>1 DEF OrphanInv, RowSeen, Excepted, Delivered, Owed, Requested, Queue!Held
  <2>3. ASSUME NEW s \in Slots PROVE SlotSeen(s)'
    <3>1. SlotSeen(s) /\ exec[s].d \in Deploys /\ exec[s] \in Slot
      BY SlotUpdates DEF OrphanInv, TypeOK
    <3>2. CASE Runs(s, d) /\ exec[s].n = late[d] /\ exec[s].ctx = "live"
      <4>1. exec'[s] = [exec[s] EXCEPT !.ctx = "deadline"] /\ exec[s].pc \in Begun
        BY <1>2, <3>2 DEF HalfHourPasses, Begun
      <4>2. exec'[s].pc = exec[s].pc /\ exec'[s].row = exec[s].row /\ exec'[s].d = exec[s].d
        BY <3>1, <4>1 DEF Slot
      <4>3. Seen(exec[s].d)
        BY <3>1, <3>2, <4>1 DEF SlotSeen, Runs
      <4>4. Seen(exec[s].d)'
        BY <1>1, <2>1, <3>1, <4>2, <4>3
      <4> QED
        BY <3>1, <4>2, <4>4 DEF SlotSeen
    <3>3. CASE ~ (Runs(s, d) /\ exec[s].n = late[d] /\ exec[s].ctx = "live")
      <4>1. exec'[s] = exec[s]
        BY <1>2, <3>3 DEF HalfHourPasses
      <4>2. Seen(exec[s].d) => Seen(exec[s].d)'
        BY <1>1, <2>1, <3>1, <4>1
      <4> QED
        BY <3>1, <4>1, <4>2 DEF SlotSeen
    <3> QED
      BY <3>2, <3>3
  <2> QED
    BY <2>2, <2>3 DEF OrphanInv
(* The message of d is hidden or shown.                                    *)
<1>3. ASSUME NEW d \in Deploys, UNCHANGED <<dep, canc, trig, cut, aborted>>,
             queue[d].st # "unsent", queue'[d].st \in {"visible", "hidden"},
             \A e \in Deploys \ {d} : queue'[e] = queue[e]
      PROVE  \A e \in Deploys : RowSeen(e)'
  BY <1>1, <1>3 DEF OrphanInv, RowSeen, Excepted, Delivered, Owed, Requested, Queue!Held
<1>4. ASSUME NEW d \in Deploys, Redeliver(d) PROVE OrphanInv'
  <2>1. /\ UNCHANGED <<dep, canc, trig, cut, aborted, exec>> /\ queue[d].st = "hidden"
        /\ queue'[d].st = "visible" /\ \A e \in Deploys \ {d} : queue'[e] = queue[e]
    BY <1>4 DEF Redeliver, Queue!Reappear, TypeOK, Queue!Message
  <2>2. \A s \in Slots : exec[s].d \in Deploys
    BY SlotUpdates DEF TypeOK
  <2>3. \A s \in Slots : SlotSeen(s)'
    BY <1>1, <2>1, <2>2 DEF OrphanInv, SlotSeen
  <2> QED
    BY <1>3, <2>1, <2>3 DEF OrphanInv
<1>5. ASSUME NEW d \in Deploys, NEW s \in Slots, Fetch(s, d) PROVE OrphanInv'
  <2>1. /\ UNCHANGED <<dep, canc, trig, cut, aborted>> /\ queue[d].st = "visible"
        /\ queue'[d].st = "hidden" /\ \A e \in Deploys \ {d} : queue'[e] = queue[e]
    BY <1>5 DEF Fetch, Queue!Read, TypeOK, Queue!Message
  <2>2. /\ exec'[s].pc = "load" /\ exec'[s].ctx = "live" /\ ~ exec'[s].row.cancel
        /\ \A t \in Slots \ {s} : exec'[t] = exec[t]
    BY <1>5 DEF Fetch, Delivery, NoRow, TypeOK
  <2>3. \A t \in Slots : exec[t].d \in Deploys
    BY SlotUpdates DEF TypeOK
  <2>4. \A t \in Slots \ {s} : SlotSeen(t)'
    BY <1>1, <2>1, <2>2, <2>3 DEF OrphanInv, SlotSeen
  <2>5. SlotSeen(s)'
    BY <2>2 DEF SlotSeen, Begun, Ending
  <2> QED
    BY <1>3, <2>1, <2>4, <2>5 DEF OrphanInv
<1>6. CASE \/ PodsChange \/ StatusRead \/ StatusWrite \/ EditRead \/ EditWrite \/ EditPush
           \/ UNCHANGED vars
  <2>1. UNCHANGED <<dep, canc, trig, queue, cut, aborted, exec>>
    BY <1>6 DEF PodsChange, StatusRead, StatusWrite, EditRead, EditWrite, EditPush, vars
  <2>2. \A e \in Deploys : RowSeen(e)'
    BY <1>1, <2>1 DEF OrphanInv, RowSeen, Excepted, Delivered, Owed, Requested, Queue!Held
  <2>3. \A s \in Slots : exec[s].d \in Deploys
    BY SlotUpdates DEF TypeOK
  <2>4. \A s \in Slots : SlotSeen(s)'
    BY <1>1, <2>1, <2>3 DEF OrphanInv, SlotSeen
  <2> QED
    BY <2>2, <2>4 DEF OrphanInv
<1> QED
  BY <1>2, <1>4, <1>5, <1>6, OrphanRequestStep, OrphanSlotStep DEF Next

(* A queued row has its message, or somebody who will send it or finalize  *)
(* the row (NoOrphan).                                                     *)
THEOREM QueuedIsDelivered == Spec => []NoOrphan
<1>1. Init => OrphanInv
  <2> SUFFICES ASSUME Init PROVE OrphanInv
    OBVIOUS
  <2>1. /\ \A d \in Deploys : dep[d] = NoRow /\ trig[d] = "idle" /\ queue[d].st = "unsent"
        /\ \A s \in Slots : exec[s] = FreeSlot
    BY DEF Init, Queue!QueueInit
  <2>2. /\ NoRow.status = "none" /\ ~ NoRow.cancel
        /\ FreeSlot.row = NoRow /\ FreeSlot.pc = "idle" /\ FreeSlot.ctx = "live"
    BY DEF NoRow, FreeSlot, Delivery
  <2>3. \A d \in Deploys : RowSeen(d)
    BY <2>1, <2>2 DEF RowSeen, Delivered
  <2>4. \A s \in Slots : SlotSeen(s)
    BY <2>1, <2>2 DEF SlotSeen, Begun
  <2> QED
    BY <2>3, <2>4 DEF OrphanInv
<1>2. TypeOK /\ Lease /\ OneRunner /\ OrphanInv /\ [Next]_vars => OrphanInv'
  BY OrphanStep
<1>3. OrphanInv => NoOrphan
  BY DEF OrphanInv, RowSeen, Excepted, NoOrphan
<1> QED
  BY <1>1, <1>2, <1>3, TypeCorrect, LeaseHolds, PTL DEF Spec
=============================================================================
