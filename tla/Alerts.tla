------------------------------- MODULE Alerts -------------------------------
(***************************************************************************)
(* Alerts: the API replica that leads evaluates the built-in rules every   *)
(* half minute, stores an alert for what is newly in trouble, resolves     *)
(* those whose trouble is over, and tells the notification channels        *)
(* (service/alert_evaluator.go, metrics_collector.go,                      *)
(* notification_service.go, store/pg/metrics_store.go).                    *)
(*                                                                         *)
(* A replica learns late that it lost the lead, and that does not cut      *)
(* short its evaluation.  One that still runs when that of the next leader *)
(* begins is not followed: the two may then store an alert twice.          *)
(***************************************************************************)
EXTENDS Naturals, FiniteSets

CONSTANTS
  Servers,     \* the API replicas
  MaxRule,     \* the rules are 1..MaxRule, evaluated in this order
  Sources,     \* nodes or pods a rule may find in trouble
  Channels,    \* notification channels
  Allowed,     \* the events they are enabled for, with the channel
  Cooldown,    \* ticks an alert is not repeated for (30 minutes)
  Retention,   \* ticks after which a resolved alert is deleted (30 days)
  PerPage,     \* how many of the recent alerts the cooldown looks at (200)
  MaxAlerts,   \* bound of the model: alerts ever fired
  Events,      \* what may happen besides
  MaxEvents    \* bound of the model: how often it does

ASSUME AlertsAssumption ==
  /\ MaxRule \in Nat \ {0} /\ Sources # {}
  /\ MaxAlerts \in Nat /\ MaxEvents \in Nat /\ PerPage \in Nat
  /\ Allowed \subseteq {"fired", "resolved"} \X Channels
  /\ Cooldown \in Nat /\ Retention \in Nat /\ Cooldown < Retention
  /\ Events \subseteq {"session", "crash", "fault", "user"}

VARIABLES
  trouble,  \* what each rule would find in the cluster
  alert,    \* rows of metrics.alerts
  leads,    \* replicas that take themselves for the leader
  lock,     \* those whose session holds the advisory lock: one at most
  eval,     \* the evaluation of each replica
  mail,     \* notifications under way, each a goroutine of its replica
  left,     \* events still to come
  odd       \* what has happened that the properties make exceptions for

vars == <<trouble, alert, leads, lock, eval, mail, left, odd>>

Rules == 1..MaxRule
Ids == 1..MaxAlerts
Kinds == {"fired", "resolved"}

(* fired, resolved: ticks since, as far as anybody asks.  over: the source *)
(* has been out of trouble since the alert fired.  told: how often each    *)
(* channel has received what.                                              *)
Age == 0..Retention
Alert == [st : {"none", "active", "resolved", "deleted"}, rule : 0..MaxRule,
          source : Sources, fired : Age, resolved : Age, over : BOOLEAN,
          told : [Kinds \X Channels -> Nat]]
NoAlert == [st |-> "none", rule |-> 0, source |-> CHOOSE s \in Sources : TRUE,
            fired |-> 0, resolved |-> 0, over |-> FALSE,
            told |-> [k \in Kinds \X Channels |-> 0]]

(* firing: the sources still to be looked at; todo: alerts to resolve;     *)
(* seen: the source that is being checked.                                 *)
Eval == [pc : {"idle", "read", "list", "work", "insert"}, rule : Rules,
         firing : SUBSET Sources, todo : SUBSET Ids, seen : Sources]
NoEval == [pc |-> "idle", rule |-> 1, firing |-> {}, todo |-> {},
           seen |-> CHOOSE s \in Sources : TRUE]
Mail == [id : Ids, kind : Kinds, by : Servers, todo : SUBSET Channels]

TypeOK ==
  /\ trouble \in [Rules -> SUBSET Sources]
  /\ alert \in [Ids -> Alert]
  /\ leads \subseteq Servers /\ lock \subseteq Servers
  /\ eval \in [Servers -> Eval]
  /\ mail \subseteq Mail
  /\ left \in 0..MaxEvents
  /\ odd \subseteq {"blind", "user", "unlisted"}

Init ==
  /\ trouble = [r \in Rules |-> {}]
  /\ alert = [i \in Ids |-> NoAlert]
  /\ leads = {} /\ lock = {}
  /\ eval = [s \in Servers |-> NoEval]
  /\ mail = {}
  /\ left = MaxEvents /\ odd = {}

At(s, pc) == eval[s].pc = pc
Spend(e) == e \in Events /\ left > 0 /\ left' = left - 1
Note(what) == odd' = odd \cup {what}

-----------------------------------------------------------------------------
(* The cluster, the leader and the time *)

(* Of a rule: what it finds depends on the metrics, the nodes, the pods or *)
(* the events of the last five minutes.                                    *)
Change(r, found) ==
  /\ trouble' = [trouble EXCEPT ![r] = found]
  /\ alert' = [i \in Ids |-> [alert[i] EXCEPT !.over =
                 @ \/ (alert[i].rule = r /\ alert[i].source \notin found)]]
  /\ UNCHANGED <<leads, lock, eval, mail, left, odd>>

Elect(s) ==
  /\ s \notin leads /\ lock = {}
  /\ leads' = leads \cup {s} /\ lock' = {s}
  /\ UNCHANGED <<trouble, alert, eval, mail, left, odd>>
StepDown(s) ==
  /\ s \in leads \ lock
  /\ leads' = leads \ {s}
  /\ UNCHANGED <<trouble, alert, lock, eval, mail, left, odd>>
SessionLost ==
  /\ lock # {} /\ Spend("session") /\ lock' = {}
  /\ UNCHANGED <<trouble, alert, leads, eval, mail, odd>>

(* An evaluation and its notifications last seconds, a tick minutes.       *)
Older(age) == IF age < Retention THEN age + 1 ELSE age
Tick ==
  /\ mail = {} /\ \A s \in Servers : At(s, "idle")
  /\ alert' = [i \in Ids |-> [alert[i] EXCEPT
       !.fired = IF alert[i].st \in {"active", "resolved"} THEN Older(@) ELSE @,
       !.resolved = IF alert[i].st = "resolved" THEN Older(@) ELSE @]]
  /\ UNCHANGED <<trouble, leads, lock, eval, mail, left, odd>>

(* A crash.  A shutdown is one too for what is under way: it waits for the *)
(* notifications before it stops the evaluation that sends them.           *)
Crash(s) ==
  /\ Spend("crash")
  /\ eval' = [eval EXCEPT ![s] = NoEval]
  /\ mail' = {m \in mail : m.by # s}
  /\ leads' = leads \ {s} /\ lock' = lock \ {s}
  /\ UNCHANGED <<trouble, alert, odd>>

-----------------------------------------------------------------------------
(* AlertEvaluator.Evaluate *)

Others == <<trouble, leads, lock>>
Rule(s) == eval[s].rule
(* A disabled channel allows no event.                                     *)
Wanting(kind) == {c \in Channels : <<kind, c>> \in Allowed}
Post(id, kind, s) ==
  mail' = IF Wanting(kind) = {} THEN mail
          ELSE mail \cup {[id |-> id, kind |-> kind, by |-> s, todo |-> Wanting(kind)]}

shouldRunSingleton(s) == s \in leads
Begin(s) ==
  /\ shouldRunSingleton(s)
  /\ \A v \in Servers : At(v, "idle")   \* of the others: bound of the model
  /\ eval' = [eval EXCEPT ![s].pc = "read"]
  /\ UNCHANGED <<Others, alert, mail, left, odd>>

(* A rule that cannot read the cluster finds nothing.                      *)
Read(s) ==
  /\ At(s, "read")
  /\ \/ /\ eval' = [eval EXCEPT ![s].pc = "list", ![s].firing = trouble[Rule(s)]]
        /\ UNCHANGED <<left, odd>>
     \/ /\ Spend("fault") /\ Note("blind")
        /\ eval' = [eval EXCEPT ![s].pc = "list", ![s].firing = {}]
  /\ UNCHANGED <<Others, alert, mail>>

Active == {i \in Ids : alert[i].st = "active"}
OfAnyRule(s) == Active   \* mutant: the rule is not compared
OfRule(s) == {i \in Active : alert[i].rule = Rule(s)}

ListActive(s) ==
  /\ At(s, "list")
  /\ \/ LET mine == OfRule(s) IN
          /\ eval' = [eval EXCEPT ![s].pc = "work",
                        ![s].todo = {i \in mine : alert[i].source \notin eval[s].firing},
                        ![s].firing = @ \ {alert[i].source : i \in mine}]
          /\ UNCHANGED left
     \/ Spend("fault") /\ eval' = [eval EXCEPT ![s].pc = "work"]
  /\ UNCHANGED <<Others, alert, mail, odd>>

(* The update counts as done for an alert that is resolved already.        *)
Settle(i) ==
  alert' = IF i \in Active THEN [alert EXCEPT ![i].st = "resolved"] ELSE alert
Resolve(s, i) ==
  /\ At(s, "work") /\ i \in eval[s].todo
  /\ \/ Settle(i) /\ Post(i, "resolved", s) /\ UNCHANGED left
     \/ Spend("fault") /\ UNCHANGED <<alert, mail>>
  /\ eval' = [eval EXCEPT ![s].todo = @ \ {i}]
  /\ UNCHANGED <<Others, odd>>

Same(s, src) == {i \in Ids : alert[i].rule = Rule(s) /\ alert[i].source = src}
NoneActive(s, src) == TRUE   \* mutant: the list is trusted
NotActive(s, src) == Same(s, src) \cap Active = {}

(* The alerts that fired in the last thirty minutes, the latest of them,   *)
(* are searched for one that has been resolved.                            *)
Recent == {i \in Ids : alert[i].st \in {"active", "resolved"} /\ alert[i].fired <= Cooldown}
Page1 == {i \in Recent : Cardinality({j \in Recent : j > i}) < PerPage}
OnceResolved(s, src) ==   \* mutant: the time is not compared
  \E i \in Same(s, src) : alert[i].st = "resolved"
isInCooldown(s, src) ==
  \E i \in Page1 \cap Same(s, src) : alert[i].st = "resolved" /\ alert[i].resolved < Cooldown

(* Two reads: of the active alert, which skips the source if it fails, and *)
(* of the recent ones, which does not.                                     *)
Check(s, src) ==
  LET insert == [eval[s] EXCEPT !.pc = "insert", !.firing = @ \ {src}, !.seen = src]
      skip == [eval[s] EXCEPT !.firing = @ \ {src}] IN
  /\ At(s, "work") /\ eval[s].todo = {} /\ src \in eval[s].firing
  /\ \/ /\ eval' = [eval EXCEPT ![s] = IF NotActive(s, src) /\ ~ isInCooldown(s, src)
                                       THEN insert ELSE skip]
        /\ UNCHANGED <<left, odd>>
     \/ Spend("fault") /\ eval' = [eval EXCEPT ![s] = skip] /\ UNCHANGED odd
     \/ /\ NotActive(s, src) /\ Spend("fault") /\ Note("unlisted")
        /\ eval' = [eval EXCEPT ![s] = insert]
  /\ UNCHANGED <<Others, alert, mail>>

Unused == {i \in Ids : alert[i].st = "none"}
NewId == CHOOSE i \in Unused : \A j \in Unused : i <= j
Insert(s) ==
  /\ At(s, "insert") /\ Unused # {}   \* bound of the model
  /\ \/ /\ alert' = [alert EXCEPT ![NewId] =
             [NoAlert EXCEPT !.st = "active", !.rule = Rule(s), !.source = eval[s].seen,
                             !.over = eval[s].seen \notin trouble[Rule(s)]]]
        /\ Post(NewId, "fired", s) /\ UNCHANGED left
     \/ Spend("fault") /\ UNCHANGED <<alert, mail>>
  /\ eval' = [eval EXCEPT ![s].pc = "work", ![s].seen = NoEval.seen]
  /\ UNCHANGED <<Others, odd>>

NextRule(s) ==
  /\ At(s, "work") /\ eval[s].todo = {} /\ eval[s].firing = {}
  /\ eval' = [eval EXCEPT ![s] = IF Rule(s) = MaxRule THEN NoEval
                                 ELSE [NoEval EXCEPT !.pc = "read", !.rule = Rule(s) + 1]]
  /\ UNCHANGED <<Others, alert, mail, left, odd>>

EvaluateNext(s) ==
  \/ Begin(s) \/ Read(s) \/ ListActive(s)
  \/ \E i \in Ids : Resolve(s, i)
  \/ \E src \in Sources : Check(s, src)
  \/ Insert(s) \/ NextRule(s)

-----------------------------------------------------------------------------
(* The other operations on alerts *)

ResolveAlert(i) ==
  /\ i \in Active /\ Spend("user") /\ Settle(i) /\ Note("user")
  /\ UNCHANGED <<Others, eval, mail>>

Cleanup(s) ==
  /\ shouldRunSingleton(s)
  /\ \E i \in Ids : alert[i].st = "resolved" /\ alert[i].fired = Retention
  /\ alert' = [i \in Ids |-> IF alert[i].st = "resolved" /\ alert[i].fired = Retention
                             THEN [NoAlert EXCEPT !.st = "deleted"] ELSE alert[i]]
  /\ UNCHANGED <<Others, eval, mail, left, odd>>

-----------------------------------------------------------------------------
(* NotificationService.NotifyAllOrgsAsync *)

Replace(m, new) == mail' = (mail \ {m}) \cup (IF new.todo = {} THEN {} ELSE {new})
Mailing == <<trouble, leads, lock, eval, odd>>

(* The channels are those that are enabled when it starts.                 *)
ListFails(m) ==
  /\ m \in mail /\ Spend("fault") /\ mail' = mail \ {m}
  /\ UNCHANGED <<Mailing, alert>>

(* A message that is throttled, and so not taken, is posted once more; one *)
(* whose answer is lost is not.                                            *)
PostAgain(m, c) == UNCHANGED mail   \* mutant: posted until it is answered
GiveUp(m, c) == Replace(m, [m EXCEPT !.todo = @ \ {c}])
Deliver(m, c) == alert' = [alert EXCEPT ![m.id].told[<<m.kind, c>>] = @ + 1]
Send(m, c) ==
  /\ m \in mail /\ c \in m.todo
  /\ \/ Deliver(m, c) /\ Replace(m, [m EXCEPT !.todo = @ \ {c}]) /\ UNCHANGED left
     \/ Spend("fault") /\ GiveUp(m, c) /\ (Deliver(m, c) \/ UNCHANGED alert)
  /\ UNCHANGED Mailing

-----------------------------------------------------------------------------
Mailed == \E m \in mail : ListFails(m) \/ \E c \in Channels : Send(m, c)
Next ==
  \/ (\E r \in Rules, found \in SUBSET Sources : found # trouble[r] /\ Change(r, found))
  \/ SessionLost \/ Tick \/ Mailed
  \/ (\E s \in Servers : Elect(s) \/ StepDown(s) \/ Crash(s) \/ Cleanup(s) \/ EvaluateNext(s))
  \/ (\E i \in Ids : ResolveAlert(i))

(* The ticker of the evaluation, the elections, and the clock.             *)
Fairness ==
  /\ SF_vars(Tick) /\ WF_vars(Mailed)
  /\ \A s \in Servers : WF_vars(EvaluateNext(s)) /\ SF_vars(Elect(s)) /\ WF_vars(StepDown(s))

Spec == Init /\ [][Next]_vars /\ Fairness

-----------------------------------------------------------------------------
(* Properties *)

Barring(what) == odd \cap what = {}
Twins(i, j) == alert[i].rule = alert[j].rule /\ alert[i].source = alert[j].source

(* One trouble, one alert, and each channel hears of it once: whatever     *)
(* call fails, and whoever leads.                                          *)
OneAlert ==
  /\ \A i, j \in Active : Twins(i, j) => i = j
  /\ \A i \in Ids, k \in Kinds, c \in Channels : alert[i].told[k, c] <= 1

(* An alert is resolved after its source was out of trouble, unless the    *)
(* cluster could not be read.                                              *)
ResolvedForAReason ==
  \A i \in Ids : alert[i].st = "resolved" /\ Barring({"blind", "user"}) =>
    alert[i].over

(* An alert that just fired does not repeat one resolved less than the     *)
(* cooldown ago, unless that one had fired before the cooldown began.      *)
QuietAfterResolve ==
  \A i, j \in Ids :
    /\ i < j /\ Twins(i, j) /\ alert[i].st = "resolved"
    /\ alert[j].st = "active" /\ alert[j].fired = 0
    /\ Barring({"unlisted"})
    => \/ alert[i].resolved >= Cooldown \/ alert[i].fired > Cooldown
       \/ Cardinality({k \in Recent : k > i}) > PerPage

(* What stays in trouble gets an alert, though calls fail, replicas die    *)
(* and the lead is lost.                                                   *)
Fires ==
  \A r \in Rules, src \in Sources :
    []<>(\/ src \notin trouble[r] \/ Unused = {}
         \/ \E i \in Active : alert[i].rule = r /\ alert[i].source = src)
=============================================================================
