------------------------- MODULE AlertResourceProofs -------------------------
(***************************************************************************)
(* Proofs about Alerts for any replicas, rules, sources, channels and      *)
(* bounds: its types; that a trouble has one alert, which each channel     *)
(* hears of once; and that an alert is resolved for a reason.  And about   *)
(* Resources for any requests, secrets and bounds: its types; that what is *)
(* in use is not deleted; and that a secret is kept.                       *)
(***************************************************************************)
EXTENDS Alerts, ResourceRows, Sequences, FiniteSetTheorems, TLAPS

-----------------------------------------------------------------------------
(* The number of a new alert *)

LEMMA Least ==
  ASSUME NEW S, S \subseteq Nat, S # {}
  PROVE  \E i \in S : \A j \in S : i <= j
<1> DEFINE T == {0..i : i \in S}
<1>1. T \subseteq FiniteSubsetsOf(Nat)
  <2> SUFFICES ASSUME NEW i \in S PROVE 0..i \in FiniteSubsetsOf(Nat)
    OBVIOUS
  <2>1. IsFiniteSet(0..i)
    BY FS_Interval
  <2> QED
    BY <2>1 DEF FiniteSubsetsOf
<1>2. IsWellFoundedOn(StrictSubsetOrdering(Nat), FiniteSubsetsOf(Nat))
  BY FS_StrictSubsetOrderingWellFounded
<1>3. T # {}
  OBVIOUS
<1> HIDE DEF T
<1>4. PICK m \in T : \A n \in T : ~ (<<n, m>> \in StrictSubsetOrdering(Nat))
  BY <1>1, <1>2, <1>3, WFMin
<1>5. PICK i \in S : m = 0..i
  BY DEF T
<1>6. ASSUME NEW j \in S, ~ (i <= j)
      PROVE  FALSE
  <2>1. 0..j \in T /\ 0..j \subseteq 0..i /\ i \notin 0..j /\ i \in 0..i /\ i \in Nat /\ j \in Nat
    BY <1>6 DEF T
  <2>2. <<0..j, m>> \in StrictSubsetOrdering(Nat)
    BY <1>5, <2>1 DEF StrictSubsetOrdering
  <2> QED
    BY <1>4, <2>1, <2>2
<1> QED
  BY <1>6

LEMMA NewIsUnused ==
  ASSUME Unused # {}
  PROVE  NewId \in Unused
<1>1. Unused \subseteq Nat
  BY AlertsAssumption DEF Unused, Ids
<1>2. \E i \in Unused : \A j \in Unused : i <= j
  BY <1>1, Least
<1> QED
  BY <1>2 DEF NewId

-----------------------------------------------------------------------------
(* Types *)

LEMMA NoneTyped ==
  /\ NoAlert \in Alert /\ NoAlert.st = "none"
  /\ \A k \in Kinds, c \in Channels : NoAlert.told[<<k, c>>] = 0
  /\ NoEval \in Eval /\ NoEval.pc = "idle" /\ NoEval.todo = {} /\ NoEval.rule = 1
  /\ \A r \in Rules : /\ [NoEval EXCEPT !.pc = "read", !.rule = r] \in Eval
                      /\ [NoEval EXCEPT !.pc = "read", !.rule = r].pc = "read"
                      /\ [NoEval EXCEPT !.pc = "read", !.rule = r].todo = {}
<1>1. (CHOOSE s \in Sources : TRUE) \in Sources
  BY AlertsAssumption
<1>2. 0 \in Age /\ 0 \in 0..MaxRule /\ 1 \in Rules
  BY AlertsAssumption DEF Age, Rules
<1>3. [k \in Kinds \X Channels |-> 0] \in [Kinds \X Channels -> Nat]
  OBVIOUS
<1>4. NoAlert \in Alert /\ NoAlert.st = "none" /\ NoAlert.told = [k \in Kinds \X Channels |-> 0]
  BY <1>1, <1>2, <1>3 DEF NoAlert, Alert
<1>5. NoEval \in Eval /\ NoEval.pc = "idle" /\ NoEval.todo = {} /\ NoEval.rule = 1
  BY <1>1, <1>2 DEF NoEval, Eval
<1>6. ASSUME NEW r \in Rules
      PROVE  /\ [NoEval EXCEPT !.pc = "read", !.rule = r] \in Eval
             /\ [NoEval EXCEPT !.pc = "read", !.rule = r].pc = "read"
             /\ [NoEval EXCEPT !.pc = "read", !.rule = r].todo = {}
  BY <1>1 DEF NoEval, Eval
<1> QED
  BY <1>4, <1>5, <1>6

LEMMA AlertUpdates ==
  ASSUME NEW a \in Alert
  PROVE  /\ \A st \in {"resolved", "deleted"} : [a EXCEPT !.st = st] \in Alert
         /\ \A o \in BOOLEAN : [a EXCEPT !.over = o] \in Alert
         /\ \A f, r \in Age : [a EXCEPT !.fired = f, !.resolved = r] \in Alert
         /\ \A t \in [Kinds \X Channels -> Nat] : [a EXCEPT !.told = t] \in Alert
         /\ a.fired \in Age /\ a.resolved \in Age /\ a.over \in BOOLEAN
         /\ a.told \in [Kinds \X Channels -> Nat] /\ a.source \in Sources /\ a.rule \in 0..MaxRule
BY DEF Alert

LEMMA EvalUpdates ==
  ASSUME NEW e \in Eval
  PROVE  /\ e.rule \in Rules /\ e.firing \subseteq Sources /\ e.todo \subseteq Ids /\ e.seen \in Sources
         /\ \A pc \in {"idle", "read", "list", "work", "insert"}, f \in SUBSET Sources,
               t \in SUBSET Ids, s \in Sources :
              /\ [e EXCEPT !.pc = pc] \in Eval
              /\ [e EXCEPT !.pc = pc, !.firing = f] \in Eval
              /\ [e EXCEPT !.pc = pc, !.todo = t, !.firing = f] \in Eval
              /\ [e EXCEPT !.todo = t] \in Eval
              /\ [e EXCEPT !.firing = f] \in Eval
              /\ [e EXCEPT !.pc = pc, !.seen = s] \in Eval
              /\ [e EXCEPT !.pc = pc, !.firing = f, !.seen = s] \in Eval
BY ZenonT(60) DEF Eval

LEMMA PostTyped ==
  ASSUME TypeOK, NEW i \in Ids, NEW k \in Kinds, NEW s \in Servers, Post(i, k, s)
  PROVE  mail' \subseteq Mail
<1>1. Wanting(k) \in SUBSET Channels /\ mail \subseteq Mail
  BY DEF TypeOK, Wanting
<1>2. [id |-> i, kind |-> k, by |-> s, todo |-> Wanting(k)] \in Mail
  BY <1>1 DEF Mail
<1> QED
  BY <1>1, <1>2 DEF Post

LEMMA SettleTyped ==
  ASSUME TypeOK, NEW i \in Ids, Settle(i)
  PROVE  alert' \in [Ids -> Alert]
BY AlertUpdates DEF TypeOK, Settle, Active

LEMMA EvaluateType ==
  ASSUME TypeOK, NEW s \in Servers, EvaluateNext(s)
  PROVE  TypeOK'
<1>0. /\ trouble \in [Rules -> SUBSET Sources] /\ alert \in [Ids -> Alert] /\ eval[s] \in Eval
      /\ eval \in [Servers -> Eval] /\ mail \subseteq Mail /\ left \in 0..MaxEvents
      /\ odd \subseteq {"blind", "user", "unlisted"}
  BY DEF TypeOK
<1>1. UNCHANGED <<trouble, leads, lock>>
  BY DEF EvaluateNext, Begin, Read, ListActive, Resolve, Check, Insert, NextRule, Others
<1>l. \A e : Spend(e) => left' \in 0..MaxEvents
  BY <1>0, AlertsAssumption DEF Spend
<1>2. left' \in 0..MaxEvents /\ odd' \subseteq {"blind", "user", "unlisted"}
  BY <1>0, <1>l DEF EvaluateNext, Begin, Read, ListActive, Resolve, Check, Insert, NextRule, Note
<1>3. eval' \in [Servers -> Eval]
  <2>1. CASE Begin(s)
    BY <1>0, <2>1, EvalUpdates DEF Begin
  <2>2. CASE Read(s)
    <3>1. PICK f \in SUBSET Sources : eval' = [eval EXCEPT ![s].pc = "list", ![s].firing = f]
      BY <1>0, <2>2, EvalUpdates DEF Read, Rule
    <3> QED
      BY <1>0, <3>1, EvalUpdates
  <2>3. CASE ListActive(s)
    <3>1. CASE eval' = [eval EXCEPT ![s].pc = "work"]
      BY <1>0, <3>1, EvalUpdates
    <3>2. CASE ~ (eval' = [eval EXCEPT ![s].pc = "work"])
      <4>1. PICK t \in SUBSET Ids, f \in SUBSET Sources :
              eval' = [eval EXCEPT ![s].pc = "work", ![s].todo = t, ![s].firing = f]
        <5> DEFINE t == {i \in OfRule(s) : alert[i].source \notin eval[s].firing}
                   f == eval[s].firing \ {alert[i].source : i \in OfRule(s)}
        <5>1. t \in SUBSET Ids
          BY DEF OfRule, Active
        <5>2. f \in SUBSET Sources
          BY <1>0, EvalUpdates
        <5>3. eval' = [eval EXCEPT ![s].pc = "work", ![s].todo = t, ![s].firing = f]
          BY <2>3, <3>2 DEF ListActive
        <5> QED
          BY <5>1, <5>2, <5>3
      <4> QED
        BY <1>0, <4>1, EvalUpdates
    <3> QED
      BY <3>1, <3>2
  <2>4. ASSUME NEW i \in Ids, Resolve(s, i)
        PROVE  eval' \in [Servers -> Eval]
    <3>1. eval[s].todo \ {i} \in SUBSET Ids
      BY <1>0, EvalUpdates
    <3> QED
      BY <1>0, <2>4, <3>1, EvalUpdates DEF Resolve
  <2>5. ASSUME NEW src \in Sources, Check(s, src)
        PROVE  eval' \in [Servers -> Eval]
    <3>1. eval[s].firing \ {src} \in SUBSET Sources
      BY <1>0, EvalUpdates
    <3>2. /\ [eval[s] EXCEPT !.pc = "insert", !.firing = @ \ {src}, !.seen = src] \in Eval
          /\ [eval[s] EXCEPT !.firing = @ \ {src}] \in Eval
      BY <1>0, <3>1, EvalUpdates
    <3> QED
      BY <1>0, <2>5, <3>2 DEF Check
  <2>6. CASE Insert(s)
    <3>1. NoEval.seen \in Sources
      BY NoneTyped, EvalUpdates
    <3> QED
      BY <1>0, <2>6, <3>1, EvalUpdates DEF Insert
  <2>7. CASE NextRule(s)
    <3>0. Rule(s) \in Rules
      BY <1>0, EvalUpdates DEF Rule
    <3>1. Rule(s) # MaxRule => Rule(s) + 1 \in Rules
      BY <3>0, AlertsAssumption DEF Rules
    <3> QED
      BY <1>0, <2>7, <3>1, NoneTyped DEF NextRule
  <2> QED
    BY <2>1, <2>2, <2>3, <2>4, <2>5, <2>6, <2>7 DEF EvaluateNext
<1>4. alert' \in [Ids -> Alert] /\ mail' \subseteq Mail
  <2>1. CASE UNCHANGED <<alert, mail>>
    BY <1>0, <2>1
  <2>2. ASSUME NEW i \in Ids, Resolve(s, i), ~ UNCHANGED <<alert, mail>>
        PROVE  alert' \in [Ids -> Alert] /\ mail' \subseteq Mail
    BY <2>2, SettleTyped, PostTyped DEF Resolve, Kinds
  <2>3. CASE Insert(s) /\ ~ UNCHANGED <<alert, mail>>
    <3>0. Rule(s) \in Rules /\ eval[s].seen \in Sources
      BY <1>0, EvalUpdates DEF Rule
    <3>1. Rule(s) \in 0..MaxRule
      BY <3>0, AlertsAssumption DEF Rules
    <3>2. NewId \in Ids
      BY <2>3, NewIsUnused DEF Insert, Unused
    <3> DEFINE a == [NoAlert EXCEPT !.st = "active", !.rule = Rule(s), !.source = eval[s].seen,
                                    !.over = eval[s].seen \notin trouble[Rule(s)]]
    <3>3. alert' = [alert EXCEPT ![NewId] = a] /\ Post(NewId, "fired", s)
      BY <2>3 DEF Insert
    <3>4. a \in Alert
      BY <3>0, <3>1, NoneTyped DEF Alert
    <3> HIDE DEF a
    <3>5. alert' \in [Ids -> Alert]
      BY <1>0, <3>2, <3>3, <3>4
    <3> QED
      BY <3>2, <3>3, <3>5, PostTyped DEF Kinds
  <2> QED
    BY <2>1, <2>2, <2>3 DEF EvaluateNext, Begin, Read, ListActive, Check, NextRule
<1> QED
  BY <1>1, <1>2, <1>3, <1>4 DEF TypeOK

LEMMA AlertsTypeInit == Init => TypeOK
<1> SUFFICES ASSUME Init PROVE TypeOK
  OBVIOUS
<1>1. MaxEvents \in 0..MaxEvents
  BY AlertsAssumption
<1> QED
  BY <1>1, NoneTyped DEF Init, TypeOK

LEMMA AlertsTypeStep == TypeOK /\ [Next]_vars => TypeOK'
<1> SUFFICES ASSUME TypeOK, [Next]_vars PROVE TypeOK'
  OBVIOUS
<1>0. /\ trouble \in [Rules -> SUBSET Sources] /\ alert \in [Ids -> Alert]
      /\ leads \subseteq Servers /\ lock \subseteq Servers
      /\ eval \in [Servers -> Eval] /\ mail \subseteq Mail /\ left \in 0..MaxEvents
      /\ odd \subseteq {"blind", "user", "unlisted"}
  BY DEF TypeOK
<1>l. \A e : Spend(e) => left' \in 0..MaxEvents
  BY <1>0, AlertsAssumption DEF Spend
<1>1. CASE UNCHANGED vars
  BY <1>0, <1>1 DEF vars, TypeOK
<1>2. ASSUME NEW r \in Rules, NEW found \in SUBSET Sources, Change(r, found)
      PROVE  TypeOK'
  <2>1. trouble' \in [Rules -> SUBSET Sources]
    BY <1>0, <1>2 DEF Change
  <2>2. alert' \in [Ids -> Alert]
    <3>1. ASSUME NEW i \in Ids
          PROVE  [alert[i] EXCEPT !.over = @ \/ (alert[i].rule = r /\ alert[i].source \notin found)] \in Alert
      <4>1. alert[i] \in Alert
        BY <1>0
      <4>2. PICK o \in BOOLEAN : o = (alert[i].over \/ (alert[i].rule = r /\ alert[i].source \notin found))
        BY Zenon
      <4> QED
        BY <4>1, <4>2, AlertUpdates
    <3> QED
      BY <1>2, <3>1 DEF Change
  <2> QED
    BY <1>0, <1>2, <2>1, <2>2 DEF Change, TypeOK
<1>3. CASE SessionLost
  BY <1>0, <1>l, <1>3 DEF SessionLost, TypeOK
<1>4. CASE Tick
  <2>1. ASSUME NEW i \in Ids, NEW f, NEW r,
               f = (IF alert[i].st \in {"active", "resolved"} THEN Older(alert[i].fired) ELSE alert[i].fired),
               r = (IF alert[i].st = "resolved" THEN Older(alert[i].resolved) ELSE alert[i].resolved)
        PROVE  [alert[i] EXCEPT !.fired = f, !.resolved = r] \in Alert
    <3>1. alert[i] \in Alert /\ alert[i].fired \in Age /\ alert[i].resolved \in Age
      BY <1>0, AlertUpdates
    <3>2. \A a \in Age : Older(a) \in Age
      BY AlertsAssumption DEF Older, Age
    <3>3. f \in Age /\ r \in Age
      BY <2>1, <3>1, <3>2
    <3> QED
      BY <3>1, <3>3, AlertUpdates
  <2>2. alert' \in [Ids -> Alert]
    BY <1>4, <2>1 DEF Tick
  <2> QED
    BY <1>0, <1>4, <2>2 DEF Tick, TypeOK
<1>5. CASE Mailed
  <2>1. PICK m \in mail : ListFails(m) \/ \E c \in Channels : Send(m, c)
    BY <1>5 DEF Mailed
  <2>2. m \in Mail /\ m.id \in Ids /\ m.kind \in Kinds /\ m.todo \in SUBSET Channels
    BY <1>0, <2>1 DEF Mail
  <2>3. CASE ListFails(m)
    BY <1>0, <1>l, <2>3 DEF ListFails, Mailing, TypeOK
  <2>4. ASSUME NEW c \in Channels, Send(m, c)
        PROVE  TypeOK'
    <3>1. left' \in 0..MaxEvents /\ UNCHANGED Mailing
      BY <1>0, <1>l, <2>4 DEF Send
    <3>2. mail' \subseteq Mail
      <4>1. [m EXCEPT !.todo = @ \ {c}] \in Mail
        BY <2>2 DEF Mail
      <4>2. Replace(m, [m EXCEPT !.todo = @ \ {c}])
        BY <2>4 DEF Send, GiveUp
      <4> QED
        BY <1>0, <4>1, <4>2 DEF Replace
    <3>3. alert' \in [Ids -> Alert]
      <4>1. CASE UNCHANGED alert
        BY <1>0, <4>1
      <4>2. CASE Deliver(m, c)
        <5>1. PICK i \in Ids : i = m.id
          BY <2>2
        <5>2. alert[i] \in Alert /\ alert[i].told \in [Kinds \X Channels -> Nat]
          BY <1>0, AlertUpdates
        <5>3. PICK t : t = [alert[i].told EXCEPT ![<<m.kind, c>>] = @ + 1]
          OBVIOUS
        <5>4. t \in [Kinds \X Channels -> Nat]
          BY <2>2, <5>2, <5>3
        <5>5. alert' = [alert EXCEPT ![i] = [alert[i] EXCEPT !.told = t]]
          BY <1>0, <4>2, <5>1, <5>3 DEF Deliver
        <5> QED
          BY <1>0, <5>2, <5>4, <5>5, AlertUpdates
      <4> QED
        BY <2>4, <4>1, <4>2 DEF Send
    <3> QED
      BY <1>0, <3>1, <3>2, <3>3 DEF Mailing, TypeOK
  <2> QED
    BY <2>1, <2>3, <2>4
<1>6. ASSUME NEW s \in Servers, Elect(s) \/ StepDown(s) \/ Crash(s) \/ Cleanup(s) \/ EvaluateNext(s)
      PROVE  TypeOK'
  <2>1. CASE Elect(s) \/ StepDown(s)
    BY <1>0, <2>1 DEF Elect, StepDown, TypeOK
  <2>2. CASE Crash(s)
    BY <1>0, <1>l, <2>2, NoneTyped DEF Crash, TypeOK
  <2>3. CASE Cleanup(s)
    <3>1. [NoAlert EXCEPT !.st = "deleted"] \in Alert
      BY NoneTyped, AlertUpdates
    <3>2. alert' \in [Ids -> Alert]
      BY <1>0, <2>3, <3>1 DEF Cleanup
    <3> QED
      BY <1>0, <2>3, <3>2 DEF Cleanup, Others, TypeOK
  <2> QED
    BY <1>6, <2>1, <2>2, <2>3, EvaluateType
<1>7. ASSUME NEW i \in Ids, ResolveAlert(i)
      PROVE  TypeOK'
  <2>1. alert' \in [Ids -> Alert] /\ left' \in 0..MaxEvents
    BY <1>0, <1>l, <1>7, SettleTyped DEF ResolveAlert
  <2> QED
    BY <1>0, <1>7, <2>1 DEF ResolveAlert, Note, Others, TypeOK
<1> QED
  BY <1>1, <1>2, <1>3, <1>4, <1>5, <1>6, <1>7 DEF Next

(* Every variable keeps its type: in particular an evaluation works on     *)
(* alerts and sources that exist.                                          *)
THEOREM AlertsTypeCorrect == Spec => []TypeOK
BY AlertsTypeInit, AlertsTypeStep, PTL DEF Spec

-----------------------------------------------------------------------------
(* One trouble, one alert *)

(* One evaluation runs; it resolves what it has listed and inserts what it *)
(* has not found.                                                          *)
Solo == \A s, t \in Servers : ~ At(s, "idle") /\ ~ At(t, "idle") => s = t
Listed == \A s \in Servers : eval[s].pc \in {"idle", "read", "list"} => eval[s].todo = {}
OnlyNew ==
  /\ \A s \in Servers : At(s, "insert") => Same(s, eval[s].seen) \cap Active = {}
  /\ \A i, j \in Active : Twins(i, j) => i = j

(* Nobody has heard, or will hear, of this yet.                            *)
Unsaid(i, k) ==
  /\ \A m \in mail : ~ (m.id = i /\ m.kind = k)
  /\ \A c \in Channels : alert[i].told[<<k, c>>] = 0

SaidOnce ==
  /\ \A m, n \in mail : m.id = n.id /\ m.kind = n.kind => m = n
  /\ \A m \in mail : \A c \in m.todo : alert[m.id].told[<<m.kind, c>>] = 0
  /\ \A i \in Ids, k \in Kinds, c \in Channels : alert[i].told[<<k, c>>] <= 1
NotSaidYet ==
  /\ \A i \in Ids : alert[i].st = "none" => Unsaid(i, "fired")
  /\ \A i \in Ids : alert[i].st \in {"none", "active"} => Unsaid(i, "resolved")
  /\ \A s \in Servers : \A i \in eval[s].todo : alert[i].st # "none" /\ Unsaid(i, "resolved")

OneInv == TypeOK /\ Solo /\ Listed /\ OnlyNew /\ SaidOnce /\ NotSaidYet

(* An alert is active because its source is in trouble, or was when it was *)
(* last looked at.                                                         *)
Reason(i) == alert[i].over \/ alert[i].source \in trouble[alert[i].rule]
Reasons ==
  /\ \A i \in Ids : alert[i].st = "resolved" => alert[i].over
  /\ \A i \in Active : alert[i].rule \in Rules /\ Reason(i)
  /\ \A s \in Servers : At(s, "list") =>
       \A i \in OfRule(s) : alert[i].over \/ alert[i].source \in eval[s].firing
  /\ \A s \in Servers : \A i \in eval[s].todo : i \in Active /\ alert[i].over
ReasonInv == Barring({"blind", "user"}) => Reasons

LEMMA SaidKept ==
  ASSUME SaidOnce, TypeOK, mail' \subseteq mail,
         \A i \in Ids, k \in Kinds, c \in Channels :
           alert'[i].told[<<k, c>>] \in {0, alert[i].told[<<k, c>>]}
  PROVE  SaidOnce' /\ \A i \in Ids, k \in Kinds : Unsaid(i, k) => Unsaid(i, k)'
<1>1. \A i \in Ids, k \in Kinds : Unsaid(i, k) => Unsaid(i, k)'
  BY DEF Unsaid
<1>2. (\A m, n \in mail : m.id = n.id /\ m.kind = n.kind => m = n)'
  BY DEF SaidOnce
<1>3. ASSUME NEW m \in mail', NEW c \in m.todo
      PROVE  alert'[m.id].told[<<m.kind, c>>] = 0
  <2>1. m \in mail /\ m.id \in Ids /\ m.kind \in Kinds /\ c \in Channels
    BY <1>3 DEF TypeOK, Mail
  <2>2. alert[m.id].told[<<m.kind, c>>] = 0
    BY <1>3, <2>1 DEF SaidOnce
  <2> QED
    BY <2>1, <2>2
<1>4. (\A i \in Ids, k \in Kinds, c \in Channels : alert[i].told[<<k, c>>] <= 1)'
  <2> SUFFICES ASSUME NEW i \in Ids, NEW k \in Kinds, NEW c \in Channels
               PROVE  alert'[i].told[<<k, c>>] <= 1
    OBVIOUS
  <2>1. alert[i].told[<<k, c>>] <= 1
    BY DEF SaidOnce
  <2> QED
    BY <2>1
<1> QED
  BY <1>1, <1>2, <1>3, <1>4 DEF SaidOnce

(* A notification that nobody has heard of may be posted.                  *)
LEMMA PostOnce ==
  ASSUME SaidOnce, TypeOK, NEW i \in Ids, NEW k \in Kinds, NEW s \in Servers,
         Post(i, k, s), Unsaid(i, k),
         \A j \in Ids, q \in Kinds, c \in Channels :
           alert'[j].told[<<q, c>>] \in {0, alert[j].told[<<q, c>>]}
  PROVE  /\ SaidOnce'
         /\ \A j \in Ids, q \in Kinds : Unsaid(j, q) /\ <<j, q>> # <<i, k>> => Unsaid(j, q)'
<1> DEFINE new == [id |-> i, kind |-> k, by |-> s, todo |-> Wanting(k)]
<1>0. new.id = i /\ new.kind = k /\ new.todo = Wanting(k) /\ Wanting(k) \subseteq Channels
  BY DEF Wanting
<1>1. mail' \subseteq mail \cup {new}
  BY DEF Post
<1> HIDE DEF new
<1>2. \A j \in Ids, q \in Kinds : Unsaid(j, q) /\ <<j, q>> # <<i, k>> => Unsaid(j, q)'
  BY <1>0, <1>1 DEF Unsaid
<1>3. (\A m, n \in mail : m.id = n.id /\ m.kind = n.kind => m = n)'
  BY <1>0, <1>1 DEF SaidOnce, Unsaid
<1>4. ASSUME NEW m \in mail', NEW c \in m.todo
      PROVE  alert'[m.id].told[<<m.kind, c>>] = 0
  <2>1. m.id \in Ids /\ m.kind \in Kinds /\ c \in Channels
    BY <1>0, <1>1, <1>4 DEF TypeOK, Mail
  <2>2. alert[m.id].told[<<m.kind, c>>] = 0
    BY <1>0, <1>1, <1>4, <2>1 DEF SaidOnce, Unsaid
  <2> QED
    BY <2>1, <2>2
<1>5. (\A j \in Ids, q \in Kinds, c \in Channels : alert[j].told[<<q, c>>] <= 1)'
  <2> SUFFICES ASSUME NEW j \in Ids, NEW q \in Kinds, NEW c \in Channels
               PROVE  alert'[j].told[<<q, c>>] <= 1
    OBVIOUS
  <2>1. alert[j].told[<<q, c>>] <= 1
    BY DEF SaidOnce
  <2> QED
    BY <2>1
<1> QED
  BY <1>2, <1>3, <1>4, <1>5 DEF SaidOnce

(* What a row says of itself does not change, nor does an evaluation.      *)
LEMMA OneFrame ==
  ASSUME OneInv, TypeOK', SaidOnce', UNCHANGED eval,
         \A i \in Ids : /\ alert'[i].st = alert[i].st /\ alert'[i].rule = alert[i].rule
                        /\ alert'[i].source = alert[i].source,
         \A i \in Ids, k \in Kinds : Unsaid(i, k) => Unsaid(i, k)'
  PROVE  OneInv'
<1>1. Active' = Active /\ \A s \in Servers, src \in Sources : Same(s, src)' = Same(s, src)
  BY DEF Active, Same, Rule
<1>2. OnlyNew' /\ Solo' /\ Listed'
  <2>1. \A s \in Servers : eval[s].seen \in Sources
    BY EvalUpdates DEF OneInv, TypeOK
  <2>2. Active \subseteq Ids
    BY DEF Active
  <2>3. \A i, j \in Active : Twins(i, j)' = Twins(i, j)
    BY <2>2 DEF Twins
  <2>4. \A s \in Servers : At(s, "insert")' = At(s, "insert") /\ At(s, "idle")' = At(s, "idle")
    BY DEF At
  <2> QED
    BY <1>1, <2>1, <2>3, <2>4 DEF OneInv, OnlyNew, Solo, Listed
<1>3. NotSaidYet'
  <2>1. \A s \in Servers : eval[s].todo \subseteq Ids
    BY EvalUpdates DEF OneInv, TypeOK
  <2> QED
    BY <2>1 DEF OneInv, NotSaidYet, Kinds
<1> QED
  BY <1>2, <1>3 DEF OneInv

LEMMA SendOnce ==
  ASSUME OneInv, TypeOK', NEW m \in mail, NEW c \in Channels, Send(m, c)
  PROVE  OneInv'
<1>0. /\ m \in Mail /\ m.id \in Ids /\ m.kind \in Kinds /\ m.todo \subseteq Channels /\ c \in m.todo
      /\ alert \in [Ids -> Alert] /\ TypeOK /\ SaidOnce
  BY DEF OneInv, TypeOK, Mail, Send
<1>1. PICK new : new = [m EXCEPT !.todo = @ \ {c}]
  OBVIOUS
<1>2. new.id = m.id /\ new.kind = m.kind /\ new.todo = m.todo \ {c}
  BY <1>0, <1>1 DEF Mail
<1>3. mail' = (mail \ {m}) \cup (IF new.todo = {} THEN {} ELSE {new}) /\ UNCHANGED Mailing
  BY <1>1 DEF Send, GiveUp, Replace
<1>4. PICK w : w = m.id
  OBVIOUS
<1>5. /\ \A i \in Ids : /\ alert'[i].st = alert[i].st /\ alert'[i].rule = alert[i].rule
                        /\ alert'[i].source = alert[i].source
      /\ \A i \in Ids, k \in Kinds, b \in Channels : <<i, k, b>> # <<m.id, m.kind, c>> =>
           alert'[i].told[<<k, b>>] = alert[i].told[<<k, b>>]
      /\ alert'[m.id].told[<<m.kind, c>>] <= 1
  <2>0. alert[w].told[<<m.kind, c>>] = 0
    BY <1>0, <1>4 DEF SaidOnce
  <2>1. CASE UNCHANGED alert
    BY <1>0, <1>4, <2>0, <2>1
  <2>2. CASE Deliver(m, c)
    <3>1. PICK t : t = [alert[w].told EXCEPT ![<<m.kind, c>>] = @ + 1]
      OBVIOUS
    <3>2. alert[w] \in Alert /\ alert[w].told \in [Kinds \X Channels -> Nat]
      BY <1>0, <1>4, AlertUpdates
    <3>3. alert' = [alert EXCEPT ![w] = [alert[w] EXCEPT !.told = t]]
      BY <1>0, <1>4, <2>2, <3>1 DEF Deliver
    <3>4. PICK a : a = [alert[w] EXCEPT !.told = t]
      OBVIOUS
    <3>5. a.told = t /\ a.st = alert[w].st /\ a.rule = alert[w].rule /\ a.source = alert[w].source
      BY <3>2, <3>4 DEF Alert
    <3>6. /\ t[<<m.kind, c>>] = 1
          /\ \A k \in Kinds, b \in Channels : <<k, b>> # <<m.kind, c>> => t[<<k, b>>] = alert[w].told[<<k, b>>]
      BY <1>0, <2>0, <3>1, <3>2
    <3>7. \A i \in Ids : alert'[i] = IF i = w THEN a ELSE alert[i]
      BY <1>0, <3>3, <3>4
    <3> QED
      BY <1>0, <1>4, <3>5, <3>6, <3>7
  <2> QED
    BY <2>1, <2>2 DEF Send
<1>6. \A i \in Ids, k \in Kinds : Unsaid(i, k) => Unsaid(i, k)'
  BY <1>0, <1>2, <1>3, <1>5 DEF Unsaid
<1>7. SaidOnce'
  <2>1. (\A n, p \in mail : n.id = p.id /\ n.kind = p.kind => n = p)'
    BY <1>0, <1>2, <1>3 DEF SaidOnce
  <2>2. ASSUME NEW n \in mail', NEW b \in n.todo
        PROVE  alert'[n.id].told[<<n.kind, b>>] = 0
    <3>1. n.id \in Ids /\ n.kind \in Kinds /\ b \in Channels
      BY <2>2 DEF TypeOK, Mail
    <3>2. alert[n.id].told[<<n.kind, b>>] = 0
      BY <1>0, <1>2, <1>3, <2>2 DEF SaidOnce
    <3>3. <<n.id, n.kind, b>> # <<m.id, m.kind, c>>
      BY <1>0, <1>2, <1>3, <2>2 DEF SaidOnce
    <3> QED
      BY <1>5, <3>1, <3>2, <3>3
  <2>3. (\A i \in Ids, k \in Kinds, b \in Channels : alert[i].told[<<k, b>>] <= 1)'
    BY <1>0, <1>5 DEF SaidOnce
  <2> QED
    BY <2>1, <2>2, <2>3 DEF SaidOnce
<1> QED
  BY <1>3, <1>5, <1>6, <1>7, OneFrame DEF Mailing

LEMMA EvaluateOnce ==
  ASSUME OneInv, TypeOK', NEW s \in Servers, EvaluateNext(s)
  PROVE  OneInv'
<1>0. /\ TypeOK /\ Solo /\ Listed /\ OnlyNew /\ SaidOnce /\ NotSaidYet
      /\ alert \in [Ids -> Alert] /\ eval \in [Servers -> Eval] /\ eval[s] \in Eval
  BY DEF OneInv, TypeOK
<1>1. \A t \in Servers \ {s} : eval'[t] = eval[t]
  BY <1>0 DEF EvaluateNext, Begin, Read, ListActive, Resolve, Check, Insert, NextRule
<1>2. \A t \in Servers \ {s} : At(t, "idle") /\ eval[t].todo = {}
  <2>1. CASE Begin(s)
    BY <1>0, <2>1 DEF Begin, Listed, At
  <2>2. CASE ~ Begin(s)
    <3>1. ~ At(s, "idle")
      BY <2>2 DEF EvaluateNext, Read, ListActive, Resolve, Check, Insert, NextRule, At
    <3> QED
      BY <1>0, <3>1 DEF Solo, Listed, At
  <2> QED
    BY <2>1, <2>2
<1>3. Solo'
  BY <1>1, <1>2 DEF Solo, At
<1>r. ASSUME eval'[s].pc \in {"idle", "read", "list"} => eval'[s].todo = {},
             At(s, "insert")' => (Same(s, eval[s].seen) \cap Active = {})',
             (\A i, j \in Active : Twins(i, j) => i = j)',
             SaidOnce',
             \A i \in Ids : alert'[i].st = "none" => Unsaid(i, "fired")',
             \A i \in Ids : alert'[i].st \in {"none", "active"} => Unsaid(i, "resolved")',
             \A i \in eval'[s].todo : alert'[i].st # "none" /\ Unsaid(i, "resolved")'
      PROVE  OneInv'
  <2>1. Listed'
    BY <1>0, <1>1, <1>r DEF Listed
  <2>2. OnlyNew'
    BY <1>1, <1>2, <1>r DEF OnlyNew, At
  <2>3. NotSaidYet'
    BY <1>1, <1>2, <1>r DEF NotSaidYet
  <2> QED
    BY <1>3, <1>r, <2>1, <2>2, <2>3 DEF OneInv
<1>4. CASE UNCHANGED <<alert, mail>>
  <2>1. SaidOnce' /\ \A i \in Ids, k \in Kinds : Unsaid(i, k) => Unsaid(i, k)'
    BY <1>0, <1>4 DEF SaidOnce, Unsaid
  <2>2. Active' = Active /\ \A i, j \in Active : Twins(i, j)' = Twins(i, j)
    BY <1>4 DEF Active, Twins
  <2>3. (\A i, j \in Active : Twins(i, j) => i = j)'
    BY <1>0, <2>2 DEF OnlyNew
  <2>4. /\ eval'[s].pc \in {"idle", "read", "list"} => eval'[s].todo = {}
        /\ eval'[s].todo \subseteq eval[s].todo \cup Active
        /\ At(s, "insert")' => (Same(s, eval[s].seen) \cap Active = {})'
    <3>1. CASE Begin(s) \/ Read(s)
      <4>1. eval'[s].pc \in {"read", "list"} /\ eval'[s].todo = eval[s].todo /\ eval[s].todo = {}
        BY <1>0, <3>1 DEF Begin, Read, Listed, At, Eval
      <4> QED
        BY <4>1 DEF At
    <3>2. CASE ListActive(s)
      <4>1. PICK td, f : /\ td = {i \in OfRule(s) : alert[i].source \notin eval[s].firing}
                         /\ f = eval[s].firing \ {alert[i].source : i \in OfRule(s)}
        OBVIOUS
      <4>2. PICK e1, e2 : /\ e1 = [eval[s] EXCEPT !.pc = "work", !.todo = td, !.firing = f]
                          /\ e2 = [eval[s] EXCEPT !.pc = "work"]
        OBVIOUS
      <4>3. /\ e1.pc = "work" /\ e1.todo = td
            /\ e2.pc = "work" /\ e2.todo = eval[s].todo
        BY <1>0, <4>2 DEF Eval
      <4>4. eval'[s] = e1 \/ eval'[s] = e2
        BY <1>0, <3>2, <4>1, <4>2 DEF ListActive
      <4>5. td \subseteq Active /\ eval[s].todo = {}
        BY <1>0, <3>2, <4>1 DEF ListActive, Listed, At, OfRule
      <4> QED
        BY <4>3, <4>4, <4>5 DEF At
    <3>3. ASSUME NEW i \in Ids, Resolve(s, i)
          PROVE  eval'[s].pc = "work" /\ eval'[s].todo \subseteq eval[s].todo
      BY <1>0, <3>3 DEF Resolve, At, Eval
    <3>4. ASSUME NEW src \in Sources, Check(s, src)
          PROVE  /\ eval'[s].pc = "work" \/ (Same(s, eval[s].seen) \cap Active = {})'
                 /\ eval'[s].pc \in {"work", "insert"} /\ eval'[s].todo = eval[s].todo
      <4>1. At(s, "work") /\ eval[s].todo = {}
        BY <3>4 DEF Check
      <4>2. PICK e1, e2 : /\ e1 = [eval[s] EXCEPT !.pc = "insert", !.firing = @ \ {src}, !.seen = src]
                          /\ e2 = [eval[s] EXCEPT !.firing = @ \ {src}]
        OBVIOUS
      <4>3. /\ e1.pc = "insert" /\ e1.seen = src /\ e1.todo = eval[s].todo /\ e1.rule = eval[s].rule
            /\ e2.pc = eval[s].pc /\ e2.todo = eval[s].todo
        BY <1>0, <4>2 DEF Eval
      <4>4. \/ eval'[s] = e1 /\ NotActive(s, src)
            \/ eval'[s] = e2
        BY <1>0, <3>4, <4>2 DEF Check
      <4>5. CASE eval'[s] = e1 /\ NotActive(s, src)
        <5>1. Same(s, eval[s].seen)' = Same(s, src)
          BY <1>4, <4>3, <4>5 DEF Same, Rule
        <5>2. (Same(s, eval[s].seen) \cap Active = {})'
          BY <2>2, <4>5, <5>1 DEF NotActive
        <5> QED
          BY <4>1, <4>3, <4>5, <5>2
      <4>6. CASE eval'[s] = e2
        BY <4>1, <4>3, <4>6 DEF At
      <4> QED
        BY <4>4, <4>5, <4>6
    <3>5. CASE Insert(s)
      BY <1>0, <3>5 DEF Insert, Listed, At, Eval
    <3>6. CASE NextRule(s)
      <4>1. Rule(s) # MaxRule => Rule(s) + 1 \in Rules
        <5>1. Rule(s) \in Rules
          BY <1>0, EvalUpdates DEF Rule
        <5> QED
          BY <5>1, AlertsAssumption DEF Rules
      <4>2. eval'[s].pc \in {"idle", "read"} /\ eval'[s].todo = {}
        BY <1>0, <3>6, <4>1, NoneTyped DEF NextRule
      <4> QED
        BY <4>2 DEF At
    <3> QED
      BY <3>1, <3>2, <3>3, <3>4, <3>5, <3>6 DEF EvaluateNext, At
  <2>5. \A i \in eval[s].todo \cup Active : i \in Ids /\ alert[i].st # "none" /\ Unsaid(i, "resolved")
    BY <1>0, EvalUpdates DEF NotSaidYet, Active
  <2>6. \A i \in eval'[s].todo : alert'[i].st # "none" /\ Unsaid(i, "resolved")'
    BY <1>4, <2>1, <2>4, <2>5 DEF Kinds
  <2>7. /\ \A i \in Ids : alert'[i].st = "none" => Unsaid(i, "fired")'
        /\ \A i \in Ids : alert'[i].st \in {"none", "active"} => Unsaid(i, "resolved")'
    BY <1>0, <1>4, <2>1 DEF Kinds, NotSaidYet
  <2> QED
    BY <1>r, <2>1, <2>3, <2>4, <2>6, <2>7
<1>5. ASSUME NEW i \in Ids, Resolve(s, i), ~ UNCHANGED <<alert, mail>>
      PROVE  OneInv'
  <2>1. /\ Settle(i) /\ Post(i, "resolved", s) /\ eval'[s].pc = "work" /\ i \in eval[s].todo
        /\ eval'[s].todo = eval[s].todo \ {i} /\ eval[s].todo \subseteq Ids
    BY <1>0, <1>5 DEF Resolve, At, Eval
  <2>2. \A j \in Ids : /\ alert'[j].told = alert[j].told /\ alert'[j].rule = alert[j].rule
                       /\ alert'[j].source = alert[j].source
                       /\ alert'[j].st = IF j = i /\ j \in Active THEN "resolved" ELSE alert[j].st
    BY <1>0, <2>1 DEF Settle, Alert
  <2>3. Unsaid(i, "resolved") /\ alert[i].st # "none"
    BY <1>0, <2>1 DEF NotSaidYet
  <2>4. /\ SaidOnce'
        /\ \A j \in Ids, q \in Kinds : Unsaid(j, q) /\ <<j, q>> # <<i, "resolved">> => Unsaid(j, q)'
    BY <1>0, <2>1, <2>2, <2>3, PostOnce DEF Kinds
  <2>5. Active' \subseteq Active /\ i \notin Active'
    BY <2>2 DEF Active
  <2>6. (\A j, k \in Active : Twins(j, k) => j = k)'
    BY <1>0, <2>2, <2>5 DEF OnlyNew, Twins, Active
  <2>7. \A j \in Ids : /\ alert'[j].st = "none" => alert[j].st = "none" /\ j # i
                       /\ alert'[j].st = "active" => alert[j].st = "active" /\ j # i
    BY <2>2, <2>3 DEF Active
  <2> QED
    BY <1>r, <2>1, <2>4, <2>6, <2>7, <1>0 DEF NotSaidYet, Kinds, At
<1>6. CASE Insert(s) /\ ~ UNCHANGED <<alert, mail>>
  <2>1. NewId \in Ids /\ alert[NewId].st = "none" /\ eval[s].pc = "insert"
    BY <1>6, NewIsUnused DEF Insert, Unused, At
  <2>2. PICK n \in Ids : n = NewId
    BY <2>1
  <2>3. PICK a : a = [NoAlert EXCEPT !.st = "active", !.rule = Rule(s), !.source = eval[s].seen,
                                     !.over = eval[s].seen \notin trouble[Rule(s)]]
    OBVIOUS
  <2>4. /\ a.st = "active" /\ a.rule = Rule(s) /\ a.source = eval[s].seen
        /\ \A k \in Kinds, c \in Channels : a.told[<<k, c>>] = 0
    BY <2>3, NoneTyped DEF Alert
  <2>5. alert' = [alert EXCEPT ![n] = a] /\ Post(n, "fired", s)
    BY <1>6, <2>2, <2>3 DEF Insert
  <2>6. \A j \in Ids : alert'[j] = IF j = n THEN a ELSE alert[j]
    BY <1>0, <2>5
  <2>7. Unsaid(n, "fired") /\ Unsaid(n, "resolved")
    BY <1>0, <2>1, <2>2 DEF NotSaidYet
  <2>8. \A j \in Ids, k \in Kinds, c \in Channels :
          alert'[j].told[<<k, c>>] \in {0, alert[j].told[<<k, c>>]}
    BY <2>4, <2>6
  <2>9. /\ SaidOnce'
        /\ \A j \in Ids, q \in Kinds : Unsaid(j, q) /\ <<j, q>> # <<n, "fired">> => Unsaid(j, q)'
    BY <1>0, <2>5, <2>7, <2>8, PostOnce DEF Kinds
  <2>10. eval'[s].pc = "work" /\ eval'[s].todo = eval[s].todo
    BY <1>0, <1>6 DEF Insert, Eval
  <2>11. (\A j, k \in Active : Twins(j, k) => j = k)'
    <3>1. Active' \subseteq Active \cup {n} /\ Active \subseteq Ids
      BY <2>6 DEF Active
    <3>2. \A j \in Active : ~ (alert[j].rule = Rule(s) /\ alert[j].source = eval[s].seen)
      BY <1>0, <2>1 DEF OnlyNew, Same, Active, At
    <3>3. n \notin Active
      BY <2>1, <2>2 DEF Active
    <3> QED
      BY <1>0, <2>4, <2>6, <3>1, <3>2, <3>3 DEF OnlyNew, Twins
  <2>12. \A j \in Ids : /\ alert'[j].st = "none" => alert[j].st = "none" /\ j # n
                        /\ alert'[j].st = "active" => alert[j].st \in {"none", "active"}
    BY <2>1, <2>2, <2>4, <2>6
  <2>13. \A j \in eval[s].todo : j \in Ids /\ Unsaid(j, "resolved") /\ alert[j].st # "none"
    BY <1>0, EvalUpdates DEF NotSaidYet
  <2>14. \A j \in eval[s].todo : alert'[j].st # "none"
    BY <2>1, <2>2, <2>6, <2>13
  <2> QED
    BY <1>r, <1>0, <2>9, <2>10, <2>11, <2>12, <2>13, <2>14 DEF NotSaidYet, Kinds, At
<1> QED
  BY <1>4, <1>5, <1>6 DEF EvaluateNext, Begin, Read, ListActive, Check, NextRule

LEMMA OneInit == Init => OneInv
<1> SUFFICES ASSUME Init PROVE OneInv
  OBVIOUS
<1>1. TypeOK
  BY AlertsTypeInit
<1>2. /\ \A s \in Servers : eval[s] = NoEval
      /\ \A i \in Ids : alert[i] = NoAlert
      /\ mail = {}
  BY DEF Init
<1>3. Active = {}
  BY <1>2, NoneTyped DEF Active
<1>4. \A i \in Ids, k \in Kinds : Unsaid(i, k)
  BY <1>2, NoneTyped DEF Unsaid
<1>5. Solo /\ Listed /\ OnlyNew
  BY <1>2, <1>3, NoneTyped DEF Solo, Listed, OnlyNew, At
<1>6. SaidOnce
  BY <1>2, <1>4 DEF SaidOnce, Unsaid
<1>7. NotSaidYet
  BY <1>2, <1>4, NoneTyped DEF NotSaidYet, Kinds
<1> QED
  BY <1>1, <1>5, <1>6, <1>7 DEF OneInv

LEMMA OneStep == OneInv /\ [Next]_vars => OneInv'
<1> SUFFICES ASSUME OneInv, [Next]_vars PROVE OneInv'
  OBVIOUS
<1>0. /\ TypeOK /\ TypeOK' /\ Solo /\ Listed /\ OnlyNew /\ SaidOnce /\ NotSaidYet
      /\ alert \in [Ids -> Alert] /\ eval \in [Servers -> Eval]
  BY AlertsTypeStep DEF OneInv, TypeOK
<1>k. ASSUME UNCHANGED eval, mail' \subseteq mail,
             \A i \in Ids : /\ alert'[i].st = alert[i].st /\ alert'[i].rule = alert[i].rule
                            /\ alert'[i].source = alert[i].source /\ alert'[i].told = alert[i].told
      PROVE  OneInv'
  <2>1. \A i \in Ids, k \in Kinds, c \in Channels :
          alert'[i].told[<<k, c>>] \in {0, alert[i].told[<<k, c>>]}
    BY <1>k
  <2>2. SaidOnce' /\ \A i \in Ids, k \in Kinds : Unsaid(i, k) => Unsaid(i, k)'
    BY <1>0, <1>k, <2>1, SaidKept
  <2> QED
    BY <1>0, <1>k, <2>2, OneFrame
<1>1. CASE UNCHANGED vars
  BY <1>k, <1>1 DEF vars
<1>2. ASSUME NEW r \in Rules, NEW found \in SUBSET Sources, Change(r, found)
      PROVE  OneInv'
  BY <1>0, <1>k, <1>2 DEF Change, Alert
<1>3. CASE SessionLost
  BY <1>k, <1>3 DEF SessionLost
<1>4. CASE Tick
  BY <1>0, <1>k, <1>4 DEF Tick, Alert
<1>5. CASE Mailed
  <2>1. ASSUME NEW m \in mail, ListFails(m)
        PROVE  OneInv'
    BY <1>k, <2>1 DEF ListFails, Mailing
  <2> QED
    BY <1>0, <1>5, <2>1, SendOnce DEF Mailed
<1>6. ASSUME NEW s \in Servers, Elect(s) \/ StepDown(s) \/ Crash(s) \/ Cleanup(s) \/ EvaluateNext(s)
      PROVE  OneInv'
  <2>1. CASE Elect(s) \/ StepDown(s)
    BY <1>k, <2>1 DEF Elect, StepDown
  <2>2. CASE Crash(s)
    <3>1. UNCHANGED alert /\ mail' \subseteq mail
      BY <2>2 DEF Crash
    <3>2. \A t \in Servers : eval'[t] = IF t = s THEN NoEval ELSE eval[t]
      BY <1>0, <2>2 DEF Crash
    <3>3. SaidOnce' /\ \A i \in Ids, k \in Kinds : Unsaid(i, k) => Unsaid(i, k)'
      <4>1. \A i \in Ids, k \in Kinds, c \in Channels :
              alert'[i].told[<<k, c>>] \in {0, alert[i].told[<<k, c>>]}
        BY <3>1
      <4> QED
        BY <1>0, <3>1, <4>1, SaidKept
    <3>q. \A t \in Servers : /\ eval'[t].pc # "idle" => t # s /\ eval'[t] = eval[t]
                             /\ t = s => eval'[t].pc = "idle" /\ eval'[t].todo = {}
                             /\ t # s => eval'[t] = eval[t]
      BY <3>2, NoneTyped
    <3>4. Solo' /\ Listed'
      BY <1>0, <3>q DEF Solo, Listed, At
    <3>5. OnlyNew'
      <4>1. \A i, j : Twins(i, j)' = Twins(i, j)
        BY <3>1 DEF Twins
      <4>2. ASSUME NEW t \in Servers, At(t, "insert")'
            PROVE  (Same(t, eval[t].seen) \cap Active = {})'
        <5>1. eval'[t] = eval[t] /\ At(t, "insert")
          BY <3>q, <4>2 DEF At
        <5>2. Same(t, eval[t].seen)' = Same(t, eval[t].seen) /\ Active' = Active
          BY <3>1, <5>1 DEF Same, Rule, Active
        <5> QED
          BY <1>0, <5>1, <5>2 DEF OnlyNew
      <4>3. Active' = Active
        BY <3>1 DEF Active
      <4> QED
        BY <1>0, <4>1, <4>2, <4>3 DEF OnlyNew
    <3>6. NotSaidYet'
      <4>1. \A t \in Servers : eval'[t].todo \subseteq eval[t].todo /\ eval[t].todo \subseteq Ids
        BY <1>0, <3>2, NoneTyped, EvalUpdates
      <4> QED
        BY <1>0, <3>1, <3>3, <4>1 DEF NotSaidYet, Kinds
    <3> QED
      BY <1>0, <3>3, <3>4, <3>5, <3>6 DEF OneInv
  <2>3. CASE Cleanup(s)
    <3>1. PICK gone : gone = [NoAlert EXCEPT !.st = "deleted"]
      OBVIOUS
    <3>2. gone.st = "deleted" /\ \A k \in Kinds, c \in Channels : gone.told[<<k, c>>] = 0
      BY <3>1, NoneTyped DEF Alert
    <3>3. \A i \in Ids : alert'[i] = IF alert[i].st = "resolved" /\ alert[i].fired = Retention
                                     THEN gone ELSE alert[i]
      BY <2>3, <3>1 DEF Cleanup
    <3>4. UNCHANGED <<eval, mail>>
      BY <2>3 DEF Cleanup
    <3>5. SaidOnce' /\ \A i \in Ids, k \in Kinds : Unsaid(i, k) => Unsaid(i, k)'
      <4>1. \A i \in Ids, k \in Kinds, c \in Channels :
              alert'[i].told[<<k, c>>] \in {0, alert[i].told[<<k, c>>]}
        BY <3>2, <3>3
      <4> QED
        BY <1>0, <3>4, <4>1, SaidKept
    <3>6. Active' = Active /\ \A i \in Active : alert'[i] = alert[i]
      BY <3>2, <3>3 DEF Active
    <3>7. OnlyNew'
      <4>1. \A t \in Servers, src \in Sources : (Same(t, src) \cap Active)' = Same(t, src) \cap Active
        BY <3>4, <3>6 DEF Same, Rule, Active
      <4>2. \A i, j \in Active : Twins(i, j)' = Twins(i, j)
        BY <3>6 DEF Twins
      <4> QED
        BY <1>0, <3>4, <3>6, <4>1, <4>2, EvalUpdates DEF OnlyNew, At
    <3>8. NotSaidYet'
      <4>1. \A t \in Servers : eval[t].todo \subseteq Ids
        BY <1>0, EvalUpdates
      <4> QED
        BY <1>0, <3>2, <3>3, <3>4, <3>5, <4>1 DEF NotSaidYet, Kinds
    <3> QED
      BY <1>0, <3>4, <3>5, <3>7, <3>8 DEF OneInv, Solo, Listed, At
  <2> QED
    BY <1>0, <1>6, <2>1, <2>2, <2>3, EvaluateOnce
<1>7. ASSUME NEW i \in Ids, ResolveAlert(i)
      PROVE  OneInv'
  <2>1. UNCHANGED <<eval, mail>> /\ i \in Active /\ Settle(i)
    BY <1>7 DEF ResolveAlert
  <2>2. \A j \in Ids : /\ alert'[j].told = alert[j].told /\ alert'[j].rule = alert[j].rule
                       /\ alert'[j].source = alert[j].source
                       /\ alert'[j].st = IF j = i THEN "resolved" ELSE alert[j].st
    BY <1>0, <2>1 DEF Settle, Alert
  <2>3. SaidOnce' /\ \A j \in Ids, k \in Kinds : Unsaid(j, k) => Unsaid(j, k)'
    <3>1. \A j \in Ids, k \in Kinds, c \in Channels :
            alert'[j].told[<<k, c>>] \in {0, alert[j].told[<<k, c>>]}
      BY <2>2
    <3> QED
      BY <1>0, <2>1, <3>1, SaidKept
  <2>4. Active' \subseteq Active /\ Active \subseteq Ids
    BY <2>2 DEF Active
  <2>5. OnlyNew'
    <3>2. \A j, k \in Active : Twins(j, k)' = Twins(j, k)
      BY <2>2, <2>4 DEF Twins
    <3>3. \A t \in Servers : At(t, "insert")' = At(t, "insert") /\ eval'[t].seen = eval[t].seen
      BY <2>1 DEF At
    <3>4. ASSUME NEW t \in Servers, At(t, "insert")'
          PROVE  (Same(t, eval[t].seen) \cap Active = {})'
      <4>1. At(t, "insert") /\ eval'[t] = eval[t]
        BY <2>1, <3>3, <3>4
      <4>2. Same(t, eval[t].seen)' = Same(t, eval[t].seen)
        BY <2>2, <4>1 DEF Same, Rule
      <4> QED
        BY <1>0, <2>4, <4>1, <4>2 DEF OnlyNew
    <3> QED
      BY <1>0, <2>4, <3>2, <3>4 DEF OnlyNew
  <2>6. NotSaidYet'
    <3>1. \A t \in Servers : eval[t].todo \subseteq Ids
      BY <1>0, EvalUpdates
    <3> QED
      BY <1>0, <2>1, <2>2, <2>3, <3>1 DEF NotSaidYet, Kinds
  <2> QED
    BY <1>0, <2>1, <2>3, <2>5, <2>6 DEF OneInv, Solo, Listed, At
<1> QED
  BY <1>1, <1>2, <1>3, <1>4, <1>5, <1>6, <1>7 DEF Next

(* A source in trouble has one active alert for a rule, and a channel is   *)
(* told of an alert, and of its resolution, once at most.                  *)
THEOREM AlertedOnce == Spec => []OneAlert
<1>1. OneInv => OneAlert
  BY DEF OneInv, OnlyNew, SaidOnce, OneAlert
<1> QED
  BY <1>1, OneInit, OneStep, PTL DEF Spec

-----------------------------------------------------------------------------
(* Resolved for a reason *)

LEMMA ReasonStep == OneInv /\ ReasonInv /\ [Next]_vars => ReasonInv'
<1> SUFFICES ASSUME OneInv, ReasonInv, [Next]_vars, Barring({"blind", "user"})'
             PROVE  Reasons'
  BY DEF ReasonInv
<1>o. odd \subseteq odd'
  BY DEF Next, vars, Change, SessionLost, Tick, Mailed, ListFails, Send, Mailing, Elect, StepDown,
         Crash, Cleanup, EvaluateNext, Begin, Read, ListActive, Resolve, Check, Insert, NextRule,
         ResolveAlert, Note
<1>0. /\ TypeOK /\ TypeOK' /\ Listed /\ Solo /\ Reasons
      /\ alert \in [Ids -> Alert] /\ eval \in [Servers -> Eval]
      /\ trouble \in [Rules -> SUBSET Sources] /\ mail \subseteq Mail
      /\ \A s \in Servers : eval[s].todo \subseteq Ids /\ eval[s].rule \in Rules /\ eval[s].seen \in Sources
  BY <1>o, AlertsTypeStep, EvalUpdates DEF OneInv, TypeOK, ReasonInv, Barring
<1>k. ASSUME UNCHANGED <<eval, trouble>>,
             \A i \in Ids : \/ /\ alert'[i].st = alert[i].st /\ alert'[i].rule = alert[i].rule
                               /\ alert'[i].source = alert[i].source /\ alert'[i].over = alert[i].over
      PROVE  Reasons'
  <2>1. Active' = Active /\ Active \subseteq Ids /\ \A i \in Active : Reason(i)' = Reason(i)
    BY <1>k DEF Active, Reason
  <2>2. \A s \in Servers : OfRule(s)' = OfRule(s) /\ At(s, "list")' = At(s, "list")
    BY <1>k, <2>1 DEF OfRule, Rule, At
  <2>3. \A s \in Servers : OfRule(s) \subseteq Ids
    BY <2>1 DEF OfRule
  <2> QED
    BY <1>0, <1>k, <2>1, <2>2, <2>3 DEF Reasons
<1>1. CASE UNCHANGED vars
  BY <1>k, <1>1 DEF vars
<1>2. ASSUME NEW r \in Rules, NEW found \in SUBSET Sources, Change(r, found)
      PROVE  Reasons'
  <2>1. /\ UNCHANGED eval
        /\ \A q \in Rules : trouble'[q] = IF q = r THEN found ELSE trouble[q]
    BY <1>0, <1>2 DEF Change
  <2>2. \A i \in Ids : /\ alert'[i].st = alert[i].st /\ alert'[i].rule = alert[i].rule
                       /\ alert'[i].source = alert[i].source
                       /\ alert[i].over => alert'[i].over
                       /\ alert[i].rule = r /\ alert[i].source \notin found => alert'[i].over
    <3> SUFFICES ASSUME NEW i \in Ids
                 PROVE  /\ alert'[i].st = alert[i].st /\ alert'[i].rule = alert[i].rule
                        /\ alert'[i].source = alert[i].source
                        /\ alert[i].over => alert'[i].over
                        /\ alert[i].rule = r /\ alert[i].source \notin found => alert'[i].over
      OBVIOUS
    <3>1. PICK o \in BOOLEAN : o = (alert[i].over \/ (alert[i].rule = r /\ alert[i].source \notin found))
      BY Zenon
    <3>2. PICK a : a = [alert[i] EXCEPT !.over = o]
      OBVIOUS
    <3>3. a.over = o /\ a.st = alert[i].st /\ a.rule = alert[i].rule /\ a.source = alert[i].source
      BY <1>0, <3>2 DEF Alert
    <3>4. alert'[i] = a
      BY <1>2, <3>1, <3>2 DEF Change
    <3> QED
      BY <3>1, <3>3, <3>4
  <2>3. Active' = Active /\ Active \subseteq Ids
    BY <2>2 DEF Active
  <2>4. \A i \in Active : (alert[i].rule \in Rules /\ Reason(i))'
    BY <1>0, <2>1, <2>2, <2>3 DEF Reasons, Reason
  <2>5. \A s \in Servers : OfRule(s)' = OfRule(s) /\ At(s, "list")' = At(s, "list") /\ OfRule(s) \subseteq Ids
    BY <2>1, <2>2, <2>3 DEF OfRule, Rule, At
  <2> QED
    BY <1>0, <2>1, <2>2, <2>3, <2>4, <2>5 DEF Reasons
<1>3. CASE SessionLost
  BY <1>k, <1>3 DEF SessionLost
<1>4. CASE Tick
  BY <1>0, <1>k, <1>4 DEF Tick, Alert
<1>5. CASE Mailed
  <2>1. PICK m \in mail : ListFails(m) \/ \E c \in Channels : Send(m, c)
    BY <1>5 DEF Mailed
  <2>2. CASE UNCHANGED alert
    BY <1>k, <2>1, <2>2 DEF ListFails, Send, Mailing
  <2>3. ASSUME NEW c \in Channels, Deliver(m, c), Send(m, c)
        PROVE  Reasons'
    <3>1. PICK w \in Ids : w = m.id
      BY <1>0 DEF Mail
    <3>2. PICK t : t = [alert[w].told EXCEPT ![<<m.kind, c>>] = @ + 1]
      OBVIOUS
    <3>3. PICK a : a = [alert[w] EXCEPT !.told = t]
      OBVIOUS
    <3>4. a.st = alert[w].st /\ a.rule = alert[w].rule /\ a.source = alert[w].source /\ a.over = alert[w].over
      BY <1>0, <3>3 DEF Alert
    <3>5. \A i \in Ids : alert'[i] = IF i = w THEN a ELSE alert[i]
      BY <1>0, <2>3, <3>1, <3>2, <3>3 DEF Deliver
    <3>6. UNCHANGED <<eval, trouble>>
      BY <2>3 DEF Send, Mailing
    <3> QED
      BY <1>k, <3>4, <3>5, <3>6
  <2> QED
    BY <2>1, <2>2, <2>3 DEF ListFails, Send
<1>6. ASSUME NEW s \in Servers, Elect(s) \/ StepDown(s) \/ Crash(s) \/ Cleanup(s)
      PROVE  Reasons'
  <2>1. CASE Elect(s) \/ StepDown(s)
    BY <1>k, <2>1 DEF Elect, StepDown
  <2>2. CASE Crash(s)
    <3>1. UNCHANGED <<alert, trouble>>
      BY <2>2 DEF Crash
    <3>2. \A t \in Servers : \/ eval'[t] = eval[t]
                             \/ eval'[t].pc = "idle" /\ eval'[t].todo = {}
      BY <1>0, <2>2, NoneTyped DEF Crash
    <3>3. Active' = Active /\ \A i \in Active : Reason(i)' = Reason(i)
      BY <3>1 DEF Active, Reason
    <3>4. ASSUME NEW t \in Servers, eval'[t] = eval[t]
          PROVE  OfRule(t)' = OfRule(t)
      BY <3>1, <3>3, <3>4 DEF OfRule, Rule
    <3> QED
      BY <1>0, <3>1, <3>2, <3>3, <3>4 DEF Reasons, At
  <2>3. CASE Cleanup(s)
    <3>1. PICK gone : gone = [NoAlert EXCEPT !.st = "deleted"]
      OBVIOUS
    <3>2. gone.st = "deleted"
      BY <3>1, NoneTyped DEF Alert
    <3>3. \A i \in Ids : \/ alert'[i] = alert[i]
                         \/ alert[i].st = "resolved" /\ alert'[i] = gone
      BY <2>3, <3>1 DEF Cleanup
    <3>4. UNCHANGED <<eval, trouble>>
      BY <2>3 DEF Cleanup, Others
    <3>5. Active' = Active /\ Active \subseteq Ids /\ \A i \in Active : alert'[i] = alert[i]
      BY <3>2, <3>3 DEF Active
    <3>6. \A t \in Servers : OfRule(t)' = OfRule(t) /\ OfRule(t) \subseteq Active
      BY <3>4, <3>5 DEF OfRule, Rule
    <3>r. \A i \in Active : Reason(i)' = Reason(i)
      BY <3>4, <3>5 DEF Reason
    <3>7. \A t \in Servers : \A i \in eval[t].todo : i \in Active' /\ alert'[i].over
      BY <1>0, <3>5 DEF Reasons
    <3> QED
      BY <1>0, <3>2, <3>3, <3>4, <3>5, <3>6, <3>r, <3>7 DEF Reasons, At
  <2> QED
    BY <1>6, <2>1, <2>2, <2>3
<1>7. ASSUME NEW i \in Ids, ResolveAlert(i)
      PROVE  Reasons'
  BY <1>7 DEF ResolveAlert, Note, Barring
<1>8. ASSUME NEW s \in Servers, EvaluateNext(s)
      PROVE  Reasons'
  <2>0. /\ eval[s] \in Eval /\ UNCHANGED trouble
        /\ \A t \in Servers \ {s} : eval'[t] = eval[t]
    BY <1>0, <1>8 DEF EvaluateNext, Begin, Read, ListActive, Resolve, Check, Insert, NextRule, Others, TypeOK
  <2>1. \A t \in Servers \ {s} : eval'[t].todo = {} /\ ~ (eval'[t].pc = "list")
    <3>1. CASE Begin(s)
      BY <1>0, <2>0, <3>1 DEF Begin, Listed, At
    <3>2. CASE ~ Begin(s)
      <4>1. ~ At(s, "idle")
        BY <1>8, <3>2 DEF EvaluateNext, Read, ListActive, Resolve, Check, Insert, NextRule, At
      <4> QED
        BY <1>0, <2>0, <4>1 DEF Solo, Listed, At
    <3> QED
      BY <3>1, <3>2
  <2>r. ASSUME \A i \in Ids : alert'[i].st = "resolved" => alert'[i].over,
               \A i \in Active' : alert'[i].rule \in Rules /\ Reason(i)',
               eval'[s].pc = "list" =>
                 \A i \in Active' : alert'[i].rule = eval'[s].rule =>
                   (alert'[i].over \/ alert'[i].source \in eval'[s].firing),
               \A i \in eval'[s].todo : i \in Active' /\ alert'[i].over
        PROVE  Reasons'
    BY <2>1, <2>r DEF Reasons, At, OfRule, Rule
  <2>2. CASE UNCHANGED alert
    <3>1. Active' = Active /\ \A i \in Active : Reason(i)' = Reason(i)
      BY <2>0, <2>2 DEF Active, Reason
    <3>2. /\ \A i \in Ids : alert'[i].st = "resolved" => alert'[i].over
          /\ \A i \in Active' : alert'[i].rule \in Rules /\ Reason(i)'
      BY <1>0, <2>2, <3>1 DEF Reasons
    <3>3. CASE Begin(s)
      <4>1. eval'[s].pc = "read" /\ eval'[s].todo = {}
        BY <1>0, <2>0, <3>3 DEF Begin, Listed, At, Eval
      <4> QED
        BY <2>r, <3>2, <4>1
    <3>4. CASE Read(s)
      <4>1. eval' = [eval EXCEPT ![s].pc = "list", ![s].firing = trouble[Rule(s)]]
        BY <3>4 DEF Read, Note, Barring
      <4>2. PICK f : f = trouble[Rule(s)]
        OBVIOUS
      <4>3. PICK e : e = [eval[s] EXCEPT !.pc = "list", !.firing = f]
        OBVIOUS
      <4>4. e.firing = f /\ e.todo = eval[s].todo /\ e.rule = Rule(s)
        BY <2>0, <4>3 DEF Eval, Rule
      <4>5. eval'[s] = e /\ eval[s].todo = {}
        BY <1>0, <3>4, <4>1, <4>2, <4>3 DEF Read, Listed, At
      <4> QED
        BY <1>0, <2>r, <2>2, <3>1, <3>2, <4>2, <4>4, <4>5 DEF Reasons, Reason
    <3>5. CASE ListActive(s)
      <4>1. PICK td, f : /\ td = {i \in OfRule(s) : alert[i].source \notin eval[s].firing}
                         /\ f = eval[s].firing \ {alert[i].source : i \in OfRule(s)}
        OBVIOUS
      <4>2. PICK e1, e2 : /\ e1 = [eval[s] EXCEPT !.pc = "work", !.todo = td, !.firing = f]
                          /\ e2 = [eval[s] EXCEPT !.pc = "work"]
        OBVIOUS
      <4>3. /\ e1.pc = "work" /\ e1.todo = td
            /\ e2.pc = "work" /\ e2.todo = eval[s].todo
        BY <2>0, <4>2 DEF Eval
      <4>4. eval'[s] = e1 \/ eval'[s] = e2
        BY <1>0, <3>5, <4>1, <4>2 DEF ListActive
      <4>5. \A i \in td : i \in Active /\ alert[i].over
        BY <1>0, <3>5, <4>1 DEF ListActive, Reasons, OfRule
      <4> QED
        BY <1>0, <2>r, <2>2, <3>1, <3>2, <4>3, <4>4, <4>5 DEF Reasons
    <3>6. ASSUME eval'[s].pc # "list", eval'[s].todo \subseteq eval[s].todo
          PROVE  Reasons'
      BY <1>0, <2>r, <2>2, <3>1, <3>2, <3>6 DEF Reasons
    <3>7. ASSUME NEW i \in Ids, Resolve(s, i)
          PROVE  Reasons'
      BY <1>0, <2>0, <3>6, <3>7 DEF Resolve, At, Eval
    <3>8. ASSUME NEW src \in Sources, Check(s, src)
          PROVE  Reasons'
      <4>1. PICK e1, e2 : /\ e1 = [eval[s] EXCEPT !.pc = "insert", !.firing = @ \ {src}, !.seen = src]
                          /\ e2 = [eval[s] EXCEPT !.firing = @ \ {src}]
        OBVIOUS
      <4>2. /\ e1.pc = "insert" /\ e1.todo = eval[s].todo
            /\ e2.pc = eval[s].pc /\ e2.todo = eval[s].todo
        BY <2>0, <4>1 DEF Eval
      <4>3. (eval'[s] = e1 \/ eval'[s] = e2) /\ eval[s].pc = "work"
        BY <1>0, <3>8, <4>1 DEF Check, At
      <4> QED
        BY <3>6, <4>2, <4>3
    <3>9. CASE Insert(s)
      BY <1>0, <2>0, <3>6, <3>9 DEF Insert, At, Eval
    <3>10. CASE NextRule(s)
      <4>1. Rule(s) # MaxRule => Rule(s) + 1 \in Rules
        <5>1. Rule(s) \in Rules
          BY <1>0 DEF Rule
        <5> QED
          BY <5>1, AlertsAssumption DEF Rules
      <4>2. eval'[s].pc # "list" /\ eval'[s].todo = {}
        BY <1>0, <3>10, <4>1, NoneTyped DEF NextRule
      <4> QED
        BY <3>6, <4>2
    <3> QED
      BY <1>8, <3>3, <3>4, <3>5, <3>7, <3>8, <3>9, <3>10 DEF EvaluateNext
  <2>3. ASSUME NEW i \in Ids, Resolve(s, i), ~ UNCHANGED alert
        PROVE  Reasons'
    <3>1. /\ i \in Active /\ eval'[s].pc = "work" /\ i \in eval[s].todo
          /\ eval'[s].todo = eval[s].todo \ {i}
      BY <1>0, <2>0, <2>3 DEF Resolve, Settle, At, Eval
    <3>2. \A j \in Ids : /\ alert'[j].over = alert[j].over /\ alert'[j].rule = alert[j].rule
                         /\ alert'[j].source = alert[j].source
                         /\ alert'[j].st = IF j = i THEN "resolved" ELSE alert[j].st
      BY <1>0, <2>3 DEF Resolve, Settle, Alert
    <3>3. alert[i].over
      BY <1>0, <3>1 DEF Reasons
    <3>4. Active' = Active \ {i} /\ Active \subseteq Ids
      BY <3>2 DEF Active
    <3>5. \A j \in Active' : alert'[j].rule \in Rules /\ Reason(j)'
      BY <1>0, <2>0, <3>2, <3>4 DEF Reasons, Reason
    <3> QED
      BY <1>0, <2>r, <3>1, <3>2, <3>3, <3>4, <3>5 DEF Reasons
  <2>4. CASE Insert(s) /\ ~ UNCHANGED alert
    <3>1. PICK n \in Ids : n = NewId /\ alert[n].st = "none"
      BY <2>4, NewIsUnused DEF Insert, Unused
    <3>2. PICK a : a = [NoAlert EXCEPT !.st = "active", !.rule = Rule(s), !.source = eval[s].seen,
                                       !.over = eval[s].seen \notin trouble[Rule(s)]]
      OBVIOUS
    <3>3. /\ a.st = "active" /\ a.rule = Rule(s) /\ a.source = eval[s].seen
          /\ a.over = (eval[s].seen \notin trouble[Rule(s)])
      BY <3>2, NoneTyped DEF Alert
    <3>4. alert' = [alert EXCEPT ![n] = a]
      BY <2>4, <3>1, <3>2 DEF Insert
    <3>5. \A j \in Ids : alert'[j] = IF j = n THEN a ELSE alert[j]
      BY <1>0, <3>4
    <3>6. Active' = Active \cup {n} /\ Active \subseteq Ids /\ n \notin Active
      BY <3>1, <3>3, <3>5 DEF Active
    <3>7. eval'[s].pc = "work" /\ eval'[s].todo = eval[s].todo
      BY <1>0, <2>0, <2>4 DEF Insert, Eval
    <3>8. Rule(s) \in Rules
      BY <1>0 DEF Rule
    <3>9. ASSUME NEW j \in Active'
          PROVE  alert'[j].rule \in Rules /\ Reason(j)'
      BY <1>0, <2>0, <3>3, <3>5, <3>6, <3>8, <3>9 DEF Reasons, Reason
    <3>10. \A j \in Ids : alert'[j].st = "resolved" => alert'[j].over
      BY <1>0, <3>3, <3>5 DEF Reasons
    <3>11. \A j \in eval'[s].todo : j \in Active' /\ alert'[j].over
      BY <1>0, <3>5, <3>6, <3>7 DEF Reasons
    <3> QED
      BY <2>r, <3>7, <3>9, <3>10, <3>11
  <2> QED
    BY <1>8, <2>2, <2>3, <2>4 DEF EvaluateNext, Begin, Read, ListActive, Check, NextRule
<1> QED
  BY <1>1, <1>2, <1>3, <1>4, <1>5, <1>6, <1>7, <1>8 DEF Next

(* An alert is resolved after its source was out of trouble, unless a      *)
(* user resolved it or the cluster could not be read.                      *)
THEOREM ResolvedWithReason == Spec => []ResolvedForAReason
<1>1. Init => ReasonInv
  BY NoneTyped DEF Init, ReasonInv, Reasons, Active, At
<1>2. OneInv /\ ReasonInv => ResolvedForAReason
  BY DEF ReasonInv, Reasons, ResolvedForAReason
<1> QED
  BY <1>1, <1>2, OneInit, OneStep, ReasonStep, PTL DEF Spec

-----------------------------------------------------------------------------
(* Shared resources: what the steps do, and the invariant *)

NoCopy == R!Keys(Nothing)
Asked == ResourceOps - still.ops
Real == {R!FromAccount} \cup {R!Keys(k) : k \in 0..ResourceOps}
Tokens == {R!Keys(k) : k \in 0..Asked}

(* What a request carries for its operation.                               *)
Changing(e) == e.pc \in {"expand", "write"} /\ e.copy # NoCopy
Listing(e) == e.pc \in {"refresh", "save"}
Deleting(e) == e.pc \in {"check", "delete"}
OfGit(e) == e.r = "git" /\ e.pc \in {"write", "refresh", "save"}
Sound(e) ==
  /\ e.pc # "free" => e.r \in R!All
  /\ e.pc = "link" => e.h \in R!Own /\ e.r = R!Fits(e.h)
  /\ e.pc = "insert" =>
       e.r \in R!New /\ e.in \in Real /\ (e.r \notin R!Derived => e.in # R!FromAccount)
  /\ e.pc = "expand" =>
       /\ e.r \in R!Derived /\ e.in = R!FromAccount /\ e.copy \in Real \cup {NoCopy}
       /\ e.copy = NoCopy => e.r \in R!New
  /\ e.pc = "write" =>
       /\ e.copy \in Real /\ e.in \in Real \cup {Nothing, R!Keys(Mask)}
       /\ e.in = R!Keys(Mask) => e.copy # R!FromAccount
       /\ e.r = "git" => e.in \in {Nothing, R!Keys(Mask)}
       /\ e.in = R!FromAccount => e.r \in R!Derived
       /\ e.copy = R!FromAccount => e.r \in R!Derived
  /\ Listing(e) => e.r = "git"
  /\ e.pc = "check" => e.n \in 1..7
  /\ e.pc = "delete" => e.n = 8

Typed == R!TypeOK /\ \A q \in Editors : Sound(edit[q])
RowsInv == \A r \in R!All :
  cfg[r] \in Real /\ given[r] \in Real /\ (r \notin R!Derived => cfg[r] # R!FromAccount)

(* A copy that no other write has overtaken is what the row says.          *)
CopyInv == \A q \in Editors : Changing(edit[q]) => edit[q].stale \/ edit[q].copy = cfg[edit[q].r]

(* A token that GitHub gave is not in any copy until its row has it.       *)
TokenInv ==
  /\ cfg["git"] \in Tokens /\ given["git"] \in Tokens
  /\ \A q \in Editors : OfGit(edit[q]) => edit[q].copy \in Tokens
  /\ \A q \in Editors : Listing(edit[q]) =>
       /\ edit[q].v \in 1..Asked /\ cfg["git"] # R!Keys(edit[q].v)
       /\ \A p \in Editors : OfGit(edit[p]) => edit[p].copy # R!Keys(edit[q].v)
       /\ \A p \in Editors : Listing(edit[p]) /\ edit[p].v = edit[q].v => p = q
       /\ edit[q].pc = "refresh" => given["git"] # R!Keys(edit[q].v)
       /\ edit[q].pc = "save" => given["git"] = R!Keys(edit[q].v) \/ "git" \in lost

(* Whatever a deletion has looked for refers to its resource only since.   *)
CheckInv ==
  \A q \in Editors : Deleting(edit[q]) =>
    \A i \in 1..7 : i < edit[q].n =>
      \A h \in R!Checks[i] : R!Points(h, edit[q].r) => h \in edit[q].since

ResInv == Typed /\ RowsInv /\ CopyInv /\ TokenInv /\ CheckInv /\ InUseIsKept /\ SecretIsKept

(* What the configurations are, and are not.                               *)
LEMMA Configurations ==
  ASSUME ResourcesAssumption
  PROVE  /\ R!FromAccount \in R!Config /\ \A k \in 0..ResourceOps : R!Keys(k) \in R!Config
         /\ NoCopy \in R!Config /\ NoCopy \notin Real /\ Nothing \notin R!Config
         /\ Real \subseteq R!Config /\ Nothing # R!Keys(Mask) /\ R!Keys(Mask) \notin Real
         /\ \A j, k : R!Keys(j) = R!Keys(k) => j = k
         /\ \A k : R!Keys(k) # R!FromAccount /\ R!Keys(k).acct = Nothing
         /\ R!FromAccount.acct = "account"
         /\ \A c \in Real : c.acct # Nothing <=> c = R!FromAccount
<1>1. /\ \A k : R!Keys(k).key = k /\ R!Keys(k).acct = Nothing
      /\ R!FromAccount.acct = "account" /\ R!FromAccount.key = Nothing
  BY DEF R!Keys, R!FromAccount
<1>2. Nothing # "account" /\ \A k \in 0..ResourceOps : k # Nothing /\ k # Mask
  BY DEF ResourcesAssumption, R!All
<1>3. /\ R!FromAccount \in R!Config /\ \A k \in 0..ResourceOps : R!Keys(k) \in R!Config
      /\ NoCopy \in R!Config /\ Nothing \notin R!Config /\ Nothing # R!Keys(Mask)
  <2>1. R!Config \subseteq [key : Nat \cup {Mask, Nothing}, acct : {"account", Nothing}]
    BY DEF R!Config, ResourcesAssumption
  <2>2. R!Keys(Mask) \in [key : Nat \cup {Mask, Nothing}, acct : {"account", Nothing}]
    BY DEF R!Keys
  <2>3. R!FromAccount \in R!Config /\ NoCopy \in R!Config
    BY DEF R!Config, R!FromAccount, R!Keys, NoCopy
  <2>4. \A k \in 0..ResourceOps : R!Keys(k) \in R!Config
    BY DEF R!Config, R!Keys
  <2> QED
    BY <2>1, <2>2, <2>3, <2>4 DEF ResourcesAssumption
<1>4. \A k : R!Keys(k) # R!FromAccount
  BY <1>1, <1>2
<1>5. NoCopy \notin Real /\ R!Keys(Mask) \notin Real
  <2>1. \A k \in 0..ResourceOps : R!Keys(k) # NoCopy /\ R!Keys(k) # R!Keys(Mask)
    BY <1>1, <1>2 DEF NoCopy
  <2> QED
    BY <1>4, <2>1 DEF Real, NoCopy
<1>6. \A c \in Real : c.acct # Nothing <=> c = R!FromAccount
  BY <1>1, <1>2, <1>4 DEF Real
<1> QED
  BY <1>1, <1>3, <1>4, <1>5, <1>6 DEF Real

(* The look-ups of a deletion, together.                                   *)
LEMMA LookUps ==
  /\ Len(R!Checks) = 7
  /\ \A h \in R!Holders \ R!Unguarded : \E i \in 1..7 : h \in R!Checks[i]
  /\ \A i \in 1..7 : R!Checks[i] \subseteq R!Holders
<1>1. Len(R!Checks) = 7
  BY DEF R!Checks
<1>2. \A i \in 1..7 : i = 1 \/ i = 2 \/ i = 3 \/ i = 4 \/ i = 5 \/ i = 6 \/ i = 7
  OBVIOUS
<1>3. /\ R!Checks[1] = {"app git", "app registry"} /\ R!Checks[2] = {"node key"}
      /\ R!Checks[3] = {"database"} /\ R!Checks[4] = {"registry"} /\ R!Checks[5] = {"storage"}
      /\ R!Checks[6] = {"page git", "page cloud", "page dns"} /\ R!Checks[7] = {"setting"}
  BY DEF R!Checks
<1>4. \A h \in R!Holders \ R!Unguarded : \E i \in 1..7 : h \in R!Checks[i]
  <2>1. 1 \in 1..7 /\ 2 \in 1..7 /\ 3 \in 1..7 /\ 4 \in 1..7 /\ 5 \in 1..7 /\ 6 \in 1..7 /\ 7 \in 1..7
    OBVIOUS
  <2> QED
    BY <1>3, <2>1 DEF R!Holders, R!Own, R!Derived, R!Unguarded
<1>5. \A i \in 1..7 : R!Checks[i] \subseteq R!Holders
  BY <1>2, <1>3 DEF R!Holders, R!Own, R!Derived
<1> QED
  BY <1>1, <1>4, <1>5

-----------------------------------------------------------------------------
(* What the steps do *)

Kin(p) ==
  /\ edit'[p].pc = edit[p].pc /\ edit'[p].r = edit[p].r /\ edit'[p].h = edit[p].h
  /\ edit'[p].in = edit[p].in /\ edit'[p].copy = edit[p].copy /\ edit'[p].v = edit[p].v
  /\ edit'[p].n = edit[p].n /\ edit[p].since \subseteq edit'[p].since
  /\ edit[p].stale => edit'[p].stale
Kept(q) ==
  /\ edit' \in [Editors -> R!Request] /\ edit'[q] = R!Free /\ Asked' = Asked
  /\ \A p \in Editors \ {q} : Kin(p)

Begun(q) == \E new \in R!Request :
  /\ edit[q].pc = "free" /\ edit' = [edit EXCEPT ![q] = new] /\ Sound(new) /\ new.n = 1
  /\ Changing(new) => new.copy = cfg[new.r]
  /\ OfGit(new) => new.copy = cfg["git"]
  /\ Listing(new) => new.pc = "refresh" /\ new.v = Asked + 1
  /\ Asked' = Asked + 1 /\ Asked' \in 1..ResourceOps /\ UNCHANGED R!stored

Stores(q, r, c) ==
  /\ Kept(q) /\ cfg' = [cfg EXCEPT ![r] = c] /\ ref' = ref
  /\ \A p \in Editors \ {q} : Changing(edit[p]) /\ edit[p].r = r => edit'[p].stale
Finds(q, r, c) ==
  /\ \A p \in Editors \ {q} : 
       Deleting(edit[p]) /\ c.acct # Nothing /\ edit[p].r = c.acct /\ r \in R!Derived =>
         r \in edit'[p].since
  /\ excused' = IF r \in R!Derived /\ c.acct # Nothing /\ row[c.acct] # "live"
                THEN excused \cup {r} ELSE excused \ {r}

(* A request of a type becomes one of that type.                           *)
LEMMA RequestTypes ==
  ASSUME NEW e \in R!Request
  PROVE  /\ \A pc \in R!PC : [e EXCEPT !.pc = pc] \in R!Request
         /\ \A h \in R!Holders : [e EXCEPT !.since = @ \cup {h}] \in R!Request
         /\ [e EXCEPT !.stale = TRUE] \in R!Request
         /\ e.pc \in R!PC /\ e.r \in R!All \cup {Nothing} /\ e.h \in R!Own \cup {Nothing}
         /\ e.in \in R!Inputs /\ e.copy \in R!Config /\ e.v \in 0..ResourceOps /\ e.n \in 1..8
         /\ e.since \subseteq R!Holders /\ e.stale \in BOOLEAN
BY DEF R!Request

LEMMA FreeTyped ==
  ASSUME ResourcesAssumption
  PROVE  /\ R!Free \in R!Request /\ R!Free.pc = "free" /\ R!Free.r = Nothing
         /\ R!Free.copy = NoCopy /\ R!Free.n = 1 /\ R!Free.since = {} /\ ~ R!Free.stale
         /\ Sound(R!Free) /\ ~ Changing(R!Free) /\ ~ Listing(R!Free) /\ ~ Deleting(R!Free) /\ ~ OfGit(R!Free)
<1>1. /\ R!Free.pc = "free" /\ R!Free.r = Nothing
      /\ R!Free.copy = NoCopy /\ R!Free.n = 1 /\ R!Free.since = {} /\ ~ R!Free.stale
  BY DEF R!Free, NoCopy
<1>2. R!Free \in R!Request
  BY Configurations DEF R!Free, R!Request, R!PC, R!Inputs, NoCopy, ResourcesAssumption
<1> QED
  BY <1>1, <1>2, Zenon DEF Sound, Changing, Listing, Deleting, OfGit

(* A request begins with what it asks for and what it has read.            *)
LEMMA Begins ==
  ASSUME ResourcesAssumption, Typed, RowsInv, NEW q \in Editors,
         \/ R!BeginLink(q) \/ R!BeginCreate(q) \/ R!BeginUpdate(q)
         \/ R!BeginList(q) \/ R!BeginDelete(q)
  PROVE  Begun(q)
<1> DEFINE N == ResourceOps - still.ops + 1
<1>0. /\ still \in [ops : 0..ResourceOps, faults : 0..ResourceFaults]
      /\ edit[q].pc = "free" /\ R!Asks /\ UNCHANGED R!stored
      /\ cfg \in [R!All -> R!Config] /\ row \in [R!All -> {"none", "live", "deleted"}]
  BY DEF Typed, R!TypeOK, R!BeginLink, R!BeginCreate, R!BeginUpdate, R!BeginList, R!BeginDelete, R!Begin, R!At
<1>1. Asked' = Asked + 1 /\ Asked' \in 1..ResourceOps /\ N = Asked' /\ N \in 0..ResourceOps
  BY <1>0, ResourcesAssumption DEF R!Asks, Asked, ResourcesAssumption
<1>2. R!Number = N
  BY DEF R!Number
<1> HIDE DEF N
<1>3. CASE R!BeginLink(q)
  <2>1. PICK h \in R!Own : R!Begin(q, [R!Free EXCEPT !.pc = "link", !.r = R!Fits(h), !.h = h])
    BY <1>3 DEF R!BeginLink
  <2>2. PICK new : new = [R!Free EXCEPT !.pc = "link", !.r = R!Fits(h), !.h = h]
    OBVIOUS
  <2>3. R!Fits(h) \in R!All
    BY DEF R!Fits, R!All
  <2>4. new \in R!Request /\ new.pc = "link" /\ new.r = R!Fits(h) /\ new.h = h /\ new.n = 1
    BY <2>2, <2>3, FreeTyped DEF R!Request, R!PC
  <2>5. Sound(new) /\ ~ Changing(new) /\ ~ OfGit(new) /\ ~ Listing(new)
    BY <2>3, <2>4 DEF Sound, Changing, OfGit, Listing
  <2> QED
    BY <1>0, <1>1, <2>1, <2>2, <2>4, <2>5 DEF Begun, R!Begin
<1>4. CASE R!BeginCreate(q)
  <2>1. PICK r \in R!New, in \in {R!FromAccount, R!Keys(N)} :
          /\ in = R!FromAccount => r \in R!Derived
          /\ R!Begin(q, [R!Free EXCEPT !.pc = IF in = R!FromAccount THEN "expand" ELSE "insert",
                                       !.r = r, !.in = in, !.v = N])
    BY <1>2, <1>4 DEF R!BeginCreate
  <2>2. PICK new : new = [R!Free EXCEPT !.pc = IF in = R!FromAccount THEN "expand" ELSE "insert",
                                       !.r = r, !.in = in, !.v = N]
    OBVIOUS
  <2>3. r \in R!All /\ in \in Real /\ in \in R!Inputs
    BY <1>1 DEF R!New, R!All, Real, R!Inputs
  <2>4. /\ new \in R!Request /\ new.r = r /\ new.in = in /\ new.n = 1 /\ new.copy = NoCopy
        /\ new.pc = IF in = R!FromAccount THEN "expand" ELSE "insert"
    BY <1>1, <2>2, <2>3, FreeTyped DEF R!Request, R!PC
  <2>5. Sound(new) /\ ~ Changing(new) /\ ~ OfGit(new) /\ ~ Listing(new)
    BY <2>1, <2>3, <2>4 DEF Sound, Changing, OfGit, Listing
  <2> QED
    BY <1>0, <1>1, <2>1, <2>2, <2>4, <2>5 DEF Begun, R!Begin
<1>5. CASE R!BeginUpdate(q)
  <2>1. PICK r \in R!All : \E in \in {Nothing, R!Redacted(cfg[r]), R!FromAccount, R!Keys(N)} :
          /\ row[r] = "live" /\ (in = R!FromAccount => r \in R!Derived)
          /\ r = "git" => in \in {Nothing, R!Redacted(cfg[r])}
          /\ R!Begin(q, [R!Free EXCEPT !.pc = IF in = R!FromAccount THEN "expand" ELSE "write",
                                       !.r = r, !.in = in, !.v = N, !.copy = cfg[r]])
    BY <1>2, <1>5 DEF R!BeginUpdate
  <2>2. PICK in \in {Nothing, R!Redacted(cfg[r]), R!FromAccount, R!Keys(N)} :
          /\ in = R!FromAccount => r \in R!Derived
          /\ r = "git" => in \in {Nothing, R!Redacted(cfg[r])}
          /\ R!Begin(q, [R!Free EXCEPT !.pc = IF in = R!FromAccount THEN "expand" ELSE "write",
                                       !.r = r, !.in = in, !.v = N, !.copy = cfg[r]])
    BY <2>1
  <2>3. PICK new : new = [R!Free EXCEPT !.pc = IF in = R!FromAccount THEN "expand" ELSE "write",
                                       !.r = r, !.in = in, !.v = N, !.copy = cfg[r]]
    OBVIOUS
  <2>4. cfg[r] \in Real /\ (cfg[r] = R!FromAccount => r \in R!Derived) /\ cfg[r] \in R!Config
    BY <1>0 DEF RowsInv
  <2>5. R!Redacted(cfg[r]) = IF cfg[r] = R!FromAccount THEN R!FromAccount ELSE R!Keys(Mask)
    <3>1. CASE cfg[r] = R!FromAccount
      BY <3>1 DEF R!Redacted, R!FromAccount
    <3>2. CASE \E k \in 0..ResourceOps : cfg[r] = R!Keys(k)
      <4>1. PICK k \in 0..ResourceOps : cfg[r] = R!Keys(k)
        BY <3>2
      <4>2. k # Nothing /\ R!Keys(k) # R!FromAccount
        BY Configurations DEF ResourcesAssumption
      <4> QED
        BY <4>1, <4>2 DEF R!Redacted, R!Keys
    <3> QED
      BY <2>4, <3>1, <3>2 DEF Real
  <2>6. /\ in \in {Nothing, R!Keys(Mask), R!FromAccount, R!Keys(N)}
        /\ in = R!Keys(Mask) => cfg[r] # R!FromAccount
        /\ r = "git" => in \in {Nothing, R!Keys(Mask)}
    <3>1. R!Keys(N) # R!Keys(Mask) /\ Nothing # R!Keys(Mask) /\ R!FromAccount # R!Keys(Mask)
      BY <1>1, Configurations DEF Real
    <3>2. "git" \notin R!Derived
      BY DEF R!Derived
    <3> QED
      BY <2>2, <2>4, <2>5, <3>1, <3>2
  <2>7. in \in R!Inputs /\ in \in Real \cup {Nothing, R!Keys(Mask)}
    BY <1>1, <2>6 DEF R!Inputs, Real
  <2>8. /\ new \in R!Request /\ new.r = r /\ new.in = in /\ new.n = 1 /\ new.copy = cfg[r]
        /\ new.pc = IF in = R!FromAccount THEN "expand" ELSE "write"
    BY <1>1, <2>3, <2>4, <2>7, FreeTyped DEF R!Request, R!PC
  <2>9. cfg[r] # NoCopy
    BY <2>4, Configurations
  <2>10. Sound(new) /\ ~ Listing(new) /\ new.copy = cfg[r] /\ (OfGit(new) => r = "git")
    BY <2>2, <2>4, <2>6, <2>7, <2>8, <2>9 DEF Sound, Listing, OfGit
  <2> QED
    BY <1>0, <1>1, <2>2, <2>3, <2>8, <2>10 DEF Begun, R!Begin
<1>6. CASE R!BeginList(q)
  <2>1. PICK new : new = [R!Free EXCEPT !.pc = "refresh", !.r = "git", !.v = N, !.copy = cfg["git"]]
    OBVIOUS
  <2>2. "git" \in R!All /\ cfg["git"] \in R!Config
    BY <1>0 DEF R!All
  <2>3. new \in R!Request /\ new.r = "git" /\ new.pc = "refresh" /\ new.v = N
        /\ new.copy = cfg["git"] /\ new.n = 1
    BY <1>1, <2>1, <2>2, FreeTyped DEF R!Request, R!PC
  <2>4. Sound(new) /\ ~ Changing(new)
    BY <2>2, <2>3 DEF Sound, Changing, Listing
  <2> QED
    BY <1>0, <1>1, <1>2, <1>6, <2>1, <2>3, <2>4 DEF Begun, R!BeginList, R!Begin
<1>7. CASE R!BeginDelete(q)
  <2>1. PICK r \in R!All : R!Begin(q, [R!Free EXCEPT !.pc = "check", !.r = r])
    BY <1>7 DEF R!BeginDelete
  <2>2. PICK new : new = [R!Free EXCEPT !.pc = "check", !.r = r]
    OBVIOUS
  <2>3. new \in R!Request /\ new.r = r /\ new.pc = "check" /\ new.n = 1
    BY <2>2, FreeTyped DEF R!Request, R!PC
  <2>4. Sound(new) /\ ~ Changing(new) /\ ~ OfGit(new) /\ ~ Listing(new)
    BY <2>3 DEF Sound, Changing, OfGit, Listing
  <2> QED
    BY <1>0, <1>1, <2>1, <2>2, <2>3, <2>4 DEF Begun, R!Begin
<1> QED
  BY <1>3, <1>4, <1>5, <1>6, <1>7

(* The end of a request, alone or with what it tells the others.           *)
LEMMA Asking ==
  ASSUME Typed, R!Works \/ R!Fails
  PROVE  Asked' = Asked
BY DEF Typed, R!TypeOK, R!Works, R!Fails, Asked

LEMMA EndKeeps ==
  ASSUME ResourcesAssumption, Typed, NEW q \in Editors, R!End(q), R!Works \/ R!Fails
  PROVE  Kept(q)
<1>1. edit \in [Editors -> R!Request] /\ edit' = [edit EXCEPT ![q] = R!Free]
  BY DEF Typed, R!TypeOK, R!End
<1>2. edit' \in [Editors -> R!Request] /\ edit'[q] = R!Free /\ \A p \in Editors \ {q} : edit'[p] = edit[p]
  BY <1>1, FreeTyped
<1> QED
  BY <1>2, Asking DEF Kept, Kin

LEMMA Refers ==
  ASSUME ResourcesAssumption, Typed, R!Works, NEW q \in Editors, NEW h \in R!Own, NEW r,
         R!Referred(q, h, r)
  PROVE  /\ Kept(q)
         /\ \A p \in Editors \ {q} : Deleting(edit[p]) /\ edit[p].r = r => h \in edit'[p].since
<1>1. \A p \in Editors : edit[p] \in R!Request
  BY DEF Typed, R!TypeOK
<1>2. ASSUME NEW p \in Editors \ {q}
      PROVE  /\ edit'[p] \in R!Request /\ Kin(p)
             /\ Deleting(edit[p]) /\ edit[p].r = r => h \in edit'[p].since
  <2>1. PICK e : e = [edit[p] EXCEPT !.since = @ \cup {h}]
    OBVIOUS
  <2>2. /\ e \in R!Request /\ e.pc = edit[p].pc /\ e.r = edit[p].r /\ e.h = edit[p].h /\ e.in = edit[p].in
        /\ e.copy = edit[p].copy /\ e.v = edit[p].v /\ e.n = edit[p].n /\ e.stale = edit[p].stale
        /\ e.since = edit[p].since \cup {h}
    BY <1>1, <2>1 DEF R!Request, R!Holders
  <2>3. edit'[p] = IF Deleting(edit[p]) /\ edit[p].r = r THEN e ELSE edit[p]
    BY <2>1 DEF R!Referred, Deleting
  <2> QED
    BY <1>1, <2>2, <2>3 DEF Kin
<1>3. edit'[q] = R!Free /\ edit' = [p \in Editors |-> edit'[p]]
  BY DEF R!Referred
<1>4. edit' \in [Editors -> R!Request]
  BY <1>2, <1>3, FreeTyped
<1> QED
  BY <1>2, <1>3, <1>4, Asking DEF Kept

(* A write of a row overtakes the copies of it.                            *)
Passed(e, q, r, p) ==
  /\ e \in R!Request /\ e.pc = edit[p].pc /\ e.r = edit[p].r /\ e.h = edit[p].h
  /\ e.in = edit[p].in /\ e.copy = edit[p].copy /\ e.v = edit[p].v /\ e.n = edit[p].n
  /\ edit[p].since \subseteq e.since /\ (edit[p].stale => e.stale)
  /\ p # q /\ edit[p].r = r /\ edit[p].pc \in {"expand", "write"} => e.stale

LEMMA Overtakes ==
  ASSUME Typed, NEW q \in Editors, NEW r, NEW p \in Editors
  PROVE  Passed(R!Overtake(r, Editors \ {q})[p], q, r, p)
<1>1. edit[p] \in R!Request
  BY DEF Typed, R!TypeOK
<1>2. PICK s : s = [edit[p] EXCEPT !.stale = TRUE]
  OBVIOUS
<1>3. /\ s \in R!Request /\ s.pc = edit[p].pc /\ s.r = edit[p].r /\ s.h = edit[p].h /\ s.in = edit[p].in
      /\ s.copy = edit[p].copy /\ s.v = edit[p].v /\ s.n = edit[p].n /\ s.since = edit[p].since
      /\ s.stale
  BY <1>1, <1>2 DEF R!Request
<1>4. R!Overtake(r, Editors \ {q})[p] =
        IF p # q /\ edit[p].r = r /\ edit[p].pc \in {"expand", "write"} THEN s ELSE edit[p]
  BY <1>2 DEF R!Overtake
<1> QED
  BY <1>1, <1>3, <1>4 DEF Passed

LEMMA StoreDoes ==
  ASSUME ResourcesAssumption, Typed, R!Works, UNCHANGED ref, NEW q \in Editors, NEW r \in R!All,
         NEW c \in R!Config, R!Store(q, r, c)
  PROVE  Stores(q, r, c) /\ Finds(q, r, c)
<1> DEFINE O == R!Overtake(r, Editors \ {q})
<1>1. \A p \in Editors \ {q} : Passed(O[p], q, r, p)
  BY Overtakes
<1>2. O = [p \in Editors |-> O[p]]
  BY DEF R!Overtake
<1>3. R!Excuse(r, c.acct) =>
        excused' = IF c.acct # Nothing /\ row[c.acct] # "live" THEN excused \cup {r} ELSE excused \ {r}
  BY DEF R!Excuse
<1>4. CASE r \in R!Derived /\ c.acct # Nothing
  <2>1. /\ edit' = [p \in Editors |->
                      IF p = q THEN R!Free
                      ELSE IF O[p].pc \in {"check", "delete"} /\ O[p].r = c.acct
                           THEN [O[p] EXCEPT !.since = @ \cup {r}] ELSE O[p]]
        /\ R!Excuse(r, c.acct) /\ cfg' = [cfg EXCEPT ![r] = c]
    BY <1>4 DEF R!Store
  <2> HIDE DEF O
  <2>2. ASSUME NEW p \in Editors \ {q}
        PROVE  Passed(edit'[p], q, r, p) /\ (Deleting(edit[p]) /\ edit[p].r = c.acct => r \in edit'[p].since)
    <3>1. PICK e : e = [O[p] EXCEPT !.since = @ \cup {r}]
      OBVIOUS
    <3>2. r \in R!Holders
      BY <1>4 DEF R!Holders
    <3>3. Passed(e, q, r, p) /\ r \in e.since
      BY <1>1, <3>1, <3>2 DEF Passed, R!Request
    <3>4. edit'[p] = IF O[p].pc \in {"check", "delete"} /\ O[p].r = c.acct THEN e ELSE O[p]
      BY <2>1, <3>1
    <3> QED
      BY <1>1, <3>3, <3>4 DEF Deleting, Passed
  <2>3. edit' \in [Editors -> R!Request] /\ edit'[q] = R!Free
    BY <2>1, <2>2, FreeTyped DEF Passed
  <2> QED
    BY <1>3, <1>4, <2>1, <2>2, <2>3, Asking DEF Stores, Finds, Kept, Kin, Changing, Passed
<1>5. CASE ~ (r \in R!Derived /\ c.acct # Nothing)
  <2>1. edit' = [O EXCEPT ![q] = R!Free] /\ excused' = excused \ {r} /\ cfg' = [cfg EXCEPT ![r] = c]
    BY <1>5 DEF R!Store
  <2> HIDE DEF O
  <2>2. \A p \in Editors \ {q} : Passed(edit'[p], q, r, p)
    BY <1>1, <1>2, <2>1
  <2>3. edit' \in [Editors -> R!Request] /\ edit'[q] = R!Free
    BY <1>2, <2>1, <2>2, FreeTyped DEF Passed
  <2> QED
    BY <1>5, <2>1, <2>2, <2>3, Asking DEF Stores, Finds, Kept, Kin, Changing, Passed
<1> QED
  BY <1>4, <1>5

(* What a step of a request does to it and to the rows.                    *)
Turned(q, e) ==
  /\ edit' = [edit EXCEPT ![q] = e] /\ e \in R!Request /\ Asked' = Asked
  /\ e.r = edit[q].r /\ e.h = edit[q].h /\ e.in = edit[q].in /\ e.copy = edit[q].copy
  /\ e.v = edit[q].v /\ e.stale = edit[q].stale /\ edit[q].since \subseteq e.since
Quit(q) ==
  /\ Kept(q) /\ UNCHANGED <<row, cfg, ref, given, excused>>
  /\ lost' = lost \/ lost' = lost \cup {"git"}
  /\ edit[q].pc = "save" => row["git"] # "live" \/ "git" \in lost'
Expanded(q) == \E e :
  /\ Turned(q, e) /\ edit[q].pc = "expand" /\ UNCHANGED R!stored
  /\ e.pc = IF edit[q].copy = NoCopy THEN "insert" ELSE "write"
Refreshed(q) == \E e :
  /\ Turned(q, e) /\ edit[q].pc = "refresh" /\ e.pc = "save"
  /\ edit[q].copy = given["git"] /\ given' = [given EXCEPT !["git"] = R!Keys(edit[q].v)]
  /\ UNCHANGED <<row, cfg, ref, excused, lost>>
Looked(q) == \E e :
  /\ Turned(q, e) /\ edit[q].pc = "check" /\ UNCHANGED R!stored
  /\ e.n = edit[q].n + 1 /\ e.pc = IF edit[q].n = 7 THEN "delete" ELSE "check"
  /\ \A h \in R!Checks[edit[q].n] : R!Points(h, edit[q].r) => h \in e.since
Linked(q) == \E h \in R!Own, r \in R!All :
  /\ edit[q].pc = "link" /\ Kept(q) /\ ref' = [ref EXCEPT ![h] = r]
  /\ UNCHANGED <<row, cfg, given, lost>>
  /\ excused' = IF row[r] # "live" THEN excused \cup {h} ELSE excused \ {h}
  /\ \A p \in Editors \ {q} : Deleting(edit[p]) /\ edit[p].r = r => h \in edit'[p].since
Inserted(q) == \E r \in R!New, c \in Real :
  /\ row[r] = "none" /\ row' = [row EXCEPT ![r] = "live"] /\ given' = [given EXCEPT ![r] = c]
  /\ Stores(q, r, c) /\ Finds(q, r, c) /\ lost' = lost /\ (r \notin R!Derived => c # R!FromAccount)
  /\ edit[q].pc = "insert"
Written(q) == \E r \in R!All, c \in Real :
  /\ row[r] = "live" /\ row' = row /\ r = edit[q].r /\ edit[q].pc = "write"
  /\ Stores(q, r, c) /\ Finds(q, r, c) /\ (r \notin R!Derived => c # R!FromAccount)
  /\ \/ r # "git" /\ given' = [given EXCEPT ![r] = c] /\ lost' = lost \ {r}
     \/ /\ c = edit[q].copy /\ given' = given
        /\ lost' = IF edit[q].stale THEN lost \cup {r} ELSE lost
Saved(q) ==
  /\ edit[q].pc = "save" /\ row["git"] = "live" /\ Stores(q, "git", R!Keys(edit[q].v))
  /\ UNCHANGED <<row, given, excused, lost>>
Deleted(q) ==
  /\ edit[q].pc = "delete" /\ Kept(q) /\ row' = [row EXCEPT ![edit[q].r] = "deleted"]
  /\ excused' = excused \cup {h \in edit[q].since : R!Points(h, edit[q].r)}
  /\ UNCHANGED <<cfg, ref, given, lost>>
Step(q) ==
  \/ Begun(q) \/ Quit(q) \/ Expanded(q) \/ Refreshed(q) \/ Looked(q) \/ Linked(q)
  \/ Inserted(q) \/ Written(q) \/ Saved(q) \/ Deleted(q)

LEMMA Goes ==
  ASSUME Typed, R!Works, NEW q \in Editors, NEW pc \in R!PC, R!Goto(q, pc)
  PROVE  \E e : Turned(q, e) /\ e.pc = pc
<1>1. edit[q] \in R!Request /\ edit \in [Editors -> R!Request]
  BY DEF Typed, R!TypeOK
<1>2. PICK e : e = [edit[q] EXCEPT !.pc = pc]
  OBVIOUS
<1>3. /\ e \in R!Request /\ e.pc = pc /\ e.r = edit[q].r /\ e.h = edit[q].h /\ e.in = edit[q].in
      /\ e.copy = edit[q].copy /\ e.v = edit[q].v /\ e.stale = edit[q].stale /\ e.since = edit[q].since
  BY <1>1, <1>2 DEF R!Request
<1>4. edit' = [edit EXCEPT ![q] = e]
  BY <1>1, <1>2 DEF R!Goto
<1> QED
  BY <1>3, <1>4, Asking DEF Turned

LEMMA ExpandDoes ==
  ASSUME ResourcesAssumption, Typed, NEW q \in Editors, R!Expand(q)
  PROVE  Step(q)
<1>1. UNCHANGED R!stored /\ R!Works /\ edit[q].pc = "expand"
  BY DEF R!Expand, R!At
<1>2. CASE R!End(q)
  BY <1>1, <1>2, EndKeeps DEF Step, Quit, R!stored
<1>3. ASSUME NEW pc \in {"insert", "write"}, R!Goto(q, pc),
             pc = IF edit[q].copy = NoCopy THEN "insert" ELSE "write"
      PROVE  Step(q)
  <2>1. \E e : Turned(q, e) /\ e.pc = pc
    BY <1>1, <1>3, Goes DEF R!PC
  <2> QED
    BY <1>1, <1>3, <2>1 DEF Step, Expanded
<1> QED
  BY <1>2, <1>3 DEF R!Expand, NoCopy

LEMMA RefreshDoes ==
  ASSUME ResourcesAssumption, Typed, NEW q \in Editors, R!Refresh(q)
  PROVE  Step(q)
<1>1. R!Works /\ edit[q].pc = "refresh"
  BY DEF R!Refresh, R!At
<1>2. CASE R!End(q) /\ UNCHANGED R!stored
  BY <1>1, <1>2, EndKeeps DEF Step, Quit, R!stored
<1>3. CASE /\ edit[q].copy = given["git"] /\ given' = [given EXCEPT !["git"] = R!Keys(edit[q].v)]
           /\ R!Goto(q, "save") /\ UNCHANGED <<row, cfg, ref, excused, lost>>
  <2>1. \E e : Turned(q, e) /\ e.pc = "save"
    BY <1>1, <1>3, Goes DEF R!PC
  <2> QED
    BY <1>1, <1>3, <2>1 DEF Step, Refreshed
<1> QED
  BY <1>2, <1>3 DEF R!Refresh

LEMMA CheckDoes ==
  ASSUME ResourcesAssumption, Typed, NEW q \in Editors, R!Check(q)
  PROVE  Step(q)
<1>1. /\ UNCHANGED R!stored /\ edit[q].pc = "check" /\ (R!Works \/ R!Fails) /\ edit[q].n \in 1..7
      /\ edit[q] \in R!Request /\ edit \in [Editors -> R!Request]
  BY DEF R!Check, R!At, Typed, R!TypeOK, Sound
<1>2. CASE R!End(q)
  BY <1>1, <1>2, EndKeeps DEF Step, Quit, R!stored
<1>3. ASSUME NEW since, since \subseteq R!Holders, R!Past(q, since),
             \A h \in R!Checks[edit[q].n] : R!Points(h, edit[q].r) => h \in since
      PROVE  Step(q)
  <2>1. PICK e : e = [edit[q] EXCEPT !.n = @ + 1, !.since = @ \cup since,
                                     !.pc = IF edit[q].n = 7 THEN "delete" ELSE "check"]
    OBVIOUS
  <2>0. (IF edit[q].n = 7 THEN "delete" ELSE "check") \in R!PC /\ edit[q].n + 1 \in 1..8
    BY <1>1 DEF R!PC
  <2>2. /\ e \in R!Request /\ e.pc = IF edit[q].n = 7 THEN "delete" ELSE "check"
        /\ e.n = edit[q].n + 1 /\ e.since = edit[q].since \cup since
        /\ e.r = edit[q].r /\ e.h = edit[q].h /\ e.in = edit[q].in
        /\ e.copy = edit[q].copy /\ e.v = edit[q].v /\ e.stale = edit[q].stale
    BY <1>1, <1>3, <2>0, <2>1 DEF R!Request
  <2>3. edit' = [edit EXCEPT ![q] = e]
    BY <1>1, <1>3, <2>1, LookUps DEF R!Past
  <2>4. Turned(q, e)
    BY <1>1, <2>2, <2>3, Asking DEF Turned
  <2> QED
    BY <1>1, <1>3, <2>2, <2>4 DEF Step, Looked
<1>4. {"setting"} \subseteq R!Holders
  BY DEF R!Holders, R!Own
<1> QED
  BY <1>2, <1>3, <1>4 DEF R!Check

LEMMA LinkDoes ==
  ASSUME ResourcesAssumption, Typed, NEW q \in Editors, R!StoreRef(q)
  PROVE  Step(q)
<1>1. edit[q].h \in R!Own /\ edit[q].r \in R!All
  BY DEF Typed, Sound, R!StoreRef, R!At
<1>2. R!Works /\ R!Referred(q, edit[q].h, edit[q].r) /\ R!Excuse(edit[q].h, edit[q].r)
  BY DEF R!StoreRef
<1>3. edit[q].r # Nothing
  BY <1>1 DEF ResourcesAssumption
<1>4. PICK h \in R!Own, r \in R!All : h = edit[q].h /\ r = edit[q].r
  BY <1>1
<1>5. Kept(q) /\ \A p \in Editors \ {q} : Deleting(edit[p]) /\ edit[p].r = r => h \in edit'[p].since
  BY <1>2, <1>4, Refers
<1>6. /\ ref' = [ref EXCEPT ![h] = r] /\ UNCHANGED <<row, cfg, given, lost>>
      /\ excused' = IF row[r] # "live" THEN excused \cup {h} ELSE excused \ {h}
  BY <1>2, <1>3, <1>4 DEF R!StoreRef, R!Excuse
<1>7. Linked(q)
  BY <1>5, <1>6 DEF Linked, R!StoreRef, R!At
<1> QED
  BY <1>7 DEF Step

LEMMA InsertDoes ==
  ASSUME ResourcesAssumption, Typed, NEW q \in Editors, R!Insert(q)
  PROVE  Step(q)
<1> DEFINE r == edit[q].r
           c == edit[q].in
<1>1. /\ edit[q].pc = "insert" /\ R!Works /\ r \in R!New /\ c \in Real
      /\ r \notin R!Derived => c # R!FromAccount
  BY DEF Typed, Sound, R!Insert, R!At
<1>2. r \in R!All /\ c \in R!Config
  BY <1>1, Configurations DEF R!New, R!All
<1>3. CASE row[r] = "none"
  <2>1. Stores(q, r, c) /\ Finds(q, r, c)
    BY <1>1, <1>2, <1>3, StoreDoes DEF R!Insert
  <2> QED
    BY <1>1, <1>3, <2>1 DEF Step, Inserted, R!Insert
<1>4. CASE row[r] # "none"
  <2>1. Kept(q)
    BY <1>1, <1>4, EndKeeps DEF R!Insert
  <2> QED
    BY <1>1, <1>4, <2>1 DEF Step, Quit, R!Insert
<1> QED
  BY <1>3, <1>4

LEMMA WriteDoes ==
  ASSUME ResourcesAssumption, Typed, NEW q \in Editors, R!Write(q)
  PROVE  Step(q)
<1> DEFINE r == edit[q].r
           in == edit[q].in
           old == edit[q].copy
           c == R!Merged(old, in)
<1>1. /\ edit[q].pc = "write" /\ R!Works /\ r \in R!All /\ old \in Real
      /\ in \in Real \cup {Nothing, R!Keys(Mask)}
      /\ in = R!Keys(Mask) => old # R!FromAccount
      /\ r = "git" => in \in {Nothing, R!Keys(Mask)}
      /\ in = R!FromAccount => r \in R!Derived
      /\ old = R!FromAccount => r \in R!Derived
  BY DEF Typed, Sound, R!Write, R!At
<1>2. /\ in = Nothing => c = old
      /\ in = R!Keys(Mask) => c = old
      /\ in \in Real => c = in
  <2>1. in = Nothing => c = old
    BY DEF R!Merged
  <2>2. ASSUME in = R!Keys(Mask) PROVE c = old
    <3>1. PICK k \in 0..ResourceOps : old = R!Keys(k)
      BY <1>1, <2>2 DEF Real
    <3>2. R!Keys(Mask) # Nothing
      BY Configurations
    <3> QED
      BY <2>2, <3>1, <3>2 DEF R!Merged, R!Keys
  <2>3. ASSUME in \in Real PROVE c = in
    <3>1. in # Nothing
      BY <2>3, Configurations
    <3>2. CASE in = R!FromAccount
      BY <3>1, <3>2 DEF R!Merged, R!FromAccount, ResourcesAssumption
    <3>3. CASE \E k \in 0..ResourceOps : in = R!Keys(k)
      <4>1. PICK k \in 0..ResourceOps : in = R!Keys(k)
        BY <3>3
      <4>2. k # Mask
        BY DEF ResourcesAssumption
      <4> QED
        BY <3>1, <4>1, <4>2 DEF R!Merged, R!Keys
    <3> QED
      BY <2>3, <3>2, <3>3 DEF Real
  <2> QED
    BY <2>1, <2>2, <2>3
<1>3. c \in Real /\ c \in R!Config /\ (r \notin R!Derived => c # R!FromAccount)
  BY <1>1, <1>2, Configurations
<1> HIDE DEF c
<1>4. CASE row[r] = "live"
  <2>1. Stores(q, r, c) /\ Finds(q, r, c)
    BY <1>1, <1>3, <1>4, StoreDoes DEF R!Write, c
  <2>2. row' = row /\ given' = [given EXCEPT ![r] = IF in \in {Nothing, R!Keys(Mask)} THEN @ ELSE in]
        /\ lost' = IF in \notin {Nothing, R!Keys(Mask)} THEN lost \ {r}
                   ELSE IF edit[q].stale THEN lost \cup {r} ELSE lost
    BY <1>4 DEF R!Write
  <2>3. CASE in \in {Nothing, R!Keys(Mask)}
    <3>1. given' = given
      BY <2>2, <2>3 DEF Typed, R!TypeOK
    <3> QED
      BY <1>1, <1>2, <1>3, <1>4, <2>1, <2>2, <2>3, <3>1 DEF Step, Written
  <2>4. CASE in \notin {Nothing, R!Keys(Mask)}
    <3>1. r # "git" /\ given' = [given EXCEPT ![r] = c] /\ lost' = lost \ {r}
      BY <1>1, <1>2, <2>2, <2>4
    <3> QED
      BY <1>1, <1>3, <1>4, <2>1, <2>2, <3>1 DEF Step, Written
  <2> QED
    BY <2>3, <2>4
<1>5. CASE row[r] # "live"
  <2>1. Kept(q) /\ UNCHANGED <<row, cfg, ref, given, excused, lost>>
    BY <1>1, <1>5, EndKeeps DEF R!Write
  <2> QED
    BY <1>1, <2>1 DEF Step, Quit
<1> QED
  BY <1>4, <1>5

LEMMA SaveDoes ==
  ASSUME ResourcesAssumption, Typed, NEW q \in Editors, R!Save(q)
  PROVE  Step(q)
<1>0. edit[q].pc = "save" /\ edit[q] \in R!Request /\ edit \in [Editors -> R!Request]
  BY DEF R!Save, R!At, Typed, R!TypeOK
<1>1. CASE R!Fails /\ R!End(q) /\ lost' = lost \cup {"git"} /\ UNCHANGED cfg
  BY <1>0, <1>1, EndKeeps DEF Step, Quit, R!Save
<1>2. CASE R!Works /\ row["git"] # "live" /\ R!End(q) /\ UNCHANGED <<cfg, lost>>
  BY <1>0, <1>2, EndKeeps DEF Step, Quit, R!Save
<1>3. CASE /\ R!Works /\ row["git"] = "live" /\ UNCHANGED lost
           /\ cfg' = [cfg EXCEPT !["git"] = R!Keys(edit[q].v)]
           /\ edit' = [R!Overtake("git", Editors \ {q}) EXCEPT ![q] = R!Free]
  <2> DEFINE O == R!Overtake("git", Editors \ {q})
  <2>1. O = [p \in Editors |-> O[p]]
    BY DEF R!Overtake
  <2>2. ASSUME NEW p \in Editors \ {q}
        PROVE  /\ edit'[p] \in R!Request /\ Kin(p)
               /\ Changing(edit[p]) /\ edit[p].r = "git" => edit'[p].stale
    <3>1. edit'[p] = O[p]
      <4> HIDE DEF O
      <4> QED BY <1>3, <2>1, Zenon DEF O
    <3>2. Passed(O[p], q, "git", p)
      BY Overtakes
    <3> HIDE DEF O
    <3> QED
      BY <3>1, <3>2 DEF Passed, Kin, Changing
  <2>3. edit' \in [Editors -> R!Request] /\ edit'[q] = R!Free
    BY <1>3, <2>1, <2>2, FreeTyped
  <2>4. Stores(q, "git", R!Keys(edit[q].v))
    BY <1>3, <2>2, <2>3, Asking DEF Stores, Kept, R!Save
  <2> QED
    BY <1>0, <1>3, <2>4 DEF Step, Saved, R!Save
<1> QED
  BY <1>1, <1>2, <1>3 DEF R!Save

LEMMA DeleteDoes ==
  ASSUME ResourcesAssumption, Typed, NEW q \in Editors, R!DeleteRow(q)
  PROVE  Step(q)
BY EndKeeps DEF R!DeleteRow, R!At, Step, Deleted

LEMMA ResourceSteps ==
  ASSUME ResourcesAssumption, Typed, RowsInv, R!Next
  PROVE  (\E q \in Editors : Step(q)) \/ (\E h \in R!Own : R!Unlink(h)) \/ R!Crash
<1>1. ASSUME NEW q \in Editors,
             \/ R!BeginLink(q) \/ R!StoreRef(q)
             \/ R!BeginCreate(q) \/ R!BeginUpdate(q) \/ R!Expand(q) \/ R!Insert(q) \/ R!Write(q)
             \/ R!BeginList(q) \/ R!Refresh(q) \/ R!Save(q)
             \/ R!BeginDelete(q) \/ R!Check(q) \/ R!DeleteRow(q)
      PROVE  Step(q)
  <2>1. ASSUME \/ R!BeginLink(q) \/ R!BeginCreate(q) \/ R!BeginUpdate(q)
               \/ R!BeginList(q) \/ R!BeginDelete(q)
        PROVE  Step(q)
    BY <2>1, Begins DEF Step
  <2> QED
    BY <1>1, <2>1, LinkDoes, ExpandDoes, InsertDoes, WriteDoes, RefreshDoes, SaveDoes, CheckDoes, DeleteDoes
<1> QED
  BY <1>1 DEF R!Next

LEMMA StillTyped ==
  ASSUME ResourcesAssumption, Typed, R!Next
  PROVE  still' \in [ops : 0..ResourceOps, faults : 0..ResourceFaults]
<1>1. R!Asks \/ R!Works \/ R!Fails
  BY DEF R!Next, R!BeginLink, R!StoreRef, R!BeginCreate, R!BeginUpdate, R!Expand, R!Insert, R!Write,
         R!BeginList, R!Refresh, R!Save, R!BeginDelete, R!Check, R!DeleteRow, R!Unlink, R!Crash, R!Begin
<1> QED
  BY <1>1 DEF Typed, R!TypeOK, R!Asks, R!Works, R!Fails, ResourcesAssumption

(* A request that others have only told something stays sound.             *)
LEMMA KinSound ==
  ASSUME NEW q, Kin(q), Sound(edit[q])
  PROVE  Sound(edit'[q])
BY DEF Kin, Sound, Listing

LEMMA TurnSound ==
  ASSUME ResourcesAssumption, Typed, NEW q \in Editors, NEW e, Turned(q, e),
         Sound(e)
  PROVE  /\ edit' \in [Editors -> R!Request] /\ \A p \in Editors : Sound(edit'[p])
         /\ edit'[q] = e /\ \A p \in Editors \ {q} : edit'[p] = edit[p]
BY DEF Turned, Typed, R!TypeOK

LEMMA KeptSound ==
  ASSUME ResourcesAssumption, Typed, NEW q \in Editors, Kept(q)
  PROVE  edit' \in [Editors -> R!Request] /\ \A p \in Editors : Sound(edit'[p])
<1>1. \A p \in Editors \ {q} : Sound(edit'[p])
  BY KinSound DEF Kept, Typed
<1> QED
  BY <1>1, FreeTyped DEF Kept

LEMMA EditStep ==
  ASSUME ResourcesAssumption, Typed, RowsInv, NEW q \in Editors, Step(q)
  PROVE  edit' \in [Editors -> R!Request] /\ \A p \in Editors : Sound(edit'[p])
<1>1. CASE Begun(q)
  <2>1. PICK new \in R!Request : edit' = [edit EXCEPT ![q] = new] /\ Sound(new)
    BY <1>1 DEF Begun
  <2> QED
    BY <2>1 DEF Typed, R!TypeOK
<1>2. CASE Expanded(q)
  <2>1. PICK e : /\ Turned(q, e) /\ edit[q].pc = "expand"
                 /\ e.pc = IF edit[q].copy = NoCopy THEN "insert" ELSE "write"
    BY <1>2 DEF Expanded
  <2>2. /\ edit[q].r \in R!Derived /\ edit[q].in = R!FromAccount /\ edit[q].copy \in Real \cup {NoCopy}
        /\ edit[q].copy = NoCopy => edit[q].r \in R!New
        /\ edit[q].r \in R!All
    BY <2>1 DEF Typed, Sound
  <2>3. e.r = edit[q].r /\ e.in = edit[q].in /\ e.copy = edit[q].copy
    BY <2>1 DEF Turned
  <2>4. /\ R!FromAccount \in Real /\ "git" \notin R!Derived
        /\ R!Keys(Mask) # R!FromAccount
    BY Configurations DEF Real, R!Derived
  <2>5. Sound(e)
    BY <2>1, <2>2, <2>3, <2>4 DEF Sound, Listing
  <2> QED
    BY <2>1, <2>5, TurnSound
<1>3. CASE Refreshed(q)
  <2>1. PICK e : Turned(q, e) /\ edit[q].pc = "refresh" /\ e.pc = "save"
    BY <1>3 DEF Refreshed
  <2>2. edit[q].r = "git" /\ edit[q].r \in R!All /\ e.r = edit[q].r
    BY <2>1 DEF Typed, Sound, Listing, Turned
  <2>3. Sound(e)
    BY <2>1, <2>2 DEF Sound, Listing
  <2> QED
    BY <2>1, <2>3, TurnSound
<1>4. CASE Looked(q)
  <2>1. PICK e : /\ Turned(q, e) /\ edit[q].pc = "check"
                 /\ e.n = edit[q].n + 1 /\ e.pc = IF edit[q].n = 7 THEN "delete" ELSE "check"
    BY <1>4 DEF Looked
  <2>2. edit[q].r \in R!All /\ e.r = edit[q].r /\ edit[q].n \in 1..7
    BY <2>1 DEF Typed, Sound, Turned
  <2>3. Sound(e)
    BY <2>1, <2>2 DEF Sound, Listing
  <2> QED
    BY <2>1, <2>3, TurnSound
<1>5. CASE Kept(q)
  BY <1>5, KeptSound
<1> QED
  BY <1>1, <1>2, <1>3, <1>4, <1>5 DEF Step, Quit, Linked, Inserted, Written, Saved, Deleted, Stores

LEMMA TokenIsReal ==
  ASSUME ResourcesAssumption, Typed, NEW q \in Editors
  PROVE  R!Keys(edit[q].v) \in Real
<1>1. edit[q].v \in 0..ResourceOps
  BY RequestTypes DEF Typed, R!TypeOK
<1> QED
  BY <1>1 DEF Real

LEMMA RowsStep ==
  ASSUME ResourcesAssumption, Typed, RowsInv, NEW q \in Editors, Step(q)
  PROVE  /\ row' \in [R!All -> {"none", "live", "deleted"}]
         /\ cfg' \in [R!All -> R!Config] /\ given' \in [R!All -> R!Config]
         /\ ref' \in [R!Own -> R!All \cup {Nothing}]
         /\ excused' \subseteq R!Holders /\ lost' \subseteq R!All
         /\ RowsInv'
<1>0. /\ row \in [R!All -> {"none", "live", "deleted"}]
      /\ cfg \in [R!All -> R!Config] /\ given \in [R!All -> R!Config]
      /\ ref \in [R!Own -> R!All \cup {Nothing}]
      /\ excused \subseteq R!Holders /\ lost \subseteq R!All
  BY DEF Typed, R!TypeOK
<1>1. ASSUME UNCHANGED <<row, cfg, ref, given, excused>>, lost' = lost \/ lost' = lost \cup {"git"}
      PROVE  /\ row' \in [R!All -> {"none", "live", "deleted"}]
             /\ cfg' \in [R!All -> R!Config] /\ given' \in [R!All -> R!Config]
             /\ ref' \in [R!Own -> R!All \cup {Nothing}]
             /\ excused' \subseteq R!Holders /\ lost' \subseteq R!All
             /\ RowsInv'
  BY <1>0, <1>1 DEF RowsInv, R!All
<1>2. CASE Begun(q) \/ Quit(q) \/ Expanded(q) \/ Looked(q)
  BY <1>1, <1>2 DEF Begun, Quit, Expanded, Looked, R!stored
<1>3. CASE Refreshed(q)
  <2>1. given' = [given EXCEPT !["git"] = R!Keys(edit[q].v)] /\ UNCHANGED <<row, cfg, ref, excused, lost>>
    BY <1>3 DEF Refreshed
  <2>2. R!Keys(edit[q].v) \in Real /\ R!Keys(edit[q].v) \in R!Config
    BY TokenIsReal, Configurations
  <2> QED
    BY <1>0, <2>1, <2>2 DEF RowsInv
<1>4. CASE Linked(q)
  <2>1. PICK h \in R!Own, r \in R!All :
          /\ ref' = [ref EXCEPT ![h] = r] /\ UNCHANGED <<row, cfg, given, lost>>
          /\ excused' = IF row[r] # "live" THEN excused \cup {h} ELSE excused \ {h}
    BY <1>4 DEF Linked
  <2> QED
    BY <1>0, <2>1 DEF RowsInv, R!Holders
<1>5. ASSUME NEW r \in R!All, NEW c \in Real, Finds(q, r, c)
      PROVE  excused' \subseteq R!Holders
  BY <1>0, <1>5 DEF Finds, R!Holders
<1>6. CASE Inserted(q)
  <2>1. PICK r \in R!New, c \in Real :
          /\ row' = [row EXCEPT ![r] = "live"] /\ given' = [given EXCEPT ![r] = c]
          /\ cfg' = [cfg EXCEPT ![r] = c] /\ ref' = ref
          /\ Finds(q, r, c) /\ lost' = lost /\ (r \notin R!Derived => c # R!FromAccount)
    BY <1>6 DEF Inserted, Stores
  <2>2. r \in R!All /\ c \in R!Config
    BY Configurations DEF R!New, R!All
  <2> QED
    BY <1>0, <1>5, <2>1, <2>2 DEF RowsInv
<1>7. CASE Written(q)
  <2>1. PICK r \in R!All, c \in Real :
          /\ row' = row /\ cfg' = [cfg EXCEPT ![r] = c] /\ ref' = ref
          /\ Finds(q, r, c) /\ (r \notin R!Derived => c # R!FromAccount)
          /\ given' = [given EXCEPT ![r] = c] \/ given' = given
          /\ lost' \subseteq lost \cup {r}
    BY <1>7 DEF Written, Stores
  <2>2. c \in R!Config
    BY Configurations
  <2> QED
    BY <1>0, <1>5, <2>1, <2>2 DEF RowsInv
<1>8. CASE Saved(q)
  <2>1. cfg' = [cfg EXCEPT !["git"] = R!Keys(edit[q].v)] /\ ref' = ref
        /\ UNCHANGED <<row, given, excused, lost>>
    BY <1>8 DEF Saved, Stores
  <2>2. R!Keys(edit[q].v) \in Real /\ R!Keys(edit[q].v) \in R!Config /\ R!Keys(edit[q].v) # R!FromAccount
    BY TokenIsReal, Configurations
  <2> QED
    BY <1>0, <2>1, <2>2 DEF RowsInv
<1>9. CASE Deleted(q)
  <2>1. /\ row' = [row EXCEPT ![edit[q].r] = "deleted"]
        /\ excused' = excused \cup {h \in edit[q].since : R!Points(h, edit[q].r)}
        /\ UNCHANGED <<cfg, ref, given, lost>>
    BY <1>9 DEF Deleted
  <2>2. edit[q].since \subseteq R!Holders
    BY RequestTypes DEF Typed, R!TypeOK
  <2> QED
    BY <1>0, <2>1, <2>2 DEF RowsInv
<1> QED
  BY <1>2, <1>3, <1>4, <1>6, <1>7, <1>8, <1>9 DEF Step

(* What comes from outside the requests.                                   *)
LEMMA CrashDoes ==
  ASSUME ResourcesAssumption, Typed, R!Crash
  PROVE  /\ edit' = [q \in Editors |-> R!Free] /\ Asked' = Asked
         /\ UNCHANGED <<row, cfg, ref, given, excused>>
         /\ lost' = lost \/ lost' = lost \cup {"git"}
         /\ (\E q \in Editors : edit[q].pc = "save") => "git" \in lost'
<1>1. Asked' = Asked
  BY Asking DEF R!Crash
<1> QED
  BY <1>1 DEF R!Crash, R!At

LEMMA UnlinkDoes ==
  ASSUME ResourcesAssumption, Typed, NEW h \in R!Own, R!Unlink(h)
  PROVE  /\ ref' = [ref EXCEPT ![h] = Nothing] /\ excused' = excused \ {h}
         /\ Asked' = Asked + 1 /\ UNCHANGED <<row, cfg, edit, given, lost>>
<1>1. Asked' = Asked + 1
  BY DEF R!Unlink, R!Asks, Asked, Typed, R!TypeOK, ResourcesAssumption
<1> QED
  BY <1>1 DEF R!Unlink, R!Excuse

LEMMA TypedStep ==
  ASSUME ResourcesAssumption, Typed, RowsInv, [R!Next]_R!vars
  PROVE  Typed' /\ RowsInv'
<1>1. ASSUME NEW q \in Editors, Step(q), R!Next PROVE Typed' /\ RowsInv'
  BY <1>1, EditStep, RowsStep, StillTyped DEF Typed, R!TypeOK
<1>2. ASSUME NEW h \in R!Own, R!Unlink(h), R!Next PROVE Typed' /\ RowsInv'
  BY <1>2, UnlinkDoes, StillTyped DEF Typed, R!TypeOK, RowsInv
<1>3. ASSUME R!Crash, R!Next PROVE Typed' /\ RowsInv'
  <2>1. /\ edit' = [q \in Editors |-> R!Free] /\ UNCHANGED <<row, cfg, ref, given, excused>>
        /\ lost' = lost \/ lost' = lost \cup {"git"}
    BY <1>3, CrashDoes
  <2>2. edit' \in [Editors -> R!Request] /\ \A q \in Editors : Sound(edit'[q])
    BY <2>1, FreeTyped
  <2> QED
    BY <1>3, <2>1, <2>2, StillTyped DEF Typed, R!TypeOK, RowsInv, R!All
<1>4. CASE UNCHANGED R!vars
  BY <1>4 DEF R!vars, Typed, R!TypeOK, RowsInv
<1> QED
  BY <1>1, <1>2, <1>3, <1>4, ResourceSteps

(* The copies                                                              *)
LEMMA CopyKept ==
  ASSUME ResourcesAssumption, CopyInv, NEW q \in Editors, Kept(q), cfg' = cfg
  PROVE  CopyInv'
<1> SUFFICES ASSUME NEW p \in Editors, Changing(edit'[p])
             PROVE  edit'[p].stale \/ edit'[p].copy = cfg[edit'[p].r]
  BY DEF CopyInv
<1>1. p # q
  BY FreeTyped DEF Kept
<1>2. Kin(p)
  BY <1>1 DEF Kept
<1> QED
  BY <1>2 DEF Kin, CopyInv, Changing

LEMMA CopyTurned ==
  ASSUME Typed, CopyInv, NEW q \in Editors, NEW e, Turned(q, e), cfg' = cfg,
         Changing(e) => Changing(edit[q])
  PROVE  CopyInv'
<1> SUFFICES ASSUME NEW p \in Editors, Changing(edit'[p])
             PROVE  edit'[p].stale \/ edit'[p].copy = cfg[edit'[p].r]
  BY DEF CopyInv
<1>1. edit'[q] = e /\ (p # q => edit'[p] = edit[p])
  BY DEF Turned, Typed, R!TypeOK
<1>2. /\ Changing(edit[p]) /\ edit'[p].stale = edit[p].stale
      /\ edit'[p].copy = edit[p].copy /\ edit'[p].r = edit[p].r
  BY <1>1 DEF Turned
<1> QED
  BY <1>2 DEF CopyInv

LEMMA CopyStores ==
  ASSUME ResourcesAssumption, Typed, CopyInv, NEW q \in Editors, NEW r \in R!All, NEW c, Stores(q, r, c)
  PROVE  CopyInv'
<1> SUFFICES ASSUME NEW p \in Editors, Changing(edit'[p])
             PROVE  edit'[p].stale \/ edit'[p].copy = cfg'[edit'[p].r]
  BY DEF CopyInv
<1>1. p # q
  BY FreeTyped DEF Stores, Kept
<1>2. Kin(p) /\ Changing(edit[p])
  BY <1>1 DEF Stores, Kept, Kin, Changing
<1>3. edit[p].r # r => cfg'[edit[p].r] = cfg[edit[p].r]
  BY DEF Stores, Typed, R!TypeOK
<1> QED
  BY <1>1, <1>2, <1>3 DEF Kin, CopyInv, Stores

LEMMA CopyStep ==
  ASSUME ResourcesAssumption, Typed, RowsInv, CopyInv, [R!Next]_R!vars
  PROVE  CopyInv'
<1>1. ASSUME NEW q \in Editors, Step(q) PROVE CopyInv'
  <2>1. CASE Begun(q)
    <3>1. PICK new \in R!Request : /\ edit' = [edit EXCEPT ![q] = new]
                                   /\ Changing(new) => new.copy = cfg[new.r]
      BY <2>1 DEF Begun
    <3> QED
      BY <2>1, <3>1 DEF Begun, R!stored, CopyInv, Typed, R!TypeOK
  <2>2. CASE Quit(q) \/ Linked(q) \/ Deleted(q)
    BY <2>2, CopyKept DEF Quit, Linked, Deleted
  <2>3. CASE Expanded(q)
    <3>1. PICK e : /\ Turned(q, e) /\ edit[q].pc = "expand"
                   /\ e.pc = IF edit[q].copy = NoCopy THEN "insert" ELSE "write"
      BY <2>3 DEF Expanded
    <3>2. Changing(e) => Changing(edit[q])
      BY <3>1 DEF Changing, Turned
    <3> QED
      BY <2>3, <3>1, <3>2, CopyTurned DEF Expanded, R!stored
  <2>4. CASE Refreshed(q) \/ Looked(q)
    <3>1. PICK e : Turned(q, e) /\ e.pc \in {"save", "delete", "check"}
      BY <2>4 DEF Refreshed, Looked
    <3> QED
      BY <2>4, <3>1, CopyTurned DEF Refreshed, Looked, R!stored, Changing
  <2>5. CASE Inserted(q)
    BY <2>5, CopyStores DEF Inserted, R!New, R!All
  <2>6. CASE Written(q)
    BY <2>6, CopyStores DEF Written
  <2>7. CASE Saved(q)
    BY <2>7, CopyStores DEF Saved, R!All
  <2> QED
    BY <1>1, <2>1, <2>2, <2>3, <2>4, <2>5, <2>6, <2>7 DEF Step
<1>2. ASSUME NEW h \in R!Own, R!Unlink(h) PROVE CopyInv'
  BY <1>2, UnlinkDoes DEF CopyInv
<1>3. CASE R!Crash
  BY <1>3, CrashDoes, FreeTyped DEF CopyInv
<1>4. CASE UNCHANGED R!vars
  BY <1>4 DEF R!vars, CopyInv
<1> QED
  BY <1>1, <1>2, <1>3, <1>4, ResourceSteps

(* The look-ups                                                            *)
Clings(p) ==
  /\ Deleting(edit'[p]) => Deleting(edit[p]) /\ edit'[p].r = edit[p].r /\ edit'[p].n = edit[p].n
  /\ edit[p].since \subseteq edit'[p].since \/ ~ Deleting(edit'[p])

LEMMA KeptClings ==
  ASSUME ResourcesAssumption, NEW q \in Editors, Kept(q)
  PROVE  \A p \in Editors : Clings(p)
<1>1. Clings(q)
  BY FreeTyped DEF Kept, Clings
<1>2. \A p \in Editors \ {q} : Clings(p)
  BY DEF Kept, Kin, Clings, Deleting
<1> QED
  BY <1>1, <1>2

LEMMA CheckKept ==
  ASSUME CheckInv, \A p \in Editors : Clings(p),
         \A p \in Editors, h \in R!Holders, r \in R!All :
           r = edit[p].r /\ Deleting(edit[p]) /\ Deleting(edit'[p]) /\ R!Points(h, r)' =>
             R!Points(h, r) \/ h \in edit'[p].since,
         \A p \in Editors : Deleting(edit[p]) => edit[p].r \in R!All
  PROVE  CheckInv'
<1>1. ASSUME NEW p \in Editors, Deleting(edit'[p]), NEW i \in 1..7, i < edit'[p].n,
             NEW h \in R!Checks[i], NEW r \in R!All, r = edit[p].r, R!Points(h, r)'
      PROVE  h \in edit'[p].since
  <2>1. /\ Deleting(edit[p]) /\ edit'[p].n = edit[p].n
        /\ edit[p].since \subseteq edit'[p].since
    BY <1>1 DEF Clings
  <2>2. h \in R!Holders
    BY LookUps
  <2>3. R!Points(h, r) => h \in edit[p].since
    BY <1>1, <2>1 DEF CheckInv
  <2> QED
    BY <1>1, <2>1, <2>2, <2>3
<1>2. \A p \in Editors : Deleting(edit'[p]) => edit'[p].r = edit[p].r /\ edit[p].r \in R!All
  BY DEF Clings
<1> QED
  BY <1>1, <1>2 DEF CheckInv, R!Points

LEMMA PointsSame ==
  ASSUME UNCHANGED <<row, cfg, ref>>
  PROVE  \A h, r : R!Points(h, r)' <=> R!Points(h, r)
BY DEF R!Points

LEMMA CheckTurned ==
  ASSUME CheckInv, UNCHANGED <<row, cfg, ref>>, NEW q \in Editors, NEW e,
         edit'[q] = e /\ \A p \in Editors \ {q} : edit'[p] = edit[p],
         Deleting(e) => \A i \in 1..7 : i < e.n =>
           \A h \in R!Checks[i] : R!Points(h, e.r) => h \in e.since
  PROVE  CheckInv'
<1>1. ASSUME NEW p \in Editors, Deleting(edit'[p]), NEW i \in 1..7, i < edit'[p].n,
             NEW h \in R!Checks[i], R!Points(h, edit'[p].r)
      PROVE  h \in edit'[p].since
  BY <1>1 DEF CheckInv
<1> QED
  BY <1>1 DEF CheckInv, R!Points

LEMMA CheckStep ==
  ASSUME ResourcesAssumption, Typed, RowsInv, CheckInv, [R!Next]_R!vars
  PROVE  CheckInv'
<1>0. /\ \A p \in Editors : Deleting(edit[p]) => edit[p].r \in R!All
      /\ Nothing \notin R!All
      /\ edit \in [Editors -> R!Request] /\ cfg \in [R!All -> R!Config]
      /\ row \in [R!All -> {"none", "live", "deleted"}] /\ ref \in [R!Own -> R!All \cup {Nothing}]
  BY DEF Typed, Sound, Deleting, R!TypeOK, ResourcesAssumption
<1>1. ASSUME NEW q \in Editors, NEW e, Turned(q, e)
      PROVE  edit'[q] = e /\ \A p \in Editors \ {q} : edit'[p] = edit[p]
  BY <1>0, <1>1 DEF Turned
<1>3. ASSUME NEW q \in Editors, NEW r \in R!All, NEW c \in Real, Stores(q, r, c), Finds(q, r, c),
             row' = row \/ (row' = [row EXCEPT ![r] = "live"])
      PROVE  CheckInv'
  <2>1. \A p \in Editors : Clings(p)
    BY <1>3, KeptClings DEF Stores
  <2>2. ASSUME NEW p \in Editors, NEW h \in R!Holders, NEW s \in R!All, s = edit[p].r,
               Deleting(edit[p]), Deleting(edit'[p]), R!Points(h, s)'
        PROVE  R!Points(h, s) \/ h \in edit'[p].since
    <3>1. p # q
      BY <1>3, <2>2, FreeTyped DEF Stores, Kept
    <3>2. CASE h \notin R!Derived
      BY <1>3, <2>2, <3>2 DEF R!Points, Stores
    <3>3. CASE h \in R!Derived /\ h # r
      <4>1. h \in R!All
        BY <3>3 DEF R!Derived, R!All
      <4>2. cfg'[h] = cfg[h] /\ row'[h] = row[h]
        BY <1>0, <1>3, <3>3, <4>1 DEF Stores
      <4> QED
        BY <2>2, <3>3, <4>2 DEF R!Points
    <3>4. CASE h \in R!Derived /\ h = r
      <4>1. cfg'[r] = c
        BY <1>0, <1>3 DEF Stores
      <4>2. c.acct = s /\ s # Nothing
        BY <1>0, <2>2, <3>4, <4>1 DEF R!Points
      <4> QED
        BY <1>3, <2>2, <3>1, <3>4, <4>2 DEF Finds
    <3> QED
      BY <3>2, <3>3, <3>4
  <2> QED
    BY <1>0, <2>1, <2>2, CheckKept
<1>4. ASSUME NEW q \in Editors, Step(q) PROVE CheckInv'
  <2>1. CASE Begun(q)
    <3>1. PICK new \in R!Request : edit' = [edit EXCEPT ![q] = new] /\ new.n = 1
      BY <2>1 DEF Begun
    <3>2. UNCHANGED <<row, cfg, ref>>
      BY <2>1 DEF Begun, R!stored
    <3>3. edit'[q] = new /\ \A p \in Editors \ {q} : edit'[p] = edit[p]
      BY <1>0, <3>1
    <3> QED
      BY <3>1, <3>2, <3>3, CheckTurned
  <2>2. CASE Quit(q)
    <3>1. \A p \in Editors : Clings(p)
      BY <2>2, KeptClings DEF Quit
    <3>2. \A h, r : R!Points(h, r)' <=> R!Points(h, r)
      BY <2>2, PointsSame DEF Quit
    <3> QED
      BY <1>0, <3>1, <3>2, CheckKept
  <2>3. CASE Expanded(q)
    <3>1. PICK e : Turned(q, e) /\ e.pc \in {"insert", "write"} /\ UNCHANGED <<row, cfg, ref>>
      BY <2>3 DEF Expanded, R!stored
    <3> QED
      BY <1>1, <3>1, CheckTurned DEF Deleting
  <2>4. CASE Refreshed(q)
    <3>1. PICK e : Turned(q, e) /\ e.pc = "save" /\ UNCHANGED <<row, cfg, ref>>
      BY <2>4 DEF Refreshed
    <3> QED
      BY <1>1, <3>1, CheckTurned DEF Deleting
  <2>5. CASE Looked(q)
    <3>1. PICK e : /\ Turned(q, e) /\ edit[q].pc = "check" /\ UNCHANGED <<row, cfg, ref>>
                   /\ e.n = edit[q].n + 1
                   /\ \A h \in R!Checks[edit[q].n] : R!Points(h, edit[q].r) => h \in e.since
      BY <2>5 DEF Looked, R!stored
    <3>2. edit[q].n \in 1..7
      BY <3>1 DEF Typed, Sound
    <3>3. \A i \in 1..7 : i < e.n => i < edit[q].n \/ i = edit[q].n
      BY <3>1, <3>2
    <3>4. \A i \in 1..7 : i < edit[q].n =>
            \A h \in R!Checks[i] : R!Points(h, edit[q].r) => h \in edit[q].since
      BY <3>1 DEF CheckInv, Deleting
    <3>5. \A i \in 1..7 : i < e.n => \A h \in R!Checks[i] : R!Points(h, e.r) => h \in e.since
      BY <3>1, <3>3, <3>4 DEF Turned
    <3> QED
      BY <1>1, <3>1, <3>5, CheckTurned
  <2>6. CASE Linked(q)
    <3>1. PICK h \in R!Own, r \in R!All :
            /\ Kept(q) /\ ref' = [ref EXCEPT ![h] = r] /\ UNCHANGED <<row, cfg>>
            /\ \A p \in Editors \ {q} : Deleting(edit[p]) /\ edit[p].r = r => h \in edit'[p].since
      BY <2>6, ZenonT(60) DEF Linked
    <3>2. \A p \in Editors : Clings(p)
      BY <3>1, KeptClings
    <3>3. ASSUME NEW p \in Editors, NEW g \in R!Holders, NEW s \in R!All, s = edit[p].r,
                 Deleting(edit[p]), Deleting(edit'[p]), R!Points(g, s)'
          PROVE  R!Points(g, s) \/ g \in edit'[p].since
      <4>1. p # q
        BY <3>1, <3>3, FreeTyped DEF Kept
      <4>2. R!Points(g, s) \/ (g = h /\ s = r)
        BY <1>0, <3>1, <3>3 DEF R!Points, R!Holders
      <4> QED
        BY <3>1, <3>3, <4>1, <4>2
    <3> QED
      BY <1>0, <3>2, <3>3, CheckKept
  <2>7. CASE Inserted(q)
    BY <1>3, <2>7 DEF Inserted, R!New, R!All
  <2>8. CASE Written(q)
    BY <1>3, <2>8 DEF Written
  <2>9. CASE Saved(q)
    <3>1. \A p \in Editors : Clings(p)
      BY <2>9, KeptClings DEF Saved, Stores
    <3>2. ref' = ref /\ row' = row /\ \A r \in R!Derived : cfg'[r] = cfg[r]
      BY <1>0, <2>9 DEF Saved, Stores, R!Derived, R!All
    <3>3. \A h, r : R!Points(h, r)' <=> R!Points(h, r)
      BY <3>2 DEF R!Points
    <3> QED
      BY <1>0, <3>1, <3>3, CheckKept
  <2>10. CASE Deleted(q)
    <3>1. \A p \in Editors : Clings(p)
      BY <2>10, KeptClings DEF Deleted
    <3>2. /\ UNCHANGED <<cfg, ref>> /\ row' = [row EXCEPT ![edit[q].r] = "deleted"]
      BY <2>10 DEF Deleted
    <3>3. \A r \in R!Derived : row'[r] = "live" => row[r] = "live"
      BY <1>0, <3>2 DEF R!Derived, R!All
    <3>4. \A h, r : R!Points(h, r)' => R!Points(h, r)
      BY <3>2, <3>3 DEF R!Points
    <3> QED
      BY <1>0, <3>1, <3>4, CheckKept
  <2> QED
    BY <1>4, <2>1, <2>2, <2>3, <2>4, <2>5, <2>6, <2>7, <2>8, <2>9, <2>10 DEF Step
<1>5. ASSUME NEW h \in R!Own, R!Unlink(h) PROVE CheckInv'
  <2>1. ref' = [ref EXCEPT ![h] = Nothing] /\ UNCHANGED <<row, cfg, edit>>
    BY <1>5, UnlinkDoes
  <2>2. \A g \in R!Holders, s \in R!All : R!Points(g, s)' => R!Points(g, s)
    BY <1>0, <2>1 DEF R!Points, R!Holders
  <2>3. \A p \in Editors : Clings(p)
    BY <2>1 DEF Clings
  <2> QED
    BY <1>0, <2>2, <2>3, CheckKept
<1>6. CASE R!Crash
  BY <1>6, CrashDoes, FreeTyped DEF CheckInv
<1>7. CASE UNCHANGED R!vars
  <2>1. UNCHANGED <<row, cfg, ref, edit>>
    BY <1>7 DEF R!vars
  <2>2. \A h, r : R!Points(h, r)' <=> R!Points(h, r)
    BY <2>1, PointsSame
  <2>3. \A p \in Editors : Clings(p)
    BY <2>1 DEF Clings
  <2> QED
    BY <1>0, <2>2, <2>3, CheckKept
<1> QED
  BY <1>4, <1>5, <1>6, <1>7, ResourceSteps

(* What is in use, in two parts.                                           *)
OwnInUse == \A h \in R!Own, r \in R!All :
  ref[h] = r /\ row[r] # "live" => h \in R!Unguarded \cup excused
DerivedInUse == \A r \in R!Derived :
  row[r] = "live" => cfg[r].acct = Nothing \/ row[cfg[r].acct] = "live" \/ r \in excused

LEMMA InUseParts == InUseIsKept <=> OwnInUse /\ DerivedInUse
<1>1. \A h \in R!Own : h \notin R!Derived
  BY DEF R!Own, R!Derived
<1> QED
  BY <1>1 DEF InUseIsKept, R!InUseIsKept, OwnInUse, DerivedInUse, R!Points, R!Resolves

LEMMA InUseSame ==
  ASSUME OwnInUse /\ DerivedInUse, UNCHANGED <<row, cfg, ref, excused>>
  PROVE  (OwnInUse /\ DerivedInUse)'
BY DEF OwnInUse, DerivedInUse

LEMMA InUseStep ==
  ASSUME ResourcesAssumption, Typed, RowsInv, CheckInv, OwnInUse, DerivedInUse, [R!Next]_R!vars
  PROVE  (OwnInUse /\ DerivedInUse)'
<1>0. /\ edit \in [Editors -> R!Request] /\ cfg \in [R!All -> R!Config]
      /\ row \in [R!All -> {"none", "live", "deleted"}] /\ ref \in [R!Own -> R!All \cup {Nothing}]
      /\ Nothing \notin R!All /\ R!Derived \subseteq R!All /\ R!Own \cap R!Derived = {}
      /\ \A r \in R!All : cfg[r].acct # Nothing => cfg[r].acct = "account"
      /\ "account" \in R!All /\ "account" \notin R!Derived
      /\ "account" \notin R!New
  BY ZenonT(60) DEF Typed, R!TypeOK, R!Config, ResourcesAssumption, R!Derived, R!All, R!Own, R!New
<1>3. ASSUME NEW q \in Editors, NEW r \in R!All, NEW c \in Real, Stores(q, r, c), Finds(q, r, c),
             row' = row \/ (r \in R!New /\ row[r] = "none" /\ row' = [row EXCEPT ![r] = "live"])
      PROVE  (OwnInUse /\ DerivedInUse)'
  <2>1. ref' = ref /\ cfg' = [cfg EXCEPT ![r] = c] /\ \A s \in R!All : row[s] = "live" => row'[s] = "live"
    BY <1>0, <1>3 DEF Stores
  <2>2. excused' \cup {r} = excused \cup {r} /\ (r \notin R!Derived => excused \ {r} \subseteq excused')
    BY <1>3 DEF Finds
  <2>3. OwnInUse'
    <3> SUFFICES ASSUME NEW h \in R!Own, NEW s \in R!All, ref'[h] = s, row'[s] # "live"
                 PROVE  h \in R!Unguarded \cup excused'
      BY DEF OwnInUse
    <3>1. h \in R!Unguarded \cup excused
      BY <2>1 DEF OwnInUse
    <3>2. h # r
      BY DEF R!Own, R!All
    <3> QED
      BY <2>2, <3>1, <3>2
  <2>4. DerivedInUse'
    <3> SUFFICES ASSUME NEW s \in R!Derived, row'[s] = "live", cfg'[s].acct # Nothing,
                        row'[cfg'[s].acct] # "live"
                 PROVE  s \in excused'
      BY DEF DerivedInUse
    <3>1. CASE s = r
      <4>1. cfg'[s] = c /\ c.acct # Nothing
        BY <1>0, <2>1, <3>1
      <4>2. c = R!FromAccount /\ c.acct = "account"
        BY <4>1, Configurations
      <4>3. row[c.acct] # "live"
        BY <1>0, <2>1, <4>1, <4>2
      <4> QED
        BY <1>3, <3>1, <4>1, <4>3 DEF Finds
    <3>2. CASE s # r
      <4>1. cfg'[s] = cfg[s] /\ row'[s] = row[s] /\ cfg[s].acct = "account"
        BY <1>0, <1>3, <2>1, <3>2
      <4>2. row["account"] # "live"
        BY <1>0, <2>1, <4>1
      <4> QED
        BY <1>0, <2>2, <3>2, <4>1, <4>2 DEF DerivedInUse
    <3> QED
      BY <3>1, <3>2
  <2> QED
    BY <2>3, <2>4
<1>4. ASSUME NEW q \in Editors, Step(q) PROVE (OwnInUse /\ DerivedInUse)'
  <2>1. CASE Begun(q) \/ Quit(q) \/ Expanded(q) \/ Refreshed(q) \/ Looked(q)
    BY <2>1, InUseSame DEF Begun, Quit, Expanded, Refreshed, Looked, R!stored
  <2>2. CASE Linked(q)
    <3>1. PICK h \in R!Own, r \in R!All :
            /\ ref' = [ref EXCEPT ![h] = r] /\ UNCHANGED <<row, cfg>>
            /\ excused' = IF row[r] # "live" THEN excused \cup {h} ELSE excused \ {h}
      BY <2>2 DEF Linked
    <3>2. OwnInUse'
      BY <1>0, <3>1 DEF OwnInUse
    <3>3. DerivedInUse'
      BY <1>0, <3>1 DEF DerivedInUse
    <3> QED
      BY <3>2, <3>3
  <2>3. CASE Inserted(q)
    BY <1>3, <2>3 DEF Inserted, R!New, R!All
  <2>4. CASE Written(q)
    BY <1>3, <2>4 DEF Written
  <2>5. CASE Saved(q)
    <3>1. UNCHANGED <<row, ref, excused>> /\ \A r \in R!Derived : cfg'[r] = cfg[r]
      BY <1>0, <2>5 DEF Saved, Stores, R!Derived
    <3> QED
      BY <3>1 DEF OwnInUse, DerivedInUse
  <2>6. CASE Deleted(q)
    <3>1. PICK r : r = edit[q].r
      OBVIOUS
    <3>2. /\ row' = [row EXCEPT ![r] = "deleted"] /\ UNCHANGED <<cfg, ref>>
          /\ excused' = excused \cup {h \in edit[q].since : R!Points(h, r)}
          /\ edit[q].pc = "delete" /\ r \in R!All /\ edit[q].n = 8
      BY <2>6, <3>1 DEF Deleted, Typed, Sound
    <3>3. \A h \in R!Holders \ R!Unguarded : R!Points(h, r) => h \in excused'
      <4> SUFFICES ASSUME NEW h \in R!Holders \ R!Unguarded, R!Points(h, r) PROVE h \in edit[q].since
        BY <3>2
      <4>1. PICK i \in 1..7 : h \in R!Checks[i]
        BY LookUps
      <4> QED
        BY <3>1, <3>2, <4>1 DEF CheckInv, Deleting
    <3>4. OwnInUse'
      <4> SUFFICES ASSUME NEW h \in R!Own, NEW s \in R!All, ref[h] = s, row'[s] # "live", h \notin R!Unguarded
                   PROVE  h \in excused'
        BY <3>2 DEF OwnInUse
      <4>1. CASE s = r
        BY <1>0, <3>3, <4>1 DEF R!Points, R!Holders
      <4>2. CASE s # r
        BY <1>0, <3>2, <4>2 DEF OwnInUse
      <4> QED
        BY <4>1, <4>2
    <3>5. DerivedInUse'
      <4> SUFFICES ASSUME NEW s \in R!Derived, row'[s] = "live", cfg[s].acct # Nothing,
                          row'[cfg[s].acct] # "live"
                   PROVE  s \in excused'
        BY <3>2 DEF DerivedInUse
      <4>1. row[s] = "live" /\ s \in R!Holders \ R!Unguarded
        BY <1>0, <3>2 DEF R!Holders, R!Derived, R!Unguarded
      <4>2. CASE cfg[s].acct = r
        BY <3>3, <4>1, <4>2 DEF R!Points
      <4>3. CASE cfg[s].acct # r
        <5>1. row[cfg[s].acct] # "live"
          BY <1>0, <3>2, <4>3
        <5> QED
          BY <3>2, <4>1, <5>1 DEF DerivedInUse
      <4> QED
        BY <4>2, <4>3
    <3> QED
      BY <3>4, <3>5
  <2> QED
    BY <1>4, <2>1, <2>2, <2>3, <2>4, <2>5, <2>6 DEF Step
<1>5. ASSUME NEW h \in R!Own, R!Unlink(h) PROVE (OwnInUse /\ DerivedInUse)'
  <2>1. ref' = [ref EXCEPT ![h] = Nothing] /\ UNCHANGED <<row, cfg>> /\ excused' = excused \ {h}
    BY <1>5, UnlinkDoes
  <2>2. OwnInUse'
    BY <1>0, <2>1 DEF OwnInUse
  <2>3. DerivedInUse'
    BY <1>0, <2>1 DEF DerivedInUse
  <2> QED
    BY <2>2, <2>3
<1>6. CASE R!Crash
  BY <1>6, CrashDoes, InUseSame
<1>7. CASE UNCHANGED R!vars
  BY <1>7, InUseSame DEF R!vars
<1> QED
  BY <1>4, <1>5, <1>6, <1>7, ResourceSteps

(* The tokens.  Each part of TokenInv by itself, for a key that may be the *)
(* token a request holds.                                                  *)
Unseen(q) ==
  /\ edit[q].v \in 1..Asked /\ cfg["git"] # R!Keys(edit[q].v)
  /\ \A p \in Editors : OfGit(edit[p]) => edit[p].copy # R!Keys(edit[q].v)
  /\ \A p \in Editors : Listing(edit[p]) /\ edit[p].v = edit[q].v => p = q
  /\ edit[q].pc = "refresh" => given["git"] # R!Keys(edit[q].v)
  /\ edit[q].pc = "save" => given["git"] = R!Keys(edit[q].v) \/ "git" \in lost

LEMMA TokenParts ==
  TokenInv <=> /\ cfg["git"] \in Tokens /\ given["git"] \in Tokens
               /\ \A q \in Editors : OfGit(edit[q]) => edit[q].copy \in Tokens
               /\ \A q \in Editors : Listing(edit[q]) => Unseen(q)
BY DEF TokenInv, Unseen

(* Nothing new about git's row but what a request may take along.          *)
Falls(p) ==
  /\ OfGit(edit'[p]) => OfGit(edit[p]) /\ edit'[p].copy = edit[p].copy
  /\ Listing(edit'[p]) => edit'[p].pc = edit[p].pc /\ edit'[p].v = edit[p].v

LEMMA KeptFalls ==
  ASSUME ResourcesAssumption, NEW q \in Editors, Kept(q)
  PROVE  \A p \in Editors : Falls(p)
<1>1. Falls(q)
  BY FreeTyped DEF Kept, Falls
<1>2. \A p \in Editors \ {q} : Falls(p)
  BY DEF Kept, Kin, Falls, OfGit, Listing
<1> QED
  BY <1>1, <1>2

LEMMA TokenKept ==
  ASSUME TokenInv, Asked' = Asked, given'["git"] = given["git"],
         "git" \in lost => "git" \in lost',
         cfg'["git"] = cfg["git"] \/ \E p \in Editors : OfGit(edit[p]) /\ cfg'["git"] = edit[p].copy,
         \A p \in Editors : Falls(p)
  PROVE  TokenInv'
<1>1. Tokens' = Tokens
  BY DEF Tokens, R!Keys
<1>2. cfg'["git"] \in Tokens /\ given'["git"] \in Tokens
  BY DEF TokenInv
<1>3. \A q \in Editors : OfGit(edit'[q]) => edit'[q].copy \in Tokens
  BY DEF TokenInv, Falls
<1>4. ASSUME NEW q \in Editors, Listing(edit'[q]) PROVE Unseen(q)'
  <2>1. Listing(edit[q]) /\ edit'[q].pc = edit[q].pc /\ edit'[q].v = edit[q].v
    BY <1>4 DEF Falls, Listing
  <2>2. Unseen(q)
    BY <2>1, TokenParts
  <2>3. PICK v : v = edit[q].v
    OBVIOUS
  <2>4. cfg'["git"] # R!Keys(v)
    BY <2>2, <2>3 DEF Unseen
  <2>5. \A p \in Editors : OfGit(edit'[p]) => edit'[p].copy # R!Keys(v)
    BY <2>2, <2>3 DEF Unseen, Falls
  <2>6. \A p \in Editors : Listing(edit'[p]) /\ edit'[p].v = v => p = q
    BY <2>2, <2>3 DEF Unseen, Falls, Listing
  <2> QED
    BY <2>1, <2>2, <2>3, <2>4, <2>5, <2>6 DEF Unseen, R!Keys
<1> QED
  BY <1>1, <1>2, <1>3, <1>4 DEF TokenInv, Unseen

LEMMA TokenStep ==
  ASSUME ResourcesAssumption, Typed, RowsInv, TokenInv, [R!Next]_R!vars
  PROVE  TokenInv'
<1>0. /\ edit \in [Editors -> R!Request] /\ cfg \in [R!All -> R!Config] /\ given \in [R!All -> R!Config]
      /\ "git" \in R!All /\ "git" \notin R!New /\ Asked \in 0..ResourceOps /\ ResourceOps \in Nat
      /\ \A j, k : R!Keys(j) = R!Keys(k) => j = k
  BY Configurations DEF Typed, R!TypeOK, R!All, R!New, Asked, ResourcesAssumption
<1>1. ASSUME Asked' = Asked + 1, cfg' = cfg, given' = given, lost' = lost,
             NEW q \in Editors, NEW new, edit' = [edit EXCEPT ![q] = new],
             OfGit(new) => (new.copy = cfg["git"] \/ (OfGit(edit[q]) /\ new.copy = edit[q].copy)),
             Listing(new) => \/ new.pc = "refresh" /\ new.v = Asked + 1
                             \/ new.pc = edit[q].pc /\ new.v = edit[q].v
      PROVE  TokenInv'
  <2>1. Tokens \subseteq Tokens'
    BY <1>0, <1>1 DEF Tokens, R!Keys
  <2>2. R!Keys(Asked + 1) \notin Tokens
    <3>1. PICK a : a = Asked + 1
      OBVIOUS
    <3>2. \A k \in 0..Asked : k # a
      BY <1>0, <3>1
    <3> QED
      BY <1>0, <3>1, <3>2 DEF Tokens
  <2>3. \A p \in Editors : edit'[p] = IF p = q THEN new ELSE edit[p]
    BY <1>0, <1>1
  <2>4. \A p \in Editors : OfGit(edit'[p]) => edit'[p].copy \in Tokens
    BY <1>1, <2>3 DEF TokenInv
  <2>5. ASSUME NEW p \in Editors, Listing(edit[p]) PROVE edit[p].v \in 1..Asked /\ edit[p].v # Asked + 1
    <3>1. edit[p].v \in 1..Asked
      BY <2>5 DEF TokenInv
    <3> QED
      BY <1>0, <3>1
  <2>6. ASSUME NEW p \in Editors, Listing(edit'[p]) PROVE Unseen(p)'
    <3>1. PICK v : v = edit'[p].v
      OBVIOUS
    <3>2. CASE p = q /\ new.pc = "refresh" /\ new.v = Asked + 1
      <4>1. v = Asked + 1 /\ v \in 1..Asked' /\ edit'[p].pc = "refresh"
        BY <1>0, <1>1, <2>3, <3>1, <3>2
      <4>2. cfg["git"] # R!Keys(v) /\ given["git"] # R!Keys(v)
        BY <2>2, <4>1 DEF TokenInv
      <4>3. \A r \in Editors : OfGit(edit'[r]) => edit'[r].copy # R!Keys(v)
        BY <2>2, <2>4, <4>1
      <4>4. \A r \in Editors : Listing(edit'[r]) /\ edit'[r].v = v => r = p
        BY <2>3, <2>5, <3>2, <4>1
      <4> QED
        BY <1>1, <3>1, <4>1, <4>2, <4>3, <4>4 DEF Unseen, R!Keys
    <3>3. CASE edit'[p].pc = edit[p].pc /\ edit'[p].v = edit[p].v
      <4>1. Listing(edit[p]) /\ v = edit[p].v
        BY <2>6, <3>1, <3>3 DEF Listing
      <4>2. Unseen(p)
        BY <4>1, TokenParts
      <4>3. v \in 1..Asked' /\ v # Asked + 1
        BY <1>0, <1>1, <2>5, <4>1
      <4>4. \A r \in Editors : OfGit(edit'[r]) => edit'[r].copy # R!Keys(v)
        BY <1>1, <2>3, <4>1, <4>2 DEF Unseen
      <4>5. \A r \in Editors : Listing(edit'[r]) /\ edit'[r].v = v => r = p
        <5> SUFFICES ASSUME NEW r \in Editors, Listing(edit'[r]), edit'[r].v = v PROVE r = p
          OBVIOUS
        <5>1. Listing(edit[r]) /\ edit[r].v = v
          BY <1>1, <2>3, <4>3 DEF Listing
        <5> QED
          BY <4>1, <4>2, <5>1 DEF Unseen
      <4> QED
        BY <1>1, <3>1, <3>3, <4>1, <4>2, <4>3, <4>4, <4>5 DEF Unseen, R!Keys
    <3> QED
      BY <1>1, <2>3, <2>6, <3>2, <3>3
  <2>7. cfg'["git"] \in Tokens' /\ given'["git"] \in Tokens'
    BY <1>1, <2>1 DEF TokenInv
  <2>8. \A p \in Editors : OfGit(edit'[p]) => edit'[p].copy \in Tokens'
    BY <2>1, <2>4
  <2> QED
    BY <2>6, <2>7, <2>8 DEF TokenInv, Unseen
<1>2. ASSUME NEW q \in Editors, Step(q) PROVE TokenInv'
  <2>1. CASE Begun(q)
    <3>1. PICK new \in R!Request :
            /\ edit' = [edit EXCEPT ![q] = new] /\ (OfGit(new) => new.copy = cfg["git"])
            /\ Listing(new) => new.pc = "refresh" /\ new.v = Asked + 1
            /\ Asked' = Asked + 1 /\ UNCHANGED R!stored
      BY <2>1 DEF Begun
    <3>2. cfg' = cfg /\ given' = given /\ lost' = lost
      BY <3>1 DEF R!stored
    <3> QED
      BY <1>1, <3>1, <3>2
  <2>2. CASE Quit(q) \/ Linked(q) \/ Deleted(q)
    <3>1. /\ Kept(q) /\ Asked' = Asked /\ cfg' = cfg /\ given' = given
          /\ "git" \in lost => "git" \in lost'
      BY <2>2 DEF Quit, Linked, Deleted, Kept
    <3> QED
      BY <3>1, KeptFalls, TokenKept
  <2>3. ASSUME NEW e, Turned(q, e), ~ Listing(e), OfGit(e) => OfGit(edit[q]), UNCHANGED R!stored
        PROVE  TokenInv'
    <3>1. \A p \in Editors : Falls(p)
      BY <1>0, <2>3 DEF Turned, Falls
    <3> QED
      BY <2>3, <3>1, TokenKept DEF Turned, R!stored
  <2>4. CASE Expanded(q)
    <3>1. PICK e : Turned(q, e) /\ edit[q].pc = "expand" /\ e.pc \in {"insert", "write"} /\ UNCHANGED R!stored
      BY <2>4 DEF Expanded
    <3>2. edit[q].r # "git"
      BY <3>1 DEF Typed, Sound, R!Derived
    <3> QED
      BY <2>3, <3>1, <3>2 DEF Listing, OfGit, Turned
  <2>5. CASE Looked(q)
    <3>1. PICK e : Turned(q, e) /\ e.pc \in {"check", "delete"} /\ UNCHANGED R!stored
      BY <2>5 DEF Looked
    <3> QED
      BY <2>3, <3>1 DEF Listing, OfGit
  <2>6. CASE Refreshed(q)
    <3>1. PICK e, v :
            /\ Turned(q, e) /\ edit[q].pc = "refresh" /\ e.pc = "save" /\ v = edit[q].v
            /\ edit[q].copy = given["git"] /\ given' = [given EXCEPT !["git"] = R!Keys(edit[q].v)]
            /\ UNCHANGED <<row, cfg, ref, excused, lost>>
      BY <2>6 DEF Refreshed
    <3>2. /\ edit[q].r = "git" /\ Unseen(q) /\ v \in 1..Asked /\ Asked' = Asked
          /\ e.v = v /\ e.r = "git" /\ e.copy = edit[q].copy
      BY <3>1, TokenParts DEF Typed, Sound, Listing, Unseen, Turned
    <3>3. given'["git"] = R!Keys(v) /\ Tokens' = Tokens /\ R!Keys(v) \in Tokens
      <4>1. given'["git"] = R!Keys(v)
        BY <1>0, <3>1
      <4>2. Tokens' = Tokens /\ v \in 0..Asked
        BY <1>0, <3>2 DEF Tokens, R!Keys
      <4> QED
        BY <4>1, <4>2 DEF Tokens
    <3>4. \A p \in Editors : edit'[p] = IF p = q THEN e ELSE edit[p]
      BY <1>0, <3>1 DEF Turned
    <3>5. \A p \in Editors : OfGit(edit'[p]) => OfGit(edit[p]) /\ edit'[p].copy = edit[p].copy
      BY <3>1, <3>2, <3>4 DEF OfGit
    <3>6. ASSUME NEW p \in Editors, Listing(edit'[p]) PROVE Unseen(p)'
      <4>1. PICK w : w = edit[p].v
        OBVIOUS
      <4>2. Listing(edit[p]) /\ edit'[p].v = w /\ Unseen(p)
        BY <3>1, <3>2, <3>4, <3>6, <4>1, TokenParts DEF Listing
      <4>3. \A r \in Editors : OfGit(edit'[r]) => edit'[r].copy # R!Keys(w)
        BY <3>5, <4>1, <4>2 DEF Unseen
      <4>4. \A r \in Editors : Listing(edit'[r]) /\ edit'[r].v = w => r = p
        <5> SUFFICES ASSUME NEW r \in Editors, Listing(edit'[r]), edit'[r].v = w PROVE r = p
          OBVIOUS
        <5>1. Listing(edit[r]) /\ edit[r].v = w
          BY <3>1, <3>2, <3>4 DEF Listing
        <5> QED
          BY <4>1, <4>2, <5>1 DEF Unseen
      <4>5. CASE p = q
        <5>1. edit'[p].pc = "save" /\ given'["git"] = R!Keys(w)
          BY <3>1, <3>3, <3>4, <4>1, <4>5
        <5> QED
          BY <3>1, <3>2, <4>1, <4>2, <4>3, <4>4, <5>1 DEF Unseen, R!Keys
      <4>6. CASE p # q
        <5>1. edit'[p].pc = edit[p].pc /\ w # v
          BY <3>1, <3>2, <3>4, <4>1, <4>2, <4>6 DEF Unseen, Listing
        <5>2. given'["git"] # R!Keys(w)
          BY <1>0, <3>3, <5>1
        <5>3. edit[p].pc = "save" => "git" \in lost
          <6>1. OfGit(edit[q]) /\ edit[q].copy # R!Keys(w)
            BY <3>1, <3>2, <4>1, <4>2 DEF OfGit, Unseen
          <6> QED
            BY <3>1, <4>1, <4>2, <6>1 DEF Unseen
        <5> QED
          BY <3>1, <3>2, <4>1, <4>2, <4>3, <4>4, <5>1, <5>2, <5>3 DEF Unseen, R!Keys
      <4> QED
        BY <4>5, <4>6
    <3>7. \A p \in Editors : OfGit(edit'[p]) => edit'[p].copy \in Tokens
      BY <3>5 DEF TokenInv
    <3>8. cfg'["git"] \in Tokens
      BY <3>1 DEF TokenInv
    <3> QED
      BY <3>3, <3>6, <3>7, <3>8 DEF TokenInv, Unseen
  <2>7. CASE Inserted(q)
    <3>1. PICK r \in R!New, c \in Real : Stores(q, r, c) /\ given' = [given EXCEPT ![r] = c] /\ lost' = lost
      BY <2>7 DEF Inserted
    <3>2. r # "git" /\ cfg'["git"] = cfg["git"] /\ given'["git"] = given["git"] /\ Asked' = Asked
      BY <1>0, <3>1 DEF Stores, Kept
    <3>3. \A p \in Editors : Falls(p)
      BY <3>1, KeptFalls DEF Stores
    <3> QED
      BY <3>1, <3>2, <3>3, TokenKept
  <2>8. CASE Written(q)
    <3>1. PICK r \in R!All, c \in Real :
            /\ Stores(q, r, c) /\ r = edit[q].r /\ edit[q].pc = "write"
            /\ \/ r # "git" /\ given' = [given EXCEPT ![r] = c] /\ lost' = lost \ {r}
               \/ /\ c = edit[q].copy /\ given' = given
                  /\ lost' = IF edit[q].stale THEN lost \cup {r} ELSE lost
      BY <2>8 DEF Written
    <3>2. given'["git"] = given["git"] /\ ("git" \in lost => "git" \in lost') /\ Asked' = Asked
      BY <1>0, <3>1 DEF Stores, Kept
    <3>3. cfg'["git"] = cfg["git"] \/ (OfGit(edit[q]) /\ cfg'["git"] = edit[q].copy)
      BY <1>0, <3>1 DEF Stores, OfGit
    <3>4. \A p \in Editors : Falls(p)
      BY <3>1, KeptFalls DEF Stores
    <3> QED
      BY <3>2, <3>3, <3>4, TokenKept
  <2>9. CASE Saved(q)
    <3>1. PICK v : v = edit[q].v
      OBVIOUS
    <3>2. /\ Kept(q) /\ cfg' = [cfg EXCEPT !["git"] = R!Keys(v)] /\ UNCHANGED <<given, lost>>
          /\ edit[q].pc = "save" /\ Asked' = Asked
      BY <2>9, <3>1 DEF Saved, Stores, Kept
    <3>3. Unseen(q) /\ v \in 1..Asked
      BY <3>1, <3>2, TokenParts DEF Listing, Unseen
    <3>4. cfg'["git"] = R!Keys(v) /\ Tokens' = Tokens /\ R!Keys(v) \in Tokens
      <4>1. cfg'["git"] = R!Keys(v)
        BY <1>0, <3>2
      <4>2. Tokens' = Tokens /\ v \in 0..Asked
        BY <1>0, <3>2, <3>3 DEF Tokens, R!Keys
      <4> QED
        BY <4>1, <4>2 DEF Tokens
    <3>5. edit'[q] = R!Free /\ \A p \in Editors : Falls(p)
      BY <3>2, KeptFalls DEF Kept
    <3>6. ASSUME NEW p \in Editors, Listing(edit'[p]) PROVE Unseen(p)'
      <4>1. PICK w : w = edit[p].v
        OBVIOUS
      <4>2. p # q /\ Listing(edit[p]) /\ edit'[p].v = w /\ edit'[p].pc = edit[p].pc /\ Unseen(p)
        BY <3>5, <3>6, <4>1, FreeTyped, TokenParts DEF Falls, Listing
      <4>3. \A r \in Editors : OfGit(edit'[r]) => edit'[r].copy # R!Keys(w)
        BY <3>5, <4>1, <4>2 DEF Unseen, Falls
      <4>4. \A r \in Editors : Listing(edit'[r]) /\ edit'[r].v = w => r = p
        BY <3>5, <4>1, <4>2 DEF Unseen, Falls, Listing
      <4>5. w # v /\ cfg'["git"] # R!Keys(w)
        BY <1>0, <3>1, <3>2, <3>4, <4>1, <4>2 DEF Unseen, Listing
      <4> QED
        BY <3>2, <4>1, <4>2, <4>3, <4>4, <4>5 DEF Unseen, R!Keys
    <3>7. \A p \in Editors : OfGit(edit'[p]) => edit'[p].copy \in Tokens
      BY <3>5 DEF TokenInv, Falls
    <3>8. given'["git"] \in Tokens
      BY <3>2 DEF TokenInv
    <3> QED
      BY <3>4, <3>6, <3>7, <3>8 DEF TokenInv, Unseen
  <2> QED
    BY <1>2, <2>1, <2>2, <2>4, <2>5, <2>6, <2>7, <2>8, <2>9 DEF Step
<1>3. ASSUME NEW h \in R!Own, R!Unlink(h) PROVE TokenInv'
  <2>1. Asked' = Asked + 1 /\ UNCHANGED <<row, cfg, edit, given, lost>>
    BY <1>3, UnlinkDoes
  <2>2. CASE Editors = {}
    BY <1>0, <2>1, <2>2 DEF TokenInv, Tokens, R!Keys
  <2>3. ASSUME NEW q \in Editors PROVE TokenInv'
    <3>1. PICK new : new = edit[q]
      OBVIOUS
    <3>2. edit' = [edit EXCEPT ![q] = new]
      BY <1>0, <2>1, <3>1
    <3> QED
      BY <1>1, <2>1, <3>1, <3>2
  <2> QED
    BY <2>2, <2>3
<1>4. CASE R!Crash
  <2>1. /\ edit' = [q \in Editors |-> R!Free] /\ Asked' = Asked /\ UNCHANGED <<row, cfg, ref, given, excused>>
        /\ "git" \in lost => "git" \in lost'
    BY <1>4, CrashDoes
  <2>2. \A p \in Editors : Falls(p)
    BY <2>1, FreeTyped DEF Falls
  <2> QED
    BY <2>1, <2>2, TokenKept
<1>5. CASE UNCHANGED R!vars
  <2>1. UNCHANGED <<cfg, edit, given, lost, still>>
    BY <1>5 DEF R!vars
  <2>2. Asked' = Asked /\ \A p \in Editors : Falls(p)
    BY <2>1 DEF Asked, Falls
  <2> QED
    BY <2>1, <2>2, TokenKept
<1> QED
  BY <1>2, <1>3, <1>4, <1>5, ResourceSteps

(* The secrets                                                             *)
LEMMA SecretHolds ==
  SecretIsKept <=> \A r \in R!All : row[r] = "live" /\ cfg[r] # given[r] =>
                     r \in lost \/ (r = "git" /\ \E q \in Editors : edit[q].pc = "save")
BY DEF SecretIsKept, R!SecretIsKept, R!At

LEMMA SecretSame ==
  ASSUME SecretIsKept, UNCHANGED <<cfg, given>>, \A r \in R!All : row'[r] = "live" => row[r] = "live",
         lost \subseteq lost',
         \A q \in Editors : edit[q].pc = "save" =>
           edit'[q].pc = "save" \/ row["git"] # "live" \/ "git" \in lost'
  PROVE  SecretIsKept'
<1> SUFFICES ASSUME NEW r \in R!All, row'[r] = "live", cfg[r] # given[r]
             PROVE  r \in lost' \/ (r = "git" /\ \E q \in Editors : edit'[q].pc = "save")
  BY DEF SecretIsKept, R!SecretIsKept, R!At
<1>1. r \in lost \/ (r = "git" /\ \E q \in Editors : edit[q].pc = "save")
  BY SecretHolds
<1>2. CASE r \in lost
  BY <1>2
<1>3. CASE r = "git" /\ \E q \in Editors : edit[q].pc = "save"
  BY <1>3
<1> QED
  BY <1>1, <1>2, <1>3

LEMMA KeptSaves ==
  ASSUME NEW q \in Editors, Kept(q), edit[q].pc # "save"
  PROVE  \A p \in Editors : edit[p].pc = "save" => edit'[p].pc = "save"
BY DEF Kept, Kin

LEMMA SecretStep ==
  ASSUME ResourcesAssumption, Typed, RowsInv, CopyInv, TokenInv, SecretIsKept, [R!Next]_R!vars
  PROVE  SecretIsKept'
<1>0. /\ edit \in [Editors -> R!Request] /\ cfg \in [R!All -> R!Config] /\ given \in [R!All -> R!Config]
      /\ row \in [R!All -> {"none", "live", "deleted"}] /\ "git" \in R!All /\ R!New \subseteq R!All
      /\ "git" \notin R!New
  BY DEF Typed, R!TypeOK, R!All, R!New
<1>1. ASSUME NEW q \in Editors, Step(q) PROVE SecretIsKept'
  <2>1. CASE Begun(q)
    <3>1. /\ edit[q].pc = "free" /\ UNCHANGED <<row, cfg, given, lost>>
          /\ \A p \in Editors \ {q} : edit'[p] = edit[p]
      BY <1>0, <2>1 DEF Begun, R!stored
    <3> QED
      BY <3>1, SecretSame
  <2>2. CASE Quit(q)
    <3>1. /\ UNCHANGED <<row, cfg, given>> /\ lost \subseteq lost'
          /\ edit[q].pc = "save" => row["git"] # "live" \/ "git" \in lost'
          /\ \A p \in Editors \ {q} : edit[p].pc = "save" => edit'[p].pc = "save"
      BY <2>2 DEF Quit, Kept, Kin
    <3> QED
      BY <3>1, SecretSame
  <2>3. CASE Expanded(q) \/ Looked(q)
    <3>1. PICK e : Turned(q, e) /\ edit[q].pc # "save" /\ UNCHANGED <<row, cfg, given, lost>>
      BY <2>3 DEF Expanded, Looked, R!stored
    <3>2. \A p \in Editors \ {q} : edit'[p] = edit[p]
      BY <1>0, <3>1 DEF Turned
    <3> QED
      BY <3>1, <3>2, SecretSame
  <2>4. CASE Refreshed(q)
    <3>1. PICK e : /\ Turned(q, e) /\ e.pc = "save" /\ UNCHANGED <<row, cfg, lost>>
                   /\ given' = [given EXCEPT !["git"] = R!Keys(edit[q].v)]
      BY <2>4 DEF Refreshed
    <3>2. edit'[q].pc = "save" /\ \A r \in R!All : r # "git" => given'[r] = given[r]
      BY <1>0, <3>1 DEF Turned
    <3> QED
      BY <3>1, <3>2 DEF SecretIsKept, R!SecretIsKept, R!At
  <2>5. CASE Linked(q) \/ Deleted(q)
    <3>1. /\ Kept(q) /\ edit[q].pc # "save" /\ UNCHANGED <<cfg, given, lost>>
          /\ row' = row \/ \E r : row' = [row EXCEPT ![r] = "deleted"]
      BY <2>5 DEF Linked, Deleted
    <3>2. \A r \in R!All : row'[r] = "live" => row[r] = "live"
      BY <1>0, <3>1
    <3> QED
      BY <3>1, <3>2, KeptSaves, SecretSame
  <2>6. CASE Inserted(q)
    <3>1. PICK r \in R!New, c \in Real :
            /\ row' = [row EXCEPT ![r] = "live"] /\ given' = [given EXCEPT ![r] = c]
            /\ cfg' = [cfg EXCEPT ![r] = c] /\ Kept(q) /\ lost' = lost /\ edit[q].pc # "save"
      BY <2>6 DEF Inserted, Stores
    <3>2. /\ cfg'[r] = given'[r]
          /\ \A s \in R!All \ {r} : cfg'[s] = cfg[s] /\ given'[s] = given[s] /\ row'[s] = row[s]
      BY <1>0, <3>1
    <3>3. \A p \in Editors : edit[p].pc = "save" => edit'[p].pc = "save"
      BY <3>1, KeptSaves
    <3> QED
      BY <3>1, <3>2, <3>3 DEF SecretIsKept, R!SecretIsKept, R!At
  <2>7. CASE Written(q)
    <3>1. PICK r \in R!All, c \in Real :
            /\ row' = row /\ r = edit[q].r /\ edit[q].pc = "write" /\ Kept(q)
            /\ cfg' = [cfg EXCEPT ![r] = c]
            /\ \/ r # "git" /\ given' = [given EXCEPT ![r] = c] /\ lost' = lost \ {r}
               \/ /\ c = edit[q].copy /\ given' = given
                  /\ lost' = IF edit[q].stale THEN lost \cup {r} ELSE lost
      BY <2>7 DEF Written, Stores
    <3>2. \A p \in Editors : edit[p].pc = "save" => edit'[p].pc = "save"
      BY <3>1, KeptSaves
    <3>3. \A s \in R!All \ {r} : cfg'[s] = cfg[s] /\ (given'[s] = given[s]) /\ (s \in lost => s \in lost')
      BY <1>0, <3>1
    <3>4. cfg'[r] = c
      BY <1>0, <3>1
    <3>5. CASE given' = [given EXCEPT ![r] = c]
      <4>1. given'[r] = c
        BY <1>0, <3>5
      <4> QED
        BY <3>1, <3>2, <3>3, <3>4, <4>1 DEF SecretIsKept, R!SecretIsKept, R!At
    <3>6. CASE /\ c = edit[q].copy /\ given' = given
               /\ lost' = IF edit[q].stale THEN lost \cup {r} ELSE lost
      <4>1. edit[q].stale \/ c = cfg[r]
        <5>1. Changing(edit[q])
          BY <3>1, <3>6, Configurations DEF Changing
        <5> QED
          BY <3>1, <3>6, <5>1 DEF CopyInv
      <4>2. r \in lost' \/ cfg'[r] = cfg[r]
        BY <3>4, <3>6, <4>1
      <4>3. lost \subseteq lost'
        BY <3>6
      <4> QED
        BY <3>1, <3>2, <3>3, <3>6, <4>2, <4>3 DEF SecretIsKept, R!SecretIsKept, R!At
    <3> QED
      BY <3>1, <3>5, <3>6
  <2>8. CASE Saved(q)
    <3>1. PICK v : v = edit[q].v
      OBVIOUS
    <3>2. /\ cfg' = [cfg EXCEPT !["git"] = R!Keys(v)] /\ UNCHANGED <<row, given, lost>>
          /\ edit[q].pc = "save"
      BY <2>8, <3>1 DEF Saved, Stores
    <3>3. given["git"] = R!Keys(v) \/ "git" \in lost
      BY <3>1, <3>2 DEF TokenInv, Listing
    <3>4. cfg'["git"] = R!Keys(v) /\ \A s \in R!All \ {"git"} : cfg'[s] = cfg[s]
      BY <1>0, <3>2
    <3> QED
      BY <3>2, <3>3, <3>4 DEF SecretIsKept, R!SecretIsKept, R!At
  <2> QED
    BY <1>1, <2>1, <2>2, <2>3, <2>4, <2>5, <2>6, <2>7, <2>8 DEF Step
<1>2. ASSUME NEW h \in R!Own, R!Unlink(h) PROVE SecretIsKept'
  BY <1>2, UnlinkDoes, SecretSame
<1>3. CASE R!Crash
  BY <1>3, CrashDoes, SecretSame
<1>4. CASE UNCHANGED R!vars
  BY <1>4, SecretSame DEF R!vars
<1> QED
  BY <1>1, <1>2, <1>3, <1>4, ResourceSteps

-----------------------------------------------------------------------------
(* The theorems *)

LEMMA ResInit ==
  ASSUME ResourcesAssumption, R!Init
  PROVE  ResInv
<1>1. edit = [q \in Editors |-> R!Free] /\ still = [ops |-> ResourceOps, faults |-> ResourceFaults]
  BY DEF R!Init
<1>2. /\ row \in [R!All -> {"none", "live"}] /\ \A r \in R!All \ R!New : row[r] = "live"
      /\ cfg \in [R!All -> {R!Keys(0), R!FromAccount}] /\ \A r \in R!All \ {"storage"} : cfg[r] = R!Keys(0)
      /\ given = cfg /\ excused = {} /\ lost = {}
  BY DEF R!Init
<1>3. PICK h \in R!Own \cup {Nothing} :
        ref = [i \in R!Own |-> IF i = h /\ row[R!Fits(i)] = "live" THEN R!Fits(i) ELSE Nothing]
  BY DEF R!Init
<1>4. Asked = 0 /\ still \in [ops : 0..ResourceOps, faults : 0..ResourceFaults] /\ 0 \in 0..ResourceOps
  BY <1>1 DEF Asked, ResourcesAssumption
<1>5. /\ R!Keys(0) \in Real /\ R!FromAccount \in Real /\ R!Keys(0) \in R!Config /\ R!FromAccount \in R!Config
      /\ R!Keys(0) # R!FromAccount /\ R!Keys(0).acct = Nothing /\ R!FromAccount.acct = "account"
  BY <1>4, Configurations DEF Real
<1>6. \A i \in R!Own : R!Fits(i) \in R!All
  BY DEF R!Fits, R!All
<1>7. Typed
  <2>1. ref \in [R!Own -> R!All \cup {Nothing}]
    BY <1>3, <1>6
  <2>2. edit \in [Editors -> R!Request] /\ \A q \in Editors : Sound(edit[q])
    BY <1>1, FreeTyped
  <2> QED
    BY <1>2, <1>4, <1>5, <2>1, <2>2 DEF Typed, R!TypeOK
<1>8. RowsInv
  BY <1>2, <1>5 DEF RowsInv, R!Derived
<1>9. CopyInv /\ CheckInv
  BY <1>1, FreeTyped DEF CopyInv, CheckInv
<1>10. TokenInv
  <2>1. R!Keys(0) \in Tokens /\ "git" \in R!All \ {"storage"}
    BY <1>4 DEF Tokens, R!All
  <2> QED
    BY <1>1, <1>2, <2>1, FreeTyped DEF TokenInv
<1>11. OwnInUse
  <2> SUFFICES ASSUME NEW g \in R!Own, NEW r \in R!All, ref[g] = r PROVE row[r] = "live"
    BY DEF OwnInUse
  <2> QED
    BY <1>3, <1>6 DEF ResourcesAssumption
<1>12. DerivedInUse
  <2> SUFFICES ASSUME NEW r \in R!Derived PROVE cfg[r].acct = Nothing \/ row[cfg[r].acct] = "live"
    BY DEF DerivedInUse
  <2>1. r \in R!All /\ "account" \in R!All \ R!New
    BY DEF R!Derived, R!All, R!New
  <2> QED
    BY <1>2, <1>5, <2>1
<1>13. SecretIsKept
  BY <1>2 DEF SecretIsKept, R!SecretIsKept
<1> QED
  BY <1>7, <1>8, <1>9, <1>10, <1>11, <1>12, <1>13, InUseParts DEF ResInv

LEMMA ResStep ==
  ASSUME ResourcesAssumption, ResInv, [R!Next]_R!vars
  PROVE  ResInv'
<1>1. Typed /\ RowsInv /\ CopyInv /\ TokenInv /\ CheckInv /\ SecretIsKept /\ OwnInUse /\ DerivedInUse
  BY InUseParts DEF ResInv
<1>2. Typed' /\ RowsInv' /\ CopyInv' /\ TokenInv' /\ CheckInv' /\ SecretIsKept'
  BY <1>1, TypedStep, CopyStep, TokenStep, CheckStep, SecretStep
<1>3. (OwnInUse /\ DerivedInUse)'
  BY <1>1, InUseStep
<1>4. InUseIsKept'
  BY <1>3, InUseParts, PTL
<1> QED
  BY <1>2, <1>4 DEF ResInv

(* The values of the resources' state are always those that were declared. *)
THEOREM ResourcesTypeCorrect ==
  ASSUME ResourcesAssumption
  PROVE  R!Spec => []R!TypeOK
<1>1. R!Init => ResInv
  BY ResInit
<1>2. ResInv /\ [R!Next]_R!vars => ResInv'
  BY ResStep
<1>3. ResInv => R!TypeOK
  BY DEF ResInv, Typed
<1> QED
  BY <1>1, <1>2, <1>3, PTL DEF R!Spec

(* A resource that something refers to is not deleted (Delete), but for    *)
(* what came to refer to it while the deletion was under way, what a       *)
(* failed look-up of the settings hid, and workers (InUseIsKept).          *)
THEOREM ResourcesInUseAreKept ==
  ASSUME ResourcesAssumption
  PROVE  R!Spec => []InUseIsKept
<1>1. R!Init => ResInv
  BY ResInit
<1>2. ResInv /\ [R!Next]_R!vars => ResInv'
  BY ResStep
<1>3. ResInv => InUseIsKept
  BY DEF ResInv
<1> QED
  BY <1>1, <1>2, <1>3, PTL DEF R!Spec

(* A resource has the secret that it was given last (Update, Create and    *)
(* the exchange of a token), unless an overlap or a failed write, which    *)
(* are marked, has lost it (SecretIsKept).                                 *)
THEOREM ResourcesKeepSecrets ==
  ASSUME ResourcesAssumption
  PROVE  R!Spec => []SecretIsKept
<1>1. R!Init => ResInv
  BY ResInit
<1>2. ResInv /\ [R!Next]_R!vars => ResInv'
  BY ResStep
<1>3. ResInv => SecretIsKept
  BY DEF ResInv
<1> QED
  BY <1>1, <1>2, <1>3, PTL DEF R!Spec
=============================================================================
