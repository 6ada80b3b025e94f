-------------------------------- MODULE Domains --------------------------------
(***************************************************************************)
(* The domains of applications and the ingresses that route them, the      *)
(* ingress of the panel, and the cleanup of orphan ingresses               *)
(* (internal/service/domain_service.go, setting_service.go, k3s/ingress.go,*)
(* k3s/cleanup.go, api/v1/cluster_handler.go).                             *)
(*                                                                         *)
(* A domain is a row and an ingress.  Requests change first one and then   *)
(* the other, without a lock; only the unique index of active hosts        *)
(* stands between two requests.                                            *)
(***************************************************************************)
EXTENDS Naturals, FiniteSets

CONSTANTS
  Requests,   \* slots for requests under way
  Domains,    \* identities of domains, each used once
  Apps, Hosts,
  Generated,  \* hosts under the base domain
  Long,       \* hosts whose ingress older versions named differently
  Kinds,      \* how domains are encrypted: not, with a certificate of Traefik or by hand
  None,       \* no host, no domain
  Ops,        \* the operations requested
  MaxOps,     \* bound of the model: requests
  MaxFaults   \* bound of the model: calls of the cluster or database that fail

ASSUME DomainsAssumption ==
  /\ Generated \subseteq Hosts /\ Long \subseteq Hosts
  /\ Kinds \subseteq {"none", "auto", "manual"}
  /\ None \notin Hosts \cup Domains \cup Apps
  /\ MaxOps \in Nat /\ MaxFaults \in Nat

VARIABLES
  app,    \* the rows of the applications
  dom,    \* the rows of the domains
  ing,    \* the ingresses, by application and key of the name
  http,   \* the companion ingresses that redirect to HTTPS: their domain label
  panel,  \* the panel domain setting, and the host of the panel ingress
  req,    \* the requests
  left,   \* requests and failures still to come
  drift   \* requests about the same thing have overlapped, or a call has failed

vars == <<app, dom, ing, http, panel, req, left, drift>>

-----------------------------------------------------------------------------
(* State *)

(* Old names are cut at 63 characters; for a short host both are the same. *)
OldKey(h) == IF h \in Long THEN <<"old", h>> ELSE h
Keys == Hosts \cup {OldKey(h) : h \in Hosts}

Domain == [life : {"unused", "active", "deleted"}, app : Apps, host : Hosts, tls : Kinds,
           force : BOOLEAN, ready : BOOLEAN]
Ingress == [dom : Domains, host : Hosts, port : {1, 2}]
NoIngress == [dom |-> None, host |-> None, port |-> 1]

PC == {"free", "insert", "store", "ingress", "undo", "drop", "sync", "look", "label", "row",
       "hosts", "find", "delete", "apply", "ports"}
Operation == {"create", "generate", "rename", "force", "list", "delete", "delete app",
              "port", "cleanup", "panel", "reconcile", "none"}
(* d, copy: the domain and the copy of its row that is written back; old:  *)
(* what a rename restores; port: that of the copy of the application.      *)
Request == [op : Operation, pc : PC, app : Apps, d : Domains, copy : Domain, old : Domain,
            port : {1, 2}, rows : [Domains -> Domain], todo : SUBSET Domains,
            hosts : SUBSET Hosts, want : Hosts \cup {None},
            names : SUBSET (Apps \X Keys), https : SUBSET (Apps \X Hosts), pan : BOOLEAN]

Unused == [life |-> "unused", app |-> CHOOSE a \in Apps : TRUE,
           host |-> CHOOSE h \in Hosts : TRUE, tls |-> CHOOSE k \in Kinds : TRUE, force |-> FALSE,
           ready |-> FALSE]
Free == [op |-> "none", pc |-> "free", app |-> Unused.app, d |-> CHOOSE d \in Domains : TRUE,
         copy |-> Unused, old |-> Unused, port |-> 1, rows |-> [d \in Domains |-> Unused],
         todo |-> {}, hosts |-> {}, want |-> None, names |-> {}, https |-> {}, pan |-> FALSE]

TypeOK ==
  /\ app \in [Apps -> [there : BOOLEAN, port : {1, 2}]]
  /\ dom \in [Domains -> Domain]
  /\ ing \in [Apps \X Keys -> Ingress \cup {NoIngress}]
  /\ http \in [Apps \X Hosts -> Domains \cup {None}]
  /\ panel \in [set : Hosts \cup {None}, host : Hosts \cup {None}]
  /\ req \in [Requests -> Request]
  /\ left \in [ops : 0..MaxOps, faults : 0..MaxFaults]
  /\ drift \in BOOLEAN

(* One domain is there already, perhaps since a version with old names.    *)
Init ==
  \E d \in {CHOOSE d \in Domains : TRUE}, a \in Apps, h \in Hosts, tls \in Kinds, k \in Keys :
    /\ k \in {h, OldKey(h)}
    /\ app = [x \in Apps |-> [there |-> TRUE, port |-> 1]]
    /\ dom = [x \in Domains |->
                IF x = d THEN [life |-> "active", app |-> a, host |-> h, tls |-> tls,
                               force |-> FALSE, ready |-> FALSE]
                ELSE Unused]
    /\ ing = [n \in Apps \X Keys |->
                IF n = <<a, k>> THEN [dom |-> d, host |-> h, port |-> 1] ELSE NoIngress]
    /\ http = [n \in Apps \X Hosts |-> None]
    /\ panel = [set |-> None, host |-> None]
    /\ req = [r \in Requests |-> Free]
    /\ left = [ops |-> MaxOps, faults |-> MaxFaults]
    /\ drift = FALSE

Active(d) == dom[d].life = "active"
Busy(r) == req[r].pc # "free"
Goto(r, pc) == req' = [req EXCEPT ![r].pc = pc]
End(r) == req' = [req EXCEPT ![r] = Free]
Fault == left.faults > 0 /\ left' = [left EXCEPT !.faults = @ - 1] /\ drift' = TRUE
Fine == UNCHANGED <<left, drift>>

-----------------------------------------------------------------------------
(* The store *)

Taken(d, h) == \E e \in Domains \ {d} : Active(e) /\ dom[e].host = h

(* Update writes every column of the copy, if the row is still there.      *)
Stored(copy) == [copy EXCEPT !.life = "active"]
Write(d, copy) ==
  dom' = IF Active(d) THEN [dom EXCEPT ![d] = Stored(copy)] ELSE dom
Deleted(d) == dom' = [dom EXCEPT ![d].life = "deleted"]

-----------------------------------------------------------------------------
(* The cluster *)

Companion(a, d, c) ==
  [http EXCEPT ![<<a, c.host>>] = IF c.tls = "auto" /\ c.force THEN d ELSE None]

(* An ingress of that name keeps its labels when its rules are replaced.   *)
Routed(a, d, c, port) ==
  LET name == <<a, c.host>> IN
  [ing EXCEPT ![name] = [dom |-> IF ing[name] = NoIngress THEN d ELSE ing[name].dom,
                         host |-> c.host, port |-> port]]
Migrated(a, d, c, port) ==
  IF c.host \in Long THEN [Routed(a, d, c, port) EXCEPT ![<<a, OldKey(c.host)>>] = NoIngress]
  ELSE Routed(a, d, c, port)

CreateIngress(r) ==
  LET a == req[r].app  d == req[r].d  c == req[r].copy IN
  /\ http' = Companion(a, d, c)
  /\ ing' = Migrated(a, d, c, req[r].port)
(* The companion is applied first, and its failure is logged.  An ingress  *)
(* of the old name is changed in place if no new one can be made.          *)
CompanionFails(r) ==
  /\ Fault /\ UNCHANGED http
  /\ ing' = Migrated(req[r].app, req[r].d, req[r].copy, req[r].port)
OldIngressUpdated(r) ==
  LET c == req[r].copy  old == <<req[r].app, OldKey(c.host)>> IN
  /\ c.host \in Long /\ ing[old] # NoIngress /\ ing[<<req[r].app, c.host>>] = NoIngress
  /\ Fault
  /\ http' = Companion(req[r].app, req[r].d, c)
  /\ ing' = [ing EXCEPT ![old].host = c.host, ![old].port = req[r].port]
OldIngressStays(r) ==
  /\ req[r].copy.host \in Long /\ Fault
  /\ http' = Companion(req[r].app, req[r].d, req[r].copy)
  /\ ing' = Routed(req[r].app, req[r].d, req[r].copy, req[r].port)
Created(r) ==
  \/ CreateIngress(r) /\ Fine
  \/ CompanionFails(r) \/ OldIngressUpdated(r) \/ OldIngressStays(r)
CreateFails(r) ==
  /\ Fault /\ UNCHANGED ing
  /\ http' \in {http, Companion(req[r].app, req[r].d, req[r].copy)}

Labelled(d) == {n \in DOMAIN ing : ing[n].dom = d}
LabelledHttp(d) == {n \in DOMAIN http : http[n] = d}
Without(names) == [n \in DOMAIN ing |-> IF n \in names THEN NoIngress ELSE ing[n]]
WithoutHttp(names) == [n \in DOMAIN http |-> IF n \in names THEN None ELSE http[n]]

(* DeleteIngress: a namespace whose ingresses cannot be listed is skipped, *)
(* which is no error.                                                      *)
FirstIngress(d) ==   \* mutant: the companion is forgotten
  ing' = Without(Labelled(d)) /\ UNCHANGED http /\ Fine
DeleteIngress(d) ==
  \/ ing' = Without(Labelled(d)) /\ http' = WithoutHttp(LabelledHttp(d)) /\ Fine
  \/ Fault /\ UNCHANGED <<ing, http>>
DeleteIngressFails(d) ==
  /\ Fault
  /\ \E n \in Labelled(d) : ing' = Without(Labelled(d) \ {n})
  /\ http' = WithoutHttp(LabelledHttp(d))

(* A domain is ready when an ingress has its label and a backend.          *)
Status(d) == IF Labelled(d) = {} THEN {FALSE} ELSE BOOLEAN

-----------------------------------------------------------------------------
(* A request begins; what it is about, and what it overlaps. *)

Things(q) ==
  CASE q.op \in {"create", "generate", "force", "delete"} -> {q.d, q.copy.host}
    [] q.op = "rename" -> {q.d, q.copy.host, q.old.host}
    [] q.op = "list" -> q.todo \cup {q.rows[d].host : d \in q.todo}
    [] q.op \in {"panel", "reconcile"} -> {"panel"}
    [] q.op = "none" -> {}
    [] OTHER -> Domains \cup Hosts \cup {"panel"}

Enter(r, q) ==
  /\ ~ Busy(r) /\ left.ops > 0 /\ q.op \in Ops
  /\ req' = [req EXCEPT ![r] = q]
  /\ left' = [left EXCEPT !.ops = @ - 1]
  /\ drift' = (drift \/ \E p \in Requests : Things(req[p]) \cap Things(q) # {})
  /\ UNCHANGED <<app, dom, ing, http, panel>>

New(d, a, h, tls) == [life |-> "active", app |-> a, host |-> h, tls |-> tls,
                      force |-> FALSE, ready |-> FALSE]
About(op, pc, d, c) == [Free EXCEPT !.op = op, !.pc = pc, !.app = c.app, !.d = d,
                                    !.copy = c, !.old = dom[d], !.port = app[c.app].port]

BeginCreate(r) ==
  \E d \in Domains, a \in Apps, h \in Hosts, tls \in Kinds :
    /\ dom[d].life = "unused" /\ app[a].there
    /\ Enter(r, About("create", "insert", d, New(d, a, h, tls)))

(* A generated domain the application has already is only routed again.    *)
BeginGenerate(r) ==
  \E a \in Apps :
    /\ app[a].there
    /\ LET has == {d \in Domains : Active(d) /\ dom[d].app = a /\ dom[d].host \in Generated} IN
       IF has # {} THEN \E d \in has : Enter(r, About("generate", "apply", d, dom[d]))
       ELSE \E d \in Domains, h \in Generated, tls \in Kinds \ {"manual"} :
              /\ dom[d].life = "unused"
              /\ Enter(r, About("generate", "insert", d, New(d, a, h, tls)))

BeginUpdate(r) ==
  \E d \in Domains :
    /\ Active(d) /\ app[dom[d].app].there
    /\ \/ \E h \in Hosts \ {dom[d].host} :
            /\ dom[d].tls # "manual"
            /\ Enter(r, About("rename", "store", d, [dom[d] EXCEPT !.host = h]))
       \/ Enter(r, About("force", "store", d, [dom[d] EXCEPT !.force = ~ @]))

BeginDelete(r) ==
  \E d \in Domains :
    /\ Active(d) /\ app[dom[d].app].there
    /\ Enter(r, About("delete", "label", d, dom[d]))

OfApp(a) == {d \in Domains : Active(d) /\ dom[d].app = a}
BeginList(r) ==
  \E a \in Apps :
    /\ app[a].there /\ OfApp(a) # {}
    /\ Enter(r, [Free EXCEPT !.op = "list", !.pc = "look", !.app = a, !.rows = dom,
                             !.todo = OfApp(a)])

BeginOther(r) ==
  \/ \E a \in Apps : app[a].there /\ Enter(r, [Free EXCEPT !.op = "delete app", !.pc = "label",
                                                          !.app = a, !.todo = OfApp(a)])
  \/ \E a \in Apps : app[a].there /\ Enter(r, [Free EXCEPT !.op = "port", !.pc = "store", !.app = a])
  \/ Enter(r, [Free EXCEPT !.op = "cleanup", !.pc = "hosts"])
  \/ \E h \in Hosts \cup {None} : Enter(r, [Free EXCEPT !.op = "panel", !.pc = "store", !.want = h])
  \/ Enter(r, [Free EXCEPT !.op = "reconcile", !.pc = "apply", !.want = panel.set])

At(r, op, pc) == req[r].op = op /\ req[r].pc = pc

-----------------------------------------------------------------------------
(* DomainService.Create and GenerateTraefikDomain *)

Insert(r) ==
  /\ req[r].pc = "insert"
  /\ LET d == req[r].d IN
     \/ /\ ~ Taken(d, req[r].copy.host) /\ dom[d].life = "unused"
        /\ dom' = [dom EXCEPT ![d] = req[r].copy] /\ Goto(r, "ingress") /\ Fine
     \/ /\ Taken(d, req[r].copy.host) /\ UNCHANGED dom /\ End(r) /\ Fine
     \/ dom[d].life # "unused" /\ UNCHANGED dom /\ End(r) /\ Fine
     \/ Fault /\ UNCHANGED dom /\ End(r)
  /\ UNCHANGED <<app, ing, http, panel>>

RouteNew(r) ==
  /\ req[r].op \in {"create", "generate"} /\ req[r].pc = "ingress"
  /\ \/ Created(r) /\ Goto(r, "sync")
     \/ CreateFails(r) /\ Goto(r, "undo")
  /\ UNCHANGED <<app, dom, panel>>

UndoCreate(r) ==
  /\ req[r].op \in {"create", "generate"} /\ req[r].pc = "undo"
  /\ \/ Deleted(req[r].d) /\ Fine
     \/ Fault /\ UNCHANGED dom
  /\ End(r) /\ UNCHANGED <<app, ing, http, panel>>

RouteAgain(r) ==
  /\ At(r, "generate", "apply")
  /\ Created(r) \/ CreateFails(r)
  /\ End(r) /\ UNCHANGED <<app, dom, panel>>

(* The status is looked up and the row written; failures are ignored.      *)
Sync(r) ==
  /\ req[r].pc = "sync"
  /\ \E ready \in Status(req[r].d) : Write(req[r].d, [req[r].copy EXCEPT !.ready = ready])
  /\ ~ Taken(req[r].d, req[r].copy.host)
  /\ End(r) /\ Fine /\ UNCHANGED <<app, ing, http, panel>>
SyncFails(r) ==
  /\ req[r].pc = "sync"
  /\ IF Taken(req[r].d, req[r].copy.host) THEN Fine ELSE Fault
  /\ End(r) /\ UNCHANGED <<app, dom, ing, http, panel>>

-----------------------------------------------------------------------------
(* DomainService.Update *)

Rename(r) ==
  /\ req[r].op \in {"rename", "force"} /\ req[r].pc = "store"
  /\ \/ /\ ~ Taken(req[r].d, req[r].copy.host) \/ ~ Active(req[r].d)
        /\ Write(req[r].d, req[r].copy) /\ Goto(r, "ingress") /\ Fine
     \/ /\ Taken(req[r].d, req[r].copy.host) /\ Active(req[r].d)
        /\ UNCHANGED dom /\ End(r) /\ Fine
     \/ Fault /\ UNCHANGED dom /\ End(r)
  /\ UNCHANGED <<app, ing, http, panel>>

RouteRenamed(r) ==
  /\ At(r, "rename", "ingress")
  /\ \/ Created(r) /\ Goto(r, "drop")
     \/ CreateFails(r) /\ Goto(r, "undo")
  /\ UNCHANGED <<app, dom, panel>>

(* The old host may have been taken in the meantime: the row is stuck.     *)
UndoRename(r) ==
  /\ At(r, "rename", "undo")
  /\ IF Taken(req[r].d, req[r].old.host) THEN UNCHANGED dom
     ELSE Write(req[r].d, [req[r].copy EXCEPT !.host = req[r].old.host])
  /\ End(r) /\ Fine /\ UNCHANGED <<app, ing, http, panel>>

(* By the current name of the old host, then by the old one.               *)
NotDropped(r) == {}   \* mutant: the ingress of the old host stays
OldNames(r) == {<<req[r].app, req[r].old.host>>, <<req[r].app, OldKey(req[r].old.host)>>}
DropOld(r) ==
  /\ At(r, "rename", "drop")
  /\ \/ ing' = Without(OldNames(r)) /\ Fine
     \/ Fault /\ \E n \in OldNames(r) : ing' = Without(OldNames(r) \ {n})
  /\ Goto(r, "sync") /\ UNCHANGED <<app, dom, http, panel>>

(* A failure leaves the row as it was stored.                              *)
RouteForced(r) ==
  /\ At(r, "force", "ingress")
  /\ Created(r) \/ CreateFails(r)
  /\ End(r) /\ UNCHANGED <<app, dom, panel>>

-----------------------------------------------------------------------------
(* ListByApp writes back the row it read when the status, the certificate  *)
(* or its expiry is new.                                                   *)

Listed(r, d, ready) == [req[r].rows[d] EXCEPT !.ready = ready]
LookAt(r) ==
  /\ At(r, "list", "look")
  /\ \E d \in req[r].todo, ready \in BOOLEAN :
       /\ ready \in Status(d)
       /\ LET changed == ready # req[r].rows[d].ready
              new == Listed(r, d, ready)
          IN \/ /\ changed \/ new.tls # "none"
                /\ ~ Taken(d, new.host) /\ Write(d, new)
             \/ /\ ~ changed \/ Taken(d, new.host)
                /\ UNCHANGED dom
       /\ req' = [req EXCEPT ![r] = IF @.todo = {d} THEN Free ELSE [@ EXCEPT !.todo = @ \ {d}]]
  /\ Fine /\ UNCHANGED <<app, ing, http, panel>>

-----------------------------------------------------------------------------
(* Delete, and the deletion of an application *)

DeleteRoutes(r) ==
  /\ At(r, "delete", "label")
  /\ \/ DeleteIngress(req[r].d) /\ Goto(r, "row")
     \/ DeleteIngressFails(req[r].d) /\ End(r)
  /\ UNCHANGED <<app, dom, panel>>

DeleteRow(r) ==
  /\ At(r, "delete", "row")
  /\ \/ Deleted(req[r].d) /\ Fine
     \/ Fault /\ UNCHANGED dom
  /\ End(r) /\ UNCHANGED <<app, ing, http, panel>>

(* The domains are listed, their ingresses deleted; failures are logged,   *)
(* and the rows of the domains stay.                                       *)
DeleteAppRoutes(r) ==
  /\ At(r, "delete app", "label")
  /\ IF req[r].todo = {} THEN Goto(r, "row") /\ Fine /\ UNCHANGED <<ing, http>>
     ELSE \E d \in req[r].todo :
            /\ DeleteIngress(d) \/ DeleteIngressFails(d)
            /\ req' = [req EXCEPT ![r].todo = @ \ {d}]
  /\ UNCHANGED <<app, dom, panel>>

DeleteApp(r) ==
  /\ At(r, "delete app", "row")
  /\ app' = [app EXCEPT ![req[r].app].there = FALSE]
  /\ End(r) /\ Fine /\ UNCHANGED <<dom, ing, http, panel>>

-----------------------------------------------------------------------------
(* The ports of an application change with a deployment. *)

ChangePort(r) ==
  /\ At(r, "port", "store")
  /\ app' = [app EXCEPT ![req[r].app].port = 3 - @]
  /\ req' = [req EXCEPT ![r].pc = "ports", ![r].port = 3 - app[req[r].app].port]
  /\ Fine /\ UNCHANGED <<dom, ing, http, panel>>

(* The ingresses with the label of the application; failures are ignored.  *)
SyncIngressPorts(r) ==
  /\ At(r, "port", "ports")
  /\ \/ /\ Fine
        /\ ing' = [n \in DOMAIN ing |->
                     IF n[1] = req[r].app /\ ing[n] # NoIngress
                     THEN [ing[n] EXCEPT !.port = req[r].port] ELSE ing[n]]
     \/ Fault /\ UNCHANGED ing
  /\ End(r) /\ UNCHANGED <<app, dom, http, panel>>

-----------------------------------------------------------------------------
(* The panel, and the cleanup of orphans *)

SetPanel(r) ==
  /\ At(r, "panel", "store")
  /\ \/ panel' = [panel EXCEPT !.set = req[r].want] /\ Goto(r, "apply") /\ Fine
     \/ Fault /\ UNCHANGED panel /\ End(r)
  /\ UNCHANGED <<app, dom, ing, http>>

(* An empty setting deletes the ingress.                                   *)
EmptyHost(r) == IF req[r].want = None THEN "" ELSE req[r].want   \* mutant: a host of no name
EnsureOnly(r) == IF req[r].want = None THEN panel.host ELSE req[r].want   \* mutant: never deleted
PanelHost(r) == req[r].want
ApplyPanel(r) ==
  /\ req[r].op \in {"panel", "reconcile"} /\ req[r].pc = "apply"
  /\ \/ panel' = [panel EXCEPT !.host = PanelHost(r)] /\ Fine
     \/ Fault /\ UNCHANGED panel
  /\ End(r) /\ UNCHANGED <<app, dom, ing, http>>

(* A failure of the query is ignored: no host is valid then.               *)
ValidHosts == {dom[d].host : d \in {e \in Domains : Active(e)}}
ReadHosts(r) ==
  /\ At(r, "cleanup", "hosts")
  /\ \/ Fine /\ req' = [req EXCEPT ![r].hosts = ValidHosts, ![r].want = panel.set, ![r].pc = "find"]
     \/ Fault /\ req' = [req EXCEPT ![r].want = panel.set, ![r].pc = "find"]
  /\ UNCHANGED <<app, dom, ing, http, panel>>

PanelIsOrphan(r) ==
  IF req[r].want # None THEN panel.host # req[r].want ELSE panel.host \notin req[r].hosts
FindOrphans(r) ==
  /\ At(r, "cleanup", "find")
  /\ req' = [req EXCEPT
       ![r].names = {n \in DOMAIN ing : ing[n] # NoIngress /\ ing[n].host \notin req[r].hosts},
       ![r].https = {n \in DOMAIN http : http[n] # None /\ n[2] \notin req[r].hosts},
       ![r].pan = panel.host # None /\ PanelIsOrphan(r), ![r].pc = "delete"]
  /\ Fine /\ UNCHANGED <<app, dom, ing, http, panel>>

CleanupOrphans(r) ==
  /\ At(r, "cleanup", "delete")
  /\ ing' = Without(req[r].names) /\ http' = WithoutHttp(req[r].https)
  /\ panel' = IF req[r].pan THEN [panel EXCEPT !.host = None] ELSE panel
  /\ End(r) /\ Fine /\ UNCHANGED <<app, dom>>

Next ==
  \E r \in Requests :
    \/ BeginCreate(r) \/ BeginGenerate(r) \/ BeginUpdate(r) \/ BeginDelete(r)
    \/ BeginList(r) \/ BeginOther(r)
    \/ Insert(r) \/ RouteNew(r) \/ UndoCreate(r) \/ RouteAgain(r) \/ Sync(r) \/ SyncFails(r)
    \/ Rename(r) \/ RouteRenamed(r) \/ UndoRename(r) \/ DropOld(r) \/ RouteForced(r)
    \/ LookAt(r) \/ DeleteRoutes(r) \/ DeleteRow(r) \/ DeleteAppRoutes(r) \/ DeleteApp(r)
    \/ ChangePort(r) \/ SyncIngressPorts(r)
    \/ SetPanel(r) \/ ApplyPanel(r) \/ ReadHosts(r) \/ FindOrphans(r) \/ CleanupOrphans(r)

Spec == Init /\ [][Next]_vars

-----------------------------------------------------------------------------
(* Properties *)

Quiet == \A r \in Requests : ~ Busy(r)

(* When no request is under way, the ingresses of the cluster are those of *)
(* the active domains of live applications, each under one name, with the  *)
(* label of its domain and the port of its application: through renames,   *)
(* migrations of old names, port changes and cleanups, as long as no call  *)
(* failed and requests about the same domain or host did not overlap.  And *)
(* a domain is deleted only when nothing routes its host for it any more,  *)
(* the companions that renames leave behind included.                      *)
Routes == {[app |-> n[1], dom |-> ing[n].dom, host |-> ing[n].host, port |-> ing[n].port] :
             n \in {m \in DOMAIN ing : ing[m] # NoIngress}}
Wanted == {[app |-> dom[d].app, dom |-> d, host |-> dom[d].host, port |-> app[dom[d].app].port] :
             d \in {e \in Domains : Active(e) /\ app[dom[e].app].there}}
ClusterFollowsRows ==
  ~ drift =>
    /\ Quiet => /\ Routes = Wanted
                /\ Cardinality(Routes) = Cardinality({n \in DOMAIN ing : ing[n] # NoIngress})
    /\ \A d \in Domains : dom[d].life = "deleted" => Labelled(d) = {} /\ LabelledHttp(d) = {}

(* Two applications never answer for one host, not even while requests     *)
(* about different domains run: a host is free for another application     *)
(* only once the ingress that had it is gone.                              *)
OneAppPerHost ==
  ~ drift =>
    \A m, n \in DOMAIN ing :
      ing[m] # NoIngress /\ ing[n] # NoIngress /\ ing[m].host = ing[n].host => m[1] = n[1]

(* The panel answers at the configured host, and cleanups leave it alone.  *)
PanelFollowsSetting == Quiet /\ ~ drift => panel.host = panel.set

(* The deletion of the old ingress of a rename is safe: when all requests  *)
(* have ended, and none has failed, every active domain has its ingress.   *)
RenameIsSafe ==
  Quiet /\ left.faults = MaxFaults =>
    \A d \in Domains : Active(d) => ing[<<dom[d].app, dom[d].host>>] # NoIngress

(* The cleanup deletes no ingress of an active domain: the list of hosts   *)
(* it compares with is never cut short.                                    *)
CleanupSparesLive ==
  [][\A r \in Requests : CleanupOrphans(r) =>
       \A n \in DOMAIN ing : ing[n] # NoIngress /\ ing'[n] = NoIngress
                             => ing[n].host \notin ValidHosts]_vars
=============================================================================
