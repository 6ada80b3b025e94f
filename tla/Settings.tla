------------------------------- MODULE Settings -------------------------------
(***************************************************************************)
(* The settings whose values depend on one another: whether only Google    *)
(* may be used to sign in and what that needs, and the address and domain  *)
(* that a starting server puts where there are none                        *)
(* (internal/service/setting_service.go, store/pg/setting_store.go).       *)
(*                                                                         *)
(* Each key is a row of its own, and every check reads other rows before   *)
(* the write, without a transaction.  A starting server ignores what it    *)
(* cannot read or write.                                                   *)
(***************************************************************************)
EXTENDS Naturals

CONSTANTS
  Requests,   \* requests that may be under way at a time
  Servers,    \* replicas of the server
  None,       \* no value, no key
  MaxOps,     \* bound of the model: requests
  MaxFaults   \* bound of the model: reads and writes that fail, deaths, restarts

VARIABLES
  val,    \* the settings
  req,    \* the requests
  boot,   \* the servers
  left,   \* what the bounds leave
  given,  \* the address and the domain that a user has set last
  odd     \* what has happened that the properties make exceptions for

vars == <<val, req, boot, left, given, odd>>

-----------------------------------------------------------------------------
(* State *)

(* The credentials of Google; on: "true", or not empty.                    *)
Credentials == {"enabled", "id", "secret"}
Names == {"ip", "base"}
Flags == {"only", "done"} \cup Credentials
Sources == {"env", "node", "local", "user"}

Flag == {"on", "off"}
Values(k) == IF k \in Names THEN {"user", None} ELSE Flag
Settable == Credentials \cup Names \cup {"only"}
Setting == [only : Flag, done : Flag, enabled : Flag, id : Flag, secret : Flag,
            ip : Sources \cup {None}, base : Sources \cup {None}]

(* seen: the client ID was there; late: what a check has read is changed.  *)
Request == [pc : {"free", "enabled", "id", "secret", "only", "write"},
            key : Settable \cup {None}, to : Flag \cup {"user", None},
            seen : Flag, late : BOOLEAN, at : Servers \cup {None}]
Free == [pc |-> "free", key |-> None, to |-> None, seen |-> "off", late |-> FALSE, at |-> None]
Boot == [pc : {"down", "env", "done", "detect", "look", "default", "finish", "up"},
         env : BOOLEAN, ip : Sources \cup {None}]
Down == [pc |-> "down", env |-> FALSE, ip |-> None]

TypeOK ==
  /\ val \in Setting /\ req \in [Requests -> Request] /\ boot \in [Servers -> Boot]
  /\ left \in [ops : 0..MaxOps, faults : 0..MaxFaults]
  /\ given \in [Names -> {"user", None, "never"}]
  /\ odd \subseteq {"crossed", "blind", "undone", "raced"}

(* A new installation, or one where Google may be used.                    *)
Init ==
  /\ \E c \in Flag :
       val = [only |-> "off", done |-> c, enabled |-> c, id |-> c, secret |-> c,
              ip |-> None, base |-> None]
  /\ req = [r \in Requests |-> Free] /\ boot = [s \in Servers |-> Down]
  /\ left = [ops |-> MaxOps, faults |-> MaxFaults]
  /\ given = [n \in Names |-> "never"] /\ odd = {}

Works == UNCHANGED left
Fault == left.faults > 0 /\ left' = [left EXCEPT !.faults = @ - 1]
Go(r, pc) == req' = [req EXCEPT ![r].pc = pc]
Answer(r) == req' = [req EXCEPT ![r] = Free]
BootTo(s, pc) == boot' = [boot EXCEPT ![s].pc = pc]

-----------------------------------------------------------------------------
(* Set *)

Enforces(r) == req[r].key = "only" /\ req[r].to = "on"
Withdraws(r) == req[r].key \in Credentials /\ req[r].to = "off"

(* What is read before the write.  A masked secret is not stored at all.   *)
FirstCheck(k, v) ==
  CASE k = "only" /\ v = "on" -> "enabled"
    [] k \in Credentials /\ v = "off" -> "only"
    [] OTHER -> "write"
Begin(r, s, k, v) ==
  /\ req[r].pc = "free" /\ boot[s].pc = "up" /\ v \in Values(k)
  /\ left.ops > 0 /\ left' = [left EXCEPT !.ops = @ - 1]
  /\ req' = [req EXCEPT ![r] = [Free EXCEPT !.pc = FirstCheck(k, v), !.key = k, !.to = v, !.at = s]]
  /\ UNCHANGED <<val, boot, given, odd>>

(* validateGoogleOAuthConfigured                                           *)
ReadEnabled(r) ==
  /\ req[r].pc = "enabled"
  /\ IF val.enabled = "on" THEN Go(r, "id") ELSE Answer(r)
  /\ UNCHANGED <<val, boot, left, given, odd>>
ReadId(r) ==
  /\ req[r].pc = "id"
  /\ req' = [req EXCEPT ![r].pc = "secret", ![r].seen = val.id]
  /\ UNCHANGED <<val, boot, left, given, odd>>
ReadSecret(r) ==
  /\ req[r].pc = "secret"
  /\ IF req[r].seen = "on" /\ val.secret = "on" THEN Go(r, "write") ELSE Answer(r)
  /\ UNCHANGED <<val, boot, left, given, odd>>

(* rejectGoogleOAuthChangeUnderGoogleOnly                                  *)
NotRefused == TRUE   \* mutant: credentials may always be withdrawn
MayWithdraw == val.only # "on"
ReadMode(r) ==
  /\ req[r].pc = "only"
  /\ IF MayWithdraw THEN Go(r, "write") ELSE Answer(r)
  /\ UNCHANGED <<val, boot, left, given, odd>>

(* Requests whose check has read what this write changes.                  *)
Outdated(r) ==
  {q \in Requests \ {r} :
     \/ Enforces(q) /\ Withdraws(r) /\ req[q].pc \in {"id", "secret", "write"}
     \/ Enforces(r) /\ Withdraws(q) /\ req[q].pc = "write"}
Starting == \E s \in Servers : boot[s].pc \in {"detect", "look", "default", "finish"}
Store(r) ==
  LET k == req[r].key IN
  /\ req[r].pc = "write"
  /\ val' = [val EXCEPT ![k] = req[r].to]
  /\ req' = [q \in Requests |->
               IF q = r THEN Free ELSE [req[q] EXCEPT !.late = @ \/ q \in Outdated(r)]]
  /\ given' = IF k \in Names THEN [given EXCEPT ![k] = req[r].to] ELSE given
  /\ odd' = odd \cup (IF req[r].late THEN {"crossed"} ELSE {})
                \cup (IF k \in Names /\ Starting THEN {"raced"} ELSE {})
  /\ UNCHANGED <<boot, left>>

(* A read or the write fails.                                              *)
Fail(r) ==
  /\ req[r].pc # "free" /\ Fault /\ Answer(r)
  /\ UNCHANGED <<val, boot, given, odd>>

-----------------------------------------------------------------------------
(* InitDefaults, before the server answers *)

Start(s, env) ==
  /\ boot[s].pc = "down"
  /\ boot' = [boot EXCEPT ![s] = [Down EXCEPT !.pc = "env", !.env = env]]
  /\ UNCHANGED <<val, req, left, given, odd>>

(* SERVER_IP is stored again at every start.                               *)
Override(s) ==
  /\ boot[s].pc = "env" /\ BootTo(s, "done")
  /\ \/ Works /\ val' = IF boot[s].env THEN [val EXCEPT !.ip = "env"] ELSE val
     \/ Fault /\ UNCHANGED val
  /\ UNCHANGED <<req, given, odd>>

LookAtDone(s) ==
  /\ boot[s].pc = "done"
  /\ \/ Works /\ BootTo(s, IF val.done = "on" THEN "up" ELSE "detect") /\ UNCHANGED odd
     \/ Fault /\ BootTo(s, "detect") /\ odd' = odd \cup {"blind"}
  /\ UNCHANGED <<val, req, given>>

(* A node of the cluster, or else an interface of the machine, has an      *)
(* address; or there is none.                                              *)
Detected == {"node", "local", None}
SetAddress(s, ip) ==
  /\ boot[s].pc = "detect"
  /\ IF boot[s].env THEN ip = "env" ELSE ip \in Detected
  /\ boot' = [boot EXCEPT ![s].pc = IF ip = None THEN "finish" ELSE "look", ![s].ip = ip]
  /\ \/ Works /\ val' = IF ip \in {"env", None} THEN val ELSE [val EXCEPT !.ip = ip]
     \/ Fault /\ UNCHANGED val
  /\ UNCHANGED <<req, given, odd>>

LookAtBase(s) ==
  /\ boot[s].pc = "look"
  /\ \/ Works /\ BootTo(s, IF val.base = None THEN "default" ELSE "finish") /\ UNCHANGED odd
     \/ Fault /\ BootTo(s, "default") /\ odd' = odd \cup {"blind"}
  /\ UNCHANGED <<val, req, given>>
SetBase(s) ==
  /\ boot[s].pc = "default" /\ BootTo(s, "finish")
  /\ \/ Works /\ val' = [val EXCEPT !.base = boot[s].ip]
     \/ Fault /\ UNCHANGED val
  /\ UNCHANGED <<req, given, odd>>
Finish(s) ==
  /\ boot[s].pc = "finish" /\ BootTo(s, "up")
  /\ \/ Works /\ val' = [val EXCEPT !.done = "on"] /\ UNCHANGED odd
     \/ Fault /\ odd' = odd \cup {"undone"} /\ UNCHANGED val
  /\ UNCHANGED <<req, given>>

(* A server stops, and the requests it was answering.                      *)
Stop(s) ==
  /\ boot[s].pc # "down" /\ Fault
  /\ boot' = [boot EXCEPT ![s] = Down]
  /\ req' = [r \in Requests |-> IF req[r].at = s THEN Free ELSE req[r]]
  /\ UNCHANGED <<val, given, odd>>

Next ==
  \/ \E r \in Requests :
       \/ \E s \in Servers, k \in Settable, v \in Flag \cup {"user", None} : Begin(r, s, k, v)
       \/ ReadEnabled(r) \/ ReadId(r) \/ ReadSecret(r) \/ ReadMode(r) \/ Store(r) \/ Fail(r)
  \/ \E s \in Servers :
       \/ \E env \in BOOLEAN : Start(s, env)
       \/ \E ip \in Sources \cup {None} : SetAddress(s, ip)
       \/ Override(s) \/ LookAtDone(s) \/ LookAtBase(s) \/ SetBase(s) \/ Finish(s) \/ Stop(s)

Spec == Init /\ [][Next]_vars

-----------------------------------------------------------------------------
(* Properties *)

(* When only Google may be used to sign in, it can be used: it is enabled, *)
(* and both credentials are there; unless a request that enforces the mode *)
(* and one that withdraws a credential have overlapped (setting_service.go *)
(* 147-156).                                                               *)
ModeCanBeUsed ==
  val.only = "on" /\ "crossed" \notin odd => \A c \in Credentials : val[c] = "on"

(* A starting server does not replace what a user has set, save by what    *)
(* SERVER_IP says; unless it could not read the settings, the first start  *)
(* could not note its end, or the user acted while a server started        *)
(* (setting_service.go 41-71).                                             *)
UserIsHeeded ==
  odd \cap {"blind", "undone", "raced"} = {} =>
    \A n \in Names : given[n] # "never" => val[n] = given[n] \/ (n = "ip" /\ val[n] = "env")
=============================================================================
