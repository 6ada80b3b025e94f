------------------------------ MODULE Accounts ------------------------------
(***************************************************************************)
(* The accounts that one person has, one after the other, in an            *)
(* organization: invitations, sign-in, sessions, API keys and the team     *)
(* (internal/service/auth_service.go, team_service.go, api_key_service.go, *)
(* internal/api/middleware/auth.go:SessionValidator and the handlers).     *)
(* An administrator, who is not modelled, invites and removes.             *)
(*                                                                         *)
(* A token is good while it has the version of the row.  Each replica      *)
(* remembers the version for thirty seconds, which is one tick of the      *)
(* model; a request that raises it has only its own replica forget.  Most  *)
(* writes set single columns; three store the whole row they have read.    *)
(***************************************************************************)
EXTENDS Naturals, FiniteSets

CONSTANTS
  Slots,       \* requests that may be under way at a time
  Servers,     \* replicas of the server
  None,        \* no copy, no account, no token
  MaxUsers,    \* bounds of the model: accounts of the person,
  MaxInvs,     \*   invitations,
  MaxKeys,     \*   API keys,
  MaxChalls,   \*   sign-ins that wait for the second factor,
  MaxOps,      \*   requests,
  MaxEvents    \*   failing calls, crashes, ticks, changes of the mode

Authenticated == {"profile", "password", "setup", "verify", "disable", "logout", "accept", "key",
                  "revoke"}
Operations == Authenticated \cup {"complete", "join", "role", "remove", "invite", "add"}

ASSUME AccountsAssumption ==
  /\ None \notin Nat \cup Operations \cup Servers
  /\ MaxUsers \in Nat \ {0} /\ MaxInvs \in Nat \ {0} /\ MaxKeys \in Nat
  /\ MaxChalls \in Nat /\ MaxOps \in Nat /\ MaxEvents \in Nat

VARIABLES
  user,    \* rows of users, in the order of their creation
  inv,     \* rows of invitations
  key,     \* rows of API keys
  team,    \* the accounts in the row set of one team
  ident,   \* the account that the identity at Google is linked to
  chall,   \* the challenges, and how often a code was tried for each
  google,  \* only Google may be used to sign in
  token,   \* the pairs of tokens that have been issued
  cache,   \* the version each replica remembers
  req,     \* the requests
  left,    \* what the bounds leave
  known,   \* the version that a replica has answered to have revoked up to
  old,     \* the version of the row at the last tick
  odd      \* what has happened that the properties make exceptions for

rows == <<user, inv, key, team, ident, chall>>
hist == <<known, old, odd>>
vars == <<user, inv, key, team, ident, chall, google, token, cache, req, left, known, old, odd>>

-----------------------------------------------------------------------------
(* State *)

Users == 1..MaxUsers
Invs == 1..MaxInvs
Keys == 1..MaxKeys
Challs == 1..MaxChalls
Roles == {"admin", "member"}
Version == Nat

(* fa: the second factor; "set" has a secret that is not yet confirmed.    *)
(* by: the invitation the account was made with.                           *)
User == [st : {"none", "active", "removed"}, role : Roles, fa : {"off", "set", "on"},
         tv : Version, by : Invs \cup {None}]
NoUser == [st |-> "none", role |-> "member", fa |-> "off", tv |-> 0, by |-> None]
Invitation == [st : {"none", "open", "expired", "accepted", "deleted"}, role : Roles]
NoInv == [st |-> "none", role |-> "member"]
Key == [u : Users, role : Roles]
Token == [u : Users, tv : Version, role : Roles]

PC == {"free", "fetch", "fetched", "act", "read", "own", "list", "team", "insert", "write",
       "mark", "tx", "consume", "invalidate"}

(* c, ci: the copies of the account and the invitation; again, late: what  *)
(* happened while the version was fetched; ver: the version fetched or     *)
(* raised.                                                                 *)
Request == [op : Operations \cup {None}, pc : PC, srv : Servers \cup {None}, t : Token \cup {None},
            u : Users \cup {None}, i : Invs \cup {None}, ch : Challs \cup {None}, role : Roles,
            c : User \cup {None}, ci : Invitation \cup {None}, ver : Version,
            again : BOOLEAN, late : BOOLEAN]
Free == [op |-> None, pc |-> "free", srv |-> None, t |-> None, u |-> None,
         i |-> None, ch |-> None, role |-> "member", c |-> None, ci |-> None, ver |-> 0,
         again |-> FALSE, late |-> FALSE]

TypeOK ==
  /\ user \in [Users -> User] /\ inv \in [Invs -> Invitation]
  /\ key \in [Keys -> Key \cup {None}]
  /\ team \subseteq Users /\ ident \in Users \cup {None}
  /\ chall \in [Challs -> [u : Users \cup {None}, used : BOOLEAN, tries : Nat]]
  /\ google \in BOOLEAN /\ token \subseteq Token
  /\ cache \in [Servers -> [Users -> Version \cup {None}]]
  /\ req \in [Slots -> Request]
  /\ left \in [ops : 0..MaxOps, events : 0..MaxEvents]
  /\ known \in [Servers -> [Users -> Version]] /\ old \in [Users -> Version]
  /\ odd \subseteq ({"restored", "crossed"} \X Users) \cup ({"unmarked", "changed"} \X Invs)

(* The person has been invited, or has joined as an administrator and      *)
(* signed in, with a second factor or without.                             *)
Init ==
  /\ \E joined \in BOOLEAN, r \in Roles, fa \in {"off", "on"} :
       LET first == [NoUser EXCEPT !.st = "active", !.role = r, !.by = 1, !.fa = fa] IN
       /\ IF joined THEN r = "admin" ELSE fa = "off"
       /\ user = [u \in Users |-> IF u = 1 /\ joined THEN first ELSE NoUser]
       /\ inv = [i \in Invs |-> IF i = 1 THEN [st |-> IF joined THEN "accepted" ELSE "open",
                                               role |-> r] ELSE NoInv]
       /\ token = IF joined THEN {[u |-> 1, tv |-> 0, role |-> r]} ELSE {}
  /\ key = [k \in Keys |-> None] /\ team = {} /\ ident = None
  /\ chall = [ch \in Challs |-> [u |-> None, used |-> FALSE, tries |-> 0]]
  /\ google = FALSE
  /\ cache = [s \in Servers |-> [u \in Users |-> None]]
  /\ req = [r \in Slots |-> Free]
  /\ left = [ops |-> MaxOps, events |-> MaxEvents]
  /\ known = [s \in Servers |-> [u \in Users |-> 0]] /\ old = [u \in Users |-> 0]
  /\ odd = {}

-----------------------------------------------------------------------------
(* Rows *)

At(r, op, pc) == req[r].op = op /\ req[r].pc = pc
Busy(r) == req[r].pc # "free"
Go(r, pc) == req' = [req EXCEPT ![r].pc = pc]
Answer(r) == req' = [req EXCEPT ![r] = Free]
Spend == left.ops > 0 /\ left' = [left EXCEPT !.ops = @ - 1]
Happens == left.events > 0 /\ left' = [left EXCEPT !.events = @ - 1]
Note(what) == odd' = odd \cup what

(* The rows of removed accounts are hidden by deleted_at, from reads and   *)
(* from updates.  One account at most has the person's address: the index  *)
(* is of the rows that are not hidden.                                     *)
Active(u) == user[u].st = "active"
Mine == {u \in Users : Active(u)}
Fresh == {u \in Users : user[u].st = "none" /\ \A v \in 1..(u - 1) : user[v].st # "none"}
FreshInv == {i \in Invs : inv[i].st = "none" /\ \A j \in 1..(i - 1) : inv[j].st # "none"}
FreshKey == {k \in Keys : key[k] = None /\ \A j \in 1..(k - 1) : key[j] # None}
Insert(u, role, by) ==
  /\ Mine = {}
  /\ user' = [user EXCEPT ![u] = [NoUser EXCEPT !.st = "active", !.role = role, !.by = by]]

Set(u, row) == user' = IF Active(u) THEN [user EXCEPT ![u] = row] ELSE user
Issued(u) == [u |-> u, tv |-> user[u].tv, role |-> user[u].role]
-----------------------------------------------------------------------------
(* SessionValidator *)

(* A token is compared with the version remembered or, if there is none,   *)
(* with the row.  A version fetched is not remembered if it was to be      *)
(* forgotten meanwhile, and is of no use if thirty seconds have passed     *)
(* since before the fetch.                                                 *)
Remembers(s, u) == cache[s][u] # None
Begin(r, op, s, t) ==
  /\ ~ Busy(r) /\ op \in Authenticated /\ Spend
  /\ Remembers(s, t.u) => cache[s][t.u] = t.tv
  /\ req' = [req EXCEPT ![r] = [Free EXCEPT !.op = op, !.srv = s, !.t = t, !.u = t.u,
                                   !.pc = IF Remembers(s, t.u) THEN "act" ELSE "fetch"]]
  /\ UNCHANGED <<rows, google, token, cache, hist>>

Fetch(r) ==
  /\ req[r].pc = "fetch"
  /\ req' = [req EXCEPT ![r] = IF Active(@.u) THEN [@ EXCEPT !.pc = "fetched", !.ver = user[req[r].u].tv]
                                 ELSE Free]
  /\ UNCHANGED <<rows, google, token, cache, left, hist>>

IgnoresForget(r) == FALSE   \* mutant: the count of invalidations is not compared
Forgotten(r) == req[r].again
Remember(r) ==
  LET s == req[r].srv  u == req[r].u  v == req[r].ver IN
  /\ req[r].pc = "fetched"
  /\ IF Forgotten(r)
     THEN /\ req' = [req EXCEPT ![r] = [@ EXCEPT !.pc = "fetch", !.ver = 0, !.again = FALSE,
                                                  !.late = FALSE]]
          /\ UNCHANGED cache
     ELSE /\ cache' = [cache EXCEPT ![s][u] = IF req[r].late THEN None ELSE v]
          /\ req' = [req EXCEPT ![r] = IF v = @.t.tv THEN [@ EXCEPT !.pc = "act", !.ver = 0,
                                                                      !.late = FALSE] ELSE Free]
  /\ UNCHANGED <<rows, google, token, left, hist>>

(* A handler answers after it has had its own replica forget the account.  *)
Later(v, w) == IF v < w THEN w ELSE v
Fetching(p) == req[p].pc \in {"fetch", "fetched"}
Invalidate(r) ==
  LET s == req[r].srv  u == req[r].u IN
  /\ req[r].pc = "invalidate"
  /\ cache' = [cache EXCEPT ![s][u] = None]
  /\ req' = [p \in Slots |-> IF p = r THEN Free
                ELSE IF Fetching(p) /\ req[p].srv = s /\ req[p].u = u
                     THEN [req[p] EXCEPT !.again = TRUE] ELSE req[p]]
  /\ known' = [known EXCEPT ![s][u] = Later(@, req[r].ver)]
  /\ UNCHANGED <<rows, google, token, left, old, odd>>

(* Thirty seconds pass: what was remembered has expired.                   *)
Tick ==
  /\ Happens
  /\ cache' = [s \in Servers |-> [u \in Users |-> None]]
  /\ req' = [r \in Slots |-> IF Fetching(r) THEN [req[r] EXCEPT !.late = TRUE] ELSE req[r]]
  /\ old' = [u \in Users |-> user[u].tv]
  /\ UNCHANGED <<rows, google, token, known, odd>>

-----------------------------------------------------------------------------
(* Signing in: without state but the rows, so that each is one step *)

(* Who was created in the Google mode has no password.                     *)
PasswordAllowed(u) == ~ google /\ user[u].by # None
Login(u) ==
  /\ Spend /\ Active(u) /\ PasswordAllowed(u)
  /\ token' = token \cup {Issued(u)}
  /\ UNCHANGED <<rows, google, cache, req, hist>>
Refresh(t) ==
  /\ Spend /\ Active(t.u) /\ t.tv = user[t.u].tv
  /\ token' = token \cup {Issued(t.u)}
  /\ UNCHANGED <<rows, google, cache, req, hist>>

(* The account is that of the identity or, the first time, the one with    *)
(* the address; with a second factor, a challenge is given out instead of  *)
(* tokens.                                                                 *)
FreshChall == {ch \in Challs : chall[ch].u = None /\ \A j \in 1..(ch - 1) : chall[j].u # None}
LoginWithOAuth(u) ==
  /\ Spend
  /\ IF ident = None THEN u \in Mine ELSE u = ident /\ Active(u)
  /\ ident' = u
  /\ IF user[u].fa = "on"
     THEN /\ \E ch \in FreshChall : chall' = [chall EXCEPT ![ch].u = u]
          /\ UNCHANGED token
     ELSE token' = token \cup {Issued(u)} /\ UNCHANGED chall
  /\ UNCHANGED <<user, inv, key, team, google, cache, req, hist>>

BeginComplete(r, ch) ==
  LET u == chall[ch].u IN
  /\ ~ Busy(r) /\ Spend /\ u # None /\ Active(u) /\ user[u].fa = "on"
  /\ req' = [req EXCEPT ![r] = [Free EXCEPT !.op = "complete", !.pc = "consume", !.u = u, !.ch = ch,
                                             !.c = user[u]]]
  /\ UNCHANGED <<rows, google, token, cache, hist>>
Unused(ch) == ~ chall[ch].used
Consume(r, right) ==
  LET ch == req[r].ch  u == req[r].u IN
  /\ At(r, "complete", "consume")
  /\ chall' = [chall EXCEPT ![ch].used = TRUE, ![ch].tries = IF Unused(ch) THEN @ + 1 ELSE @]
  /\ token' = IF Unused(ch) /\ right
              THEN token \cup {[u |-> u, tv |-> req[r].c.tv, role |-> req[r].c.role]} ELSE token
  /\ Answer(r)
  /\ UNCHANGED <<user, inv, key, team, ident, google, cache, left, hist>>

(* The administrator changes what is allowed.                              *)
Switch ==
  /\ Happens /\ google' = ~ google
  /\ UNCHANGED <<rows, token, cache, req, hist>>

-----------------------------------------------------------------------------
(* What the person does, once admitted *)

(* Three requests store the row they have read, and do not raise the       *)
(* version.                                                                *)
ReadOwn(r) ==
  LET u == req[r].u  c == user[u]  pc == req[r].pc  go(copy) ==
        req' = [req EXCEPT ![r].pc = "write", ![r].c = copy] IN
  /\ \/ pc = "act" /\ req[r].op \in {"profile", "setup"}
     \/ pc = "own" /\ req[r].op = "accept"
  /\ IF ~ Active(u) \/ (req[r].op = "setup" /\ c.fa = "on") THEN Answer(r)
     ELSE CASE req[r].op = "profile" -> go(c)
            [] req[r].op = "setup" -> go([c EXCEPT !.fa = "set"])
            [] req[r].op = "accept" -> go([c EXCEPT !.role = req[r].ci.role])
  /\ UNCHANGED <<rows, google, token, cache, left, hist>>
WriteOwn(r) ==
  LET u == req[r].u  copy == req[r].c  demotes == Active(u) /\ copy.role # user[u].role IN
  /\ req[r].op \in {"profile", "setup", "accept"} /\ req[r].pc = "write"
  /\ Set(u, copy)
  /\ Note((IF Active(u) /\ copy.tv # user[u].tv THEN {<<"restored", u>>} ELSE {})
          \cup (IF demotes /\ req[r].op = "accept" THEN {<<"crossed", u>>} ELSE {}))
  /\ IF req[r].op = "accept" THEN Go(r, "mark") ELSE Answer(r)
  /\ UNCHANGED <<inv, key, team, ident, chall, google, token, cache, left, known, old>>

(* The others set their columns and raise the version in a transaction.    *)
ReadSecure(r) ==
  LET u == req[r].u  op == req[r].op IN
  /\ req[r].pc = "act" /\ op \in {"password", "verify", "disable"}
  /\ IF Active(u) /\ (op = "password" => user[u].by # None) /\ (op = "verify" => user[u].fa # "off")
        /\ (op = "disable" => user[u].fa = "on")
     THEN Go(r, "tx") ELSE Answer(r)
  /\ UNCHANGED <<rows, google, token, cache, left, hist>>
NotBumped(u) == user[u]   \* mutant: the version stays
Raised(u) == [user[u] EXCEPT !.tv = @ + 1]
Secured(r) ==
  LET u == req[r].u IN
  CASE req[r].op = "verify" -> [Raised(u) EXCEPT !.fa = "on"]
    [] req[r].op = "disable" -> [Raised(u) EXCEPT !.fa = "off"]
    [] OTHER -> Raised(u)
StoreSecure(r) ==
  LET u == req[r].u IN
  /\ \/ req[r].op \in {"password", "verify", "disable"} /\ req[r].pc = "tx"
     \/ At(r, "logout", "act")
  /\ Set(u, Secured(r))
  /\ req' = [req EXCEPT ![r].pc = "invalidate", ![r].ver = user'[u].tv]
  /\ UNCHANGED <<inv, key, team, ident, chall, google, token, cache, left, hist>>

(* An API key carries a role of its own, at most that of the session.      *)
CreateKey(r, role) ==
  LET u == req[r].u  t == req[r].t IN
  /\ At(r, "key", "act") /\ (t.role = "admin" \/ role = "member")
  /\ \E k \in FreshKey : key' = [key EXCEPT ![k] = [u |-> u, role |-> role]]
  /\ Note(IF Active(u) /\ user[u].tv = t.tv THEN {} ELSE {<<"crossed", u>>})
  /\ Answer(r)
  /\ UNCHANGED <<user, inv, team, ident, chall, google, token, cache, left, known, old>>
RevokeKey(r, k) ==
  /\ At(r, "revoke", "act")
  /\ key' = IF key[k] # None /\ key[k].u = req[r].u THEN [key EXCEPT ![k] = None] ELSE key
  /\ Answer(r)
  /\ UNCHANGED <<user, inv, team, ident, chall, google, token, cache, left, hist>>

-----------------------------------------------------------------------------
(* Invitations *)

Start(r, op, pc, f) == /\ ~ Busy(r) /\ Spend
                       /\ req' = [req EXCEPT ![r] = [f EXCEPT !.op = op, !.pc = pc]]
                       /\ UNCHANGED <<rows, google, token, cache, hist>>

BeginInvite(r, role) ==
  Mine = {} /\ Start(r, "invite", "own", [Free EXCEPT !.role = role])
ReadMode(r) ==
  /\ At(r, "invite", "own")
  /\ req' = [req EXCEPT ![r].pc = IF google THEN "write" ELSE "list"]
  /\ UNCHANGED <<rows, google, token, cache, left, hist>>
Pending == {i \in Invs : inv[i].st = "open"}
ListPending(r) ==
  /\ At(r, "invite", "list")
  /\ IF Pending = {} THEN Go(r, "insert") ELSE Answer(r)
  /\ UNCHANGED <<rows, google, token, cache, left, hist>>
InsertInvitation(r) ==
  /\ At(r, "invite", "insert")
  /\ \E i \in FreshInv : inv' = [inv EXCEPT ![i] = [st |-> "open", role |-> req[r].role]]
  /\ Answer(r)
  /\ UNCHANGED <<user, key, team, ident, chall, google, token, cache, left, hist>>
CreateDirectly(r) ==
  /\ At(r, "invite", "write")
  /\ IF Mine = {} THEN \E u \in Fresh : Insert(u, req[r].role, None) ELSE UNCHANGED user
  /\ Answer(r)
  /\ UNCHANGED <<inv, key, team, ident, chall, google, token, cache, left, hist>>
Cancel(i) ==
  /\ Spend /\ inv[i].st \notin {"none", "deleted"}
  /\ inv' = [inv EXCEPT ![i].st = "deleted"]
  /\ UNCHANGED <<user, key, team, ident, chall, google, token, cache, req, hist>>
Expire(i) ==
  /\ Happens /\ inv[i].st = "open"
  /\ inv' = [inv EXCEPT ![i].st = "expired"]
  /\ UNCHANGED <<user, key, team, ident, chall, google, token, cache, req, hist>>

(* To join, the person creates an account or, signed in, accepts: the      *)
(* invitation is read first and marked last.                               *)
EvenAccepted(i) == inv[i].st \in {"open", "accepted"}   \* mutant: accepted_at is not looked at
Acceptable(i) == inv[i].st = "open"
BeginJoin(r, i) ==
  Acceptable(i) /\ Start(r, "join", "own", [Free EXCEPT !.i = i, !.ci = inv[i]])
ReadInvitation(r, i) ==
  /\ At(r, "accept", "act")
  /\ IF Acceptable(i) THEN req' = [req EXCEPT ![r].pc = "own", ![r].i = i, ![r].ci = inv[i]]
                      ELSE Answer(r)
  /\ UNCHANGED <<rows, google, token, cache, left, hist>>
CheckAddress(r) ==
  /\ At(r, "join", "own")
  /\ IF Mine = {} THEN Go(r, "insert") ELSE Answer(r)
  /\ UNCHANGED <<rows, google, token, cache, left, hist>>
CreateAccount(r) ==
  LET i == req[r].i  marking == \E p \in Slots : req[p].pc = "mark" /\ req[p].i = i IN
  /\ At(r, "join", "insert")
  /\ IF Mine = {}
     THEN \E u \in Fresh :
            /\ Insert(u, req[r].ci.role, i)
            /\ req' = [req EXCEPT ![r].pc = "mark", ![r].u = u]
            /\ Note(IF inv[i].st \in {req[r].ci.st, "expired"} /\ ~ marking THEN {}
                    ELSE {<<"changed", i>>})
     ELSE Answer(r) /\ UNCHANGED <<user, odd>>
  /\ UNCHANGED <<inv, key, team, ident, chall, google, token, cache, left, known, old>>
MarkAccepted(r) ==
  LET i == req[r].i IN
  /\ req[r].op \in {"join", "accept"} /\ req[r].pc = "mark"
  /\ inv' = IF inv[i].st = "deleted" THEN inv ELSE [inv EXCEPT ![i].st = "accepted"]
  /\ token' = IF req[r].op = "accept" THEN token
              ELSE token \cup {[u |-> req[r].u, tv |-> 0, role |-> req[r].ci.role]}
  /\ Answer(r)
  /\ UNCHANGED <<user, key, team, ident, chall, google, cache, left, hist>>

-----------------------------------------------------------------------------
(* Roles, removal and the team *)

BeginRole(r, s, u, role) ==
  Active(u) /\ Start(r, "role", "tx", [Free EXCEPT !.srv = s, !.u = u, !.role = role])
RevokeAllForUser(u) ==
  key' = [k \in Keys |-> IF key[k] # None /\ key[k].u = u THEN None ELSE key[k]]
StoreRole(r) ==
  LET u == req[r].u IN
  /\ At(r, "role", "tx")
  /\ Set(u, [Raised(u) EXCEPT !.role = req[r].role])
  /\ RevokeAllForUser(u)
  /\ req' = [req EXCEPT ![r].pc = "invalidate", ![r].ver = user'[u].tv]
  /\ UNCHANGED <<inv, team, ident, chall, google, token, cache, left, hist>>

BeginRemove(r, s, u) ==
  Active(u) /\ Start(r, "remove", "list", [Free EXCEPT !.srv = s, !.u = u])
ListTeams(r) ==
  /\ At(r, "remove", "list")
  /\ Go(r, IF req[r].u \in team THEN "team" ELSE "tx")
  /\ UNCHANGED <<rows, google, token, cache, left, hist>>
LeaveTeam(r) ==
  /\ At(r, "remove", "team")
  /\ team' = team \ {req[r].u} /\ Go(r, "tx")
  /\ UNCHANGED <<user, inv, key, ident, chall, google, token, cache, left, hist>>
RemoveFromOrg(r) ==
  LET u == req[r].u IN
  /\ At(r, "remove", "tx")
  /\ Set(u, [Raised(u) EXCEPT !.st = "removed"])
  /\ RevokeAllForUser(u)
  /\ req' = [req EXCEPT ![r].pc = "invalidate", ![r].ver = user'[u].tv]
  /\ UNCHANGED <<inv, team, ident, chall, google, token, cache, left, hist>>

BeginAdd(r, u) == Active(u) /\ Start(r, "add", "insert", [Free EXCEPT !.u = u])
AddTeamMember(r) ==
  LET u == req[r].u  leaving == \E p \in Slots : At(p, "remove", "tx") /\ req[p].u = u IN
  /\ At(r, "add", "insert")
  /\ team' = team \cup {u}
  /\ Note(IF Active(u) /\ ~ leaving THEN {} ELSE {<<"crossed", u>>})
  /\ Answer(r)
  /\ UNCHANGED <<user, inv, key, ident, chall, google, token, cache, left, known, old>>
RemoveTeamMember(u) ==
  /\ Spend /\ u \in team /\ team' = team \ {u}
  /\ UNCHANGED <<user, inv, key, ident, chall, google, token, cache, req, hist>>

-----------------------------------------------------------------------------
(* Failures *)

(* A call fails and the request with it.  Three failures are passed over:  *)
(* of the list of invitations, of a removal from the team, and of the mark *)
(* on the invitation someone joined with.                                  *)
Fail(r) ==
  /\ Happens /\ Busy(r) /\ req[r].pc # "invalidate"
  /\ CASE At(r, "invite", "list") -> Go(r, "insert") /\ UNCHANGED <<token, odd>>
       [] At(r, "remove", "team") ->
            Go(r, "tx") /\ Note({<<"crossed", req[r].u>>}) /\ UNCHANGED token
       [] At(r, "join", "mark") ->
            /\ Answer(r) /\ Note({<<"unmarked", req[r].i>>})
            /\ token' = token \cup {[u |-> req[r].u, tv |-> 0, role |-> req[r].ci.role]}
       [] OTHER -> Answer(r) /\ UNCHANGED <<token, odd>>
  /\ UNCHANGED <<rows, google, cache, known, old>>

(* A replica dies, with its requests and what it remembers.                *)
Crash(s) ==
  LET dead == {r \in Slots : req[r].srv = s} IN
  /\ Happens
  /\ cache' = [cache EXCEPT ![s] = [u \in Users |-> None]]
  /\ req' = [r \in Slots |-> IF r \in dead THEN Free ELSE req[r]]
  /\ UNCHANGED <<rows, google, token, hist>>

SessionNext ==
  \/ Tick \/ Switch
  \/ \E s \in Servers : Crash(s)
  \/ \E u \in Users : Login(u) \/ LoginWithOAuth(u) \/ RemoveTeamMember(u)
  \/ \E t \in token : Refresh(t)
  \/ \E i \in Invs : Cancel(i) \/ Expire(i)
BeginNext(r) ==
  \/ \E op \in Authenticated, s \in Servers, t \in token : Begin(r, op, s, t)
  \/ \E ch \in Challs : BeginComplete(r, ch)
  \/ \E role \in Roles : BeginInvite(r, role)
  \/ \E i \in Invs : BeginJoin(r, i)
  \/ \E u \in Users : BeginAdd(r, u)
  \/ \E s \in Servers, u \in Users : BeginRemove(r, s, u)
  \/ \E s \in Servers, u \in Users, role \in Roles : BeginRole(r, s, u, role)
StepNext(r) ==
  \/ Fetch(r) \/ Remember(r) \/ Invalidate(r) \/ Fail(r)
  \/ ReadOwn(r) \/ WriteOwn(r) \/ ReadSecure(r) \/ StoreSecure(r)
  \/ \E role \in Roles : CreateKey(r, role)
  \/ \E k \in Keys : RevokeKey(r, k)
  \/ \E right \in BOOLEAN : Consume(r, right)
  \/ ReadMode(r) \/ ListPending(r) \/ InsertInvitation(r) \/ CreateDirectly(r)
  \/ \E i \in Invs : ReadInvitation(r, i)
  \/ CheckAddress(r) \/ CreateAccount(r) \/ MarkAccepted(r)
  \/ StoreRole(r) \/ ListTeams(r) \/ LeaveTeam(r) \/ RemoveFromOrg(r) \/ AddTeamMember(r)
Next == SessionNext \/ \E r \in Slots : BeginNext(r) \/ StepNext(r)
Spec == Init /\ [][Next]_vars

-----------------------------------------------------------------------------
(* What it is for *)

Barred(why, x) == <<why, x>> \in odd

(* Once a request that ends sessions has been answered, its replica admits *)
(* none of them, not even one whose check was under way; the other         *)
(* replicas stop within thirty seconds.  Unless a request that stores the  *)
(* whole row has overlapped it and brought the old version back.           *)
RevokedIsRefused ==
  \A s \in Servers, u \in Users : ~ Barred("restored", u) =>
    /\ user[u].tv >= known[s][u]
    /\ Remembers(s, u) => cache[s][u] >= known[s][u] /\ cache[s][u] >= old[u]

(* Keys, tokens and memberships say what the account says, and those of    *)
(* one that was removed are gone, unless the request that made them        *)
(* overlapped the one that took them away.                                 *)
RoleIsHeld ==
  \A u \in Users : ~ Barred("restored", u) /\ ~ Barred("crossed", u) =>
    /\ u \in team => Active(u)
    /\ \A k \in Keys : key[k] # None /\ key[k].u = u =>
         Active(u) /\ (key[k].role = "admin" => user[u].role = "admin")
    /\ \A t \in token : t.u = u /\ Active(u) /\ t.tv = user[u].tv => t.role = user[u].role

(* An invitation makes one account, also when that is removed later,       *)
(* unless it was not marked, or was marked or cancelled while it was used. *)
UsedOnce ==
  \A i \in Invs : ~ Barred("unmarked", i) /\ ~ Barred("changed", i) =>
    Cardinality({u \in Users : user[u].by = i}) <= 1

(* A challenge permits one guess, of however many requests at a time.      *)
OneGuess == \A ch \in Challs : chall[ch].tries <= 1

(* Statements that the code does not keep (README, section 4).             *)

(* What a request has revoked stays revoked.                               *)
VersionsGrow == [][\A u \in Users : user'[u].tv >= user[u].tv]_user

(* The identity at Google is that of the account in use.                   *)
IdentityFollows == ident # None /\ Mine # {} => ident \in Mine
=============================================================================
