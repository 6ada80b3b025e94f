--------------------------- MODULE AccountsProofs ---------------------------
(***************************************************************************)
(* Proofs about Accounts for any number of requests, replicas, accounts,   *)
(* invitations and keys: its types; that a session that was revoked is     *)
(* refused; that keys, tokens and memberships say what the account says;   *)
(* and that an invitation makes one account.                               *)
(***************************************************************************)
EXTENDS Accounts, FiniteSetTheorems, TLAPS

-----------------------------------------------------------------------------
(* Types.  What a request carries depends on its operation.                *)

Copying == {"profile", "setup", "accept"}
Carries(q) ==
  /\ q.op \in Authenticated => q.srv \in Servers /\ q.t \in token /\ q.u = q.t.u
  /\ q.op \in {"role", "remove"} => q.srv \in Servers /\ q.u \in Users
  /\ q.op = "add" => q.u \in Users
  /\ q.op = "complete" => q.u \in Users /\ q.c \in User /\ q.ch \in Challs
  /\ q.op = "join" => q.srv = None /\ q.i \in Invs /\ q.ci \in Invitation /\ q.ci.st = "open"
  /\ q.op = "join" /\ q.pc = "mark" => q.u \in Users
  /\ q.op \in Copying /\ q.pc = "write" => q.c \in User /\ q.c.st = "active"
  /\ q.op = "accept" /\ q.pc \in {"own", "write", "mark"} => q.i \in Invs /\ q.ci \in Invitation
  /\ q.pc \in {"fetch", "fetched"} => q.op \in Authenticated
  /\ q.pc = "invalidate" => q.op \in {"password", "verify", "disable", "logout", "role", "remove"}
Supplied == \A r \in Slots : Carries(req[r])
TypeInv == TypeOK /\ Supplied

LEMMA FreeRequest ==
  /\ Free \in Request
  /\ Free.op = None /\ Free.pc = "free" /\ Free.srv = None /\ Free.t = None /\ Free.u = None
  /\ Free.i = None /\ Free.ch = None /\ Free.c = None /\ Free.ci = None /\ Free.ver = 0
  /\ Free.again = FALSE /\ Free.late = FALSE
  /\ Carries(Free)
<1>1. /\ Free \in Request
      /\ Free.op = None /\ Free.pc = "free" /\ Free.srv = None /\ Free.t = None /\ Free.u = None
      /\ Free.i = None /\ Free.ch = None /\ Free.c = None /\ Free.ci = None /\ Free.ver = 0
      /\ Free.again = FALSE /\ Free.late = FALSE
  BY DEF Free, Request, PC, Roles, Version
<1>2. None \notin Operations
  BY AccountsAssumption
<1> QED
  BY <1>1, <1>2 DEF Carries, Copying, Operations, Authenticated

(* A step of one request.                                                  *)
Only(r) == /\ req' \in [Slots -> Request]
           /\ \A p \in Slots \ {r} : req'[p] = req[p]

LEMMA AnswerMoves ==
  ASSUME TypeOK, NEW r \in Slots, Answer(r)
  PROVE  Only(r) /\ req'[r] = Free
BY FreeRequest DEF Answer, Only, TypeOK

LEMMA PutMoves ==
  ASSUME TypeOK, NEW r \in Slots, NEW q \in Request, req' = [req EXCEPT ![r] = q]
  PROVE  Only(r) /\ req'[r] = q
BY DEF Only, TypeOK

LEMMA GoMoves ==
  ASSUME TypeOK, NEW r \in Slots, NEW pc \in PC, Go(r, pc)
  PROVE  /\ Only(r)
         /\ req'[r].pc = pc /\ req'[r].op = req[r].op /\ req'[r].srv = req[r].srv
         /\ req'[r].t = req[r].t /\ req'[r].u = req[r].u /\ req'[r].i = req[r].i
         /\ req'[r].ch = req[r].ch /\ req'[r].role = req[r].role /\ req'[r].c = req[r].c
         /\ req'[r].ci = req[r].ci /\ req'[r].ver = req[r].ver
<1>1. req[r] \in Request /\ req' = [req EXCEPT ![r] = [req[r] EXCEPT !.pc = pc]]
  BY DEF Go, TypeOK
<1>2. [req[r] EXCEPT !.pc = pc] \in Request
  BY <1>1 DEF Request
<1>3. Only(r) /\ req'[r] = [req[r] EXCEPT !.pc = pc]
  BY <1>1, <1>2, PutMoves
<1> QED
  BY <1>1, <1>3 DEF Request

LEMMA SetTypes ==
  ASSUME TypeOK, NEW u \in Users
  PROVE  /\ user[u] \in User
         /\ \A row \in User : Set(u, row) => user' \in [Users -> User]
         /\ Raised(u) \in User
         /\ \A fa \in {"off", "set", "on"} : [Raised(u) EXCEPT !.fa = fa] \in User
         /\ \A role \in Roles : [Raised(u) EXCEPT !.role = role] \in User
         /\ [Raised(u) EXCEPT !.st = "removed"] \in User
<1>1. user[u] \in User /\ user \in [Users -> User]
  BY DEF TypeOK
<1>2. Raised(u) \in User
  BY <1>1 DEF Raised, User, Version
<1> QED
  BY <1>1, <1>2 DEF User, Set

LEMMA InitType == Init => TypeInv
<1> SUFFICES ASSUME Init PROVE TypeInv
  OBVIOUS
<1>1. PICK joined \in BOOLEAN, rl \in Roles, fa \in {"off", "on"} :
        LET first == [NoUser EXCEPT !.st = "active", !.role = rl, !.by = 1, !.fa = fa] IN
        /\ user = [u \in Users |-> IF u = 1 /\ joined THEN first ELSE NoUser]
        /\ inv = [i \in Invs |-> IF i = 1 THEN [st |-> IF joined THEN "accepted" ELSE "open",
                                                role |-> rl] ELSE NoInv]
        /\ token = IF joined THEN {[u |-> 1, tv |-> 0, role |-> rl]} ELSE {}
  BY ZenonT(60) DEF Init
<1>2. 1 \in Users /\ 1 \in Invs
  BY AccountsAssumption DEF Users, Invs
<1>3. user \in [Users -> User] /\ inv \in [Invs -> Invitation] /\ token \subseteq Token
  <2>1. NoUser \in User /\ [NoUser EXCEPT !.st = "active", !.role = rl, !.by = 1, !.fa = fa] \in User
    BY <1>2 DEF NoUser, User, Roles, Version
  <2>2. [u |-> 1, tv |-> 0, role |-> rl] \in Token
    BY <1>2 DEF Token, Version
  <2>3. NoInv \in Invitation /\ \A st \in {"accepted", "open"} : [st |-> st, role |-> rl] \in Invitation
    BY DEF NoInv, Invitation, Roles
  <2> QED
    BY <1>1, <2>1, <2>2, <2>3
<1>4. req = [r \in Slots |-> Free] /\ req \in [Slots -> Request]
  BY FreeRequest DEF Init
<1>5. Supplied
  BY <1>4, FreeRequest DEF Supplied
<1>6. left \in [ops : 0..MaxOps, events : 0..MaxEvents]
  BY AccountsAssumption DEF Init
<1>7. cache \in [Servers -> [Users -> Version \cup {None}]] /\ known \in [Servers -> [Users -> Version]]
  BY DEF Init, Version
<1>8. /\ key \in [Keys -> Key \cup {None}] /\ team \subseteq Users /\ ident \in Users \cup {None}
      /\ chall \in [Challs -> [u : Users \cup {None}, used : BOOLEAN, tries : Nat]]
      /\ google \in BOOLEAN
      /\ old \in [Users -> Version]
      /\ odd \subseteq ({"restored", "crossed"} \X Users) \cup ({"unmarked", "changed"} \X Invs)
  BY DEF Init, Version
<1> QED
  BY <1>3, <1>4, <1>5, <1>6, <1>7, <1>8 DEF TypeInv, TypeOK

LEMMA OneSupplied ==
  ASSUME TypeInv, NEW r \in Slots, Only(r), token \subseteq token', Carries(req[r])'
  PROVE  Supplied'
BY DEF TypeInv, Supplied, Only, Carries

LEMMA SpendType ==
  ASSUME TypeOK, Spend \/ Happens
  PROVE  left' \in [ops : 0..MaxOps, events : 0..MaxEvents]
<1>1. left \in [ops : 0..MaxOps, events : 0..MaxEvents]
  BY DEF TypeOK
<1>2. ASSUME Spend PROVE left.ops - 1 \in 0..MaxOps
  BY <1>1, <1>2, AccountsAssumption DEF Spend
<1>3. ASSUME Happens PROVE left.events - 1 \in 0..MaxEvents
  BY <1>1, <1>3, AccountsAssumption DEF Happens
<1> QED
  BY <1>1, <1>2, <1>3 DEF Spend, Happens

(* What only the requests and bounds make of the state.                    *)
Still == UNCHANGED <<rows, google, token, cache, hist>>

LEMMA StillType ==
  ASSUME TypeInv, Still, req' \in [Slots -> Request], Supplied',
         left' = left \/ Spend \/ Happens
  PROVE  TypeInv'
<1>1. left' \in [ops : 0..MaxOps, events : 0..MaxEvents]
  BY SpendType DEF TypeInv, TypeOK
<1> QED
  BY <1>1 DEF TypeInv, TypeOK, Still, rows, hist

LEMMA Fields ==
  ASSUME TypeInv
  PROVE  /\ \A u \in Users : user[u] \in User /\ user[u].tv \in Version /\ user[u].role \in Roles
         /\ \A r \in Slots : req[r] \in Request /\ req[r].pc \in PC /\ Carries(req[r])
         /\ \A i \in Invs : inv[i] \in Invitation
         /\ \A t \in token : t \in Token /\ t.u \in Users /\ t.role \in Roles /\ t.tv \in Version
BY DEF TypeInv, TypeOK, Supplied, User, Token, Request

-----------------------------------------------------------------------------
(* What is known of the rows *)

NewInv == \A u \in Users : user[u].st = "none" => user[u].tv = 0 /\ user[u].by = None

(* A version only falls when an old row is restored.  What is about to be  *)
(* remembered is no older than what the replica has answered for, unless   *)
(* it was to be forgotten meanwhile, and no older than thirty seconds,     *)
(* unless these have passed since.                                         *)
Refused(u) ==
  /\ old[u] <= user[u].tv
  /\ \A s \in Servers : /\ known[s][u] <= user[u].tv
                        /\ Remembers(s, u) => cache[s][u] >= known[s][u] /\ cache[s][u] >= old[u]
  /\ \A r \in Slots : req[r].u = u =>
       /\ req[r].pc = "invalidate" => req[r].ver <= user[u].tv
       /\ req[r].pc = "fetched" =>
            /\ ~ req[r].again => req[r].ver >= known[req[r].srv][u]
            /\ ~ req[r].late => req[r].ver >= old[u]
RevokeInv == \A u \in Users : ~ Barred("restored", u) => Refused(u)

(* A copy of an account with the version of the row has its role; who      *)
(* accepts an invitation is about to change it.                            *)
Agrees(u, tv, role) ==
  /\ user[u].st # "none" /\ tv <= user[u].tv
  /\ tv = user[u].tv /\ Active(u) => role = user[u].role
Copied(q) == q.op = "complete" \/ (q.op \in Copying /\ q.pc = "write")
Leaving(q) == q.op = "remove" /\ q.pc = "tx"
Marking(q) == q.op = "join" /\ q.pc = "mark"
Quiet(q) == ~ Copied(q) /\ ~ Leaving(q) /\ ~ Marking(q)
Fits(u, q) ==
  /\ Leaving(q) => u \notin team
  /\ Copied(q) => Agrees(u, q.c.tv, IF q.op = "accept" THEN user[u].role ELSE q.c.role)
  /\ Marking(q) => Agrees(u, 0, q.ci.role)
Held(u) ==
  /\ u \in team => Active(u)
  /\ \A k \in Keys : key[k] # None /\ key[k].u = u =>
       Active(u) /\ (key[k].role = "admin" => user[u].role = "admin")
  /\ \A t \in token : t.u = u => Agrees(u, t.tv, t.role)
  /\ \A r \in Slots : req[r].u = u => Fits(u, req[r])
RoleInv == \A u \in Users : ~ Barred("restored", u) /\ ~ Barred("crossed", u) => Held(u)

(* An invitation that has made an account is marked, or about to be.       *)
Used(i) ==
  /\ \A u, v \in Users : user[u].by = i /\ user[v].by = i => u = v
  /\ \A u \in Users : user[u].by = i =>
       inv[i].st \in {"accepted", "deleted"} \/ \E r \in Slots : Marking(req[r]) /\ req[r].i = i
OnceInv ==
  /\ \A r \in Slots : req[r].op \in Copying /\ req[r].pc = "write" =>
       user[req[r].u].st # "none" /\ req[r].c.by = user[req[r].u].by
  /\ \A i \in Invs : ~ Barred("unmarked", i) /\ ~ Barred("changed", i) => Used(i)

AccountInv == TypeInv /\ NewInv /\ RevokeInv /\ RoleInv /\ OnceInv

(* Steps that a conjunct does not look at.                                 *)
Left(u, q) == Leaving(q) /\ u \notin team'
LEMMA RevokeStays ==
  ASSUME RevokeInv, UNCHANGED <<user, cache, known, old>>, odd \subseteq odd',
         \A p \in Slots : req'[p] = req[p] \/ req'[p].pc \notin {"fetched", "invalidate"}
  PROVE  RevokeInv'
<1>1. ASSUME NEW u \in Users, Refused(u)
      PROVE  Refused(u)'
  BY <1>1 DEF Refused, Remembers
<1> QED
  BY <1>1 DEF RevokeInv, Barred

LEMMA RoleStays ==
  ASSUME RoleInv, UNCHANGED user, team' \subseteq team, odd \subseteq odd',
         \A k \in Keys : key'[k] = key[k] \/ key'[k] = None,
         \A u \in Users : Held(u) /\ ~ Barred("crossed", u)' =>
           /\ \A t \in token' : t.u = u => t \in token \/ Agrees(u, t.tv, t.role)
           /\ \A p \in Slots : req'[p].u = u =>
                req'[p] = req[p] \/ Quiet(req'[p]) \/ Fits(u, req'[p]) \/ Left(u, req'[p])
  PROVE  RoleInv'
<1>1. ASSUME NEW u \in Users, Held(u), ~ Barred("crossed", u)'
      PROVE  Held(u)'
  <2>1. \A tv, role : Agrees(u, tv, role)' <=> Agrees(u, tv, role)
    BY DEF Agrees, Active
  <2>2. \A t \in token' : t.u = u => Agrees(u, t.tv, t.role)'
    BY <1>1, <2>1 DEF Held
  <2>3. ASSUME NEW p \in Slots, req'[p].u = u
        PROVE  Fits(u, req[p])'
    <3>1. Fits(u, req'[p]) \/ Left(u, req'[p])
      <4>1. CASE req'[p] = req[p]
        BY <1>1, <2>3, <4>1 DEF Held
      <4>2. CASE Quiet(req'[p])
        BY <4>2 DEF Quiet, Fits
      <4> QED
        BY <1>1, <2>3, <4>1, <4>2
    <3>2. CASE Fits(u, req'[p])
      BY <2>1, <3>2 DEF Fits
    <3>3. CASE Left(u, req'[p])
      BY <3>3 DEF Fits, Left, Leaving, Copied, Copying, Marking
    <3> QED
      BY <3>1, <3>2, <3>3
  <2>4. /\ u \in team' => Active(u)'
        /\ \A k \in Keys : key'[k] # None /\ key'[k].u = u =>
             Active(u)' /\ (key'[k].role = "admin" => user'[u].role = "admin")
    BY <1>1 DEF Held, Active
  <2> QED
    BY <2>2, <2>3, <2>4 DEF Held
<1> QED
  BY <1>1 DEF RoleInv, Barred

Kept == \A i \in Invs : inv[i].st \in {"accepted", "deleted"} => inv'[i].st \in {"accepted", "deleted"}
Copies(q) == q.op \in Copying /\ q.pc = "write"
LEMMA OnceStays ==
  ASSUME OnceInv, UNCHANGED user, odd \subseteq odd', Kept,
         \A p \in Slots : req'[p] = req[p] \/ (~ Copies(req'[p]) /\ ~ Marking(req[p]))
  PROVE  OnceInv'
<1>1. ASSUME NEW i \in Invs, Used(i)
      PROVE  Used(i)'
  <2>1. \A p \in Slots : Marking(req[p]) => req'[p] = req[p]
    OBVIOUS
  <2> QED
    BY <1>1, <2>1 DEF Used, Kept, Marking
<1>2. \A p \in Slots : req'[p].op \in Copying /\ req'[p].pc = "write" =>
        user[req'[p].u].st # "none" /\ req'[p].c.by = user[req'[p].u].by
  BY DEF OnceInv, Copies
<1> QED
  BY <1>1, <1>2 DEF OnceInv, Barred

-----------------------------------------------------------------------------
(* Steps *)

Begun(q) == /\ q.pc \notin {"fetched", "invalidate", "mark"} /\ ~ Leaving(q)
            /\ Copied(q) => q.op = "complete" /\ q.u \in Users /\ Active(q.u) /\ q.c = user[q.u]

LEMMA BeginType ==
  ASSUME TypeInv, NEW r \in Slots, BeginNext(r)
  PROVE  TypeInv' /\ Still /\ Only(r) /\ req[r].pc = "free" /\ Begun(req'[r])
<1>1. Spend /\ Still
  BY DEF BeginNext, Begin, BeginComplete, BeginInvite, BeginJoin, BeginAdd, BeginRole, BeginRemove, Start, Still
<1>2. \E q \in Request : req' = [req EXCEPT ![r] = q] /\ Carries(q) /\ Begun(q)
  <2>n. None \notin Operations /\ None \notin Servers
    BY AccountsAssumption
  <2>1. ASSUME NEW op \in Authenticated, NEW s \in Servers, NEW t \in token, Begin(r, op, s, t)
        PROVE  \E q \in Request : req' = [req EXCEPT ![r] = q] /\ Carries(q) /\ Begun(q)
    <3>1. PICK pc \in {"act", "fetch"} :
            req' = [req EXCEPT ![r] = [Free EXCEPT !.op = op, !.srv = s, !.t = t, !.u = t.u, !.pc = pc]]
      BY <2>1 DEF Begin
    <3> DEFINE q == [Free EXCEPT !.op = op, !.srv = s, !.t = t, !.u = t.u, !.pc = pc]
    <3>2. q \in Request
      BY <2>1, Fields, FreeRequest DEF Request, PC, Operations
    <3>3. q.op = op /\ q.srv = s /\ q.t = t /\ q.u = t.u /\ q.pc = pc
      BY FreeRequest DEF Request
    <3>4. Carries(q) /\ Begun(q)
      <4> HIDE DEF q
      <4> QED BY <3>1, <3>3 DEF Carries, Authenticated, Copying, Begun, Copied, Leaving
    <3> QED
      BY <3>1, <3>2, <3>4
  <2>2. ASSUME NEW ch \in Challs, BeginComplete(r, ch)
        PROVE  \E q \in Request : req' = [req EXCEPT ![r] = q] /\ Carries(q) /\ Begun(q)
    <3> DEFINE u == chall[ch].u
               q == [Free EXCEPT !.op = "complete", !.pc = "consume", !.u = u, !.ch = ch, !.c = user[u]]
    <3>1. req' = [req EXCEPT ![r] = q] /\ u \in Users /\ Active(u)
      BY <2>2 DEF BeginComplete, TypeInv, TypeOK
    <3>2. q \in Request
      BY <3>1, Fields, FreeRequest DEF Request, PC, Operations
    <3>3. q.op = "complete" /\ q.u = u /\ q.ch = ch /\ q.c = user[u] /\ q.pc = "consume"
      BY FreeRequest DEF Request
    <3>4. Carries(q) /\ Begun(q)
      <4>1. user[u] \in User
        BY <3>1, Fields
      <4> HIDE DEF q, u
      <4> QED BY <3>1, <3>3, <4>1 DEF Carries, Authenticated, Copying, Begun, Copied, Leaving
    <3> QED
      BY <3>1, <3>2, <3>4
  <2>3. ASSUME NEW role \in Roles, BeginInvite(r, role)
        PROVE  \E q \in Request : req' = [req EXCEPT ![r] = q] /\ Carries(q) /\ Begun(q)
    <3> DEFINE q == [[Free EXCEPT !.role = role] EXCEPT !.op = "invite", !.pc = "own"]
    <3>1. req' = [req EXCEPT ![r] = q]
      BY <2>3 DEF BeginInvite, Start
    <3>2. q \in Request /\ q.op = "invite" /\ q.pc = "own"
      BY FreeRequest, ZenonT(60) DEF Request, PC, Operations
    <3>3. Carries(q) /\ Begun(q)
      <4> HIDE DEF q
      <4> QED BY <3>2 DEF Carries, Authenticated, Copying, Begun, Copied, Leaving
    <3> QED
      BY <3>1, <3>2, <3>3
  <2>4. ASSUME NEW i \in Invs, BeginJoin(r, i)
        PROVE  \E q \in Request : req' = [req EXCEPT ![r] = q] /\ Carries(q) /\ Begun(q)
    <3> DEFINE q == [[Free EXCEPT !.i = i, !.ci = inv[i]] EXCEPT !.op = "join", !.pc = "own"]
    <3>1. req' = [req EXCEPT ![r] = q] /\ inv[i].st = "open" /\ inv[i] \in Invitation
      BY <2>4, Fields DEF BeginJoin, Acceptable, Start
    <3>2. q \in Request /\ q.op = "join" /\ q.pc = "own" /\ q.i = i /\ q.ci = inv[i] /\ q.srv = None
      BY <3>1, FreeRequest DEF Request, PC, Operations
    <3>3. Carries(q) /\ Begun(q)
      <4> HIDE DEF q
      <4> QED BY <3>1, <3>2 DEF Carries, Authenticated, Copying, Begun, Copied, Leaving
    <3> QED
      BY <3>1, <3>2, <3>3
  <2>5. ASSUME NEW u \in Users, BeginAdd(r, u)
        PROVE  \E q \in Request : req' = [req EXCEPT ![r] = q] /\ Carries(q) /\ Begun(q)
    <3> DEFINE q == [[Free EXCEPT !.u = u] EXCEPT !.op = "add", !.pc = "insert"]
    <3>1. req' = [req EXCEPT ![r] = q]
      BY <2>5 DEF BeginAdd, Start
    <3>2. q \in Request /\ q.op = "add" /\ q.pc = "insert" /\ q.u = u
      BY FreeRequest DEF Request, PC, Operations
    <3>3. Carries(q) /\ Begun(q)
      <4> HIDE DEF q
      <4> QED BY <3>2 DEF Carries, Authenticated, Copying, Begun, Copied, Leaving
    <3> QED
      BY <3>1, <3>2, <3>3
  <2>6. ASSUME NEW s \in Servers, NEW u \in Users,
               BeginRemove(r, s, u) \/ \E role \in Roles : BeginRole(r, s, u, role)
        PROVE  \E q \in Request : req' = [req EXCEPT ![r] = q] /\ Carries(q) /\ Begun(q)
    <3>1. PICK f \in Request, op \in {"role", "remove"}, pc \in {"tx", "list"} :
            /\ f.srv = s /\ f.u = u /\ req' = [req EXCEPT ![r] = [f EXCEPT !.op = op, !.pc = pc]]
            /\ op = "remove" => pc = "list"
      <4>1. CASE BeginRemove(r, s, u)
        <5>1. [Free EXCEPT !.srv = s, !.u = u] \in Request
          BY FreeRequest DEF Request
        <5> QED
          BY <4>1, <5>1, FreeRequest DEF BeginRemove, Start, Request
      <4>2. CASE \E role \in Roles : BeginRole(r, s, u, role)
        <5>1. \A role \in Roles : [Free EXCEPT !.srv = s, !.u = u, !.role = role] \in Request
          BY FreeRequest DEF Request
        <5> QED
          BY <4>2, <5>1, FreeRequest DEF BeginRole, Start, Request
      <4> QED
        BY <2>6, <4>1, <4>2
    <3> DEFINE q == [f EXCEPT !.op = op, !.pc = pc]
    <3>2. q \in Request /\ q.op = op /\ q.pc = pc /\ q.u = u /\ q.srv = s
      BY <3>1, ZenonT(60) DEF Request, PC, Operations
    <3>3. Carries(q) /\ Begun(q)
      <4> HIDE DEF q
      <4> QED BY <3>1, <3>2 DEF Carries, Authenticated, Copying, Begun, Copied, Leaving
    <3> QED
      BY <3>1, <3>2, <3>3
  <2> QED
    BY <2>1, <2>2, <2>3, <2>4, <2>5, <2>6 DEF BeginNext
<1>3. Only(r) /\ Supplied' /\ Begun(req'[r])
  <2>1. PICK q \in Request : req' = [req EXCEPT ![r] = q] /\ Carries(q) /\ Begun(q)
    BY <1>2
  <2>2. Only(r) /\ req'[r] = q
    BY <2>1, PutMoves DEF TypeInv
  <2>3. Carries(req[r])'
    BY <1>1, <2>1, <2>2 DEF Carries, Still
  <2>4. Begun(req'[r])
    BY <2>1, <2>2
  <2>5. Supplied'
    BY <1>1, <2>2, <2>3, OneSupplied DEF Still
  <2> QED
    BY <2>2, <2>4, <2>5
<1>4. req[r].pc = "free"
  BY DEF BeginNext, Begin, BeginComplete, BeginInvite, BeginJoin, BeginAdd, BeginRole, BeginRemove, Start, Busy
<1> QED
  BY <1>1, <1>3, <1>4, StillType DEF Only

LEMMA BeginKeeps ==
  ASSUME AccountInv, NEW r \in Slots, BeginNext(r)
  PROVE  AccountInv'
<1>0. TypeInv /\ NewInv /\ RevokeInv /\ RoleInv /\ OnceInv
  BY DEF AccountInv
<1>1. TypeInv' /\ Still /\ Only(r) /\ req[r].pc = "free" /\ Begun(req'[r])
  BY <1>0, BeginType
<1>2. /\ UNCHANGED <<user, inv, key, team, token, cache, known, old, odd>>
      /\ ~ Marking(req[r]) /\ ~ Marking(req'[r]) /\ ~ Copies(req'[r])
  BY <1>1 DEF Still, rows, hist, Marking, Begun, Copied, Copying, Copies
<1>3. RevokeInv'
  BY <1>0, <1>1, <1>2, RevokeStays DEF Begun, Only
<1>4. OnceInv'
  BY <1>0, <1>1, <1>2, OnceStays DEF Begun, Only, Kept
<1>5. RoleInv'
  <2>1. ASSUME NEW u \in Users, req'[r].u = u PROVE Fits(u, req'[r])
    <3>1. user[u].tv \in Nat
      BY <1>0, Fields DEF Version
    <3> QED
      BY <1>1, <1>2, <2>1, <3>1 DEF Begun, Agrees, Active, Fits
  <2> QED
    BY <1>0, <1>1, <1>2, <2>1, RoleStays DEF Only
<1>6. NewInv'
  BY <1>0, <1>2 DEF NewInv
<1> QED
  BY <1>1, <1>3, <1>4, <1>5, <1>6 DEF AccountInv

(* A step of one request that leaves the rows alone.                       *)
LEMMA QuietKeeps ==
  ASSUME AccountInv, NEW r \in Slots, Only(r), Carries(req'[r]), Still,
         left' = left \/ Spend \/ Happens,
         req'[r].pc \notin {"fetched", "invalidate"}, Quiet(req'[r]), ~ Marking(req[r])
  PROVE  AccountInv'
<1>0. TypeInv /\ NewInv /\ RevokeInv /\ RoleInv /\ OnceInv
  BY DEF AccountInv
<1>1. UNCHANGED <<user, inv, key, team, token, cache, known, old, odd>>
  BY DEF Still, rows, hist
<1>2. Carries(req[r])'
  BY <1>1 DEF Carries
<1>3. TypeInv'
  BY <1>0, <1>1, <1>2, OneSupplied, StillType DEF Only
<1>4. RevokeInv'
  BY <1>0, <1>1, RevokeStays DEF Only
<1>5. RoleInv'
  BY <1>0, <1>1, RoleStays DEF Only
<1>6. OnceInv'
  <2>1. ~ Copies(req'[r])
    BY DEF Quiet, Copied, Copies
  <2> QED
    BY <1>0, <1>1, <2>1, OnceStays DEF Only, Kept
<1>7. NewInv'
  BY <1>0, <1>1 DEF NewInv
<1> QED
  BY <1>3, <1>4, <1>5, <1>6, <1>7 DEF AccountInv

(* The lemmas below have one form: an action keeps the invariant.          *)
LEMMA AnswerKeeps ==
  ASSUME AccountInv, NEW r \in Slots, Answer(r), Still, left' = left \/ Spend \/ Happens, ~ Marking(req[r])
  PROVE  AccountInv'
<1>1. TypeOK
  BY DEF AccountInv, TypeInv
<1>2. Only(r) /\ req'[r] = Free
  BY <1>1, AnswerMoves
<1>3. Carries(Free) /\ Free.pc \notin {"fetched", "invalidate"} /\ Quiet(Free)
  <2>1. None \notin Operations
    BY AccountsAssumption
  <2> QED
    BY <2>1, FreeRequest DEF Quiet, Copied, Leaving, Marking, Copying, Operations, Authenticated
<1> QED
  BY <1>2, <1>3, QuietKeeps

LEMMA GoKeeps ==
  ASSUME AccountInv, NEW r \in Slots, Still, left' = left \/ Spend \/ Happens,
         NEW pc \in {"act", "list", "write", "insert", "tx", "team"}, Go(r, pc),
         req[r].op \in {"password", "verify", "disable", "invite", "join", "remove"},
         ~ Marking(req[r]), req[r].op = "remove" => pc # "tx"
  PROVE  AccountInv'
<1>1. TypeOK /\ Carries(req[r])
  BY DEF AccountInv, TypeInv, Supplied
<1>2. /\ Only(r)
      /\ req'[r].pc = pc /\ req'[r].op = req[r].op /\ req'[r].srv = req[r].srv
      /\ req'[r].t = req[r].t /\ req'[r].u = req[r].u /\ req'[r].i = req[r].i
      /\ req'[r].ch = req[r].ch /\ req'[r].c = req[r].c /\ req'[r].ci = req[r].ci
  BY <1>1, GoMoves DEF PC
<1>3. Carries(req'[r])
  BY <1>1, <1>2 DEF Carries, Copying, Authenticated
<1>4. req'[r].pc \notin {"fetched", "invalidate"} /\ Quiet(req'[r])
  BY <1>2 DEF Quiet, Copied, Leaving, Marking, Copying
<1> QED
  BY <1>2, <1>3, <1>4, QuietKeeps

LEMMA ReadKeeps ==
  ASSUME AccountInv, NEW r \in Slots,
         ReadMode(r) \/ ListPending(r) \/ CheckAddress(r) \/ ReadSecure(r)
  PROVE  AccountInv'
<1>1. Still /\ left' = left /\ ~ Marking(req[r])
  BY DEF ReadMode, ListPending, CheckAddress, ReadSecure, Still, At, Marking
<1>2. CASE ReadMode(r)
  <2>1. Go(r, "write") \/ Go(r, "list")
    BY <1>2 DEF ReadMode, Go
  <2> QED
    BY <1>1, <1>2, <2>1, GoKeeps DEF ReadMode, At
<1>3. CASE ListPending(r)
  BY <1>1, <1>3, GoKeeps, AnswerKeeps DEF ListPending, At
<1>4. CASE CheckAddress(r)
  BY <1>1, <1>4, GoKeeps, AnswerKeeps DEF CheckAddress, At
<1>5. CASE ReadSecure(r)
  BY <1>1, <1>5, GoKeeps, AnswerKeeps DEF ReadSecure
<1> QED
  BY <1>2, <1>3, <1>4, <1>5

LEMMA ReadInvitationKeeps ==
  ASSUME AccountInv, NEW r \in Slots, NEW i \in Invs, ReadInvitation(r, i)
  PROVE  AccountInv'
<1>1. Still /\ left' = left /\ ~ Marking(req[r])
  BY DEF ReadInvitation, Still, At, Marking
<1>2. CASE ~ Acceptable(i)
  BY <1>1, <1>2, AnswerKeeps DEF ReadInvitation
<1>3. CASE Acceptable(i)
  <2>1. TypeInv /\ req[r] \in Request /\ Carries(req[r]) /\ inv[i] \in Invitation
    BY Fields DEF AccountInv
  <2>2. req[r].op = "accept" /\ req' = [req EXCEPT ![r].pc = "own", ![r].i = i, ![r].ci = inv[i]]
    BY <1>3 DEF ReadInvitation, At
  <2> DEFINE q == [req[r] EXCEPT !.pc = "own", !.i = i, !.ci = inv[i]]
  <2>3. req' = [req EXCEPT ![r] = q]
    BY <2>1, <2>2 DEF TypeInv, TypeOK
  <2>4. /\ q \in Request /\ q.op = "accept" /\ q.pc = "own" /\ q.i = i /\ q.ci = inv[i]
        /\ q.srv = req[r].srv /\ q.t = req[r].t /\ q.u = req[r].u
    BY <2>1, <2>2, ZenonT(60) DEF Request, PC
  <2>5. Carries(q) /\ q.pc \notin {"fetched", "invalidate"} /\ Quiet(q)
    <3> HIDE DEF q
    <3> QED BY <2>1, <2>2, <2>4 DEF Carries, Copying, Authenticated, Quiet, Copied, Leaving, Marking
  <2>6. Only(r) /\ req'[r] = q
    <3> HIDE DEF q
    <3> QED BY <2>1, <2>3, <2>4, PutMoves DEF TypeInv
  <2> QED
    <3> HIDE DEF q
    <3> QED BY <1>1, <2>5, <2>6, QuietKeeps
<1> QED
  BY <1>2, <1>3

(* The session: what is remembered and what is on its way to be.           *)
LEMMA FetchKeeps ==
  ASSUME AccountInv, NEW r \in Slots, Fetch(r)
  PROVE  AccountInv'
<1>0. TypeInv /\ NewInv /\ RevokeInv /\ RoleInv /\ OnceInv /\ Still /\ left' = left
  BY DEF AccountInv, Fetch, Still
<1>1. req[r] \in Request /\ Carries(req[r]) /\ req[r].pc = "fetch" /\ req[r].op \in Authenticated
      /\ ~ Marking(req[r])
  BY <1>0, Fields DEF Fetch, Carries, Marking
<1>u. req[r].u \in Users
  BY <1>0, <1>1, Fields DEF Carries
<1>2. CASE ~ Active(req[r].u)
  <2>1. Answer(r)
    BY <1>0, <1>1, <1>2 DEF Fetch, Answer, TypeInv, TypeOK
  <2> QED
    BY <1>0, <1>1, <2>1, AnswerKeeps
<1>3. CASE Active(req[r].u)
  <2> DEFINE q == [req[r] EXCEPT !.pc = "fetched", !.ver = user[req[r].u].tv]
  <2>1. req' = [req EXCEPT ![r] = q]
    BY <1>0, <1>3 DEF Fetch, TypeInv, TypeOK
  <2>2. /\ q \in Request /\ q.op = req[r].op /\ q.pc = "fetched" /\ q.srv = req[r].srv /\ q.t = req[r].t
        /\ q.u = req[r].u /\ q.ver = user[req[r].u].tv
    BY <1>0, <1>1, <1>u, Fields, ZenonT(60) DEF Request, PC
  <2>3. Only(r) /\ req'[r] = q
    <3> HIDE DEF q
    <3> QED BY <1>0, <2>1, <2>2, PutMoves DEF TypeInv
  <2>4. Carries(q) /\ Quiet(q) /\ ~ Copies(q)
    <3> HIDE DEF q
    <3> QED BY <1>1, <2>2 DEF Carries, Authenticated, Copying, Quiet, Copied, Leaving, Marking, Copies
  <2> HIDE DEF q
  <2>5. UNCHANGED <<user, inv, key, team, token, cache, known, old, odd>>
    BY <1>0 DEF Still, rows, hist
  <2>6. Carries(req[r])'
    BY <2>3, <2>4, <2>5 DEF Carries
  <2>7. TypeInv'
    BY <1>0, <2>3, <2>5, <2>6, OneSupplied, StillType DEF Only
  <2>8. RoleInv' /\ OnceInv' /\ NewInv'
    BY <1>0, <1>1, <2>3, <2>4, <2>5, RoleStays, OnceStays DEF Only, Kept, NewInv
  <2>9. ASSUME NEW u \in Users, Refused(u) PROVE Refused(u)'
    <3>1. req[r].u = u => q.ver = user[u].tv /\ q.srv \in Servers
      BY <1>1, <2>2 DEF Carries
    <3>2. /\ \A v, w \in Nat : v <= w => w >= v
          /\ user[u].tv \in Nat /\ old[u] \in Nat /\ \A s \in Servers : known[s][u] \in Nat
      BY <1>0, Fields DEF Version, TypeInv, TypeOK
    <3>3. req'[r].u = u => /\ q.ver >= known[q.srv][u] /\ q.ver >= old[u]
      BY <2>2, <2>3, <2>9, <3>1, <3>2 DEF Refused
    <3> QED
      BY <2>2, <2>3, <2>5, <2>9, <3>3 DEF Refused, Remembers, Only
  <2> QED
    BY <1>0, <2>5, <2>7, <2>8, <2>9 DEF AccountInv, RevokeInv, Barred
<1> QED
  BY <1>2, <1>3

LEMMA RememberKeeps ==
  ASSUME AccountInv, NEW r \in Slots, Remember(r)
  PROVE  AccountInv'
<1>0. TypeInv /\ NewInv /\ RevokeInv /\ RoleInv /\ OnceInv
  BY DEF AccountInv
<1>1. /\ req[r] \in Request /\ Carries(req[r]) /\ req[r].pc = "fetched" /\ req[r].op \in Authenticated
      /\ ~ Marking(req[r]) /\ req[r].srv \in Servers /\ req[r].u \in Users /\ req[r].ver \in Nat
  BY <1>0, Fields DEF Remember, Carries, Marking, Request, Version
<1>2. UNCHANGED <<rows, google, token, left, hist>>
  BY DEF Remember
<1>3. CASE Forgotten(r)
  <2> DEFINE q == [req[r] EXCEPT !.pc = "fetch", !.ver = 0, !.again = FALSE, !.late = FALSE]
  <2>1. req' = [req EXCEPT ![r] = q] /\ Still
    BY <1>0, <1>2, <1>3 DEF Remember, TypeInv, TypeOK, Still
  <2>2. q \in Request /\ q.op = req[r].op /\ q.pc = "fetch" /\ q.srv = req[r].srv /\ q.t = req[r].t
        /\ q.u = req[r].u
    BY <1>1 DEF Request, PC, Version
  <2> HIDE DEF q
  <2>3. Only(r) /\ req'[r] = q
    BY <1>0, <2>1, <2>2, PutMoves DEF TypeInv
  <2>4. Carries(q) /\ Quiet(q)
    BY <1>1, <2>2 DEF Carries, Authenticated, Copying, Quiet, Copied, Leaving, Marking
  <2> QED
    BY <1>1, <1>2, <2>1, <2>2, <2>3, <2>4, QuietKeeps
<1>4. CASE ~ Forgotten(r)
  <2> DEFINE v == req[r].ver  s == req[r].srv  w == req[r].u
  <2>1. PICK m \in {None, v} : /\ cache' = [cache EXCEPT ![s][w] = m]
                               /\ m # None => m = v /\ ~ req[r].late
    BY <1>4 DEF Remember
  <2>2. Only(r) /\ req'[r].pc \in {"act", "free"} /\ Carries(req'[r]) /\ Quiet(req'[r]) /\ ~ Copies(req'[r])
    <3>1. CASE v = req[r].t.tv
      <4> DEFINE q == [req[r] EXCEPT !.pc = "act", !.ver = 0, !.late = FALSE]
      <4>1. req' = [req EXCEPT ![r] = q]
        BY <1>0, <1>4, <3>1 DEF Remember, TypeInv, TypeOK
      <4>2. /\ q \in Request /\ q.op = req[r].op /\ q.pc = "act" /\ q.srv = req[r].srv /\ q.t = req[r].t
            /\ q.u = req[r].u
        BY <1>1 DEF Request, PC, Version
      <4> HIDE DEF q
      <4>3. Only(r) /\ req'[r] = q
        BY <1>0, <4>1, <4>2, PutMoves DEF TypeInv
      <4> QED
        BY <1>1, <4>2, <4>3 DEF Carries, Authenticated, Copying, Quiet, Copied, Leaving, Marking, Copies
    <3>2. CASE v # req[r].t.tv
      <4>1. Answer(r)
        BY <1>0, <1>4, <3>2 DEF Remember, TypeInv, TypeOK, Answer
      <4>2. None \notin Operations
        BY AccountsAssumption
      <4> QED
        BY <1>0, <4>1, <4>2, AnswerMoves, FreeRequest
        DEF TypeInv, Quiet, Copied, Leaving, Marking, Copies, Operations, Authenticated, Copying
    <3> QED
      BY <3>1, <3>2
  <2>3. cache' \in [Servers -> [Users -> Version \cup {None}]]
    <3>1. cache[s] \in [Users -> Version \cup {None}]
      BY <1>0, <1>1 DEF TypeInv, TypeOK
    <3>2. [cache[s] EXCEPT ![w] = m] \in [Users -> Version \cup {None}]
      BY <1>1, <2>1, <3>1 DEF Version
    <3> QED
      BY <1>0, <1>1, <2>1, <3>2 DEF TypeInv, TypeOK
  <2>4. /\ UNCHANGED <<user, inv, key, team, ident, chall, google, token, left, known, old, odd>>
        /\ \A x \in Servers, u \in Users : cache'[x][u] = IF x = s /\ u = w THEN m ELSE cache[x][u]
    BY <1>0, <1>1, <1>2, <2>1 DEF rows, hist, TypeInv, TypeOK
  <2>5. TypeInv'
    <3>1. Supplied'
      BY <1>0, <2>2, <2>4, OneSupplied DEF Carries
    <3> QED
      BY <1>0, <2>2, <2>3, <2>4, <3>1 DEF TypeInv, TypeOK, Only
  <2>6. RoleInv' /\ OnceInv' /\ NewInv'
    BY <1>0, <1>1, <2>2, <2>4, RoleStays, OnceStays DEF Only, Kept, NewInv
  <2>7. ASSUME NEW u \in Users, Refused(u) PROVE Refused(u)'
    <3>1. u = w /\ m # None => m >= known[s][u] /\ m >= old[u]
      BY <1>1, <1>4, <2>1, <2>7 DEF Refused, Forgotten
    <3> QED
      BY <2>2, <2>4, <2>7, <3>1 DEF Refused, Remembers, Only
  <2> QED
    BY <2>4, <1>0, <2>5, <2>6, <2>7 DEF AccountInv, RevokeInv, Barred
<1> QED
  BY <1>3, <1>4

(* Steps of several requests: each goes on, is dropped, or is only told    *)
(* that what it fetches is out of date.                                    *)
Told(p) == /\ Fetching(p)
           /\ \E f \in {"again", "late"} : req'[p] = [req[p] EXCEPT ![f] = TRUE]
Dropped(p) == req'[p] = Free /\ ~ Marking(req[p])

LEMMA ToldRequest ==
  ASSUME TypeInv, NEW p \in Slots, Told(p)
  PROVE  /\ req'[p] \in Request /\ Carries(req'[p]) /\ Quiet(req'[p]) /\ ~ Copies(req'[p])
         /\ ~ Marking(req[p])
         /\ req'[p].u = req[p].u /\ req'[p].srv = req[p].srv /\ req'[p].pc = req[p].pc
         /\ req'[p].ver = req[p].ver
<1>1. req[p] \in Request /\ Carries(req[p]) /\ req[p].pc \in {"fetch", "fetched"}
      /\ req[p].op \in Authenticated
  BY Fields DEF Told, Fetching, Carries
<1>2. PICK f \in {"again", "late"} : req'[p] = [req[p] EXCEPT ![f] = TRUE]
  BY DEF Told
<1>3. /\ req'[p] \in Request /\ req'[p].op = req[p].op /\ req'[p].srv = req[p].srv
      /\ req'[p].pc = req[p].pc /\ req'[p].u = req[p].u /\ req'[p].t = req[p].t
      /\ req'[p].ver = req[p].ver
  BY <1>1, <1>2, ZenonT(60) DEF Request
<1> QED
  BY <1>1, <1>3 DEF Carries, Quiet, Copied, Copies, Copying, Leaving, Marking, Authenticated

LEMMA ManyKeep ==
  ASSUME AccountInv, UNCHANGED <<rows, token, odd>>, req' = [p \in Slots |-> req'[p]],
         \A p \in Slots : req'[p] = req[p] \/ Told(p) \/ Dropped(p)
  PROVE  /\ req' \in [Slots -> Request] /\ Supplied' /\ NewInv' /\ RoleInv' /\ OnceInv'
<1>0. TypeInv /\ NewInv /\ RoleInv /\ OnceInv /\ UNCHANGED <<user, inv, key, team, token, odd>>
  BY DEF AccountInv, rows
<1>1. /\ Quiet(Free) /\ ~ Copies(Free) /\ Carries(Free) /\ Free \in Request
  <2>1. None \notin Operations
    BY AccountsAssumption
  <2> QED
    BY <2>1, FreeRequest DEF Quiet, Copied, Leaving, Marking, Copying, Copies, Operations, Authenticated
<1>2. \A p \in Slots : /\ req'[p] \in Request /\ Carries(req'[p])
                       /\ req'[p] = req[p] \/ (Quiet(req'[p]) /\ ~ Copies(req'[p]) /\ ~ Marking(req[p]))
  BY <1>0, <1>1, ToldRequest, Fields DEF Dropped
<1>3. req' \in [Slots -> Request]
  BY <1>2
<1>4. Supplied'
  BY <1>0, <1>2 DEF Supplied, Carries
<1>5. RoleInv'
  BY <1>0, <1>2, RoleStays
<1>6. OnceInv'
  BY <1>0, <1>2, OnceStays DEF Kept
<1> QED
  BY <1>0, <1>3, <1>4, <1>5, <1>6 DEF NewInv

LEMMA InvalidateKeeps ==
  ASSUME AccountInv, NEW r \in Slots, Invalidate(r)
  PROVE  AccountInv'
<1>0. TypeInv /\ RevokeInv
  BY DEF AccountInv
<1> DEFINE s == req[r].srv  w == req[r].u  n == Later(known[s][w], req[r].ver)
<1>1. /\ Carries(req[r]) /\ req[r].pc = "invalidate" /\ ~ Marking(req[r])
      /\ s \in Servers /\ w \in Users /\ req[r].ver \in Nat
  BY <1>0, Fields DEF Invalidate, Carries, Marking, Authenticated, Request, Version
<1>2. /\ \A p \in Slots : req'[p] = IF p = r THEN Free
                          ELSE IF Fetching(p) /\ req[p].srv = s /\ req[p].u = w
                               THEN [req[p] EXCEPT !.again = TRUE] ELSE req[p]
      /\ req' = [p \in Slots |-> req'[p]]
      /\ UNCHANGED <<rows, google, token, left, old, odd>>
  BY DEF Invalidate
<1>3. \A p \in Slots : req'[p] = req[p] \/ Told(p) \/ Dropped(p)
  BY <1>1, <1>2 DEF Told, Dropped
<1>4. req' \in [Slots -> Request] /\ Supplied' /\ NewInv' /\ RoleInv' /\ OnceInv'
  BY <1>2, <1>3, ManyKeep
<1>5. n \in Nat /\ n >= known[s][w] /\ (n = known[s][w] \/ n = req[r].ver)
  <2>1. known[s][w] \in Nat
    BY <1>0, <1>1 DEF TypeInv, TypeOK, Version
  <2> QED
    BY <1>1, <2>1 DEF Later
<1>6. /\ cache' \in [Servers -> [Users -> Version \cup {None}]]
      /\ \A x \in Servers, u \in Users : cache'[x][u] = IF x = s /\ u = w THEN None ELSE cache[x][u]
  <2>1. cache[s] \in [Users -> Version \cup {None}] /\ cache' = [cache EXCEPT ![s][w] = None]
    BY <1>0, <1>1 DEF TypeInv, TypeOK, Invalidate
  <2>2. [cache[s] EXCEPT ![w] = None] \in [Users -> Version \cup {None}]
    BY <1>1, <2>1
  <2> QED
    BY <1>0, <1>1, <2>1, <2>2 DEF TypeInv, TypeOK
<1>7. /\ known' \in [Servers -> [Users -> Version]]
      /\ \A x \in Servers, u \in Users : known'[x][u] = IF x = s /\ u = w THEN n ELSE known[x][u]
  <2>1. known[s] \in [Users -> Version] /\ known' = [known EXCEPT ![s][w] = n]
    BY <1>0, <1>1 DEF TypeInv, TypeOK, Invalidate
  <2>2. [known[s] EXCEPT ![w] = n] \in [Users -> Version]
    BY <1>1, <1>5, <2>1 DEF Version
  <2> QED
    BY <1>0, <1>1, <2>1, <2>2 DEF TypeInv, TypeOK
<1> HIDE DEF n
<1>8. TypeInv'
  BY <1>0, <1>2, <1>4, <1>6, <1>7 DEF TypeInv, TypeOK, rows
<1>9. ASSUME NEW u \in Users, Refused(u) PROVE Refused(u)'
  <2>1. user' = user /\ old' = old
    BY <1>2 DEF rows
  <2>2. u = w => n <= user[u].tv
    BY <1>1, <1>5, <1>9 DEF Refused
  <2>3. \A x \in Servers : /\ known'[x][u] <= user[u].tv
                           /\ cache'[x][u] # None => cache'[x][u] >= known'[x][u] /\ cache'[x][u] >= old[u]
    BY <1>6, <1>7, <1>9, <2>2 DEF Refused, Remembers
  <2>4. ASSUME NEW p \in Slots, req'[p].u = u, req'[p].pc \in {"invalidate", "fetched"}
        PROVE  /\ req'[p].pc = "invalidate" => req'[p].ver <= user[u].tv
               /\ req'[p].pc = "fetched" =>
                    /\ ~ req'[p].again => req'[p].ver >= known'[req'[p].srv][u]
                    /\ ~ req'[p].late => req'[p].ver >= old[u]
    <3>1. p # r
      BY <1>2, <2>4, FreeRequest
    <3>2. CASE Fetching(p) /\ req[p].srv = s /\ req[p].u = w
      <4>1. req'[p] = [req[p] EXCEPT !.again = TRUE] /\ req[p] \in Request
        BY <1>0, <1>2, <3>1, <3>2, Fields
      <4>2. /\ req'[p].again = TRUE /\ req'[p].u = req[p].u /\ req'[p].pc = req[p].pc
            /\ req'[p].ver = req[p].ver /\ req'[p].late = req[p].late
        BY <4>1 DEF Request
      <4> QED
        BY <1>9, <2>4, <4>2 DEF Refused
    <3>3. CASE ~ (Fetching(p) /\ req[p].srv = s /\ req[p].u = w)
      <4>1. req'[p] = req[p]
        BY <1>2, <3>1, <3>3
      <4>2. req[p].pc = "fetched" => req[p].srv \in Servers /\ ~ (req[p].srv = s /\ u = w)
        BY <1>0, <2>4, <3>3, <4>1, Fields DEF Fetching, Carries
      <4>3. req[p].pc = "fetched" => known'[req[p].srv][u] = known[req[p].srv][u]
        BY <1>7, <4>2
      <4> QED
        BY <1>9, <2>4, <4>1, <4>3 DEF Refused
    <3> QED
      BY <3>2, <3>3
  <2> QED
    BY <1>9, <2>1, <2>3, <2>4 DEF Refused, Remembers
<1> QED
  BY <1>0, <1>2, <1>4, <1>8, <1>9 DEF AccountInv, RevokeInv, Barred

LEMMA NoCache ==
  ASSUME TypeInv
  PROVE  /\ \A v, w \in Nat : v = w => v <= w /\ w >= v
         /\ \A u \in Users : user[u].tv \in Nat
BY Fields DEF Version

LEMMA TickKeeps ==
  ASSUME AccountInv, Tick
  PROVE  AccountInv'
<1>0. TypeInv /\ RevokeInv
  BY DEF AccountInv
<1>1. /\ \A p \in Slots : req'[p] = IF Fetching(p) THEN [req[p] EXCEPT !.late = TRUE] ELSE req[p]
      /\ req' = [p \in Slots |-> req'[p]]
      /\ UNCHANGED <<rows, google, token, known, odd>>
  BY DEF Tick
<1>2. \A p \in Slots : req'[p] = req[p] \/ Told(p) \/ Dropped(p)
  BY <1>1 DEF Told
<1>3. req' \in [Slots -> Request] /\ Supplied' /\ NewInv' /\ RoleInv' /\ OnceInv'
  BY <1>1, <1>2, ManyKeep
<1>4. /\ cache' = [s \in Servers |-> [u \in Users |-> None]] /\ old' = [u \in Users |-> user[u].tv]
      /\ left' \in [ops : 0..MaxOps, events : 0..MaxEvents]
  BY <1>0, SpendType DEF Tick, TypeInv
<1>5. cache' \in [Servers -> [Users -> Version \cup {None}]] /\ old' \in [Users -> Version]
  BY <1>0, <1>4, Fields
<1>6. TypeInv'
  BY <1>0, <1>1, <1>3, <1>4, <1>5 DEF TypeInv, TypeOK, rows
<1>7. ASSUME NEW u \in Users, Refused(u) PROVE Refused(u)'
  <2>1. user' = user /\ known' = known /\ old'[u] = user[u].tv /\ old'[u] <= user[u].tv
        /\ \A s \in Servers : cache'[s][u] = None
    BY <1>0, <1>1, <1>4, NoCache DEF rows
  <2>2. ASSUME NEW p \in Slots, req'[p].u = u, req'[p].pc \in {"invalidate", "fetched"}
        PROVE  /\ req'[p].pc = "invalidate" => req'[p].ver <= user[u].tv
               /\ req'[p].pc = "fetched" =>
                    /\ ~ req'[p].again => req'[p].ver >= known[req'[p].srv][u]
                    /\ ~ req'[p].late => req'[p].ver >= old'[u]
    <3>1. CASE Fetching(p)
      <4>1. req'[p] = [req[p] EXCEPT !.late = TRUE] /\ req[p] \in Request
        BY <1>0, <1>1, <3>1, Fields
      <4>2. /\ req'[p].late = TRUE /\ req'[p].u = req[p].u /\ req'[p].pc = req[p].pc
            /\ req'[p].ver = req[p].ver /\ req'[p].again = req[p].again /\ req'[p].srv = req[p].srv
        BY <4>1 DEF Request
      <4> QED
        BY <1>7, <2>2, <4>2 DEF Refused
    <3>2. CASE ~ Fetching(p)
      BY <1>1, <1>7, <2>2, <3>2 DEF Refused, Fetching
    <3> QED
      BY <3>1, <3>2
  <2> QED
    BY <1>7, <2>1, <2>2 DEF Refused, Remembers
<1> QED
  BY <1>0, <1>1, <1>3, <1>6, <1>7 DEF AccountInv, RevokeInv, Barred

LEMMA CrashKeeps ==
  ASSUME AccountInv, NEW s \in Servers, Crash(s)
  PROVE  AccountInv'
<1>0. TypeInv /\ RevokeInv
  BY DEF AccountInv
<1>1. /\ \A p \in Slots : req'[p] = IF req[p].srv = s THEN Free ELSE req[p]
      /\ req' = [p \in Slots |-> req'[p]]
      /\ UNCHANGED <<rows, google, token, hist>>
  BY DEF Crash
<1>2. \A p \in Slots : req'[p] = req[p] \/ Told(p) \/ Dropped(p)
  <2>1. None \notin Servers
    BY AccountsAssumption
  <2> QED
    BY <1>0, <1>1, <2>1, Fields DEF Dropped, Marking, Carries
<1>3. req' \in [Slots -> Request] /\ Supplied' /\ NewInv' /\ RoleInv' /\ OnceInv'
  BY <1>1, <1>2, ManyKeep DEF hist
<1>4. /\ cache' = [cache EXCEPT ![s] = [u \in Users |-> None]]
      /\ left' \in [ops : 0..MaxOps, events : 0..MaxEvents]
  BY <1>0, SpendType DEF Crash, TypeInv
<1>5. /\ cache' \in [Servers -> [Users -> Version \cup {None}]]
      /\ \A x \in Servers, u \in Users : cache'[x][u] = IF x = s THEN None ELSE cache[x][u]
  BY <1>0, <1>4 DEF TypeInv, TypeOK
<1>6. TypeInv'
  BY <1>0, <1>1, <1>3, <1>4, <1>5 DEF TypeInv, TypeOK, rows, hist
<1>7. ASSUME NEW u \in Users, Refused(u) PROVE Refused(u)'
  BY <1>1, <1>5, <1>7, FreeRequest DEF Refused, Remembers, rows, hist
<1> QED
  BY <1>0, <1>1, <1>3, <1>6, <1>7 DEF AccountInv, RevokeInv, Barred, hist

(* Steps that leave the accounts, requests and what is remembered alone.   *)
Current(t) == t \in Token /\ Active(t.u) /\ t.tv = user[t.u].tv /\ t.role = user[t.u].role

LEMMA RowsKeep ==
  ASSUME AccountInv, UNCHANGED <<user, key, cache, req, hist>>, team' \subseteq team, Kept,
         left' = left \/ Spend \/ Happens,
         inv' \in [Invs -> Invitation], ident' \in Users \cup {None}, google' \in BOOLEAN,
         chall' \in [Challs -> [u : Users \cup {None}, used : BOOLEAN, tries : Nat]],
         token \subseteq token',
         \A t \in token' : t \in token \/ Current(t)
  PROVE  AccountInv'
<1>0. TypeInv /\ NewInv /\ RevokeInv /\ RoleInv /\ OnceInv
  BY DEF AccountInv
<1>1. UNCHANGED <<user, key, cache, req, known, old, odd>>
  BY DEF hist
<1>2. left' \in [ops : 0..MaxOps, events : 0..MaxEvents]
  BY <1>0, SpendType DEF TypeInv, TypeOK
<1>3. TypeInv'
  <2>1. Supplied'
    BY <1>0, <1>1 DEF TypeInv, Supplied, Carries
  <2>2. token' \subseteq Token /\ team' \subseteq Users
    BY <1>0 DEF TypeInv, TypeOK, Current
  <2> QED
    BY <1>0, <1>1, <1>2, <2>1, <2>2 DEF TypeInv, TypeOK
<1>4. RevokeInv' /\ OnceInv' /\ NewInv'
  BY <1>0, <1>1, RevokeStays, OnceStays DEF NewInv
<1>5. RoleInv'
  <2>1. \A u \in Users : user[u].tv <= user[u].tv
    BY <1>0, Fields DEF Version
  <2>2. \A u \in Users : \A t \in token' : t.u = u => t \in token \/ Agrees(u, t.tv, t.role)
    BY <2>1 DEF Agrees, Active, Current
  <2> QED
    BY <1>0, <1>1, <2>2, RoleStays
<1> QED
  BY <1>3, <1>4, <1>5 DEF AccountInv

LEMMA SignInKeeps ==
  ASSUME AccountInv,
         \/ Switch
         \/ \E u \in Users : Login(u) \/ LoginWithOAuth(u) \/ RemoveTeamMember(u)
         \/ \E t \in token : Refresh(t)
         \/ \E i \in Invs : Cancel(i) \/ Expire(i)
  PROVE  AccountInv'
<1>0. TypeInv
  BY DEF AccountInv
<1>1. /\ inv \in [Invs -> Invitation] /\ ident \in Users \cup {None} /\ google \in BOOLEAN
      /\ chall \in [Challs -> [u : Users \cup {None}, used : BOOLEAN, tries : Nat]]
      /\ team \subseteq team /\ token \subseteq token
  BY <1>0 DEF TypeInv, TypeOK
<1>2. UNCHANGED inv => Kept
  BY DEF Kept
<1>i. inv \in [Invs -> Invitation]
  BY <1>1
<1>t. ASSUME NEW u \in Users, Active(u), token' = token \cup {Issued(u)}
      PROVE  \A t \in token' : t \in token \/ Current(t)
  <2>1. ASSUME NEW t, t = Issued(u)
        PROVE  Current(t)
    <3>1. t = [u |-> u, tv |-> user[u].tv, role |-> user[u].role]
      BY <2>1 DEF Issued
    <3>2. t.u = u /\ t.tv = user[u].tv /\ t.role = user[u].role
      BY <3>1
    <3>3. t \in Token
      BY <1>0, <3>1, Fields DEF Token
    <3> QED
      BY <1>t, <3>2, <3>3 DEF Current
  <2> QED
    BY <1>t, <2>1
<1>3. CASE Switch
  <2>1. Happens /\ google' \in BOOLEAN /\ UNCHANGED <<user, inv, key, team, ident, chall, token, cache, req, hist>>
    BY <1>3 DEF Switch, rows
  <2>2. team' \subseteq team /\ token \subseteq token' /\ Kept
    BY <1>2, <2>1
  <2> QED
    BY <1>1, <2>1, <2>2, RowsKeep
<1>4. ASSUME NEW u \in Users, Login(u) \/ (\E t \in token : t.u = u /\ Refresh(t))
      PROVE  AccountInv'
  <2>1. Active(u) /\ token' = token \cup {Issued(u)}
    BY <1>4 DEF Login, Refresh
  <2>3. Spend /\ UNCHANGED <<user, inv, key, team, ident, chall, google, cache, req, hist>>
    BY <1>4 DEF Login, Refresh, rows
  <2>4. team' \subseteq team /\ token \subseteq token' /\ Kept
    BY <1>2, <2>1, <2>3
  <2>5. \A t \in token' : t \in token \/ Current(t)
    BY <1>t, <2>1
  <2> QED
    BY <1>1, <2>3, <2>4, <2>5, RowsKeep
<1>5. ASSUME NEW u \in Users, LoginWithOAuth(u)
      PROVE  AccountInv'
  <2>1. Active(u) /\ (token' = token \cup {Issued(u)} \/ token' = token)
    BY <1>5 DEF LoginWithOAuth, Mine
  <2>3. Spend /\ ident' = u /\ UNCHANGED <<user, inv, key, team, google, cache, req, hist>>
    BY <1>5 DEF LoginWithOAuth
  <2>4. chall' \in [Challs -> [u : Users \cup {None}, used : BOOLEAN, tries : Nat]]
    <3>1. CASE chall' = chall
      BY <1>1, <3>1
    <3>2. ASSUME NEW ch \in Challs, chall' = [chall EXCEPT ![ch].u = u]
          PROVE  chall' \in [Challs -> [u : Users \cup {None}, used : BOOLEAN, tries : Nat]]
      <4>1. chall' = [chall EXCEPT ![ch] = [chall[ch] EXCEPT !.u = u]]
        BY <1>1, <3>2
      <4>2. [chall[ch] EXCEPT !.u = u] \in [u : Users \cup {None}, used : BOOLEAN, tries : Nat]
        BY <1>1
      <4> QED
        BY <1>1, <4>1, <4>2
    <3> QED
      BY <1>5, <3>1, <3>2 DEF LoginWithOAuth, FreshChall
  <2>5. team' \subseteq team /\ token \subseteq token' /\ Kept /\ ident' \in Users \cup {None}
    BY <1>2, <2>1, <2>3
  <2>6. \A t \in token' : t \in token \/ Current(t)
    BY <1>t, <2>1
  <2> QED
    BY <1>1, <2>3, <2>4, <2>5, <2>6, RowsKeep
<1>6. ASSUME NEW u \in Users, RemoveTeamMember(u)
      PROVE  AccountInv'
  <2>1. /\ Spend /\ team' \subseteq team
        /\ UNCHANGED <<user, inv, key, ident, chall, google, token, cache, req, hist>>
    BY <1>6 DEF RemoveTeamMember
  <2>2. token \subseteq token' /\ Kept
    BY <1>2, <2>1
  <2> QED
    BY <1>1, <2>1, <2>2, RowsKeep
<1>7. ASSUME NEW i \in Invs, Cancel(i) \/ Expire(i)
      PROVE  AccountInv'
  <2>1. PICK to \in {"expired", "deleted"} :
          /\ inv' = [inv EXCEPT ![i].st = to]
          /\ to = "expired" => inv[i].st = "open"
    <3>1. CASE Cancel(i)
      BY <3>1 DEF Cancel
    <3>2. CASE Expire(i)
      BY <3>2 DEF Expire
    <3> QED
      BY <1>7, <3>1, <3>2
  <2>2. PICK row \in Invitation : row = [inv[i] EXCEPT !.st = to]
    BY <1>i DEF Invitation
  <2>3. inv' = [inv EXCEPT ![i] = row]
    BY <1>i, <2>1, <2>2
  <2>s. row.st = to
    BY <1>i, <2>2 DEF Invitation
  <2>4. inv' \in [Invs -> Invitation] /\ Kept
    BY <1>i, <2>1, <2>3, <2>s DEF Kept
  <2>5. (Spend \/ Happens) /\ UNCHANGED <<user, key, team, ident, chall, google, token, cache, req, hist>>
    BY <1>7 DEF Cancel, Expire
  <2>6. team' \subseteq team /\ token \subseteq token'
    BY <2>5
  <2> QED
    BY <1>1, <2>4, <2>5, <2>6, RowsKeep
<1>8. \A t \in token : t.u \in Users
  BY <1>0, Fields
<1> QED
  BY <1>3, <1>4, <1>5, <1>6, <1>7, <1>8

(* A step of one request that leaves the accounts alone.                   *)
RowTypes ==
  /\ inv \in [Invs -> Invitation] /\ key \in [Keys -> Key \cup {None}]
  /\ chall \in [Challs -> [u : Users \cup {None}, used : BOOLEAN, tries : Nat]]
  /\ token \subseteq Token
  /\ odd \subseteq ({"restored", "crossed"} \X Users) \cup ({"unmarked", "changed"} \X Invs)

LEMMA OneKeeps ==
  ASSUME AccountInv, NEW r \in Slots, Only(r), Carries(req'[r]), RowTypes',
         UNCHANGED <<user, ident, google, cache, known, old>>, left' = left \/ Spend \/ Happens,
         odd \subseteq odd', token \subseteq token', team' \subseteq team,
         \A k \in Keys : key'[k] = key[k] \/ key'[k] = None,
         req'[r].pc \notin {"fetched", "invalidate"},
         \A u \in Users : Held(u) /\ ~ Barred("crossed", u)' =>
           /\ \A t \in token' : t.u = u => t \in token \/ Agrees(u, t.tv, t.role)
           /\ req'[r].u = u => Fits(u, req'[r]) \/ Left(u, req'[r])
  PROVE  TypeInv' /\ NewInv' /\ RevokeInv' /\ RoleInv'
<1>0. TypeInv /\ NewInv /\ RevokeInv /\ RoleInv
  BY DEF AccountInv
<1>1. Carries(req[r])'
  BY DEF Carries
<1>2. TypeInv'
  <2>1. Supplied'
    BY <1>0, <1>1, OneSupplied
  <2>2. left' \in [ops : 0..MaxOps, events : 0..MaxEvents]
    BY <1>0, SpendType DEF TypeInv, TypeOK
  <2> QED
    BY <1>0, <2>1, <2>2 DEF TypeInv, TypeOK, RowTypes, Only
<1>3. RevokeInv'
  BY <1>0, RevokeStays DEF Only
<1>4. RoleInv'
  BY <1>0, RoleStays DEF Only
<1> QED
  BY <1>0, <1>2, <1>3, <1>4 DEF NewInv

LEMMA RowsTyped ==
  ASSUME AccountInv
  PROVE  RowTypes
BY DEF AccountInv, TypeInv, TypeOK, RowTypes

LEMMA FreeFits ==
  /\ Carries(Free) /\ ~ Copies(Free) /\ Free.pc \notin {"fetched", "invalidate"}
  /\ Quiet(Free) /\ \A u : Fits(u, Free)
<1>1. None \notin Operations
  BY AccountsAssumption
<1> QED
  BY <1>1, FreeRequest DEF Fits, Quiet, Copied, Leaving, Marking, Copying, Copies, Operations, Authenticated

LEMMA RevokeKeyKeeps ==
  ASSUME AccountInv, NEW r \in Slots, NEW k \in Keys, RevokeKey(r, k)
  PROVE  AccountInv'
<1>0. TypeInv /\ OnceInv /\ RowTypes
  BY RowsTyped DEF AccountInv
<1>1. Only(r) /\ req'[r] = Free /\ ~ Marking(req[r])
  BY <1>0, AnswerMoves DEF RevokeKey, TypeInv, At, Marking
<1>2. UNCHANGED <<user, inv, team, ident, chall, google, token, cache, left, known, old, odd>>
  BY DEF RevokeKey, hist
<1>3. RowTypes' /\ \A j \in Keys : key'[j] = key[j] \/ key'[j] = None
  BY <1>0, <1>2 DEF RevokeKey, RowTypes
<1>4. team' \subseteq team /\ token \subseteq token' /\ odd \subseteq odd'
  BY <1>2
<1>5. TypeInv' /\ NewInv' /\ RevokeInv' /\ RoleInv'
  BY <1>1, <1>2, <1>3, <1>4, FreeFits, OneKeeps
<1>6. OnceInv'
  BY <1>0, <1>1, <1>2, <1>4, FreeFits, OnceStays DEF Only, Kept
<1> QED
  BY <1>5, <1>6 DEF AccountInv

LEMMA InsertInvitationKeeps ==
  ASSUME AccountInv, NEW r \in Slots, InsertInvitation(r)
  PROVE  AccountInv'
<1>0. TypeInv /\ OnceInv /\ RowTypes
  BY RowsTyped DEF AccountInv
<1>1. Only(r) /\ req'[r] = Free /\ ~ Marking(req[r]) /\ req[r].role \in Roles
  BY <1>0, AnswerMoves, Fields DEF InsertInvitation, TypeInv, At, Marking, Request
<1>2. UNCHANGED <<user, key, team, ident, chall, google, token, cache, left, known, old, odd>>
  BY DEF InsertInvitation, hist
<1>3. PICK i \in Invs : inv[i].st = "none" /\ inv' = [inv EXCEPT ![i] = [st |-> "open", role |-> req[r].role]]
  BY DEF InsertInvitation, FreshInv
<1>4. RowTypes' /\ Kept
  <2>1. [st |-> "open", role |-> req[r].role] \in Invitation
    BY <1>1 DEF Invitation
  <2> QED
    BY <1>0, <1>2, <1>3, <2>1 DEF RowTypes, Kept
<1>5. team' \subseteq team /\ token \subseteq token' /\ odd \subseteq odd'
      /\ \A j \in Keys : key'[j] = key[j] \/ key'[j] = None
  BY <1>2
<1>6. TypeInv' /\ NewInv' /\ RevokeInv' /\ RoleInv'
  BY <1>1, <1>2, <1>4, <1>5, FreeFits, OneKeeps
<1>7. OnceInv'
  BY <1>0, <1>1, <1>2, <1>4, <1>5, FreeFits, OnceStays DEF Only
<1> QED
  BY <1>6, <1>7 DEF AccountInv

LEMMA ConsumeKeeps ==
  ASSUME AccountInv, NEW r \in Slots, NEW right \in BOOLEAN, Consume(r, right)
  PROVE  AccountInv'
<1>0. TypeInv /\ OnceInv /\ RowTypes
  BY RowsTyped DEF AccountInv
<1>1. /\ Only(r) /\ req'[r] = Free /\ ~ Marking(req[r]) /\ req[r].op = "complete"
      /\ req[r].u \in Users /\ req[r].c \in User /\ req[r].ch \in Challs
  BY <1>0, AnswerMoves, Fields DEF Consume, TypeInv, At, Marking, Carries
<1> DEFINE w == req[r].u  ch == req[r].ch  new == [u |-> w, tv |-> req[r].c.tv, role |-> req[r].c.role]
<1>2. UNCHANGED <<user, inv, key, team, ident, google, cache, left, known, old, odd>>
  BY DEF Consume, hist
<1>3. token' = token \/ token' = token \cup {new}
  BY DEF Consume
<1>4. new \in Token /\ new.u = w /\ new.tv = req[r].c.tv /\ new.role = req[r].c.role
  BY <1>1 DEF Token, User
<1>5. chall' \in [Challs -> [u : Users \cup {None}, used : BOOLEAN, tries : Nat]]
  <2>1. PICK n \in Nat : chall' = [chall EXCEPT ![ch].used = TRUE, ![ch].tries = n]
    <3>1. chall[ch].tries \in Nat /\ chall[ch].tries + 1 \in Nat
      BY <1>0, <1>1 DEF RowTypes
    <3> QED
      BY <1>0, <1>1, <3>1 DEF RowTypes, Consume
  <2>2. [chall[ch] EXCEPT !.used = TRUE, !.tries = n] \in [u : Users \cup {None}, used : BOOLEAN, tries : Nat]
    BY <1>0, <1>1 DEF RowTypes
  <2>3. chall' = [chall EXCEPT ![ch] = [chall[ch] EXCEPT !.used = TRUE, !.tries = n]]
    BY <1>0, <1>1, <2>1 DEF RowTypes
  <2> QED
    BY <1>0, <2>2, <2>3 DEF RowTypes
<1> HIDE DEF new
<1>6. RowTypes' /\ Kept
  BY <1>0, <1>2, <1>3, <1>4, <1>5 DEF RowTypes, Kept
<1>7. team' \subseteq team /\ token \subseteq token' /\ odd \subseteq odd'
      /\ \A j \in Keys : key'[j] = key[j] \/ key'[j] = None
  BY <1>2, <1>3
<1>8. ASSUME NEW u \in Users, Held(u), NEW t \in token', t.u = u
      PROVE  t \in token \/ Agrees(u, t.tv, t.role)
  <2>1. u = w => Agrees(u, req[r].c.tv, req[r].c.role)
    BY <1>1, <1>8 DEF Held, Fits, Copied
  <2> QED
    BY <1>3, <1>4, <1>8, <2>1
<1>9. TypeInv' /\ NewInv' /\ RevokeInv' /\ RoleInv'
  BY <1>1, <1>2, <1>6, <1>7, <1>8, FreeFits, OneKeeps
<1>10. OnceInv'
  BY <1>0, <1>1, <1>2, <1>6, <1>7, FreeFits, OnceStays DEF Only
<1> QED
  BY <1>9, <1>10 DEF AccountInv

(* Joining ends with tokens of the version and role the account was made   *)
(* with, if it has not been changed since.                                 *)
LEMMA JoinedToken ==
  ASSUME AccountInv, NEW r \in Slots, Marking(req[r]),
         token' = token \cup {[u |-> req[r].u, tv |-> 0, role |-> req[r].ci.role]}
  PROVE  /\ token \subseteq token' /\ token' \subseteq Token
         /\ \A u \in Users : Held(u) => \A t \in token' : t.u = u => t \in token \/ Agrees(u, t.tv, t.role)
<1>1. TypeInv /\ req[r].u \in Users /\ req[r].ci \in Invitation
  BY Fields DEF AccountInv, Marking, Carries
<1>2. PICK new \in Token : new = [u |-> req[r].u, tv |-> 0, role |-> req[r].ci.role]
  BY <1>1 DEF Token, Invitation, Version
<1>3. new.u = req[r].u /\ new.tv = 0 /\ new.role = req[r].ci.role
  BY <1>2
<1>4. token' = token \cup {new} /\ token \subseteq Token
  BY <1>1, <1>2 DEF TypeInv, TypeOK
<1>5. ASSUME NEW u \in Users, Held(u), NEW t \in token', t.u = u
      PROVE  t \in token \/ Agrees(u, t.tv, t.role)
  <2>1. u = req[r].u => Agrees(u, 0, req[r].ci.role)
    BY <1>5 DEF Held, Fits
  <2> QED
    BY <1>3, <1>4, <1>5, <2>1
<1> QED
  BY <1>4, <1>5

LEMMA MarkAcceptedKeeps ==
  ASSUME AccountInv, NEW r \in Slots, MarkAccepted(r)
  PROVE  AccountInv'
<1>0. TypeInv /\ OnceInv /\ RowTypes
  BY RowsTyped DEF AccountInv
<1> DEFINE i == req[r].i
<1>1. /\ Only(r) /\ req'[r] = Free /\ req[r].op \in {"join", "accept"} /\ req[r].pc = "mark"
      /\ i \in Invs
  BY <1>0, AnswerMoves, Fields DEF MarkAccepted, TypeInv, Carries
<1>2. UNCHANGED <<user, key, team, ident, chall, google, cache, left, known, old, odd>>
  BY DEF MarkAccepted, hist
<1>3. /\ inv' \in [Invs -> Invitation] /\ Kept /\ inv'[i].st \in {"accepted", "deleted"}
  <2>1. PICK row \in Invitation : row = [inv[i] EXCEPT !.st = "accepted"]
    BY <1>0, <1>1 DEF RowTypes, Invitation
  <2>2. row.st = "accepted"
    BY <1>0, <1>1, <2>1 DEF RowTypes, Invitation
  <2>3. (inv[i].st = "deleted" /\ inv' = inv) \/ inv' = [inv EXCEPT ![i] = row]
    BY <1>0, <1>1, <2>1 DEF RowTypes, MarkAccepted
  <2> QED
    BY <1>0, <1>1, <2>2, <2>3 DEF RowTypes, Kept
<1>4. /\ token \subseteq token' /\ token' \subseteq Token
      /\ \A u \in Users : Held(u) => \A t \in token' : t.u = u => t \in token \/ Agrees(u, t.tv, t.role)
  <2>1. CASE req[r].op = "accept"
    BY <1>0, <2>1 DEF MarkAccepted, RowTypes
  <2>2. CASE req[r].op = "join"
    <3>1. Marking(req[r]) /\ token' = token \cup {[u |-> req[r].u, tv |-> 0, role |-> req[r].ci.role]}
      BY <1>1, <2>2 DEF Marking, MarkAccepted
    <3> QED
      BY <3>1, JoinedToken
  <2> QED
    BY <1>1, <2>1, <2>2
<1>5. RowTypes' /\ team' \subseteq team /\ odd \subseteq odd' /\ \A j \in Keys : key'[j] = key[j] \/ key'[j] = None
  BY <1>0, <1>2, <1>3, <1>4 DEF RowTypes
<1>6. TypeInv' /\ NewInv' /\ RevokeInv' /\ RoleInv'
  BY <1>1, <1>2, <1>4, <1>5, FreeFits, OneKeeps
<1>7. OnceInv'
  <2>1. ASSUME NEW j \in Invs, Used(j)
        PROVE  Used(j)'
    <3>1. CASE j = i
      BY <1>2, <1>3, <2>1, <3>1 DEF Used
    <3>2. CASE j # i
      <4>1. \A p \in Slots : req[p].i = j => req'[p] = req[p]
        BY <1>1, <3>2 DEF Only
      <4> QED
        BY <1>2, <1>3, <2>1, <4>1 DEF Used, Kept
    <3> QED
      BY <3>1, <3>2
  <2>2. \A p \in Slots : req'[p].op \in Copying /\ req'[p].pc = "write" =>
          user'[req'[p].u].st # "none" /\ req'[p].c.by = user'[req'[p].u].by
    BY <1>0, <1>1, <1>2, FreeFits DEF OnceInv, Only, Copies
  <2> QED
    BY <1>0, <1>2, <2>1, <2>2 DEF OnceInv, Barred
<1> QED
  BY <1>6, <1>7 DEF AccountInv

(* The copy of the own row.                                                *)
LEMMA ReadOwnKeeps ==
  ASSUME AccountInv, NEW r \in Slots, ReadOwn(r)
  PROVE  AccountInv'
<1>0. TypeInv /\ OnceInv /\ RowTypes /\ Still /\ left' = left
  BY RowsTyped DEF AccountInv, ReadOwn, Still
<1> DEFINE w == req[r].u  op == req[r].op
<1>1. /\ req[r] \in Request /\ Carries(req[r]) /\ op \in Copying /\ req[r].pc \in {"act", "own"}
      /\ op = "accept" => req[r].pc = "own"
      /\ ~ Marking(req[r]) /\ w \in Users /\ user[w] \in User
  BY <1>0, Fields DEF ReadOwn, Carries, Marking, Copying, Authenticated
<1>2. CASE Answer(r)
  BY <1>0, <1>1, <1>2, AnswerKeeps
<1>3. CASE ~ Answer(r)
  <2>1. PICK copy \in User :
          /\ req' = [req EXCEPT ![r].pc = "write", ![r].c = copy]
          /\ Active(w) /\ copy.st = "active" /\ copy.tv = user[w].tv /\ copy.by = user[w].by
          /\ op # "accept" => copy.role = user[w].role
    <3>0. Active(w)
      BY <1>3 DEF ReadOwn
    <3>1. CASE op = "profile"
      BY <1>1, <1>3, <3>0, <3>1 DEF ReadOwn, Active
    <3>2. CASE op = "setup"
      <4>1. PICK copy \in User : copy = [user[w] EXCEPT !.fa = "set"]
        BY <1>1 DEF User
      <4>2. copy.st = user[w].st /\ copy.tv = user[w].tv /\ copy.by = user[w].by /\ copy.role = user[w].role
        BY <1>1, <4>1 DEF User
      <4>3. req' = [req EXCEPT ![r].pc = "write", ![r].c = copy]
        BY <1>3, <3>2, <4>1 DEF ReadOwn
      <4> QED
        BY <3>0, <4>2, <4>3 DEF Active
    <3>3. CASE op = "accept"
      <4>0. req[r].ci.role \in Roles
        BY <1>1, <3>3 DEF Carries, Invitation
      <4>1. PICK copy \in User : copy = [user[w] EXCEPT !.role = req[r].ci.role]
        BY <1>1, <4>0 DEF User
      <4>2. copy.st = user[w].st /\ copy.tv = user[w].tv /\ copy.by = user[w].by
        BY <1>1, <4>1 DEF User
      <4>3. req' = [req EXCEPT ![r].pc = "write", ![r].c = copy]
        BY <1>3, <3>3, <4>1 DEF ReadOwn
      <4> QED
        BY <3>0, <3>3, <4>2, <4>3 DEF Active
    <3> QED
      BY <1>1, <3>1, <3>2, <3>3 DEF Copying
  <2>2. PICK q \in Request : q = [req[r] EXCEPT !.pc = "write", !.c = copy]
    BY <1>1 DEF Request, PC
  <2>3. /\ q.op = op /\ q.pc = "write" /\ q.c = copy /\ q.u = w /\ q.srv = req[r].srv /\ q.t = req[r].t
        /\ q.i = req[r].i /\ q.ci = req[r].ci
    BY <1>1, <2>2 DEF Request
  <2>4. req' = [req EXCEPT ![r] = q]
    BY <1>0, <2>1, <2>2 DEF TypeInv, TypeOK
  <2>5. Only(r) /\ req'[r] = q
    BY <1>0, <2>4, PutMoves DEF TypeInv
  <2>6. Carries(q) /\ ~ Leaving(q) /\ ~ Marking(q)
    BY <1>1, <2>1, <2>3 DEF Carries, Copying, Authenticated, Leaving, Marking
  <2>7. ASSUME NEW u \in Users, q.u = u PROVE Fits(u, q)
    <3>1. user[u].tv <= user[u].tv
      BY <1>0, Fields DEF Version
    <3> QED
      BY <2>1, <2>3, <2>6, <2>7, <3>1 DEF Fits, Agrees, Active
  <2>8. UNCHANGED <<user, inv, key, team, ident, chall, google, token, cache, known, old, odd>>
    BY <1>0 DEF Still, rows, hist
  <2>9. /\ odd \subseteq odd' /\ token \subseteq token' /\ team' \subseteq team /\ RowTypes'
        /\ \A k \in Keys : key'[k] = key[k] \/ key'[k] = None
    BY <1>0, <2>8 DEF RowTypes
  <2>10. TypeInv' /\ NewInv' /\ RevokeInv' /\ RoleInv'
    BY <1>0, <2>3, <2>5, <2>6, <2>7, <2>8, <2>9, OneKeeps
  <2>11. OnceInv'
    <3>1. ASSUME NEW j \in Invs, Used(j)
          PROVE  Used(j)'
      BY <1>1, <2>5, <2>8, <3>1 DEF Used, Only
    <3>2. \A p \in Slots : req'[p].op \in Copying /\ req'[p].pc = "write" =>
            user'[req'[p].u].st # "none" /\ req'[p].c.by = user'[req'[p].u].by
      BY <1>0, <2>1, <2>3, <2>5, <2>8 DEF OnceInv, Only, Active
    <3> QED
      BY <1>0, <2>8, <3>1, <3>2 DEF OnceInv, Barred
  <2> QED
    BY <2>10, <2>11 DEF AccountInv
<1> QED
  BY <1>2, <1>3

(* The team.                                                               *)
LEMMA LeavingKeeps ==
  ASSUME AccountInv, NEW r \in Slots,
         NEW pc \in {"team", "tx"}, Go(r, pc), req[r].op = "remove",
         UNCHANGED <<user, inv, key, ident, chall, google, token, cache, known, old>>,
         team' \subseteq team, odd \subseteq odd', RowTypes',
         left' = left \/ Spend \/ Happens,
         pc = "tx" => req[r].u \notin team' \/ Barred("crossed", req[r].u)'
  PROVE  AccountInv'
<1>0. TypeInv /\ OnceInv
  BY DEF AccountInv
<1>1. Only(r) /\ req'[r].pc = pc /\ req'[r].op = "remove" /\ req'[r].u = req[r].u /\ req'[r].srv = req[r].srv
  BY <1>0, GoMoves DEF TypeInv, PC
<1>2. Carries(req'[r]) /\ ~ Copies(req'[r]) /\ ~ Marking(req[r]) /\ req'[r].pc \notin {"fetched", "invalidate"}
  BY <1>0, <1>1, Fields DEF Carries, Copies, Copying, Marking, Authenticated
<1>3. ASSUME NEW u \in Users, ~ Barred("crossed", u)', req'[r].u = u
      PROVE  Fits(u, req'[r]) \/ Left(u, req'[r])
  <2>1. CASE pc = "tx"
    BY <1>1, <1>3, <2>1 DEF Left, Leaving
  <2>2. CASE pc = "team"
    BY <1>1, <2>2 DEF Fits, Copied, Leaving, Marking, Copying
  <2> QED
    BY <2>1, <2>2
<1>4. token \subseteq token' /\ Kept /\ \A k \in Keys : key'[k] = key[k] \/ key'[k] = None
  BY DEF Kept
<1>5. TypeInv' /\ NewInv' /\ RevokeInv' /\ RoleInv'
  BY <1>1, <1>2, <1>3, <1>4, OneKeeps
<1>6. OnceInv'
  BY <1>0, <1>1, <1>2, <1>4, OnceStays DEF Only
<1> QED
  BY <1>5, <1>6 DEF AccountInv

LEMMA LeaveKeeps ==
  ASSUME AccountInv, NEW r \in Slots, ListTeams(r) \/ LeaveTeam(r)
  PROVE  AccountInv'
<1>0. RowTypes
  BY RowsTyped
<1>1. req[r].op = "remove" /\ UNCHANGED <<user, inv, key, ident, chall, google, token, cache, left, known, old, odd>>
  BY DEF ListTeams, LeaveTeam, At, rows, hist
<1>2. RowTypes' /\ odd \subseteq odd'
  BY <1>0, <1>1 DEF RowTypes
<1>3. CASE LeaveTeam(r)
  <2>1. team' = team \ {req[r].u} /\ Go(r, "tx")
    BY <1>3 DEF LeaveTeam
  <2>2. team' \subseteq team /\ req[r].u \notin team'
    BY <2>1
  <2> QED
    BY <1>1, <1>2, <2>1, <2>2, LeavingKeeps
<1>4. CASE ListTeams(r)
  <2>1. team' = team
    BY <1>4 DEF ListTeams, rows
  <2>2. PICK pc \in {"team", "tx"} : Go(r, pc) /\ (pc = "tx" => req[r].u \notin team)
    BY <1>4 DEF ListTeams
  <2>3. team' \subseteq team /\ (pc = "tx" => req[r].u \notin team')
    BY <2>1, <2>2
  <2> QED
    BY <1>1, <1>2, <2>2, <2>3, LeavingKeeps
<1> QED
  BY <1>3, <1>4

(* Steps that may give an account what it did not have.                    *)
LEMMA GivesKeeps ==
  ASSUME AccountInv, NEW r \in Slots, Answer(r), RowTypes', team' \subseteq Users, ~ Marking(req[r]),
         UNCHANGED <<user, inv, ident, chall, google, token, cache, left, known, old>>, odd \subseteq odd',
         \A u \in Users : Held(u) /\ ~ Barred("crossed", u)' =>
           /\ u \in team' => Active(u) /\ (u \in team \/ \A p \in Slots : req[p].u = u => ~ Leaving(req[p]))
           /\ \A k \in Keys : key'[k] # None /\ key'[k].u = u =>
                Active(u) /\ (key'[k].role = "admin" => user[u].role = "admin")
  PROVE  AccountInv'
<1>0. TypeInv /\ NewInv /\ RevokeInv /\ RoleInv /\ OnceInv
  BY DEF AccountInv
<1>1. Only(r) /\ req'[r] = Free
  BY <1>0, AnswerMoves DEF TypeInv
<1>2. TypeInv'
  <2>1. Supplied'
    <3>1. Carries(req[r])'
      BY <1>1, FreeFits DEF Carries
    <3> QED
      BY <1>0, <1>1, <3>1, OneSupplied
  <2> QED
    BY <1>0, <1>1, <2>1 DEF TypeInv, TypeOK, RowTypes, Only
<1>3. RevokeInv' /\ NewInv'
  BY <1>0, <1>1, FreeFits, RevokeStays DEF Only, NewInv
<1>4. OnceInv'
  BY <1>0, <1>1, FreeFits, OnceStays DEF Only, Kept
<1>5. ASSUME NEW u \in Users, Held(u), ~ Barred("crossed", u)'
      PROVE  Held(u)'
  <2>1. \A tv, role : Agrees(u, tv, role)' <=> Agrees(u, tv, role)
    BY DEF Agrees, Active
  <2>2. \A t \in token' : t.u = u => Agrees(u, t.tv, t.role)'
    BY <1>5, <2>1 DEF Held
  <2>3. ASSUME NEW p \in Slots, req'[p].u = u
        PROVE  Fits(u, req[p])'
    <3>1. CASE p = r
      BY <1>1, <3>1, FreeFits DEF Fits, Quiet
    <3>2. CASE p # r
      <4>1. PICK q : q = req[p] /\ q = req'[p]
        BY <1>1, <3>2 DEF Only
      <4>2. Fits(u, q) /\ (Leaving(q) => u \notin team')
        BY <1>5, <2>3, <4>1 DEF Fits, Held
      <4>3. Fits(u, q)'
        BY <2>1, <4>2 DEF Fits
      <4> QED
        BY <4>1, <4>3
    <3> QED
      BY <3>1, <3>2
  <2>4. /\ u \in team' => Active(u)'
        /\ \A k \in Keys : key'[k] # None /\ key'[k].u = u =>
             Active(u)' /\ (key'[k].role = "admin" => user'[u].role = "admin")
    BY <1>5 DEF Active
  <2> QED
    BY <2>2, <2>3, <2>4 DEF Held
<1>6. RoleInv'
  BY <1>0, <1>5 DEF RoleInv, Barred
<1> QED
  BY <1>2, <1>3, <1>4, <1>6 DEF AccountInv

LEMMA AddTeamMemberKeeps ==
  ASSUME AccountInv, NEW r \in Slots, AddTeamMember(r)
  PROVE  AccountInv'
<1>0. TypeInv /\ RowTypes
  BY RowsTyped DEF AccountInv
<1>w. PICK w \in Users : w = req[r].u
  BY <1>0, Fields DEF AddTeamMember, At, Carries
<1> DEFINE leaving == \E p \in Slots : At(p, "remove", "tx") /\ req[p].u = w
           note == IF Active(w) /\ ~ leaving THEN {} ELSE {<<"crossed", w>>}
<1>1. /\ Answer(r) /\ ~ Marking(req[r]) /\ team' = team \cup {w} /\ odd' = odd \cup note
      /\ UNCHANGED <<user, inv, key, ident, chall, google, token, cache, left, known, old>>
  BY <1>w DEF AddTeamMember, At, Marking, Note
<1>2. note \subseteq {<<"crossed", w>>} /\ (note = {} => Active(w) /\ ~ leaving)
  OBVIOUS
<1>3. RowTypes' /\ team' \subseteq Users /\ odd \subseteq odd'
  BY <1>0, <1>1, <1>2 DEF RowTypes, TypeInv, TypeOK
<1>4. \/ Active(w) /\ (\A p \in Slots : req[p].u = w => ~ Leaving(req[p]))
      \/ Barred("crossed", w)'
  <2>1. CASE note = {}
    BY <1>2, <2>1 DEF At, Leaving
  <2>2. CASE note = {<<"crossed", w>>}
    BY <1>1, <2>2 DEF Barred
  <2> QED
    BY <2>1, <2>2
<1> HIDE DEF note, leaving
<1>5. ASSUME NEW u \in Users, Held(u), ~ Barred("crossed", u)'
      PROVE  /\ u \in team' => Active(u) /\ (u \in team \/ \A p \in Slots : req[p].u = u => ~ Leaving(req[p]))
             /\ \A k \in Keys : key'[k] # None /\ key'[k].u = u =>
                  Active(u) /\ (key'[k].role = "admin" => user[u].role = "admin")
  BY <1>1, <1>4, <1>5 DEF Held
<1> QED
  BY <1>1, <1>3, <1>5, GivesKeeps

LEMMA CreateKeyKeeps ==
  ASSUME AccountInv, NEW r \in Slots, NEW role \in Roles, CreateKey(r, role)
  PROVE  AccountInv'
<1>0. TypeInv /\ RowTypes
  BY RowsTyped DEF AccountInv
<1>w. PICK w \in Users, t \in token : w = req[r].u /\ t = req[r].t /\ t.u = w
  BY <1>0, Fields DEF CreateKey, At, Carries, Authenticated
<1> DEFINE note == IF Active(w) /\ user[w].tv = t.tv THEN {} ELSE {<<"crossed", w>>}
<1>1. /\ Answer(r) /\ ~ Marking(req[r]) /\ odd' = odd \cup note
      /\ t.role = "admin" \/ role = "member"
      /\ UNCHANGED <<user, inv, team, ident, chall, google, token, cache, left, known, old>>
  BY <1>w DEF CreateKey, At, Marking, Note
<1>2. PICK new \in Key, k \in Keys : /\ new.u = w /\ new.role = role
                                     /\ key' = [key EXCEPT ![k] = new]
  <2>1. [u |-> w, role |-> role] \in Key
    BY <1>w DEF Key
  <2> QED
    BY <1>w, <2>1 DEF CreateKey, FreshKey
<1>3. note \subseteq {<<"crossed", w>>}
  OBVIOUS
<1>4. RowTypes' /\ team' \subseteq Users /\ odd \subseteq odd'
  BY <1>0, <1>1, <1>2, <1>3 DEF RowTypes, TypeInv, TypeOK
<1>5. (Active(w) /\ user[w].tv = t.tv) \/ Barred("crossed", w)'
  <2>1. CASE note = {}
    <3>1. {<<"crossed", w>>} # {}
      OBVIOUS
    <3> QED
      BY <2>1, <3>1
  <2>2. CASE note = {<<"crossed", w>>}
    BY <1>1, <2>2 DEF Barred
  <2> QED
    BY <2>1, <2>2
<1> HIDE DEF note
<1>6. ASSUME NEW u \in Users, Held(u), ~ Barred("crossed", u)'
      PROVE  /\ u \in team' => Active(u) /\ (u \in team \/ \A p \in Slots : req[p].u = u => ~ Leaving(req[p]))
             /\ \A j \in Keys : key'[j] # None /\ key'[j].u = u =>
                  Active(u) /\ (key'[j].role = "admin" => user[u].role = "admin")
  <2>1. u = w => Active(u) /\ (role = "admin" => user[u].role = "admin")
    <3>1. u = w => Active(u) /\ user[u].tv = t.tv
      BY <1>5, <1>6
    <3>2. u = w => Agrees(u, t.tv, t.role)
      BY <1>w, <1>6 DEF Held
    <3>3. u = w => t.role = user[u].role
      BY <3>1, <3>2 DEF Agrees
    <3> QED
      BY <1>1, <3>1, <3>3
  <2>2. \A j \in Keys : key'[j] = key[j] \/ (key'[j].u = w /\ key'[j].role = role)
    BY <1>0, <1>2 DEF RowTypes
  <2> QED
    BY <1>1, <1>6, <2>1, <2>2 DEF Held
<1> QED
  BY <1>1, <1>4, <1>6, GivesKeeps

(* Failures.                                                               *)
LEMMA FailKeeps ==
  ASSUME AccountInv, NEW r \in Slots, Fail(r)
  PROVE  AccountInv'
<1>0. TypeInv /\ OnceInv /\ RowTypes
  BY RowsTyped DEF AccountInv
<1>1. Happens /\ UNCHANGED <<user, inv, key, team, ident, chall, google, cache, known, old>>
  BY DEF Fail, rows
<1>2. CASE At(r, "invite", "list")
  <2>1. Go(r, "insert") /\ UNCHANGED <<token, odd>>
    BY <1>2 DEF Fail, At
  <2> QED
    BY <1>1, <1>2, <2>1, GoKeeps DEF At, Marking, Still, rows, hist
<1>3. CASE At(r, "remove", "team")
  <2>1. Go(r, "tx") /\ token' = token
    BY <1>3 DEF Fail, At
  <2>2. PICK w \in Users : w = req[r].u
    BY <1>0, <1>3, Fields DEF At, Carries
  <2>3. odd' = odd \cup {<<"crossed", w>>}
    BY <1>3, <2>2 DEF Fail, At, Note
  <2>4. /\ RowTypes' /\ odd \subseteq odd' /\ team' \subseteq team
        /\ UNCHANGED <<user, inv, key, ident, chall, google, token, cache, known, old>>
    BY <1>0, <1>1, <2>1, <2>3 DEF RowTypes
  <2>5. req'[r].u = req[r].u
    BY <1>0, <2>1, GoMoves DEF TypeInv, PC
  <2>6. Barred("crossed", req[r].u)'
    BY <2>2, <2>3, <2>5 DEF Barred
  <2> QED
    BY <1>1, <1>3, <2>1, <2>4, <2>6, LeavingKeeps DEF At
<1>4. CASE At(r, "join", "mark")
  <2>1. Answer(r) /\ Marking(req[r])
        /\ token' = token \cup {[u |-> req[r].u, tv |-> 0, role |-> req[r].ci.role]}
    BY <1>4 DEF Fail, At, Marking
  <2>2. Only(r) /\ req'[r] = Free
    BY <1>0, <2>1, AnswerMoves DEF TypeInv
  <2>3. PICK i \in Invs : i = req[r].i
    BY <1>0, <1>4, Fields DEF At, Carries
  <2>4. odd' = odd \cup {<<"unmarked", i>>}
    BY <1>4, <2>3 DEF Fail, At, Note
  <2>5. /\ token \subseteq token' /\ token' \subseteq Token
        /\ \A u \in Users : Held(u) => \A t \in token' : t.u = u => t \in token \/ Agrees(u, t.tv, t.role)
    BY <2>1, JoinedToken
  <2>6. /\ RowTypes' /\ odd \subseteq odd' /\ team' \subseteq team
        /\ \A k \in Keys : key'[k] = key[k] \/ key'[k] = None
    BY <1>0, <1>1, <2>4, <2>5 DEF RowTypes
  <2>7. TypeInv' /\ NewInv' /\ RevokeInv' /\ RoleInv'
    BY <1>1, <2>2, <2>5, <2>6, FreeFits, OneKeeps
  <2>8. OnceInv'
    <3>1. ASSUME NEW j \in Invs, Used(j), j # i
          PROVE  Used(j)'
      <4>1. \A p \in Slots : req[p].i = j => req'[p] = req[p]
        BY <2>2, <2>3, <3>1 DEF Only
      <4> QED
        BY <1>1, <3>1, <4>1 DEF Used
    <3>2. \A p \in Slots : req'[p].op \in Copying /\ req'[p].pc = "write" =>
            user'[req'[p].u].st # "none" /\ req'[p].c.by = user'[req'[p].u].by
      BY <1>0, <1>1, <2>2, FreeFits DEF OnceInv, Only, Copies
    <3>3. Barred("unmarked", i)'
      BY <2>4 DEF Barred
    <3> QED
      BY <1>0, <2>6, <3>1, <3>2, <3>3 DEF OnceInv, Barred
  <2> QED
    BY <2>7, <2>8 DEF AccountInv
<1>5. CASE ~ At(r, "invite", "list") /\ ~ At(r, "remove", "team") /\ ~ At(r, "join", "mark")
  <2>1. Answer(r) /\ UNCHANGED <<token, odd>>
    BY <1>5 DEF Fail
  <2> QED
    BY <1>1, <1>5, <2>1, AnswerKeeps DEF At, Marking, Still, rows, hist
<1> QED
  BY <1>2, <1>3, <1>4, <1>5

-----------------------------------------------------------------------------
(* Steps that change an account *)

LEMMA RevokeSame ==
  ASSUME RevokeInv, UNCHANGED <<cache, known, old>>, odd \subseteq odd',
         \A u \in Users : Barred("restored", u)' \/ user'[u].tv = user[u].tv,
         \A p \in Slots : req'[p] = req[p] \/ req'[p].pc \notin {"fetched", "invalidate"}
  PROVE  RevokeInv'
<1>1. ASSUME NEW u \in Users, Refused(u), user'[u].tv = user[u].tv
      PROVE  Refused(u)'
  BY <1>1 DEF Refused, Remembers
<1> QED
  BY <1>1 DEF RevokeInv, Barred

LEMMA OnceGrows ==
  ASSUME TypeInv, OnceInv, odd \subseteq odd', Kept,
         \A u \in Users : user'[u].by = user[u].by /\ (user[u].st # "none" => user'[u].st # "none"),
         \A p \in Slots : req'[p] = req[p] \/ (~ Copies(req'[p]) /\ ~ Marking(req[p]))
  PROVE  OnceInv'
<1>1. ASSUME NEW i \in Invs, Used(i)
      PROVE  Used(i)'
  <2>1. \A p \in Slots : Marking(req[p]) => req'[p] = req[p]
    OBVIOUS
  <2> QED
    BY <1>1, <2>1 DEF Used, Kept, Marking
<1>2. \A p \in Slots : req'[p].op \in Copying /\ req'[p].pc = "write" =>
        user'[req'[p].u].st # "none" /\ req'[p].c.by = user'[req'[p].u].by
  <2>1. \A p \in Slots : Copies(req[p]) => req[p].u \in Users
    BY Fields DEF Copies, Copying, Carries, Authenticated
  <2> QED
    BY <2>1 DEF OnceInv, Copies
<1> QED
  BY <1>1, <1>2 DEF OnceInv, Barred

LEMMA HeldSame ==
  ASSUME NEW u \in Users, Held(u),
         user'[u].st = user[u].st, user'[u].tv = user[u].tv, user'[u].role = user[u].role,
         UNCHANGED <<team, token>>, \A k \in Keys : key'[k] = key[k] \/ key'[k] = None,
         \A p \in Slots : req'[p] = req[p] \/ Quiet(req'[p])
  PROVE  Held(u)'
<1>1. \A tv, role : Agrees(u, tv, role)' <=> Agrees(u, tv, role)
  BY DEF Agrees, Active
<1>2. \A t \in token' : t.u = u => Agrees(u, t.tv, t.role)'
  BY <1>1 DEF Held
<1>3. ASSUME NEW p \in Slots, req'[p].u = u
      PROVE  Fits(u, req[p])'
  <2>1. CASE Quiet(req'[p])
    BY <2>1 DEF Quiet, Fits
  <2>2. CASE req'[p] = req[p]
    <3>1. PICK q : q = req[p] /\ q = req'[p]
      BY <2>2
    <3>2. Fits(u, q)
      BY <1>3, <3>1 DEF Held
    <3>3. Fits(u, q)'
      BY <1>1, <3>2 DEF Fits
    <3> QED
      BY <3>1, <3>3
  <2> QED
    BY <2>1, <2>2
<1>4. /\ u \in team' => Active(u)'
      /\ \A k \in Keys : key'[k] # None /\ key'[k].u = u =>
           Active(u)' /\ (key'[k].role = "admin" => user'[u].role = "admin")
  BY DEF Held, Active
<1> QED
  BY <1>2, <1>3, <1>4 DEF Held

LEMMA Invalidating ==
  ASSUME NEW x \in Request, NEW v \in Nat
  PROVE  [x EXCEPT !.pc = "invalidate", !.ver = v] \in Request
BY DEF Request, PC, Version

(* The version is raised: nothing that carries an older one says anything. *)
LEMMA RaiseKeeps ==
  ASSUME AccountInv, NEW r \in Slots, NEW w \in Users, w = req[r].u, NEW row \in User, Set(w, row),
         row.tv = user[w].tv + 1, row.by = user[w].by, row.st \in {"active", "removed"},
         row.st = "removed" => Leaving(req[r]),
         row.st = "removed" \/ row.role # user[w].role => \A k \in Keys : key'[k] # None => key'[k].u # w,
         \A k \in Keys : key'[k] = key[k] \/ key'[k] = None, key' \in [Keys -> Key \cup {None}],
         req' = [req EXCEPT ![r].pc = "invalidate", ![r].ver = user'[w].tv],
         req[r].op \in {"password", "verify", "disable", "logout", "role", "remove"},
         UNCHANGED <<inv, team, ident, chall, google, token, cache, left, known, old, odd>>
  PROVE  AccountInv'
<1>0. TypeInv /\ NewInv /\ RevokeInv /\ RoleInv /\ OnceInv
  BY DEF AccountInv
<1>1. /\ user' \in [Users -> User]
      /\ \A u \in Users : user'[u] = user[u] \/ (u = w /\ Active(w) /\ user'[u] = row)
  <2>1. user \in [Users -> User]
    BY <1>0 DEF TypeInv, TypeOK
  <2> QED
    BY <2>1 DEF Set
<1>2. \A u \in Users : /\ user[u].tv \in Nat /\ user'[u].tv \in Nat /\ user[u].tv <= user'[u].tv
                       /\ user'[u].by = user[u].by /\ (user[u].st # "none" => user'[u].st # "none")
  <2>1. \A u \in Users : user[u].tv \in Nat /\ user'[u].tv \in Nat
    BY <1>0, <1>1, Fields DEF User, Version
  <2> QED
    BY <1>1, <2>1
<1>3. PICK v \in Nat : v = user'[w].tv
  BY <1>2
<1>4. req[r] \in Request /\ Carries(req[r])
  BY <1>0, Fields
<1>5. PICK q \in Request : q = [req[r] EXCEPT !.pc = "invalidate", !.ver = v]
  BY <1>4, Invalidating
<1>6. /\ q.pc = "invalidate" /\ q.ver = v /\ q.op = req[r].op /\ q.u = w /\ q.srv = req[r].srv /\ q.t = req[r].t
  BY <1>4, <1>5 DEF Request
<1>7. req' = [req EXCEPT ![r] = q]
  BY <1>0, <1>3, <1>5 DEF TypeInv, TypeOK
<1>8. Only(r) /\ req'[r] = q
  BY <1>0, <1>7, PutMoves DEF TypeInv
<1>9. Carries(q) /\ Quiet(q) /\ ~ Copies(q) /\ ~ Marking(req[r])
  BY <1>4, <1>6 DEF Carries, Quiet, Copied, Copies, Copying, Leaving, Marking, Authenticated
<1>10. TypeInv'
  <2>1. Carries(req[r])'
    BY <1>8, <1>9 DEF Carries
  <2>2. Supplied'
    BY <1>0, <1>8, <2>1, OneSupplied
  <2> QED
    BY <1>0, <1>1, <1>8, <2>2 DEF TypeInv, TypeOK, Only
<1>11. NewInv'
  BY <1>0, <1>1 DEF NewInv
<1>12. RevokeInv'
  <2>1. ASSUME NEW u \in Users, Refused(u)
        PROVE  Refused(u)'
    <3>1. \A x \in Nat : x <= user[u].tv => x <= user'[u].tv
      BY <1>2
    <3>2. old[u] \in Nat /\ \A s \in Servers : known[s][u] \in Nat
      BY <1>0 DEF TypeInv, TypeOK, Version
    <3>3. old[u] <= user'[u].tv /\ \A s \in Servers : known[s][u] <= user'[u].tv
      BY <2>1, <3>1, <3>2 DEF Refused
    <3>4. ASSUME NEW p \in Slots, req'[p].u = u
          PROVE  /\ req'[p].pc = "invalidate" => req'[p].ver <= user'[u].tv
                 /\ req'[p].pc = "fetched" =>
                      /\ ~ req'[p].again => req'[p].ver >= known[req'[p].srv][u]
                      /\ ~ req'[p].late => req'[p].ver >= old[u]
      <4>1. CASE p = r
        BY <1>2, <1>3, <1>6, <1>8, <3>4, <4>1
      <4>2. CASE p # r
        <5>1. req'[p] = req[p] /\ req[p].ver \in Nat
          BY <1>0, <1>8, <4>2, Fields DEF Only, Request, Version
        <5> QED
          BY <2>1, <3>1, <3>4, <5>1 DEF Refused
      <4> QED
        BY <4>1, <4>2
    <3> QED
      BY <2>1, <3>3, <3>4 DEF Refused, Remembers
  <2> QED
    BY <1>0, <2>1 DEF RevokeInv, Barred
<1>13. OnceInv'
  <2>1. Kept
    BY DEF Kept
  <2> QED
    BY <1>0, <1>2, <1>8, <1>9, <2>1, OnceGrows DEF Only
<1>14. RoleInv'
  <2>1. ASSUME NEW u \in Users, Held(u)
        PROVE  Held(u)'
    <3>1. CASE user'[u] = user[u]
      BY <1>8, <1>9, <2>1, <3>1, HeldSame DEF Only
    <3>2. CASE u = w /\ Active(w) /\ user'[u] = row
      <4>1. user'[u].tv = user[u].tv + 1 /\ user'[u].st \in {"active", "removed"}
        BY <3>2
      <4>2. ASSUME NEW tv \in Nat, NEW role, Agrees(u, tv, role)
            PROVE  Agrees(u, tv, role)'
        <5>1. user[u].tv \in Nat /\ tv <= user[u].tv
          BY <1>2, <4>2 DEF Agrees
        <5>2. tv <= user'[u].tv /\ tv # user'[u].tv
          BY <4>1, <5>1
        <5> QED
          BY <4>1, <5>2 DEF Agrees
      <4>3. \A t \in token' : t.u = u => Agrees(u, t.tv, t.role)'
        BY <1>0, <2>1, <4>2, Fields DEF Held, Version
      <4>4. ASSUME NEW p \in Slots, req'[p].u = u
            PROVE  Fits(u, req[p])'
        <5>1. CASE p = r
          BY <1>8, <1>9, <5>1 DEF Fits, Quiet
        <5>2. CASE p # r
          <6>1. PICK x \in Request : x = req[p] /\ x = req'[p] /\ Carries(x)
            BY <1>0, <1>8, <5>2, Fields DEF Only
          <6>2. Fits(u, x)
            BY <2>1, <4>4, <6>1 DEF Held
          <6>3. Copied(x) => x.c \in User /\ x.c.tv \in Nat
            BY <6>1 DEF Copied, Carries, User, Version
          <6>4. Leaving(x) => u \notin team'
            BY <6>2 DEF Fits
          <6>5. Marking(x) => Agrees(u, 0, x.ci.role)'
            BY <4>2, <6>2 DEF Fits
          <6>6. ASSUME Copied(x), NEW role
                PROVE  Agrees(u, x.c.tv, role)'
            <7>1. \E other : Agrees(u, x.c.tv, other)
              BY <6>2, <6>6 DEF Fits
            <7>2. user[u].tv \in Nat /\ x.c.tv \in Nat /\ x.c.tv <= user[u].tv
              BY <1>2, <6>3, <6>6, <7>1 DEF Agrees
            <7>3. x.c.tv <= user'[u].tv /\ x.c.tv # user'[u].tv
              BY <4>1, <7>2
            <7> QED
              BY <4>1, <7>3 DEF Agrees
          <6>7. Fits(u, x)'
            BY <6>4, <6>5, <6>6 DEF Fits
          <6> QED
            BY <6>1, <6>7
        <5> QED
          BY <5>1, <5>2
      <4>5. u \in team' => Active(u)'
        BY <1>6, <2>1, <3>2 DEF Held, Fits, Active
      <4>6. \A k \in Keys : key'[k] # None /\ key'[k].u = u =>
              Active(u)' /\ (key'[k].role = "admin" => user'[u].role = "admin")
        BY <2>1, <3>2 DEF Held, Active
      <4> QED
        BY <4>3, <4>4, <4>5, <4>6 DEF Held
    <3> QED
      BY <1>1, <3>1, <3>2
  <2> QED
    BY <1>0, <2>1 DEF RoleInv, Barred
<1> QED
  BY <1>10, <1>11, <1>12, <1>13, <1>14 DEF AccountInv

LEMMA StoreKeeps ==
  ASSUME AccountInv, NEW r \in Slots, StoreSecure(r) \/ StoreRole(r) \/ RemoveFromOrg(r)
  PROVE  AccountInv'
<1>0. TypeInv /\ RowTypes /\ req[r] \in Request /\ Carries(req[r])
  BY RowsTyped, Fields DEF AccountInv
<1>1. PICK w \in Users : w = req[r].u
  BY <1>0, Fields DEF Carries, StoreSecure, StoreRole, RemoveFromOrg, At, Authenticated
<1>2. PICK row0 \in User : row0 = Raised(w) /\ row0.tv = user[w].tv + 1 /\ row0.by = user[w].by
                           /\ row0.role = user[w].role /\ row0.st = user[w].st
  <2>1. user[w] \in User /\ Raised(w) \in User
    BY <1>0, SetTypes DEF TypeInv
  <2>2. /\ Raised(w).tv = user[w].tv + 1 /\ Raised(w).by = user[w].by
        /\ Raised(w).role = user[w].role /\ Raised(w).st = user[w].st
    BY <2>1 DEF Raised, User
  <2> QED
    BY <2>1, <2>2
<1>3. /\ req' = [req EXCEPT ![r].pc = "invalidate", ![r].ver = user'[w].tv]
      /\ UNCHANGED <<inv, team, ident, chall, google, token, cache, left, known, old, odd>>
  BY <1>1 DEF StoreSecure, StoreRole, RemoveFromOrg, hist
<1>4. ASSUME RevokeAllForUser(w)
      PROVE  /\ \A k \in Keys : key'[k] # None => key'[k].u # w
             /\ \A k \in Keys : key'[k] = key[k] \/ key'[k] = None
             /\ key' \in [Keys -> Key \cup {None}]
  BY <1>0, <1>4 DEF RevokeAllForUser, RowTypes
<1>5. CASE ~ Active(w)
  (* The row is hidden: nothing is stored, whatever was to be. *)
  <2>1. PICK row \in User : /\ row.tv = user[w].tv + 1 /\ row.by = user[w].by /\ row.role = user[w].role
                            /\ row.st = "active"
    <3>1. PICK row \in User : row = [row0 EXCEPT !.st = "active"]
      BY DEF User
    <3> QED
      BY <1>2, <3>1 DEF User
  <2>2. Set(w, row)
    BY <1>1, <1>5 DEF Set, StoreSecure, StoreRole, RemoveFromOrg
  <2>3. key' = key \/ RevokeAllForUser(w)
    BY <1>1 DEF StoreSecure, StoreRole, RemoveFromOrg
  <2>4. key' \in [Keys -> Key \cup {None}] /\ \A k \in Keys : key'[k] = key[k] \/ key'[k] = None
    BY <1>0, <1>4, <2>3 DEF RowTypes
  <2>5. req[r].op \in {"password", "verify", "disable", "logout", "role", "remove"}
    BY DEF StoreSecure, StoreRole, RemoveFromOrg, At
  <2> QED
    BY <1>1, <1>3, <2>1, <2>2, <2>4, <2>5, RaiseKeeps
<1>6. CASE Active(w) /\ StoreSecure(r)
  <2>1. PICK row \in User : /\ row = Secured(r)
                            /\ row.tv = user[w].tv + 1 /\ row.by = user[w].by /\ row.role = user[w].role
                            /\ row.st = "active"
    <3>1. ASSUME NEW fa \in {"on", "off"}
          PROVE  /\ [row0 EXCEPT !.fa = fa] \in User /\ [row0 EXCEPT !.fa = fa].tv = row0.tv
                 /\ [row0 EXCEPT !.fa = fa].by = row0.by /\ [row0 EXCEPT !.fa = fa].role = row0.role
                 /\ [row0 EXCEPT !.fa = fa].st = row0.st
      BY DEF User
    <3>2. \/ Secured(r) = row0 \/ Secured(r) = [row0 EXCEPT !.fa = "on"]
          \/ Secured(r) = [row0 EXCEPT !.fa = "off"]
      <4>1. req[r].op \in {"password", "verify", "disable", "logout"}
        BY <1>6 DEF StoreSecure, At
      <4> QED
        BY <1>1, <1>2, <4>1 DEF Secured
    <3> QED
      BY <1>2, <1>6, <3>1, <3>2 DEF Active
  <2>2. Set(w, row) /\ key' = key
    BY <1>1, <1>6, <2>1 DEF StoreSecure
  <2>3. key' \in [Keys -> Key \cup {None}] /\ \A k \in Keys : key'[k] = key[k] \/ key'[k] = None
    BY <1>0, <2>2 DEF RowTypes
  <2>4. req[r].op \in {"password", "verify", "disable", "logout", "role", "remove"}
    BY <1>6 DEF StoreSecure, At
  <2> QED
    BY <1>1, <1>3, <2>1, <2>2, <2>3, <2>4, RaiseKeeps
<1>7. CASE Active(w) /\ StoreRole(r)
  <2>0. req[r].role \in Roles /\ req[r].op = "role"
    BY <1>0, <1>7 DEF Request, StoreRole, At
  <2>1. PICK row \in User : row = [row0 EXCEPT !.role = req[r].role]
    BY <2>0 DEF User
  <2>2. row.tv = user[w].tv + 1 /\ row.by = user[w].by /\ row.st = "active"
    BY <1>2, <1>7, <2>1 DEF User, Active
  <2>3. Set(w, row) /\ RevokeAllForUser(w)
    BY <1>1, <1>2, <1>7, <2>1 DEF StoreRole
  <2> QED
    BY <1>1, <1>3, <1>4, <2>0, <2>2, <2>3, RaiseKeeps
<1>8. CASE Active(w) /\ RemoveFromOrg(r)
  <2>0. Leaving(req[r]) /\ req[r].op = "remove"
    BY <1>8 DEF RemoveFromOrg, At, Leaving
  <2>1. PICK row \in User : row = [row0 EXCEPT !.st = "removed"]
    BY DEF User
  <2>2. row.tv = user[w].tv + 1 /\ row.by = user[w].by /\ row.st = "removed"
    BY <1>2, <2>1 DEF User
  <2>3. Set(w, row) /\ RevokeAllForUser(w)
    BY <1>1, <1>2, <1>8, <2>1 DEF RemoveFromOrg
  <2> QED
    BY <1>1, <1>3, <1>4, <2>0, <2>2, <2>3, RaiseKeeps
<1> QED
  BY <1>5, <1>6, <1>7, <1>8

(* A whole row is stored: it says what the account says, or it is noted.   *)
LEMMA WriteOwnKeeps ==
  ASSUME AccountInv, NEW r \in Slots, WriteOwn(r)
  PROVE  AccountInv'
<1>0. TypeInv /\ NewInv /\ RevokeInv /\ RoleInv /\ OnceInv /\ RowTypes
  BY RowsTyped DEF AccountInv
<1>1. /\ req[r] \in Request /\ Carries(req[r]) /\ Copies(req[r]) /\ Copied(req[r]) /\ ~ Marking(req[r])
  BY <1>0, Fields DEF WriteOwn, Copies, Copied, Copying, Marking
<1>2. PICK w \in Users, copy \in User : /\ w = req[r].u /\ copy = req[r].c /\ copy.st = "active"
                                        /\ copy.by = user[w].by
  BY <1>0, <1>1, Fields DEF Carries, Copies, Copying, Authenticated, OnceInv
<1> DEFINE back == IF Active(w) /\ copy.tv # user[w].tv THEN {<<"restored", w>>} ELSE {}
           turn == IF Active(w) /\ copy.role # user[w].role /\ req[r].op = "accept"
                   THEN {<<"crossed", w>>} ELSE {}
<1>3. /\ Set(w, copy) /\ odd' = odd \cup back \cup turn
      /\ UNCHANGED <<inv, key, team, ident, chall, google, token, cache, left, known, old>>
  BY <1>2 DEF WriteOwn, Note
<1>4. /\ user' \in [Users -> User]
      /\ \A u \in Users : user'[u] = user[u] \/ (u = w /\ Active(w) /\ user'[u] = copy)
  <2>1. user \in [Users -> User]
    BY <1>0 DEF TypeInv, TypeOK
  <2> QED
    BY <1>3, <2>1 DEF Set
<1>5. back \subseteq {<<"restored", w>>} /\ turn \subseteq {<<"crossed", w>>}
  OBVIOUS
<1>6. odd \subseteq odd' /\ RowTypes'
  BY <1>0, <1>3, <1>5 DEF RowTypes
<1>7. Active(w) => copy.tv = user[w].tv \/ \E v \in Users : v = w /\ Barred("restored", v)'
  <2>1. ASSUME back = {<<"restored", w>>} PROVE Barred("restored", w)'
    BY <1>3, <2>1 DEF Barred
  <2> QED
    BY <2>1
<1>8. Active(w) /\ req[r].op = "accept" =>
        copy.role = user[w].role \/ \E v \in Users : v = w /\ Barred("crossed", v)'
  <2>1. ASSUME turn = {<<"crossed", w>>} PROVE Barred("crossed", w)'
    BY <1>3, <2>1 DEF Barred
  <2> QED
    BY <2>1
<1> HIDE DEF back, turn
<1>9. /\ Only(r) /\ req'[r].pc \in {"free", "mark"} /\ Carries(req'[r]) /\ Quiet(req'[r]) /\ ~ Copies(req'[r])
  <2>1. CASE req[r].op = "accept"
    <3>1. Go(r, "mark")
      BY <2>1 DEF WriteOwn
    <3>2. /\ Only(r) /\ req'[r].pc = "mark" /\ req'[r].op = "accept" /\ req'[r].u = req[r].u
          /\ req'[r].srv = req[r].srv /\ req'[r].t = req[r].t /\ req'[r].i = req[r].i
          /\ req'[r].ci = req[r].ci
      BY <1>0, <2>1, <3>1, GoMoves DEF TypeInv, PC
    <3> QED
      BY <1>1, <2>1, <3>2 DEF Carries, Quiet, Copied, Copies, Copying, Leaving, Marking, Authenticated
  <2>2. CASE req[r].op # "accept"
    BY <1>0, <2>2, AnswerMoves, FreeFits, FreeRequest DEF WriteOwn, TypeInv
  <2> QED
    BY <2>1, <2>2
<1>10. TypeInv'
  <2>1. Carries(req[r])'
    BY <1>3, <1>9 DEF Carries
  <2>2. Supplied'
    BY <1>0, <1>3, <1>9, <2>1, OneSupplied
  <2> QED
    BY <1>0, <1>3, <1>4, <1>6, <1>9, <2>2 DEF TypeInv, TypeOK, RowTypes, Only
<1>11. NewInv'
  BY <1>0, <1>2, <1>4 DEF NewInv
<1>12. RevokeInv'
  <2>1. \A u \in Users : Barred("restored", u)' \/ user'[u].tv = user[u].tv
    BY <1>4, <1>7
  <2> QED
    BY <1>0, <1>3, <1>6, <1>9, <2>1, RevokeSame DEF Only
<1>13. OnceInv'
  <2>1. Kept
    BY <1>3 DEF Kept
  <2>2. \A u \in Users : user'[u].by = user[u].by /\ (user[u].st # "none" => user'[u].st # "none")
    BY <1>2, <1>4
  <2> QED
    BY <1>0, <1>1, <1>6, <1>9, <2>1, <2>2, OnceGrows DEF Only
<1>14. RoleInv'
  <2>1. ASSUME NEW u \in Users, Held(u), ~ Barred("restored", u)', ~ Barred("crossed", u)'
        PROVE  Held(u)'
    <3>1. user'[u].st = user[u].st /\ user'[u].tv = user[u].tv /\ user'[u].role = user[u].role
      <4>1. CASE user'[u] = user[u]
        BY <4>1
      <4>2. CASE u = w /\ Active(w) /\ user'[u] = copy
        <5>1. copy.tv = user[u].tv
          BY <1>7, <2>1, <4>2
        <5>2. Agrees(u, copy.tv, IF req[r].op = "accept" THEN user[u].role ELSE copy.role)
          BY <1>1, <1>2, <2>1, <4>2 DEF Held, Fits
        <5>3. copy.role = user[u].role
          BY <1>8, <2>1, <4>2, <5>1, <5>2 DEF Agrees
        <5> QED
          BY <1>2, <4>2, <5>1, <5>3 DEF Active
      <4> QED
        BY <1>4, <4>1, <4>2
    <3> QED
      BY <1>3, <1>9, <2>1, <3>1, HeldSame DEF Only
  <2> QED
    BY <1>0, <1>6, <2>1 DEF RoleInv, Barred
<1> QED
  BY <1>10, <1>11, <1>12, <1>13, <1>14 DEF AccountInv

(* New accounts: nobody knows them yet.                                    *)
LEMMA InsertFacts ==
  ASSUME TypeInv, NewInv, NEW v \in Fresh, NEW role \in Roles, NEW by \in Invs \cup {None}, Insert(v, role, by)
  PROVE  /\ v \in Users /\ user' \in [Users -> User] /\ user[v].st = "none" /\ NewInv'
         /\ user'[v].st = "active" /\ user'[v].tv = 0 /\ user[v].tv = 0 /\ user[v].by = None
         /\ user'[v].role = role /\ user'[v].by = by
         /\ \A u \in Users : u # v => user'[u] = user[u]
<1>1. v \in Users /\ user[v].st = "none" /\ user \in [Users -> User]
  BY DEF Fresh, TypeInv, TypeOK
<1>2. PICK row \in User : row = [NoUser EXCEPT !.st = "active", !.role = role, !.by = by]
  BY DEF NoUser, User, Roles, Version
<1>3. row.st = "active" /\ row.tv = 0 /\ row.role = role /\ row.by = by
  BY <1>2 DEF NoUser
<1>4. user' = [user EXCEPT ![v] = row]
  BY <1>2 DEF Insert
<1>5. user' \in [Users -> User] /\ user'[v] = row /\ \A u \in Users : u # v => user'[u] = user[u]
  BY <1>1, <1>4
<1>6. NewInv'
  BY <1>3, <1>5 DEF NewInv
<1> QED
  BY <1>1, <1>3, <1>5, <1>6 DEF NewInv

LEMMA InsertRoles ==
  ASSUME TypeInv, RoleInv, NEW v \in Users, user[v].st = "none", user'[v].st = "active",
         \A u \in Users : u # v => user'[u] = user[u],
         UNCHANGED <<key, team, token>>, odd \subseteq odd', NEW r \in Slots, Only(r),
         Quiet(req'[r]) \/ (req'[r].u = v /\ Marking(req'[r]) /\ user'[v].tv = 0 /\ req'[r].ci.role = user'[v].role)
  PROVE  RoleInv'
<1>1. ASSUME NEW u \in Users, u # v, Held(u)
      PROVE  Held(u)'
  <2>1. \A tv, role : Agrees(u, tv, role)' <=> Agrees(u, tv, role)
    BY <1>1 DEF Agrees, Active
  <2>2. \A t \in token' : t.u = u => Agrees(u, t.tv, t.role)'
    BY <1>1, <2>1 DEF Held
  <2>3. ASSUME NEW p \in Slots, req'[p].u = u
        PROVE  Fits(u, req[p])'
    <3>1. CASE p = r
      BY <1>1, <2>3, <3>1 DEF Fits, Quiet
    <3>2. CASE p # r
      <4>1. PICK q : q = req[p] /\ q = req'[p]
        BY <3>2 DEF Only
      <4>2. Fits(u, q)
        BY <1>1, <2>3, <4>1 DEF Held
      <4>3. Fits(u, q)'
        BY <1>1, <2>1, <4>2 DEF Fits
      <4> QED
        BY <4>1, <4>3
    <3> QED
      BY <3>1, <3>2
  <2>4. /\ u \in team' => Active(u)'
        /\ \A k \in Keys : key'[k] # None /\ key'[k].u = u =>
             Active(u)' /\ (key'[k].role = "admin" => user'[u].role = "admin")
    BY <1>1 DEF Held, Active
  <2> QED
    BY <2>2, <2>3, <2>4 DEF Held
<1>2. ASSUME Held(v)
      PROVE  Held(v)'
  <2>1. \A tv, role : ~ Agrees(v, tv, role)
    BY DEF Agrees
  <2>2. v \notin team /\ (\A t \in token : t.u # v) /\ \A k \in Keys : key[k] # None => key[k].u # v
    BY <1>2, <2>1 DEF Held, Active
  <2>3. ASSUME NEW p \in Slots, req'[p].u = v
        PROVE  Fits(v, req[p])'
    <3>1. CASE p = r /\ Quiet(req'[r])
      BY <3>1 DEF Fits, Quiet
    <3>2. CASE p = r /\ ~ Quiet(req'[r])
      <4>1. PICK q : q = req'[r]
        OBVIOUS
      <4>2. Marking(q) /\ ~ Leaving(q) /\ ~ Copied(q) /\ q.ci.role = user'[v].role
        BY <3>2, <4>1 DEF Marking, Leaving, Copied, Copying
      <4>3. Agrees(v, 0, q.ci.role)'
        BY <3>2, <4>2 DEF Agrees
      <4>4. Fits(v, q)'
        BY <4>2, <4>3 DEF Fits
      <4> QED
        BY <3>2, <4>1, <4>4
    <3>3. CASE p # r
      <4>1. PICK q : q = req[p] /\ q = req'[p]
        BY <3>3 DEF Only
      <4>2. Fits(v, q)
        BY <1>2, <2>3, <4>1 DEF Held
      <4>3. Fits(v, q)'
        BY <2>1, <2>2, <4>2 DEF Fits
      <4> QED
        BY <4>1, <4>3
    <3> QED
      BY <3>1, <3>2, <3>3
  <2> QED
    BY <2>2, <2>3 DEF Held
<1> QED
  BY <1>1, <1>2 DEF RoleInv, Barred

LEMMA CreateDirectlyKeeps ==
  ASSUME AccountInv, NEW r \in Slots, CreateDirectly(r)
  PROVE  AccountInv'
<1>0. TypeInv /\ NewInv /\ RevokeInv /\ RoleInv /\ OnceInv
  BY DEF AccountInv
<1>1. /\ Answer(r) /\ ~ Marking(req[r]) /\ req[r].role \in Roles
      /\ UNCHANGED <<inv, key, team, ident, chall, google, token, cache, left, known, old, odd>>
  BY <1>0, Fields DEF CreateDirectly, At, Marking, Request, hist
<1>2. Only(r) /\ req'[r] = Free
  BY <1>0, <1>1, AnswerMoves DEF TypeInv
<1>3. CASE user' = user
  BY <1>1, <1>3, AnswerKeeps DEF Still, rows, hist
<1>4. CASE user' # user
  <2>1. PICK v \in Fresh : Insert(v, req[r].role, None)
    BY <1>4 DEF CreateDirectly
  <2>2. /\ v \in Users /\ user' \in [Users -> User] /\ user[v].st = "none" /\ NewInv'
        /\ user'[v].st = "active" /\ user'[v].tv = 0 /\ user[v].tv = 0 /\ user[v].by = None
        /\ user'[v].by = None
        /\ \A u \in Users : u # v => user'[u] = user[u]
    BY <1>0, <1>1, <2>1, InsertFacts
  <2>3. TypeInv'
    <3>1. Carries(req[r])'
      BY <1>1, <1>2, FreeFits DEF Carries
    <3>2. Supplied'
      BY <1>0, <1>1, <1>2, <3>1, OneSupplied
    <3> QED
      BY <1>0, <1>1, <1>2, <2>2, <3>2 DEF TypeInv, TypeOK, Only
  <2>4. RevokeInv'
    BY <1>0, <1>1, <1>2, <2>2, FreeFits, RevokeSame DEF Only
  <2>5. RoleInv'
    BY <1>0, <1>1, <1>2, <2>2, FreeFits, InsertRoles
  <2>6. OnceInv'
    <3>1. Kept
      BY <1>1 DEF Kept
    <3> QED
      BY <1>0, <1>1, <1>2, <2>2, <3>1, FreeFits, OnceGrows DEF Only
  <2> QED
    BY <2>2, <2>3, <2>4, <2>5, <2>6 DEF AccountInv
<1> QED
  BY <1>3, <1>4

LEMMA MarkingRequest ==
  ASSUME NEW x \in Request, NEW v \in Users
  PROVE  [x EXCEPT !.pc = "mark", !.u = v] \in Request
BY DEF Request, PC

LEMMA CreateAccountKeeps ==
  ASSUME AccountInv, NEW r \in Slots, CreateAccount(r)
  PROVE  AccountInv'
<1>0. TypeInv /\ NewInv /\ RevokeInv /\ RoleInv /\ OnceInv /\ RowTypes
  BY RowsTyped DEF AccountInv
<1>1. /\ req[r] \in Request /\ Carries(req[r]) /\ req[r].op = "join" /\ ~ Marking(req[r])
      /\ UNCHANGED <<inv, key, team, ident, chall, google, token, cache, left, known, old>>
  BY <1>0, Fields DEF CreateAccount, At, Marking
<1>2. PICK i \in Invs : i = req[r].i
  BY <1>1 DEF Carries
<1>3. CASE Mine # {}
  BY <1>1, <1>3, AnswerKeeps DEF CreateAccount, Still, rows, hist
<1>4. CASE Mine = {}
  <2> DEFINE marking == \E p \in Slots : req[p].pc = "mark" /\ req[p].i = i
             note == IF inv[i].st \in {req[r].ci.st, "expired"} /\ ~ marking THEN {} ELSE {<<"changed", i>>}
  <2>1. PICK v \in Fresh : /\ Insert(v, req[r].ci.role, i)
                           /\ req' = [req EXCEPT ![r].pc = "mark", ![r].u = v]
                           /\ odd' = odd \cup note
    BY <1>2, <1>4 DEF CreateAccount, Note
  <2>2. req[r].ci.role \in Roles /\ req[r].ci.st = "open"
    BY <1>1 DEF Carries, Invitation
  <2>3. /\ v \in Users /\ user' \in [Users -> User] /\ user[v].st = "none" /\ NewInv'
        /\ user'[v].st = "active" /\ user'[v].tv = 0 /\ user[v].tv = 0 /\ user[v].by = None
        /\ user'[v].role = req[r].ci.role /\ user'[v].by = i
        /\ \A u \in Users : u # v => user'[u] = user[u]
    BY <1>0, <2>1, <2>2, InsertFacts
  <2>4. PICK q \in Request : q = [req[r] EXCEPT !.pc = "mark", !.u = v]
    BY <1>1, <2>3, MarkingRequest
  <2>5. q.op = "join" /\ q.pc = "mark" /\ q.u = v /\ q.i = i /\ q.ci = req[r].ci /\ q.srv = req[r].srv
    BY <1>1, <1>2, <2>4 DEF Request
  <2>6. req' = [req EXCEPT ![r] = q]
    BY <1>0, <2>1, <2>4 DEF TypeInv, TypeOK
  <2>7. Only(r) /\ req'[r] = q
    BY <1>0, <2>6, PutMoves DEF TypeInv
  <2>8. Carries(q) /\ Marking(q) /\ ~ Copies(q)
    BY <1>1, <2>3, <2>5 DEF Carries, Marking, Copies, Copying, Authenticated
  <2>9. note \subseteq {<<"changed", i>>} /\ (note = {} => inv[i].st \in {"open", "expired"} /\ ~ marking)
    BY <2>2
  <2>10. odd \subseteq odd' /\ RowTypes'
    BY <1>0, <1>1, <2>1, <2>9 DEF RowTypes
  <2>11. (inv[i].st \in {"open", "expired"} /\ ~ marking) \/ Barred("changed", i)'
    <3>1. ASSUME note = {<<"changed", i>>} PROVE Barred("changed", i)'
      BY <2>1, <3>1 DEF Barred
    <3> QED
      BY <2>2, <3>1
  <2> HIDE DEF note
  <2>12. TypeInv'
    <3>1. Carries(req[r])'
      BY <1>1, <2>7, <2>8 DEF Carries
    <3>2. Supplied'
      BY <1>0, <1>1, <2>7, <3>1, OneSupplied
    <3> QED
      BY <1>0, <1>1, <2>3, <2>7, <2>10, <3>2 DEF TypeInv, TypeOK, RowTypes, Only
  <2>13. RevokeInv'
    BY <1>0, <1>1, <2>3, <2>5, <2>7, <2>10, RevokeSame DEF Only
  <2>14. RoleInv'
    BY <1>0, <1>1, <2>3, <2>5, <2>7, <2>8, <2>10, InsertRoles
  <2>15. OnceInv'
    <3>1. ASSUME NEW j \in Invs, Used(j), j # i
          PROVE  Used(j)'
      <4>1. \A u \in Users : user'[u].by = j => user[u].by = j
        BY <2>3, <3>1
      <4>2. \A p \in Slots : Marking(req[p]) => req'[p] = req[p]
        BY <1>1, <2>7 DEF Only
      <4> QED
        BY <1>1, <3>1, <4>1, <4>2 DEF Used, Marking
    <3>2. ASSUME Used(i), ~ Barred("changed", i)'
          PROVE  Used(i)'
      <4>1. inv[i].st \in {"open", "expired"} /\ ~ \E p \in Slots : Marking(req[p]) /\ req[p].i = i
        BY <2>11, <3>2 DEF Marking
      <4>2. \A u \in Users : user[u].by # i
        BY <3>2, <4>1 DEF Used
      <4>3. \A u \in Users : user'[u].by = i => u = v
        BY <2>3, <4>2
      <4>4. req'[r].op = "join" /\ req'[r].pc = "mark" /\ req'[r].i = i
        BY <2>5, <2>7
      <4> QED
        BY <4>3, <4>4 DEF Used, Marking
    <3>3. \A p \in Slots : req'[p].op \in Copying /\ req'[p].pc = "write" =>
            user'[req'[p].u].st # "none" /\ req'[p].c.by = user'[req'[p].u].by
      <4>1. \A p \in Slots : Copies(req[p]) => req[p].u \in Users
        BY <1>0, Fields DEF Copies, Copying, Carries, Authenticated
      <4>2. \A p \in Slots : Copies(req'[p]) => req'[p] = req[p]
        BY <2>7, <2>8 DEF Only
      <4> QED
        BY <1>0, <2>3, <4>1, <4>2 DEF OnceInv, Copies
    <3> QED
      BY <1>0, <2>10, <3>1, <3>2, <3>3 DEF OnceInv, Barred
  <2> QED
    BY <2>3, <2>12, <2>13, <2>14, <2>15 DEF AccountInv
<1> QED
  BY <1>3, <1>4

LEMMA StillKeeps ==
  ASSUME AccountInv, UNCHANGED vars
  PROVE  AccountInv'
<1>0. UNCHANGED <<user, inv, key, team, ident, chall, google, token, cache, req, left, known, old, odd>>
  BY DEF vars
<1>1. TypeInv /\ NewInv /\ RevokeInv /\ RoleInv /\ OnceInv
  BY DEF AccountInv
<1>2. TypeInv'
  BY <1>0, <1>1 DEF TypeInv, TypeOK, Supplied, Carries
<1>3. RevokeInv' /\ RoleInv' /\ OnceInv' /\ NewInv'
  BY <1>0, <1>1, RevokeStays, RoleStays, OnceStays DEF Kept, NewInv
<1> QED
  BY <1>2, <1>3 DEF AccountInv

-----------------------------------------------------------------------------
(* The theorems *)

LEMMA AccountInit == Init => AccountInv
<1> SUFFICES ASSUME Init PROVE AccountInv
  OBVIOUS
<1>1. TypeInv
  BY InitType
<1>2. PICK joined \in BOOLEAN, rl \in Roles, fa \in {"off", "on"} :
        LET first == [NoUser EXCEPT !.st = "active", !.role = rl, !.by = 1, !.fa = fa] IN
        /\ user = [u \in Users |-> IF u = 1 /\ joined THEN first ELSE NoUser]
        /\ inv = [i \in Invs |-> IF i = 1 THEN [st |-> IF joined THEN "accepted" ELSE "open",
                                                role |-> rl] ELSE NoInv]
        /\ token = IF joined THEN {[u |-> 1, tv |-> 0, role |-> rl]} ELSE {}
  BY ZenonT(60) DEF Init
<1>3. /\ \A u \in Users : user[u].tv = 0
      /\ \A u \in Users : user[u].st = "none" => user[u].by = None
      /\ \A u \in Users : user[u].by = None \/ (u = 1 /\ user[u].by = 1 /\ inv[1].st = "accepted")
      /\ \A t \in token : t.u = 1 /\ t.tv = 0 /\ t.role = user[1].role /\ user[1].st = "active"
  <2>0. 1 \in Users /\ 1 \in Invs
    BY AccountsAssumption DEF Users, Invs
  <2>1. CASE joined
    <3>1. PICK row : row = [NoUser EXCEPT !.st = "active", !.role = rl, !.by = 1, !.fa = fa]
      OBVIOUS
    <3>2. row.tv = 0 /\ row.by = 1 /\ row.st = "active" /\ row.role = rl
      BY <3>1 DEF NoUser
    <3>3. \A u \in Users : user[u] = IF u = 1 THEN row ELSE NoUser
      BY <1>2, <2>1, <3>1
    <3>4. inv[1].st = "accepted" /\ token = {[u |-> 1, tv |-> 0, role |-> rl]}
      BY <1>2, <2>0, <2>1
    <3> QED
      BY <2>0, <3>2, <3>3, <3>4 DEF NoUser
  <2>2. CASE ~ joined
    BY <1>2, <2>2 DEF NoUser
  <2> QED
    BY <2>1, <2>2
<1>4. /\ \A r \in Slots : req[r] = Free
      /\ key = [k \in Keys |-> None] /\ team = {}
      /\ cache = [s \in Servers |-> [u \in Users |-> None]]
      /\ known = [s \in Servers |-> [u \in Users |-> 0]] /\ old = [u \in Users |-> 0]
  BY DEF Init
<1>5. NewInv
  BY <1>3 DEF NewInv
<1>6. RevokeInv
  BY <1>3, <1>4, FreeRequest DEF RevokeInv, Refused, Remembers
<1>7. RoleInv
  <2>1. \A u \in Users : \A t \in token : t.u = u => Agrees(u, t.tv, t.role)
    BY <1>3 DEF Agrees
  <2> QED
    BY <1>4, <2>1, FreeFits DEF RoleInv, Held
<1>8. OnceInv
  <2>1. \A i \in Invs : i # None
    BY AccountsAssumption DEF Invs
  <2>2. ASSUME NEW i \in Invs PROVE Used(i)
    <3>1. \A u \in Users : user[u].by = i => u = 1 /\ i = 1 /\ inv[1].st = "accepted"
      BY <1>3, <2>1
    <3> QED
      BY <3>1 DEF Used
  <2> QED
    BY <1>4, <2>2, FreeFits DEF OnceInv, Copies
<1> QED
  BY <1>1, <1>5, <1>6, <1>7, <1>8 DEF AccountInv

LEMMA AccountNext == AccountInv /\ [Next]_vars => AccountInv'
<1> SUFFICES ASSUME AccountInv, [Next]_vars PROVE AccountInv'
  OBVIOUS
<1>1. CASE UNCHANGED vars
  BY <1>1, StillKeeps
<1>2. CASE SessionNext
  <2>1. CASE Tick
    BY <2>1, TickKeeps
  <2>2. CASE \E s \in Servers : Crash(s)
    BY <2>2, CrashKeeps
  <2>3. CASE \/ Switch
             \/ \E u \in Users : Login(u) \/ LoginWithOAuth(u) \/ RemoveTeamMember(u)
             \/ \E t \in token : Refresh(t)
             \/ \E i \in Invs : Cancel(i) \/ Expire(i)
    BY <2>3, SignInKeeps
  <2> QED
    BY <1>2, <2>1, <2>2, <2>3 DEF SessionNext
<1>3. ASSUME NEW r \in Slots, BeginNext(r) PROVE AccountInv'
  BY <1>3, BeginKeeps
<1>4. ASSUME NEW r \in Slots, StepNext(r) PROVE AccountInv'
  <2>1. CASE Fetch(r) \/ Remember(r) \/ Invalidate(r) \/ Fail(r)
    BY <2>1, FetchKeeps, RememberKeeps, InvalidateKeeps, FailKeeps
  <2>2. CASE ReadOwn(r) \/ WriteOwn(r) \/ ReadSecure(r) \/ StoreSecure(r)
    BY <2>2, ReadOwnKeeps, WriteOwnKeeps, ReadKeeps, StoreKeeps
  <2>3. CASE \/ \E role \in Roles : CreateKey(r, role)
             \/ \E k \in Keys : RevokeKey(r, k)
             \/ \E right \in BOOLEAN : Consume(r, right)
             \/ \E i \in Invs : ReadInvitation(r, i)
    BY <2>3, CreateKeyKeeps, RevokeKeyKeeps, ConsumeKeeps, ReadInvitationKeeps
  <2>4. CASE \/ ReadMode(r) \/ ListPending(r) \/ InsertInvitation(r) \/ CreateDirectly(r)
             \/ CheckAddress(r) \/ CreateAccount(r) \/ MarkAccepted(r)
    BY <2>4, ReadKeeps, InsertInvitationKeeps, CreateDirectlyKeeps, CreateAccountKeeps, MarkAcceptedKeeps
  <2>5. CASE StoreRole(r) \/ ListTeams(r) \/ LeaveTeam(r) \/ RemoveFromOrg(r) \/ AddTeamMember(r)
    BY <2>5, StoreKeeps, LeaveKeeps, AddTeamMemberKeeps
  <2> QED
    BY <1>4, <2>1, <2>2, <2>3, <2>4, <2>5 DEF StepNext
<1> QED
  BY <1>1, <1>2, <1>3, <1>4 DEF Next

LEMMA AccountAlways == Spec => []AccountInv
BY AccountInit, AccountNext, PTL DEF Spec

(* Every row, token, copy and request has its type, whatever requests, of  *)
(* however many replicas, overlap.                                         *)
THEOREM AccountsTypeCorrect == Spec => []TypeOK
<1>1. AccountInv => TypeOK
  BY DEF AccountInv, TypeInv
<1> QED
  BY <1>1, AccountAlways, PTL

(* The replica that has answered a request that ends sessions admits none  *)
(* of them any more, and the others none that is older than thirty         *)
(* seconds, unless a whole row was stored over the version.                *)
THEOREM SessionRefused == Spec => []RevokedIsRefused
<1>1. AccountInv => RevokedIsRefused
  <2> SUFFICES ASSUME AccountInv, NEW s \in Servers, NEW u \in Users, ~ Barred("restored", u)
               PROVE  /\ user[u].tv >= known[s][u]
                      /\ Remembers(s, u) => cache[s][u] >= known[s][u] /\ cache[s][u] >= old[u]
    BY DEF RevokedIsRefused
  <2>1. user[u].tv \in Nat /\ known[s][u] \in Nat
    BY Fields DEF AccountInv, TypeInv, TypeOK, Version
  <2>2. known[s][u] <= user[u].tv
        /\ (Remembers(s, u) => cache[s][u] >= known[s][u] /\ cache[s][u] >= old[u])
    BY DEF AccountInv, RevokeInv, Refused
  <2> QED
    BY <2>1, <2>2
<1> QED
  BY <1>1, AccountAlways, PTL

(* Keys, tokens and memberships say what the account says, and those of    *)
(* a removed account are gone, whatever requests about it overlap, but for *)
(* those that made them while it was being changed.                        *)
THEOREM RoleStands == Spec => []RoleIsHeld
<1>1. AccountInv => RoleIsHeld
  BY DEF AccountInv, RoleInv, Held, RoleIsHeld, Agrees
<1> QED
  BY <1>1, AccountAlways, PTL

(* An invitation makes one account at most, of however many requests that  *)
(* join with it, unless it was changed or not marked meanwhile.            *)
THEOREM InvitedOnce == Spec => []UsedOnce
<1>1. AccountInv => UsedOnce
  <2> SUFFICES ASSUME AccountInv, NEW i \in Invs, ~ Barred("unmarked", i), ~ Barred("changed", i)
               PROVE  Cardinality({u \in Users : user[u].by = i}) <= 1
    BY DEF UsedOnce
  <2>1. \A u, v \in Users : user[u].by = i /\ user[v].by = i => u = v
    BY DEF AccountInv, OnceInv, Used
  <2>2. CASE {u \in Users : user[u].by = i} = {}
    BY <2>2, FS_EmptySet
  <2>3. CASE {u \in Users : user[u].by = i} # {}
    <3>1. PICK v : {u \in Users : user[u].by = i} = {v}
      BY <2>1, <2>3, ZenonT(60)
    <3>2. Cardinality({v}) = 1
      BY FS_Singleton
    <3>3. Cardinality({u \in Users : user[u].by = i}) = 1
      BY <3>1, <3>2
    <3> QED
      BY <3>3
  <2> QED
    BY <2>2, <2>3
<1> QED
  BY <1>1, AccountAlways, PTL

(* A code is tried once for each challenge, of however many requests that  *)
(* complete it at a time: the first one to consume it is the only one.     *)
GuessInv == \A ch \in Challs : chall[ch].tries <= 1 /\ (~ chall[ch].used => chall[ch].tries = 0)

THEOREM GuessedOnce == Spec => []OneGuess
<1>1. Init => GuessInv
  BY DEF Init, GuessInv
<1>2. TypeOK /\ GuessInv /\ [Next]_vars => GuessInv'
  <2> SUFFICES ASSUME TypeOK, GuessInv, [Next]_vars PROVE GuessInv'
    OBVIOUS
  <2>1. chall \in [Challs -> [u : Users \cup {None}, used : BOOLEAN, tries : Nat]]
    BY DEF TypeOK
  <2>2. CASE chall' = chall
    BY <2>2 DEF GuessInv
  <2>3. ASSUME NEW ch \in Challs, NEW u, chall' = [chall EXCEPT ![ch].u = u]
        PROVE  GuessInv'
    <3>1. \A c \in Challs : chall'[c].used = chall[c].used /\ chall'[c].tries = chall[c].tries
      BY <2>1, <2>3
    <3> QED
      BY <3>1 DEF GuessInv
  <2>4. ASSUME NEW r \in Slots, NEW right \in BOOLEAN, Consume(r, right)
        PROVE  GuessInv'
    <3>1. PICK ch : ch = req[r].ch
      OBVIOUS
    <3>2. PICK n : n = IF Unused(ch) THEN chall[ch].tries + 1 ELSE chall[ch].tries
      OBVIOUS
    <3>3. chall' = [chall EXCEPT ![ch].used = TRUE, ![ch].tries = n]
      BY <2>1, <2>4, <3>1, <3>2 DEF Consume
    <3>4. CASE ch \notin Challs
      BY <2>1, <3>3, <3>4 DEF GuessInv
    <3>5. CASE ch \in Challs
      <4>1. n <= 1
        BY <2>1, <3>2, <3>5 DEF GuessInv, Unused
      <4>2. /\ chall'[ch].used = TRUE /\ chall'[ch].tries = n
            /\ \A c \in Challs : c # ch => chall'[c] = chall[c]
        BY <2>1, <3>3, <3>5
      <4> QED
        BY <4>1, <4>2 DEF GuessInv
    <3> QED
      BY <3>4, <3>5
  <2>5. \/ chall' = chall
        \/ \E ch \in Challs, u \in Users : chall' = [chall EXCEPT ![ch].u = u]
        \/ \E r \in Slots, right \in BOOLEAN : Consume(r, right)
    <3>1. CASE UNCHANGED vars
      BY <3>1 DEF vars
    <3>2. CASE SessionNext
      BY <3>2 DEF SessionNext, Tick, Switch, Crash, Login, LoginWithOAuth, RemoveTeamMember, Refresh,
                  Cancel, Expire, rows, FreshChall
    <3>3. ASSUME NEW r \in Slots, BeginNext(r) PROVE chall' = chall
      BY <3>3 DEF BeginNext, Begin, BeginComplete, BeginInvite, BeginJoin, BeginAdd, BeginRole,
                  BeginRemove, Start, rows
    <3>4. ASSUME NEW r \in Slots, StepNext(r)
          PROVE  chall' = chall \/ \E right \in BOOLEAN : Consume(r, right)
      BY <3>4 DEF StepNext, Fetch, Remember, Invalidate, Fail, ReadOwn, WriteOwn, ReadSecure, StoreSecure,
                  CreateKey, RevokeKey, ReadMode, ListPending, InsertInvitation, CreateDirectly,
                  ReadInvitation, CheckAddress, CreateAccount, MarkAccepted, StoreRole, ListTeams,
                  LeaveTeam, RemoveFromOrg, AddTeamMember, rows
    <3> QED
      BY <3>1, <3>2, <3>3, <3>4 DEF Next
  <2> QED
    BY <2>2, <2>3, <2>4, <2>5
<1>3. GuessInv => OneGuess
  BY DEF GuessInv, OneGuess
<1> QED
  BY <1>1, <1>2, <1>3, AccountsTypeCorrect, PTL DEF Spec
=============================================================================
