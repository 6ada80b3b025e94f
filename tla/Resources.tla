------------------------------ MODULE Resources ------------------------------
(***************************************************************************)
(* The shared resources of an organization: a cloud account, a registry    *)
(* and an object storage that may take their keys from it, a git provider  *)
(* whose token expires, and an SSH key; and everything that refers to one  *)
(* of them (internal/service/resource_service.go, and the services that    *)
(* store the references).                                                  *)
(*                                                                         *)
(* A resource is deleted softly, so that the foreign keys of the rows that *)
(* refer to it do nothing: only Delete's own look-ups protect them.  And a *)
(* row is read, changed and written back whole.  A secret is the number of *)
(* the request that brought it, and Mask what a user sees of one.          *)
(***************************************************************************)
EXTENDS Naturals, Sequences

CONSTANTS
  Requests,   \* requests that may be under way at a time
  None,       \* no resource, no secret
  Mask,       \* what is shown for a secret
  MaxOps,     \* bound of the model: requests
  MaxFaults   \* bound of the model: calls that fail, crashes of the server

VARIABLES
  row,      \* the rows of the resources
  cfg,      \* their configuration: the secret and the cloud account
  ref,      \* what the rows of other tables and the settings refer to
  req,      \* the requests
  left,     \* what the bounds leave
  given,    \* the configuration the user, or GitHub, gave last
  excused,  \* holders left without their resource by an overlap or a failed check
  lost      \* resources whose configuration an overlap or a failure has lost

vars == <<row, cfg, ref, req, left, given, excused, lost>>

-----------------------------------------------------------------------------
(* State *)

All == {"account", "registry", "storage", "git", "key"}
Derived == {"registry", "storage"}     \* may take their keys from the account
Own == {"app git", "app registry", "node key", "database", "page git", "page cloud",
        "page dns", "worker git", "worker cloud", "setting"}
Holders == Own \cup Derived

(* The resource that a reference is to.                                    *)
Fits(h) ==
  CASE h \in {"app git", "page git", "worker git"} -> "git"
    [] h = "app registry" -> "registry"
    [] h = "node key" -> "key"
    [] h \in {"database", "setting"} -> "storage"
    [] OTHER -> "account"

New == {"registry", "key"}             \* may have to be created first

Config == [key : 0..MaxOps \cup {None}, acct : {"account", None}]
Keys(k) == [key |-> k, acct |-> None]
FromAccount == [key |-> None, acct |-> "account"]

(* Who refers to r now: a row that is deleted is not found.                *)
Points(h, r) == IF h \in Derived THEN row[h] = "live" /\ cfg[h].acct = r ELSE ref[h] = r

(* What a user sends: a new name alone, or a configuration as well.        *)
Inputs == {None, Keys(Mask), FromAccount} \cup {Keys(k) : k \in 0..MaxOps}
PC == {"free", "link", "expand", "insert", "write", "refresh", "save", "check", "delete"}
Request == [pc : PC, r : All \cup {None}, h : Own \cup {None}, in : Inputs, copy : Config,
            v : 0..MaxOps, n : 1..8, since : SUBSET Holders, stale : BOOLEAN]
Free == [pc |-> "free", r |-> None, h |-> None, in |-> None, copy |-> Keys(None), v |-> 0,
         n |-> 1, since |-> {}, stale |-> FALSE]

TypeOK ==
  /\ row \in [All -> {"none", "live", "deleted"}]
  /\ cfg \in [All -> Config] /\ given \in [All -> Config]
  /\ ref \in [Own -> All \cup {None}]
  /\ req \in [Requests -> Request]
  /\ left \in [ops : 0..MaxOps, faults : 0..MaxFaults]
  /\ excused \subseteq Holders /\ lost \subseteq All

(* There is everything but perhaps the registry and the SSH key, and at    *)
(* most one row of another table refers to a resource.                     *)
Init ==
  /\ row \in [All -> {"none", "live"}] /\ \A r \in All \ New : row[r] = "live"
  /\ cfg \in [All -> {Keys(0), FromAccount}] /\ \A r \in All \ {"storage"} : cfg[r] = Keys(0)
  /\ given = cfg
  /\ \E h \in Own \cup {None} :
       ref = [i \in Own |-> IF i = h /\ row[Fits(i)] = "live" THEN Fits(i) ELSE None]
  /\ req = [q \in Requests |-> Free]
  /\ left = [ops |-> MaxOps, faults |-> MaxFaults]
  /\ excused = {} /\ lost = {}

-----------------------------------------------------------------------------
(* Requests *)

At(q, pc) == req[q].pc = pc
Number == MaxOps - left.ops + 1
Asks == left.ops > 0 /\ left' = [left EXCEPT !.ops = @ - 1]
Fails == left.faults > 0 /\ left' = [left EXCEPT !.faults = @ - 1]
Works == UNCHANGED left
Begin(q, new) == At(q, "free") /\ Asks /\ req' = [req EXCEPT ![q] = new]
Goto(q, pc) == req' = [req EXCEPT ![q].pc = pc]
End(q) == req' = [req EXCEPT ![q] = Free]
stored == <<row, cfg, ref, given, excused, lost>>

(* The end of a request that made h refer to r, as the deletions of r that *)
(* are under way will find it, or not.                                     *)
Referred(q, h, r) ==
  req' = [p \in Requests |->
            IF p = q THEN Free
            ELSE IF req[p].pc \in {"check", "delete"} /\ req[p].r = r
                 THEN [req[p] EXCEPT !.since = @ \cup {h}] ELSE req[p]]
Excuse(h, r) == excused' = IF r # None /\ row[r] # "live" THEN excused \cup {h} ELSE excused \ {h}

(* Applications, nodes, databases, pages, workers and the settings of      *)
(* backups: the resource is read, then the row is written.                 *)
BeginLink(q) ==
  \E h \in Own :
    /\ row[Fits(h)] = "live" /\ ref[h] = None
    /\ Begin(q, [Free EXCEPT !.pc = "link", !.r = Fits(h), !.h = h]) /\ UNCHANGED stored
StoreRef(q) ==
  LET h == req[q].h  r == req[q].r IN
  /\ At(q, "link") /\ Works
  /\ ref' = [ref EXCEPT ![h] = r] /\ Excuse(h, r) /\ Referred(q, h, r)
  /\ UNCHANGED <<row, cfg, given, lost>>
Unlink(h) ==
  /\ Asks /\ ref[h] # None
  /\ ref' = [ref EXCEPT ![h] = None] /\ Excuse(h, None)
  /\ UNCHANGED <<row, cfg, req, given, lost>>

-----------------------------------------------------------------------------
(* Create and Update *)

(* A generated SSH key is inserted like a resource that a user describes.  *)
BeginCreate(q) ==
  \E r \in New, in \in {FromAccount, Keys(Number)} :
    /\ row[r] = "none" /\ (in = FromAccount => r \in Derived)
    /\ Begin(q, [Free EXCEPT !.pc = IF in = FromAccount THEN "expand" ELSE "insert", !.r = r,
                             !.in = in, !.v = Number])
    /\ UNCHANGED stored

(* A listed resource shows its secret masked, and an edit sends the mask   *)
(* back.                                                                   *)
Redacted(c) == [c EXCEPT !.key = IF @ = None THEN None ELSE Mask]
BeginUpdate(q) ==
  \E r \in All : \E in \in {None, Redacted(cfg[r]), FromAccount, Keys(Number)} :
    /\ row[r] = "live" /\ (in = FromAccount => r \in Derived)
    /\ (r = "git" => in \in {None, Redacted(cfg[r])})
    /\ Begin(q, [Free EXCEPT !.pc = IF in = FromAccount THEN "expand" ELSE "write", !.r = r,
                             !.in = in, !.v = Number, !.copy = cfg[r]])
    /\ UNCHANGED stored

(* Only the reference to the account is kept, if it is there.              *)
Expand(q) ==
  /\ At(q, "expand") /\ Works
  /\ IF row["account"] # "live" THEN End(q)
     ELSE Goto(q, IF req[q].copy = Keys(None) THEN "insert" ELSE "write")
  /\ UNCHANGED stored

(* A mask stands for the secret in the row that was read.                  *)
KeepsMask(old, in) == IF in = None THEN old ELSE in   \* mutant: the mask is stored
Merged(old, in) ==
  IF in = None THEN old ELSE [in EXCEPT !.key = IF @ = Mask THEN old.key ELSE @]

Overtake(r, others) ==
  [p \in Requests |-> IF p \in others /\ req[p].r = r /\ req[p].pc \in {"expand", "write"}
                      THEN [req[p] EXCEPT !.stale = TRUE] ELSE req[p]]
Store(q, r, new) ==
  LET others == Overtake(r, Requests \ {q}) IN
  /\ cfg' = [cfg EXCEPT ![r] = new]
  /\ IF r \in Derived /\ new.acct # None
     THEN /\ req' = [p \in Requests |->
                       IF p = q THEN Free
                       ELSE IF others[p].pc \in {"check", "delete"} /\ others[p].r = new.acct
                            THEN [others[p] EXCEPT !.since = @ \cup {r}] ELSE others[p]]
          /\ Excuse(r, new.acct)
     ELSE req' = [others EXCEPT ![q] = Free] /\ excused' = excused \ {r}

Insert(q) ==
  LET r == req[q].r  new == req[q].in IN
  /\ At(q, "insert") /\ Works
  /\ IF row[r] = "none"
     THEN /\ row' = [row EXCEPT ![r] = "live"]
          /\ given' = [given EXCEPT ![r] = new] /\ Store(q, r, new)
     ELSE End(q) /\ UNCHANGED <<row, cfg, given, excused>>   \* a second registry, left out
  /\ UNCHANGED <<ref, lost>>
Write(q) ==
  LET r == req[q].r  in == req[q].in IN
  /\ At(q, "write") /\ Works
  /\ IF row[r] = "live"
     THEN /\ Store(q, r, Merged(req[q].copy, in))
          /\ given' = [given EXCEPT ![r] = IF in \in {None, Keys(Mask)} THEN @ ELSE in]
          /\ lost' = IF in \notin {None, Keys(Mask)} THEN lost \ {r}
                     ELSE IF req[q].stale THEN lost \cup {r} ELSE lost
     ELSE End(q) /\ UNCHANGED <<cfg, given, excused, lost>>
  /\ UNCHANGED <<row, ref>>

-----------------------------------------------------------------------------
(* ListRepos and SearchRepos: a token about to expire is exchanged first.  *)
(* GitHub accepts a refresh token once.                                    *)

BeginList(q) ==
  /\ row["git"] = "live"
  /\ Begin(q, [Free EXCEPT !.pc = "refresh", !.r = "git", !.v = Number, !.copy = cfg["git"]])
  /\ UNCHANGED stored
Refresh(q) ==
  /\ At(q, "refresh")
  /\ \/ /\ Works /\ req[q].copy = given["git"]
        /\ given' = [given EXCEPT !["git"] = Keys(req[q].v)]
        /\ Goto(q, "save") /\ UNCHANGED <<row, cfg, ref, excused, lost>>
     \/ Works /\ End(q) /\ UNCHANGED stored   \* not yet due, or refused: listed with the old one
Save(q) ==
  /\ At(q, "save")
  /\ \/ /\ Works
        /\ IF row["git"] = "live"
           THEN /\ cfg' = [cfg EXCEPT !["git"] = Keys(req[q].v)]
                /\ req' = [Overtake("git", Requests \ {q}) EXCEPT ![q] = Free]
           ELSE End(q) /\ UNCHANGED cfg
        /\ UNCHANGED lost
     \/ Fails /\ End(q) /\ lost' = lost \cup {"git"} /\ UNCHANGED cfg   \* only logged
  /\ UNCHANGED <<row, ref, given, excused>>

-----------------------------------------------------------------------------
(* Delete: one look-up after the other, then the row *)

WithoutDNS == <<{"app git", "app registry"}, {"node key"}, {"database"}, {"registry"}, {"storage"},
              {"page git", "page cloud"}, {"setting"}>>   \* mutant: without dns_account_id
Checks == <<{"app git", "app registry"}, {"node key"}, {"database"}, {"registry"}, {"storage"},
            {"page git", "page cloud", "page dns"}, {"setting"}>>

BeginDelete(q) ==
  \E r \in All :
    /\ row[r] = "live"
    /\ Begin(q, [Free EXCEPT !.pc = "check", !.r = r]) /\ UNCHANGED stored
Past(q, since) ==
  req' = [req EXCEPT ![q].n = @ + 1, ![q].since = @ \cup since,
                     ![q].pc = IF req[q].n = Len(Checks) THEN "delete" ELSE "check"]
Check(q) ==
  LET kinds == Checks[req[q].n] IN
  /\ At(q, "check")
  /\ \/ Works /\ IF \E h \in kinds : Points(h, req[q].r) THEN End(q) ELSE Past(q, {})
     \/ Fails /\ IF kinds = {"setting"} THEN Past(q, kinds) ELSE End(q)
  /\ UNCHANGED stored
DeleteRow(q) ==
  LET r == req[q].r IN
  /\ At(q, "delete") /\ Works
  /\ row' = [row EXCEPT ![r] = "deleted"]
  /\ excused' = excused \cup {h \in req[q].since : Points(h, r)}
  /\ End(q) /\ UNCHANGED <<cfg, ref, given, lost>>

Crash ==
  /\ Fails /\ \E q \in Requests : ~ At(q, "free")
  /\ req' = [q \in Requests |-> Free]
  /\ lost' = IF \E q \in Requests : At(q, "save") THEN lost \cup {"git"} ELSE lost
  /\ UNCHANGED <<row, cfg, ref, given, excused>>

Next ==
  \/ \E q \in Requests :
       \/ BeginLink(q) \/ StoreRef(q)
       \/ BeginCreate(q) \/ BeginUpdate(q) \/ Expand(q) \/ Insert(q) \/ Write(q)
       \/ BeginList(q) \/ Refresh(q) \/ Save(q)
       \/ BeginDelete(q) \/ Check(q) \/ DeleteRow(q)
  \/ \E h \in Own : Unlink(h)
  \/ Crash

Spec == Init /\ [][Next]_vars

-----------------------------------------------------------------------------
(* Properties *)

(* What something refers to is not deleted, as Delete's comment has it: no *)
(* credential is dropped that a workload still needs.  Excepted are those  *)
(* that came to refer to it while the deletion was under way, those whose  *)
(* look-up failed without stopping the deletion (the settings alone), and  *)
(* Cloudflare workers, for which there is no look-up.  So a registry or a  *)
(* storage that takes its keys from the account finds them.                *)
Resolves(r) == cfg[r].acct = None \/ row[cfg[r].acct] = "live"
Unguarded == {"worker git", "worker cloud"}
InUseIsKept ==
  /\ \A h \in Own, r \in All :
       Points(h, r) /\ row[r] # "live" => h \in Unguarded \cup excused
  /\ \A r \in Derived : row[r] = "live" => Resolves(r) \/ r \in excused

(* A resource has the secret, or the account, that it was given last: an   *)
(* edit with a masked secret, a new name or the list of repositories keeps *)
(* it.  Excepted is an edit that another write of the row has overtaken,   *)
(* and a token that GitHub gave and the row did not get.                   *)
SecretIsKept ==
  \A r \in All :
    row[r] = "live" /\ cfg[r] # given[r] =>
      r \in lost \/ (r = "git" /\ \E q \in Requests : At(q, "save"))
=============================================================================
