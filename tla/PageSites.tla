----------------------------- MODULE PageSites -----------------------------
(***************************************************************************)
(* The site of one static page: the certificate, bucket, distribution (or  *)
(* Cloudflare Pages project), DNS record and files that its deployments    *)
(* make, one call to the cloud at a time, what they record of them in the  *)
(* runtime column, the settings requests and the deletion                  *)
(* (page_deploy_service.go, page_service.go, internal/pages, acm, dns).    *)
(*                                                                         *)
(* PageDeploys has the queue, the claim and the outcome of a deployment;   *)
(* here one runs at a time (its OneAtATime) and is delivered again from    *)
(* the start after a crash.                                                *)
(***************************************************************************)
EXTENDS Naturals

CONSTANTS
  Providers,   \* providers the page may have
  Accounts,    \* cloud accounts of that provider
  Domains,     \* custom domains
  Commits,     \* commits of the branch, with the folder to publish
  None,        \* no domain, certificate or commit
  MaxFaults,   \* bound of the model: failing calls and crashes
  MaxEdits,    \* bound of the model: settings requests
  MaxMade      \* bound of the model: resources ever created

ASSUME SitesAssumption ==
  /\ Providers \subseteq {"aws_cloudfront", "cloudflare_pages"}
  /\ None \notin Domains \cup Commits \cup (Domains \X Accounts)
  /\ MaxFaults \in Nat /\ MaxEdits \in Nat
  /\ MaxMade \in Nat

VARIABLES
  page,       \* row of the page
  job,        \* the deployment and its copy of the page
  edit,       \* PageService.Update and its copy of the page
  teardown,   \* the goroutine of PageService.Delete
  last,       \* commit of the latest successful deployment
  head,       \* head of the branch
  cloud,      \* buckets, access controls, distributions and projects
  acm,        \* certificates: requested, with their record in DNS, issued
  zone        \* the records of the custom domains in the managed zone
VARIABLES
  torn,       \* an upload was interrupted, and none completed since
  missed,     \* a deployment stopped between recording the alias and making it
  raced,      \* the domain was changed under or after a deployment
  lost,       \* resources whose creation or removal was interrupted
  left,       \* how many more faults may occur
  edits       \* how many more settings requests may come

vars == <<page, job, edit, teardown, last, head, cloud, acm, zone,
          torn, missed, raced, lost, left, edits>>
history == <<torn, missed, raced, lost>>
site == <<cloud, acm, zone>>
others == <<edit, teardown, head, edits>>

-----------------------------------------------------------------------------
(* Rows *)

Ids == 1..MaxMade

(* A certificate, named by what it was requested with: the idempotency     *)
(* token of the page makes a repeated request return the same one.         *)
Certs == Domains \X Accounts

(* PageRuntime.  site is the distribution or the Pages project.            *)
Runtime == [cert : Certs \cup {None}, issued : BOOLEAN, bucket : 0..MaxMade,
            oac : 0..MaxMade, site : 0..MaxMade, alias : 0..MaxMade]
NoRuntime == [cert |-> None, issued |-> FALSE, bucket |-> 0, oac |-> 0, site |-> 0,
              alias |-> 0]

(* gone is the status of the model for a deleted row.                      *)
Page == [status : {"idle", "deploying", "live", "error", "gone"}, provider : Providers,
         domain : Domains \cup {None}, manage : BOOLEAN, account : Accounts,
         builds : BOOLEAN, rt : Runtime]

PC == {"idle", "queued", "prepare", "prepared", "cert", "saveCert", "validate", "await",
       "provision", "save", "alias", "saveAlias", "dns", "upload", "mirror", "invalidate"}
Job == [pc : PC, row : Page, files : Commits \cup {None}]

Resource == [kind : {"none", "bucket", "oac", "site"}, account : Accounts, on : BOOLEAN,
             files : SUBSET Commits, stale : BOOLEAN, alias : Domains \cup {None},
             link : 0..MaxMade]
NoResource == [kind |-> "none", account |-> CHOOSE a \in Accounts : TRUE, on |-> FALSE,
               files |-> {}, stale |-> FALSE, alias |-> None, link |-> 0]

OnAWS(row) == row.provider = "aws_cloudfront"

TypeOK ==
  /\ page \in Page
  /\ job \in Job
  /\ edit \in [pc : {"idle", "write"}, row : Page]
  /\ teardown \in {"none", "bucket", "site", "done"}
  /\ last \in Commits \cup {None} /\ head \in Commits
  /\ cloud \in [Ids -> Resource]
  /\ acm \in [requested : SUBSET Certs, validated : SUBSET Certs, issued : SUBSET Certs]
  /\ zone \in [Domains -> 0..MaxMade]
  /\ torn \in BOOLEAN /\ missed \in BOOLEAN /\ raced \in BOOLEAN
  /\ lost \subseteq Ids
  /\ left \in 0..MaxFaults /\ edits \in 0..MaxEdits

FreshRow(p, d, m, a, b) ==
  [status |-> "idle", provider |-> p, domain |-> d, manage |-> m, account |-> a,
   builds |-> b, rt |-> NoRuntime]
NoRow == FreshRow(CHOOSE p \in Providers : TRUE, None, FALSE,
                  CHOOSE a \in Accounts : TRUE, FALSE)
NoJob == [pc |-> "idle", row |-> NoRow, files |-> None]
NoEdit == [pc |-> "idle", row |-> NoRow]

Init ==
  /\ \E p \in Providers, d \in Domains \cup {None}, m, b \in BOOLEAN, a \in Accounts :
       page = FreshRow(p, d, m, a, b) /\ (m => d # None)
  /\ job = NoJob /\ edit = NoEdit /\ teardown = "none"
  /\ last = None /\ head \in Commits
  /\ cloud = [i \in Ids |-> NoResource]
  /\ acm = [requested |-> {}, validated |-> {}, issued |-> {}]
  /\ zone = [d \in Domains |-> 0]
  /\ torn = FALSE /\ missed = FALSE /\ raced = FALSE /\ lost = {}
  /\ left = MaxFaults /\ edits = MaxEdits

-----------------------------------------------------------------------------
(* Calls of the cloud, by the account of the row *)

Made == {i \in Ids : cloud[i].kind # "none"}
NewId == CHOOSE i \in Ids : i \notin Made
NewResource(row, kind) ==
  [NoResource EXCEPT !.kind = kind, !.account = row.account, !.on = TRUE]

(* CreateDistribution: the alias must be free, the certificate of the same *)
(* account, issued and of that domain; without certificate there is no     *)
(* alias.                                                                  *)
AliasOf(row) == IF row.rt.cert = None THEN None ELSE row.domain
AliasTaken(d) == d # None /\ \E i \in Ids : cloud[i].on /\ cloud[i].alias = d
CertFits(row) == row.rt.cert = <<row.domain, row.account>> /\ row.rt.cert \in acm.issued
Distribution(row) ==
  [NewResource(row, "site") EXCEPT !.alias = AliasOf(row), !.link = row.rt.bucket]

(* CreatePagesProject, and GetPagesProject when the name is taken by the   *)
(* page's own project: names derive from the name of the page.             *)
Projects(row) == {i \in Ids : cloud[i].kind = "site" /\ cloud[i].on
                              /\ cloud[i].account = row.account}

(* A call for a resource of another account is denied.                     *)
Reaches(row, i) == i # 0 /\ cloud[i].on /\ cloud[i].account = row.account

Put(i, f, v) == [cloud EXCEPT ![i][f] = v]
Without(ids) == [i \in Ids |-> [cloud[i] EXCEPT !.on = @ /\ i \notin ids]]

(* The managed zone: a record that exists is replaced.                     *)
Upsert(d, target) == zone' = [zone EXCEPT ![d] = target]
Available(d) == zone[d] = 0
(* UpdateRuntime and UpdateStatus.  No row goes while its deployment runs  *)
(* (PageOutlivesJob of PageDeploys).                                       *)
Store(rt) == page' = [page EXCEPT !.rt = rt]
SetStatus(status) == page' = [page EXCEPT !.status = status]

-----------------------------------------------------------------------------
(* The deployment.  Row is its copy of the page, RT the runtime of it.     *)

Row == job.row
RT == job.row.rt
At(pc) == job.pc = pc
Goto(pc) == job' = [job EXCEPT !.pc = pc]

Trigger ==
  /\ page.status \notin {"deploying", "gone"}
  /\ SetStatus("deploying")
  /\ job' = [NoJob EXCEPT !.pc = "queued"]
  /\ UNCHANGED <<last, site, history, left, others>>

(* RunJob loads the page; every later step acts on that copy.              *)
Load ==
  /\ At("queued")
  /\ job' = [job EXCEPT !.pc = "prepare", !.row = page]
  /\ UNCHANGED <<page, last, site, history, left, others>>

(* PagePublishService.Prepare, or the build: both take the head of the     *)
(* branch.                                                                 *)
Prepare ==
  /\ At("prepare")
  /\ ~Row.builds
  /\ job' = [job EXCEPT !.pc = "prepared", !.files = head]
  /\ UNCHANGED <<page, last, site, history, left, others>>

BuildStatic ==
  /\ At("prepare")
  /\ Row.builds
  /\ job' = [job EXCEPT !.pc = "prepared", !.files = head]
  /\ UNCHANGED <<page, last, site, history, left, others>>

Ends(status) ==
  /\ SetStatus(status)
  /\ job' = NoJob
Succeed == Ends("live") /\ last' = job.files

AnyCommit == last # None   \* mutant: a success is enough
Unchanged == last = job.files

(* A page that is built is always deployed.                                *)
SkipUnchanged ==
  /\ At("prepared")
  /\ ~Row.builds /\ Unchanged
  /\ Succeed
  /\ UNCHANGED <<site, history, left, others>>

LateDomain(row) == /\ OnAWS(row) /\ row.domain # None
                   /\ row.rt.site # 0 /\ row.rt.cert = None

ResolveProvider ==
  /\ At("prepared")
  /\ Row.builds \/ ~Unchanged
  /\ ~LateDomain(Row)
  /\ Goto(IF OnAWS(Row) /\ Row.domain # None THEN "cert" ELSE "provision")
  /\ UNCHANGED <<page, last, site, history, left, others>>

RefuseLateDomain ==
  /\ At("prepared")
  /\ Row.builds \/ ~Unchanged
  /\ LateDomain(Row)
  /\ Ends("error")
  /\ UNCHANGED <<last, site, history, left, others>>

-----------------------------------------------------------------------------
(* ensureCertificate *)

SkipIssued ==
  /\ At("cert")
  /\ RT.cert # None /\ RT.issued
  /\ Goto("provision")
  /\ UNCHANGED <<page, last, site, history, left, others>>

SkipValidated ==   \* mutant: the record is made with the certificate only
  /\ At("cert")
  /\ RT.cert # None /\ ~RT.issued
  /\ Goto("await")
  /\ UNCHANGED <<page, last, site, history, left, others>>
SkipRequested ==
  /\ At("cert")
  /\ RT.cert # None /\ ~RT.issued
  /\ Goto("validate")
  /\ UNCHANGED <<page, last, site, history, left, others>>

RequestCertificate ==
  /\ At("cert")
  /\ RT.cert = None
  /\ LET c == <<Row.domain, Row.account>> IN
       /\ acm' = [acm EXCEPT !.requested = @ \cup {c}]
       /\ job' = [job EXCEPT !.pc = "saveCert", !.row.rt.cert = c]
  /\ UNCHANGED <<page, last, cloud, zone, history, left, others>>

SaveCertificate ==
  /\ At("saveCert")
  /\ Store(RT)
  /\ Goto("validate")
  /\ UNCHANGED <<last, site, history, left, others>>

(* ValidationRecord, which the account of the certificate answers, and its *)
(* record in the managed zone.                                             *)
Validate ==
  /\ At("validate")
  /\ RT.cert[2] = Row.account
  /\ Store(RT)
  /\ acm' = IF Row.manage THEN [acm EXCEPT !.validated = @ \cup {RT.cert}] ELSE acm
  /\ Goto("await")
  /\ UNCHANGED <<last, cloud, zone, history, left, others>>

ForeignCertificate ==
  /\ At("validate")
  /\ RT.cert[2] # Row.account
  /\ Ends("error")
  /\ UNCHANGED <<last, site, history, left, others>>

IsIssued == RT.cert \in acm.issued
WaitIssued ==
  /\ At("await")
  /\ IsIssued
  /\ Store([RT EXCEPT !.issued = TRUE])
  /\ job' = [job EXCEPT !.pc = "provision", !.row.rt.issued = TRUE]
  /\ UNCHANGED <<last, site, history, left, others>>

(* Without managed DNS the user adds the record and deploys again.         *)
NotIssued ==
  /\ At("await")
  /\ ~Row.manage /\ ~IsIssued
  /\ Ends("error")
  /\ UNCHANGED <<last, site, history, left, others>>

(* The user, who is shown the record when DNS is not managed, and ACM.     *)
UserValidates(c) ==
  /\ c \in acm.requested \ acm.validated
  /\ page.rt.cert = c /\ ~page.manage
  /\ acm' = [acm EXCEPT !.validated = @ \cup {c}]
  /\ UNCHANGED <<page, job, last, cloud, zone, history, left, others>>

Issue(c) ==
  /\ c \in acm.validated \ acm.issued
  /\ acm' = [acm EXCEPT !.issued = @ \cup {c}]
  /\ UNCHANGED <<page, job, last, cloud, zone, history, left, others>>

-----------------------------------------------------------------------------
(* Provision: what the runtime does not name is made, and recorded one by  *)
(* one                                                                     *)

Kinds(row) == IF OnAWS(row) THEN {"bucket", "oac", "site"} ELSE {"site"}
Lacks(row, kind) ==
  /\ kind \in Kinds(row) /\ row.rt[kind] = 0
  /\ kind = "oac" => row.rt.bucket # 0
  /\ kind = "site" /\ OnAWS(row) => row.rt.oac # 0
Complete(row) == \A kind \in Kinds(row) : row.rt[kind] # 0

Denied(row) == \E kind \in Kinds(row) : row.rt[kind] # 0 /\ ~Reaches(row, row.rt[kind])
Allowed(row, kind) ==
  kind = "site" /\ AliasOf(row) # None => CertFits(row) /\ ~AliasTaken(row.domain)

New(kind) == IF kind = "site" /\ OnAWS(Row) THEN Distribution(Row) ELSE NewResource(Row, kind)

(* Made # Ids is a bound of the model.                                     *)
Create(kind) ==
  /\ Made # Ids
  /\ cloud' = [cloud EXCEPT ![NewId] = New(kind)]
  /\ job' = [job EXCEPT !.pc = "save", !.row.rt[kind] = NewId]
  /\ UNCHANGED lost

Adopt ==
  /\ \E i \in Projects(Row) :
       /\ job' = [job EXCEPT !.pc = "save", !.row.rt.site = i]
       /\ lost' = lost \ {i}
  /\ UNCHANGED cloud

Provision(kind) ==
  /\ At("provision")
  /\ ~Denied(Row) /\ Lacks(Row, kind) /\ Allowed(Row, kind)
  /\ IF OnAWS(Row) \/ Projects(Row) = {} THEN Create(kind) ELSE Adopt
  /\ UNCHANGED <<page, last, acm, zone, torn, missed, raced, left, others>>

ProvisionRefused ==
  /\ At("provision")
  /\ Denied(Row) \/ \E kind \in Kinds(Row) : Lacks(Row, kind) /\ ~Allowed(Row, kind)
  /\ Ends("error")
  /\ UNCHANGED <<last, site, history, left, others>>

SaveAtTheEnd ==   \* mutant: only the complete runtime is stored
  /\ At("save")
  /\ IF Complete(Row) THEN Store(RT) ELSE UNCHANGED page
  /\ Goto("provision")
  /\ UNCHANGED <<last, site, history, left, others>>
SaveRuntime ==
  /\ At("save")
  /\ Store(RT)
  /\ Goto("provision")
  /\ UNCHANGED <<last, site, history, left, others>>

(* The wait for the distribution, and putBucketPolicy, on every deployment.*)
Grant ==
  /\ At("provision")
  /\ Complete(Row) /\ ~Denied(Row)
  /\ cloud' = IF OnAWS(Row) THEN Put(RT.bucket, "link", RT.site) ELSE cloud
  /\ Goto(IF Row.domain = None THEN "upload" ELSE "alias")
  /\ UNCHANGED <<page, last, acm, zone, history, left, others>>

-----------------------------------------------------------------------------
(* ensureAliasRecord and ensureCloudflarePagesDomain *)

AliasAssumed == RT.site # 0   \* mutant: the site is enough
AliasKnown == RT.alias = RT.site /\ (OnAWS(Row) => Row.manage)

SkipAlias ==
  /\ At("alias")
  /\ AliasKnown
  /\ Goto("upload")
  /\ UNCHANGED <<page, last, site, history, left, others>>

(* Cloudflare attaches the domain to the project first.                    *)
SetAlias ==
  /\ At("alias")
  /\ ~AliasKnown
  /\ cloud' = IF OnAWS(Row) THEN cloud ELSE Put(RT.site, "alias", Row.domain)
  /\ job' = [job EXCEPT !.pc = "saveAlias", !.row.rt.alias = RT.site]
  /\ UNCHANGED <<page, last, acm, zone, history, left, others>>

SaveAlias ==
  /\ At("saveAlias")
  /\ Store(RT)
  /\ Goto(IF Row.manage THEN "dns" ELSE "upload")
  /\ UNCHANGED <<last, site, history, left, others>>

UpsertRecord ==
  /\ At("dns")
  /\ Upsert(Row.domain, RT.site)
  /\ Goto("upload")
  /\ UNCHANGED <<page, last, cloud, acm, history, left, others>>

-----------------------------------------------------------------------------
(* Deploy *)

Origin(row) == IF OnAWS(row) THEN row.rt.bucket ELSE row.rt.site

(* The files of the commit are added, then those of others removed, then   *)
(* the cache of the distribution is invalidated.                           *)
Upload ==
  /\ At("upload")
  /\ OnAWS(Row)
  /\ cloud' = [cloud EXCEPT ![RT.bucket].files = @ \cup {job.files}, ![RT.site].stale = TRUE]
  /\ Goto("mirror")
  /\ UNCHANGED <<page, last, acm, zone, history, left, others>>

Mirror ==
  /\ At("mirror")
  /\ cloud' = Put(RT.bucket, "files", {job.files})
  /\ Goto("invalidate")
  /\ UNCHANGED <<page, last, acm, zone, history, left, others>>

Invalidate ==
  /\ At("invalidate")
  /\ cloud' = Put(RT.site, "stale", FALSE)
  /\ torn' = FALSE
  /\ Succeed
  /\ UNCHANGED <<acm, zone, missed, raced, lost, left, others>>

(* CreatePagesDeployment publishes all of the uploaded files at once.      *)
Publish ==
  /\ At("upload")
  /\ ~OnAWS(Row)
  /\ cloud' = Put(RT.site, "files", {job.files})
  /\ torn' = FALSE
  /\ Succeed
  /\ UNCHANGED <<acm, zone, missed, raced, lost, left, others>>

-----------------------------------------------------------------------------
(* Failures *)

Unrecorded(row) == {row.rt[kind] : kind \in Kinds(row)}
                   \ ({0} \cup {page.rt[kind] : kind \in Kinds(row)})

(* A call fails, runs into its deadline or is not answered, or the process *)
(* dies: what was made and not saved is forgotten.                         *)
Interrupted ==
  /\ left > 0 /\ left' = left - 1
  /\ lost' = lost \cup Unrecorded(Row)
  /\ torn' = (torn \/ At("mirror") \/ At("invalidate"))
  /\ missed' = (missed \/ At("dns"))
  /\ UNCHANGED <<last, site, raced, others>>

StepFails ==
  /\ ~At("idle") /\ ~At("queued")
  /\ Interrupted
  /\ Ends("error")

(* The message comes back.                                                 *)
Crash ==
  /\ ~At("idle") /\ ~At("queued")
  /\ Interrupted
  /\ job' = [NoJob EXCEPT !.pc = "queued"]
  /\ UNCHANGED page

-----------------------------------------------------------------------------
(* PageService.Update and PageService.Delete *)

DomainLocked(row) == row.rt.site # 0 \/ (OnAWS(row) /\ row.rt.cert # None)
Provisioned(row) == row.rt.site # 0 \/ (OnAWS(row) /\ row.rt.bucket # 0)

Change(row, d, m, a) == [row EXCEPT !.domain = d, !.manage = m, !.account = a]

(* Update checks and changes its copy of the page.  validateCustomDomain   *)
(* refuses a domain with a record in the managed zone.                     *)
EditRead(d, m, a) ==
  /\ edit.pc = "idle" /\ edits > 0
  /\ page.status # "gone"
  /\ Change(page, d, m, a) # page
  /\ <<d, m>> # <<page.domain, page.manage>> =>
       /\ ~DomainLocked(page)
       /\ m => d # None /\ Available(d)
  /\ a # page.account => page.status # "deploying" /\ ~Provisioned(page)
  /\ edit' = [pc |-> "write", row |-> Change(page, d, m, a)]
  /\ edits' = edits - 1
  /\ UNCHANGED <<page, job, teardown, last, head, site, history, left>>

(* UpdateSettings, or UpdateSettingsIfNotDeploying when the account has    *)
(* changed.                                                                *)
EditWrite ==
  LET new == edit.row
      refused == page.status = "gone"
                 \/ (new.account # page.account /\ page.status = "deploying")
      moves == <<new.domain, new.manage>> # <<page.domain, page.manage>>
  IN
  /\ edit.pc = "write"
  /\ page' = IF refused THEN page ELSE Change(page, new.domain, new.manage, new.account)
  /\ raced' = (raced \/ /\ ~refused /\ moves
                        /\ page.status = "deploying" \/ DomainLocked(page))
  /\ edit' = NoEdit
  /\ UNCHANGED <<job, teardown, last, head, site, torn, missed, lost, left, edits>>

(* DeleteIfNotDeploying; what is torn down is what the row recorded.       *)
Delete ==
  /\ page.status \notin {"deploying", "gone"}
  /\ SetStatus("gone")
  /\ teardown' = IF Provisioned(page) THEN "bucket" ELSE "done"
  /\ UNCHANGED <<job, edit, last, head, site, history, left, edits>>

(* Provider.Delete: a failing call is noted, and the next one made.        *)
Named(kind) == {page.rt[kind]} \ {0}
Remaining == CASE teardown = "bucket" -> Named("bucket") \cup Named("site")
               [] teardown = "site" -> Named("site")
               [] OTHER -> {}
After(step) == IF step = "bucket" THEN "site" ELSE "done"

Teardown ==
  /\ teardown \in {"bucket", "site"}
  /\ teardown' = After(teardown)
  /\ LET mine == Named(teardown)
         removed == {i \in mine : Reaches(page, i)} IN
       /\ cloud' = Without(removed)
       /\ lost' = lost \cup (mine \ removed)
  /\ UNCHANGED <<page, job, edit, last, head, acm, zone, torn, missed, raced, left, edits>>

(* The call fails, or the server dies and the goroutine with it.           *)
TeardownFails ==
  /\ teardown \in {"bucket", "site"}
  /\ left > 0 /\ left' = left - 1
  /\ \/ teardown' = After(teardown) /\ lost' = lost \cup Named(teardown)
     \/ teardown' = "done" /\ lost' = lost \cup Remaining
  /\ UNCHANGED <<page, job, edit, last, head, site, torn, missed, raced, edits>>

Push(c) ==
  /\ c # head
  /\ head' = c
  /\ UNCHANGED <<page, job, edit, teardown, last, site, history, left, edits>>

-----------------------------------------------------------------------------
CertificateNext ==
  \/ SkipIssued \/ SkipRequested \/ RequestCertificate \/ SaveCertificate
  \/ Validate \/ ForeignCertificate \/ WaitIssued \/ NotIssued

DeployNext ==
  \/ Load \/ Prepare \/ BuildStatic
  \/ SkipUnchanged \/ ResolveProvider \/ RefuseLateDomain
  \/ CertificateNext
  \/ (\E kind \in {"bucket", "oac", "site"} : Provision(kind))
  \/ ProvisionRefused \/ SaveRuntime \/ Grant
  \/ SkipAlias \/ SetAlias \/ SaveAlias \/ UpsertRecord
  \/ Upload \/ Mirror \/ Invalidate \/ Publish

Validation == \E c \in Certs : UserValidates(c) \/ Issue(c)

Next ==
  \/ Trigger \/ DeployNext \/ StepFails \/ Crash \/ Validation
  \/ (\E d \in Domains \cup {None}, m \in BOOLEAN, a \in Accounts : EditRead(d, m, a))
  \/ EditWrite \/ Delete \/ Teardown \/ TeardownFails
  \/ (\E c \in Commits : Push(c))

(* The users deploy again and add the validation record they are shown,    *)
(* ACM issues what is validated, and the worker runs what it reads.        *)
Fairness ==
  /\ WF_vars(Trigger) /\ WF_vars(DeployNext) /\ WF_vars(EditWrite)
  /\ \A c \in Certs : WF_vars(UserValidates(c)) /\ WF_vars(Issue(c))

Spec == Init /\ [][Next]_vars /\ Fairness

-----------------------------------------------------------------------------
(* Properties *)

(* What a live page serves is the commit of its latest success, all of it  *)
(* and nothing else, not an older copy of the cache.  The exception is an  *)
(* upload that was interrupted: a deployment of the commit before it is    *)
(* then skipped as unchanged, and the page is live with other files.       *)
SuccessIsServed ==
  page.status = "live" /\ ~torn =>
    /\ cloud[Origin(page)].files = {last}
    /\ cloud[page.rt.site].on /\ ~cloud[page.rt.site].stale
    /\ OnAWS(page) => cloud[page.rt.bucket].link = page.rt.site

(* A live page answers at its custom domain: the distribution has it as    *)
(* alias, with an issued certificate, and a managed record points to it.   *)
LiveDomainWorks ==
  page.status = "live" /\ page.domain # None /\ ~raced =>
    /\ cloud[page.rt.site].alias = page.domain
    /\ OnAWS(page) => page.rt.cert[1] = page.domain /\ page.rt.cert \in acm.issued
    /\ page.manage /\ ~missed => zone[page.domain] = page.rt.site

Recorded(i) ==
  \/ page.status # "gone" /\ i \in {page.rt[k] : k \in Kinds(page)}
  \/ job.pc # "idle" /\ i \in {RT[k] : k \in Kinds(Row)}
  \/ page.status = "gone" /\ i \in Remaining

(* Every bucket and distribution that exists is named by the page, by the  *)
(* deployment that is about to store it or by the teardown that is about   *)
(* to remove it, unless a call on it failed or was cut short.  (Nobody     *)
(* removes an access control.)                                             *)
NothingForgotten ==
  \A i \in Made \ lost :
    cloud[i].on => Recorded(i) \/ (cloud[i].kind = "oac" /\ page.status = "gone")

(* What no further deployment can repair: a domain, certificate or account *)
(* of the row that is not that of the site, and a distribution that was    *)
(* made but not recorded and holds the alias.                              *)
Stuck ==
  \/ LateDomain(page) \/ Denied(page)
  \/ /\ OnAWS(page) /\ page.rt.site = 0 /\ page.domain # None
     /\ \/ page.rt.cert # None /\ page.rt.cert # <<page.domain, page.account>>
        \/ AliasTaken(page.domain)

(* Provision is idempotent and persists what it made: whatever failed, a   *)
(* page that is deployed again and again becomes live, or is stuck.        *)
Recovers == []<>(page.status \in {"live", "gone"} \/ Stuck)
=============================================================================
