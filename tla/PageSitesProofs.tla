-------------------------- MODULE PageSitesProofs --------------------------
(***************************************************************************)
(* Proofs about PageSites for any providers, accounts, domains, commits    *)
(* and bounds: its types; that a live page serves the commit of its latest *)
(* success unless an upload was interrupted; that it answers at its domain *)
(* unless that was changed under or after a deployment; and that what was  *)
(* made at the cloud is recorded somewhere.                                *)
(***************************************************************************)
EXTENDS PageSites, TLAPS

-----------------------------------------------------------------------------
(* Types.  What a step uses is there: the files once they are prepared, a  *)
(* domain when a certificate is requested, and then the certificate.       *)

Early == {"idle", "queued", "prepare"}
Supplied ==
  /\ job.pc \notin Early => job.files \in Commits
  /\ At("cert") => Row.domain # None
  /\ job.pc \in {"saveCert", "validate", "await"} => RT.cert # None

TypeInv == TypeOK /\ Supplied

LEMMA Runtimes ==
  ASSUME NEW rt \in Runtime
  PROVE  /\ rt.cert \in Certs \cup {None} /\ rt.issued \in BOOLEAN
         /\ rt.bucket \in 0..MaxMade /\ rt.oac \in 0..MaxMade /\ rt.site \in 0..MaxMade
         /\ rt.alias \in 0..MaxMade
         /\ \A c \in Certs : [rt EXCEPT !.cert = c] \in Runtime
         /\ [rt EXCEPT !.issued = TRUE] \in Runtime
         /\ \A i \in 0..MaxMade : /\ [rt EXCEPT !.alias = i] \in Runtime
                                  /\ \A k \in {"bucket", "oac", "site"} :
                                       rt[k] \in 0..MaxMade /\ [rt EXCEPT ![k] = i] \in Runtime
BY DEF Runtime

LEMMA Rows ==
  ASSUME NEW row \in Page
  PROVE  /\ row.provider \in Providers /\ row.domain \in Domains \cup {None}
         /\ row.manage \in BOOLEAN /\ row.account \in Accounts /\ row.builds \in BOOLEAN
         /\ row.rt \in Runtime
         /\ \A s \in {"idle", "deploying", "live", "error", "gone"} : [row EXCEPT !.status = s] \in Page
         /\ \A rt \in Runtime : [row EXCEPT !.rt = rt] \in Page
         /\ \A d \in Domains \cup {None}, m \in BOOLEAN, a \in Accounts : Change(row, d, m, a) \in Page
BY DEF Page, Change

LEMMA Jobs ==
  ASSUME NEW j \in Job
  PROVE  /\ j.pc \in PC /\ j.row \in Page /\ j.files \in Commits \cup {None}
         /\ \A pc \in PC : [j EXCEPT !.pc = pc] \in Job
         /\ \A pc \in PC, row \in Page : [j EXCEPT !.pc = pc, !.row = row] \in Job
         /\ \A pc \in PC, c \in Commits : [j EXCEPT !.pc = pc, !.files = c] \in Job
         /\ \A pc \in PC, c \in Certs : [j EXCEPT !.pc = pc, !.row.rt.cert = c] \in Job
         /\ \A pc \in PC : [j EXCEPT !.pc = pc, !.row.rt.issued = TRUE] \in Job
         /\ \A pc \in PC, i \in 0..MaxMade : [j EXCEPT !.pc = pc, !.row.rt.alias = i] \in Job
         /\ \A pc \in PC, k \in {"bucket", "oac", "site"}, i \in 0..MaxMade :
              [j EXCEPT !.pc = pc, !.row.rt[k] = i] \in Job
<1>1. j.row \in Page /\ j.row.rt \in Runtime
  BY Rows DEF Job
<1>2. /\ \A c \in Certs : [j.row EXCEPT !.rt.cert = c] \in Page
      /\ [j.row EXCEPT !.rt.issued = TRUE] \in Page
      /\ \A i \in 0..MaxMade : [j.row EXCEPT !.rt.alias = i] \in Page
      /\ \A k \in {"bucket", "oac", "site"}, i \in 0..MaxMade : [j.row EXCEPT !.rt[k] = i] \in Page
  BY <1>1, Runtimes, Rows
<1> QED
  BY <1>1, <1>2 DEF Job

LEMMA Nothing ==
  ASSUME TypeOK
  PROVE  NoJob \in Job /\ NoEdit \in [pc : {"idle", "write"}, row : Page] /\ NoResource \in Resource
         /\ \A pc \in PC : [NoJob EXCEPT !.pc = pc] \in Job
<1>1. page.provider \in Providers /\ page.account \in Accounts
  BY Rows DEF TypeOK
<1>2. NoRow \in Page
  BY <1>1, SitesAssumption DEF NoRow, FreshRow, Page, NoRuntime, Runtime
<1>3. NoResource \in Resource
  BY <1>1, SitesAssumption DEF NoResource, Resource
<1>4. NoJob \in Job
  BY <1>2 DEF NoJob, Job, PC
<1> QED
  BY <1>2, <1>3, <1>4, Jobs DEF NoEdit

LEMMA Clouds ==
  ASSUME TypeOK, NEW i \in 0..MaxMade
  PROVE  /\ \A n \in 0..MaxMade : Put(i, "link", n) \in [Ids -> Resource]
         /\ \A c \in Commits : Put(i, "files", {c}) \in [Ids -> Resource]
         /\ \A d \in Domains \cup {None} : Put(i, "alias", d) \in [Ids -> Resource]
         /\ \A b \in BOOLEAN : Put(i, "stale", b) \in [Ids -> Resource]
         /\ \A r \in Resource : [cloud EXCEPT ![i] = r] \in [Ids -> Resource]
         /\ \A n \in 0..MaxMade, c \in Commits :
              [cloud EXCEPT ![i].files = @ \cup {c}, ![n].stale = TRUE] \in [Ids -> Resource]
<1>1. cloud \in [Ids -> Resource]
  BY DEF TypeOK
<1>2. \A r \in Resource :
        /\ r.files \subseteq Commits
        /\ \A n \in 0..MaxMade : [r EXCEPT !.link = n] \in Resource
        /\ \A c \in Commits : [r EXCEPT !.files = {c}] \in Resource
        /\ \A c \in Commits : [r EXCEPT !.files = @ \cup {c}] \in Resource
        /\ \A d \in Domains \cup {None} : [r EXCEPT !.alias = d] \in Resource
        /\ \A b \in BOOLEAN : [r EXCEPT !.stale = b] \in Resource
  BY DEF Resource
<1>3. ASSUME NEW n \in 0..MaxMade, NEW c \in Commits
      PROVE  [cloud EXCEPT ![i].files = @ \cup {c}, ![n].stale = TRUE] \in [Ids -> Resource]
  <2> DEFINE added == [cloud EXCEPT ![i].files = @ \cup {c}]
  <2>1. added \in [Ids -> Resource]
    BY <1>1, <1>2
  <2>2. [added EXCEPT ![n].stale = TRUE] \in [Ids -> Resource]
    <3> HIDE DEF added
    <3> QED BY <1>2, <2>1
  <2> QED
    BY <2>2
<1> QED
  BY <1>1, <1>2, <1>3 DEF Put

LEMMA NewIds ==
  ASSUME Made # Ids
  PROVE  NewId \in Ids /\ NewId \notin Made /\ NewId \in 0..MaxMade /\ NewId # 0
<1>1. NewId \in Ids /\ NewId \notin Made
  BY DEF NewId, Made
<1> QED
  BY <1>1, SitesAssumption DEF Ids

LEMMA NewResources ==
  ASSUME TypeOK, NEW row \in Page
  PROVE  /\ \A kind \in {"bucket", "oac", "site"} : NewResource(row, kind) \in Resource
         /\ Distribution(row) \in Resource
<1>1. ASSUME NEW kind \in {"bucket", "oac", "site"}
      PROVE  NewResource(row, kind) \in Resource
  BY Nothing, Rows DEF NewResource, Resource
<1>2. AliasOf(row) \in Domains \cup {None} /\ row.rt.bucket \in 0..MaxMade
  BY Rows, Runtimes DEF AliasOf
<1>3. Distribution(row) \in Resource
  BY <1>1, <1>2 DEF Distribution, Resource
<1> QED
  BY <1>1, <1>3

LEMMA InitType == Init => TypeInv
<1> SUFFICES ASSUME Init PROVE TypeInv
  OBVIOUS
<1>1. page \in Page /\ page.provider \in Providers /\ page.account \in Accounts
  BY SitesAssumption DEF Init, FreshRow, Page, NoRuntime, Runtime
<1>2. NoRow \in Page
  BY <1>1, SitesAssumption DEF NoRow, FreshRow, Page, NoRuntime, Runtime
<1>3. job \in Job /\ edit \in [pc : {"idle", "write"}, row : Page]
  BY <1>2 DEF Init, NoJob, Job, PC, NoEdit
<1>4. cloud \in [Ids -> Resource]
  BY <1>1, SitesAssumption DEF Init, NoResource, Resource
<1>5. zone \in [Domains -> 0..MaxMade] /\ left \in 0..MaxFaults /\ edits \in 0..MaxEdits
  BY SitesAssumption DEF Init
<1>6. Supplied
  BY DEF Init, NoJob, Supplied, At, Early
<1> QED
  BY <1>1, <1>3, <1>4, <1>5, <1>6 DEF Init, TypeInv, TypeOK

(* What every step of a deployment leaves well typed.                      *)
LEMMA EndsType ==
  ASSUME TypeInv, NEW status \in {"live", "error"}, Ends(status)
  PROVE  page' \in Page /\ job' \in Job /\ Supplied'
BY Nothing, Rows DEF TypeInv, TypeOK, Ends, SetStatus, Supplied, At, NoJob, Early

LEMMA GotoType ==
  ASSUME TypeInv, NEW pc \in PC, Goto(pc)
  PROVE  job' \in Job /\ job'.pc = pc /\ Row' = Row /\ job'.files = job.files
<1>1. job \in Job
  BY DEF TypeInv, TypeOK
<1> QED
  BY <1>1, Jobs DEF Goto, Row, Job

LEMMA PrepareType ==
  ASSUME TypeInv,
         Trigger \/ Load \/ Prepare \/ BuildStatic \/ SkipUnchanged \/ ResolveProvider
           \/ RefuseLateDomain
  PROVE  TypeInv'
<1>1. job \in Job /\ page \in Page
  BY DEF TypeInv, TypeOK
<1>2. CASE Trigger
  <2>1. page' \in Page
    BY <1>1, <1>2, Rows DEF Trigger, SetStatus
  <2>2. job' \in Job /\ job'.pc = "queued"
    BY <1>2, Nothing DEF Trigger, TypeInv, NoJob, PC
  <2> QED
    BY <1>2, <2>1, <2>2 DEF Trigger, TypeInv, TypeOK, Supplied, At, Early, others, history, site
<1>3. CASE Load
  <2>1. "prepare" \in PC /\ job' = [job EXCEPT !.pc = "prepare", !.row = page]
    BY <1>3 DEF Load, PC
  <2>2. job' \in Job
    BY <1>1, <2>1, Jobs
  <2>3. job'.pc = "prepare"
    BY <1>1, <2>1 DEF Job
  <2> QED
    BY <1>3, <2>2, <2>3 DEF Load, TypeInv, TypeOK, Supplied, At, Early, others, history, site
<1>4. CASE Prepare \/ BuildStatic
  <2>1. "prepared" \in PC /\ head \in Commits /\ job' = [job EXCEPT !.pc = "prepared", !.files = head]
    BY <1>4 DEF Prepare, BuildStatic, PC, TypeInv, TypeOK
  <2>2. job' \in Job
    BY <1>1, <2>1, Jobs
  <2>3. job'.pc = "prepared" /\ job'.files = head
    BY <1>1, <2>1 DEF Job
  <2> QED
    BY <1>4, <2>1, <2>2, <2>3 DEF Prepare, BuildStatic, TypeInv, TypeOK, Supplied, At, Early, others, history, site
<1>5. CASE SkipUnchanged
  <2>1. page' \in Page /\ job' \in Job /\ Supplied'
    BY <1>5, EndsType DEF SkipUnchanged, Succeed
  <2>2. last' \in Commits \cup {None}
    BY <1>1, <1>5, Jobs DEF SkipUnchanged, Succeed
  <2> QED
    BY <1>5, <2>1, <2>2 DEF SkipUnchanged, TypeInv, TypeOK, others, history, site
<1>6. CASE ResolveProvider
  <2>1. job' \in Job /\ Supplied'
    <3> DEFINE pc == IF OnAWS(Row) /\ Row.domain # None THEN "cert" ELSE "provision"
    <3>1. pc \in PC /\ Goto(pc)
      BY <1>6 DEF ResolveProvider, PC
    <3>2. job' \in Job /\ job'.pc = pc /\ Row' = Row /\ job'.files = job.files
      <4> HIDE DEF pc
      <4> QED BY <3>1, GotoType
    <3> QED
      BY <1>6, <3>2 DEF ResolveProvider, TypeInv, Supplied, At, Early
  <2> QED
    BY <1>6, <2>1 DEF ResolveProvider, TypeInv, TypeOK, others, history, site
<1>7. CASE RefuseLateDomain
  <2>1. page' \in Page /\ job' \in Job /\ Supplied'
    BY <1>7, EndsType DEF RefuseLateDomain
  <2> QED
    BY <1>7, <2>1 DEF RefuseLateDomain, TypeInv, TypeOK, others, history, site
<1> QED
  BY <1>2, <1>3, <1>4, <1>5, <1>6, <1>7

LEMMA CertificateType ==
  ASSUME TypeInv, CertificateNext
  PROVE  TypeInv'
<1>1. job \in Job /\ page \in Page /\ RT \in Runtime /\ Row \in Page
  BY Jobs, Rows DEF TypeInv, TypeOK, RT, Row
<1>2. {"provision", "validate", "await", "saveCert"} \subseteq PC
  BY DEF PC
<1>3. page' \in Page
  <2>1. \A rt \in Runtime : Store(rt) => page' \in Page
    BY <1>1, Rows DEF Store
  <2>2. SaveCertificate \/ Validate => page' \in Page
    BY <1>1, <2>1 DEF SaveCertificate, Validate
  <2>3. WaitIssued => page' \in Page
    BY <1>1, <2>1, Runtimes DEF WaitIssued
  <2>4. ForeignCertificate \/ NotIssued => page' \in Page
    BY EndsType DEF ForeignCertificate, NotIssued
  <2> QED
    BY <1>1, <2>2, <2>3, <2>4 DEF CertificateNext, SkipIssued, SkipRequested, RequestCertificate
<1>4. job' \in Job /\ Supplied'
  <2>1. ASSUME NEW pc \in {"provision", "validate", "await"}, Goto(pc), job.pc \notin Early,
               pc # "provision" => RT.cert # None
        PROVE  job' \in Job /\ Supplied'
    <3>1. job' \in Job /\ job'.pc = pc /\ Row' = Row /\ job'.files = job.files
      BY <1>2, <2>1, GotoType
    <3> QED
      BY <2>1, <3>1 DEF Supplied, At, RT, Row, TypeInv
  <2>2. SkipIssued \/ SkipRequested \/ SaveCertificate \/ Validate => job' \in Job /\ Supplied'
    BY <2>1 DEF SkipIssued, SkipRequested, SaveCertificate, Validate, TypeInv, Supplied, At, Early
  <2>3. ASSUME RequestCertificate
        PROVE  job' \in Job /\ Supplied'
    <3> DEFINE c == <<Row.domain, Row.account>>
    <3>1. c \in Certs /\ job' = [job EXCEPT !.pc = "saveCert", !.row.rt.cert = c]
      BY <1>1, <2>3, Rows DEF RequestCertificate, TypeInv, Supplied, Certs
    <3>2. c # None
      BY <3>1, SitesAssumption DEF Certs
    <3>3. job' \in Job /\ job'.pc = "saveCert" /\ RT'.cert = c /\ job'.files = job.files
      <4> HIDE DEF c
      <4>1. job' \in Job
        BY <1>1, <1>2, <3>1, Jobs
      <4>2. job'.pc = "saveCert" /\ RT'.cert = c /\ job'.files = job.files
        BY <1>1, <3>1 DEF Job, RT, Row, Page, Runtime
      <4> QED
        BY <4>1, <4>2
    <3> QED
      BY <2>3, <3>2, <3>3 DEF RequestCertificate, TypeInv, Supplied, At, Early
  <2>4. ASSUME WaitIssued
        PROVE  job' \in Job /\ Supplied'
    <3>1. job' = [job EXCEPT !.pc = "provision", !.row.rt.issued = TRUE]
      BY <2>4 DEF WaitIssued
    <3>2. job' \in Job
      BY <1>1, <1>2, <3>1, Jobs
    <3>3. job'.pc = "provision" /\ job'.files = job.files
      BY <1>1, <3>1 DEF Job
    <3> QED
      BY <2>4, <3>2, <3>3 DEF WaitIssued, TypeInv, Supplied, At, Early
  <2>5. ForeignCertificate \/ NotIssued => job' \in Job /\ Supplied'
    BY EndsType DEF ForeignCertificate, NotIssued
  <2> QED
    BY <2>2, <2>3, <2>4, <2>5 DEF CertificateNext
<1>5. acm' \in [requested : SUBSET Certs, validated : SUBSET Certs, issued : SUBSET Certs]
  <2>1. RequestCertificate => <<Row.domain, Row.account>> \in Certs
    BY <1>1, Rows DEF RequestCertificate, TypeInv, Supplied, Certs
  <2>2. Validate => RT.cert \in Certs
    BY <1>1, Runtimes DEF Validate, TypeInv, Supplied, At
  <2> QED
    BY <2>1, <2>2 DEF CertificateNext, SkipIssued, SkipRequested, RequestCertificate, SaveCertificate,
      Validate, ForeignCertificate, WaitIssued, NotIssued, TypeInv, TypeOK, site
<1> QED
  BY <1>3, <1>4, <1>5 DEF CertificateNext, SkipIssued, SkipRequested, RequestCertificate, SaveCertificate,
    Validate, ForeignCertificate, WaitIssued, NotIssued, TypeInv, TypeOK, others, history, site

LEMMA ProvisionType ==
  ASSUME TypeInv,
         (\E kind \in {"bucket", "oac", "site"} : Provision(kind)) \/ ProvisionRefused
           \/ SaveRuntime \/ Grant
  PROVE  TypeInv'
<1>1. job \in Job /\ page \in Page /\ RT \in Runtime /\ Row \in Page
  BY Jobs, Rows DEF TypeInv, TypeOK, RT, Row
<1>2. {"save", "provision", "upload", "alias"} \subseteq PC
  BY DEF PC
<1>3. ASSUME NEW kind \in {"bucket", "oac", "site"}, Provision(kind)
      PROVE  TypeInv'
  <2>1. PICK i \in 0..MaxMade : job' = [job EXCEPT !.pc = "save", !.row.rt[kind] = i]
    <3>1. CASE Create(kind)
      BY <3>1, NewIds DEF Create
    <3>2. CASE Adopt /\ ~OnAWS(Row)
      <4>1. PICK i \in Ids : job' = [job EXCEPT !.pc = "save", !.row.rt.site = i]
        BY <3>2 DEF Adopt, Projects
      <4>2. kind = "site"
        BY <1>3, <3>2 DEF Provision, Lacks, Kinds
      <4>3. Ids \subseteq 0..MaxMade
        BY SitesAssumption DEF Ids
      <4> QED
        BY <4>1, <4>2, <4>3
    <3> QED
      BY <1>3, <3>1, <3>2 DEF Provision
  <2>2. job' \in Job /\ job'.pc = "save" /\ job'.files = job.files
    <3>1. job' \in Job
      BY <1>1, <1>2, <2>1, Jobs
    <3>2. job'.pc = "save" /\ job'.files = job.files
      BY <1>1, <2>1 DEF Job
    <3> QED
      BY <3>1, <3>2
  <2>3. cloud' \in [Ids -> Resource] /\ lost' \subseteq Ids
    <3>1. CASE Create(kind)
      <4>1. New(kind) \in Resource
        BY <1>1, NewResources DEF New, TypeInv
      <4> QED
        BY <3>1, <4>1, NewIds, Clouds DEF Create, TypeInv, TypeOK
    <3>2. CASE Adopt
      BY <3>2 DEF Adopt, TypeInv, TypeOK
    <3> QED
      BY <1>3, <3>1, <3>2 DEF Provision
  <2> QED
    BY <1>3, <2>2, <2>3 DEF Provision, TypeInv, TypeOK, Supplied, At, Early, others
<1>4. CASE ProvisionRefused
  <2>1. page' \in Page /\ job' \in Job /\ Supplied'
    BY <1>4, EndsType DEF ProvisionRefused
  <2> QED
    BY <1>4, <2>1 DEF ProvisionRefused, TypeInv, TypeOK, others, history, site
<1>5. CASE SaveRuntime
  <2>1. page' \in Page
    BY <1>1, <1>5, Rows DEF SaveRuntime, Store
  <2>2. job' \in Job /\ job'.pc = "provision" /\ job'.files = job.files
    BY <1>2, <1>5, GotoType DEF SaveRuntime
  <2> QED
    BY <1>5, <2>1, <2>2 DEF SaveRuntime, TypeInv, TypeOK, Supplied, At, Early, others, history, site
<1>6. CASE Grant
  <2>1. cloud' \in [Ids -> Resource]
    BY <1>1, <1>6, Runtimes, Clouds DEF Grant, TypeInv, TypeOK
  <2>2. job' \in Job /\ job'.pc \in {"upload", "alias"} /\ job'.files = job.files
    BY <1>2, <1>6, GotoType DEF Grant
  <2> QED
    BY <1>6, <2>1, <2>2 DEF Grant, TypeInv, TypeOK, Supplied, At, Early, others, history
<1> QED
  BY <1>3, <1>4, <1>5, <1>6

LEMMA PublishType ==
  ASSUME TypeInv,
         SkipAlias \/ SetAlias \/ SaveAlias \/ UpsertRecord \/ Upload \/ Mirror \/ Invalidate
           \/ Publish
  PROVE  TypeInv'
<1>1. job \in Job /\ page \in Page /\ RT \in Runtime /\ Row \in Page
  BY Jobs, Rows DEF TypeInv, TypeOK, RT, Row
<1>2. {"saveAlias", "dns", "upload", "mirror", "invalidate"} \subseteq PC
  BY DEF PC
<1>3. /\ RT.site \in 0..MaxMade /\ RT.bucket \in 0..MaxMade
      /\ Row.domain \in Domains \cup {None} /\ job.files \in Commits \cup {None}
  BY <1>1, Runtimes, Rows, Jobs
<1>4. CASE SkipAlias \/ SaveAlias \/ UpsertRecord
  <2>1. PICK pc \in {"dns", "upload"} : Goto(pc)
    BY <1>4 DEF SkipAlias, SaveAlias, UpsertRecord
  <2>2. job' \in Job /\ job'.pc \in {"dns", "upload"} /\ job'.files = job.files
    BY <1>2, <2>1, GotoType
  <2>3. page' \in Page
    BY <1>1, <1>4, Rows DEF SkipAlias, SaveAlias, UpsertRecord, Store
  <2>4. zone' \in [Domains -> 0..MaxMade]
    BY <1>3, <1>4 DEF SkipAlias, SaveAlias, UpsertRecord, Upsert, TypeInv, TypeOK, site
  <2> QED
    BY <1>4, <2>2, <2>3, <2>4 DEF SkipAlias, SaveAlias, UpsertRecord, TypeInv, TypeOK, Supplied, At, Early,
      others, history, site
<1>5. CASE SetAlias
  <2>1. job' = [job EXCEPT !.pc = "saveAlias", !.row.rt.alias = RT.site]
    BY <1>5 DEF SetAlias
  <2>2. job' \in Job
    BY <1>1, <1>2, <1>3, <2>1, Jobs
  <2>3. job'.pc = "saveAlias" /\ job'.files = job.files
    BY <1>1, <2>1 DEF Job
  <2>4. cloud' \in [Ids -> Resource]
    BY <1>3, <1>5, Clouds DEF SetAlias, TypeInv, TypeOK
  <2> QED
    BY <1>5, <2>2, <2>3, <2>4 DEF SetAlias, TypeInv, TypeOK, Supplied, At, Early, others, history
<1>6. CASE Upload \/ Mirror
  <2>1. PICK pc \in {"mirror", "invalidate"} : Goto(pc)
    BY <1>6 DEF Upload, Mirror
  <2>2. job' \in Job /\ job'.pc \in {"mirror", "invalidate"} /\ job'.files = job.files
    BY <1>2, <2>1, GotoType
  <2>3. cloud' \in [Ids -> Resource]
    <3>1. job.files \in Commits
      BY <1>6 DEF Upload, Mirror, TypeInv, Supplied, At, Early
    <3>2. TypeOK
      BY DEF TypeInv
    <3>3. CASE Upload
      BY <1>3, <3>1, <3>2, <3>3, Clouds DEF Upload
    <3>4. CASE Mirror
      BY <1>3, <3>1, <3>2, <3>4, Clouds DEF Mirror
    <3> QED
      BY <1>6, <3>3, <3>4
  <2> QED
    BY <1>6, <2>2, <2>3 DEF Upload, Mirror, TypeInv, TypeOK, Supplied, At, Early, others, history
<1>7. CASE Invalidate \/ Publish
  <2>1. page' \in Page /\ job' \in Job /\ Supplied'
    BY <1>7, EndsType DEF Invalidate, Publish, Succeed
  <2>2. last' \in Commits \cup {None}
    BY <1>3, <1>7 DEF Invalidate, Publish, Succeed
  <2>3. cloud' \in [Ids -> Resource]
    <3>1. job.files \in Commits
      BY <1>7 DEF Invalidate, Publish, TypeInv, Supplied, At, Early
    <3>2. TypeOK
      BY DEF TypeInv
    <3>3. CASE Invalidate
      BY <1>3, <3>1, <3>2, <3>3, Clouds DEF Invalidate
    <3>4. CASE Publish
      BY <1>3, <3>1, <3>2, <3>4, Clouds DEF Publish
    <3> QED
      BY <1>7, <3>3, <3>4
  <2> QED
    BY <1>7, <2>1, <2>2, <2>3 DEF Invalidate, Publish, TypeInv, TypeOK, others
<1> QED
  BY <1>4, <1>5, <1>6, <1>7

LEMMA FailureType ==
  ASSUME TypeInv, StepFails \/ Crash
  PROVE  TypeInv'
<1>1. left' \in 0..MaxFaults
  BY SitesAssumption DEF StepFails, Crash, Interrupted, TypeInv, TypeOK
<1>2. lost' \subseteq Ids
  <2>1. Unrecorded(Row) \subseteq Ids
    <3>1. \A kind \in {"bucket", "oac", "site"} : Row.rt[kind] \in 0..MaxMade
      <4>1. Row \in Page
        BY Jobs DEF TypeInv, TypeOK, Row
      <4>2. Row.rt \in Runtime
        BY <4>1, Rows
      <4> QED
        BY <4>2 DEF Runtime
    <3>2. Kinds(Row) \subseteq {"bucket", "oac", "site"}
      BY DEF Kinds
    <3> QED
      BY <3>1, <3>2, SitesAssumption DEF Unrecorded, Ids
  <2> QED
    BY <2>1 DEF StepFails, Crash, Interrupted, TypeInv, TypeOK
<1>3. page' \in Page /\ job' \in Job /\ Supplied'
  <2>1. CASE StepFails
    BY <2>1, EndsType DEF StepFails
  <2>2. CASE Crash
    <3>1. job' \in Job /\ job'.pc = "queued"
      BY <2>2, Nothing DEF Crash, TypeInv, NoJob, PC
    <3> QED
      BY <2>2, <3>1 DEF Crash, TypeInv, TypeOK, Supplied, At, Early
  <2> QED
    BY <2>1, <2>2
<1>4. torn' \in BOOLEAN /\ missed' \in BOOLEAN
  BY DEF StepFails, Crash, Interrupted, TypeInv, TypeOK
<1> QED
  BY <1>1, <1>2, <1>3, <1>4 DEF StepFails, Crash, Interrupted, TypeInv, TypeOK, others, site

LEMMA RequestType ==
  ASSUME TypeInv,
         \/ \E d \in Domains \cup {None}, m \in BOOLEAN, a \in Accounts : EditRead(d, m, a)
         \/ EditWrite \/ Delete \/ Teardown \/ TeardownFails
         \/ \E c \in Commits : Push(c)
         \/ Validation
  PROVE  TypeInv'
<1>1. /\ page \in Page /\ edit.row \in Page /\ cloud \in [Ids -> Resource]
      /\ Supplied /\ TypeOK
  BY DEF TypeInv, TypeOK
<1>2. \A kind \in {"bucket", "oac", "site"} : Named(kind) \subseteq Ids
  <2>1. page.rt \in Runtime
    BY <1>1, Rows
  <2>2. \A kind \in {"bucket", "oac", "site"} : page.rt[kind] \in 0..MaxMade
    BY <2>1 DEF Runtime
  <2> QED
    BY <2>2, SitesAssumption DEF Named, Ids
<1>3. ASSUME NEW d \in Domains \cup {None}, NEW m \in BOOLEAN, NEW a \in Accounts, EditRead(d, m, a)
      PROVE  TypeInv'
  <2>1. Change(page, d, m, a) \in Page
    BY <1>1, Rows
  <2>2. edit' \in [pc : {"idle", "write"}, row : Page]
    BY <1>3, <2>1 DEF EditRead
  <2>3. edits' \in 0..MaxEdits
    BY <1>1, <1>3, SitesAssumption DEF EditRead, TypeOK
  <2> QED
    BY <1>1, <1>3, <2>2, <2>3 DEF EditRead, TypeInv, TypeOK, Supplied, At, RT, Row, history, site
<1>4. CASE EditWrite
  <2>1. page' \in Page
    BY <1>1, <1>4, Rows DEF EditWrite
  <2>2. raced' \in BOOLEAN
    BY <1>1, <1>4 DEF EditWrite, TypeOK
  <2>3. edit' \in [pc : {"idle", "write"}, row : Page]
    BY <1>1, <1>4, Nothing DEF EditWrite
  <2> QED
    BY <1>1, <1>4, <2>1, <2>2, <2>3 DEF EditWrite, TypeInv, TypeOK, Supplied, At, RT, Row, site
<1>5. CASE Delete
  <2>1. page' \in Page
    BY <1>1, <1>5, Rows DEF Delete, SetStatus
  <2> QED
    BY <1>1, <1>5, <2>1 DEF Delete, TypeInv, TypeOK, Supplied, At, RT, Row, history, site
<1>6. CASE Teardown
  <2>1. \A ids : Without(ids) \in [Ids -> Resource]
    BY <1>1 DEF Without, Resource
  <2>2. lost' \subseteq Ids /\ teardown' \in {"none", "bucket", "site", "done"}
    BY <1>1, <1>2, <1>6 DEF Teardown, After, TypeOK
  <2>3. cloud' \in [Ids -> Resource]
    BY <1>6, <2>1 DEF Teardown
  <2> QED
    BY <1>1, <1>6, <2>2, <2>3 DEF Teardown, TypeInv, TypeOK, Supplied, At, RT, Row
<1>7. CASE TeardownFails
  <2>1. Remaining \subseteq Ids
    BY <1>2 DEF Remaining
  <2>2. lost' \subseteq Ids /\ teardown' \in {"none", "bucket", "site", "done"}
    BY <1>1, <1>2, <1>7, <2>1 DEF TeardownFails, After, TypeOK
  <2>3. left' \in 0..MaxFaults
    BY <1>1, <1>7, SitesAssumption DEF TeardownFails, TypeOK
  <2> QED
    BY <1>1, <1>7, <2>2, <2>3 DEF TeardownFails, TypeInv, TypeOK, Supplied, At, RT, Row, site
<1>8. CASE \E c \in Commits : Push(c)
  BY <1>1, <1>8 DEF Push, TypeInv, TypeOK, Supplied, At, RT, Row, history, site
<1>9. CASE Validation
  <2>1. PICK c \in Certs : UserValidates(c) \/ Issue(c)
    BY <1>9 DEF Validation
  <2>2. acm' \in [requested : SUBSET Certs, validated : SUBSET Certs, issued : SUBSET Certs]
    BY <1>1, <2>1 DEF UserValidates, Issue, TypeOK
  <2> QED
    BY <1>1, <2>1, <2>2 DEF UserValidates, Issue, TypeInv, TypeOK, Supplied, At, RT, Row, others, history
<1> QED
  BY <1>3, <1>4, <1>5, <1>6, <1>7, <1>8, <1>9

LEMMA TypeStep == TypeInv /\ [Next]_vars => TypeInv'
<1> SUFFICES ASSUME TypeInv, [Next]_vars PROVE TypeInv'
  OBVIOUS
<1>1. CASE UNCHANGED vars
  BY <1>1 DEF vars, TypeInv, TypeOK, Supplied, At, RT, Row
<1>2. CASE Next
  BY <1>2, PrepareType, CertificateType, ProvisionType, PublishType, FailureType, RequestType
    DEF Next, DeployNext
<1> QED
  BY <1>1, <1>2

(* Every variable keeps its type, for any instance: in particular what a   *)
(* deployment stores as runtime names resources that exist or none.        *)
THEOREM SitesTypeCorrect == Spec => []TypeOK
<1>1. TypeInv => TypeOK
  BY DEF TypeInv
<1> QED
  BY <1>1, InitType, TypeStep, PTL DEF Spec

-----------------------------------------------------------------------------
(* The copy of a deployment *)

AllKinds == {"bucket", "oac", "site"}
Busy == job.pc \notin {"idle", "queued"}

(* The copy differs from the row in what has just been made, until it is   *)
(* stored; nobody but the deployment writes the runtime meanwhile.         *)
CopyInv ==
  /\ (page.status = "deploying" <=> job.pc # "idle")
  /\ page.status # "gone" => teardown = "none"
  /\ page.rt.alias \in {0, page.rt.site}
  /\ Busy =>
       /\ Row.provider = page.provider
       /\ \A k \in AllKinds : RT[k] = page.rt[k] \/ (At("save") /\ page.rt[k] = 0)
       /\ RT.alias = page.rt.alias \/ At("saveAlias")
       /\ RT.alias \in {0, RT.site}

(* What a row names has been made.                                         *)
Exists(row) ==
  \A k \in AllKinds : row.rt[k] # 0 => row.rt[k] \in Made /\ cloud[row.rt[k]].kind = k
ExistInv == Exists(page) /\ (Busy => Exists(Row))

(* What exists is named by the row, by the deployment that is about to     *)
(* store it, or by the teardown.                                           *)
MadeInv ==
  \A i \in Made \ lost : cloud[i].on =>
    \/ page.status # "gone" /\ i \in {page.rt[k] : k \in Kinds(page)}
    \/ page.status # "gone" /\ At("save") /\ i \in {RT[k] : k \in Kinds(Row)}
    \/ page.status = "gone" /\ (i \in Remaining \/ cloud[i].kind = "oac")

-----------------------------------------------------------------------------
(* The files *)

Granted == {"alias", "saveAlias", "dns", "upload", "mirror", "invalidate"}
Up(row) == /\ Complete(row) /\ cloud[row.rt.site].on
           /\ OnAWS(row) => cloud[row.rt.bucket].link = row.rt.site
Holds(row, files) == cloud[Origin(row)].files = files /\ ~cloud[row.rt.site].stale

(* Once granted, the site stays up; and outside of an upload it has the    *)
(* files of the latest success.                                            *)
ServeInv ==
  /\ job.pc \in Granted => Up(Row)
  /\ job.pc \in {"mirror", "invalidate"} => OnAWS(Row)
  /\ At("invalidate") => cloud[RT.bucket].files = {job.files}
  /\ \A i \in Ids : cloud[i].stale => OnAWS(page)
  /\ page.status = "live" => last # None
  /\ page.status # "gone" /\ last # None => Complete(page)
  /\ page.status # "gone" /\ last # None /\ ~torn /\ job.pc \notin {"mirror", "invalidate"} =>
       Up(page) /\ Holds(page, {last})

-----------------------------------------------------------------------------
(* The domain *)

(* The alias of a distribution is given when it is made, that of a Pages   *)
(* project is attached and then recorded.                                  *)
Answers(row) ==
  row.domain # None /\ row.rt.site # 0 =>
    /\ OnAWS(row) => /\ cloud[row.rt.site].alias = row.domain
                     /\ row.rt.cert # None /\ row.rt.cert[1] = row.domain
                     /\ row.rt.cert \in acm.issued
    /\ ~OnAWS(row) /\ row.rt.alias # 0 => cloud[row.rt.site].alias = row.domain

Certified == {"provision", "save"} \cup Granted
DomainInv ==
  /\ job.pc \in Certified /\ OnAWS(Row) /\ Row.domain # None => RT.cert # None
  /\ job.pc \in {"alias", "saveAlias", "dns"} => Row.domain # None
  /\ At("dns") => Row.manage
  /\ job.pc \in Granted \ {"alias"} /\ Row.domain # None => RT.alias # 0
  /\ ~raced =>
       /\ Answers(page)
       /\ Busy => Answers(Row) /\ Row.domain = page.domain /\ Row.manage = page.manage
       /\ page.status # "gone" /\ last # None /\ page.domain # None => page.rt.alias # 0
       /\ page.domain # None /\ page.manage /\ page.rt.alias # 0 /\ ~missed /\ ~At("dns") =>
            zone[page.domain] = page.rt.site

-----------------------------------------------------------------------------
(* Steps *)

SiteInv == CopyInv /\ ExistInv /\ MadeInv /\ ServeInv /\ DomainInv

Still == UNCHANGED <<last, cloud, acm, zone, torn, missed, raced, lost, teardown>>

LEMMA PageMoves ==
  ASSUME TypeInv
  PROVE  /\ \A rt : Store(rt) =>
              /\ page'.rt = rt /\ page'.status = page.status /\ page'.provider = page.provider
              /\ page'.domain = page.domain /\ page'.manage = page.manage
         /\ \A st : SetStatus(st) =>
              /\ page'.rt = page.rt /\ page'.status = st /\ page'.provider = page.provider
              /\ page'.domain = page.domain /\ page'.manage = page.manage
BY DEF TypeInv, TypeOK, Page, Store, SetStatus

LEMMA JobMoves ==
  ASSUME TypeInv
  PROVE  /\ \A pc : Goto(pc) => job'.pc = pc /\ job'.row = job.row /\ job'.files = job.files
         /\ NoJob.pc = "idle"
         /\ [NoJob EXCEPT !.pc = "queued"].pc = "queued"
<1>1. job \in Job
  BY DEF TypeInv, TypeOK
<1> QED
  BY <1>1 DEF Goto, Job, NoJob

LEMMA WholeRow == \A row : Complete(row) => row.rt.site # 0 /\ (OnAWS(row) => row.rt.bucket # 0)
BY DEF Complete, Kinds

(* A step that only goes on. *)
LEMMA WalkKeeps ==
  ASSUME TypeInv, SiteInv,
         Prepare \/ BuildStatic \/ ResolveProvider \/ SkipIssued \/ SkipRequested \/ SkipAlias
  PROVE  SiteInv'
<1>0. CopyInv /\ ExistInv /\ MadeInv /\ ServeInv /\ DomainInv
  BY DEF SiteInv
<1>1. /\ UNCHANGED page /\ Still /\ job'.row = job.row
      /\ job.pc \notin {"idle", "queued", "save", "saveAlias", "dns", "mirror", "invalidate"}
      /\ job'.pc \notin {"idle", "queued", "save", "saveAlias", "dns", "mirror", "invalidate"}
      /\ job'.pc \in Granted => job.pc = "alias" /\ job'.pc = "upload" /\ RT.alias = RT.site
      /\ job'.pc \in Certified => \/ job.pc \in Certified
                                  \/ OnAWS(Row) /\ Row.domain # None => RT.cert # None
  <2>1. CASE Prepare \/ BuildStatic
    <3>1. job'.pc = "prepared" /\ job'.row = job.row
      BY <2>1 DEF Prepare, BuildStatic, TypeInv, TypeOK, Job
    <3> QED
      BY <2>1, <3>1 DEF Prepare, BuildStatic, At, Still, site, history, others, Granted, Certified
  <2>2. CASE ResolveProvider
    BY <2>2, JobMoves DEF ResolveProvider, At, Still, site, history, others, Granted, Certified
  <2>3. CASE SkipIssued \/ SkipRequested
    BY <2>3, JobMoves DEF SkipIssued, SkipRequested, At, Still, site, history, others, Granted, Certified
  <2>4. CASE SkipAlias
    BY <2>4, JobMoves DEF SkipAlias, AliasKnown, At, Still, site, history, others, Granted, Certified
  <2> QED
    BY <2>1, <2>2, <2>3, <2>4
<1>2. Row' = Row /\ RT' = RT
  BY <1>1 DEF Row, RT
<1>3. CopyInv'
  BY <1>0, <1>1, <1>2 DEF CopyInv, Busy, At, Still
<1>4. ExistInv'
  BY <1>0, <1>1, <1>2 DEF ExistInv, Exists, Busy, Made, Still, Row
<1>5. MadeInv'
  BY <1>0, <1>1, <1>2 DEF MadeInv, Made, Kinds, OnAWS, At, Remaining, Named, Still
<1>6. ServeInv'
  BY <1>0, <1>1, <1>2 DEF ServeInv, Up, Complete, Kinds, OnAWS, Holds, Origin, At, Still, Granted, Row
<1>7. DomainInv'
  <2>1. job'.pc = "upload" => RT.alias # 0
    BY <1>0, <1>1, WholeRow DEF ServeInv, Up, Granted, Row, RT
  <2> QED
    BY <1>0, <1>1, <1>2, <2>1 DEF DomainInv, Answers, OnAWS, At, Busy, Still, Granted, Row
<1> QED
  BY <1>3, <1>4, <1>5, <1>6, <1>7 DEF SiteInv

(* The start: nothing but the status is written. *)
LEMMA StartKeeps ==
  ASSUME TypeInv, SiteInv, Trigger \/ Load
  PROVE  SiteInv'
<1>0. CopyInv /\ ExistInv /\ MadeInv /\ ServeInv /\ DomainInv
  BY DEF SiteInv
<1>1. /\ Still /\ page'.rt = page.rt /\ page'.provider = page.provider
      /\ page'.domain = page.domain /\ page'.manage = page.manage
      /\ page.status # "gone" /\ page'.status = "deploying"
      /\ job.pc \in {"idle", "queued"}
      /\ \/ job'.pc = "queued"
         \/ job'.pc = "prepare" /\ job'.row = page'
  <2>1. CASE Trigger
    <3>1. job.pc = "idle"
      BY <1>0, <2>1 DEF Trigger, CopyInv
    <3> QED
      BY <2>1, <3>1, PageMoves, JobMoves DEF Trigger, Still, site, history, others
  <2>2. CASE Load
    <3>1. job'.pc = "prepare" /\ job'.row = page'
      BY <2>2 DEF Load, TypeInv, TypeOK, Job
    <3> QED
      BY <1>0, <2>2, <3>1 DEF Load, CopyInv, At, Still, site, history, others
  <2> QED
    BY <2>1, <2>2
<1>2. CopyInv'
  BY <1>0, <1>1 DEF CopyInv, Busy, At, Row, RT, Still
<1>3. ExistInv'
  BY <1>0, <1>1 DEF ExistInv, Exists, Busy, Made, Still, Row
<1>4. MadeInv'
  BY <1>0, <1>1 DEF MadeInv, Made, Kinds, OnAWS, At, Remaining, Named, Still
<1>5. ServeInv'
  BY <1>0, <1>1 DEF ServeInv, Up, Complete, Kinds, OnAWS, Holds, Origin, At, Still, Granted
<1>6. DomainInv'
  BY <1>0, <1>1 DEF DomainInv, Answers, OnAWS, At, Busy, Still, Granted, Certified, Row
<1> QED
  BY <1>2, <1>3, <1>4, <1>5, <1>6 DEF SiteInv

(* A step that stores the runtime as the deployment knows it.              *)
LEMMA StoreKeeps ==
  ASSUME TypeInv, SiteInv,
         SaveCertificate \/ Validate \/ WaitIssued \/ SaveRuntime \/ SaveAlias
  PROVE  SiteInv'
<1>0. CopyInv /\ ExistInv /\ MadeInv /\ ServeInv /\ DomainInv
  BY DEF SiteInv
<1>1. /\ UNCHANGED <<last, cloud, zone, torn, missed, raced, lost, teardown>>
      /\ acm.issued \subseteq acm'.issued
      /\ page'.status = page.status /\ page'.provider = page.provider
      /\ page'.domain = page.domain /\ page'.manage = page.manage
      /\ page'.rt = job'.row.rt
  <2>1. CASE SaveCertificate \/ SaveRuntime \/ SaveAlias
    <3>1. job'.row = job.row
      BY <2>1, JobMoves DEF SaveCertificate, SaveRuntime, SaveAlias
    <3> QED
      BY <2>1, <3>1, PageMoves DEF SaveCertificate, SaveRuntime, SaveAlias, site, history, others, RT
  <2>2. CASE Validate
    <3>1. job'.row = job.row
      BY <2>2, JobMoves DEF Validate
    <3> QED
      BY <2>2, <3>1, PageMoves DEF Validate, history, others, RT, TypeInv, TypeOK
  <2>3. CASE WaitIssued
    <3>1. job'.row.rt = [RT EXCEPT !.issued = TRUE]
      BY <2>3 DEF WaitIssued, TypeInv, TypeOK, Job, Page, RT
    <3> QED
      BY <2>3, <3>1, PageMoves DEF WaitIssued, site, history, others
  <2> QED
    BY <2>1, <2>2, <2>3
<1>2. /\ job'.row.provider = Row.provider /\ job'.row.domain = Row.domain /\ job'.row.manage = Row.manage
      /\ \A k \in AllKinds : job'.row.rt[k] = RT[k]
      /\ job'.row.rt.alias = RT.alias /\ job'.row.rt.cert = RT.cert
      /\ job.pc \notin {"idle", "queued", "mirror", "invalidate", "dns"}
      /\ \/ job.pc \in {"saveCert", "validate"} /\ job'.pc \in {"validate", "await"}
         \/ job.pc = "await" /\ job'.pc = "provision" /\ RT.cert # None
         \/ job.pc = "save" /\ job'.pc = "provision"
         \/ job.pc = "saveAlias" /\ job'.pc = (IF Row.manage THEN "dns" ELSE "upload")
  <2>1. CASE SaveCertificate \/ SaveRuntime \/ SaveAlias \/ Validate
    <3>1. job'.row = job.row
      BY <2>1, JobMoves DEF SaveCertificate, SaveRuntime, SaveAlias, Validate
    <3> QED
      BY <2>1, <3>1, JobMoves DEF SaveCertificate, SaveRuntime, SaveAlias, Validate, At, Row, RT
  <2>2. CASE WaitIssued
    <3>1. job \in Job /\ Row \in Page /\ RT \in Runtime /\ RT.cert # None /\ At("await")
      BY <2>2, Jobs, Rows DEF WaitIssued, TypeInv, TypeOK, Supplied, At, Row, RT
    <3>2. job' = [job EXCEPT !.pc = "provision", !.row.rt.issued = TRUE]
      BY <2>2 DEF WaitIssued
    <3>3. /\ job'.pc = "provision" /\ job'.row.provider = Row.provider /\ job'.row.domain = Row.domain
          /\ job'.row.manage = Row.manage /\ job'.row.rt = [RT EXCEPT !.issued = TRUE]
      BY <3>1, <3>2 DEF Job, Page, Row, RT
    <3>4. /\ \A k \in AllKinds : job'.row.rt[k] = RT[k]
          /\ job'.row.rt.alias = RT.alias /\ job'.row.rt.cert = RT.cert
      BY <3>1, <3>3 DEF Runtime, AllKinds
    <3> QED
      BY <3>1, <3>3, <3>4 DEF At
  <2> QED
    BY <2>1, <2>2
<1>3. /\ page'.rt.site = RT.site /\ page'.rt.bucket = RT.bucket /\ page'.rt.oac = RT.oac
      /\ page'.rt.alias = RT.alias /\ page'.rt.cert = RT.cert
      /\ job'.row.rt.site = RT.site /\ job'.row.rt.bucket = RT.bucket /\ job'.row.rt.oac = RT.oac
      /\ Row.provider = page.provider /\ page.status = "deploying"
      /\ \A k \in AllKinds : page.rt[k] # 0 => page.rt[k] = RT[k]
  BY <1>0, <1>1, <1>2 DEF CopyInv, Busy, AllKinds
<1>4. CopyInv'
  BY <1>0, <1>1, <1>2, <1>3 DEF CopyInv, Busy, At, Row, RT
<1>5. ExistInv'
  BY <1>0, <1>1, <1>2, <1>3 DEF ExistInv, Exists, Busy, Made, Row, RT
<1>6. MadeInv'
  <2>1. {page'.rt[k] : k \in Kinds(page)'} = {RT[k] : k \in Kinds(Row)}
    BY <1>1, <1>2, <1>3 DEF Kinds, OnAWS, AllKinds
  <2>2. ASSUME NEW i \in Made, i \in {page.rt[k] : k \in Kinds(page)}
        PROVE  i \in {RT[k] : k \in Kinds(Row)}
    <3>1. i # 0
      BY SitesAssumption DEF Made, Ids
    <3> QED
      BY <1>3, <2>2, <3>1 DEF Kinds, OnAWS, AllKinds
  <2>3. Made' = Made
    BY <1>1 DEF Made
  <2> QED
    BY <1>0, <1>1, <1>3, <2>1, <2>2, <2>3 DEF MadeInv
<1>7. ServeInv'
  BY <1>0, <1>1, <1>2, <1>3 DEF ServeInv, Up, Complete, Kinds, OnAWS, Holds, Origin, At, Granted, Row, RT, AllKinds
<1>8. DomainInv'
  <2>1. /\ (job.pc \in Certified /\ OnAWS(Row) /\ Row.domain # None => RT.cert # None)'
        /\ (job.pc \in {"alias", "saveAlias", "dns"} => Row.domain # None)'
        /\ (At("dns") => Row.manage)'
        /\ (job.pc \in Granted \ {"alias"} /\ Row.domain # None => RT.alias # 0)'
    BY <1>0, <1>1, <1>2, <1>3 DEF DomainInv, OnAWS, At, Granted, Certified, Row, RT
  <2>2. ASSUME ~raced
        PROVE  /\ Answers(page)' /\ Answers(Row)'
               /\ Row'.domain = page'.domain /\ Row'.manage = page'.manage
    BY <1>0, <1>1, <1>2, <1>3, <2>2 DEF DomainInv, Answers, OnAWS, Busy, Row, RT
  <2>3. ASSUME ~raced, page.status # "gone", last # None, page.domain # None
        PROVE  page'.rt.alias # 0
    BY <1>0, <1>2, <1>3, <2>3 DEF DomainInv, CopyInv, Busy, At, Granted
  <2>4. ASSUME ~raced, page.domain # None, page.manage, page'.rt.alias # 0, ~missed, job'.pc # "dns"
        PROVE  zone[page.domain] = page'.rt.site
    <3>1. Row.manage = page.manage
      BY <1>0, <1>2, <2>4 DEF DomainInv, Busy
    <3>2. job.pc # "saveAlias" /\ job.pc # "dns"
      BY <1>2, <2>4, <3>1
    <3>3. page.rt.alias = page'.rt.alias /\ page.rt.site = page'.rt.site
      BY <1>0, <1>2, <1>3, <2>4, <3>2 DEF CopyInv, Busy, At, AllKinds
    <3> QED
      BY <1>0, <2>4, <3>2, <3>3 DEF DomainInv, At
  <2> QED
    BY <1>1, <2>1, <2>2, <2>3, <2>4 DEF DomainInv, At
<1> QED
  BY <1>4, <1>5, <1>6, <1>7, <1>8 DEF SiteInv

LEMMA RequestCertificateKeeps ==
  ASSUME TypeInv, SiteInv, RequestCertificate
  PROVE  SiteInv'
<1>0. CopyInv /\ ExistInv /\ MadeInv /\ ServeInv /\ DomainInv
  BY DEF SiteInv
<1>1. /\ UNCHANGED <<page, last, cloud, zone, torn, missed, raced, lost, teardown>>
      /\ acm'.issued = acm.issued
      /\ At("cert") /\ job'.pc = "saveCert" /\ RT.cert = None
      /\ job'.row.provider = Row.provider /\ job'.row.domain = Row.domain /\ job'.row.manage = Row.manage
      /\ job'.row.rt.site = RT.site /\ job'.row.rt.bucket = RT.bucket /\ job'.row.rt.oac = RT.oac
      /\ job'.row.rt.alias = RT.alias
  <2>1. PICK c : c = <<Row.domain, Row.account>>
    OBVIOUS
  <2>2. job' = [job EXCEPT !.pc = "saveCert", !.row.rt.cert = c]
    BY <2>1 DEF RequestCertificate
  <2>3. job \in Job /\ Row \in Page /\ RT \in Runtime
    BY Jobs, Rows DEF TypeInv, TypeOK, Row, RT
  <2>4. /\ job'.pc = "saveCert" /\ job'.row.provider = Row.provider /\ job'.row.domain = Row.domain
        /\ job'.row.manage = Row.manage /\ job'.row.rt = [RT EXCEPT !.cert = c]
    BY <2>2, <2>3 DEF Job, Page, Row, RT
  <2>5. /\ job'.row.rt.site = RT.site /\ job'.row.rt.bucket = RT.bucket /\ job'.row.rt.oac = RT.oac
        /\ job'.row.rt.alias = RT.alias
    BY <2>3, <2>4 DEF Runtime
  <2> QED
    BY <2>4, <2>5 DEF RequestCertificate, history, others, TypeInv, TypeOK
<1>2. CopyInv'
  BY <1>0, <1>1 DEF CopyInv, Busy, At, Row, RT, AllKinds
<1>3. ExistInv'
  BY <1>0, <1>1 DEF ExistInv, Exists, Busy, Made, Row, RT, AllKinds, At
<1>4. MadeInv'
  BY <1>0, <1>1 DEF MadeInv, Made, Kinds, OnAWS, At, Remaining, Named
<1>5. ServeInv'
  BY <1>0, <1>1 DEF ServeInv, Up, Complete, Kinds, OnAWS, Holds, Origin, At, Granted
<1>6. DomainInv'
  BY <1>0, <1>1 DEF DomainInv, Answers, OnAWS, At, Busy, Granted, Certified, Row, RT
<1> QED
  BY <1>2, <1>3, <1>4, <1>5, <1>6 DEF SiteInv

(* A deployment that ends early, or its delivery: what it had made and not *)
(* stored is lost.                                                         *)
LEMMA StopKeeps ==
  ASSUME TypeInv, SiteInv,
         RefuseLateDomain \/ ForeignCertificate \/ NotIssued \/ ProvisionRefused \/ StepFails \/ Crash
  PROVE  SiteInv'
<1>0. CopyInv /\ ExistInv /\ MadeInv /\ ServeInv /\ DomainInv
  BY DEF SiteInv
<1>1. /\ UNCHANGED <<last, cloud, acm, zone, raced, teardown>>
      /\ page'.rt = page.rt /\ page'.provider = page.provider
      /\ page'.domain = page.domain /\ page'.manage = page.manage
      /\ \/ page'.status = "error" /\ job'.pc = "idle"
         \/ page'.status = page.status /\ job'.pc = "queued"
      /\ Busy
      /\ torn \/ job.pc \in {"mirror", "invalidate"} => torn'
      /\ missed \/ At("dns") => missed'
      /\ lost \subseteq lost'
      /\ At("save") => Unrecorded(Row) \subseteq lost'
  <2>1. CASE RefuseLateDomain \/ ForeignCertificate \/ NotIssued \/ ProvisionRefused
    <3>1. Ends("error") /\ job.pc \in {"prepared", "validate", "await", "provision"}
      BY <2>1 DEF RefuseLateDomain, ForeignCertificate, NotIssued, ProvisionRefused, At
    <3>2. Still
      BY <2>1 DEF RefuseLateDomain, ForeignCertificate, NotIssued, ProvisionRefused, Still, site, history, others
    <3> QED
      BY <3>1, <3>2, PageMoves, JobMoves DEF Ends, Still, At, Busy
  <2>2. CASE StepFails \/ Crash
    <3>1. Interrupted /\ Busy
      BY <2>2 DEF StepFails, Crash, At, Busy
    <3>2. \/ page'.status = "error" /\ job'.pc = "idle"
          \/ page'.status = page.status /\ job'.pc = "queued"
      BY <2>2, PageMoves, JobMoves DEF StepFails, Crash, Ends
    <3>3. /\ page'.rt = page.rt /\ page'.provider = page.provider
          /\ page'.domain = page.domain /\ page'.manage = page.manage
      BY <2>2, PageMoves DEF StepFails, Crash, Ends
    <3> QED
      BY <3>1, <3>2, <3>3 DEF Interrupted, site, others, At, TypeInv, TypeOK
  <2> QED
    BY <2>1, <2>2
<1>2. page.status = "deploying"
  BY <1>0, <1>1 DEF CopyInv, Busy
<1>3. CopyInv'
  BY <1>0, <1>1, <1>2 DEF CopyInv, Busy
<1>4. ExistInv'
  BY <1>0, <1>1 DEF ExistInv, Exists, Busy, Made
<1>5. MadeInv'
  <2>1. Made' = Made /\ Kinds(page)' = Kinds(page)
    BY <1>1 DEF Made, Kinds, OnAWS
  <2>2. ASSUME NEW i \in Made \ lost', cloud[i].on
        PROVE  i \in {page.rt[k] : k \in Kinds(page)}
    <3>1. CASE At("save") /\ i \in {RT[k] : k \in Kinds(Row)}
      <4>1. i # 0 /\ i \notin Unrecorded(Row)
        BY <1>1, <2>2, <3>1, SitesAssumption DEF Made, Ids
      <4>2. Kinds(Row) = Kinds(page)
        BY <1>0, <1>1 DEF CopyInv, Kinds, OnAWS
      <4> QED
        BY <3>1, <4>1, <4>2 DEF Unrecorded, RT, Row
    <3> QED
      BY <1>0, <1>1, <1>2, <2>2, <3>1 DEF MadeInv
  <2> QED
    BY <1>1, <1>2, <2>1, <2>2 DEF MadeInv
<1>6. ServeInv'
  BY <1>0, <1>1, <1>2 DEF ServeInv, Up, Complete, Kinds, OnAWS, Holds, Origin, At, Granted
<1>7. DomainInv'
  BY <1>0, <1>1, <1>2 DEF DomainInv, Answers, OnAWS, At, Busy, Granted, Certified
<1> QED
  BY <1>3, <1>4, <1>5, <1>6, <1>7 DEF SiteInv

(* A success. *)
LEMMA SucceedKeeps ==
  ASSUME TypeInv, SiteInv, SkipUnchanged \/ Invalidate \/ Publish
  PROVE  SiteInv'
<1>0. CopyInv /\ ExistInv /\ MadeInv /\ ServeInv /\ DomainInv
  BY DEF SiteInv
<1>c. cloud \in [Ids -> Resource] /\ RT.site \in 0..MaxMade /\ RT.bucket \in 0..MaxMade
  BY Jobs, Rows, Runtimes DEF TypeInv, TypeOK, Row, RT
<1>1. /\ UNCHANGED <<acm, zone, missed, raced, lost, teardown>>
      /\ page'.rt = page.rt /\ page'.provider = page.provider
      /\ page'.domain = page.domain /\ page'.manage = page.manage
      /\ page'.status = "live" /\ job'.pc = "idle" /\ last' = job.files /\ job.files # None
      /\ job.pc \in {"prepared", "upload", "invalidate"} /\ page.status = "deploying"
      /\ job.pc = "prepared" => last # None
  <2>1. /\ Succeed /\ job.pc \in {"prepared", "upload", "invalidate"}
        /\ job.pc = "prepared" => last = job.files
    BY DEF SkipUnchanged, Unchanged, Invalidate, Publish, At
  <2>2. job.files # None
    BY <2>1, SitesAssumption DEF TypeInv, Supplied, At, Early
  <2>3. UNCHANGED <<acm, zone, missed, raced, lost, teardown>>
    BY DEF SkipUnchanged, Invalidate, Publish, site, history, others
  <2> QED
    BY <1>0, <2>1, <2>2, <2>3, PageMoves, JobMoves DEF Succeed, Ends, CopyInv
<1>2. /\ \A k \in AllKinds : RT[k] = page.rt[k]
      /\ RT.site = page.rt.site /\ RT.bucket = page.rt.bucket
      /\ RT.alias = page.rt.alias /\ Row.provider = page.provider
  BY <1>0, <1>1 DEF CopyInv, Busy, At, AllKinds
<1>3. \A i \in Ids : /\ cloud'[i].kind = cloud[i].kind /\ cloud'[i].on = cloud[i].on
                     /\ cloud'[i].alias = cloud[i].alias /\ cloud'[i].link = cloud[i].link
  BY <1>c DEF SkipUnchanged, Invalidate, Publish, Put, site, Resource
<1>4. page.rt.site # 0 => page.rt.site \in Ids
  BY <1>c, <1>2, SitesAssumption DEF Ids
<1>m. Made' = Made
  BY <1>3 DEF Made
<1>5. CopyInv'
  BY <1>0, <1>1 DEF CopyInv, Busy
<1>6. ExistInv'
  BY <1>0, <1>1, <1>3, <1>m DEF ExistInv, Exists, Busy, Made
<1>7. MadeInv'
  BY <1>0, <1>1, <1>3, <1>m DEF MadeInv, Made, Kinds, OnAWS, At
<1>8. Complete(page) /\ page.rt.site # 0 /\ (OnAWS(page) => page.rt.bucket # 0)
  <2>1. CASE SkipUnchanged
    BY <1>0, <1>1, <2>1, WholeRow DEF SkipUnchanged, Unchanged, ServeInv
  <2>2. CASE Invalidate \/ Publish
    <3>1. Complete(Row)
      BY <1>0, <2>2 DEF Invalidate, Publish, ServeInv, Up, At, Granted
    <3>2. Complete(page)
      BY <1>2, <3>1 DEF Complete, Kinds, OnAWS, RT, Row, AllKinds
    <3> QED
      BY <3>2, WholeRow
  <2> QED
    BY <2>1, <2>2
<1>9. ~torn' => Up(page)' /\ Holds(page, {last})'
  <2>1. CASE SkipUnchanged
    BY <1>0, <1>1, <2>1 DEF SkipUnchanged, Unchanged, ServeInv, Up, Holds, Complete, Kinds, OnAWS, Origin,
      At, site, history
  <2>2. CASE Invalidate
    <3>1. OnAWS(Row) /\ Up(Row) /\ cloud[RT.bucket].files = {job.files}
      BY <1>0, <2>2 DEF Invalidate, ServeInv, At, Granted
    <3>2. RT.site \in Ids /\ RT.bucket \in Ids
      BY <1>c, <1>2, <1>4, <1>8, <3>1, SitesAssumption DEF OnAWS, Ids
    <3>3. /\ \A i \in Ids : cloud'[i].files = cloud[i].files
          /\ ~ cloud'[RT.site].stale
      BY <1>c, <2>2, <3>2 DEF Invalidate, Put, Resource
    <3> QED
      BY <1>1, <1>2, <1>3, <1>8, <3>1, <3>2, <3>3 DEF Up, Complete, Kinds, OnAWS, Holds, Origin, RT, Row
  <2>3. CASE Publish
    <3>1. ~OnAWS(Row) /\ Up(Row) /\ RT.site \in Ids
      BY <1>0, <1>2, <1>4, <1>8, <2>3 DEF Publish, ServeInv, At, Granted
    <3>2. cloud'[RT.site].files = {job.files} /\ cloud'[RT.site].stale = cloud[RT.site].stale
      BY <1>c, <2>3, <3>1 DEF Publish, Put, Resource
    <3>3. ~ cloud[RT.site].stale
      BY <1>0, <1>2, <3>1 DEF ServeInv, OnAWS
    <3> QED
      BY <1>1, <1>2, <1>3, <1>8, <3>1, <3>2, <3>3 DEF Up, Complete, Kinds, OnAWS, Holds, Origin, RT, Row
  <2> QED
    BY <2>1, <2>2, <2>3
<1>s. \A i \in Ids : cloud'[i].stale => cloud[i].stale
  BY <1>c DEF SkipUnchanged, Invalidate, Publish, Put, site, Resource
<1>10. ServeInv'
  BY <1>0, <1>1, <1>8, <1>9, <1>s DEF ServeInv, Complete, Kinds, OnAWS, Granted, At
<1>11. DomainInv'
  <2>1. ~raced /\ page.domain # None => page.rt.alias # 0
    BY <1>0, <1>1, <1>2 DEF DomainInv, Busy, Granted, Row
  <2> QED
    BY <1>0, <1>1, <1>2, <1>3, <1>4, <2>1 DEF DomainInv, Answers, OnAWS, At, Busy, Granted, Certified
<1> QED
  BY <1>5, <1>6, <1>7, <1>10, <1>11 DEF SiteInv

(* The upload writes files and a mark of the cache, which are looked at    *)
(* again when it ends.                                                     *)
LEMMA UploadKeeps ==
  ASSUME TypeInv, SiteInv, Upload \/ Mirror
  PROVE  SiteInv'
<1>0. CopyInv /\ ExistInv /\ MadeInv /\ ServeInv /\ DomainInv
  BY DEF SiteInv
<1>1. /\ UNCHANGED <<page, last, acm, zone, torn, missed, raced, lost, teardown>>
      /\ job'.row = job.row /\ job'.files = job.files
      /\ \/ job.pc = "upload" /\ job'.pc = "mirror" /\ OnAWS(Row)
         \/ job.pc = "mirror" /\ job'.pc = "invalidate"
  BY JobMoves DEF Upload, Mirror, At, history, others
<1>2. Row' = Row /\ RT' = RT
  BY <1>1 DEF Row, RT
<1>3. /\ OnAWS(Row) /\ Up(Row) /\ page.status = "deploying" /\ Row.provider = page.provider
      /\ RT.site \in Ids /\ RT.bucket \in Ids
  <2>1. OnAWS(Row) /\ Up(Row) /\ page.status = "deploying" /\ Row.provider = page.provider
    BY <1>0, <1>1 DEF ServeInv, CopyInv, Busy, Granted
  <2>2. Row.rt.site # 0 /\ Row.rt.bucket # 0
    BY <2>1, WholeRow DEF Up
  <2>3. RT.site \in 0..MaxMade /\ RT.bucket \in 0..MaxMade
    BY Jobs, Rows, Runtimes DEF TypeInv, TypeOK, Row, RT
  <2> QED
    BY <2>1, <2>2, <2>3, SitesAssumption DEF Ids, RT, Row
<1>4. cloud \in [Ids -> Resource]
  BY DEF TypeInv, TypeOK
<1>5. /\ \A i \in Ids : /\ cloud'[i].kind = cloud[i].kind /\ cloud'[i].on = cloud[i].on
                        /\ cloud'[i].alias = cloud[i].alias /\ cloud'[i].link = cloud[i].link
      /\ job'.pc = "invalidate" => cloud'[RT.bucket].files = {job.files}
  <2>1. CASE Upload
    <3> DEFINE added == [cloud EXCEPT ![RT.bucket].files = @ \cup {job.files}]
    <3>1. /\ DOMAIN added = Ids
          /\ \A i \in Ids : /\ added[i].kind = cloud[i].kind /\ added[i].on = cloud[i].on
                            /\ added[i].alias = cloud[i].alias /\ added[i].link = cloud[i].link
                            /\ DOMAIN added[i] = DOMAIN cloud[i]
      BY <1>4 DEF Resource
    <3>2. cloud' = [added EXCEPT ![RT.site].stale = TRUE]
      BY <2>1 DEF Upload
    <3>3. /\ \A i \in Ids : /\ cloud'[i].kind = cloud[i].kind /\ cloud'[i].on = cloud[i].on
                            /\ cloud'[i].alias = cloud[i].alias /\ cloud'[i].link = cloud[i].link
      <4>1. \A i \in Ids : DOMAIN added[i] = {"kind", "account", "on", "files", "stale", "alias", "link"}
        BY <1>4, <3>1 DEF Resource
      <4> HIDE DEF added
      <4> QED
        BY <3>1, <3>2, <4>1
    <3>4. job'.pc = "mirror"
      BY <2>1, JobMoves DEF Upload
    <3> QED
      BY <3>3, <3>4
  <2>2. CASE Mirror
    BY <1>3, <1>4, <2>2 DEF Mirror, Put, Resource
  <2> QED
    BY <2>1, <2>2
<1>m. Made' = Made
  BY <1>5 DEF Made
<1>6. CopyInv'
  BY <1>0, <1>1, <1>2 DEF CopyInv, Busy, At
<1>7. ExistInv'
  BY <1>0, <1>1, <1>2, <1>5, <1>m DEF ExistInv, Exists, Busy, Made
<1>8. MadeInv'
  BY <1>0, <1>1, <1>2, <1>5, <1>m DEF MadeInv, Made, Kinds, OnAWS, At, Remaining, Named
<1>9. ServeInv'
  BY <1>0, <1>1, <1>2, <1>3, <1>5 DEF ServeInv, Up, Complete, Kinds, OnAWS, At, Granted, Row, RT
<1>10. DomainInv'
  <2>1. Exists(page) /\ Exists(Row)
    BY <1>0, <1>1 DEF ExistInv, Busy
  <2>2. /\ page.rt.site # 0 => cloud'[page.rt.site].alias = cloud[page.rt.site].alias
        /\ RT.site # 0 => cloud'[RT.site].alias = cloud[RT.site].alias
    BY <1>5, <2>1 DEF Exists, AllKinds, Made, RT, Row
  <2> QED
    BY <1>0, <1>1, <1>2, <2>2 DEF DomainInv, Answers, OnAWS, At, Busy, Granted, Certified, Row, RT
<1> QED
  BY <1>6, <1>7, <1>8, <1>9, <1>10 DEF SiteInv

(* What attaches the domain to the site and its record to the zone.        *)
LEMMA AliasKeeps ==
  ASSUME TypeInv, SiteInv, SetAlias \/ UpsertRecord
  PROVE  SiteInv'
<1>0. CopyInv /\ ExistInv /\ MadeInv /\ ServeInv /\ DomainInv
  BY DEF SiteInv
<1>c. job \in Job /\ Row \in Page /\ RT \in Runtime /\ cloud \in [Ids -> Resource]
  BY Jobs, Rows DEF TypeInv, TypeOK, Row, RT
<1>1. /\ UNCHANGED <<page, last, acm, torn, missed, raced, lost, teardown>>
      /\ \/ job.pc = "alias" /\ job'.pc = "saveAlias" /\ zone' = zone
         \/ /\ job.pc = "dns" /\ job'.pc = "upload"
            /\ zone' = [zone EXCEPT ![Row.domain] = RT.site]
      /\ job'.row.provider = Row.provider /\ job'.row.domain = Row.domain /\ job'.row.manage = Row.manage
      /\ \A k \in AllKinds : job'.row.rt[k] = RT[k]
      /\ job'.row.rt.cert = RT.cert
      /\ job'.row.rt.alias = (IF At("alias") THEN RT.site ELSE RT.alias)
  <2>1. CASE SetAlias
    <3>1. PICK n : n = RT.site
      OBVIOUS
    <3>2. job' = [job EXCEPT !.pc = "saveAlias", !.row.rt.alias = n]
      BY <2>1, <3>1 DEF SetAlias
    <3>3. /\ job'.pc = "saveAlias" /\ job'.row.provider = Row.provider /\ job'.row.domain = Row.domain
          /\ job'.row.manage = Row.manage /\ job'.row.rt = [RT EXCEPT !.alias = n]
      BY <1>c, <3>2 DEF Job, Page, Row, RT
    <3>4. /\ \A k \in AllKinds : job'.row.rt[k] = RT[k]
          /\ job'.row.rt.cert = RT.cert /\ job'.row.rt.alias = n
      BY <1>c, <3>3 DEF Runtime, AllKinds
    <3> QED
      BY <2>1, <3>1, <3>3, <3>4 DEF SetAlias, At, history, others
  <2>2. CASE UpsertRecord
    <3>1. job'.pc = "upload" /\ job'.row = job.row
      BY <2>2, JobMoves DEF UpsertRecord
    <3> QED
      BY <2>2, <3>1 DEF UpsertRecord, Upsert, At, history, others, Row, RT
  <2> QED
    BY <2>1, <2>2
<1>2. /\ Up(Row) /\ page.status = "deploying" /\ Row.provider = page.provider
      /\ Complete(Row) /\ RT.site # 0 /\ RT.site \in Ids /\ (OnAWS(Row) => RT.bucket \in Ids)
      /\ \A k \in AllKinds : RT[k] = page.rt[k]
      /\ RT.site = page.rt.site /\ RT.bucket = page.rt.bucket /\ RT.oac = page.rt.oac
      /\ job'.row.rt.site = RT.site /\ job'.row.rt.bucket = RT.bucket /\ job'.row.rt.oac = RT.oac
      /\ RT.alias = page.rt.alias
  <2>1. Up(Row) /\ Complete(Row) /\ RT.site # 0
    BY <1>0, <1>1, WholeRow DEF ServeInv, Up, Granted, RT, Row
  <2>2. RT.site \in Ids /\ (OnAWS(Row) => RT.bucket \in Ids)
    <3>1. RT.site \in 0..MaxMade /\ RT.bucket \in 0..MaxMade
      BY <1>c, Runtimes
    <3>2. OnAWS(Row) => RT.bucket # 0
      BY <2>1, WholeRow DEF RT, Row
    <3> QED
      BY <2>1, <3>1, <3>2, SitesAssumption DEF Ids
  <2> QED
    BY <1>0, <1>1, <2>1, <2>2 DEF CopyInv, Busy, At, AllKinds
<1>3. /\ \A i \in Ids : /\ cloud'[i].kind = cloud[i].kind /\ cloud'[i].on = cloud[i].on
                        /\ cloud'[i].files = cloud[i].files /\ cloud'[i].stale = cloud[i].stale
                        /\ cloud'[i].link = cloud[i].link
      /\ \/ cloud' = cloud /\ (OnAWS(Row) \/ At("dns"))
         \/ /\ job.pc = "alias" /\ ~OnAWS(Row) /\ cloud'[RT.site].alias = Row.domain
            /\ \A i \in Ids \ {RT.site} : cloud'[i].alias = cloud[i].alias
  <2>1. CASE cloud' = cloud /\ (OnAWS(Row) \/ At("dns"))
    BY <2>1
  <2>2. CASE SetAlias /\ cloud' = Put(RT.site, "alias", Row.domain) /\ ~OnAWS(Row)
    BY <1>c, <1>2, <2>2 DEF SetAlias, Put, Resource, At
  <2> QED
    BY <2>1, <2>2 DEF SetAlias, UpsertRecord, At
<1>m. Made' = Made
  BY <1>3 DEF Made
<1>4. CopyInv'
  BY <1>0, <1>1, <1>2 DEF CopyInv, Busy, At, Row, RT
<1>5. ExistInv'
  BY <1>0, <1>1, <1>3, <1>m DEF ExistInv, Exists, Busy, Made, Row, RT
<1>6. MadeInv'
  BY <1>0, <1>1, <1>2, <1>3, <1>m DEF MadeInv, Made, Kinds, OnAWS, At
<1>7. ServeInv'
  <2>2. Up(page)' <=> Up(page)
    BY <1>1, <1>2, <1>3 DEF Up, Complete, Kinds, OnAWS, AllKinds, RT, Row
  <2>3. Holds(page, {last})' <=> Holds(page, {last})
    BY <1>1, <1>2, <1>3 DEF Holds, Origin, OnAWS
  <2>4. Up(Row)'
    BY <1>1, <1>2, <1>3 DEF Up, Complete, Kinds, OnAWS, AllKinds, RT, Row
  <2> QED
    BY <1>0, <1>1, <1>2, <1>3, <2>2, <2>3, <2>4 DEF ServeInv, OnAWS, At, Granted
<1>8. DomainInv'
  <2>1. /\ (job.pc \in Certified /\ OnAWS(Row) /\ Row.domain # None => RT.cert # None)'
        /\ (job.pc \in {"alias", "saveAlias", "dns"} => Row.domain # None)'
        /\ (At("dns") => Row.manage)'
        /\ (job.pc \in Granted \ {"alias"} /\ Row.domain # None => RT.alias # 0)'
    BY <1>0, <1>1, <1>2 DEF DomainInv, OnAWS, At, Granted, Certified, Row, RT
  <2>2. ASSUME ~raced
        PROVE  /\ Answers(page)' /\ Answers(Row)'
               /\ Row'.domain = page'.domain /\ Row'.manage = page'.manage
    <3>1. Answers(page) /\ Answers(Row) /\ Row.domain = page.domain /\ Row.manage = page.manage
      BY <1>0, <1>1, <2>2 DEF DomainInv, Busy
    <3>2. /\ Row'.domain = Row.domain /\ Row'.manage = Row.manage /\ Row'.provider = Row.provider
          /\ Row'.rt.site = RT.site /\ Row'.rt.cert = RT.cert
      BY <1>1, <1>2 DEF Row
    <3>3. /\ OnAWS(Row) => cloud' = cloud
          /\ ~OnAWS(Row) => \/ At("dns") /\ cloud' = cloud /\ Row'.rt.alias = RT.alias
                            \/ cloud'[RT.site].alias = Row.domain
      BY <1>1, <1>3 DEF OnAWS, Row, At
    <3>4. Answers(page)'
      BY <1>1, <1>2, <3>1, <3>3 DEF Answers, OnAWS
    <3>5. Answers(Row)'
      BY <1>1, <1>2, <3>1, <3>2, <3>3 DEF Answers, OnAWS, RT, Row
    <3> QED
      BY <1>1, <3>1, <3>2, <3>4, <3>5
  <2>3. ASSUME ~raced, page.domain # None, page.manage, page.rt.alias # 0, ~missed, job'.pc # "dns"
        PROVE  zone'[page.domain] = page.rt.site
    <3>1. CASE At("alias")
      BY <1>0, <1>1, <2>3, <3>1 DEF DomainInv, At
    <3>2. CASE At("dns")
      <4>1. Row.domain = page.domain
        BY <1>0, <1>1, <2>3 DEF DomainInv, Busy
      <4>2. page.domain \in Domains /\ zone \in [Domains -> 0..MaxMade]
        BY <2>3, Rows DEF TypeInv, TypeOK
      <4> QED
        BY <1>1, <1>2, <3>2, <4>1, <4>2 DEF At
    <3> QED
      BY <1>1, <3>1, <3>2 DEF At
  <2> QED
    BY <1>0, <1>1, <2>1, <2>2, <2>3 DEF DomainInv, At
<1> QED
  BY <1>4, <1>5, <1>6, <1>7, <1>8 DEF SiteInv

(* The wait for the site: from here on it is up and may read the bucket.   *)
LEMMA GrantKeeps ==
  ASSUME TypeInv, SiteInv, Grant
  PROVE  SiteInv'
<1>0. CopyInv /\ ExistInv /\ MadeInv /\ ServeInv /\ DomainInv
  BY DEF SiteInv
<1>c. RT \in Runtime /\ cloud \in [Ids -> Resource]
  BY Jobs, Rows DEF TypeInv, TypeOK, Row, RT
<1>1. /\ UNCHANGED <<page, last, acm, zone, torn, missed, raced, lost, teardown>>
      /\ At("provision") /\ Complete(Row) /\ ~Denied(Row)
      /\ job'.pc = (IF Row.domain = None THEN "upload" ELSE "alias")
      /\ job'.row = job.row /\ Row' = Row /\ RT' = RT
      /\ cloud' = IF OnAWS(Row) THEN Put(RT.bucket, "link", RT.site) ELSE cloud
  BY JobMoves DEF Grant, history, others, Row, RT
<1>2. /\ page.status = "deploying" /\ Row.provider = page.provider
      /\ \A k \in AllKinds : RT[k] = page.rt[k]
      /\ RT.site = page.rt.site /\ RT.bucket = page.rt.bucket /\ RT.oac = page.rt.oac
      /\ RT.alias = page.rt.alias
  BY <1>0, <1>1 DEF CopyInv, Busy, At, AllKinds
<1>3. /\ RT.site \in Ids /\ (OnAWS(Row) => RT.bucket \in Ids)
      /\ cloud[RT.site].on
  <2>1. RT.site # 0 /\ (OnAWS(Row) => RT.bucket # 0)
    BY <1>1, WholeRow DEF RT, Row
  <2>2. RT.site \in 0..MaxMade /\ RT.bucket \in 0..MaxMade
    BY <1>c, Runtimes
  <2>3. "site" \in Kinds(Row) /\ Row.rt["site"] = RT.site
    BY DEF Kinds, RT, Row
  <2>4. Reaches(Row, RT.site)
    BY <1>1, <2>1, <2>3 DEF Denied
  <2> QED
    BY <2>1, <2>2, <2>4, SitesAssumption DEF Ids, Reaches
<1>4. /\ \A i \in Ids : /\ cloud'[i].kind = cloud[i].kind /\ cloud'[i].on = cloud[i].on
                        /\ cloud'[i].files = cloud[i].files /\ cloud'[i].stale = cloud[i].stale
                        /\ cloud'[i].alias = cloud[i].alias
                        /\ cloud'[i].link \in {cloud[i].link, RT.site}
      /\ OnAWS(Row) => cloud'[RT.bucket].link = RT.site
  BY <1>c, <1>1, <1>3 DEF Put, Resource
<1>m. Made' = Made
  BY <1>4 DEF Made
<1>5. CopyInv'
  BY <1>0, <1>1, <1>2 DEF CopyInv, Busy, At
<1>6. ExistInv'
  BY <1>0, <1>1, <1>4, <1>m DEF ExistInv, Exists, Busy, Made, At
<1>7. MadeInv'
  BY <1>0, <1>1, <1>2, <1>4, <1>m DEF MadeInv, Made, Kinds, OnAWS, At
<1>8. ServeInv'
  <2>1. Up(Row)' /\ Up(page)'
    BY <1>1, <1>2, <1>3, <1>4 DEF Up, Complete, Kinds, OnAWS, AllKinds, RT, Row
  <2>2. Holds(page, {last})' <=> Holds(page, {last})
    BY <1>1, <1>2, <1>3, <1>4 DEF Holds, Origin, OnAWS
  <2> QED
    BY <1>0, <1>1, <1>2, <1>4, <2>1, <2>2 DEF ServeInv, OnAWS, At, Granted
<1>9. DomainInv'
  <2>1. cloud'[RT.site].alias = cloud[RT.site].alias
    BY <1>3, <1>4
  <2>2. (Answers(page) => Answers(page)') /\ (Answers(Row) => Answers(Row)')
    BY <1>1, <1>2, <2>1 DEF Answers, OnAWS, RT, Row
  <2> QED
    BY <1>0, <1>1, <2>2 DEF DomainInv, OnAWS, At, Busy, Granted, Certified
<1> QED
  BY <1>5, <1>6, <1>7, <1>8, <1>9 DEF SiteInv

(* What the runtime lacks is made, or taken over by its name.              *)
LEMMA ProvisionKeeps ==
  ASSUME TypeInv, SiteInv, NEW kind \in AllKinds, Provision(kind)
  PROVE  SiteInv'
<1>0. CopyInv /\ ExistInv /\ MadeInv /\ ServeInv /\ DomainInv
  BY DEF SiteInv
<1>c. job \in Job /\ Row \in Page /\ RT \in Runtime /\ cloud \in [Ids -> Resource]
  BY Jobs, Rows DEF TypeInv, TypeOK, Row, RT
<1>1. /\ UNCHANGED <<page, last, acm, zone, torn, missed, raced, teardown>>
      /\ At("provision") /\ kind \in Kinds(Row) /\ RT[kind] = 0 /\ Allowed(Row, kind)
  BY DEF Provision, Lacks, others, RT, Row
<1>2. /\ page.status = "deploying" /\ Row.provider = page.provider
      /\ \A k \in AllKinds : RT[k] = page.rt[k]
      /\ RT.alias = page.rt.alias /\ RT.alias \in {0, RT.site}
  BY <1>0, <1>1 DEF CopyInv, Busy, At
<1>3. PICK i \in Ids :
        /\ job' = [job EXCEPT !.pc = "save", !.row.rt[kind] = i]
        /\ lost' \subseteq lost /\ lost \ {i} \subseteq lost'
        /\ \A n \in Ids \ {i} : cloud'[n] = cloud[n]
        /\ cloud'[i].kind = kind
        /\ i \notin Made \/ cloud' = cloud
        /\ cloud'[i].stale => cloud' = cloud
        /\ OnAWS(Row) /\ kind = "site" => cloud'[i].alias = AliasOf(Row)
  <2>1. CASE Create(kind)
    <3>1. /\ New(kind).kind = kind /\ ~New(kind).stale
          /\ OnAWS(Row) /\ kind = "site" => New(kind).alias = AliasOf(Row)
      BY DEF New, Distribution, NewResource, NoResource
    <3>2. NewId \in Ids /\ NewId \notin Made
      BY <2>1, NewIds DEF Create
    <3> QED
      BY <1>c, <2>1, <3>1, <3>2 DEF Create
  <2>2. CASE Adopt /\ ~OnAWS(Row)
    <3>1. kind = "site"
      BY <1>1, <2>2 DEF Kinds
    <3>2. PICK i \in Projects(Row) : job' = [job EXCEPT !.pc = "save", !.row.rt.site = i] /\ lost' = lost \ {i}
      BY <2>2 DEF Adopt
    <3>3. i \in Ids /\ cloud[i].kind = "site" /\ cloud' = cloud
      BY <2>2, <3>2 DEF Adopt, Projects
    <3> QED
      BY <2>2, <3>1, <3>2, <3>3
  <2> QED
    BY <2>1, <2>2 DEF Provision
<1>4. /\ job'.pc = "save" /\ Row'.provider = Row.provider /\ Row'.domain = Row.domain
      /\ Row'.manage = Row.manage /\ Row'.rt = RT' /\ RT'.cert = RT.cert /\ RT'.alias = RT.alias
      /\ \A k \in AllKinds : RT'[k] = IF k = kind THEN i ELSE RT[k]
  <2>1. /\ job'.pc = "save" /\ Row'.provider = Row.provider /\ Row'.domain = Row.domain
        /\ Row'.manage = Row.manage /\ Row'.rt = RT' /\ RT' = [RT EXCEPT ![kind] = i]
    BY <1>c, <1>3 DEF Job, Page, Row, RT
  <2> QED
    BY <1>c, <2>1 DEF Runtime, AllKinds
<1>5. i # 0 /\ Kinds(Row)' = Kinds(Row) /\ Kinds(Row) = Kinds(page) /\ Kinds(page)' = Kinds(page)
  BY <1>1, <1>2, <1>4, SitesAssumption DEF Ids, Kinds, OnAWS
<1>6. Made' = Made \cup {i}
  <2>1. kind # "none"
    BY DEF AllKinds
  <2> QED
    BY <1>3, <2>1 DEF Made
<1>7. \A n \in Made : cloud'[n] = cloud[n]
  BY <1>3 DEF Made
<1>8. Exists(page) /\ Exists(Row)
  BY <1>0, <1>1 DEF ExistInv, Busy, At
<1>9. CopyInv'
  <2>1. \A k \in AllKinds : RT'[k] = page.rt[k] \/ page.rt[k] = 0
    BY <1>1, <1>2, <1>4
  <2>2. RT'.alias \in {0, RT'.site}
    <3>1. CASE kind = "site"
      BY <1>1, <1>2, <1>4, <3>1
    <3>2. CASE kind # "site"
      BY <1>2, <1>4, <3>2 DEF AllKinds
    <3> QED
      BY <3>1, <3>2
  <2> QED
    BY <1>0, <1>1, <1>2, <1>4, <2>1, <2>2 DEF CopyInv, Busy, At
<1>10. ExistInv'
  <2>1. Exists(page)'
    BY <1>1, <1>6, <1>7, <1>8 DEF Exists
  <2>2. Exists(Row)'
    BY <1>3, <1>4, <1>6, <1>7, <1>8 DEF Exists, RT, Row
  <2> QED
    BY <2>1, <2>2 DEF ExistInv
<1>11. MadeInv'
  <2>1. ASSUME NEW n \in (Made \ lost)', cloud'[n].on, n # i
        PROVE  page.status # "gone" /\ n \in {page.rt[k] : k \in Kinds(page)}
    BY <1>0, <1>1, <1>2, <1>3, <1>6, <1>7, <2>1 DEF MadeInv, At
  <2>2. i \in {RT'[k] : k \in Kinds(Row)'}
    BY <1>1, <1>4, <1>5
  <2> QED
    BY <1>1, <1>2, <1>4, <1>5, <2>1, <2>2 DEF MadeInv, At
<1>12. ServeInv'
  <2>1. last = None
    BY <1>0, <1>1, <1>2, <1>5 DEF ServeInv, Complete, AllKinds
  <2>2. \A n \in Ids : cloud'[n].stale => cloud[n].stale
    BY <1>3
  <2> QED
    BY <1>0, <1>1, <1>2, <1>4, <2>1, <2>2 DEF ServeInv, At, Granted, OnAWS
<1>13. DomainInv'
  <2>1. OnAWS(Row) /\ Row.domain # None => RT.cert # None
    BY <1>0, <1>1 DEF DomainInv, At, Certified
  <2>2. Answers(page) => Answers(page)'
    <3>1. page.rt.site # 0 => cloud'[page.rt.site] = cloud[page.rt.site]
      BY <1>7, <1>8 DEF Exists, AllKinds
    <3> QED
      BY <1>1, <3>1 DEF Answers, OnAWS
  <2>3. Answers(Row) => Answers(Row)'
    <3>1. CASE kind = "site"
      <4>1. RT'.site = i /\ RT.alias = 0
        BY <1>1, <1>2, <1>4, <3>1 DEF AllKinds
      <4>2. ASSUME OnAWS(Row), Row.domain # None
            PROVE  cloud'[i].alias = Row.domain /\ RT.cert = <<Row.domain, Row.account>> /\ RT.cert \in acm.issued
        BY <1>1, <1>3, <2>1, <3>1, <4>2 DEF Allowed, AliasOf, CertFits, RT, Row
      <4> QED
        BY <1>1, <1>4, <2>1, <4>1, <4>2 DEF Answers, OnAWS
    <3>2. CASE kind # "site"
      <4>1. RT'.site = RT.site
        BY <1>4, <3>2 DEF AllKinds
      <4>2. RT.site # 0 => cloud'[RT.site] = cloud[RT.site]
        BY <1>7, <1>8 DEF Exists, AllKinds, RT, Row
      <4> QED
        BY <1>1, <1>4, <4>1, <4>2 DEF Answers, OnAWS, RT, Row
    <3> QED
      BY <3>1, <3>2
  <2> QED
    BY <1>0, <1>1, <1>4, <2>1, <2>2, <2>3 DEF DomainInv, OnAWS, At, Busy, Granted, Certified
<1> QED
  BY <1>9, <1>10, <1>11, <1>12, <1>13 DEF SiteInv

(* What the users and the cloud do beside the deployment. *)
LEMMA QuietKeeps ==
  ASSUME TypeInv, SiteInv,
         \/ \E d \in Domains \cup {None}, m \in BOOLEAN, a \in Accounts : EditRead(d, m, a)
         \/ Validation \/ (\E c \in Commits : Push(c)) \/ UNCHANGED vars
  PROVE  SiteInv'
<1>0. CopyInv /\ ExistInv /\ MadeInv /\ ServeInv /\ DomainInv
  BY DEF SiteInv
<1>1. /\ UNCHANGED <<page, job, last, cloud, zone, torn, missed, raced, lost, teardown>>
      /\ acm.issued \subseteq acm'.issued
  <2>1. CASE Validation
    <3>1. PICK c \in Certs : UserValidates(c) \/ Issue(c)
      BY <2>1 DEF Validation
    <3> QED
      BY <3>1 DEF UserValidates, Issue, history, others, TypeInv, TypeOK
  <2>2. CASE ~Validation
    BY <2>2 DEF EditRead, Push, site, history, others, vars
  <2> QED
    BY <2>1, <2>2
<1>2. Row' = Row /\ RT' = RT
  BY <1>1 DEF Row, RT
<1>3. CopyInv'
  BY <1>0, <1>1, <1>2 DEF CopyInv, Busy, At
<1>4. ExistInv'
  BY <1>0, <1>1, <1>2 DEF ExistInv, Exists, Busy, Made
<1>5. MadeInv'
  BY <1>0, <1>1, <1>2 DEF MadeInv, Made, Kinds, OnAWS, At, Remaining, Named
<1>6. ServeInv'
  BY <1>0, <1>1, <1>2 DEF ServeInv, Up, Complete, Kinds, OnAWS, Holds, Origin, At, Granted
<1>7. DomainInv'
  BY <1>0, <1>1, <1>2 DEF DomainInv, Answers, OnAWS, At, Busy, Granted, Certified
<1> QED
  BY <1>3, <1>4, <1>5, <1>6, <1>7 DEF SiteInv

(* The settings: a domain that changes before there is a site is that of   *)
(* the site to come.                                                       *)
LEMMA EditWriteKeeps ==
  ASSUME TypeInv, SiteInv, EditWrite
  PROVE  SiteInv'
<1>0. CopyInv /\ ExistInv /\ MadeInv /\ ServeInv /\ DomainInv
  BY DEF SiteInv
<1>1. /\ UNCHANGED <<job, last, cloud, acm, zone, torn, missed, lost, teardown>>
      /\ page'.status = page.status /\ page'.provider = page.provider /\ page'.rt = page.rt
      /\ Row' = Row /\ RT' = RT
  BY DEF EditWrite, Change, site, TypeInv, TypeOK, Page, Row, RT
<1>2. CopyInv'
  BY <1>0, <1>1 DEF CopyInv, Busy, At
<1>3. ExistInv'
  BY <1>0, <1>1 DEF ExistInv, Exists, Busy, Made
<1>4. MadeInv'
  BY <1>0, <1>1 DEF MadeInv, Made, Kinds, OnAWS, At, Remaining, Named
<1>5. ServeInv'
  BY <1>0, <1>1 DEF ServeInv, Up, Complete, Kinds, OnAWS, Holds, Origin, At, Granted
<1>6. DomainInv'
  <2>1. ASSUME ~raced'
        PROVE  /\ ~raced
               /\ \/ page'.domain = page.domain /\ page'.manage = page.manage
                  \/ page.status \notin {"deploying", "gone"} /\ page.rt.site = 0
    <3>1. \/ edit.row.domain = page.domain /\ edit.row.manage = page.manage
          \/ <<edit.row.domain, edit.row.manage>> # <<page.domain, page.manage>>
      OBVIOUS
    <3>2. /\ page' = page \/ page' = Change(page, edit.row.domain, edit.row.manage, edit.row.account)
          /\ page' # page /\ <<edit.row.domain, edit.row.manage>> # <<page.domain, page.manage>> =>
               page.status \notin {"deploying", "gone"} /\ page.rt.site = 0
          /\ ~raced
      BY <2>1 DEF EditWrite, DomainLocked
    <3>3. LET c == Change(page, edit.row.domain, edit.row.manage, edit.row.account)
          IN  c.domain = edit.row.domain /\ c.manage = edit.row.manage
      BY DEF Change, TypeInv, TypeOK, Page
    <3> QED
      BY <3>1, <3>2, <3>3
  <2>2. ASSUME ~raced', page.status \notin {"deploying", "gone"}, page.rt.site = 0
        PROVE  job.pc = "idle" /\ last = None /\ page.rt.alias = 0
    <3>1. ~Complete(page)
      BY <2>2, WholeRow
    <3> QED
      BY <1>0, <2>2, <3>1 DEF CopyInv, ServeInv
  <2>3. ASSUME ~raced', page'.domain = page.domain, page'.manage = page.manage
        PROVE  DomainInv'
    BY <1>0, <1>1, <2>1, <2>3 DEF DomainInv, Answers, OnAWS, At, Busy, Granted, Certified
  <2>4. ASSUME ~raced', page.status \notin {"deploying", "gone"}, page.rt.site = 0
        PROVE  DomainInv'
    BY <1>0, <1>1, <2>2, <2>4 DEF DomainInv, Answers, OnAWS, At, Busy, Granted, Certified
  <2>5. ASSUME raced'
        PROVE  DomainInv'
    BY <1>0, <1>1, <2>5 DEF DomainInv, OnAWS, At, Granted, Certified
  <2> QED
    BY <2>1, <2>3, <2>4, <2>5
<1> QED
  BY <1>2, <1>3, <1>4, <1>5, <1>6 DEF SiteInv

LEMMA RemainingIs ==
  /\ Remaining = IF teardown = "bucket" THEN Named("bucket") \cup Named("site")
                 ELSE IF teardown = "site" THEN Named("site") ELSE {}
  /\ Named("bucket") = {page.rt.bucket} \ {0} /\ Named("site") = {page.rt.site} \ {0}
BY DEF Remaining, Named

(* The deletion takes down all that the row names, save the access control *)
(* of a distribution.                                                      *)
LEMMA DeleteKeeps ==
  ASSUME TypeInv, SiteInv, Delete
  PROVE  SiteInv'
<1>0. CopyInv /\ ExistInv /\ MadeInv /\ ServeInv /\ DomainInv
  BY DEF SiteInv
<1>1. /\ UNCHANGED <<job, last, cloud, acm, zone, torn, missed, raced, lost>>
      /\ page'.rt = page.rt /\ page'.provider = page.provider
      /\ page'.domain = page.domain /\ page'.manage = page.manage
      /\ page.status # "gone" /\ page'.status = "gone" /\ job.pc = "idle"
      /\ teardown' = (IF Provisioned(page) THEN "bucket" ELSE "done")
      /\ Row' = Row /\ RT' = RT
  BY <1>0, PageMoves DEF Delete, CopyInv, site, history, Row, RT
<1>2. CopyInv'
  BY <1>0, <1>1 DEF CopyInv, Busy
<1>3. ExistInv'
  BY <1>0, <1>1 DEF ExistInv, Exists, Busy, Made
<1>4. MadeInv'
  <2>1. Made' = Made /\ Exists(page)
    BY <1>0, <1>1 DEF Made, ExistInv
  <2>2. ASSUME NEW i \in Made \ lost, cloud[i].on, cloud[i].kind # "oac"
        PROVE  i \in Remaining'
    <3>1. i \in {page.rt[k] : k \in Kinds(page)}
      BY <1>0, <1>1, <2>2 DEF MadeInv, At
    <3>2. i # 0
      BY <2>2, SitesAssumption DEF Made, Ids
    <3>3. i # page.rt.oac
      BY <2>1, <2>2, <3>2 DEF Exists, AllKinds
    <3>4. i = page.rt.site \/ (OnAWS(page) /\ i = page.rt.bucket)
      BY <3>1, <3>3 DEF Kinds
    <3>5. teardown' = "bucket"
      BY <1>1, <3>2, <3>4 DEF Provisioned
    <3> QED
      BY <1>1, <3>2, <3>4, <3>5 DEF Remaining, Named
  <2> QED
    BY <1>1, <2>1, <2>2 DEF MadeInv
<1>5. ServeInv'
  BY <1>0, <1>1 DEF ServeInv, OnAWS, At, Granted
<1>6. DomainInv'
  BY <1>0, <1>1 DEF DomainInv, Answers, OnAWS, At, Busy, Granted, Certified
<1> QED
  BY <1>2, <1>3, <1>4, <1>5, <1>6 DEF SiteInv

LEMMA TeardownKeeps ==
  ASSUME TypeInv, SiteInv, Teardown \/ TeardownFails
  PROVE  SiteInv'
<1>0. CopyInv /\ ExistInv /\ MadeInv /\ ServeInv /\ DomainInv
  BY DEF SiteInv
<1>1. /\ UNCHANGED <<page, job, last, acm, zone, torn, missed, raced>>
      /\ teardown \in {"bucket", "site"} /\ teardown' \in {After(teardown), "done"}
      /\ Row' = Row /\ RT' = RT
      /\ lost \subseteq lost'
  BY DEF Teardown, TeardownFails, site, Row, RT
<1>2. /\ \A i \in Ids : /\ cloud'[i].kind = cloud[i].kind /\ cloud'[i].stale = cloud[i].stale
                        /\ cloud'[i].alias = cloud[i].alias /\ (cloud'[i].on => cloud[i].on)
  BY DEF Teardown, TeardownFails, Without, site, TypeInv, TypeOK, Resource
<1>3. page.status = "gone" /\ job.pc = "idle"
  BY <1>0, <1>1 DEF CopyInv
<1>m. Made' = Made
  BY <1>2 DEF Made
<1>4. CopyInv'
  BY <1>0, <1>1, <1>3 DEF CopyInv, Busy
<1>5. ExistInv'
  BY <1>0, <1>1, <1>2, <1>3, <1>m DEF ExistInv, Exists, Busy, Made
<1>6. MadeInv'
  <2>1. ASSUME NEW i \in Made \ lost', cloud'[i].on, cloud[i].kind # "oac"
        PROVE  i \in Remaining'
    <3>1. i \in Remaining
      BY <1>0, <1>1, <1>2, <1>3, <2>1 DEF MadeInv, Made
    <3>2. \/ i \notin Named(teardown) /\ teardown' = After(teardown)
          \/ i \notin Remaining
      <4>1. CASE Teardown
        BY <2>1, <4>1 DEF Teardown, Without, Made, TypeInv, TypeOK, Resource
      <4>2. CASE TeardownFails
        BY <2>1, <4>2 DEF TeardownFails
      <4> QED
        BY <4>1, <4>2
    <3>3. /\ Remaining' = IF teardown' = "bucket" THEN Named("bucket") \cup Named("site")
                          ELSE IF teardown' = "site" THEN Named("site") ELSE {}
      BY <1>1 DEF Remaining, Named
    <3> QED
      BY <1>1, <3>1, <3>2, <3>3, RemainingIs DEF After
  <2> QED
    BY <1>1, <1>2, <1>3, <1>m, <2>1 DEF MadeInv, Made
<1>7. ServeInv'
  BY <1>0, <1>1, <1>2, <1>3 DEF ServeInv, OnAWS, At, Granted
<1>8. DomainInv'
  <2>1. page.rt.site # 0 => cloud'[page.rt.site].alias = cloud[page.rt.site].alias
    BY <1>0, <1>2 DEF ExistInv, Exists, AllKinds, Made
  <2> QED
    BY <1>0, <1>1, <1>3, <2>1 DEF DomainInv, Answers, OnAWS, At, Busy, Granted, Certified
<1> QED
  BY <1>4, <1>5, <1>6, <1>7, <1>8 DEF SiteInv

-----------------------------------------------------------------------------
(* Theorems *)

LEMMA SiteInit == Init => SiteInv
<1> SUFFICES ASSUME Init PROVE SiteInv
  OBVIOUS
<1>1. /\ page.rt = NoRuntime /\ page.status = "idle" /\ job.pc = "idle" /\ teardown = "none"
      /\ last = None /\ Made = {}
      /\ \A i \in Ids : ~cloud[i].stale
  BY DEF Init, FreshRow, NoJob, Made, NoResource
<1>2. CopyInv /\ ExistInv /\ MadeInv
  BY <1>1 DEF CopyInv, ExistInv, MadeInv, Exists, Busy, NoRuntime, AllKinds
<1>3. ServeInv /\ DomainInv
  BY <1>1 DEF ServeInv, DomainInv, Answers, Busy, At, Granted, Certified, NoRuntime
<1> QED
  BY <1>2, <1>3 DEF SiteInv

LEMMA SiteStep == TypeInv /\ SiteInv /\ [Next]_vars => SiteInv'
<1> SUFFICES ASSUME TypeInv, SiteInv, [Next]_vars PROVE SiteInv'
  OBVIOUS
<1>1. CASE DeployNext
  <2>1. CASE CertificateNext
    BY <2>1, WalkKeeps, StoreKeeps, RequestCertificateKeeps, StopKeeps DEF CertificateNext
  <2>2. CASE \E kind \in AllKinds : Provision(kind)
    BY <2>2, ProvisionKeeps
  <2> QED
    BY <1>1, <2>1, <2>2, StartKeeps, WalkKeeps, StoreKeeps, StopKeeps, SucceedKeeps, GrantKeeps,
      AliasKeeps, UploadKeeps DEF DeployNext, AllKinds
<1>2. CASE Trigger \/ StepFails \/ Crash
  BY <1>2, StartKeeps, StopKeeps
<1>3. CASE EditWrite \/ Delete \/ Teardown \/ TeardownFails
  BY <1>3, EditWriteKeeps, DeleteKeeps, TeardownKeeps
<1> QED
  BY <1>1, <1>2, <1>3, QuietKeeps DEF Next

LEMMA SiteHolds == Spec => [](TypeInv /\ SiteInv)
<1>1. Init => TypeInv /\ SiteInv
  BY InitType, SiteInit
<1>2. TypeInv /\ SiteInv /\ [Next]_vars => (TypeInv /\ SiteInv)'
  BY TypeStep, SiteStep
<1> QED
  BY <1>1, <1>2, PTL DEF Spec

(* A live page serves the commit of its latest success and nothing else,   *)
(* from a site that is up, unless an upload was interrupted since.         *)
THEOREM ServedCommit == Spec => []SuccessIsServed
<1>1. SiteInv => SuccessIsServed
  BY DEF SiteInv, CopyInv, ServeInv, SuccessIsServed, Up, Holds
<1> QED
  BY <1>1, SiteHolds, PTL

(* A live page answers at its domain: alias, issued certificate and record *)
(* are those of its own site, unless the domain was changed under a        *)
(* deployment or after one.                                                *)
THEOREM DomainAnswers == Spec => []LiveDomainWorks
<1>1. SiteInv => LiveDomainWorks
  <2> SUFFICES ASSUME SiteInv, page.status = "live", page.domain # None, ~raced
               PROVE  /\ cloud[page.rt.site].alias = page.domain
                      /\ OnAWS(page) => page.rt.cert[1] = page.domain /\ page.rt.cert \in acm.issued
                      /\ page.manage /\ ~missed => zone[page.domain] = page.rt.site
    BY DEF LiveDomainWorks
  <2>1. job.pc = "idle" /\ last # None /\ page.rt.site # 0
    BY WholeRow DEF SiteInv, CopyInv, ServeInv
  <2>2. Answers(page) /\ page.rt.alias # 0
    BY <2>1 DEF SiteInv, DomainInv
  <2> QED
    BY <2>1, <2>2 DEF SiteInv, DomainInv, Answers, At
<1> QED
  BY <1>1, SiteHolds, PTL

(* Every resource that exists is named by the row, by the deployment that  *)
(* is about to store it or by the teardown, unless a call on it failed or  *)
(* was cut short; only access controls outlive their page.                 *)
THEOREM NothingIsForgotten == Spec => []NothingForgotten
<1>1. SiteInv => NothingForgotten
  BY DEF SiteInv, MadeInv, NothingForgotten, Recorded, At
<1> QED
  BY <1>1, SiteHolds, PTL
=============================================================================
