------------------------------ MODULE BuildJobs ------------------------------
(***************************************************************************)
(* The builds of an application's images: Build, CancelBuild and           *)
(* EnsureRegistry of internal/orchestrator/k3s (build.go, registry.go),    *)
(* and the Jobs and pods they make.  Two deployments of one application    *)
(* may build at a time (DeployPipeline).                                   *)
(*                                                                         *)
(* An image is tagged with the commit that the caller names, or with the   *)
(* second; the Job has the tag in its name, cut to 63 characters.  Its pod *)
(* clones the branch, whatever the commit is.                              *)
(***************************************************************************)
EXTENDS Naturals, FiniteSets

CONSTANTS
  Builds,     \* calls of Build for one application
  None,       \* nobody
  Seconds,    \* seconds in which calls begin
  MaxPushes   \* bound of the model: commits pushed to the branch

VARIABLES
  head,   \* the last commit of the branch
  long,   \* the name of the application leaves no room for a tag
  reg,    \* what there is of the registry
  call,   \* the calls
  job,    \* the Job of each name: the call that has made it
  pod,    \* the pod of each call's Job
  image,  \* the commit in the image of each tag
  fresh,  \* calls since whose beginning the image of their tag was pushed
  broken  \* a call broke off between the registry's Deployment and its Service

vars == <<head, long, reg, call, job, pod, image, fresh, broken>>

-----------------------------------------------------------------------------
(* State *)

Commits == 1..MaxPushes + 1
Tags == ({"commit"} \X Commits) \cup ({"second"} \X Seconds)
Cut == <<"cut", 0>>
Names == Tags \cup {Cut}

Pod == [phase : {"none", "waits", "clones", "pushed", "complete", "failed"}, got : Commits,
        doomed : BOOLEAN]
Call == [pc : {"free", "look", "volume", "deployment", "service", "old", "create", "watch", "wait",
               "over"},
         tag : Tags, seen : {None, "complete", "failed"}, res : {None, "ok", "failed"}]
NoCall == [pc |-> "free", tag |-> <<"commit", 1>>, seen |-> None, res |-> None]
NoPod == [phase |-> "none", got |-> 1, doomed |-> FALSE]

NoRegistry == [vol |-> FALSE, dep |-> FALSE, svc |-> "none"]
Older == [vol |-> TRUE, dep |-> TRUE, svc |-> "internal"]   \* of a release before the node port
Whole == [vol |-> TRUE, dep |-> TRUE, svc |-> "node"]

TypeOK ==
  /\ head \in Commits /\ long \in BOOLEAN /\ broken \in BOOLEAN
  /\ reg \in [vol : BOOLEAN, dep : BOOLEAN, svc : {"none", "internal", "node"}]
  /\ call \in [Builds -> Call] /\ pod \in [Builds -> Pod]
  /\ job \in [Names -> Builds \cup {None}]
  /\ image \in [Tags -> 0..MaxPushes + 1]
  /\ fresh \subseteq Builds

Init ==
  /\ head = 1 /\ long \in BOOLEAN
  /\ reg \in {NoRegistry, Older, Whole} /\ broken = (reg = Older)
  /\ call = [b \in Builds |-> NoCall] /\ pod = [b \in Builds |-> NoPod]
  /\ job = [n \in Names |-> None] /\ image = [t \in Tags |-> 0]
  /\ fresh = {}

-----------------------------------------------------------------------------
(* A call *)

At(b, pc) == call[b].pc = pc
Goto(b, pc) == call' = [call EXCEPT ![b].pc = pc]
Fail(b) == call' = [call EXCEPT ![b].pc = "over", ![b].res = "failed"]
Untagged(t) == <<"commit", 1>>   \* mutant: the name does not tell the builds apart
Tagged(t) == t
JobName(b) == IF long THEN Cut ELSE Tagged(call[b].tag)
cluster == <<job, pod, image>>

Begin(b) ==
  /\ At(b, "free")
  /\ \E t \in ({"commit"} \X (1..head)) \cup ({"second"} \X Seconds) :
       call' = [call EXCEPT ![b].pc = "look", ![b].tag = t]
  /\ fresh' = fresh \ {b} /\ UNCHANGED <<head, long, reg, broken, cluster>>

(* EnsureRegistry: with the Deployment there, nothing else is looked at.   *)
Volume(b) == reg.vol         \* mutant: with the volume there
Installed(b) == reg.dep
Look(b) ==
  /\ At(b, "look")
  /\ Goto(b, IF Installed(b) THEN "old" ELSE "volume")
  /\ UNCHANGED <<head, long, reg, fresh, broken, cluster>>
MakeVolume(b) ==
  /\ At(b, "volume") /\ Goto(b, "deployment")
  /\ reg' = [reg EXCEPT !.vol = TRUE]
  /\ UNCHANGED <<head, long, fresh, broken, cluster>>
MakeDeployment(b) ==   \* which fails if another call has made it
  /\ At(b, "deployment")
  /\ IF reg.dep THEN Fail(b) ELSE Goto(b, "service")
  /\ reg' = [reg EXCEPT !.dep = TRUE]
  /\ UNCHANGED <<head, long, fresh, broken, cluster>>
MakeService(b) ==    \* or makes a node port of one that has none
  /\ At(b, "service") /\ Goto(b, "old")
  /\ reg' = [reg EXCEPT !.svc = "node"]
  /\ UNCHANGED <<head, long, fresh, broken, cluster>>

(* A Job that is deleted is gone at once, its pod some time later.         *)
Without(names) ==
  /\ job' = [n \in Names |-> IF n \in names THEN None ELSE job[n]]
  /\ pod' = [b \in Builds |-> IF \E n \in names : job[n] = b THEN [pod[b] EXCEPT !.doomed = TRUE]
                              ELSE pod[b]]
DeleteOld(b) ==
  /\ At(b, "old") /\ Goto(b, "create")
  /\ Without({JobName(b)}) \/ UNCHANGED <<job, pod>>   \* a failure is passed over
  /\ UNCHANGED <<head, long, reg, image, fresh, broken>>
CreateJob(b) ==
  /\ At(b, "create")
  /\ IF job[JobName(b)] = None
     THEN /\ job' = [job EXCEPT ![JobName(b)] = b]
          /\ pod' = [pod EXCEPT ![b].phase = "waits"]
          /\ Goto(b, "watch")
     ELSE Fail(b) /\ UNCHANGED <<job, pod>>
  /\ UNCHANGED <<head, long, reg, image, fresh, broken>>

(* waitForBuildJob watches whatever has the name, and pays no attention to *)
(* deletions.                                                              *)
Outcome(n) == IF job[n] # None /\ pod[job[n]].phase \in {"complete", "failed"}
              THEN pod[job[n]].phase ELSE None
Watch(b) ==
  /\ At(b, "watch")
  /\ call' = [call EXCEPT ![b].pc = "wait", ![b].seen = Outcome(JobName(b))]
  /\ UNCHANGED <<head, long, reg, fresh, broken, cluster>>
Finish(b) ==
  /\ At(b, "wait") /\ call[b].seen # None
  /\ call' = [call EXCEPT ![b].pc = "over",
                ![b].res = IF call[b].seen = "complete" THEN "ok" ELSE "failed"]
  /\ UNCHANGED <<head, long, reg, fresh, broken, cluster>>

(* A request fails, the watch closes, half an hour is over, the context    *)
(* ends, or the worker crashes: what the call has made stays.              *)
Break(b) ==
  /\ ~ At(b, "free") /\ ~ At(b, "over")
  /\ Fail(b)
  /\ broken' = (broken \/ At(b, "service"))
  /\ UNCHANGED <<head, long, reg, fresh, cluster>>

(* CancelBuild, of whichever deployment, deletes the Jobs of all, or those *)
(* that it can.                                                            *)
CancelBuild ==
  /\ \E names \in SUBSET {n \in Names : job[n] # None} : names # {} /\ Without(names)
  /\ UNCHANGED <<head, long, reg, call, image, fresh, broken>>

-----------------------------------------------------------------------------
(* The Jobs *)

Clone(b) ==
  /\ pod[b].phase = "waits"
  /\ pod' = [pod EXCEPT ![b].phase = "clones", ![b].got = head]
  /\ UNCHANGED <<head, long, reg, call, job, image, fresh, broken>>

(* Kaniko reaches the registry through its Service.                        *)
PushImage(b) ==
  LET t == call[b].tag IN
  /\ pod[b].phase = "clones" /\ reg.dep /\ reg.svc # "none"
  /\ image' = [image EXCEPT ![t] = pod[b].got]
  /\ pod' = [pod EXCEPT ![b].phase = "pushed"]
  /\ fresh' = fresh \cup {c \in Builds : ~ At(c, "free") /\ ~ At(c, "over") /\ call[c].tag = t}
  /\ UNCHANGED <<head, long, reg, call, job, broken>>

(* The end of a pod is that of its Job, and everybody who watches the name *)
(* is told.                                                                *)
Settle(b) ==
  /\ \E end \in {"complete", "failed"} :
       /\ pod[b].phase = "pushed" \/ (pod[b].phase \in {"waits", "clones"} /\ end = "failed")
       /\ pod' = [pod EXCEPT ![b].phase = end]
       /\ call' = [c \in Builds |->
                     IF At(c, "wait") /\ call[c].seen = None /\ job[JobName(c)] = b
                     THEN [call[c] EXCEPT !.seen = end] ELSE call[c]]
  /\ UNCHANGED <<head, long, reg, job, image, fresh, broken>>
Reap(b) ==
  /\ pod[b].doomed /\ pod[b].phase \in {"waits", "clones", "pushed"}
  /\ pod' = [pod EXCEPT ![b].phase = "failed"]
  /\ UNCHANGED <<head, long, reg, call, job, image, fresh, broken>>

(* A Job that has ended is removed after an hour.                          *)
Expire ==
  /\ \E n \in Names : Outcome(n) # None /\ Without({n})
  /\ UNCHANGED <<head, long, reg, call, image, fresh, broken>>

Push ==
  /\ head \in 1..MaxPushes
  /\ head' = head + 1 /\ UNCHANGED <<long, reg, call, fresh, broken, cluster>>

Next ==
  \/ \E b \in Builds :
       \/ Begin(b) \/ Look(b) \/ MakeVolume(b) \/ MakeDeployment(b) \/ MakeService(b)
       \/ DeleteOld(b) \/ CreateJob(b) \/ Watch(b) \/ Finish(b) \/ Break(b)
       \/ Clone(b) \/ PushImage(b) \/ Settle(b) \/ Reap(b)
  \/ CancelBuild \/ Expire \/ Push

Spec == Init /\ [][Next]_vars

-----------------------------------------------------------------------------
(* Properties *)

(* A build that succeeds has an image of its tag that was pushed since it  *)
(* began, and the image of a commit is of this commit or a later one, also *)
(* when another build of the tag has deleted its Job or when the pods of   *)
(* both push.  Where the name of the application leaves no room for tags,  *)
(* a build may take the end of another one's Job for its own.              *)
SuccessHasImage ==
  \A b \in Builds :
    call[b].res = "ok" /\ ~ long =>
      /\ b \in fresh
      /\ call[b].tag[1] = "commit" => image[call[b].tag] >= call[b].tag[2]

(* A call gets past EnsureRegistry only with a registry that answers at    *)
(* the nodes' port, unless a call broke off when it was about to make the  *)
(* Service, or is about to; no later call repairs it.                      *)
RegistryIsWhole ==
  \A b \in Builds :
    call[b].pc \in {"old", "create", "watch", "wait"} =>
      \/ reg = Whole
      \/ reg.vol /\ reg.dep /\ (broken \/ \E c \in Builds : At(c, "service"))
=============================================================================
