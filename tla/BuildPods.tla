------------------------------ MODULE BuildPods ------------------------------
(***************************************************************************)
(* The pods that build a page, or build and deploy a Cloudflare worker: a  *)
(* call makes Secrets and a pod, waits for a file that marks the end of    *)
(* the pod's script, reads what the script left and cleans up (BuildStatic *)
(* of internal/orchestrator/k3s/page_build.go and runWorkerPod of          *)
(* worker_build.go; PageDeploys and WorkerDeploys take a call as a few     *)
(* steps).                                                                 *)
(*                                                                         *)
(* The names of the pod and of the Secrets have the second of the call in  *)
(* them, so that two calls for one page or worker, one after a deposed     *)
(* job for example, share them when they begin in the same second.         *)
(***************************************************************************)
EXTENDS Naturals, Sequences, FiniteSets

CONSTANTS
  Calls,      \* calls for one page or worker
  None,       \* nobody
  Seconds,    \* seconds in which calls begin
  MaxFaults   \* bound of the model: calls of the cluster that fail, pods lost, crashes

VARIABLES
  call,    \* the calls
  pod,     \* the pods, by the second in their name
  secret,  \* the Secrets, by that second and what is in them
  left,    \* what the bound leaves
  did,     \* what the pod of each call has done
  misread, \* calls that could not ask the pod, or asked another call's
  leaked   \* calls that could not clean up

vars == <<call, pod, secret, left, did, misread, leaked>>

-----------------------------------------------------------------------------
(* State *)

Kinds == {"page", "deploy", "delete"}
Parts == {"git", "cf"}
Files == {"output", "pending", "commit", "confirm", "done"}
PC == {"free", "drop git", "git", "drop cf", "cf", "drop pod", "pod", "wait", "ask", "read",
       "clean pod", "clean cf", "clean git", "over"}
Call == [pc : PC, kind : Kinds, at : Seconds, token : BOOLEAN, live : BOOLEAN,
         res : {None, "ok", "confirm", "failed"}]
NoCall == [pc |-> "free", kind |-> "page", at |-> CHOOSE s \in Seconds : TRUE, token |-> FALSE,
           live |-> TRUE, res |-> None]
Pod == [by : Calls, phase : {"pending", "cloned", "runs", "failed", "exited"},
        files : SUBSET Files, doomed : BOOLEAN]

(* What a script writes, the marker of its end last: the output, or that   *)
(* of wrangler, or the buckets that wait for a confirmation.               *)
MarksFirst(paused) ==   \* mutant: the marker before the confirmation
  IF paused THEN <<"pending", "commit", "done", "confirm">> ELSE <<"output", "commit", "done">>
Script(paused) ==
  IF paused THEN <<"pending", "commit", "confirm", "done">> ELSE <<"output", "commit", "done">>

(* The file that is next, given those that are there.                      *)
Due(p) ==
  LET s == Script("pending" \in p.files)
  IN {s[i] : i \in {k \in DOMAIN s : s[k] \notin p.files /\ \A j \in 1..k - 1 : s[j] \in p.files}}

TypeOK ==
  /\ call \in [Calls -> Call]
  /\ pod \in [Seconds -> {None} \cup Pod]
  /\ secret \in [Seconds \X Parts -> Calls \cup {None}]
  /\ left \in 0..MaxFaults
  /\ did \in [Calls -> SUBSET {"built", "deployed", "deleted", "paused"}]
  /\ misread \subseteq Calls /\ leaked \subseteq Calls

Init ==
  /\ call = [c \in Calls |-> NoCall]
  /\ pod = [s \in Seconds |-> None]
  /\ secret = [n \in Seconds \X Parts |-> None]
  /\ left = MaxFaults
  /\ did = [c \in Calls |-> {}] /\ misread = {} /\ leaked = {}

-----------------------------------------------------------------------------
(* A call *)

At(c, pc) == call[c].pc = pc
Goto(c, pc) == call' = [call EXCEPT ![c].pc = pc]
Under(c) == call[c].at
Fails == left > 0 /\ left' = left - 1
Works(c) == call[c].live /\ UNCHANGED left
history == <<did, misread, leaked>>

(* The page's Secret and pod, or the worker's two Secrets and pod, in this *)
(* order; a public repository needs no token.                              *)
After(c, pc) ==
  CASE pc = "git" -> IF call[c].kind = "page" THEN "drop pod" ELSE "drop cf"
    [] pc = "cf" -> "drop pod"
(* The deferred deletions of what the call has made, the last one first.   *)
Undo(c, pc) ==
  CASE pc \in {"pod", "clean pod"} -> IF call[c].kind # "page" THEN "clean cf"
                                      ELSE IF call[c].token THEN "clean git" ELSE "over"
    [] pc \in {"cf", "clean cf"} -> IF call[c].token THEN "clean git" ELSE "over"
    [] pc \in {"git", "clean git"} -> "over"
Over(c, res) == [call[c] EXCEPT !.pc = "over", !.live = TRUE, !.res = res]
Leave(c, pc) ==
  call' = [call EXCEPT ![c] = IF Undo(c, pc) = "over" THEN Over(c, @.res)
                              ELSE [@ EXCEPT !.pc = Undo(c, pc)]]
Give(c, pc) ==
  call' = [call EXCEPT ![c] = IF Undo(c, pc) = "over" THEN Over(c, "failed")
                              ELSE [@ EXCEPT !.pc = Undo(c, pc), !.res = "failed"]]

Begin(c) ==
  /\ At(c, "free")
  /\ \E k \in Kinds, s \in Seconds, t \in BOOLEAN :
       /\ \A d \in Calls : At(d, "free") \/ (call[d].kind = "page" <=> k = "page")
       /\ call' = [call EXCEPT ![c].kind = k, ![c].at = s, ![c].token = t,
                     ![c].pc = IF t THEN "drop git" ELSE IF k = "page" THEN "drop pod"
                               ELSE "drop cf"]
  /\ UNCHANGED <<pod, secret, left, history>>

(* createGitSecret and createWorkerSecret: what has the name goes, then    *)
(* the Secret is created, which fails if another has it by then.           *)
DropSecret(c, part) ==
  LET n == <<Under(c), part>> IN
  /\ At(c, IF part = "git" THEN "drop git" ELSE "drop cf")
  /\ Goto(c, part)
  /\ \/ Works(c) /\ secret' = [secret EXCEPT ![n] = None]
     \/ (Fails \/ (~ call[c].live /\ UNCHANGED left)) /\ UNCHANGED secret
  /\ UNCHANGED <<pod, history>>
MakeSecret(c, part) ==
  LET n == <<Under(c), part>> IN
  /\ At(c, part)
  /\ IF call[c].live /\ secret[n] = None
     THEN \/ UNCHANGED left /\ secret' = [secret EXCEPT ![n] = c] /\ Goto(c, After(c, part))
          \/ Fails /\ Give(c, part) /\ UNCHANGED secret
     ELSE UNCHANGED <<secret, left>> /\ Give(c, part)
  /\ UNCHANGED <<pod, history>>

Doomed(s) == [pod EXCEPT ![s] = IF @ = None THEN None ELSE [@ EXCEPT !.doomed = TRUE]]
DropPod(c) ==
  /\ At(c, "drop pod") /\ Goto(c, "pod")
  /\ \/ Works(c) /\ pod' = Doomed(Under(c))
     \/ (Fails \/ (~ call[c].live /\ UNCHANGED left)) /\ UNCHANGED pod
  /\ UNCHANGED <<secret, history>>
MakePod(c) ==
  LET s == Under(c) IN
  /\ At(c, "pod")
  /\ IF call[c].live /\ pod[s] = None
     THEN \/ /\ UNCHANGED left /\ Goto(c, "wait")
             /\ pod' = [pod EXCEPT ![s] = [by |-> c, phase |-> "pending", files |-> {},
                                           doomed |-> FALSE]]
          \/ Fails /\ Give(c, "pod") /\ UNCHANGED pod
     ELSE UNCHANGED <<pod, left>> /\ Give(c, "pod")
  /\ UNCHANGED <<secret, history>>

(* waitForStaticBuild and waitForWorkerBuild: the marker counts only while *)
(* the builder runs; a pod that cannot be read is asked again.             *)
Marked(p) == p.phase = "runs" /\ "done" \in p.files
Wait(c) ==
  LET p == pod[Under(c)] IN
  /\ At(c, "wait") /\ UNCHANGED left
  /\ \/ /\ ~ call[c].live \/ (p # None /\ p.phase \in {"failed", "exited"})
        /\ call' = [call EXCEPT ![c].pc = "clean pod", ![c].res = "failed"]
     \/ /\ call[c].live /\ p # None /\ Marked(p)
        /\ Goto(c, IF call[c].kind = "page" THEN "read" ELSE "ask")
  /\ UNCHANGED <<pod, secret, history>>
Deadline(c) ==
  /\ At(c, "wait")
  /\ call' = [call EXCEPT ![c].pc = "clean pod", ![c].res = "failed"]
  /\ UNCHANGED <<pod, secret, left, history>>

(* A command in the builder: what c finds there, if it can be run.         *)
Reaches(c) == call[c].live /\ pod[Under(c)] # None /\ pod[Under(c)].phase = "runs"
There(c) == pod[Under(c)].files
Ask(c) ==
  /\ At(c, "ask")
  /\ \/ /\ Reaches(c) /\ UNCHANGED <<left, misread>>
        /\ call' = [call EXCEPT ![c].pc = "read",
                     ![c].res = IF "confirm" \in There(c) THEN "confirm" ELSE "ok"]
     \/ /\ (~ Reaches(c) /\ UNCHANGED left) \/ Fails
        /\ call' = [call EXCEPT ![c].pc = "read", ![c].res = "ok"]
        /\ misread' = misread \cup {c}
  /\ UNCHANGED <<pod, secret, did, leaked>>

(* What wrangler printed and the commit are read as far as possible; a     *)
(* page without its files has failed, and so has a pause without buckets.  *)
Needs(c) ==
  IF call[c].kind = "page" THEN {"output"} ELSE IF call[c].res = "confirm" THEN {"pending"} ELSE {}
Read(c) ==
  LET found == Needs(c) = {} \/ (Reaches(c) /\ Needs(c) \subseteq There(c)) IN
  /\ At(c, "read")
  /\ \/ /\ UNCHANGED left
        /\ call' = [call EXCEPT ![c].pc = "clean pod",
                      ![c].res = IF ~ found THEN "failed" ELSE IF @ = None THEN "ok" ELSE @]
     \/ /\ Needs(c) # {} /\ Fails
        /\ call' = [call EXCEPT ![c].pc = "clean pod", ![c].res = "failed"]
  /\ UNCHANGED <<pod, secret, history>>

(* The clean-up has a context of its own, so that it runs although that of *)
(* the call has ended.                                                     *)
OwnContext(c) == call[c].live    \* mutant: the context of the call
Detached(c) == TRUE
Clean(c, pc) ==
  /\ At(c, pc) /\ Leave(c, pc)
  /\ \/ /\ Detached(c) /\ UNCHANGED <<left, leaked>>
        /\ IF pc = "clean pod" THEN pod' = Doomed(Under(c)) /\ UNCHANGED secret
           ELSE LET n == <<Under(c), IF pc = "clean cf" THEN "cf" ELSE "git">> IN
                secret' = [secret EXCEPT ![n] = None] /\ UNCHANGED pod
     \/ ~ Detached(c) /\ UNCHANGED <<left, leaked, pod, secret>>
     \/ Fails /\ leaked' = leaked \cup {c} /\ UNCHANGED <<pod, secret>>
  /\ UNCHANGED <<did, misread>>

(* The context ends: the deployment was cancelled or its worker shuts down.*)
Abort(c) ==
  /\ ~ At(c, "free") /\ ~ At(c, "over") /\ call[c].live
  /\ call' = [call EXCEPT ![c].live = FALSE]
  /\ UNCHANGED <<pod, secret, left, history>>
Crash ==
  /\ Fails
  /\ LET gone == {c \in Calls : ~ At(c, "free") /\ ~ At(c, "over")} IN
     /\ gone # {} /\ leaked' = leaked \cup gone
     /\ call' = [c \in Calls |-> IF c \in gone THEN Over(c, None) ELSE call[c]]
  /\ UNCHANGED <<pod, secret, did, misread>>

-----------------------------------------------------------------------------
(* A pod *)

Becomes(s, phase) == pod' = [pod EXCEPT ![s].phase = phase]

(* A container starts once the Secrets that it refers to are there.        *)
Clone(s) ==
  /\ pod[s] # None /\ pod[s].phase = "pending"
  /\ call[pod[s].by].token => secret[<<s, "git">>] # None
  /\ Becomes(s, "cloned") /\ UNCHANGED <<call, secret, left, history>>
Build(s) ==
  LET c == pod[s].by IN
  /\ pod[s] # None /\ pod[s].phase = "cloned"
  /\ call[c].kind # "page" => secret[<<s, "cf">>] # None
  /\ Becomes(s, "runs") /\ UNCHANGED <<call, secret, left, history>>

(* Only a deployment can be paused, by the preflight, before it deploys.   *)
Effect(kind, file) ==
  CASE file = "pending" -> {"paused"}
    [] file = "output" -> {CASE kind = "page" -> "built" [] kind = "deploy" -> "deployed"
                             [] kind = "delete" -> "deleted"}
    [] OTHER -> {}
WriteFile(s) ==
  LET p == pod[s] IN
  /\ p # None /\ p.phase = "runs"
  /\ \E f \in Files :
       /\ f \in Due(p) \/ (p.files = {} /\ f = "pending" /\ call[p.by].kind = "deploy")
       /\ pod' = [pod EXCEPT ![s].files = @ \cup {f}]
       /\ did' = [did EXCEPT ![p.by] = @ \cup Effect(call[p.by].kind, f)]
  /\ UNCHANGED <<call, secret, left, misread, leaked>>

(* It fails while it works, and exits after it has idled.                  *)
End(s) ==
  LET p == pod[s] IN
  /\ p # None /\ p.phase \in {"pending", "cloned", "runs"}
  /\ Becomes(s, IF "done" \in p.files THEN "exited" ELSE "failed")
  /\ UNCHANGED <<call, secret, left, history>>
Reap(s) ==
  /\ pod[s] # None
  /\ (pod[s].doomed /\ UNCHANGED left) \/ Fails   \* deleted, or lost with its node
  /\ pod' = [pod EXCEPT ![s] = None] /\ UNCHANGED <<call, secret, history>>

Next ==
  \/ \E c \in Calls :
       \/ Begin(c) \/ DropPod(c) \/ MakePod(c) \/ Wait(c) \/ Deadline(c) \/ Ask(c) \/ Read(c)
       \/ Abort(c)
       \/ \E part \in Parts : DropSecret(c, part) \/ MakeSecret(c, part)
       \/ \E pc \in {"clean pod", "clean cf", "clean git"} : Clean(c, pc)
  \/ Crash
  \/ \E s \in Seconds : Clone(s) \/ Build(s) \/ WriteFile(s) \/ End(s) \/ Reap(s)

Spec == Init /\ [][Next]_vars

-----------------------------------------------------------------------------
(* Properties *)

(* A call that is over leaves no Secret and no pod, however it ended,      *)
(* unless a deletion failed or the worker crashed.                         *)
Gone(c) == At(c, "over") /\ c \notin leaked
NothingIsLeft ==
  /\ \A n \in Seconds \X Parts : secret[n] # None => ~ Gone(secret[n])
  /\ \A s \in Seconds : pod[s] # None /\ ~ pod[s].doomed => ~ Gone(pod[s].by)

(* A call tells what its pod has done: success means that the page was     *)
(* built, or that wrangler deployed the worker or deleted it, and a pause  *)
(* is never taken for either.  Excepted are a pod that could not be asked, *)
(* and calls of one second, which share a pod.                             *)
Alone(c) == \A d \in Calls \ {c} : At(d, "free") \/ Under(d) # Under(c)
Doing == [page |-> "built", deploy |-> "deployed", delete |-> "deleted"]
ResultIsTrue ==
  \A c \in Calls :
    At(c, "over") /\ Alone(c) /\ c \notin misread =>
      /\ call[c].res = "ok" => Doing[call[c].kind] \in did[c]
      /\ call[c].res = "confirm" => "paused" \in did[c] /\ "deployed" \notin did[c]
=============================================================================
