---------------------------- MODULE BesideProofs ----------------------------
(***************************************************************************)
(* Proofs about the parts that stand beside the others, for any number of  *)
(* actors and any bounds.  BuildPods: its types; that a call leaves no pod *)
(* and no Secret; that its result is true.  BuildJobs: its types; that a   *)
(* success has an image; that the registry is whole.  Nodes: its types;    *)
(* that a node shown as ready has joined; that its first key is pinned.    *)
(* Settings: its types; that the mode enforced can be used; that starts    *)
(* heed the user.  Authorization: that the lists agree with the guards.    *)
(***************************************************************************)
EXTENDS PodBuilds, JobBuilds, NodeInstalls, SettingKeys, FiniteSets, TLAPS

A == INSTANCE Authorization

-----------------------------------------------------------------------------
(* BuildPods *)

PodsAssumption ==
  /\ Nobody \notin Calls /\ Nobody \notin {"ok", "confirm", "failed"} /\ Seconds # {}
  /\ MaxFaults \in Nat

(* Who holds a Secret or a pod has not come to its deletion yet, or could  *)
(* not delete it.                                                          *)
WithGit == {"drop cf", "cf", "drop pod", "pod", "wait", "ask", "read", "clean pod", "clean cf",
            "clean git"}
WithCf == {"drop pod", "pod", "wait", "ask", "read", "clean pod", "clean cf"}
WithPod == {"wait", "ask", "read", "clean pod"}
MayHold(c, s, part) ==
  \/ c \in leaked
  \/ /\ call[c].at = s
     /\ \/ part = "git" /\ call[c].token /\ call[c].pc \in WithGit
        \/ part = "cf" /\ call[c].kind # "page" /\ call[c].pc \in WithCf
        \/ part = "pod" /\ call[c].pc \in WithPod
Holders ==
  /\ \A s \in Seconds, part \in {"git", "cf"} :
       secret[<<s, part>>] # Nobody => MayHold(secret[<<s, part>>], s, part)
  /\ \A s \in Seconds : pod[s] # Nobody /\ ~ pod[s].doomed => MayHold(pod[s].by, s, "pod")
Branches ==
  \A c \in Calls :
    /\ call[c].pc \in {"drop git", "git"} => call[c].token
    /\ call[c].pc \in {"drop cf", "cf"} => call[c].kind # "page"
HoldInv == P!TypeOK /\ Holders /\ Branches

(* What a pod has done is what its files say; one pod is made for a call.  *)
BeforePod == {"free", "drop git", "git", "drop cf", "cf", "drop pod", "pod"}
BeforeResult == BeforePod \cup {"wait", "ask"}
Afterwards == {"clean pod", "clean cf", "clean git", "over"}
PodIsTrue(s) ==
  LET p == pod[s] IN
  /\ call[p.by].at = s /\ call[p.by].pc \notin BeforePod
  /\ p.phase \in {"pending", "cloned"} => p.files = {}
  /\ "output" \in p.files <=> P!Doing[call[p.by].kind] \in did[p.by]
  /\ "pending" \in p.files <=> "paused" \in did[p.by]
  /\ "pending" \in p.files => call[p.by].kind = "deploy" /\ "output" \notin p.files
  /\ "confirm" \in p.files => "pending" \in p.files
  /\ "done" \in p.files => "output" \in p.files \/ "confirm" \in p.files
CallIsTrue(c) ==
  /\ call[c].pc \in BeforePod => did[c] = {}
  /\ call[c].pc \in BeforeResult => call[c].res = Nobody
  /\ call[c].pc = "read" => (call[c].kind = "page" <=> call[c].res = Nobody)
  /\ call[c].pc \in {"read"} => call[c].res # "failed"
  /\ call[c].pc = "ask" => call[c].kind # "page"
  /\ "paused" \in did[c] => "deployed" \notin did[c]
  /\ call[c].pc \in {"ask", "read"} /\ P!Alone(c) /\ pod[call[c].at] # Nobody =>
       "done" \in pod[call[c].at].files
  /\ call[c].pc \in {"read"} \cup Afterwards /\ P!Alone(c) /\ c \notin misread =>
       /\ call[c].res = "ok" => P!Doing[call[c].kind] \in did[c]
       /\ call[c].res = "confirm" => "paused" \in did[c]
ResultInv ==
  /\ P!TypeOK
  /\ \A s \in Seconds : pod[s] # Nobody => PodIsTrue(s)
  /\ \A c \in Calls : CallIsTrue(c)

LEMMA PodsInit ==
  ASSUME PodsAssumption, P!Init
  PROVE  HoldInv /\ ResultInv
<1>1. P!NoCall \in P!Call /\ P!NoCall.pc = "free" /\ P!NoCall.res = Nobody
  BY DEF PodsAssumption, P!NoCall, P!Call, P!PC, P!Kinds
<1>2. P!TypeOK
  BY <1>1 DEF PodsAssumption, P!Init, P!TypeOK
<1> QED
  BY <1>1, <1>2 DEF PodsAssumption, P!Init, HoldInv, Holders, MayHold, Branches, ResultInv, CallIsTrue, BeforePod,
     BeforeResult, Afterwards, P!Parts

(* The steps of the calls and of the pods, one by one.                     *)
CallStep(c) ==
  \/ P!Begin(c) \/ P!DropPod(c) \/ P!MakePod(c) \/ P!Wait(c) \/ P!Deadline(c) \/ P!Ask(c) \/ P!Read(c)
  \/ P!Abort(c)
  \/ P!DropSecret(c, "git") \/ P!DropSecret(c, "cf") \/ P!MakeSecret(c, "git") \/ P!MakeSecret(c, "cf")
  \/ P!Clean(c, "clean pod") \/ P!Clean(c, "clean cf") \/ P!Clean(c, "clean git")
PodStep(s) == P!Clone(s) \/ P!Build(s) \/ P!WriteFile(s) \/ P!End(s) \/ P!Reap(s)

LEMMA PodsSteps ==
  ASSUME P!Next
  PROVE  (\E c \in Calls : CallStep(c)) \/ P!Crash \/ (\E s \in Seconds : PodStep(s))
BY Zenon DEF P!Next, CallStep, PodStep, P!Parts

(* What a call may become.                                                 *)
LEMMA CallTypes ==
  ASSUME PodsAssumption, P!TypeOK, NEW c \in Calls
  PROVE  /\ call[c] \in P!Call
         /\ \A pc \in P!PC : [call[c] EXCEPT !.pc = pc] \in P!Call
         /\ \A pc \in P!PC, r \in {Nobody, "ok", "confirm", "failed"} :
              [call[c] EXCEPT !.pc = pc, !.res = r] \in P!Call
         /\ \A r \in {Nobody, "ok", "confirm", "failed"} : P!Over(c, r) \in P!Call
         /\ [call[c] EXCEPT !.live = FALSE] \in P!Call
BY DEF P!TypeOK, P!Call, P!Over, P!PC

LEMMA PodTypes ==
  ASSUME NEW p \in P!Pod
  PROVE  /\ [p EXCEPT !.doomed = TRUE] \in P!Pod
         /\ \A phase \in {"pending", "cloned", "runs", "failed", "exited"} :
              [p EXCEPT !.phase = phase] \in P!Pod
         /\ \A f \in P!Files : [p EXCEPT !.files = @ \cup {f}] \in P!Pod
         /\ p.by \in Calls /\ p.files \subseteq P!Files /\ p.doomed \in BOOLEAN
         /\ p.phase \in {"pending", "cloned", "runs", "failed", "exited"}
BY DEF P!Pod

LEMMA PodsTypes ==
  ASSUME PodsAssumption, P!TypeOK, [P!Next]_P!vars
  PROVE  P!TypeOK'
<1> USE DEF P!TypeOK
<1>0. P!Fails => faults' \in 0..MaxFaults
  BY DEF P!Fails, PodsAssumption
<1>1. ASSUME NEW c \in Calls, CallStep(c) PROVE P!TypeOK'
  <2>1. /\ call[c] \in P!Call
        /\ \A pc \in P!PC : [call[c] EXCEPT !.pc = pc] \in P!Call
        /\ \A pc \in P!PC, r \in {Nobody, "ok", "confirm", "failed"} :
             [call[c] EXCEPT !.pc = pc, !.res = r] \in P!Call
        /\ \A r \in {Nobody, "ok", "confirm", "failed"} : P!Over(c, r) \in P!Call
        /\ [call[c] EXCEPT !.live = FALSE] \in P!Call
    BY CallTypes
  <2>2. call[c].res \in {Nobody, "ok", "confirm", "failed"} /\ call[c].at \in Seconds
    BY <2>1 DEF P!Call
  <2>3. P!Doomed(call[c].at) \in [Seconds -> {Nobody} \cup P!Pod]
    BY <2>2, PodTypes DEF P!Doomed
  <2>4. CASE P!Begin(c)
    <3>1. PICK k \in P!Kinds, s \in Seconds, t \in BOOLEAN :
            /\ \A d \in Calls : P!At(d, "free") \/ (call[d].kind = "page" <=> k = "page")
            /\ call' = [call EXCEPT ![c].kind = k, ![c].at = s, ![c].token = t,
                          ![c].pc = IF t THEN "drop git" ELSE IF k = "page" THEN "drop pod"
                                    ELSE "drop cf"]
      BY <2>4, Zenon DEF P!Begin
    <3>2. \A pc \in P!PC : [call[c] EXCEPT !.kind = k, !.at = s, !.token = t, !.pc = pc] \in P!Call
      BY <2>1, ZenonT(60) DEF P!Call
    <3>3. call' \in [Calls -> P!Call]
      BY <3>1, <3>2 DEF P!PC
    <3> QED
      BY <2>4, <3>3 DEF P!Begin, P!history
  <2>5. CASE P!DropPod(c)
    BY <1>0, <2>5, <2>1, <2>2, <2>3 DEF P!DropPod, P!Goto, P!Works, P!Under, P!history, P!PC
  <2>6. CASE P!MakePod(c)
    <3>1. call' \in [Calls -> P!Call]
      BY <2>6, <2>1 DEF P!MakePod, P!Goto, P!Give, P!Undo, P!PC
    <3>2. pod' \in [Seconds -> {Nobody} \cup P!Pod]
      <4>1. [by |-> c, phase |-> "pending", files |-> {}, doomed |-> FALSE] \in P!Pod
        BY DEF P!Pod
      <4> QED
        BY <2>6, <2>2, <4>1 DEF P!MakePod, P!Under
    <3> QED
      BY <1>0, <3>1, <3>2, <2>6 DEF P!MakePod, P!history
  <2>7. CASE P!Wait(c)
    BY <2>7, <2>1, ZenonT(60) DEF P!Wait, P!Goto, P!history, P!PC
  <2>8. CASE P!Deadline(c)
    BY <2>8, <2>1 DEF P!Deadline, P!history, P!PC
  <2>9. CASE P!Ask(c)
    <3>1. call' \in [Calls -> P!Call]
      BY <2>9, <2>1 DEF P!Ask, P!PC
    <3>2. misread' \subseteq Calls /\ faults' \in 0..MaxFaults
      BY <1>0, <2>9 DEF P!Ask
    <3> QED
      BY <2>9, <3>1, <3>2 DEF P!Ask
  <2>10. CASE P!Read(c)
    <3>1. call' \in [Calls -> P!Call]
      BY <2>10, <2>1, <2>2 DEF P!Read, P!PC
    <3> QED
      BY <1>0, <2>10, <3>1 DEF P!Read, P!history
  <2>11. CASE P!Abort(c)
    BY <2>11, <2>1 DEF P!Abort, P!history
  <2>12. ASSUME NEW part \in {"git", "cf"}, P!DropSecret(c, part) PROVE P!TypeOK'
    BY <1>0, <2>12, <2>1, <2>2 DEF P!DropSecret, P!Goto, P!Works, P!Under, P!history, P!PC, P!Parts
  <2>13. ASSUME NEW part \in {"git", "cf"}, P!MakeSecret(c, part) PROVE P!TypeOK'
    <3>1. call' \in [Calls -> P!Call]
      BY <2>13, <2>1 DEF P!MakeSecret, P!Goto, P!Give, P!Undo, P!After, P!PC
    <3> QED
      BY <1>0, <3>1, <2>13, <2>2 DEF P!MakeSecret, P!Under, P!history, P!Parts, P!Give
  <2>14. ASSUME NEW pc \in {"clean pod", "clean cf", "clean git"}, P!Clean(c, pc) PROVE P!TypeOK'
    <3>1. call' \in [Calls -> P!Call]
      BY <2>14, <2>1, <2>2 DEF P!Clean, P!Leave, P!Undo, P!PC
    <3> QED
      BY <1>0, <3>1, <2>14, <2>2, <2>3 DEF P!Clean, P!Under, P!Parts, P!Leave
  <2> QED
    BY <1>1, <2>4, <2>5, <2>6, <2>7, <2>8, <2>9, <2>10, <2>11, <2>12, <2>13, <2>14 DEF CallStep
<1>2. CASE P!Crash
  <2>1. \A c \in Calls : P!Over(c, Nobody) \in P!Call
    BY CallTypes
  <2> QED
    BY <1>0, <1>2, <2>1 DEF P!Crash
<1>3. ASSUME NEW s \in Seconds, PodStep(s) PROVE P!TypeOK'
  <2>1. CASE P!Clone(s)
    BY <2>1, PodTypes DEF P!Clone, P!Becomes, P!history
  <2>2. CASE P!Build(s)
    BY <2>2, PodTypes DEF P!Build, P!Becomes, P!history
  <2>3. CASE P!WriteFile(s)
    <3>1. pod[s] \in P!Pod /\ call[pod[s].by].kind \in P!Kinds
      BY <2>3 DEF P!WriteFile, P!Pod, P!Call
    <3>2. \A f \in P!Files : P!Effect(call[pod[s].by].kind, f)
                             \subseteq {"built", "deployed", "deleted", "paused"}
      BY <3>1 DEF P!Effect, P!Kinds
    <3>3. PICK f \in P!Files :
            /\ pod' = [pod EXCEPT ![s].files = @ \cup {f}]
            /\ did' = [did EXCEPT ![pod[s].by] = @ \cup P!Effect(call[pod[s].by].kind, f)]
      BY <2>3 DEF P!WriteFile
    <3>4. pod' \in [Seconds -> {Nobody} \cup P!Pod]
      BY <3>1, <3>3, PodTypes
    <3>5. did' \in [Calls -> SUBSET {"built", "deployed", "deleted", "paused"}]
      BY <3>2, <3>3
    <3> QED
      BY <2>3, <3>4, <3>5 DEF P!WriteFile
  <2>4. CASE P!End(s)
    BY <2>4, PodTypes DEF P!End, P!Becomes, P!history
  <2>5. CASE P!Reap(s)
    BY <1>0, <2>5 DEF P!Reap, P!history
  <2> QED
    BY <1>3, <2>1, <2>2, <2>3, <2>4, <2>5 DEF PodStep
<1>4. CASE UNCHANGED P!vars
  BY <1>4 DEF P!vars
<1> QED
  BY <1>1, <1>2, <1>3, <1>4, PodsSteps

(* What the steps of a call change of the calls: where one of them is, and *)
(* perhaps its result.                                                     *)
Moves(c, pcs) ==
  /\ \A d \in Calls \ {c} : call'[d] = call[d]
  /\ call'[c].pc \in pcs /\ call'[c].at = call[c].at /\ call'[c].kind = call[c].kind
  /\ call'[c].token = call[c].token

LEMMA CallMoves ==
  ASSUME P!TypeOK, NEW c \in Calls, NEW pc,
         \/ P!Goto(c, pc)
         \/ \E r : call' = [call EXCEPT ![c].pc = pc, ![c].res = r]
  PROVE  Moves(c, {pc})
BY DEF P!TypeOK, P!Call, P!Goto, Moves

LEMMA UndoMoves ==
  ASSUME P!TypeOK, NEW c \in Calls, NEW pc, P!Leave(c, pc) \/ P!Give(c, pc)
  PROVE  Moves(c, {P!Undo(c, pc)})
<1>1. call[c] \in P!Call /\ call \in [Calls -> P!Call]
  BY DEF P!TypeOK
<1>2. CASE P!Undo(c, pc) = "over"
  <2>1. \E r : call' = [call EXCEPT ![c] = P!Over(c, r)]
    BY <1>2 DEF P!Leave, P!Give
  <2>2. ASSUME NEW r
        PROVE  LET o == P!Over(c, r) IN
               o.pc = "over" /\ o.at = call[c].at /\ o.kind = call[c].kind /\ o.token = call[c].token
    BY <1>1 DEF P!Over, P!Call
  <2> QED
    BY <1>1, <1>2, <2>1, <2>2 DEF Moves
<1>3. CASE P!Undo(c, pc) # "over"
  <2> DEFINE u == [call[c] EXCEPT !.pc = P!Undo(c, pc)]
             v == [call[c] EXCEPT !.pc = P!Undo(c, pc), !.res = "failed"]
  <2>1. call' = [call EXCEPT ![c] = u] \/ call' = [call EXCEPT ![c] = v]
    BY <1>3 DEF P!Leave, P!Give
  <2>2. \A o \in {u, v} : o.pc = P!Undo(c, pc) /\ o.at = call[c].at /\ o.kind = call[c].kind
                        /\ o.token = call[c].token
    BY <1>1 DEF P!Call
  <2> HIDE DEF u, v
  <2> QED
    BY <1>1, <2>1, <2>2 DEF Moves
<1> QED
  BY <1>2, <1>3

LEMMA KeepsBranch ==
  ASSUME HoldInv, NEW c \in Calls, NEW pcs, Moves(c, pcs),
         \/ pcs \subseteq {call[c].pc}
         \/ /\ pcs \cap {"drop git", "git"} # {} => call[c].token
            /\ pcs \cap {"drop cf", "cf"} # {} => call[c].kind # "page"
  PROVE  Branches'
BY DEF HoldInv, Branches, Moves

(* Nothing is made: Secrets only go, and pods go or are deleted.           *)
Shrinks ==
  /\ \A s \in Seconds, part \in {"git", "cf"} : secret'[<<s, part>>] \in {Nobody, secret[<<s, part>>]}
  /\ \A s \in Seconds :
       pod'[s] # Nobody /\ ~ pod'[s].doomed =>
         pod[s] # Nobody /\ ~ pod[s].doomed /\ pod'[s].by = pod[s].by
Goes(s) == pod'[s] = Nobody \/ pod'[s].doomed
Pcs(c, part) ==
  CASE part = "git" -> IF call[c].token THEN WithGit ELSE {}
    [] part = "cf" -> IF call[c].kind # "page" THEN WithCf ELSE {}
    [] part = "pod" -> WithPod

LEMMA MayKeep ==
  ASSUME NEW c \in Calls, NEW pcs, Moves(c, pcs), leaked \subseteq leaked', NEW d \in Calls, NEW s,
         NEW part \in {"git", "cf", "pod"}, MayHold(d, s, part),
         d # c \/ c \in leaked' \/ (call[c].pc \in Pcs(c, part) => pcs \subseteq Pcs(c, part))
  PROVE  MayHold(d, s, part)'
<1>1. CASE d # c
  BY <1>1 DEF MayHold, Moves
<1>2. CASE d = c
  BY <1>2 DEF MayHold, Moves, Pcs
<1> QED
  BY <1>1, <1>2

LEMMA Held ==
  ASSUME P!TypeOK
  PROVE  /\ \A s \in Seconds, part \in {"git", "cf"} : secret[<<s, part>>] \in Calls \cup {Nobody}
         /\ \A s \in Seconds : pod[s] # Nobody => pod[s] \in P!Pod /\ pod[s].by \in Calls
BY PodTypes DEF P!TypeOK, P!Parts

(* As long as what a call holds is in its reach or goes, all keep theirs.  *)
LEMMA Keeps ==
  ASSUME PodsAssumption, HoldInv, NEW c \in Calls, NEW pcs, Moves(c, pcs), leaked \subseteq leaked', Shrinks,
         \/ pcs \subseteq {call[c].pc}
         \/ /\ pcs \cap {"drop git", "git"} # {} => call[c].token
            /\ pcs \cap {"drop cf", "cf"} # {} => call[c].kind # "page",
         \/ c \in leaked'
         \/ /\ \A part \in {"git", "cf"} :
                 \/ secret'[<<call[c].at, part>>] # c
                 \/ call[c].pc \in Pcs(c, part) => pcs \subseteq Pcs(c, part)
            /\ \/ Goes(call[c].at) \/ pod'[call[c].at].by # c
               \/ call[c].pc \in WithPod => pcs \subseteq WithPod
  PROVE  Holders' /\ Branches'
<1>0. P!TypeOK /\ Holders
  BY DEF HoldInv
<1>1. ASSUME NEW s \in Seconds, NEW part \in {"git", "cf"}, secret'[<<s, part>>] # Nobody
      PROVE  MayHold(secret[<<s, part>>], s, part)'
  <2> DEFINE d == secret[<<s, part>>]
  <2>1. secret'[<<s, part>>] = d /\ d \in Calls
    BY <1>0, <1>1, Held DEF Shrinks
  <2>2. MayHold(d, s, part)
    BY <1>0, <1>1, <2>1 DEF Holders
  <2>3. d = c /\ c \notin leaked' => call[c].at = s
    BY <2>2 DEF MayHold
  <2> HIDE DEF d
  <2>4. d # c \/ c \in leaked' \/ (call[c].pc \in Pcs(c, part) => pcs \subseteq Pcs(c, part))
    BY <2>1, <2>3
  <2>5. ASSUME NEW x \in Calls, MayHold(x, s, part),
               x # c \/ c \in leaked' \/ (call[c].pc \in Pcs(c, part) => pcs \subseteq Pcs(c, part))
        PROVE  MayHold(x, s, part)'
    BY <2>5, MayKeep
  <2> QED
    BY <2>1, <2>2, <2>4, <2>5 DEF MayHold
<1>2. ASSUME NEW s \in Seconds, pod'[s] # Nobody, ~ pod'[s].doomed
      PROVE  MayHold(pod[s].by, s, "pod")'
  <2> DEFINE d == pod[s].by
  <2>1. pod'[s].by = d /\ d \in Calls /\ pod[s] # Nobody /\ ~ pod[s].doomed
    BY <1>0, <1>2, Held DEF Shrinks
  <2>2. MayHold(d, s, "pod")
    BY <1>0, <2>1 DEF Holders
  <2>3. d = c /\ c \notin leaked' => call[c].at = s
    BY <2>2 DEF MayHold
  <2> HIDE DEF d
  <2>4. d # c \/ c \in leaked' \/ (call[c].pc \in Pcs(c, "pod") => pcs \subseteq Pcs(c, "pod"))
    BY <1>2, <2>1, <2>3 DEF Goes, Pcs
  <2>5. ASSUME NEW x \in Calls, MayHold(x, s, "pod"),
               x # c \/ c \in leaked' \/ (call[c].pc \in Pcs(c, "pod") => pcs \subseteq Pcs(c, "pod"))
        PROVE  MayHold(x, s, "pod")'
    BY <2>5, MayKeep
  <2> QED
    BY <2>1, <2>2, <2>4, <2>5 DEF MayHold
<1> QED
  BY <1>1, <1>2, KeepsBranch DEF Holders

(* A call that holds nothing yet may make a Secret or its pod.             *)
Reach(c, pcs) ==
  /\ pcs \cap {"drop git", "git"} # {} => call[c].token
  /\ pcs \cap {"drop cf", "cf"} # {} => call[c].kind # "page"
  /\ \A part \in {"git", "cf", "pod"} : call[c].pc \in Pcs(c, part) => pcs \subseteq Pcs(c, part)
Adds(c, pcs) ==
  /\ \A s \in Seconds, part \in {"git", "cf"} :
       \/ secret'[<<s, part>>] = secret[<<s, part>>]
       \/ secret'[<<s, part>>] = c /\ s = call[c].at /\ pcs \subseteq Pcs(c, part)
  /\ \A s \in Seconds :
       \/ pod'[s] = pod[s]
       \/ pod'[s].by = c /\ s = call[c].at /\ pcs \subseteq WithPod

LEMMA Makes ==
  ASSUME PodsAssumption, HoldInv, NEW c \in Calls, NEW pcs, Moves(c, pcs), UNCHANGED leaked,
         Reach(c, pcs), Adds(c, pcs)
  PROVE  Holders' /\ Branches'
<1>0. P!TypeOK /\ Holders
  BY DEF HoldInv
<1>1. ASSUME NEW d \in Calls, NEW s \in Seconds, NEW part \in {"git", "cf", "pod"}, MayHold(d, s, part)
      PROVE  MayHold(d, s, part)'
  <2>1. leaked \subseteq leaked' /\ (call[c].pc \in Pcs(c, part) => pcs \subseteq Pcs(c, part))
    BY DEF Reach
  <2> QED
    BY <1>1, <2>1, MayKeep
<1>2. ASSUME NEW s \in Seconds, NEW part \in {"git", "cf"}, secret'[<<s, part>>] # Nobody
      PROVE  MayHold(secret[<<s, part>>], s, part)'
  <2>1. CASE secret'[<<s, part>>] = secret[<<s, part>>]
    <3>1. secret[<<s, part>>] \in Calls /\ MayHold(secret[<<s, part>>], s, part)
      BY <1>0, <1>2, <2>1, Held DEF Holders
    <3>2. \A d \in Calls : d = secret[<<s, part>>] => MayHold(d, s, part)'
      BY <1>1, <3>1
    <3> QED
      BY <2>1, <3>1, <3>2 DEF MayHold
  <2>2. CASE secret'[<<s, part>>] = c /\ s = call[c].at /\ pcs \subseteq Pcs(c, part)
    BY <2>2 DEF MayHold, Pcs, Moves
  <2> QED
    BY <2>1, <2>2 DEF Adds
<1>3. ASSUME NEW s \in Seconds, pod'[s] # Nobody, ~ pod'[s].doomed
      PROVE  MayHold(pod[s].by, s, "pod")'
  <2>1. CASE pod'[s] = pod[s]
    <3>1. pod[s].by \in Calls /\ MayHold(pod[s].by, s, "pod")
      BY <1>0, <1>3, <2>1, Held DEF Holders
    <3>2. \A d \in Calls : d = pod[s].by => MayHold(d, s, "pod")'
      BY <1>1, <3>1
    <3> QED
      BY <2>1, <3>1, <3>2 DEF MayHold
  <2>2. CASE pod'[s].by = c /\ s = call[c].at /\ pcs \subseteq WithPod
    BY <2>2 DEF MayHold, Moves
  <2> QED
    BY <2>1, <2>2 DEF Adds
<1>4. Branches'
  BY KeepsBranch DEF Reach
<1> QED
  BY <1>2, <1>3, <1>4 DEF Holders

LEMMA HoldStep ==
  ASSUME PodsAssumption, HoldInv, [P!Next]_P!vars
  PROVE  HoldInv'
<1> SUFFICES Holders' /\ Branches'
  BY PodsTypes DEF HoldInv
<1>0. P!TypeOK /\ Holders /\ Branches
  BY DEF HoldInv
<1> USE DEF Pcs, WithGit, WithCf, WithPod
<1>1. ASSUME NEW c \in Calls, CallStep(c) PROVE Holders' /\ Branches'
  <2>0. call[c] \in P!Call /\ call[c].at \in Seconds
    BY <1>0 DEF P!TypeOK, P!Call
  <2>p. /\ call[c].pc \in {"drop git", "git"} => call[c].token
        /\ call[c].pc \in {"drop cf", "cf"} => call[c].kind # "page"
    BY <1>0 DEF Branches
  <2>1. UNCHANGED <<secret, pod>> => Shrinks
    BY DEF Shrinks
  <2>2. ASSUME UNCHANGED secret, pod' = P!Doomed(call[c].at) PROVE Shrinks /\ Goes(call[c].at)
    <3>1. \A s \in Seconds : pod'[s] = IF s # call[c].at \/ pod[s] = Nobody THEN pod[s]
                                     ELSE [pod[s] EXCEPT !.doomed = TRUE]
      BY <1>0, <2>0, <2>2 DEF P!Doomed, P!TypeOK
    <3>2. \A s \in Seconds : pod[s] # Nobody => [pod[s] EXCEPT !.doomed = TRUE].doomed
      BY <1>0, Held DEF P!Pod
    <3> QED
      BY <2>0, <2>2, <3>1, <3>2 DEF Shrinks, Goes
  <2>3. \A part \in {"git", "cf"} :
          UNCHANGED pod /\ secret' = [secret EXCEPT ![<<call[c].at, part>>] = Nobody] =>
            Shrinks /\ secret'[<<call[c].at, part>>] # c
    BY <1>0, <2>0 DEF Shrinks, P!TypeOK, P!Parts, PodsAssumption
  <2>4. CASE P!Begin(c)
    <3>1. PICK k \in P!Kinds, s \in Seconds, t \in BOOLEAN :
            /\ \A d \in Calls : P!At(d, "free") \/ (call[d].kind = "page" <=> k = "page")
            /\ call' = [call EXCEPT ![c].kind = k, ![c].at = s, ![c].token = t,
                          ![c].pc = IF t THEN "drop git" ELSE IF k = "page" THEN "drop pod"
                                    ELSE "drop cf"]
      BY <2>4, Zenon DEF P!Begin
    <3> DEFINE pc == IF t THEN "drop git" ELSE IF k = "page" THEN "drop pod" ELSE "drop cf"
               new == [call[c] EXCEPT !.kind = k, !.at = s, !.token = t, !.pc = pc]
    <3>a. new.token = t /\ new.kind = k /\ new.pc = pc
      BY <2>0 DEF P!Call
    <3>b. call' = [call EXCEPT ![c] = new]
      BY <3>1
    <3>c. pc \in {"drop git", "drop pod", "drop cf"} /\ (pc = "drop git" => t) /\ (pc = "drop cf" => k # "page")
      OBVIOUS
    <3> HIDE DEF pc, new
    <3>2. /\ \A d \in Calls \ {c} : call'[d] = call[d]
          /\ call'[c].pc \in {"drop git", "git"} => call'[c].token
          /\ call'[c].pc \in {"drop cf", "cf"} => call'[c].kind # "page"
      BY <1>0, <3>a, <3>b, <3>c DEF P!TypeOK
    <3>3. call[c].pc = "free" /\ UNCHANGED <<secret, pod, leaked>>
      BY <2>4 DEF P!Begin, P!At, P!history
    <3>4. \A d \in Calls, z \in Seconds, part \in {"git", "cf", "pod"} :
            MayHold(d, z, part) => MayHold(d, z, part)'
      BY <3>2, <3>3 DEF MayHold
    <3>5. \A z \in Seconds, part \in {"git", "cf"} :
            secret[<<z, part>>] # Nobody => MayHold(secret[<<z, part>>], z, part)'
      BY <1>0, <3>3, <3>4, Held DEF Holders
    <3>6. \A z \in Seconds : pod[z] # Nobody /\ ~ pod[z].doomed => MayHold(pod[z].by, z, "pod")'
      BY <1>0, <3>3, <3>4, Held DEF Holders
    <3>7. Branches'
      BY <1>0, <3>2 DEF Branches
    <3> QED
      BY <3>3, <3>5, <3>6, <3>7 DEF Holders
  <2>5. CASE P!DropPod(c)
    <3>1. Moves(c, {"pod"})
      BY <1>0, <2>5, CallMoves DEF P!DropPod
    <3>2. Shrinks /\ UNCHANGED leaked /\ call[c].pc = "drop pod"
      BY <2>5, <2>1, <2>2 DEF P!DropPod, P!Works, P!Fails, P!Under, P!history, P!At
    <3> QED
      BY <3>1, <3>2, Keeps
  <2>6. CASE P!MakePod(c)
    <3>1. call[c].pc = "pod" /\ UNCHANGED <<secret, leaked>>
      BY <2>6 DEF P!MakePod, P!At, P!history
    <3>2. CASE P!Give(c, "pod") /\ UNCHANGED pod
      <4>1. Moves(c, {P!Undo(c, "pod")})
        BY <1>0, <3>2, UndoMoves
      <4> QED
        BY <2>1, <3>1, <3>2, <4>1, Keeps DEF P!Undo
    <3>3. CASE /\ P!Goto(c, "wait")
               /\ pod' = [pod EXCEPT ![call[c].at] = [by |-> c, phase |-> "pending", files |-> {},
                                                     doomed |-> FALSE]]
      <4>1. Moves(c, {"wait"})
        BY <1>0, <3>3, CallMoves
      <4>2. \A s \in Seconds : pod'[s] = pod[s] \/ (pod'[s].by = c /\ s = call[c].at)
        BY <1>0, <2>0, <3>3 DEF P!TypeOK
      <4>3. Reach(c, {"wait"}) /\ Adds(c, {"wait"})
        BY <3>1, <4>2 DEF Reach, Adds
      <4> QED
        BY <3>1, <4>1, <4>3, Makes
    <3> QED
      BY <2>6, <3>2, <3>3 DEF P!MakePod, P!Under
  <2>7. CASE P!Wait(c) \/ P!Deadline(c)
    <3>1. \E pc \in {"clean pod", "read", "ask"} : Moves(c, {pc})
      BY <1>0, <2>7, CallMoves DEF P!Wait, P!Deadline
    <3>2. UNCHANGED <<secret, pod, leaked>> /\ call[c].pc = "wait"
      BY <2>7 DEF P!Wait, P!Deadline, P!history, P!At
    <3> QED
      BY <2>1, <3>1, <3>2, Keeps
  <2>8. CASE P!Ask(c) \/ P!Read(c)
    <3>1. \E pc \in {"clean pod", "read"} : Moves(c, {pc})
      BY <1>0, <2>8, CallMoves DEF P!Ask, P!Read
    <3>2. UNCHANGED <<secret, pod, leaked>> /\ call[c].pc \in {"ask", "read"}
      BY <2>8 DEF P!Ask, P!Read, P!history, P!At
    <3>3. Moves(c, {"clean pod"}) \/ (Moves(c, {"read"}) /\ call[c].pc \in {"ask", "read"})
      BY <3>1, <3>2
    <3> QED
      BY <2>1, <3>2, <3>3, Keeps
  <2>9. CASE P!Abort(c)
    <3>1. Moves(c, {call[c].pc})
      BY <1>0, <2>9, <2>0 DEF P!Abort, Moves, P!TypeOK, P!Call
    <3> QED
      BY <2>9, <2>1, <3>1, Keeps DEF P!Abort, P!history
  <2>10. ASSUME NEW part \in {"git", "cf"}, P!DropSecret(c, part) PROVE Holders' /\ Branches'
    <3>1. Moves(c, {part})
      BY <1>0, <2>10, CallMoves DEF P!DropSecret
    <3>2. Shrinks /\ UNCHANGED leaked
      BY <2>10, <2>1, <2>3 DEF P!DropSecret, P!Works, P!Fails, P!Under, P!history
    <3>3. call[c].pc = IF part = "git" THEN "drop git" ELSE "drop cf"
      BY <2>10 DEF P!DropSecret, P!At
    <3>4. (part = "git" => call[c].token) /\ (part = "cf" => call[c].kind # "page")
      BY <2>p, <3>3
    <3> QED
      BY <3>1, <3>2, <3>3, <3>4, Keeps
  <2>11. ASSUME NEW part \in {"git", "cf"}, P!MakeSecret(c, part) PROVE Holders' /\ Branches'
    <3>1. call[c].pc = part /\ UNCHANGED <<pod, leaked>>
      BY <2>11 DEF P!MakeSecret, P!At, P!history
    <3>2. (part = "git" => call[c].token) /\ (part = "cf" => call[c].kind # "page")
      BY <2>p, <3>1
    <3>3. CASE P!Give(c, part) /\ UNCHANGED secret
      <4>1. Moves(c, {P!Undo(c, part)})
        BY <1>0, <3>3, UndoMoves
      <4> QED
        BY <2>1, <3>1, <3>3, <4>1, Keeps DEF P!Undo
    <3>4. CASE P!Goto(c, P!After(c, part)) /\ secret' = [secret EXCEPT ![<<call[c].at, part>>] = c]
      <4>1. Moves(c, {P!After(c, part)})
        BY <1>0, <3>4, CallMoves
      <4>2. \A s \in Seconds, q \in {"git", "cf"} :
              secret'[<<s, q>>] = secret[<<s, q>>] \/ (secret'[<<s, q>>] = c /\ s = call[c].at /\ q = part)
        BY <1>0, <2>0, <3>4 DEF P!TypeOK, P!Parts
      <4>3. P!After(c, part) = "drop pod" \/ (P!After(c, part) = "drop cf" /\ part = "git" /\ call[c].kind # "page")
        BY DEF P!After
      <4>4. CASE P!After(c, part) = "drop pod"
        <5>1. Moves(c, {"drop pod"})
          BY <4>1, <4>4
        <5>2. Reach(c, {"drop pod"}) /\ Adds(c, {"drop pod"})
          BY <3>1, <3>2, <4>2 DEF Reach, Adds
        <5> QED
          BY <3>1, <5>1, <5>2, Makes
      <4>5. CASE P!After(c, part) = "drop cf" /\ part = "git" /\ call[c].kind # "page"
        <5>1. Moves(c, {"drop cf"})
          BY <4>1, <4>5
        <5>2. Reach(c, {"drop cf"}) /\ Adds(c, {"drop cf"})
          BY <3>1, <3>2, <4>2, <4>5 DEF Reach, Adds
        <5> QED
          BY <3>1, <5>1, <5>2, Makes
      <4> QED
        BY <4>3, <4>4, <4>5
    <3> QED
      BY <2>11, <3>3, <3>4 DEF P!MakeSecret, P!Under
  <2>12. ASSUME NEW pc \in {"clean pod", "clean cf", "clean git"}, P!Clean(c, pc) PROVE Holders' /\ Branches'
    <3>1. Moves(c, {P!Undo(c, pc)}) /\ call[c].pc = pc
      BY <1>0, <2>12, UndoMoves DEF P!Clean, P!At
    <3>2. CASE c \in leaked' /\ leaked \subseteq leaked' /\ UNCHANGED <<secret, pod>>
      BY <2>1, <3>1, <3>2, Keeps DEF P!Undo
    <3>3. CASE UNCHANGED leaked /\ pc = "clean pod" /\ pod' = P!Doomed(call[c].at) /\ UNCHANGED secret
      <4>1. Shrinks /\ Goes(call[c].at)
        BY <2>2, <3>3
      <4> QED
        BY <3>1, <3>3, <4>1, Keeps DEF P!Undo
    <3>4. CASE /\ UNCHANGED leaked /\ pc = "clean cf" /\ UNCHANGED pod
               /\ secret' = [secret EXCEPT ![<<call[c].at, "cf">>] = Nobody]
      <4>1. Shrinks /\ secret'[<<call[c].at, "cf">>] # c
        BY <2>3, <3>4
      <4> QED
        BY <3>1, <3>4, <4>1, Keeps DEF P!Undo
    <3>5. CASE /\ UNCHANGED leaked /\ pc = "clean git" /\ UNCHANGED pod
               /\ secret' = [secret EXCEPT ![<<call[c].at, "git">>] = Nobody]
      <4>1. Shrinks /\ secret'[<<call[c].at, "git">>] # c
        BY <2>3, <3>5
      <4> QED
        BY <3>1, <3>5, <4>1, Keeps DEF P!Undo
    <3> QED
      BY <2>12, <3>2, <3>3, <3>4, <3>5 DEF P!Clean, P!Fails, P!Under, P!Detached
  <2> QED
    BY <1>1, <2>4, <2>5, <2>6, <2>7, <2>8, <2>9, <2>10, <2>11, <2>12 DEF CallStep
<1>2. CASE P!Crash
  <2>1. \A c \in Calls : call[c].pc \in {"free", "over"} \/ c \in leaked'
    BY <1>2 DEF P!Crash, P!At
  <2>2. /\ leaked \subseteq leaked' /\ UNCHANGED <<secret, pod>>
        /\ \A c \in Calls : c \notin leaked' => call'[c] = call[c]
        /\ \A c \in Calls : call'[c] = call[c] \/ call'[c] = P!Over(c, Nobody)
    BY <1>2, <2>1 DEF P!Crash, P!At
  <2>3. \A c \in Calls : P!Over(c, Nobody).pc = "over"
    BY <1>0 DEF P!Over, P!TypeOK, P!Call
  <2>4. \A d \in Calls, s \in Seconds, part \in {"git", "cf", "pod"} :
          MayHold(d, s, part) => MayHold(d, s, part)'
    BY <2>2 DEF MayHold
  <2>5. \A s \in Seconds, part \in {"git", "cf"} :
          secret[<<s, part>>] # Nobody => MayHold(secret[<<s, part>>], s, part)'
    BY <1>0, <2>2, <2>4, Held DEF Holders
  <2>6. \A s \in Seconds : pod[s] # Nobody /\ ~ pod[s].doomed => MayHold(pod[s].by, s, "pod")'
    BY <1>0, <2>2, <2>4, Held DEF Holders
  <2>7. Branches'
    BY <1>0, <2>2, <2>3 DEF Branches
  <2> QED
    BY <2>2, <2>5, <2>6, <2>7 DEF Holders
<1>3. ASSUME NEW s \in Seconds, PodStep(s) PROVE Holders' /\ Branches'
  <2>1. UNCHANGED <<call, secret, leaked>> /\ pod[s] # Nobody
    BY <1>3 DEF PodStep, P!Clone, P!Build, P!WriteFile, P!End, P!Reap, P!history
  <2>2. pod[s] \in P!Pod /\ pod[s].by \in Calls /\ pod \in [Seconds -> {Nobody} \cup P!Pod]
    BY <1>0, <2>1, Held DEF P!TypeOK
  <2>3. \/ pod' = [pod EXCEPT ![s] = Nobody]
        \/ \E f : pod' = [pod EXCEPT ![s].phase = f]
        \/ \E f : pod' = [pod EXCEPT ![s].files = @ \cup {f}]
    BY <1>3 DEF PodStep, P!Clone, P!Build, P!WriteFile, P!End, P!Reap, P!Becomes
  <2>4. /\ \A t \in Seconds \ {s} : pod'[t] = pod[t]
        /\ pod'[s] # Nobody => pod'[s].by = pod[s].by /\ pod'[s].doomed = pod[s].doomed
    BY <2>2, <2>3 DEF P!Pod
  <2>5. Shrinks
    BY <2>1, <2>4 DEF Shrinks
  <2>6. Moves(pod[s].by, {call[pod[s].by].pc})
    BY <2>1 DEF Moves
  <2> QED
    BY <2>1, <2>2, <2>5, <2>6, Keeps
<1>4. CASE UNCHANGED P!vars
  <2>1. UNCHANGED <<call, pod, secret, leaked>>
    BY <1>4 DEF P!vars
  <2>2. Holders'
    <3>1. \A d, s, part : MayHold(d, s, part) => MayHold(d, s, part)'
      BY <2>1 DEF MayHold
    <3> QED
      BY <1>0, <2>1, <3>1 DEF Holders
  <2>3. Branches'
    BY <1>0, <2>1 DEF Branches
  <2> QED
    BY <2>2, <2>3
<1>5. (\E c \in Calls : CallStep(c)) \/ P!Crash \/ (\E s \in Seconds : PodStep(s)) \/ UNCHANGED P!vars
  BY PodsSteps
<1> QED
  BY <1>1, <1>2, <1>3, <1>4, <1>5

(* A call that is over leaves neither a pod nor a Secret (NothingIsLeft).  *)
THEOREM PodsNothingIsLeft ==
  ASSUME PodsAssumption
  PROVE  P!Spec => []NothingIsLeft
<1>1. P!Init => HoldInv
  BY PodsInit
<1>2. HoldInv /\ [P!Next]_P!vars => HoldInv'
  BY HoldStep
<1>3. HoldInv => NothingIsLeft
  <2>1. ASSUME HoldInv, NEW s \in Seconds, NEW part \in {"git", "cf"}, secret[<<s, part>>] # Nobody
        PROVE  ~ P!Gone(secret[<<s, part>>])
    BY <2>1, ZenonT(60) DEF HoldInv, Holders, MayHold, P!Gone, P!At, WithGit, WithCf
  <2>2. ASSUME HoldInv, NEW s \in Seconds, pod[s] # Nobody, ~ pod[s].doomed
        PROVE  ~ P!Gone(pod[s].by)
    BY <2>2 DEF HoldInv, Holders, MayHold, P!Gone, P!At, WithPod
  <2>3. ASSUME HoldInv, NEW n \in Seconds \X P!Parts, secret[n] # Nobody
        PROVE  ~ P!Gone(secret[n])
    <3>1. PICK s \in Seconds, part \in {"git", "cf"} : n = <<s, part>>
      BY DEF P!Parts
    <3> QED
      BY <2>1, <2>3, <3>1
  <2> QED
    BY <2>2, <2>3 DEF NothingIsLeft, NothingIsLeft, P!NothingIsLeft
<1> QED
  BY <1>1, <1>2, <1>3, PTL DEF P!Spec

(* The next file of a script, given those before it.                       *)
LEMMA NextFile ==
  ASSUME NEW p, NEW f \in P!Due(p)
  PROVE  /\ f \notin p.files /\ f # "pending"
         /\ f = "output" => "pending" \notin p.files
         /\ f = "confirm" => "pending" \in p.files
         /\ f = "done" => "output" \in p.files \/ "confirm" \in p.files
<1>1. CASE "pending" \in p.files
  <2> DEFINE s == <<"pending", "commit", "confirm", "done">>
  <2>1. P!Script("pending" \in p.files) = s /\ DOMAIN s = 1..4
        /\ s[1] = "pending" /\ s[2] = "commit" /\ s[3] = "confirm" /\ s[4] = "done"
    BY <1>1 DEF P!Script
  <2> HIDE DEF s
  <2>2. PICK k \in 1..4 : s[k] = f /\ f \notin p.files /\ \A j \in 1..k - 1 : s[j] \in p.files
    BY <2>1 DEF P!Due
  <2>3. k = 1 \/ k = 2 \/ k = 3 \/ (k = 4 /\ 3 \in 1..k - 1)
    BY <2>2
  <2> QED
    BY <1>1, <2>1, <2>2, <2>3
<1>2. CASE "pending" \notin p.files
  <2> DEFINE s == <<"output", "commit", "done">>
  <2>1. P!Script("pending" \in p.files) = s /\ DOMAIN s = 1..3
        /\ s[1] = "output" /\ s[2] = "commit" /\ s[3] = "done"
    BY <1>2 DEF P!Script
  <2> HIDE DEF s
  <2>2. PICK k \in 1..3 : s[k] = f /\ f \notin p.files /\ \A j \in 1..k - 1 : s[j] \in p.files
    BY <2>1 DEF P!Due
  <2>3. k = 1 \/ k = 2 \/ (k = 3 /\ 1 \in 1..k - 1)
    BY <2>2
  <2> QED
    BY <1>2, <2>1, <2>2, <2>3
<1> QED
  BY <1>1, <1>2

(* No call becomes free again, and a second is not left.                   *)
Forward ==
  \A d \in Calls :
    \/ call[d].pc = "free"
    \/ call'[d].pc # "free" /\ call'[d].at = call[d].at /\ call'[d].kind = call[d].kind

LEMMA WasAlone ==
  ASSUME Forward, NEW c \in Calls, call[c].pc # "free", P!Alone(c)'
  PROVE  P!Alone(c)
BY DEF Forward, P!Alone, P!At, P!Under

LEMMA PodOfAlone ==
  ASSUME ResultInv, NEW c \in Calls, P!Alone(c), pod[call[c].at] # Nobody, call[c].pc # "free"
  PROVE  pod[call[c].at].by = c /\ PodIsTrue(call[c].at)
<1>1. call[c].at \in Seconds
  BY DEF ResultInv, P!TypeOK, P!Call
<1>2. PodIsTrue(call[c].at) /\ pod[call[c].at].by \in Calls
  BY <1>1, Held DEF ResultInv
<1> QED
  BY <1>2 DEF PodIsTrue, P!Alone, P!At, P!Under, BeforePod

(* A call that takes no step, and a pod that does not change.              *)
LEMMA CallStays ==
  ASSUME Forward, NEW d \in Calls, call'[d] = call[d], did'[d] = did[d], misread \subseteq misread',
         CallIsTrue(d), call[d].at \in Seconds,
         \A s \in Seconds :
           \/ pod'[s] = Nobody
           \/ pod[s] # Nobody /\ pod[s].files \subseteq pod'[s].files
           \/ P!Alone(d) /\ call[d].pc # "free" => call[d].at # s
  PROVE  CallIsTrue(d)'
BY WasAlone DEF CallIsTrue, BeforePod, BeforeResult, Afterwards

SamePod(s) ==
  \/ pod'[s] = Nobody
  \/ pod[s] # Nobody /\ pod'[s].by = pod[s].by /\ pod'[s].phase = pod[s].phase /\ pod'[s].files = pod[s].files

LEMMA PodStays ==
  ASSUME NEW s \in Seconds, pod[s] # Nobody => PodIsTrue(s) /\ pod[s].by \in Calls, SamePod(s),
         \A d \in Calls : call[d].pc \notin BeforePod =>
           /\ call'[d].pc \notin BeforePod /\ call'[d].at = call[d].at /\ call'[d].kind = call[d].kind
           /\ call[d].at = s => did'[d] = did[d]
  PROVE  pod'[s] # Nobody => PodIsTrue(s)'
<1> SUFFICES ASSUME pod'[s] # Nobody PROVE PodIsTrue(s)'
  OBVIOUS
<1> QED
  BY DEF PodIsTrue, SamePod

LEMMA Dooms ==
  ASSUME P!TypeOK, NEW z \in Seconds, NEW s \in Seconds, UNCHANGED pod \/ pod' = P!Doomed(z)
  PROVE  SamePod(s)
<1>1. CASE UNCHANGED pod
  BY <1>1 DEF SamePod
<1>2. CASE pod' = P!Doomed(z)
  <2>1. pod'[s] = IF s # z \/ pod[s] = Nobody THEN pod[s] ELSE [pod[s] EXCEPT !.doomed = TRUE]
    BY <1>2 DEF P!Doomed, P!TypeOK
  <2>2. pod[s] # Nobody => pod[s] \in P!Pod
    BY Held
  <2> QED
    BY <2>1, <2>2 DEF SamePod, P!Pod
<1> QED
  BY <1>1, <1>2

(* A step of one call keeps what is true of the others and of the pods.    *)
LEMMA ResultOfCall ==
  ASSUME PodsAssumption, ResultInv, P!TypeOK', NEW c \in Calls, NEW pcs, Moves(c, pcs),
         UNCHANGED did, misread \subseteq misread', \A s \in Seconds : SamePod(s),
         call[c].pc # "free", "free" \notin pcs, call[c].pc \notin BeforePod => pcs \cap BeforePod = {},
         CallIsTrue(c)'
  PROVE  ResultInv'
<1>1. Forward
  BY DEF Forward, Moves
<1>2. ASSUME NEW d \in Calls PROVE CallIsTrue(d)'
  <2>1. CASE d = c
    BY <2>1
  <2>2. CASE d # c
    <3>1. call'[d] = call[d] /\ did'[d] = did[d] /\ call[d].at \in Seconds /\ CallIsTrue(d)
      BY <2>2 DEF Moves, ResultInv, P!TypeOK, P!Call
    <3>2. \A s \in Seconds : pod'[s] = Nobody \/ (pod[s] # Nobody /\ pod[s].files \subseteq pod'[s].files)
      BY DEF SamePod
    <3> QED
      BY <1>1, <3>1, <3>2, CallStays
  <2> QED
    BY <2>1, <2>2
<1>3. ASSUME NEW s \in Seconds PROVE pod'[s] # Nobody => PodIsTrue(s)'
  <2>1. pod[s] # Nobody => PodIsTrue(s) /\ pod[s].by \in Calls
    BY Held DEF ResultInv
  <2>2. \A d \in Calls : call[d].pc \notin BeforePod =>
          /\ call'[d].pc \notin BeforePod /\ call'[d].at = call[d].at /\ call'[d].kind = call[d].kind
          /\ did'[d] = did[d]
    BY DEF Moves
  <2>3. SamePod(s)
    OBVIOUS
  <2> QED
    BY <2>1, <2>2, <2>3, PodStays
<1> QED
  BY <1>2, <1>3 DEF ResultInv

LEMMA NewResult ==
  ASSUME P!TypeOK, NEW c \in Calls
  PROVE  /\ \A pc : P!Goto(c, pc) => call'[c].res = call[c].res
         /\ \A pc : P!Leave(c, pc) => call'[c].res = call[c].res
         /\ \A pc : P!Give(c, pc) => call'[c].res = "failed"
         /\ \A pc, r : call' = [call EXCEPT ![c].pc = pc, ![c].res = r] => call'[c].res = r
<1>1. call[c] \in P!Call /\ call \in [Calls -> P!Call]
  BY DEF P!TypeOK
<1>2. \A pc : P!Goto(c, pc) => call'[c].res = call[c].res
  BY <1>1 DEF P!Goto, P!Call
<1>3. ASSUME NEW r PROVE P!Over(c, r).res = r
  BY <1>1 DEF P!Over, P!Call
<1>4. ASSUME NEW pc, P!Leave(c, pc) PROVE call'[c].res = call[c].res
  <2> DEFINE u == [call[c] EXCEPT !.pc = P!Undo(c, pc)]
  <2>1. call' = [call EXCEPT ![c] = u] \/ call' = [call EXCEPT ![c] = P!Over(c, call[c].res)]
    BY <1>4 DEF P!Leave
  <2>2. u.res = call[c].res
    BY <1>1 DEF P!Call
  <2> HIDE DEF u
  <2> QED
    BY <1>1, <1>3, <2>1, <2>2
<1>5. ASSUME NEW pc, P!Give(c, pc) PROVE call'[c].res = "failed"
  <2> DEFINE u == [call[c] EXCEPT !.pc = P!Undo(c, pc), !.res = "failed"]
  <2>1. call' = [call EXCEPT ![c] = u] \/ call' = [call EXCEPT ![c] = P!Over(c, "failed")]
    BY <1>5 DEF P!Give
  <2>2. u.res = "failed"
    BY <1>1 DEF P!Call
  <2> HIDE DEF u
  <2> QED
    BY <1>1, <1>3, <2>1, <2>2
<1>6. \A pc, r : call' = [call EXCEPT ![c].pc = pc, ![c].res = r] => call'[c].res = r
  BY <1>1 DEF P!Call
<1> QED
  BY <1>2, <1>4, <1>5, <1>6

LEMMA ResultStep ==
  ASSUME PodsAssumption, ResultInv, [P!Next]_P!vars
  PROVE  ResultInv'
<1>0. P!TypeOK /\ P!TypeOK' /\ \A d \in Calls : CallIsTrue(d) /\ call[d].at \in Seconds /\ call[d] \in P!Call
  BY PodsTypes DEF ResultInv, P!TypeOK, P!Call
<1>1. ASSUME NEW c \in Calls, CallStep(c) PROVE ResultInv'
  <2>0. CallIsTrue(c) /\ call[c].at \in Seconds /\ call[c] \in P!Call
    BY <1>0
  <2>1. \A s \in Seconds : UNCHANGED pod \/ pod' = P!Doomed(call[c].at) => SamePod(s)
    BY <1>0, Dooms
  <2>4. CASE P!Begin(c)
    <3>1. /\ \A d \in Calls \ {c} : call'[d] = call[d]
          /\ call'[c].pc \in {"drop git", "drop pod", "drop cf"} /\ call'[c].res = call[c].res
      <4>1. PICK k \in P!Kinds, s \in Seconds, t \in BOOLEAN :
              /\ \A d \in Calls : P!At(d, "free") \/ (call[d].kind = "page" <=> k = "page")
              /\ call' = [call EXCEPT ![c].kind = k, ![c].at = s, ![c].token = t,
                            ![c].pc = IF t THEN "drop git" ELSE IF k = "page" THEN "drop pod"
                                      ELSE "drop cf"]
        BY <2>4, Zenon DEF P!Begin
      <4> DEFINE pc == IF t THEN "drop git" ELSE IF k = "page" THEN "drop pod" ELSE "drop cf"
                 new == [call[c] EXCEPT !.kind = k, !.at = s, !.token = t, !.pc = pc]
      <4>2. new.pc \in {"drop git", "drop pod", "drop cf"} /\ new.res = call[c].res
        BY <2>0 DEF P!Call
      <4>3. call' = [call EXCEPT ![c] = new]
        BY <4>1
      <4> HIDE DEF new
      <4> QED
        BY <1>0, <4>2, <4>3 DEF P!TypeOK
    <3>2. call[c].pc = "free" /\ UNCHANGED <<pod, did, misread>>
      BY <2>4 DEF P!Begin, P!At, P!history
    <3>3. Forward
      BY <3>1, <3>2 DEF Forward
    <3>4. CallIsTrue(c)'
      BY <2>0, <3>1, <3>2 DEF CallIsTrue, BeforePod, BeforeResult, Afterwards
    <3>5. ASSUME NEW d \in Calls \ {c} PROVE CallIsTrue(d)'
      <4>1. call'[d] = call[d] /\ did'[d] = did[d] /\ CallIsTrue(d) /\ call[d].at \in Seconds /\ misread \subseteq misread'
        BY <1>0, <3>1, <3>2
      <4>2. \A s \in Seconds : pod'[s] = Nobody \/ (pod[s] # Nobody /\ pod[s].files \subseteq pod'[s].files)
        BY <3>2
      <4> QED
        BY <3>3, <4>1, <4>2, CallStays
    <3>6. ASSUME NEW s \in Seconds PROVE pod'[s] # Nobody => PodIsTrue(s)'
      <4>1. pod[s] # Nobody => PodIsTrue(s) /\ pod[s].by \in Calls
        BY Held DEF ResultInv
      <4>2. \A d \in Calls : call[d].pc \notin BeforePod => call'[d] = call[d] /\ did'[d] = did[d]
        BY <3>1, <3>2 DEF BeforePod
      <4>3. SamePod(s)
        BY <2>1, <3>2
      <4> QED
        BY <4>1, <4>2, <4>3, PodStays
    <3> QED
      BY <1>0, <3>4, <3>5, <3>6 DEF ResultInv
  <2> USE DEF BeforePod, BeforeResult, Afterwards
  <2>5. CASE P!DropPod(c) \/ P!DropSecret(c, "git") \/ P!DropSecret(c, "cf")
    <3>1. PICK pc \in {"pod", "git", "cf"} :
            P!Goto(c, pc) /\ call[c].pc \in {"drop pod", "drop git", "drop cf"}
      BY <2>5 DEF P!DropPod, P!DropSecret, P!At
    <3>2. Moves(c, {pc}) /\ call'[c].res = call[c].res
      BY <1>0, <3>1, CallMoves, NewResult
    <3>3. UNCHANGED <<did, misread>> /\ (UNCHANGED pod \/ pod' = P!Doomed(call[c].at))
      BY <2>5 DEF P!DropPod, P!DropSecret, P!Works, P!Under, P!history
    <3>4. CallIsTrue(c)'
      BY <2>0, <3>1, <3>2, <3>3 DEF CallIsTrue, Moves
    <3> QED
      BY <1>0, <2>1, <3>1, <3>2, <3>3, <3>4, ResultOfCall
  <2>6. CASE P!MakeSecret(c, "git") \/ P!MakeSecret(c, "cf") \/ (P!MakePod(c) /\ P!Give(c, "pod") /\ UNCHANGED pod)
    <3>1. PICK part \in {"git", "cf", "pod"} :
            (P!Goto(c, P!After(c, part)) /\ part # "pod") \/ P!Give(c, part)
      BY <2>6 DEF P!MakeSecret
    <3>2. UNCHANGED <<did, misread, pod>> /\ call[c].pc \in {"git", "cf", "pod"}
      BY <2>6 DEF P!MakeSecret, P!MakePod, P!history, P!At
    <3>3. CASE P!Goto(c, P!After(c, part)) /\ part # "pod"
      <4>1. Moves(c, {P!After(c, part)}) /\ call'[c].res = call[c].res
        BY <1>0, <3>3, CallMoves, NewResult
      <4>2. P!After(c, part) \in {"drop cf", "drop pod"}
        BY <3>3 DEF P!After
      <4>3. CallIsTrue(c)'
        BY <2>0, <3>2, <4>1, <4>2 DEF CallIsTrue, Moves
      <4> QED
        BY <1>0, <2>1, <3>2, <4>1, <4>2, <4>3, ResultOfCall
    <3>4. CASE P!Give(c, part)
      <4>1. Moves(c, {P!Undo(c, part)}) /\ call'[c].res = "failed"
        BY <1>0, <3>4, UndoMoves, NewResult
      <4>2. P!Undo(c, part) \in {"clean cf", "clean git", "over"}
        BY DEF P!Undo
      <4>3. CallIsTrue(c)'
        BY <2>0, <3>2, <4>1, <4>2 DEF CallIsTrue, Moves, PodsAssumption
      <4> QED
        BY <1>0, <2>1, <3>2, <4>1, <4>2, <4>3, ResultOfCall
    <3> QED
      BY <3>1, <3>3, <3>4
  <2>7. CASE P!Wait(c) \/ P!Deadline(c)
    <3>1. UNCHANGED <<did, misread, pod>> /\ call[c].pc = "wait"
      BY <2>7 DEF P!Wait, P!Deadline, P!history, P!At
    <3>2. \/ call' = [call EXCEPT ![c].pc = "clean pod", ![c].res = "failed"]
          \/ /\ P!Goto(c, IF call[c].kind = "page" THEN "read" ELSE "ask")
             /\ "done" \in pod[call[c].at].files
      BY <2>7 DEF P!Wait, P!Deadline, P!Marked, P!Under
    <3>3. CASE call' = [call EXCEPT ![c].pc = "clean pod", ![c].res = "failed"]
      <4>1. Moves(c, {"clean pod"}) /\ call'[c].res = "failed"
        BY <1>0, <3>3, CallMoves, NewResult
      <4>2. CallIsTrue(c)'
        BY <2>0, <3>1, <4>1 DEF CallIsTrue, Moves, PodsAssumption
      <4> QED
        BY <1>0, <2>1, <3>1, <4>1, <4>2, ResultOfCall
    <3>4. CASE /\ P!Goto(c, IF call[c].kind = "page" THEN "read" ELSE "ask")
               /\ "done" \in pod[call[c].at].files
      <4> DEFINE pc == IF call[c].kind = "page" THEN "read" ELSE "ask"
      <4>1. Moves(c, {pc}) /\ call'[c].res = call[c].res
        BY <1>0, <3>4, CallMoves, NewResult
      <4>2. CallIsTrue(c)'
        BY <2>0, <3>1, <3>4, <4>1 DEF CallIsTrue, Moves, PodsAssumption
      <4> QED
        BY <1>0, <2>1, <3>1, <4>1, <4>2, ResultOfCall
    <3> QED
      BY <3>2, <3>3, <3>4
  <2>8. CASE P!MakePod(c) /\ ~ (P!Give(c, "pod") /\ UNCHANGED pod)
    <3> DEFINE new == [by |-> c, phase |-> "pending", files |-> {}, doomed |-> FALSE]
    <3>1. /\ P!Goto(c, "wait") /\ pod' = [pod EXCEPT ![call[c].at] = new]
          /\ UNCHANGED <<did, misread>> /\ call[c].pc = "pod"
      BY <2>8 DEF P!MakePod, P!Under, P!history, P!At
    <3>2. Moves(c, {"wait"}) /\ call'[c].res = call[c].res
      BY <1>0, <3>1, CallMoves, NewResult
    <3>3. pod'[call[c].at] = new /\ \A s \in Seconds \ {call[c].at} : pod'[s] = pod[s]
      BY <1>0, <2>0, <3>1 DEF P!TypeOK
    <3>4. did[c] = {} /\ Forward /\ CallIsTrue(c)'
      BY <2>0, <3>1, <3>2 DEF CallIsTrue, Moves, Forward
    <3>5. ASSUME NEW d \in Calls \ {c} PROVE CallIsTrue(d)'
      <4>1. call'[d] = call[d] /\ did'[d] = did[d] /\ CallIsTrue(d) /\ call[d].at \in Seconds /\ misread \subseteq misread'
        BY <1>0, <3>1, <3>2 DEF Moves
      <4>2. P!Alone(d) => call[d].at # call[c].at
        BY <3>1 DEF P!Alone, P!At, P!Under
      <4>3. \A s \in Seconds : \/ pod'[s] = Nobody \/ (pod[s] # Nobody /\ pod[s].files \subseteq pod'[s].files)
                             \/ (P!Alone(d) /\ call[d].pc # "free" => call[d].at # s)
        BY <3>3, <4>2
      <4> QED
        BY <3>4, <4>1, <4>3, CallStays
    <3>6. ASSUME NEW s \in Seconds PROVE pod'[s] # Nobody => PodIsTrue(s)'
      <4>1. CASE s = call[c].at
        <5>1. pod'[s].by = c /\ pod'[s].files = {} /\ pod'[s].phase = "pending" /\ did'[c] = {}
          BY <3>1, <3>3, <3>4, <4>1
        <5>2. call'[c].at = s /\ call'[c].pc = "wait"
          BY <3>2, <4>1 DEF Moves
        <5> QED
          BY <5>1, <5>2 DEF PodIsTrue
      <4>2. CASE s # call[c].at
        <5>1. SamePod(s)
          BY <3>3, <4>2 DEF SamePod
        <5>2. pod[s] # Nobody => PodIsTrue(s) /\ pod[s].by \in Calls
          BY Held DEF ResultInv
        <5>3. \A d \in Calls : call[d].pc \notin BeforePod =>
                /\ call'[d].pc \notin BeforePod /\ call'[d].at = call[d].at /\ call'[d].kind = call[d].kind
                /\ did'[d] = did[d]
          BY <3>1, <3>2 DEF Moves
        <5> QED
          BY <5>1, <5>2, <5>3, PodStays
      <4> QED
        BY <4>1, <4>2
    <3> QED
      BY <1>0, <3>4, <3>5, <3>6 DEF ResultInv
  <2>9. CASE P!Ask(c)
    <3>1. UNCHANGED <<did, pod>> /\ call[c].pc = "ask" /\ misread \subseteq misread'
      BY <2>9 DEF P!Ask, P!At
    <3>2. PICK r \in {"ok", "confirm"} :
            /\ call' = [call EXCEPT ![c].pc = "read", ![c].res = r]
            /\ \/ c \in misread'
               \/ /\ pod[call[c].at] # Nobody
                  /\ r = "confirm" <=> "confirm" \in pod[call[c].at].files
      BY <2>9 DEF P!Ask, P!Reaches, P!There, P!Under
    <3>3. Moves(c, {"read"}) /\ call'[c].res = r
      BY <1>0, <3>2, CallMoves, NewResult
    <3>4. Forward
      BY <3>3 DEF Forward, Moves
    <3>5. ASSUME P!Alone(c)', c \notin misread'
          PROVE  (r = "ok" => P!Doing[call[c].kind] \in did[c]) /\ (r = "confirm" => "paused" \in did[c])
      <4>1. P!Alone(c) /\ pod[call[c].at] # Nobody
        BY <3>1, <3>2, <3>4, <3>5, WasAlone
      <4>2. pod[call[c].at].by = c /\ PodIsTrue(call[c].at) /\ "done" \in pod[call[c].at].files
        BY <2>0, <3>1, <4>1, PodOfAlone DEF CallIsTrue
      <4> QED
        BY <3>2, <3>5, <4>2 DEF PodIsTrue
    <3>6. P!Alone(c)' => P!Alone(c)
      BY <3>1, <3>4, WasAlone
    <3>7. CallIsTrue(c)'
      BY <2>0, <3>1, <3>3, <3>5, <3>6 DEF CallIsTrue, Moves, PodsAssumption
    <3> QED
      BY <1>0, <2>1, <3>1, <3>3, <3>7, ResultOfCall
  <2>10. CASE P!Read(c)
    <3>1. UNCHANGED <<did, pod, misread>> /\ call[c].pc = "read"
      BY <2>10 DEF P!Read, P!At, P!history
    <3>2. PICK r : /\ call' = [call EXCEPT ![c].pc = "clean pod", ![c].res = r]
                   /\ \/ r = "failed" \/ (r = call[c].res /\ r # Nobody)
                      \/ /\ r = "ok" /\ call[c].res = Nobody
                         /\ P!Needs(c) = {} \/ (P!Reaches(c) /\ P!Needs(c) \subseteq P!There(c))
      BY <2>10 DEF P!Read
    <3>3. Moves(c, {"clean pod"}) /\ call'[c].res = r
      BY <1>0, <3>2, CallMoves, NewResult
    <3>4. Forward
      BY <3>1, <3>3 DEF Forward, Moves
    <3>5. P!Alone(c)' => P!Alone(c)
      BY <3>1, <3>4, WasAlone
    <3>6. ASSUME P!Alone(c), r = "ok", call[c].res = Nobody PROVE P!Doing[call[c].kind] \in did[c]
      <4>a. call[c].kind = "page"
        BY <2>0, <3>1, <3>6 DEF CallIsTrue
      <4>1. P!Needs(c) = {"output"}
        BY <4>a DEF P!Needs
      <4>2. pod[call[c].at] # Nobody /\ "output" \in pod[call[c].at].files
        BY <3>2, <3>6, <4>1 DEF P!Reaches, P!There, P!Under, PodsAssumption
      <4>3. pod[call[c].at].by = c /\ PodIsTrue(call[c].at)
        BY <3>1, <3>6, <4>2, PodOfAlone
      <4> QED
        BY <4>2, <4>3 DEF PodIsTrue
    <3>7. CallIsTrue(c)'
      BY <2>0, <3>1, <3>2, <3>3, <3>5, <3>6 DEF CallIsTrue, Moves, PodsAssumption
    <3> QED
      BY <1>0, <2>1, <3>1, <3>3, <3>7, ResultOfCall
  <2>11. CASE P!Abort(c)
    <3>1. /\ UNCHANGED <<did, pod, misread>> /\ call[c].pc \notin {"free", "over"}
          /\ call' = [call EXCEPT ![c].live = FALSE]
      BY <2>11 DEF P!Abort, P!At, P!history
    <3>2. Moves(c, {call[c].pc}) /\ call'[c].res = call[c].res
      BY <1>0, <3>1 DEF Moves, P!TypeOK, P!Call
    <3>3. P!Alone(c)' => P!Alone(c)
      BY <3>1, <3>2, WasAlone DEF Forward, Moves
    <3>4. CallIsTrue(c)'
      BY <2>0, <3>1, <3>2, <3>3 DEF CallIsTrue, Moves
    <3> QED
      BY <1>0, <2>1, <3>1, <3>2, <3>4, ResultOfCall
  <2>12. ASSUME NEW pc \in {"clean pod", "clean cf", "clean git"}, P!Clean(c, pc) PROVE ResultInv'
    <3>1. /\ UNCHANGED <<did, misread>> /\ call[c].pc = pc /\ P!Leave(c, pc)
          /\ UNCHANGED pod \/ pod' = P!Doomed(call[c].at)
      BY <2>12 DEF P!Clean, P!At, P!Under
    <3>2. Moves(c, {P!Undo(c, pc)}) /\ call'[c].res = call[c].res
      BY <1>0, <3>1, UndoMoves, NewResult
    <3>3. P!Undo(c, pc) \in {"clean cf", "clean git", "over"}
      BY DEF P!Undo
    <3>4. P!Alone(c)' => P!Alone(c)
      BY <3>1, <3>2, <3>3, WasAlone DEF Forward, Moves
    <3>5. CallIsTrue(c)'
      BY <2>0, <3>1, <3>2, <3>3, <3>4 DEF CallIsTrue, Moves
    <3> QED
      BY <1>0, <2>1, <3>1, <3>2, <3>3, <3>5, ResultOfCall
  <2> QED
    BY <1>1, <2>4, <2>5, <2>6, <2>7, <2>8, <2>9, <2>10, <2>11, <2>12 DEF CallStep
<1>2. CASE P!Crash
  <2>0. ASSUME NEW c \in Calls
        PROVE  call'[c] = call[c] \/ (call'[c] = P!Over(c, Nobody) /\ call[c].pc # "free")
    BY <1>2 DEF P!Crash, P!At
  <2>a. UNCHANGED <<pod, did, misread>>
    BY <1>2 DEF P!Crash
  <2>1. /\ UNCHANGED <<pod, did, misread>>
        /\ \A c \in Calls : call'[c] = call[c] \/ (call'[c] = P!Over(c, Nobody) /\ call[c].pc # "free")
    BY <2>0, <2>a
  <2>2. ASSUME NEW c \in Calls
        PROVE  LET o == P!Over(c, Nobody) IN
               o.pc = "over" /\ o.res = Nobody /\ o.at = call[c].at /\ o.kind = call[c].kind
    BY <1>0 DEF P!Over, P!Call
  <2>3. Forward
    BY <2>1, <2>2 DEF Forward
  <2>4. ASSUME NEW d \in Calls PROVE CallIsTrue(d)'
    <3>1. CallIsTrue(d) /\ call[d].at \in Seconds
      BY <1>0
    <3>2. CASE call'[d] = call[d]
      BY <2>1, <2>3, <3>1, <3>2, CallStays
    <3>3. CASE call'[d] = P!Over(d, Nobody)
      BY <2>1, <2>2, <3>1, <3>3 DEF CallIsTrue, BeforePod, BeforeResult, Afterwards, PodsAssumption
    <3> QED
      BY <2>1, <3>2, <3>3
  <2>5. ASSUME NEW s \in Seconds PROVE pod'[s] # Nobody => PodIsTrue(s)'
    <3>1. pod[s] # Nobody => PodIsTrue(s) /\ pod[s].by \in Calls
      BY Held DEF ResultInv
    <3>2. \A d \in Calls : call[d].pc \notin BeforePod =>
            /\ call'[d].pc \notin BeforePod /\ call'[d].at = call[d].at /\ call'[d].kind = call[d].kind
            /\ did'[d] = did[d]
      BY <2>1, <2>2 DEF BeforePod
    <3>3. SamePod(s)
      BY <2>1 DEF SamePod
    <3> QED
      BY <3>1, <3>2, <3>3, PodStays
  <2> QED
    BY <1>0, <2>4, <2>5 DEF ResultInv
<1>3. ASSUME NEW s \in Seconds, PodStep(s) PROVE ResultInv'
  <2>1. UNCHANGED <<call, misread>> /\ pod[s] # Nobody
    BY <1>3 DEF PodStep, P!Clone, P!Build, P!WriteFile, P!End, P!Reap, P!history
  <2>2. PICK b \in Calls : /\ b = pod[s].by /\ pod[s] \in P!Pod /\ PodIsTrue(s)
                           /\ pod \in [Seconds -> {Nobody} \cup P!Pod]
    BY <1>0, <2>1, Held DEF P!TypeOK, ResultInv
  <2>3. Forward
    BY <2>1 DEF Forward
  <2>4. ASSUME NEW d \in Calls, did'[d] = did[d],
               pod'[s] = Nobody \/ pod[s].files \subseteq pod'[s].files,
               \A z \in Seconds \ {s} : pod'[z] = pod[z]
        PROVE  CallIsTrue(d)'
    BY <1>0, <2>1, <2>3, <2>4, CallStays
  <2>5. ASSUME NEW z \in Seconds \ {s}, pod'[z] = pod[z], \A d \in Calls \ {b} : did'[d] = did[d]
        PROVE  pod'[z] # Nobody => PodIsTrue(z)'
    <3>1. pod[z] # Nobody => PodIsTrue(z) /\ pod[z].by \in Calls
      BY Held, <1>0 DEF ResultInv
    <3>2. call[b].at = s
      BY <2>2 DEF PodIsTrue
    <3>3. \A d \in Calls : call[d].pc \notin BeforePod =>
            /\ call'[d].pc \notin BeforePod /\ call'[d].at = call[d].at /\ call'[d].kind = call[d].kind
            /\ call[d].at = z => did'[d] = did[d]
      BY <2>1, <2>5, <3>2
    <3>4. SamePod(z)
      BY <2>5 DEF SamePod
    <3> QED
      BY <3>1, <3>3, <3>4, PodStays
  <2>6. CASE P!Reap(s)
    <3>1. UNCHANGED did /\ pod'[s] = Nobody /\ \A z \in Seconds \ {s} : pod'[z] = pod[z]
      BY <2>2, <2>6 DEF P!Reap, P!history
    <3> QED
      BY <1>0, <2>4, <2>5, <3>1 DEF ResultInv
  <2>7. CASE P!Clone(s) \/ P!Build(s) \/ P!End(s)
    <3>1. PICK f : /\ pod' = [pod EXCEPT ![s].phase = f]
                   /\ f \in {"pending", "cloned"} => pod[s].phase = "pending"
      BY <2>7 DEF P!Clone, P!Build, P!End, P!Becomes
    <3>2. /\ UNCHANGED did /\ \A z \in Seconds \ {s} : pod'[z] = pod[z]
          /\ pod'[s].files = pod[s].files /\ pod'[s].by = pod[s].by /\ pod'[s].phase = f
      BY <2>2, <2>7, <3>1 DEF P!Clone, P!Build, P!End, P!history, P!Pod
    <3>3. PodIsTrue(s)'
      BY <2>1, <2>2, <3>1, <3>2 DEF PodIsTrue
    <3> QED
      BY <1>0, <2>4, <2>5, <3>2, <3>3 DEF ResultInv
  <2>8. CASE P!WriteFile(s)
    <3>1. PICK f \in P!Files :
            /\ f \in P!Due(pod[s]) \/ (pod[s].files = {} /\ f = "pending" /\ call[b].kind = "deploy")
            /\ pod' = [pod EXCEPT ![s].files = @ \cup {f}]
            /\ did' = [did EXCEPT ![b] = @ \cup P!Effect(call[b].kind, f)]
      BY <2>2, <2>8 DEF P!WriteFile
    <3>2. /\ f \notin pod[s].files
          /\ f = "pending" => pod[s].files = {} /\ call[b].kind = "deploy"
          /\ f = "output" => "pending" \notin pod[s].files
          /\ f = "confirm" => "pending" \in pod[s].files
          /\ f = "done" => "output" \in pod[s].files \/ "confirm" \in pod[s].files
      BY <3>1, NextFile
    <3>3. /\ \A z \in Seconds \ {s} : pod'[z] = pod[z]
          /\ pod'[s].files = pod[s].files \cup {f} /\ pod'[s].by = b /\ pod'[s].phase = pod[s].phase
          /\ pod[s].phase = "runs"
      BY <2>2, <2>8, <3>1 DEF P!WriteFile, P!Pod
    <3>4. /\ \A d \in Calls \ {b} : did'[d] = did[d]
          /\ did'[b] = did[b] \cup P!Effect(call[b].kind, f)
      BY <1>0, <2>2, <3>1 DEF P!TypeOK
    <3>5. call[b].kind \in {"page", "deploy", "delete"}
      BY <1>0, <2>2 DEF P!Call, P!Kinds
    <3>6. /\ P!Effect(call[b].kind, f) = IF f = "output" THEN {P!Doing[call[b].kind]}
                                       ELSE IF f = "pending" THEN {"paused"} ELSE {}
          /\ P!Doing[call[b].kind] \in {"built", "deployed", "deleted"}
          /\ P!Doing[call[b].kind] = "deployed" <=> call[b].kind = "deploy"
      BY <3>5 DEF P!Effect, P!Doing
    <3>7. PodIsTrue(s)'
      BY <2>1, <2>2, <3>2, <3>3, <3>4, <3>6 DEF PodIsTrue
    <3>8. CallIsTrue(b)'
      <4>1. CallIsTrue(b) /\ call[b].pc \notin BeforePod /\ (P!Alone(b)' => P!Alone(b))
        BY <1>0, <2>1, <2>2 DEF PodIsTrue, P!Alone, P!At, P!Under
      <4>2. "paused" \in did'[b] => "deployed" \notin did'[b]
        BY <2>2, <3>2, <3>4, <3>5, <3>6, <4>1 DEF PodIsTrue, CallIsTrue
      <4>3. call[b].pc \in {"ask", "read"} /\ P!Alone(b)' => "done" \in pod'[call[b].at].files
        BY <2>1, <2>2, <3>3, <4>1 DEF CallIsTrue, PodIsTrue
      <4> QED
        BY <2>1, <2>2, <3>4, <4>1, <4>2, <4>3 DEF CallIsTrue
    <3> QED
      BY <1>0, <2>4, <2>5, <3>3, <3>4, <3>7, <3>8 DEF ResultInv
  <2> QED
    BY <1>3, <2>6, <2>7, <2>8 DEF PodStep
<1>4. CASE UNCHANGED P!vars
  <2>1. UNCHANGED <<call, pod, did, misread>>
    BY <1>4 DEF P!vars
  <2>2. Forward
    BY <2>1 DEF Forward
  <2>3. ASSUME NEW d \in Calls PROVE CallIsTrue(d)'
    BY <1>0, <2>1, <2>2, CallStays
  <2>4. ASSUME NEW s \in Seconds PROVE pod'[s] # Nobody => PodIsTrue(s)'
    BY <2>1 DEF ResultInv, PodIsTrue
  <2> QED
    BY <1>0, <2>3, <2>4 DEF ResultInv
<1> QED
  BY <1>1, <1>2, <1>3, <1>4, PodsSteps

(* What a call returns is what its pod has done (ResultIsTrue).            *)
THEOREM PodsResultIsTrue ==
  ASSUME PodsAssumption
  PROVE  P!Spec => []ResultIsTrue
<1>1. P!Init => ResultInv
  BY PodsInit
<1>2. ResultInv /\ [P!Next]_P!vars => ResultInv'
  BY ResultStep
<1>3. ResultInv => ResultIsTrue
  BY DEF ResultInv, CallIsTrue, ResultIsTrue, P!ResultIsTrue, P!At, Afterwards
<1> QED
  BY <1>1, <1>2, <1>3, PTL DEF P!Spec

-----------------------------------------------------------------------------
(* BuildJobs *)

JobsAssumption ==
  /\ NoBuild \notin Builds /\ NoBuild \notin {"complete", "failed", "ok"} /\ MaxPushes \in Nat

RegistryInv ==
  /\ J!TypeOK
  /\ \A b \in Builds : build[b].pc = "deployment" => reg.vol
  /\ reg.dep => reg.vol /\ (reg = J!Whole \/ broken \/ \E c \in Builds : build[c].pc = "service")
  /\ \A b \in Builds : build[b].pc \in {"service", "old", "create", "watch", "wait"} => reg.dep

(* A Job belongs to a call of its name; an image is not older than its     *)
(* tag.  When the Job that a call waits for has pushed its image, it has   *)
(* done so since the call began.                                           *)
Numbered(t) == t[1] = "commit"
Begun(b) ==
  /\ Numbered(build[b].tag) => build[b].tag[2] <= head
  /\ build[b].pc = "free" => build[b].seen = NoBuild /\ build[b].res = NoBuild /\ jobPod[b].phase = "none"
  /\ b \in fresh => build[b].pc # "free"
NotOlder(b) ==
  /\ Numbered(build[b].tag) /\ jobPod[b].phase \in {"clones", "pushed"} =>
       jobPod[b].got >= build[b].tag[2]
  /\ Numbered(build[b].tag) /\ b \in fresh => image[build[b].tag] >= build[b].tag[2]
Told(b) == ~ long /\ (build[b].seen = "complete" \/ build[b].res = "ok") => b \in fresh
Pushed(b) == jobPod[b].phase \in {"pushed", "complete"}
Waits(b) ==
  build[b].pc \in {"watch", "wait"} /\ ~ long /\ buildJob[build[b].tag] # NoBuild /\ Pushed(buildJob[build[b].tag]) =>
    b \in fresh
Belongs(n) == buildJob[n] # NoBuild => jobPod[buildJob[n]].phase # "none" /\ J!JobName(buildJob[n]) = n
ImageInv ==
  /\ J!TypeOK
  /\ \A b \in Builds : Begun(b) /\ NotOlder(b) /\ Told(b) /\ Waits(b)
  /\ \A n \in J!Names : Belongs(n)

LEMMA JobsInit ==
  ASSUME JobsAssumption, J!Init
  PROVE  RegistryInv /\ ImageInv
<1>1. /\ J!NoCall \in J!Call /\ J!NoCall.pc = "free" /\ J!NoCall.seen = NoBuild /\ J!NoCall.res = NoBuild
      /\ J!NoCall.tag = <<"commit", 1>> /\ J!NoPod \in J!Pod /\ J!NoPod.phase = "none"
      /\ <<"commit", 1>> \in J!Tags
  BY DEF JobsAssumption, J!NoCall, J!Call, J!NoPod, J!Pod, J!Tags, J!Commits
<1>a. reg = J!NoRegistry \/ (reg = J!Older /\ broken) \/ reg = J!Whole
  BY DEF J!Init
<1>2. J!TypeOK
  <2>1. reg \in [vol : BOOLEAN, dep : BOOLEAN, svc : {"none", "internal", "node"}]
    <3> DEFINE R == [vol : BOOLEAN, dep : BOOLEAN, svc : {"none", "internal", "node"}]
    <3>1. J!NoRegistry \in R /\ J!Older \in R /\ J!Whole \in R
      BY DEF J!NoRegistry, J!Older, J!Whole
    <3> HIDE DEF R
    <3>2. reg \in R
      BY <1>a, <3>1
    <3> QED
      BY <3>2 DEF R
  <2>2. head \in J!Commits /\ 0 \in 0..MaxPushes + 1
    BY DEF J!Init, J!Commits, JobsAssumption
  <2> QED
    BY <1>1, <2>1, <2>2 DEF J!Init, J!TypeOK
<1>3. reg.dep => reg.vol /\ (reg = J!Whole \/ broken)
  BY <1>a DEF J!NoRegistry, J!Older, J!Whole
<1>4. RegistryInv
  BY <1>1, <1>2, <1>3 DEF J!Init, RegistryInv
<1>5. \A b \in Builds : build[b] = J!NoCall /\ jobPod[b] = J!NoPod
  BY DEF J!Init
<1>6. \A n \in J!Names : buildJob[n] = NoBuild
  BY DEF J!Init
<1>7. head = 1 /\ fresh = {}
  BY DEF J!Init
<1>8. \A b \in Builds : ~ build[b].pc \in {"watch", "wait"}
  BY <1>1, <1>5
<1> HIDE DEF J!Init
<1>9. ImageInv
  BY <1>1, <1>2, <1>5, <1>6, <1>7, <1>8 DEF JobsAssumption, ImageInv, Numbered, Begun, NotOlder, Told, Waits,
     Belongs
<1> QED
  BY <1>4, <1>9

(* The steps of the builds, and those of everybody else.                   *)
BuildStep(b) ==
  \/ J!Begin(b) \/ J!Look(b) \/ J!MakeVolume(b) \/ J!MakeDeployment(b) \/ J!MakeService(b)
  \/ J!DeleteOld(b) \/ J!CreateJob(b) \/ J!Watch(b) \/ J!Finish(b) \/ J!Break(b)
  \/ J!Clone(b) \/ J!PushImage(b) \/ J!Settle(b) \/ J!Reap(b)

LEMMA JobsSteps ==
  ASSUME J!Next
  PROVE  (\E b \in Builds : BuildStep(b)) \/ J!CancelBuild \/ J!Expire \/ J!Push
BY Zenon DEF J!Next, BuildStep

LEMMA BuildTypes ==
  ASSUME JobsAssumption, J!TypeOK, NEW b \in Builds
  PROVE  /\ build[b] \in J!Call /\ jobPod[b] \in J!Pod /\ build[b].tag \in J!Tags
         /\ \A pc \in {"look", "volume", "deployment", "service", "old", "create", "watch", "wait", "over"} :
              /\ [build[b] EXCEPT !.pc = pc] \in J!Call
              /\ \A t \in J!Tags : [build[b] EXCEPT !.pc = pc, !.tag = t] \in J!Call
              /\ \A r \in {"ok", "failed"} : [build[b] EXCEPT !.pc = pc, !.res = r] \in J!Call
              /\ \A o \in {NoBuild, "complete", "failed"} : [build[b] EXCEPT !.pc = pc, !.seen = o] \in J!Call
         /\ \A o \in {"complete", "failed"} : [build[b] EXCEPT !.seen = o] \in J!Call
         /\ [jobPod[b] EXCEPT !.doomed = TRUE] \in J!Pod
         /\ \A ph \in {"waits", "clones", "pushed", "complete", "failed"} :
              /\ [jobPod[b] EXCEPT !.phase = ph] \in J!Pod
              /\ \A k \in J!Commits : [jobPod[b] EXCEPT !.phase = ph, !.got = k] \in J!Pod
<1> DEFINE c == build[b]
           p == jobPod[b]
           PCs == {"look", "volume", "deployment", "service", "old", "create", "watch", "wait", "over"}
<1>1. c \in J!Call /\ p \in J!Pod
  BY DEF J!TypeOK
<1> HIDE DEF c, p
<1>2. /\ c.tag \in J!Tags
      /\ \A pc \in PCs : [c EXCEPT !.pc = pc] \in J!Call
  BY <1>1 DEF J!Call
<1>3. \A pc \in PCs, t \in J!Tags : [c EXCEPT !.pc = pc, !.tag = t] \in J!Call
  BY <1>1 DEF J!Call
<1>4. /\ \A pc \in PCs, r \in {"ok", "failed"} : [c EXCEPT !.pc = pc, !.res = r] \in J!Call
      /\ \A pc \in PCs, o \in {NoBuild, "complete", "failed"} : [c EXCEPT !.pc = pc, !.seen = o] \in J!Call
      /\ \A o \in {"complete", "failed"} : [c EXCEPT !.seen = o] \in J!Call
  BY <1>1 DEF J!Call
<1>5. /\ [p EXCEPT !.doomed = TRUE] \in J!Pod
      /\ \A ph \in {"waits", "clones", "pushed", "complete", "failed"} :
           /\ [p EXCEPT !.phase = ph] \in J!Pod
           /\ \A k \in J!Commits : [p EXCEPT !.phase = ph, !.got = k] \in J!Pod
  BY <1>1 DEF J!Pod
<1> QED
  BY <1>1, <1>2, <1>3, <1>4, <1>5 DEF c, p

LEMMA JobNames ==
  ASSUME JobsAssumption, J!TypeOK, NEW b \in Builds
  PROVE  J!JobName(b) \in J!Names /\ (~ long => J!JobName(b) = build[b].tag)
BY BuildTypes DEF J!JobName, J!Names, J!Tagged

(* The deletion of Jobs.                                                   *)
LEMMA WithoutTypes ==
  ASSUME JobsAssumption, J!TypeOK, NEW names, J!Without(names)
  PROVE  /\ buildJob' \in [J!Names -> Builds \cup {NoBuild}] /\ jobPod' \in [Builds -> J!Pod]
         /\ \A n \in J!Names : buildJob'[n] = NoBuild \/ buildJob'[n] = buildJob[n]
         /\ \A b \in Builds : jobPod'[b].phase = jobPod[b].phase /\ jobPod'[b].got = jobPod[b].got
<1>1. \A b \in Builds : jobPod[b] \in J!Pod /\ [jobPod[b] EXCEPT !.doomed = TRUE] \in J!Pod
  BY BuildTypes
<1>2. \A b \in Builds : jobPod'[b] = jobPod[b] \/ jobPod'[b] = [jobPod[b] EXCEPT !.doomed = TRUE]
  BY DEF J!Without
<1>3. jobPod' \in [Builds -> J!Pod]
  BY <1>1 DEF J!Without
<1>4. buildJob' \in [J!Names -> Builds \cup {NoBuild}] /\ \A n \in J!Names : buildJob'[n] = NoBuild \/ buildJob'[n] = buildJob[n]
  BY DEF J!Without, J!TypeOK
<1> QED
  BY <1>1, <1>2, <1>3, <1>4 DEF J!Pod

LEMMA JobsTypes ==
  ASSUME JobsAssumption, J!TypeOK, [J!Next]_J!vars
  PROVE  J!TypeOK'
<1> USE DEF J!TypeOK
<1>1. ASSUME NEW b \in Builds, BuildStep(b) PROVE J!TypeOK'
  <2>0. /\ build[b] \in J!Call /\ jobPod[b] \in J!Pod /\ build[b].tag \in J!Tags
        /\ \A pc \in {"look", "volume", "deployment", "service", "old", "create", "watch", "wait", "over"} :
              /\ [build[b] EXCEPT !.pc = pc] \in J!Call
              /\ \A t \in J!Tags : [build[b] EXCEPT !.pc = pc, !.tag = t] \in J!Call
              /\ \A r \in {"ok", "failed"} : [build[b] EXCEPT !.pc = pc, !.res = r] \in J!Call
              /\ \A o \in {NoBuild, "complete", "failed"} : [build[b] EXCEPT !.pc = pc, !.seen = o] \in J!Call
        /\ \A ph \in {"waits", "clones", "pushed", "complete", "failed"} :
              /\ [jobPod[b] EXCEPT !.phase = ph] \in J!Pod
              /\ \A k \in J!Commits : [jobPod[b] EXCEPT !.phase = ph, !.got = k] \in J!Pod
    BY BuildTypes
  <2>1. CASE J!Begin(b)
    <3>1. PICK t \in ({"commit"} \X (1..head)) \cup ({"second"} \X BuildSeconds) :
            build' = [build EXCEPT ![b].pc = "look", ![b].tag = t]
      BY <2>1 DEF J!Begin
    <3>2. 1..head \subseteq J!Commits
      BY DEF J!Commits, JobsAssumption
    <3>3. t \in J!Tags
      BY <3>2 DEF J!Tags
    <3> QED
      BY <2>0, <2>1, <3>1, <3>3 DEF J!Begin, J!cluster
  <2>2. CASE J!Look(b) \/ J!MakeVolume(b) \/ J!MakeService(b)
    <3>1. build' \in [Builds -> J!Call]
      BY <2>0, <2>2 DEF J!Look, J!MakeVolume, J!MakeService, J!Goto
    <3>2. reg' \in [vol : BOOLEAN, dep : BOOLEAN, svc : {"none", "internal", "node"}]
      BY <2>2 DEF J!Look, J!MakeVolume, J!MakeService
    <3> QED
      BY <2>2, <3>1, <3>2 DEF J!Look, J!MakeVolume, J!MakeService, J!cluster
  <2>3. CASE J!MakeDeployment(b) \/ J!Break(b) \/ J!Finish(b)
    <3>1. build' \in [Builds -> J!Call]
      BY <2>0, <2>3 DEF J!MakeDeployment, J!Break, J!Finish, J!Goto, J!Fail
    <3>2. reg' \in [vol : BOOLEAN, dep : BOOLEAN, svc : {"none", "internal", "node"}] /\ broken' \in BOOLEAN
      BY <2>3 DEF J!MakeDeployment, J!Break, J!Finish, J!At
    <3> QED
      BY <2>3, <3>1, <3>2 DEF J!MakeDeployment, J!Break, J!Finish, J!cluster
  <2>4. CASE J!DeleteOld(b)
    <3>1. buildJob' \in [J!Names -> Builds \cup {NoBuild}] /\ jobPod' \in [Builds -> J!Pod]
      BY <2>4, WithoutTypes DEF J!DeleteOld
    <3> QED
      BY <2>0, <2>4, <3>1 DEF J!DeleteOld, J!Goto
  <2>5. CASE J!CreateJob(b)
    <3>1. build' \in [Builds -> J!Call]
      BY <2>0, <2>5 DEF J!CreateJob, J!Goto, J!Fail
    <3>2. J!JobName(b) \in J!Names
      BY JobNames
    <3>3. buildJob' \in [J!Names -> Builds \cup {NoBuild}] /\ jobPod' \in [Builds -> J!Pod]
      BY <2>0, <2>5, <3>2 DEF J!CreateJob
    <3> QED
      BY <2>5, <3>1, <3>3 DEF J!CreateJob
  <2>6. CASE J!Watch(b)
    <3>1. J!Outcome(J!JobName(b)) \in {NoBuild, "complete", "failed"}
      BY DEF J!Outcome
    <3> QED
      BY <2>0, <2>6, <3>1 DEF J!Watch, J!cluster
  <2>7. CASE J!Clone(b) \/ J!Reap(b)
    <3>1. jobPod' \in [Builds -> J!Pod]
      BY <2>0, <2>7 DEF J!Clone, J!Reap
    <3> QED
      BY <2>7, <3>1 DEF J!Clone, J!Reap
  <2>8. CASE J!PushImage(b)
    <3>1. jobPod[b].got \in 1..MaxPushes + 1
      BY <2>0 DEF J!Pod, J!Commits
    <3>a. jobPod[b].got \in 0..MaxPushes + 1
      BY <3>1
    <3>2. image' \in [J!Tags -> 0..MaxPushes + 1]
      BY <2>0, <2>8, <3>a DEF J!PushImage
    <3>3. jobPod' \in [Builds -> J!Pod] /\ fresh' \subseteq Builds
      BY <2>0, <2>8 DEF J!PushImage
    <3> QED
      BY <2>8, <3>2, <3>3 DEF J!PushImage
  <2>9. CASE J!Settle(b)
    <3>1. \A c \in Builds : build[c] \in J!Call /\ \A o \in {"complete", "failed"} : [build[c] EXCEPT !.seen = o] \in J!Call
      BY BuildTypes
    <3>2. PICK end \in {"complete", "failed"} :
            /\ jobPod' = [jobPod EXCEPT ![b].phase = end]
            /\ build' = [c \in Builds |->
                          IF J!At(c, "wait") /\ build[c].seen = NoBuild /\ buildJob[J!JobName(c)] = b
                          THEN [build[c] EXCEPT !.seen = end] ELSE build[c]]
      BY <2>9 DEF J!Settle
    <3>3. build' \in [Builds -> J!Call]
      BY <3>1, <3>2
    <3>4. jobPod' \in [Builds -> J!Pod]
      BY <2>0, <3>2
    <3> QED
      BY <2>9, <3>3, <3>4 DEF J!Settle
  <2> QED
    BY <1>1, <2>1, <2>2, <2>3, <2>4, <2>5, <2>6, <2>7, <2>8, <2>9 DEF BuildStep
<1>2. CASE J!CancelBuild
  BY <1>2, WithoutTypes DEF J!CancelBuild
<1>3. CASE J!Expire
  BY <1>3, WithoutTypes DEF J!Expire
<1>4. CASE J!Push
  BY <1>4 DEF J!Push, J!Commits, J!cluster, JobsAssumption
<1>5. CASE UNCHANGED J!vars
  BY <1>5 DEF J!vars
<1> QED
  BY <1>1, <1>2, <1>3, <1>4, <1>5, JobsSteps

LEMMA RegistryStep ==
  ASSUME JobsAssumption, RegistryInv, [J!Next]_J!vars
  PROVE  RegistryInv'
<1>0. J!TypeOK /\ J!TypeOK' /\ \A b \in Builds : build[b] \in J!Call
  BY JobsTypes, BuildTypes DEF RegistryInv
<1> DEFINE Beyond == {"service", "old", "create", "watch", "wait"}
(* Where a build is after its step.                                        *)
<1>1. ASSUME NEW b \in Builds, NEW pc, J!Goto(b, pc)
      PROVE  build'[b].pc = pc /\ \A c \in Builds \ {b} : build'[c] = build[c]
  BY <1>0, <1>1 DEF J!Goto, J!TypeOK, J!Call
<1>2. ASSUME NEW b \in Builds, J!Fail(b)
      PROVE  build'[b].pc = "over" /\ \A c \in Builds \ {b} : build'[c] = build[c]
  BY <1>0, <1>2 DEF J!Fail, J!TypeOK, J!Call
(* A step that leaves the registry alone and passes no gate.               *)
<1>3. ASSUME UNCHANGED <<reg, broken>>,
             \A b \in Builds :
               /\ build'[b].pc = "deployment" => build[b].pc = "deployment" \/ reg.vol
               /\ build[b].pc = "service" => build'[b].pc = "service"
               /\ build'[b].pc \in Beyond => build[b].pc \in Beyond \/ reg.dep
      PROVE  RegistryInv'
  <2>1. \A b \in Builds : build'[b].pc = "deployment" => reg'.vol
    BY <1>3 DEF RegistryInv
  <2>2. \A b \in Builds : build'[b].pc \in Beyond => reg'.dep
    BY <1>3 DEF RegistryInv
  <2>3. reg.dep => reg.vol /\ (reg = J!Whole \/ broken \/ \E c \in Builds : build[c].pc = "service")
    BY DEF RegistryInv
  <2>4. (\E c \in Builds : build[c].pc = "service") => \E c \in Builds : build'[c].pc = "service"
    BY <1>3
  <2> QED
    BY <1>0, <1>3, <2>1, <2>2, <2>3, <2>4 DEF RegistryInv, J!Whole
<1>4. ASSUME NEW b \in Builds, BuildStep(b) PROVE RegistryInv'
  <2>1. CASE J!Begin(b)
    <3>1. build[b].pc = "free" /\ build'[b].pc = "look" /\ \A c \in Builds \ {b} : build'[c] = build[c]
      BY <1>0, <2>1 DEF J!Begin, J!At, J!TypeOK, J!Call
    <3> QED
      BY <1>3, <2>1, <3>1 DEF J!Begin
  <2>2. CASE J!Look(b)
    <3>1. build[b].pc = "look" /\ UNCHANGED <<reg, broken>> /\ J!Goto(b, IF reg.dep THEN "old" ELSE "volume")
      BY <2>2 DEF J!Look, J!At, J!Installed
    <3> QED
      BY <1>1, <1>3, <3>1
  <2>3. CASE J!MakeVolume(b)
    <3>1. /\ build[b].pc = "volume" /\ build'[b].pc = "deployment"
          /\ \A c \in Builds \ {b} : build'[c] = build[c]
      BY <1>1, <2>3 DEF J!MakeVolume, J!At
    <3>a. reg'.vol /\ reg'.dep = reg.dep /\ UNCHANGED broken
      BY <1>0, <2>3 DEF J!MakeVolume, J!TypeOK
    <3>b. reg.vol => reg' = reg
      BY <1>0, <2>3 DEF J!MakeVolume, J!TypeOK
    <3>2. reg = J!Whole => reg' = J!Whole
      BY <3>b DEF J!Whole
    <3> QED
      BY <1>0, <3>1, <3>a, <3>2 DEF RegistryInv
  <2>4. CASE J!MakeDeployment(b)
    <3>1. build[b].pc = "deployment" /\ UNCHANGED broken /\ reg.vol
      BY <2>4 DEF J!MakeDeployment, J!At, RegistryInv
    <3>2. reg'.vol = reg.vol /\ reg'.dep /\ (reg.dep => reg' = reg)
      BY <1>0, <2>4 DEF J!MakeDeployment, J!TypeOK
    <3>3. CASE reg.dep /\ J!Fail(b)
      BY <1>2, <1>3, <3>1, <3>2, <3>3
    <3>4. CASE ~ reg.dep /\ J!Goto(b, "service")
      <4>1. build'[b].pc = "service" /\ \A c \in Builds \ {b} : build'[c] = build[c]
        BY <1>1, <3>4
      <4> QED
        BY <1>0, <3>1, <3>2, <4>1 DEF RegistryInv
    <3> QED
      BY <2>4, <3>3, <3>4 DEF J!MakeDeployment
  <2>5. CASE J!MakeService(b)
    <3>1. /\ build[b].pc = "service" /\ UNCHANGED broken /\ build'[b].pc = "old"
          /\ \A c \in Builds \ {b} : build'[c] = build[c]
      BY <1>1, <2>5 DEF J!MakeService, J!At
    <3>2. reg.dep /\ reg.vol
      BY <3>1 DEF RegistryInv
    <3>3. reg' = J!Whole
      BY <1>0, <2>5, <3>2 DEF J!MakeService, J!TypeOK, J!Whole
    <3>4. reg'.vol /\ reg'.dep
      BY <3>3 DEF J!Whole
    <3> QED
      BY <1>0, <3>1, <3>2, <3>3, <3>4 DEF RegistryInv
  <2>6. CASE J!DeleteOld(b) \/ J!CreateJob(b)
    <3>1. build[b].pc \in {"old", "create"} /\ UNCHANGED <<reg, broken>>
          /\ (J!Goto(b, "create") \/ J!Goto(b, "watch") \/ J!Fail(b))
      BY <2>6 DEF J!DeleteOld, J!CreateJob, J!At
    <3>2. build'[b].pc \in {"create", "watch", "over"} /\ \A c \in Builds \ {b} : build'[c] = build[c]
      BY <1>1, <1>2, <3>1
    <3> QED
      BY <1>3, <3>1, <3>2
  <2>7. CASE J!Watch(b) \/ J!Finish(b)
    <3>1. /\ build[b].pc \in {"watch", "wait"} /\ UNCHANGED <<reg, broken>>
          /\ build'[b].pc \in {"wait", "over"} /\ \A c \in Builds \ {b} : build'[c] = build[c]
      BY <1>0, <2>7 DEF J!Watch, J!Finish, J!At, J!TypeOK, J!Call
    <3> QED
      BY <1>3, <3>1
  <2>8. CASE J!Break(b)
    <3>1. /\ UNCHANGED reg /\ build'[b].pc = "over" /\ \A c \in Builds \ {b} : build'[c] = build[c]
          /\ broken' = (broken \/ build[b].pc = "service")
      BY <1>2, <2>8 DEF J!Break, J!At
    <3> QED
      BY <1>0, <3>1 DEF RegistryInv
  <2>9. CASE J!Clone(b) \/ J!PushImage(b) \/ J!Reap(b)
    <3>1. UNCHANGED <<reg, broken, build>>
      BY <2>9 DEF J!Clone, J!PushImage, J!Reap
    <3> QED
      BY <1>3, <3>1
  <2>10. CASE J!Settle(b)
    <3>1. ASSUME NEW c \in Builds PROVE build'[c].pc = build[c].pc
      BY <1>0, <2>10 DEF J!Settle, J!Call
    <3> QED
      BY <1>3, <2>10, <3>1 DEF J!Settle
  <2> QED
    BY <1>4, <2>1, <2>2, <2>3, <2>4, <2>5, <2>6, <2>7, <2>8, <2>9, <2>10 DEF BuildStep
<1>5. CASE J!CancelBuild \/ J!Expire \/ J!Push \/ UNCHANGED J!vars
  <2>1. UNCHANGED <<reg, broken, build>>
    BY <1>5 DEF J!CancelBuild, J!Expire, J!Push, J!vars
  <2> QED
    BY <1>3, <2>1
<1> QED
  BY <1>4, <1>5, JobsSteps

(* A call gets past EnsureRegistry with a whole registry only, unless a    *)
(* call broke off or is about to make the Service (RegistryIsWhole).       *)
THEOREM JobsRegistryIsWhole ==
  ASSUME JobsAssumption
  PROVE  J!Spec => []RegistryIsWhole
<1>1. J!Init => RegistryInv
  BY JobsInit
<1>2. RegistryInv /\ [J!Next]_J!vars => RegistryInv'
  BY RegistryStep
<1>3. RegistryInv => RegistryIsWhole
  BY DEF RegistryInv, RegistryIsWhole, J!RegistryIsWhole, J!At
<1> QED
  BY <1>1, <1>2, <1>3, PTL DEF J!Spec

(* Steps that push no image: Jobs are deleted, pods end, commits are       *)
(* pushed, and the calls that are told of an image have had it pushed.     *)
QuietPod(b) ==
  /\ jobPod'[b].phase = "none" <=> jobPod[b].phase = "none"
  /\ jobPod'[b].phase \in {"clones", "pushed"} => jobPod[b].phase \in {"clones", "pushed"}
  /\ jobPod'[b].phase \in {"pushed", "complete"} => Pushed(b)
  /\ jobPod'[b].got = jobPod[b].got
QuietCall(b) ==
  /\ build'[b].tag = build[b].tag
  /\ build[b].pc = "free" => build'[b] = build[b]
  /\ build'[b].pc = "free" => build[b].pc = "free"
  /\ build'[b].pc \in {"watch", "wait"} => build[b].pc \in {"watch", "wait"}
  /\ ~ long /\ build'[b].seen = "complete" => build[b].seen = "complete" \/ b \in fresh
  /\ build'[b].res = "ok" => build[b].res = "ok" \/ build[b].seen = "complete"
QuietRest ==
  /\ UNCHANGED <<long, image, fresh>> /\ head' >= head
  /\ \A n \in J!Names : buildJob'[n] = NoBuild \/ buildJob'[n] = buildJob[n]

LEMMA TagNumbers ==
  ASSUME JobsAssumption, J!TypeOK, NEW b \in Builds
  PROVE  /\ Numbered(build[b].tag) => build[b].tag[2] \in Nat
         /\ head \in Nat /\ jobPod[b].got \in Nat /\ image[build[b].tag] \in Nat
<1>1. build[b].tag \in J!Tags /\ jobPod[b] \in J!Pod
  BY BuildTypes
<1>2. \A t \in J!Tags : Numbered(t) => t[2] \in J!Commits
  BY DEF J!Tags, Numbered
<1>3. image[build[b].tag] \in 0..MaxPushes + 1
  BY <1>1 DEF J!TypeOK
<1> QED
  BY <1>1, <1>2, <1>3 DEF JobsAssumption, J!TypeOK, J!Pod, J!Commits

LEMMA QuietStep ==
  ASSUME JobsAssumption, ImageInv, J!TypeOK', QuietRest, \A b \in Builds : QuietPod(b) /\ QuietCall(b)
  PROVE  ImageInv'
<1>1. ASSUME NEW b \in Builds PROVE Begun(b)' /\ NotOlder(b)' /\ Told(b)'
  <2>1. /\ Begun(b) /\ NotOlder(b) /\ Told(b) /\ QuietPod(b) /\ QuietCall(b)
        /\ UNCHANGED <<long, image, fresh>> /\ head' >= head
        /\ Numbered(build[b].tag) => build[b].tag[2] \in Nat
        /\ head \in Nat /\ head' \in Nat
    BY <1>1, TagNumbers DEF ImageInv, QuietRest, J!TypeOK, J!Commits
  <2>2. Numbered(build'[b].tag) => build'[b].tag[2] <= head'
    BY <2>1 DEF QuietCall, Begun
  <2>3. Begun(b)'
    BY <2>1, <2>2 DEF Begun, QuietPod, QuietCall
  <2>4. NotOlder(b)'
    BY <2>1 DEF NotOlder, QuietPod, QuietCall
  <2> QED
    BY <2>1, <2>3, <2>4 DEF Told, QuietCall
<1>2. ASSUME NEW b \in Builds PROVE Waits(b)'
  <2>1. Waits(b) /\ QuietCall(b) /\ UNCHANGED <<long, fresh>> /\ build[b].tag \in J!Names
    BY <1>2, BuildTypes DEF ImageInv, QuietRest, J!Names
  <2>2. buildJob'[build[b].tag] = NoBuild \/ buildJob'[build[b].tag] = buildJob[build[b].tag]
    BY <2>1 DEF QuietRest
  <2>3. buildJob[build[b].tag] \in Builds \cup {NoBuild}
    BY <2>1 DEF ImageInv, J!TypeOK
  <2> SUFFICES ASSUME build[b].pc \in {"watch", "wait"}, ~ long, buildJob'[build[b].tag] # NoBuild,
                      jobPod'[buildJob'[build[b].tag]].phase \in {"pushed", "complete"}
               PROVE  b \in fresh
    BY <2>1 DEF Waits, QuietCall, Pushed
  <2>4. PICK d \in Builds : d = buildJob[build[b].tag] /\ d = buildJob'[build[b].tag]
    BY <2>2, <2>3
  <2>5. Pushed(d)
    BY <2>4 DEF QuietPod
  <2> QED
    BY <2>1, <2>4, <2>5 DEF Waits, JobsAssumption
<1>3. ASSUME NEW n \in J!Names PROVE Belongs(n)'
  <2>1. Belongs(n) /\ (buildJob'[n] = NoBuild \/ buildJob'[n] = buildJob[n]) /\ buildJob[n] \in Builds \cup {NoBuild} /\ UNCHANGED long
    BY <1>3 DEF ImageInv, QuietRest, J!TypeOK
  <2>2. CASE buildJob'[n] = NoBuild
    BY <2>2 DEF Belongs
  <2>3. CASE buildJob'[n] # NoBuild
    <3>1. PICK d \in Builds : d = buildJob[n] /\ d = buildJob'[n]
      BY <2>1, <2>3
    <3>2. jobPod[d].phase # "none" /\ J!JobName(d) = n
      BY <2>1, <2>3, <3>1 DEF Belongs
    <3>3. jobPod'[d].phase # "none" /\ build'[d].tag = build[d].tag
      BY <3>2 DEF QuietPod, QuietCall
    <3>4. J!JobName(d)' = n
      BY <2>1, <3>2, <3>3 DEF J!JobName, J!Tagged
    <3> QED
      BY <3>1, <3>3, <3>4 DEF Belongs, J!JobName
  <2> QED
    BY <2>2, <2>3
<1> QED
  BY <1>1, <1>2, <1>3 DEF ImageInv, J!Names, J!Tags, J!Commits, J!Cut

LEMMA ImageStep ==
  ASSUME JobsAssumption, ImageInv, [J!Next]_J!vars
  PROVE  ImageInv'
<1>0. J!TypeOK /\ J!TypeOK'
  BY JobsTypes DEF ImageInv
<1>1. ASSUME NEW b \in Builds
      PROVE  /\ build[b] \in J!Call /\ jobPod[b] \in J!Pod /\ build[b].tag \in J!Tags
             /\ J!JobName(b) \in J!Names /\ (~ long => J!JobName(b) = build[b].tag)
             /\ Begun(b) /\ NotOlder(b) /\ Told(b) /\ Waits(b) /\ head \in Nat
  BY <1>0, <1>1, BuildTypes, JobNames, TagNumbers DEF ImageInv
<1>2. ASSUME NEW b \in Builds, UNCHANGED build[b] PROVE QuietCall(b)
  BY <1>2 DEF QuietCall
<1>3. ASSUME NEW b \in Builds, UNCHANGED jobPod[b] PROVE QuietPod(b)
  BY <1>3 DEF QuietPod, Pushed
(* The steps of a call up to its Job.                                      *)
<1>4. ASSUME NEW b \in Builds, NEW pc, J!Goto(b, pc) \/ J!Fail(b), build[b].pc # "free", pc # "free",
             pc \in {"watch", "wait"} => build[b].pc \in {"watch", "wait"}
      PROVE  \A c \in Builds : QuietCall(c)
  <2>1. \A c \in Builds \ {b} : build'[c] = build[c]
    BY <1>0, <1>4 DEF J!Goto, J!Fail, J!TypeOK
  <2>2. QuietCall(b)
    BY <1>0, <1>1, <1>4 DEF QuietCall, J!Goto, J!Fail, J!TypeOK, J!Call
  <2> QED
    BY <1>2, <2>1, <2>2
<1>5. ASSUME UNCHANGED <<head, long, image, fresh, buildJob, jobPod>>, \A c \in Builds : QuietCall(c)
      PROVE  ImageInv'
  <2>1. QuietRest
    BY <1>0, <1>5 DEF QuietRest, J!TypeOK, J!Commits
  <2> QED
    BY <1>0, <1>3, <1>5, <2>1, QuietStep
<1>6. ASSUME NEW names, J!Without(names), UNCHANGED <<head, long, image, fresh>>,
             \A c \in Builds : QuietCall(c)
      PROVE  ImageInv'
  <2>1. QuietRest
    BY <1>0, <1>6, WithoutTypes DEF QuietRest, J!TypeOK, J!Commits
  <2>2. \A c \in Builds : QuietPod(c)
    BY <1>0, <1>6, WithoutTypes DEF QuietPod, Pushed
  <2> QED
    BY <1>0, <1>6, <2>1, <2>2, QuietStep
<1>7. ASSUME NEW b \in Builds, BuildStep(b) PROVE ImageInv'
  <2>0. Begun(b) /\ NotOlder(b) /\ Told(b) /\ Waits(b) /\ build[b] \in J!Call /\ jobPod[b] \in J!Pod
    BY <1>1, <1>7
  <2>1. CASE J!Look(b) \/ J!MakeVolume(b) \/ J!MakeDeployment(b) \/ J!MakeService(b) \/ J!Break(b)
    <3>1. UNCHANGED <<head, long, image, fresh, buildJob, jobPod>> /\ build[b].pc # "free"
      BY <2>1 DEF J!Look, J!MakeVolume, J!MakeDeployment, J!MakeService, J!Break, J!At, J!cluster
    <3>2. \E pc \in {"old", "volume", "deployment", "service"} : J!Goto(b, pc) \/ J!Fail(b)
      BY <2>1 DEF J!Look, J!MakeVolume, J!MakeDeployment, J!MakeService, J!Break
    <3> QED
      BY <1>4, <1>5, <3>1, <3>2
  <2>2. CASE J!DeleteOld(b)
    <3>1. \A c \in Builds : QuietCall(c)
      BY <1>4, <2>2 DEF J!DeleteOld, J!At
    <3> QED
      BY <1>5, <1>6, <2>2, <3>1 DEF J!DeleteOld
  <2>3. CASE J!Watch(b)
    <3>1. \A c \in Builds \ {b} : build'[c] = build[c]
      BY <1>0, <2>3 DEF J!Watch, J!TypeOK
    <3>2. /\ build[b].pc = "watch" /\ build'[b].pc = "wait" /\ build'[b].tag = build[b].tag
          /\ build'[b].res = build[b].res /\ build'[b].seen = J!Outcome(J!JobName(b))
      BY <1>0, <2>0, <2>3 DEF J!Watch, J!At, J!TypeOK, J!Call
    <3>3. ~ long /\ build'[b].seen = "complete" => b \in fresh
      BY <1>1, <2>0, <3>2 DEF J!Outcome, Waits, Pushed, JobsAssumption
    <3>4. QuietCall(b)
      BY <3>2, <3>3 DEF QuietCall
    <3> QED
      BY <1>2, <1>5, <2>3, <3>1, <3>4 DEF J!Watch, J!cluster
  <2>4. CASE J!Finish(b)
    <3>1. \A c \in Builds \ {b} : build'[c] = build[c]
      BY <1>0, <2>4 DEF J!Finish, J!TypeOK
    <3>2. QuietCall(b)
      BY <1>0, <2>0, <2>4 DEF J!Finish, J!At, J!TypeOK, J!Call, QuietCall
    <3> QED
      BY <1>2, <1>5, <2>4, <3>1, <3>2 DEF J!Finish, J!cluster
  <2>5. CASE J!Settle(b)
    <3>1. PICK end \in {"complete", "failed"} :
            /\ jobPod[b].phase = "pushed" \/ (jobPod[b].phase \in {"waits", "clones"} /\ end = "failed")
            /\ jobPod' = [jobPod EXCEPT ![b].phase = end]
            /\ build' = [c \in Builds |->
                          IF J!At(c, "wait") /\ build[c].seen = NoBuild /\ buildJob[J!JobName(c)] = b
                          THEN [build[c] EXCEPT !.seen = end] ELSE build[c]]
      BY <2>5 DEF J!Settle
    <3>2. \A c \in Builds : QuietPod(c)
      <4>1. \A c \in Builds \ {b} : jobPod'[c] = jobPod[c]
        BY <1>0, <3>1 DEF J!TypeOK
      <4>2. jobPod'[b].phase = end /\ jobPod'[b].got = jobPod[b].got
        BY <1>0, <2>0, <3>1 DEF J!TypeOK, J!Pod
      <4>3. QuietPod(b)
        BY <3>1, <4>2 DEF QuietPod, Pushed
      <4> QED
        BY <1>3, <4>1, <4>3
    <3>3. ASSUME NEW c \in Builds PROVE QuietCall(c)
      <4>1. CASE J!At(c, "wait") /\ build[c].seen = NoBuild /\ buildJob[J!JobName(c)] = b
        <5>1. /\ build'[c].tag = build[c].tag /\ build'[c].pc = "wait" /\ build[c].pc = "wait"
              /\ build'[c].seen = end /\ build'[c].res = build[c].res
          BY <1>1, <3>1, <3>3, <4>1 DEF J!At, J!Call
        <5>2. ~ long /\ end = "complete" => c \in fresh
          BY <1>1, <3>1, <3>3, <4>1, <5>1 DEF Waits, Pushed, JobsAssumption
        <5> QED
          BY <5>1, <5>2 DEF QuietCall
      <4>2. CASE ~ (J!At(c, "wait") /\ build[c].seen = NoBuild /\ buildJob[J!JobName(c)] = b)
        BY <1>2, <3>1, <3>3, <4>2
      <4> QED
        BY <4>1, <4>2
    <3>4. QuietRest
      BY <1>0, <2>5 DEF J!Settle, QuietRest, J!TypeOK, J!Commits
    <3> QED
      BY <1>0, <3>2, <3>3, <3>4, QuietStep
  <2>6. CASE J!Reap(b)
    <3>1. \A c \in Builds \ {b} : jobPod'[c] = jobPod[c]
      BY <1>0, <2>6 DEF J!Reap, J!TypeOK
    <3>2. jobPod'[b].phase = "failed" /\ jobPod'[b].got = jobPod[b].got /\ jobPod[b].phase # "none"
      BY <1>0, <2>0, <2>6 DEF J!Reap, J!TypeOK, J!Pod
    <3>3. \A c \in Builds : QuietPod(c)
      BY <1>3, <3>1, <3>2 DEF QuietPod
    <3>4. QuietRest
      BY <1>0, <2>6 DEF J!Reap, QuietRest, J!TypeOK, J!Commits
    <3> QED
      BY <1>0, <1>2, <2>6, <3>3, <3>4, QuietStep DEF J!Reap
  <2>7. CASE J!Begin(b)
    <3>1. PICK t \in ({"commit"} \X (1..head)) \cup ({"second"} \X BuildSeconds) :
            build' = [build EXCEPT ![b].pc = "look", ![b].tag = t]
      BY <2>7 DEF J!Begin
    <3>2. /\ UNCHANGED <<head, long, image, buildJob, jobPod>> /\ fresh' = fresh \ {b} /\ build[b].pc = "free"
          /\ \A c \in Builds \ {b} : build'[c] = build[c]
          /\ build'[b] = [build[b] EXCEPT !.pc = "look", !.tag = t]
      BY <1>0, <2>7, <3>1 DEF J!Begin, J!At, J!cluster, J!TypeOK
    <3>3. /\ build'[b].pc = "look" /\ build'[b].tag = t /\ build'[b].seen = NoBuild /\ build'[b].res = NoBuild
          /\ jobPod[b].phase = "none"
      BY <2>0, <3>2 DEF J!Call, Begun
    <3>4. Numbered(t) => t[2] <= head
      BY DEF Numbered
    <3>5. Begun(b)' /\ NotOlder(b)' /\ Told(b)' /\ Waits(b)'
      BY <3>2, <3>3, <3>4 DEF JobsAssumption, Begun, NotOlder, Told, Waits
    <3>6. ASSUME NEW c \in Builds, c # b PROVE Begun(c)' /\ NotOlder(c)' /\ Told(c)' /\ Waits(c)'
      <4>1. build'[c] = build[c] /\ (c \in fresh' <=> c \in fresh)
        BY <3>2, <3>6
      <4> QED
        BY <1>1, <3>2, <4>1 DEF Begun, NotOlder, Told, Waits, Pushed
    <3>7. ASSUME NEW n \in J!Names PROVE Belongs(n)'
      <4>1. CASE buildJob[n] = NoBuild
        BY <3>2, <4>1 DEF Belongs
      <4>2. CASE buildJob[n] # NoBuild
        <5>1. PICK d \in Builds : d = buildJob[n]
          BY <1>0, <4>2 DEF J!TypeOK
        <5>2. jobPod[d].phase # "none" /\ J!JobName(d) = n
          BY <4>2, <5>1 DEF ImageInv, Belongs
        <5>3. build'[d] = build[d]
          BY <3>2, <3>3, <5>2
        <5> QED
          BY <3>2, <5>1, <5>2, <5>3 DEF Belongs, J!JobName, J!Tagged
      <4> QED
        BY <4>1, <4>2
    <3> QED
      BY <1>0, <3>5, <3>6, <3>7 DEF ImageInv, J!Names, J!Tags, J!Commits, J!Cut
  <2>8. CASE J!CreateJob(b)
    <3>1. CASE buildJob[J!JobName(b)] # NoBuild
      BY <1>4, <1>5, <2>8, <3>1 DEF J!CreateJob, J!At
    <3>2. CASE buildJob[J!JobName(b)] = NoBuild
      <4>1. /\ UNCHANGED <<head, long, image, fresh>> /\ build[b].pc = "create"
            /\ \A c \in Builds \ {b} : build'[c] = build[c] /\ jobPod'[c] = jobPod[c]
            /\ build'[b] = [build[b] EXCEPT !.pc = "watch"]
            /\ jobPod'[b] = [jobPod[b] EXCEPT !.phase = "waits"]
            /\ buildJob' = [buildJob EXCEPT ![J!JobName(b)] = b]
        BY <1>0, <2>8, <3>2 DEF J!CreateJob, J!At, J!Goto, J!TypeOK
      <4>2. /\ build'[b].pc = "watch" /\ build'[b].tag = build[b].tag /\ build'[b].seen = build[b].seen
            /\ build'[b].res = build[b].res /\ jobPod'[b].phase = "waits"
        BY <2>0, <4>1 DEF J!Call, J!Pod
      <4>3. /\ \A n \in J!Names \ {J!JobName(b)} : buildJob'[n] = buildJob[n]
            /\ buildJob'[J!JobName(b)] = b
        BY <1>0, <1>1, <4>1 DEF J!TypeOK
      <4>4. Begun(b)' /\ NotOlder(b)' /\ Told(b)'
        BY <2>0, <4>1, <4>2 DEF Begun, NotOlder, Told
      <4>5. ASSUME NEW c \in Builds, c # b PROVE Begun(c)' /\ NotOlder(c)' /\ Told(c)'
        BY <1>1, <4>1, <4>5 DEF Begun, NotOlder, Told
      <4>6. ASSUME NEW c \in Builds PROVE Waits(c)'
        <5> DEFINE t == build[c].tag
        <5>1. build'[c].tag = t /\ t \in J!Names /\ buildJob[t] \in Builds \cup {NoBuild}
          BY <1>0, <1>1, <4>1, <4>2 DEF J!TypeOK, J!Names
        <5>2. CASE buildJob'[t] = b
          BY <4>1, <4>2, <5>1, <5>2 DEF Waits, Pushed
        <5>3. CASE buildJob'[t] # b
          <6>1. buildJob'[t] = buildJob[t] /\ (~ long => c # b)
            BY <1>1, <4>3, <5>1, <5>3
          <6>2. buildJob[t] # NoBuild => jobPod'[buildJob[t]] = jobPod[buildJob[t]]
            BY <4>1, <5>1, <5>3, <6>1
          <6>3. c # b => build'[c] = build[c] /\ Waits(c)
            BY <1>1, <4>1
          <6> QED
            BY <4>1, <5>1, <6>1, <6>2, <6>3 DEF Waits, Pushed
        <5> QED
          BY <5>2, <5>3
      <4>7. ASSUME NEW n \in J!Names PROVE Belongs(n)'
        <5>1. \A d \in Builds : J!JobName(d)' = J!JobName(d)
          BY <4>1, <4>2 DEF J!JobName, J!Tagged
        <5>2. CASE buildJob'[n] = b
          <6>1. J!JobName(b) = n
            BY <1>1, <3>2, <4>3, <5>2 DEF ImageInv, Belongs, JobsAssumption
          <6> QED
            BY <4>1, <4>2, <5>2, <6>1 DEF Belongs, J!JobName, J!Tagged
        <5>3. CASE buildJob'[n] # b
          <6>1. buildJob'[n] = buildJob[n] /\ buildJob[n] \in Builds \cup {NoBuild}
            BY <1>0, <4>3, <5>3 DEF J!TypeOK
          <6>2. CASE buildJob[n] # NoBuild
            <7>1. PICK d \in Builds : d = buildJob[n] /\ d # b
              BY <5>3, <6>1, <6>2
            <7>2. jobPod[d].phase # "none" /\ J!JobName(d) = n
              BY <6>2, <7>1 DEF ImageInv, Belongs
            <7> QED
              BY <4>1, <6>1, <7>1, <7>2 DEF Belongs, J!JobName, J!Tagged
          <6> QED
            BY <6>1, <6>2 DEF Belongs
        <5> QED
          BY <5>2, <5>3
      <4> QED
        BY <1>0, <4>4, <4>5, <4>6, <4>7 DEF ImageInv, J!Names, J!Tags, J!Commits, J!Cut
    <3> QED
      BY <3>1, <3>2
  <2>9. CASE J!Clone(b)
    <3>1. /\ UNCHANGED <<head, long, build, buildJob, image, fresh>> /\ jobPod[b].phase = "waits"
          /\ \A c \in Builds \ {b} : jobPod'[c] = jobPod[c]
          /\ jobPod'[b] = [jobPod[b] EXCEPT !.phase = "clones", !.got = head]
      BY <1>0, <2>9 DEF J!Clone, J!TypeOK
    <3>2. jobPod'[b].phase = "clones" /\ jobPod'[b].got = head
      BY <2>0, <3>1 DEF J!Pod
    <3>3. Numbered(build[b].tag) => build[b].tag[2] \in Nat /\ build[b].tag[2] <= head
      BY <1>0, <2>0, TagNumbers DEF Begun
    <3>4. Begun(b)' /\ NotOlder(b)' /\ Told(b)'
      BY <1>1, <2>0, <3>1, <3>2, <3>3 DEF Begun, NotOlder, Told
    <3>5. ASSUME NEW c \in Builds, c # b PROVE Begun(c)' /\ NotOlder(c)' /\ Told(c)'
      BY <1>1, <3>1, <3>5 DEF Begun, NotOlder, Told
    <3>6. \A c \in Builds : Pushed(c)' <=> Pushed(c)
      BY <3>1, <3>2 DEF Pushed
    <3>7. ASSUME NEW c \in Builds PROVE Waits(c)'
      <4>1. buildJob[build[c].tag] \in Builds \cup {NoBuild} /\ Waits(c)
        BY <1>0, <1>1 DEF J!TypeOK, J!Names
      <4> QED
        BY <3>1, <3>6, <4>1 DEF Waits, Pushed
    <3>8. ASSUME NEW n \in J!Names PROVE Belongs(n)'
      <4>1. buildJob[n] \in Builds \cup {NoBuild} /\ Belongs(n)
        BY <1>0 DEF J!TypeOK, ImageInv
      <4>2. \A d \in Builds : jobPod'[d].phase # "none" <=> jobPod[d].phase # "none"
        BY <3>1, <3>2
      <4> QED
        BY <3>1, <4>1, <4>2 DEF Belongs, J!JobName, J!Tagged
    <3> QED
      BY <1>0, <3>4, <3>5, <3>7, <3>8 DEF ImageInv, J!Names, J!Tags, J!Commits, J!Cut
  <2>10. CASE J!PushImage(b)
    <3> DEFINE t == build[b].tag
    <3>1. /\ UNCHANGED <<head, long, build, buildJob>> /\ jobPod[b].phase = "clones"
          /\ \A c \in Builds \ {b} : jobPod'[c] = jobPod[c]
          /\ jobPod'[b] = [jobPod[b] EXCEPT !.phase = "pushed"]
          /\ image' = [image EXCEPT ![t] = jobPod[b].got]
          /\ fresh' = fresh \cup
                {c \in Builds : build[c].pc # "free" /\ build[c].pc # "over" /\ build[c].tag = t}
      BY <1>0, <2>10 DEF J!PushImage, J!TypeOK, J!At
    <3>2. jobPod'[b].phase = "pushed" /\ jobPod'[b].got = jobPod[b].got
      BY <2>0, <3>1 DEF J!Pod
    <3>3. t \in J!Tags /\ image'[t] = jobPod[b].got /\ \A u \in J!Tags \ {t} : image'[u] = image[u]
      BY <1>0, <1>1, <3>1 DEF J!TypeOK
    <3>4. Numbered(t) => jobPod[b].got >= t[2]
      BY <2>0, <3>1 DEF NotOlder
    <3>5. ASSUME NEW c \in Builds PROVE Begun(c)' /\ NotOlder(c)' /\ Told(c)'
      <4>1. Begun(c) /\ NotOlder(c) /\ Told(c) /\ build[c].tag \in J!Tags
        BY <1>1
      <4>2. Begun(c)'
        BY <3>1, <3>2, <4>1 DEF Begun
      <4>3. jobPod'[c].phase \in {"clones", "pushed"} =>
              jobPod[c].phase \in {"clones", "pushed"} /\ jobPod'[c].got = jobPod[c].got
        BY <3>1, <3>2
      <4>4. Numbered(build[c].tag) /\ c \in fresh' => image'[build[c].tag] >= build[c].tag[2]
        BY <3>1, <3>3, <3>4, <4>1 DEF NotOlder
      <4>5. NotOlder(c)'
        BY <3>1, <4>1, <4>3, <4>4 DEF NotOlder
      <4> QED
        BY <3>1, <4>1, <4>2, <4>5 DEF Told
    <3>6. ASSUME NEW c \in Builds PROVE Waits(c)'
      <4> DEFINE u == build[c].tag
      <4>1. u \in J!Names /\ buildJob[u] \in Builds \cup {NoBuild} /\ Waits(c)
        BY <1>0, <1>1 DEF J!TypeOK, J!Names
      <4>2. CASE buildJob[u] = b
        <5>1. ~ long => t = u
          BY <1>1, <4>1, <4>2 DEF ImageInv, Belongs, JobsAssumption
        <5> QED
          BY <3>1, <5>1 DEF Waits
      <4>3. CASE buildJob[u] # b
        <5>1. buildJob[u] # NoBuild => jobPod'[buildJob[u]] = jobPod[buildJob[u]]
          BY <3>1, <4>1, <4>3
        <5> QED
          BY <3>1, <4>1, <5>1 DEF Waits, Pushed
      <4> QED
        BY <4>2, <4>3
    <3>7. ASSUME NEW n \in J!Names PROVE Belongs(n)'
      <4>1. buildJob[n] \in Builds \cup {NoBuild} /\ Belongs(n)
        BY <1>0 DEF J!TypeOK, ImageInv
      <4>2. \A d \in Builds : jobPod'[d].phase # "none" <=> jobPod[d].phase # "none"
        BY <3>1, <3>2
      <4> QED
        BY <3>1, <4>1, <4>2 DEF Belongs, J!JobName, J!Tagged
    <3> QED
      BY <1>0, <3>5, <3>6, <3>7 DEF ImageInv, J!Names, J!Tags, J!Commits, J!Cut
  <2> QED
    BY <1>7, <2>1, <2>2, <2>3, <2>4, <2>5, <2>6, <2>7, <2>8, <2>9, <2>10 DEF BuildStep
<1>8. CASE J!CancelBuild \/ J!Expire
  <2>1. UNCHANGED <<head, long, image, fresh, build>> /\ \E names : J!Without(names)
    BY <1>8 DEF J!CancelBuild, J!Expire
  <2> QED
    BY <1>2, <1>6, <2>1
<1>9. CASE J!Push \/ UNCHANGED J!vars
  <2>1. QuietRest /\ UNCHANGED <<build, jobPod>>
    BY <1>0, <1>9 DEF J!Push, J!cluster, QuietRest, J!vars, J!TypeOK, J!Commits
  <2> QED
    BY <1>0, <1>2, <1>3, <2>1, QuietStep
<1> QED
  BY <1>7, <1>8, <1>9, JobsSteps

(* A build that succeeds has an image of its tag pushed since it began,    *)
(* not older than the commit that the tag names (SuccessHasImage).         *)
THEOREM JobsSuccessHasImage ==
  ASSUME JobsAssumption
  PROVE  J!Spec => []SuccessHasImage
<1>1. J!Init => ImageInv
  BY JobsInit
<1>2. ImageInv /\ [J!Next]_J!vars => ImageInv'
  BY ImageStep
<1>3. ImageInv => SuccessHasImage
  BY DEF ImageInv, SuccessHasImage, J!SuccessHasImage, Told, NotOlder, Numbered
<1> QED
  BY <1>1, <1>2, <1>3, PTL DEF J!Spec

-----------------------------------------------------------------------------
(* Nodes *)

(* A task knows the machine of its row; the machine alone has joined since *)
(* the snapshot; what the row or a copy says of it is so.                  *)
Calm(n) == ~ N!Barred(n, {"blind", "crowded"})
TaskOf(t) ==
  install[t].pc # "free" =>
    /\ install[t].node \in Nodes
    /\ install[t].copy.there /\ install[t].copy.host \in Machines
    /\ install[t].copy.host = node[install[t].node].host
Truthful(r) ==
  /\ r.status = "ready" => r.host \in cluster
  /\ r.name \in {r.host, Nowhere}
OnlyIts(t) ==
  install[t].pc \in {"install", "wait"} => cluster \ install[t].seen \subseteq {install[t].copy.host}
NodeInv ==
  /\ N!TypeOK
  /\ \A n \in Nodes : node[n].there => node[n].host \in Machines
  /\ \A t \in Installs : TaskOf(t)
JoinInv ==
  /\ NodeInv
  /\ \A n \in Nodes : Calm(n) => Truthful(node[n])
  /\ \A t \in Installs :
       install[t].pc # "free" /\ Calm(install[t].node) => Truthful(install[t].copy) /\ OnlyIts(t)

(* One task of a node knows the key that its row has.                      *)
PinInv ==
  /\ NodeInv
  /\ \A t \in Installs :
       install[t].pc # "free" /\ ~ N!Barred(install[t].node, {"twice"}) =>
         /\ \A u \in Installs \ {t} : install[u].node # install[t].node
         /\ node[install[t].node].fp # Nowhere => install[t].copy.fp = node[install[t].node].fp

LEMMA NodesInit ==
  ASSUME N!Init
  PROVE  JoinInv /\ PinInv
<1>1. N!NoRow \in N!Row /\ N!Free \in N!Task /\ N!Free.pc = "free" /\ N!Free.node = Nowhere
  BY DEF N!NoRow, N!Row, N!Status, N!Free, N!Task
<1>2. N!NoRow.there = FALSE /\ N!NoRow.status = "pending" /\ N!NoRow.name = Nowhere /\ N!NoRow.fp = Nowhere
  BY DEF N!NoRow
<1>3. N!TypeOK
  <2>1. MaxInstalls \in 0..MaxInstalls /\ MaxBreaks \in 0..MaxBreaks
    BY NodesAssumption
  <2>2. cluster \in SUBSET Machines
    BY DEF N!Init
  <2> QED
    BY <1>1, <2>1, <2>2 DEF N!Init, N!TypeOK
<1>4. \A t \in Installs : install[t].pc = "free"
  BY <1>1 DEF N!Init
<1>5. \A n \in Nodes : node[n] = N!NoRow
  BY DEF N!Init
<1> QED
  BY <1>2, <1>3, <1>4, <1>5 DEF JoinInv, PinInv, NodeInv, TaskOf, Truthful

TaskStep(t) ==
  \/ N!Mark(t) \/ N!Dial(t) \/ N!Pin(t) \/ N!Snapshot(t) \/ N!Install(t)
  \/ (\E m \in Machines : N!Look(t, m))
  \/ N!NameRow(t) \/ N!TimeOut(t) \/ N!Break(t) \/ N!FinishWithError(t)
NodeSteps ==
  \/ \E n \in Nodes, m \in Machines : N!Create(n, m)
  \/ \E n \in Nodes : N!Delete(n) \/ \E t \in Installs : N!Begin(t, n)
  \/ \E t \in Installs : TaskStep(t)
  \/ \E m \in Machines : N!Join(m) \/ \E key \in HostKeys : N!Renew(m, key)
  \/ N!Crash

LEMMA NodeTaskTypes ==
  ASSUME N!TypeOK, NEW t \in Installs
  PROVE  /\ install[t] \in N!Task /\ install[t].copy \in N!Row
         /\ \A pc \in {"free", "mark", "dial", "pin", "list", "install", "wait", "name", "fail"} :
              /\ [install[t] EXCEPT !.pc = pc] \in N!Task
              /\ \A s \in SUBSET Machines : [install[t] EXCEPT !.pc = pc, !.seen = s] \in N!Task
              /\ \A c \in N!Row : [install[t] EXCEPT !.pc = pc, !.copy = c] \in N!Task
         /\ \A key \in HostKeys : [install[t].copy EXCEPT !.fp = key] \in N!Row
         /\ [install[t].copy EXCEPT !.spoilt = TRUE] \in N!Row
         /\ \A m \in Machines : [install[t].copy EXCEPT !.name = m, !.status = "ready"] \in N!Row
<1> DEFINE x == install[t]
<1>1. x \in N!Task
  BY DEF N!TypeOK
<1> HIDE DEF x
<1>2. x.copy \in N!Row
  BY <1>1 DEF N!Task
<1>3. \A pc \in {"free", "mark", "dial", "pin", "list", "install", "wait", "name", "fail"} :
        /\ [x EXCEPT !.pc = pc] \in N!Task
        /\ \A s \in SUBSET Machines : [x EXCEPT !.pc = pc, !.seen = s] \in N!Task
        /\ \A c \in N!Row : [x EXCEPT !.pc = pc, !.copy = c] \in N!Task
  BY <1>1 DEF N!Task
<1> DEFINE c == x.copy
<1> HIDE DEF c
<1>4. c \in N!Row =>
      /\ \A key \in HostKeys : [c EXCEPT !.fp = key] \in N!Row
      /\ [c EXCEPT !.spoilt = TRUE] \in N!Row
      /\ \A m \in Machines : [c EXCEPT !.name = m, !.status = "ready"] \in N!Row
  BY DEF N!Row, N!Status
<1> QED
  BY <1>1, <1>2, <1>3, <1>4 DEF x, c

LEMMA TaskEdits ==
  ASSUME NEW x \in N!Task, NEW pc, NEW s, NEW d
  PROVE  /\ [x EXCEPT !.pc = pc].pc = pc /\ [x EXCEPT !.pc = pc].node = x.node
         /\ [x EXCEPT !.pc = pc].copy = x.copy /\ [x EXCEPT !.pc = pc].seen = x.seen
         /\ [x EXCEPT !.pc = pc, !.seen = s].node = x.node /\ [x EXCEPT !.pc = pc, !.seen = s].copy = x.copy
         /\ [x EXCEPT !.pc = pc, !.seen = s].pc = pc /\ [x EXCEPT !.pc = pc, !.seen = s].seen = s
         /\ [x EXCEPT !.pc = pc, !.copy = d].node = x.node /\ [x EXCEPT !.pc = pc, !.copy = d].copy = d
         /\ [x EXCEPT !.pc = pc, !.copy = d].pc = pc /\ [x EXCEPT !.pc = pc, !.copy = d].seen = x.seen
BY DEF N!Task

(* What is written to a row, and what a task is afterwards.                *)
Kept(c, d) == d.host = c.host /\ d.there = c.there
LEMMA RowWritten ==
  ASSUME NodeInv, NEW n \in Nodes, NEW c \in N!Row, NEW s \in N!Status,
         N!Update(n, c) \/ N!UpdateStatus(n, s) \/ UNCHANGED node
  PROVE  /\ node' \in [Nodes -> N!Row]
         /\ \A o \in Nodes \ {n} : node'[o] = node[o]
         /\ node'[n] \in {node[n], c} \/ node'[n] = [node[n] EXCEPT !.status = s]
<1>1. node[n] \in N!Row
  BY DEF NodeInv, N!TypeOK
<1>2. [node[n] EXCEPT !.status = s] \in N!Row
  BY <1>1 DEF N!Row
<1> QED
  BY <1>1, <1>2 DEF NodeInv, N!TypeOK, N!Update, N!UpdateStatus

LEMMA TaskStepTypes ==
  ASSUME NodeInv, NEW t \in Installs, TaskStep(t)
  PROVE  /\ install[t].pc # "free" /\ N!TypeOK'
         /\ \A u \in Installs \ {t} : install'[u] = install[u]
         /\ \A n \in Nodes : n # install[t].node => node'[n] = node[n]
         /\ \A n \in Nodes : node'[n].host = node[n].host \/ node'[n].host = install[t].copy.host
         /\ install'[t].pc # "free" =>
              /\ install'[t].node = install[t].node
              /\ Kept(install[t].copy, install'[t].copy)
         /\ install'[t].node \in {install[t].node, Nowhere}
<1> DEFINE n == install[t].node
           c == install[t].copy
<1>1. /\ install[t] \in N!Task /\ c \in N!Row
      /\ \A pc \in {"free", "mark", "dial", "pin", "list", "install", "wait", "name", "fail"} :
              /\ [install[t] EXCEPT !.pc = pc] \in N!Task
              /\ \A s \in SUBSET Machines : [install[t] EXCEPT !.pc = pc, !.seen = s] \in N!Task
              /\ \A d \in N!Row : [install[t] EXCEPT !.pc = pc, !.copy = d] \in N!Task
      /\ \A key \in HostKeys : [c EXCEPT !.fp = key] \in N!Row
      /\ [c EXCEPT !.spoilt = TRUE] \in N!Row
      /\ \A m \in Machines : [c EXCEPT !.name = m, !.status = "ready"] \in N!Row
  BY NodeTaskTypes DEF NodeInv
<1>2. install[t].pc # "free"
  BY DEF TaskStep, N!Mark, N!Dial, N!Pin, N!Snapshot, N!Install, N!Look, N!NameRow, N!TimeOut, N!Break,
     N!FinishWithError, N!At
<1>3. n \in Nodes /\ c.there /\ c.host \in Machines
  BY <1>2 DEF NodeInv, TaskOf
<1>4. N!Free \in N!Task
  BY DEF N!Free, N!NoRow, N!Task, N!Row, N!Status
<1>5. spare' \in [tasks : 0..MaxInstalls, faults : 0..MaxBreaks]
  <2>1. ASSUME N!Works \/ N!Fault PROVE spare' \in [tasks : 0..MaxInstalls, faults : 0..MaxBreaks]
    <3>1. spare \in [tasks : 0..MaxInstalls, faults : 0..MaxBreaks]
      BY DEF NodeInv, N!TypeOK
    <3>2. spare.faults > 0 => spare.faults - 1 \in 0..MaxBreaks
      BY <3>1, NodesAssumption
    <3> QED
      BY <2>1, <3>1, <3>2 DEF N!Works, N!Fault
  <2>2. N!Works \/ N!Fault \/ spare' = spare
    BY DEF TaskStep, N!Mark, N!Dial, N!Pin, N!Snapshot, N!Install, N!Look, N!NameRow, N!TimeOut, N!Break,
       N!FinishWithError
  <2> QED
    BY <2>1, <2>2 DEF NodeInv, N!TypeOK
<1>6. /\ hostkey' = hostkey /\ cluster' = cluster /\ joining' \in SUBSET Machines
      /\ strange' \subseteq {"blind", "crowded", "twice"} \X Nodes
  <2>1. joining' = joining \/ joining' = joining \cup {c.host}
    BY DEF TaskStep, N!Mark, N!Dial, N!Pin, N!Snapshot, N!Install, N!Look, N!NameRow, N!TimeOut, N!Break,
       N!FinishWithError
  <2>2. strange' = strange \/ strange' = strange \cup {<<"blind", n>>}
    BY DEF TaskStep, N!Mark, N!Dial, N!Pin, N!Snapshot, N!Install, N!Look, N!NameRow, N!TimeOut, N!Break,
       N!FinishWithError
  <2>3. hostkey' = hostkey /\ cluster' = cluster
    BY DEF TaskStep, N!Mark, N!Dial, N!Pin, N!Snapshot, N!Install, N!Look, N!NameRow, N!TimeOut, N!Break,
       N!FinishWithError
  <2> QED
    BY <1>3, <2>1, <2>2, <2>3 DEF NodeInv, N!TypeOK
(* The row.                                                                *)
<1>7. /\ node' \in [Nodes -> N!Row]
      /\ \A o \in Nodes \ {n} : node'[o] = node[o]
      /\ \A o \in Nodes : node'[o].host = node[o].host \/ node'[o].host = c.host
  <2>1. PICK s \in N!Status : N!Update(n, c) \/ N!UpdateStatus(n, s) \/ UNCHANGED node
    BY DEF TaskStep, N!Mark, N!Dial, N!Pin, N!Snapshot, N!Install, N!Look, N!NameRow, N!TimeOut, N!Break,
       N!FinishWithError, N!Status
  <2>2. /\ node' \in [Nodes -> N!Row]
        /\ \A o \in Nodes \ {n} : node'[o] = node[o]
        /\ node'[n] \in {node[n], c} \/ node'[n] = [node[n] EXCEPT !.status = s]
    BY <1>1, <1>3, <2>1, RowWritten
  <2>3. node[n] \in N!Row => [node[n] EXCEPT !.status = s].host = node[n].host
    BY DEF N!Row
  <2> QED
    BY <1>3, <2>2, <2>3 DEF NodeInv, N!TypeOK
(* The task.                                                               *)
<1>8. /\ install' \in [Installs -> N!Task]
      /\ \A u \in Installs \ {t} : install'[u] = install[u]
      /\ install'[t] = N!Free \/ (install'[t].node = n /\ Kept(c, install'[t].copy))
  <2>0. install \in [Installs -> N!Task]
    BY DEF NodeInv, N!TypeOK
  <2>1. PICK x \in N!Task :
          install' = [install EXCEPT ![t] = x] /\ (x = N!Free \/ (x.node = n /\ Kept(c, x.copy)))
    <3>1. CASE \E pc \in {"mark", "dial", "pin", "list", "install", "wait", "name", "fail"} : N!Go(t, pc)
      <4>1. PICK pc \in {"mark", "dial", "pin", "list", "install", "wait", "name", "fail"} : N!Go(t, pc)
        BY <3>1
      <4>2. [install[t] EXCEPT !.pc = pc].node = n /\ [install[t] EXCEPT !.pc = pc].copy = c
        BY <1>1, TaskEdits
      <4> QED
        BY <1>1, <4>1, <4>2 DEF N!Go, Kept
    <3>2. CASE N!End(t)
      BY <1>4, <3>2 DEF N!End
    <3>3. CASE N!Snapshot(t)
      <4>1. PICK s \in SUBSET Machines : install' = [install EXCEPT ![t].pc = "install", ![t].seen = s]
        <5>1. cluster \in SUBSET Machines /\ {} \in SUBSET Machines
          BY DEF NodeInv, N!TypeOK
        <5> QED
          BY <3>3, <5>1 DEF N!Snapshot, N!Listed
      <4>2. install' = [install EXCEPT ![t] = [install[t] EXCEPT !.pc = "install", !.seen = s]]
        BY <2>0, <4>1
      <4>3. /\ [install[t] EXCEPT !.pc = "install", !.seen = s].node = n
            /\ [install[t] EXCEPT !.pc = "install", !.seen = s].copy = c
        <5>1. install[t] \in N!Task
          BY <1>1
        <5> QED
          BY <5>1, TaskEdits
      <4> QED
        BY <1>1, <4>2, <4>3 DEF Kept
    <3>4. CASE \E d \in N!Row, pc \in {"pin", "list", "name"} :
                 Kept(c, d) /\ install' = [install EXCEPT ![t].pc = pc, ![t].copy = d]
      <4>1. PICK d \in N!Row, pc \in {"pin", "list", "name"} :
              Kept(c, d) /\ install' = [install EXCEPT ![t].pc = pc, ![t].copy = d]
        BY <3>4
      <4>2. install' = [install EXCEPT ![t] = [install[t] EXCEPT !.pc = pc, !.copy = d]]
        BY <2>0, <4>1
      <4>3. /\ [install[t] EXCEPT !.pc = pc, !.copy = d].node = n
            /\ [install[t] EXCEPT !.pc = pc, !.copy = d].copy = d
        <5>1. install[t] \in N!Task
          BY <1>1
        <5> QED
          BY <5>1, TaskEdits
      <4> QED
        BY <1>1, <4>1, <4>2, <4>3
    <3>5. CASE N!Dial(t)
      <4>1. hostkey[c.host] \in HostKeys
        BY <1>3 DEF NodeInv, N!TypeOK
      <4>2. [c EXCEPT !.fp = hostkey[c.host]] \in N!Row /\ Kept(c, [c EXCEPT !.fp = hostkey[c.host]])
        BY <1>1, <4>1 DEF N!Row, Kept
      <4> QED
        BY <3>1, <3>4, <3>5, <4>2 DEF N!Dial
    <3>6. CASE N!Pin(t)
      <4>1. [c EXCEPT !.spoilt = TRUE] \in N!Row /\ Kept(c, [c EXCEPT !.spoilt = TRUE])
        BY <1>1 DEF N!Row, Kept
      <4>2. install' = [install EXCEPT ![t].pc = "list", ![t].copy = [c EXCEPT !.spoilt = TRUE]] \/ N!Go(t, "list")
        BY <1>1, <2>0, <3>6 DEF N!Pin
      <4> QED
        BY <3>1, <3>4, <4>1, <4>2
    <3>7. ASSUME NEW m \in Machines, N!Look(t, m) 
          PROVE \E x \in N!Task :
                  install' = [install EXCEPT ![t] = x] /\ (x = N!Free \/ (x.node = n /\ Kept(c, x.copy)))
      <4>1. /\ [c EXCEPT !.name = m, !.status = "ready"] \in N!Row
            /\ Kept(c, [c EXCEPT !.name = m, !.status = "ready"])
        BY <1>1 DEF N!Row, Kept
      <4>2. install' = [install EXCEPT ![t].pc = "name", ![t].copy = [c EXCEPT !.name = m, !.status = "ready"]]
        BY <1>1, <2>0, <3>7 DEF N!Look
      <4> QED
        BY <3>4, <4>1, <4>2
    <3>8. CASE N!Mark(t) \/ N!Install(t) \/ N!TimeOut(t) \/ N!Break(t)
      BY <3>1, <3>8 DEF N!Mark, N!Install, N!TimeOut, N!Break
    <3>9. CASE N!NameRow(t) \/ N!FinishWithError(t)
      BY <3>2, <3>9 DEF N!NameRow, N!FinishWithError
    <3> QED
      BY <3>3, <3>5, <3>6, <3>7, <3>8, <3>9 DEF TaskStep
  <2> QED
    BY <2>0, <2>1
<1> QED
  BY <1>2, <1>5, <1>6, <1>7, <1>8 DEF NodeInv, N!TypeOK, N!Free

LEMMA NodeInvTask ==
  ASSUME NodeInv, NEW t \in Installs, TaskStep(t)
  PROVE  NodeInv' /\ \A n \in Nodes : node'[n].host = node[n].host
<1>1. /\ install[t].pc # "free" /\ N!TypeOK'
      /\ \A u \in Installs \ {t} : install'[u] = install[u]
      /\ \A n \in Nodes : n # install[t].node => node'[n] = node[n]
      /\ \A n \in Nodes : node'[n].host = node[n].host \/ node'[n].host = install[t].copy.host
      /\ install'[t].pc # "free" =>
           /\ install'[t].node = install[t].node
           /\ Kept(install[t].copy, install'[t].copy)
  BY TaskStepTypes
<1>2. TaskOf(t)
  BY DEF NodeInv
<1>3. \A n \in Nodes : node'[n].host = node[n].host
  BY <1>1, <1>2 DEF TaskOf
<1>4. \A n \in Nodes : node'[n].there => node'[n].host \in Machines
  BY <1>1, <1>2, <1>3 DEF TaskOf, NodeInv
<1>5. \A u \in Installs : TaskOf(u)'
  <2> SUFFICES ASSUME NEW u \in Installs PROVE TaskOf(u)'
    OBVIOUS
  <2>1. TaskOf(u)
    BY DEF NodeInv
  <2>2. CASE u = t
    BY <1>1, <1>2, <1>3, <2>2 DEF TaskOf, Kept
  <2>3. CASE u # t
    BY <1>1, <1>3, <2>1, <2>3 DEF TaskOf
  <2> QED
    BY <2>2, <2>3
<1> QED
  BY <1>1, <1>3, <1>4, <1>5 DEF NodeInv

LEMMA NodeInvBegin ==
  ASSUME NodeInv, NEW t \in Installs, NEW n \in Nodes, N!Begin(t, n)
  PROVE  /\ NodeInv'
         /\ install'[t].pc = "mark" /\ install'[t].node = n /\ install'[t].copy = node[n]
         /\ \A u \in Installs \ {t} : install'[u] = install[u]
<1>1. install \in [Installs -> N!Task] /\ node \in [Nodes -> N!Row] /\ node[n].there
  BY DEF NodeInv, N!TypeOK, N!Begin
<1>2. PICK r \in N!Row : r = node[n]
  BY <1>1
<1>3. N!Free \in N!Task
  BY DEF N!Free, N!NoRow, N!Task, N!Row, N!Status
<1>4. PICK x : x = [N!Free EXCEPT !.pc = "mark", !.node = n, !.copy = r]
  OBVIOUS
<1>5. x \in N!Task /\ x.pc = "mark" /\ x.node = n /\ x.copy = r
  BY <1>2, <1>3, <1>4 DEF N!Task
<1>6. install' = [install EXCEPT ![t] = x]
  BY <1>2, <1>4 DEF N!Begin
<1>7. install' \in [Installs -> N!Task] /\ install'[t] = x
      /\ \A u \in Installs \ {t} : install'[u] = install[u]
  BY <1>1, <1>5, <1>6
<1>8. spare' \in [tasks : 0..MaxInstalls, faults : 0..MaxBreaks]
  <2>1. spare \in [tasks : 0..MaxInstalls, faults : 0..MaxBreaks] /\ spare.tasks > 0
    BY DEF NodeInv, N!TypeOK, N!Begin
  <2>2. spare.tasks - 1 \in 0..MaxInstalls
    BY <2>1, NodesAssumption
  <2> QED
    BY <2>1, <2>2 DEF N!Begin
<1>9. N!TypeOK'
  <2>1. strange' \subseteq strange \cup {<<"twice", n>>}
    BY DEF N!Begin
  <2> QED
    BY <1>7, <1>8, <2>1 DEF NodeInv, N!TypeOK, N!Begin
<1>10. \A u \in Installs : TaskOf(u)'
  BY <1>1, <1>2, <1>5, <1>7 DEF NodeInv, TaskOf, N!Begin
<1> QED
  BY <1>2, <1>5, <1>7, <1>9, <1>10 DEF NodeInv, N!Begin

LEMMA NodeInvRest ==
  ASSUME NodeInv
  PROVE  /\ \A n \in Nodes, m \in Machines : N!Create(n, m) => NodeInv'
         /\ \A n \in Nodes : N!Delete(n) => NodeInv'
         /\ \A m \in Machines : N!Join(m) => NodeInv'
         /\ \A m \in Machines, key \in HostKeys : N!Renew(m, key) => NodeInv'
         /\ N!Crash => NodeInv'
         /\ UNCHANGED nodeVars => NodeInv'
<1>1. ASSUME NEW n \in Nodes, NEW m \in Machines, N!Create(n, m) PROVE NodeInv'
  <2>1. PICK r : r = [N!NoRow EXCEPT !.there = TRUE, !.host = m]
    OBVIOUS
  <2>2. r \in N!Row /\ r.host = m /\ N!NoRow.host = Nowhere
    BY <2>1 DEF N!NoRow, N!Row, N!Status
  <2>3. node' = [node EXCEPT ![n] = r] /\ node[n] = N!NoRow /\ UNCHANGED <<hostkey, joining, cluster, install, spare, strange>>
    BY <1>1, <2>1 DEF N!Create
  <2>4. N!TypeOK'
    BY <2>2, <2>3 DEF NodeInv, N!TypeOK
  <2>5. \A t \in Installs : install[t].pc # "free" => install[t].node # n
    BY <2>2, <2>3, NodesAssumption DEF NodeInv, TaskOf
  <2> QED
    BY <2>2, <2>3, <2>4, <2>5 DEF NodeInv, N!TypeOK, TaskOf
<1>2. ASSUME NEW n \in Nodes, N!Delete(n) PROVE NodeInv'
  <2>1. node[n] \in N!Row /\ node' = [node EXCEPT ![n] = [node[n] EXCEPT !.there = FALSE]]
    BY <1>2 DEF NodeInv, N!TypeOK, N!Delete
  <2>2. [node[n] EXCEPT !.there = FALSE] \in N!Row /\ [node[n] EXCEPT !.there = FALSE].host = node[n].host
    BY <2>1 DEF N!Row
  <2>3. [node[n] EXCEPT !.there = FALSE].there = FALSE
    BY <2>1 DEF N!Row
  <2>4. N!TypeOK' /\ node'[n].there = FALSE /\ \A o \in Nodes : node'[o].host = node[o].host
    BY <1>2, <2>1, <2>2, <2>3 DEF NodeInv, N!TypeOK, N!Delete
  <2> QED
    BY <1>2, <2>1, <2>4 DEF NodeInv, N!TypeOK, N!Delete, TaskOf
<1>3. ASSUME NEW m \in Machines, N!Join(m) PROVE NodeInv'
  <2>1. strange' \subseteq {"blind", "crowded", "twice"} \X Nodes
    <3>1. \A t \in Installs : N!Watching(t) => install[t].node \in Nodes
      BY DEF N!Watching, NodeInv, TaskOf
    <3> QED
      BY <1>3, <3>1 DEF N!Join, NodeInv, N!TypeOK
  <2> QED
    BY <1>3, <2>1 DEF NodeInv, N!TypeOK, N!Join, TaskOf
<1>4. ASSUME N!Fault PROVE spare' \in [tasks : 0..MaxInstalls, faults : 0..MaxBreaks]
  <2>1. spare \in [tasks : 0..MaxInstalls, faults : 0..MaxBreaks] /\ spare.faults > 0
    BY <1>4 DEF NodeInv, N!TypeOK, N!Fault
  <2>2. spare.faults - 1 \in 0..MaxBreaks
    BY <2>1, NodesAssumption
  <2> QED
    BY <1>4, <2>1, <2>2 DEF N!Fault
<1>5. ASSUME NEW m \in Machines, NEW key \in HostKeys, N!Renew(m, key) PROVE NodeInv'
  BY <1>4, <1>5 DEF NodeInv, N!TypeOK, N!Renew, TaskOf
<1>6. ASSUME N!Crash PROVE NodeInv'
  <2>1. N!Free \in N!Task /\ N!Free.pc = "free"
    BY DEF N!Free, N!NoRow, N!Task, N!Row, N!Status
  <2>2. N!TypeOK' /\ \A t \in Installs : install'[t].pc = "free"
    BY <1>4, <1>6, <2>1 DEF NodeInv, N!TypeOK, N!Crash
  <2> QED
    BY <1>6, <2>2 DEF NodeInv, N!Crash, TaskOf
<1>7. ASSUME UNCHANGED nodeVars PROVE NodeInv'
  BY <1>7 DEF NodeInv, N!TypeOK, TaskOf, nodeVars
<1> QED
  BY <1>1, <1>2, <1>3, <1>5, <1>6, <1>7

(* What a step of a task makes of its row, and of itself: a name and the   *)
(* status ready are those of a machine that it has found, a fingerprint is *)
(* the first.                                                              *)
RowAfter(t) ==
  LET n == install[t].node  c == install[t].copy IN
  \/ node'[n] = node[n]
  \/ node'[n] = c
  \/ /\ node'[n].host = node[n].host /\ node'[n].name = node[n].name /\ node'[n].fp = node[n].fp
     /\ node'[n].status = "ready" =>
          install[t].pc = "wait" /\ \E m \in Machines : m \in N!Candidates(t)
TaskAfter(t) ==
  LET c == install[t].copy  d == install'[t].copy IN
  /\ \/ d.name = c.name /\ d.status = c.status
     \/ d.status = "ready" /\ d.name \in N!Candidates(t) /\ install[t].pc = "wait"
  /\ d.fp = c.fp \/ c.fp = Nowhere
  /\ install'[t].pc \in {"install", "wait"} =>
       \/ install'[t].seen = cluster
       \/ <<"blind", install[t].node>> \in strange'
       \/ install[t].pc \in {"install", "wait"} /\ install'[t].seen = install[t].seen

LEMMA WhatTasksDo ==
  ASSUME NodeInv, NEW t \in Installs, TaskStep(t)
  PROVE  /\ RowAfter(t) /\ (install'[t] = N!Free \/ TaskAfter(t))
         /\ cluster' = cluster /\ strange \subseteq strange'
<1> DEFINE n == install[t].node
           c == install[t].copy
<1>1. /\ install[t] \in N!Task /\ c \in N!Row
  BY NodeTaskTypes DEF NodeInv
<1>2. install[t].pc # "free" /\ install \in [Installs -> N!Task] /\ node \in [Nodes -> N!Row]
  BY DEF TaskStep, N!Mark, N!Dial, N!Pin, N!Snapshot, N!Install, N!Look, N!NameRow, N!TimeOut, N!Break,
     N!FinishWithError, N!At, NodeInv, N!TypeOK
<1>3. n \in Nodes /\ c.there /\ c.host \in Machines
  BY <1>2 DEF NodeInv, TaskOf
<1>4. cluster' = cluster /\ strange \subseteq strange'
  BY DEF TaskStep, N!Mark, N!Dial, N!Pin, N!Snapshot, N!Install, N!Look, N!NameRow, N!TimeOut, N!Break,
     N!FinishWithError
<1>5. RowAfter(t)
  <2>1. ASSUME NEW s \in N!Status, N!UpdateStatus(n, s),
               s = "ready" => install[t].pc = "wait" /\ \E m \in Machines : m \in N!Candidates(t)
        PROVE  RowAfter(t)
    <3>1. node'[n] = node[n] \/ node'[n] = [node[n] EXCEPT !.status = s]
      BY <1>2, <1>3, <2>1 DEF N!UpdateStatus
    <3>2. PICK r \in N!Row : r = node[n]
      BY <1>2, <1>3
    <3>3. /\ [r EXCEPT !.status = s].host = r.host /\ [r EXCEPT !.status = s].name = r.name
          /\ [r EXCEPT !.status = s].fp = r.fp /\ [r EXCEPT !.status = s].status = s
      BY DEF N!Row
    <3>4. node'[n] = r \/ node'[n] = [r EXCEPT !.status = s]
      BY <3>1, <3>2
    <3> QED
      BY <2>1, <3>2, <3>3, <3>4 DEF RowAfter
  <2>2. ASSUME N!Update(n, c) PROVE RowAfter(t)
    BY <1>2, <1>3, <2>2 DEF N!Update, RowAfter
  <2>3. ASSUME node' = node PROVE RowAfter(t)
    BY <2>3 DEF RowAfter
  <2>4. CASE N!Mark(t)
    BY <2>1, <2>3, <2>4 DEF N!Mark, N!Status
  <2>5. CASE N!Pin(t) \/ N!NameRow(t)
    BY <2>2, <2>3, <2>5 DEF N!Pin, N!NameRow
  <2>6. ASSUME NEW m \in Machines, N!Look(t, m) PROVE RowAfter(t)
    BY <2>1, <2>3, <2>6 DEF N!Look, N!Status, N!At
  <2>7. CASE N!FinishWithError(t)
    BY <2>1, <2>3, <2>7 DEF N!FinishWithError, N!Status
  <2>8. CASE N!Dial(t) \/ N!Snapshot(t) \/ N!Install(t) \/ N!TimeOut(t) \/ N!Break(t)
    BY <2>3, <2>8 DEF N!Dial, N!Snapshot, N!Install, N!TimeOut, N!Break
  <2> QED
    BY <2>4, <2>5, <2>6, <2>7, <2>8 DEF TaskStep
<1>6. install'[t] = N!Free \/ TaskAfter(t)
  <2>1. ASSUME NEW pc \in {"dial", "pin", "list", "install", "wait", "name", "fail"}, N!Go(t, pc),
               pc \in {"install", "wait"} => install[t].pc \in {"install", "wait"}
        PROVE  TaskAfter(t)
    <3>1. install'[t] = [install[t] EXCEPT !.pc = pc]
      BY <1>2, <2>1 DEF N!Go
    <3>2. /\ install'[t].pc = pc /\ install'[t].copy = c /\ install'[t].seen = install[t].seen
      BY <1>1, <3>1, TaskEdits
    <3> QED
      BY <2>1, <3>2 DEF TaskAfter
  <2>2. ASSUME NEW pc \in {"pin", "list", "name"}, NEW d \in N!Row,
               install' = [install EXCEPT ![t].pc = pc, ![t].copy = d],
               \/ d.name = c.name /\ d.status = c.status
               \/ d.status = "ready" /\ d.name \in N!Candidates(t) /\ install[t].pc = "wait",
               d.fp = c.fp \/ c.fp = Nowhere
        PROVE  TaskAfter(t)
    <3>1. install' = [install EXCEPT ![t] = [install[t] EXCEPT !.pc = pc, !.copy = d]]
      BY <1>2, <2>2
    <3>2. install'[t] = [install[t] EXCEPT !.pc = pc, !.copy = d]
      BY <1>2, <3>1
    <3>3. install'[t].pc = pc /\ install'[t].copy = d
      BY <1>1, <3>2, TaskEdits
    <3> QED
      BY <2>2, <3>3 DEF TaskAfter
  <2>3. CASE N!Mark(t) \/ N!Install(t) \/ N!TimeOut(t) \/ N!Break(t)
    BY <2>1, <2>3 DEF N!Mark, N!Install, N!TimeOut, N!Break, N!At
  <2>4. CASE N!NameRow(t) \/ N!FinishWithError(t)
    BY <1>2, <2>4 DEF N!NameRow, N!FinishWithError, N!End
  <2>5. CASE N!Dial(t)
    <3>1. hostkey[c.host] \in HostKeys
      BY <1>3 DEF NodeInv, N!TypeOK
    <3>2. PICK d \in N!Row : d = [c EXCEPT !.fp = hostkey[c.host]]
      BY <1>1, <3>1, NodeTaskTypes DEF NodeInv
    <3>3. d.name = c.name /\ d.status = c.status
      BY <1>1, <3>2 DEF N!Row
    <3> QED
      BY <2>1, <2>2, <2>5, <3>2, <3>3 DEF N!Dial
  <2>6. CASE N!Pin(t)
    <3>1. PICK d \in N!Row : d = [c EXCEPT !.spoilt = TRUE]
      BY <1>1, NodeTaskTypes DEF NodeInv
    <3>2. d.name = c.name /\ d.status = c.status /\ d.fp = c.fp
      BY <1>1, <3>1 DEF N!Row
    <3>3. install' = [install EXCEPT ![t].pc = "list", ![t].copy = d] \/ N!Go(t, "list")
      BY <1>1, <1>2, <2>6, <3>1 DEF N!Pin
    <3> QED
      BY <2>1, <2>2, <3>2, <3>3
  <2>7. CASE N!Snapshot(t)
    <3>1. PICK s \in SUBSET Machines :
            /\ install' = [install EXCEPT ![t].pc = "install", ![t].seen = s]
            /\ s = cluster \/ <<"blind", n>> \in strange'
      <4>1. cluster \in SUBSET Machines /\ {} \in SUBSET Machines
        BY DEF NodeInv, N!TypeOK
      <4> QED
        BY <2>7, <4>1 DEF N!Snapshot, N!Listed
    <3>2. install' = [install EXCEPT ![t] = [install[t] EXCEPT !.pc = "install", !.seen = s]]
      BY <1>2, <3>1
    <3>3. install'[t] = [install[t] EXCEPT !.pc = "install", !.seen = s]
      BY <1>2, <3>2
    <3>4. install'[t].copy = c /\ install'[t].seen = s
      BY <1>1, <3>3, TaskEdits
    <3> QED
      BY <3>1, <3>4 DEF TaskAfter
  <2>8. ASSUME NEW m \in Machines, N!Look(t, m) PROVE TaskAfter(t)
    <3>1. PICK d \in N!Row : d = [c EXCEPT !.name = m, !.status = "ready"]
      BY <1>1, NodeTaskTypes DEF NodeInv
    <3>2. d.name = m /\ d.status = "ready" /\ d.fp = c.fp
      BY <1>1, <3>1 DEF N!Row
    <3>3. install' = [install EXCEPT ![t].pc = "name", ![t].copy = d]
      BY <1>1, <1>2, <2>8, <3>1 DEF N!Look
    <3> QED
      BY <2>2, <2>8, <3>2, <3>3 DEF N!Look, N!At
  <2> QED
    BY <2>3, <2>4, <2>5, <2>6, <2>7, <2>8 DEF TaskStep
<1> QED
  BY <1>4, <1>5, <1>6

LEMMA JoinTask ==
  ASSUME JoinInv, NEW t \in Installs, TaskStep(t)
  PROVE  JoinInv'
<1> DEFINE n == install[t].node
           c == install[t].copy
<1>1. NodeInv
  BY DEF JoinInv
<1>2. /\ install[t].pc # "free" /\ N!TypeOK'
      /\ \A u \in Installs \ {t} : install'[u] = install[u]
      /\ \A o \in Nodes : o # n => node'[o] = node[o]
      /\ install'[t].pc # "free" => install'[t].node = n /\ Kept(c, install'[t].copy)
  BY <1>1, TaskStepTypes
<1>3. /\ RowAfter(t) /\ (install'[t] = N!Free \/ TaskAfter(t))
      /\ cluster' = cluster /\ strange \subseteq strange'
  BY <1>1, WhatTasksDo
<1>4. NodeInv' /\ TaskOf(t)
  BY <1>1, NodeInvTask DEF NodeInv
<1>5. \A o : Calm(o)' => Calm(o)
  BY <1>3 DEF Calm, N!Barred
(* The machine that a calm task finds is that of its row.                  *)
<1>6. Calm(n) /\ install[t].pc = "wait" => N!Candidates(t) \subseteq {c.host} \cap cluster
  BY <1>2, <1>4 DEF JoinInv, OnlyIts, N!Candidates
<1>7. ASSUME Calm(n) PROVE Truthful(node[n]) /\ Truthful(c) /\ OnlyIts(t)
  BY <1>2, <1>4, <1>7 DEF JoinInv, TaskOf
<1>8. ASSUME NEW o \in Nodes, Calm(o)' PROVE Truthful(node[o])'
  <2>1. CASE o # n
    BY <1>2, <1>3, <1>5, <1>8, <2>1 DEF JoinInv, Truthful
  <2>2. CASE o = n
    <3>1. Calm(n) /\ c.host = node[n].host
      BY <1>2, <1>4, <1>5, <1>8, <2>2 DEF TaskOf
    <3> QED
      BY <1>3, <1>6, <1>7, <2>2, <3>1 DEF RowAfter, Truthful
  <2> QED
    BY <2>1, <2>2
<1>9. ASSUME NEW u \in Installs, NEW o, install'[u].pc # "free", install'[u].node = o, Calm(o)'
      PROVE  Truthful(install[u].copy)' /\ OnlyIts(u)'
  <2>1. CASE u # t
    <3>1. install[u].node = o /\ Calm(o)
      BY <1>2, <1>5, <1>9, <2>1
    <3> QED
      BY <1>2, <1>3, <1>9, <2>1, <3>1 DEF JoinInv, Truthful, OnlyIts
  <2>2. CASE u = t
    <3>1. TaskAfter(t) /\ install'[t].node = n /\ install'[t].copy.host = c.host
      BY <1>2, <1>3, <1>9, <2>2 DEF Kept, N!Free
    <3>2. Calm(n) /\ <<"blind", n>> \notin strange'
      BY <1>5, <1>9, <2>2, <3>1 DEF Calm, N!Barred
    <3>3. Truthful(install[t].copy)'
      BY <1>3, <1>6, <1>7, <3>1, <3>2 DEF TaskAfter, Truthful
    <3>4. OnlyIts(t)'
      BY <1>3, <1>7, <3>1, <3>2 DEF TaskAfter, OnlyIts
    <3> QED
      BY <2>2, <3>3, <3>4
  <2> QED
    BY <2>1, <2>2
<1>10. \A u \in Installs : install'[u].pc # "free" /\ Calm(install[u].node)' =>
         Truthful(install[u].copy)' /\ OnlyIts(u)'
  BY <1>9 DEF Calm, N!Barred
<1> QED
  BY <1>4, <1>8, <1>10 DEF JoinInv

LEMMA JoinStep ==
  ASSUME JoinInv, NodeSteps \/ UNCHANGED nodeVars
  PROVE  JoinInv'
<1>1. NodeInv /\ node \in [Nodes -> N!Row]
  BY DEF JoinInv, NodeInv, N!TypeOK
<1>2. ASSUME NEW n \in Nodes, NEW m \in Machines, N!Create(n, m) PROVE JoinInv'
  <2>1. NodeInv'
    BY <1>1, <1>2, NodeInvRest
  <2>2. PICK r : r = [N!NoRow EXCEPT !.there = TRUE, !.host = m]
    OBVIOUS
  <2>3. node' = [node EXCEPT ![n] = r] /\ UNCHANGED <<cluster, install, strange>>
    BY <1>2, <2>2 DEF N!Create
  <2>4. r.status = "pending" /\ r.name = Nowhere
    BY <2>2 DEF N!NoRow
  <2> QED
    BY <1>1, <2>1, <2>3, <2>4 DEF JoinInv, Truthful, OnlyIts, Calm, N!Barred
<1>3. ASSUME NEW n \in Nodes, N!Delete(n) PROVE JoinInv'
  <2>1. NodeInv'
    BY <1>1, <1>3, NodeInvRest
  <2>2. PICK r \in N!Row : r = node[n]
    BY <1>1
  <2>3. PICK d : d = [r EXCEPT !.there = FALSE]
    OBVIOUS
  <2>4. d.status = r.status /\ d.name = r.name /\ d.host = r.host
    BY <2>3 DEF N!Row
  <2>5. node' = [node EXCEPT ![n] = d] /\ UNCHANGED <<cluster, install, strange>>
    BY <1>1, <1>3, <2>2, <2>3 DEF N!Delete
  <2> QED
    BY <1>1, <2>1, <2>2, <2>4, <2>5 DEF JoinInv, Truthful, OnlyIts, Calm, N!Barred
<1>4. ASSUME NEW n \in Nodes, NEW t \in Installs, N!Begin(t, n) PROVE JoinInv'
  <2>1. /\ NodeInv'
        /\ install'[t].pc = "mark" /\ install'[t].node = n /\ install'[t].copy = node[n]
        /\ \A u \in Installs \ {t} : install'[u] = install[u]
    BY <1>1, <1>4, NodeInvBegin
  <2>2. UNCHANGED <<node, cluster>> /\ \A o : Calm(o)' => Calm(o)
    BY <1>4 DEF N!Begin, Calm, N!Barred
  <2>3. ASSUME NEW u \in Installs, NEW o, install'[u].pc # "free", install'[u].node = o, Calm(o)'
        PROVE  Truthful(install[u].copy)' /\ OnlyIts(u)'
    BY <1>1, <1>4, <2>1, <2>2, <2>3 DEF JoinInv, Truthful, OnlyIts
  <2> QED
    BY <2>1, <2>2, <2>3 DEF JoinInv, Truthful, Calm, N!Barred
<1>5. ASSUME NEW m \in Machines, N!Join(m) PROVE JoinInv'
  <2>1. NodeInv' /\ UNCHANGED <<node, install>> /\ cluster' = cluster \cup {m} /\ strange \subseteq strange'
    BY <1>1, <1>5, NodeInvRest DEF N!Join
  <2>2. \A o : Calm(o)' => Calm(o)
    BY <2>1 DEF Calm, N!Barred
  <2>3. ASSUME NEW u \in Installs, install[u].pc # "free", Calm(install[u].node)' PROVE OnlyIts(u)'
    <3>1. OnlyIts(u)
      BY <2>1, <2>3 DEF JoinInv, Calm, N!Barred
    <3>2. install[u].pc \in {"install", "wait"} => install[u].copy.host = m
      BY <1>5, <2>1, <2>3 DEF N!Join, N!Watching, Calm, N!Barred
    <3> QED
      BY <2>1, <3>1, <3>2 DEF OnlyIts
  <2>4. \A u \in Installs : Calm(install[u].node)' => Calm(install[u].node)
    BY <2>1 DEF Calm, N!Barred
  <2> QED
    BY <2>1, <2>2, <2>3, <2>4 DEF JoinInv, Truthful
<1>6. ASSUME NEW t \in Installs, TaskStep(t) PROVE JoinInv'
  BY <1>6, JoinTask
<1>7. ASSUME NEW m \in Machines, NEW key \in HostKeys, N!Renew(m, key) PROVE JoinInv'
  <2>1. NodeInv' /\ UNCHANGED <<node, install, cluster, strange>>
    BY <1>1, <1>7, NodeInvRest DEF N!Renew
  <2> QED
    BY <2>1 DEF JoinInv, Truthful, OnlyIts, Calm, N!Barred
<1>8. ASSUME N!Crash PROVE JoinInv'
  <2>1. NodeInv' /\ UNCHANGED <<node, cluster, strange>>
    BY <1>1, <1>8, NodeInvRest DEF N!Crash
  <2>2. \A t \in Installs : install'[t].pc = "free"
    BY <1>8 DEF N!Crash, N!Free
  <2> QED
    BY <2>1, <2>2 DEF JoinInv, Truthful, Calm, N!Barred
<1>9. ASSUME UNCHANGED nodeVars PROVE JoinInv'
  <2>1. NodeInv'
    BY <1>1, <1>9, NodeInvRest
  <2> QED
    BY <1>9, <2>1 DEF nodeVars, JoinInv, Truthful, OnlyIts, Calm, N!Barred
<1> QED
  BY <1>2, <1>3, <1>4, <1>5, <1>6, <1>7, <1>8, <1>9 DEF NodeSteps

LEMMA PinTask ==
  ASSUME PinInv, NEW t \in Installs, TaskStep(t)
  PROVE  /\ PinInv'
         /\ \A n \in Nodes : node[n].fp # Nowhere =>
              node'[n].fp = node[n].fp \/ N!Barred(n, {"twice"})
<1> DEFINE n == install[t].node
           c == install[t].copy
<1>1. NodeInv
  BY DEF PinInv
<1>2. /\ install[t].pc # "free" /\ N!TypeOK'
      /\ \A u \in Installs \ {t} : install'[u] = install[u]
      /\ \A o \in Nodes : o # n => node'[o] = node[o]
      /\ install'[t].pc # "free" => install'[t].node = n /\ Kept(c, install'[t].copy)
  BY <1>1, TaskStepTypes
<1>3. /\ RowAfter(t) /\ (install'[t] = N!Free \/ TaskAfter(t)) /\ strange \subseteq strange'
  BY <1>1, WhatTasksDo
<1>4. NodeInv' /\ TaskOf(t)
  BY <1>1, NodeInvTask DEF NodeInv
<1>5. \A o : N!Barred(o, {"twice"}) => N!Barred(o, {"twice"})'
  BY <1>3 DEF N!Barred
<1>6. ~ N!Barred(n, {"twice"}) =>
        /\ \A u \in Installs \ {t} : install[u].node # n
        /\ node[n].fp # Nowhere => c.fp = node[n].fp
        /\ node'[n].fp \in {node[n].fp, c.fp}
  BY <1>2, <1>3 DEF PinInv, RowAfter
<1>7. \A o \in Nodes : node[o].fp # Nowhere =>
        node'[o].fp = node[o].fp \/ N!Barred(o, {"twice"})
  BY <1>2, <1>6
<1>8. ASSUME NEW u \in Installs, NEW o, install'[u].pc # "free", install'[u].node = o,
             ~ N!Barred(o, {"twice"})'
      PROVE  /\ \A v \in Installs \ {u} : install'[v].node # o
             /\ node'[o].fp # Nowhere => install'[u].copy.fp = node'[o].fp
  <2>1. o \in Nodes /\ o # Nowhere /\ ~ N!Barred(o, {"twice"})
    BY <1>4, <1>5, <1>8, NodesAssumption DEF NodeInv, TaskOf
  <2>2. install'[t].node \in {n, Nowhere}
    BY TaskStepTypes, <1>1
  <2>3. CASE u # t
    <3>1. install[u].node = o /\ install[u].pc # "free" /\ o # n
      BY <1>2, <1>6, <1>8, <2>1, <2>3
    <3> QED
      BY <1>2, <1>8, <2>1, <2>2, <2>3, <3>1 DEF PinInv
  <2>4. CASE u = t
    <3>1. o = n /\ TaskAfter(t)
      BY <1>2, <1>3, <1>8, <2>4 DEF N!Free
    <3>2. install'[t].copy.fp = c.fp \/ (c.fp = Nowhere /\ node'[n].fp = Nowhere)
      BY <1>6, <2>1, <3>1 DEF TaskAfter
    <3> QED
      BY <1>2, <1>6, <2>1, <2>4, <3>1, <3>2
  <2> QED
    BY <2>3, <2>4
<1>9. \A u \in Installs : install'[u].pc # "free" /\ ~ N!Barred(install[u].node, {"twice"})' =>
        /\ \A v \in Installs \ {u} : install'[v].node # install'[u].node
        /\ node'[install'[u].node].fp # Nowhere =>
             install'[u].copy.fp = node'[install'[u].node].fp
  BY <1>8 DEF N!Barred
<1> QED
  BY <1>4, <1>7, <1>9 DEF PinInv

LEMMA PinStep ==
  ASSUME PinInv, NodeSteps \/ UNCHANGED nodeVars
  PROVE  /\ PinInv'
         /\ \A n \in Nodes : node[n].fp # Nowhere =>
              node'[n].fp = node[n].fp \/ N!Barred(n, {"twice"})
<1> DEFINE Pinned == \A n \in Nodes : node[n].fp # Nowhere =>
                       node'[n].fp = node[n].fp \/ N!Barred(n, {"twice"})
<1>1. NodeInv /\ node \in [Nodes -> N!Row] /\ N!NoRow.fp = Nowhere /\ N!NoRow.host = Nowhere
  BY DEF PinInv, NodeInv, N!TypeOK, N!NoRow
<1>2. ASSUME NEW n \in Nodes, NEW m \in Machines, N!Create(n, m) PROVE PinInv' /\ Pinned
  <2>1. NodeInv'
    BY <1>1, <1>2, NodeInvRest
  <2>2. PICK r : r = [N!NoRow EXCEPT !.there = TRUE, !.host = m]
    OBVIOUS
  <2>3. node' = [node EXCEPT ![n] = r] /\ UNCHANGED <<install, strange>> /\ node[n] = N!NoRow
    BY <1>2, <2>2 DEF N!Create
  <2>4. r.fp = Nowhere
    BY <2>2 DEF N!NoRow
  <2> QED
    BY <1>1, <2>1, <2>3, <2>4 DEF PinInv, N!Barred
<1>3. ASSUME NEW n \in Nodes, N!Delete(n) PROVE PinInv' /\ Pinned
  <2>1. NodeInv'
    BY <1>1, <1>3, NodeInvRest
  <2>2. PICK r \in N!Row : r = node[n]
    BY <1>1
  <2>3. PICK d : d = [r EXCEPT !.there = FALSE]
    OBVIOUS
  <2>4. d.fp = r.fp
    BY <2>3 DEF N!Row
  <2>5. node' = [node EXCEPT ![n] = d] /\ UNCHANGED <<install, strange>>
    BY <1>1, <1>3, <2>2, <2>3 DEF N!Delete
  <2>6. \A o \in Nodes : node'[o].fp = node[o].fp
    BY <1>1, <2>2, <2>4, <2>5
  <2>7. \A t \in Installs : install[t].pc # "free" => install[t].node \in Nodes
    BY <1>1 DEF NodeInv, TaskOf
  <2> QED
    BY <2>1, <2>5, <2>6, <2>7 DEF PinInv, N!Barred
<1>4. ASSUME NEW n \in Nodes, NEW t \in Installs, N!Begin(t, n) PROVE PinInv' /\ Pinned
  <2>1. /\ NodeInv'
        /\ install'[t].pc = "mark" /\ install'[t].node = n /\ install'[t].copy = node[n]
        /\ \A u \in Installs \ {t} : install'[u] = install[u]
    BY <1>1, <1>4, NodeInvBegin
  <2>2. /\ node' = node
        /\ \/ strange' = strange \cup {<<"twice", n>>}
           \/ strange' = strange /\ ~ \E u \in Installs : install[u].node = n
    BY <1>4 DEF N!Begin
  <2>3. ASSUME NEW u \in Installs, NEW o, install'[u].pc # "free", install'[u].node = o,
               ~ N!Barred(o, {"twice"})'
        PROVE  /\ \A v \in Installs \ {u} : install'[v].node # o
               /\ node'[o].fp # Nowhere => install'[u].copy.fp = node'[o].fp
    <3>1. ~ N!Barred(o, {"twice"}) /\ (o = n => ~ \E v \in Installs : install[v].node = n)
      BY <2>2, <2>3 DEF N!Barred
    <3>2. CASE u = t
      BY <2>1, <2>2, <2>3, <3>1, <3>2
    <3>3. CASE u # t
      BY <2>1, <2>2, <2>3, <3>1, <3>3 DEF PinInv
    <3> QED
      BY <3>2, <3>3
  <2>4. \A u \in Installs : install'[u].pc # "free" /\ ~ N!Barred(install[u].node, {"twice"})' =>
          /\ \A v \in Installs \ {u} : install'[v].node # install'[u].node
          /\ node'[install'[u].node].fp # Nowhere =>
               install'[u].copy.fp = node'[install'[u].node].fp
    BY <2>3 DEF N!Barred
  <2> QED
    BY <2>1, <2>2, <2>4 DEF PinInv
<1>5. ASSUME NEW m \in Machines, N!Join(m) PROVE PinInv' /\ Pinned
  <2>1. NodeInv' /\ UNCHANGED <<node, install>> /\ strange \subseteq strange'
    BY <1>1, <1>5, NodeInvRest DEF N!Join
  <2> QED
    BY <2>1 DEF PinInv, N!Barred
<1>6. ASSUME NEW t \in Installs, TaskStep(t) PROVE PinInv' /\ Pinned
  BY <1>6, PinTask
<1>7. ASSUME NEW m \in Machines, NEW key \in HostKeys, N!Renew(m, key) PROVE PinInv' /\ Pinned
  <2>1. NodeInv' /\ UNCHANGED <<node, install, strange>>
    BY <1>1, <1>7, NodeInvRest DEF N!Renew
  <2> QED
    BY <2>1 DEF PinInv, N!Barred
<1>8. ASSUME N!Crash PROVE PinInv' /\ Pinned
  <2>1. NodeInv' /\ UNCHANGED <<node, strange>>
    BY <1>1, <1>8, NodeInvRest DEF N!Crash
  <2>2. \A t \in Installs : install'[t].pc = "free"
    BY <1>8 DEF N!Crash, N!Free
  <2> QED
    BY <2>1, <2>2 DEF PinInv
<1>9. ASSUME UNCHANGED nodeVars PROVE PinInv' /\ Pinned
  <2>1. NodeInv'
    BY <1>1, <1>9, NodeInvRest
  <2> QED
    BY <1>9, <2>1 DEF nodeVars, PinInv, N!Barred
<1> HIDE DEF Pinned
<1>10. PinInv' /\ Pinned
  BY <1>2, <1>3, <1>4, <1>5, <1>6, <1>7, <1>8, <1>9 DEF NodeSteps
<1> QED
  BY <1>10 DEF Pinned

(* node_service.go: the states of the rows and of the initializations are *)
(* those that the model names; a node that is shown as ready has joined    *)
(* the cluster, under its own name.                                        *)
THEOREM NodesTypeCorrect == N!Spec => []N!TypeOK
<1>1. N!Init => JoinInv
  BY NodesInit
<1>2. JoinInv /\ [N!Next]_N!vars => JoinInv'
  BY JoinStep DEF N!Next, NodeSteps, TaskStep, N!vars, nodeVars
<1>3. JoinInv => N!TypeOK
  BY DEF JoinInv, NodeInv
<1> QED
  BY <1>1, <1>2, <1>3, PTL DEF N!Spec
THEOREM ReadyIsJoined == N!Spec => []ReadyHasJoined
<1>1. N!Init => JoinInv
  BY NodesInit
<1>2. JoinInv /\ [N!Next]_N!vars => JoinInv'
  BY JoinStep DEF N!Next, NodeSteps, TaskStep, N!vars, nodeVars
<1>3. JoinInv => ReadyHasJoined
  BY DEF JoinInv, ReadyHasJoined, N!ReadyHasJoined, Truthful, Calm
<1> QED
  BY <1>1, <1>2, <1>3, PTL DEF N!Spec

(* The host key of a node's first connection stays the one that is         *)
(* trusted (node_service.go, HostKeyFingerprint).                          *)
THEOREM FirstKeyIsPinned == N!Spec => KeyIsPinned
<1> DEFINE Pinned == \A n \in Nodes : node[n].fp # Nowhere =>
                       node'[n].fp = node[n].fp \/ N!Barred(n, {"twice"})
<1>1. N!Init => PinInv
  BY NodesInit
<1>2. PinInv /\ [N!Next]_N!vars => PinInv' /\ [Pinned]_N!vars
  BY PinStep DEF N!Next, NodeSteps, TaskStep, N!vars, nodeVars
<1>3. N!Spec => [][Pinned]_N!vars
  BY <1>1, <1>2, PTL DEF N!Spec
<1> QED
  BY <1>3 DEF KeyIsPinned, N!KeyIsPinned

-----------------------------------------------------------------------------
(* Settings *)

(* A request is what Begin has let in, and its server is up.               *)
Fields == S!Settable \cup {"done"}
RequestOf(q) ==
  write[q].pc # "free" =>
    /\ write[q].key \in S!Settable /\ write[q].to \in S!Values(write[q].key)
    /\ write[q].pc \in {"enabled", "id", "secret"} => S!Enforces(q)
    /\ write[q].pc = "only" => S!Withdraws(q)
    /\ write[q].at \in Replicas /\ boot[write[q].at].pc = "up"
KeysInv == S!TypeOK /\ \A q \in Writers : RequestOf(q)

(* What a request has checked is still so, unless it is late.              *)
Checked(q) ==
  ~ write[q].late =>
    /\ S!Enforces(q) =>
         /\ write[q].pc \in {"id", "secret", "write"} => val.enabled = "on"
         /\ write[q].pc = "secret" /\ write[q].seen = "on" => val.id = "on"
         /\ write[q].pc = "write" => val.id = "on" /\ val.secret = "on"
    /\ S!Withdraws(q) /\ write[q].pc = "write" => val.only # "on"
CanSignIn == val.only = "on" => val.enabled = "on" /\ val.id = "on" /\ val.secret = "on"
ModeInv ==
  /\ KeysInv /\ \A q \in Writers : Checked(q)
  /\ "crossed" \notin amiss => CanSignIn

(* Nobody has set anything before a server is up, and the first one has    *)
(* noted that by then.                                                     *)
Orderly == amiss \cap {"blind", "undone", "raced"} = {}
Never == \A n \in S!Names : given[n] = "never"
HeedInv ==
  /\ KeysInv
  /\ Orderly =>
       /\ S!Starting => Never
       /\ val.done = "on" \/ (Never /\ \A s \in Replicas : boot[s].pc # "up")
       /\ UserIsHeeded

Stored(v, k, x) == [v EXCEPT ![k] = x]
LEMMA ValueStored ==
  ASSUME NEW v \in S!Setting, NEW k \in S!Settable, NEW x \in S!Values(k)
  PROVE  /\ Stored(v, k, x) \in S!Setting
         /\ \A j \in Fields : Stored(v, k, x)[j] = IF j = k THEN x ELSE v[j]
<1> USE DEF Stored
<1>1. k \in {"only", "enabled", "id", "secret", "ip", "base"}
  BY DEF S!Settable, S!Credentials, S!Names
<1>2. \A j \in Fields : j \in {"only", "enabled", "id", "secret", "ip", "base", "done"}
  BY DEF Fields, S!Settable, S!Credentials, S!Names
<1>3. CASE k = "only"
  BY <1>2, <1>3 DEF S!Setting, S!Values, S!Names, S!Flag
<1>4. CASE k = "enabled"
  BY <1>2, <1>4 DEF S!Setting, S!Values, S!Names, S!Flag
<1>5. CASE k = "id"
  BY <1>2, <1>5 DEF S!Setting, S!Values, S!Names, S!Flag
<1>6. CASE k = "secret"
  BY <1>2, <1>6 DEF S!Setting, S!Values, S!Names, S!Flag
<1>7. CASE k = "ip"
  BY <1>2, <1>7 DEF S!Setting, S!Values, S!Names, S!Sources
<1>8. CASE k = "base"
  BY <1>2, <1>8 DEF S!Setting, S!Values, S!Names, S!Sources
<1> QED
  BY <1>1, <1>3, <1>4, <1>5, <1>6, <1>7, <1>8

LEMMA SettingsInit ==
  ASSUME S!Init
  PROVE  ModeInv /\ HeedInv
<1>1. S!Free \in S!Request /\ S!Free.pc = "free" /\ S!Down \in S!Boot /\ S!Down.pc = "down"
  BY DEF S!Free, S!Request, S!Down, S!Boot, S!Flag
<1>2. PICK c \in S!Flag : val = [only |-> "off", done |-> c, enabled |-> c, id |-> c, secret |-> c,
                                 ip |-> Unset, base |-> Unset]
  BY DEF S!Init
<1>3. val \in S!Setting /\ val.only = "off"
  BY <1>2 DEF S!Setting, S!Flag
<1>4. MaxWrites \in 0..MaxWrites /\ MaxLosses \in 0..MaxLosses
  BY SettingsAssumption
<1>5. S!TypeOK
  BY <1>1, <1>3, <1>4 DEF S!Init, S!TypeOK
<1>6. KeysInv
  BY <1>1, <1>5 DEF S!Init, KeysInv, RequestOf
<1>7. ModeInv
  BY <1>1, <1>3, <1>6 DEF S!Init, ModeInv, Checked, CanSignIn
<1>8. HeedInv
  <2>1. Never /\ ~ S!Starting /\ \A s \in Replicas : boot[s].pc = "down"
    BY <1>1 DEF S!Init, Never, S!Starting
  <2> QED
    BY <1>6, <2>1 DEF HeedInv, UserIsHeeded, S!UserIsHeeded, Never
<1> QED
  BY <1>7, <1>8

LEMMA RequestSaw ==
  ASSUME NEW x \in S!Request, NEW f \in S!Flag
  PROVE  LET y == [x EXCEPT !.pc = "secret", !.seen = f] IN
         /\ y \in S!Request /\ y.pc = "secret" /\ y.seen = f
         /\ y.key = x.key /\ y.to = x.to /\ y.at = x.at /\ y.late = x.late
BY DEF S!Request
LEMMA FreeRequest == S!Free \in S!Request /\ S!Free.pc = "free"
BY DEF S!Free, S!Request, S!Flag

(* The bounds.                                                             *)
LEMMA RestTypes ==
  ASSUME S!TypeOK, S!Works \/ S!Fault
  PROVE  rest' \in [ops : 0..MaxWrites, faults : 0..MaxLosses]
<1>1. rest \in [ops : 0..MaxWrites, faults : 0..MaxLosses]
  BY DEF S!TypeOK
<1>2. rest.faults > 0 => rest.faults - 1 \in 0..MaxLosses
  BY <1>1, SettingsAssumption
<1> QED
  BY <1>1, <1>2 DEF S!Works, S!Fault

(* What a check reads.                                                     *)
ReadStep(r) == S!ReadEnabled(r) \/ S!ReadId(r) \/ S!ReadSecret(r) \/ S!ReadMode(r)
HasRead(r) ==
  LET x == write[r]  y == write'[r] IN
  /\ y.key = x.key /\ y.to = x.to /\ y.at = x.at /\ y.late = x.late
  /\ \/ x.pc = "enabled" /\ y.pc = "id" /\ val.enabled = "on"
     \/ x.pc = "id" /\ y.pc = "secret" /\ y.seen = val.id
     \/ x.pc = "secret" /\ y.pc = "write" /\ x.seen = "on" /\ val.secret = "on"
     \/ x.pc = "only" /\ y.pc = "write" /\ val.only # "on"
LEMMA ReadSteps ==
  ASSUME KeysInv, NEW r \in Writers, ReadStep(r)
  PROVE  /\ KeysInv' /\ UNCHANGED <<val, boot, rest, given, amiss>>
         /\ \A q \in Writers \ {r} : write'[q] = write[q]
         /\ write'[r] = S!Free \/ HasRead(r)
<1>1. UNCHANGED <<val, boot, rest, given, amiss>> /\ write[r].pc # "free"
  BY DEF ReadStep, S!ReadEnabled, S!ReadId, S!ReadSecret, S!ReadMode
<1>2. write \in [Writers -> S!Request] /\ val \in S!Setting
  BY DEF KeysInv, S!TypeOK
<1>3. PICK x \in S!Request : x = write[r]
  BY <1>2
<1>4. PICK y \in S!Request : write' = [write EXCEPT ![r] = y] /\ (y = S!Free \/ HasRead(r))
  <2>1. ASSUME NEW pc \in {"id", "write"}, S!Go(r, pc),
               \/ x.pc = "enabled" /\ pc = "id" /\ val.enabled = "on"
               \/ x.pc = "secret" /\ pc = "write" /\ x.seen = "on" /\ val.secret = "on"
               \/ x.pc = "only" /\ pc = "write" /\ val.only # "on"
        PROVE  \E y \in S!Request : write' = [write EXCEPT ![r] = y] /\ (y = S!Free \/ HasRead(r))
    <3>1. PICK y : y = [x EXCEPT !.pc = pc]
      OBVIOUS
    <3>2. y \in S!Request /\ y.pc = pc /\ y.key = x.key /\ y.to = x.to /\ y.at = x.at /\ y.late = x.late
      BY <3>1 DEF S!Request
    <3>3. write' = [write EXCEPT ![r] = y]
      BY <1>2, <1>3, <2>1, <3>1 DEF S!Go
    <3>4. write'[r] = y
      BY <1>2, <3>3
    <3>5. HasRead(r)
      BY <1>3, <2>1, <3>2, <3>4 DEF HasRead
    <3> QED
      BY <3>2, <3>3, <3>5
  <2>2. CASE S!ReadId(r)
    <3>1. val.id \in S!Flag
      BY <1>2 DEF S!Setting
    <3>2. PICK y : y = [x EXCEPT !.pc = "secret", !.seen = val.id]
      OBVIOUS
    <3>3. /\ y \in S!Request /\ y.pc = "secret" /\ y.seen = val.id
          /\ y.key = x.key /\ y.to = x.to /\ y.at = x.at /\ y.late = x.late
      BY <3>1, <3>2, RequestSaw
    <3>4. write' = [write EXCEPT ![r] = y]
      BY <1>2, <1>3, <2>2, <3>2 DEF S!ReadId
    <3>5. write'[r] = y
      BY <1>2, <3>4
    <3>6. HasRead(r)
      BY <1>3, <2>2, <3>3, <3>5 DEF HasRead, S!ReadId
    <3> QED
      BY <3>3, <3>4, <3>6
  <2>3. CASE S!Answer(r)
    BY <2>3, FreeRequest DEF S!Answer
  <2> QED
    BY <1>3, <2>1, <2>2, <2>3 DEF ReadStep, S!ReadEnabled, S!ReadSecret, S!ReadMode, S!MayWithdraw
<1>5. /\ write' \in [Writers -> S!Request] /\ write'[r] = y
      /\ \A q \in Writers \ {r} : write'[q] = write[q]
  BY <1>2, <1>4
<1>6. S!TypeOK'
  BY <1>1, <1>5 DEF KeysInv, S!TypeOK
<1>7. RequestOf(r)'
  <2>1. RequestOf(r)
    BY DEF KeysInv
  <2> QED
    BY <1>1, <1>4, <1>5, <2>1, FreeRequest DEF RequestOf, HasRead, S!Enforces, S!Withdraws, S!Credentials
<1>8. \A q \in Writers \ {r} : RequestOf(q)'
  BY <1>1, <1>5 DEF KeysInv, RequestOf, S!Enforces, S!Withdraws
<1> QED
  BY <1>1, <1>4, <1>5, <1>6, <1>7, <1>8 DEF KeysInv

LEMMA BeginSteps ==
  ASSUME KeysInv, NEW r \in Writers, NEW s \in Replicas, NEW k \in S!Settable,
         NEW v \in S!Flag \cup {"user", Unset}, S!Begin(r, s, k, v)
  PROVE  /\ KeysInv' /\ UNCHANGED <<val, boot, given, amiss>>
         /\ \A q \in Writers \ {r} : write'[q] = write[q]
         /\ S!Enforces(r)' => write'[r].pc = "enabled"
         /\ S!Withdraws(r)' => write'[r].pc = "only"
<1>1. PICK p : p = S!FirstCheck(k, v)
  OBVIOUS
<1>2. PICK x : x = [S!Free EXCEPT !.pc = p, !.key = k, !.to = v, !.at = s]
  OBVIOUS
<1>3. /\ p \in {"enabled", "only", "write"} /\ (k = "only" /\ v = "on" <=> p = "enabled")
      /\ k \in S!Credentials /\ v = "off" <=> p = "only"
  BY <1>1 DEF S!FirstCheck, S!Credentials
<1>4. x \in S!Request /\ x.pc = p /\ x.key = k /\ x.to = v /\ x.at = s
  BY <1>2, <1>3 DEF S!Free, S!Request, S!Flag
<1>5. write' = [write EXCEPT ![r] = x] /\ UNCHANGED <<val, boot, given, amiss>> /\ boot[s].pc = "up"
      /\ v \in S!Values(k)
  BY <1>1, <1>2 DEF S!Begin
<1>6. write' \in [Writers -> S!Request] /\ write'[r] = x
      /\ \A q \in Writers \ {r} : write'[q] = write[q]
  BY <1>4, <1>5 DEF KeysInv, S!TypeOK
<1>7. rest' \in [ops : 0..MaxWrites, faults : 0..MaxLosses]
  <2>1. rest \in [ops : 0..MaxWrites, faults : 0..MaxLosses] /\ rest.ops > 0
    BY DEF KeysInv, S!TypeOK, S!Begin
  <2>2. rest.ops - 1 \in 0..MaxWrites
    BY <2>1, SettingsAssumption
  <2> QED
    BY <2>1, <2>2 DEF S!Begin
<1>8. S!TypeOK'
  BY <1>5, <1>6, <1>7 DEF KeysInv, S!TypeOK
<1>9. RequestOf(r)'
  BY <1>3, <1>4, <1>5, <1>6 DEF RequestOf, S!Enforces, S!Withdraws
<1>10. \A q \in Writers \ {r} : RequestOf(q)'
  BY <1>5, <1>6 DEF KeysInv, RequestOf, S!Enforces, S!Withdraws
<1>11. (S!Enforces(r)' => write'[r].pc = "enabled") /\ (S!Withdraws(r)' => write'[r].pc = "only")
  BY <1>3, <1>4, <1>6 DEF S!Enforces, S!Withdraws
<1> QED
  BY <1>5, <1>6, <1>8, <1>9, <1>10, <1>11 DEF KeysInv

LEMMA StoreSteps ==
  ASSUME KeysInv, NEW r \in Writers, S!Store(r)
  PROVE  /\ KeysInv' /\ boot' = boot
         /\ write[r].pc = "write" /\ write[r].key \in S!Settable
         /\ \A j \in Fields : val'[j] = IF j = write[r].key THEN write[r].to ELSE val[j]
         /\ write'[r] = S!Free
         /\ \A q \in Writers \ {r} :
              /\ write'[q].pc = write[q].pc /\ write'[q].seen = write[q].seen
              /\ write'[q].key = write[q].key /\ write'[q].to = write[q].to
              /\ write'[q].late = (write[q].late \/ q \in S!Outdated(r))
         /\ amiss' = amiss \cup (IF write[r].late THEN {"crossed"} ELSE {})
                           \cup (IF write[r].key \in S!Names /\ S!Starting THEN {"raced"} ELSE {})
         /\ given' = IF write[r].key \in S!Names THEN [given EXCEPT ![write[r].key] = write[r].to]
                     ELSE given
         /\ write[r].key \in S!Names => write[r].to \in {"user", Unset}
<1>1. write \in [Writers -> S!Request] /\ val \in S!Setting /\ RequestOf(r)
  BY DEF KeysInv, S!TypeOK
<1>2. PICK k, v : k = write[r].key /\ v = write[r].to
  OBVIOUS
<1>3. /\ write[r].pc = "write" /\ val' = [val EXCEPT ![k] = v] /\ boot' = boot /\ rest' = rest
      /\ write' = [q \in Writers |->
                    IF q = r THEN S!Free
                    ELSE [write[q] EXCEPT !.late = write[q].late \/ q \in S!Outdated(r)]]
      /\ given' = IF k \in S!Names THEN [given EXCEPT ![k] = v] ELSE given
      /\ amiss' = amiss \cup (IF write[r].late THEN {"crossed"} ELSE {})
                        \cup (IF k \in S!Names /\ S!Starting THEN {"raced"} ELSE {})
  BY <1>2 DEF S!Store
<1>4. k \in S!Settable /\ v \in S!Values(k)
  BY <1>1, <1>2, <1>3 DEF RequestOf
<1>5. val' \in S!Setting /\ \A j \in Fields : val'[j] = IF j = k THEN v ELSE val[j]
  <2>1. val' = Stored(val, k, v)
    BY <1>3 DEF Stored
  <2> QED
    BY <1>1, <1>4, <2>1, ValueStored
<1>6. ASSUME NEW q \in Writers \ {r}
      PROVE  /\ write'[q] \in S!Request
             /\ write'[q].pc = write[q].pc /\ write'[q].seen = write[q].seen
             /\ write'[q].key = write[q].key /\ write'[q].to = write[q].to
             /\ write'[q].at = write[q].at
             /\ write'[q].late = (write[q].late \/ q \in S!Outdated(r))
  <2>1. PICK x \in S!Request : x = write[q]
    BY <1>1
  <2>2. PICK l : l = (x.late \/ q \in S!Outdated(r))
    OBVIOUS
  <2>3. l \in BOOLEAN
    BY <2>1, <2>2 DEF S!Request
  <2>4. write'[q] = [x EXCEPT !.late = l]
    BY <1>3, <2>1, <2>2
  <2>5. PICK y : y = [x EXCEPT !.late = l]
    OBVIOUS
  <2>6. /\ y \in S!Request /\ y.late = l /\ y.pc = x.pc /\ y.seen = x.seen
        /\ y.key = x.key /\ y.to = x.to /\ y.at = x.at
    BY <2>3, <2>5 DEF S!Request
  <2> QED
    BY <2>1, <2>2, <2>4, <2>5, <2>6
<1>7. write'[r] = S!Free /\ write' \in [Writers -> S!Request]
  <2>1. write'[r] = S!Free
    BY <1>3
  <2>2. \A q \in Writers : write'[q] \in S!Request
    BY <1>6, <2>1, FreeRequest
  <2> QED
    BY <1>3, <2>1, <2>2
<1>8. k \in S!Names => v \in {"user", Unset}
  BY <1>4 DEF S!Values
<1>9. S!TypeOK'
  <2>1. given' \in [S!Names -> {"user", Unset, "never"}]
    BY <1>3, <1>8 DEF KeysInv, S!TypeOK
  <2>2. amiss' \subseteq {"crossed", "blind", "undone", "raced"}
    BY <1>3 DEF KeysInv, S!TypeOK
  <2> QED
    BY <1>3, <1>5, <1>7, <2>1, <2>2 DEF KeysInv, S!TypeOK
<1>10. \A q \in Writers : RequestOf(q)'
  <2>1. RequestOf(r)'
    BY <1>7, FreeRequest DEF RequestOf
  <2>2. ASSUME NEW q \in Writers \ {r} PROVE RequestOf(q)'
    <3>1. /\ write'[q].pc = write[q].pc /\ write'[q].key = write[q].key
          /\ write'[q].to = write[q].to /\ write'[q].at = write[q].at
      BY <1>6
    <3>2. RequestOf(q)
      BY DEF KeysInv
    <3> QED
      BY <1>3, <3>1, <3>2 DEF RequestOf, S!Enforces, S!Withdraws
  <2> QED
    BY <2>1, <2>2
<1> QED
  BY <1>2, <1>3, <1>4, <1>5, <1>6, <1>7, <1>8, <1>9, <1>10 DEF KeysInv

LEMMA FailSteps ==
  ASSUME KeysInv, NEW r \in Writers, S!Fail(r)
  PROVE  /\ KeysInv' /\ UNCHANGED <<val, boot, given, amiss>>
         /\ write'[r] = S!Free /\ \A q \in Writers \ {r} : write'[q] = write[q]
<1>1. write' = [write EXCEPT ![r] = S!Free] /\ UNCHANGED <<val, boot, given, amiss>>
  BY DEF S!Fail, S!Answer
<1>2. rest' \in [ops : 0..MaxWrites, faults : 0..MaxLosses]
  BY RestTypes DEF KeysInv, S!Fail
<1>3. S!TypeOK' /\ write'[r] = S!Free /\ \A q \in Writers \ {r} : write'[q] = write[q]
  BY <1>1, <1>2, FreeRequest DEF KeysInv, S!TypeOK
<1>4. RequestOf(r)'
  BY <1>3, FreeRequest DEF RequestOf
<1>5. \A q \in Writers \ {r} : RequestOf(q)'
  BY <1>1, <1>3 DEF KeysInv, RequestOf, S!Enforces, S!Withdraws
<1> QED
  BY <1>1, <1>3, <1>4, <1>5 DEF KeysInv

LEMMA StopSteps ==
  ASSUME KeysInv, NEW s \in Replicas, S!Stop(s)
  PROVE  /\ KeysInv' /\ UNCHANGED <<val, given, amiss>>
         /\ \A q \in Writers : write'[q] \in {write[q], S!Free}
         /\ boot'[s].pc = "down" /\ \A t \in Replicas \ {s} : boot'[t] = boot[t]
<1>1. /\ boot' = [boot EXCEPT ![s] = S!Down] /\ UNCHANGED <<val, given, amiss>>
      /\ write' = [r \in Writers |-> IF write[r].at = s THEN S!Free ELSE write[r]]
  BY DEF S!Stop
<1>2. rest' \in [ops : 0..MaxWrites, faults : 0..MaxLosses]
  BY RestTypes DEF KeysInv, S!Stop
<1>3. S!Down \in S!Boot /\ S!Down.pc = "down"
  BY DEF S!Down, S!Boot
<1>4. write' \in [Writers -> S!Request] /\ \A q \in Writers : write'[q] \in {write[q], S!Free}
  BY <1>1, FreeRequest DEF KeysInv, S!TypeOK
<1>5. S!TypeOK' /\ boot'[s].pc = "down" /\ \A t \in Replicas \ {s} : boot'[t] = boot[t]
  BY <1>1, <1>2, <1>3, <1>4 DEF KeysInv, S!TypeOK
<1>6. \A q \in Writers : RequestOf(q)'
  <2> SUFFICES ASSUME NEW q \in Writers PROVE RequestOf(q)'
    OBVIOUS
  <2>1. CASE write[q].at = s
    BY <1>1, <2>1, FreeRequest DEF RequestOf
  <2>2. CASE write[q].at # s
    BY <1>1, <1>5, <2>2 DEF KeysInv, RequestOf, S!Enforces, S!Withdraws
  <2> QED
    BY <2>1, <2>2
<1> QED
  BY <1>1, <1>4, <1>5, <1>6 DEF KeysInv

(* A step of a starting server.                                            *)
Unready == {"detect", "look", "default", "finish"}
BootStep(s) ==
  \/ \E env \in BOOLEAN : S!Start(s, env)
  \/ \E ip \in S!Sources \cup {Unset} : S!SetAddress(s, ip)
  \/ S!Override(s) \/ S!LookAtDone(s) \/ S!LookAtBase(s) \/ S!SetBase(s) \/ S!Finish(s)
HasMoved(s, pc) ==
  /\ boot' \in [Replicas -> S!Boot] /\ boot'[s].pc = pc
  /\ \A t \in Replicas \ {s} : boot'[t] = boot[t]
LEMMA BootMoved ==
  ASSUME KeysInv, NEW s \in Replicas
  PROVE  /\ \A pc \in {"env", "done", "detect", "look", "default", "finish", "up"} :
              S!BootTo(s, pc) => HasMoved(s, pc)
         /\ \A env \in BOOLEAN : S!Start(s, env) => HasMoved(s, "env")
         /\ \A ip \in S!Sources \cup {Unset} :
              S!SetAddress(s, ip) => HasMoved(s, IF ip = Unset THEN "finish" ELSE "look")
<1>1. boot \in [Replicas -> S!Boot]
  BY DEF KeysInv, S!TypeOK
<1>2. PICK x \in S!Boot : x = boot[s]
  BY <1>1
<1>3. ASSUME NEW y \in S!Boot, boot' = [boot EXCEPT ![s] = y] PROVE HasMoved(s, y.pc)
  BY <1>1, <1>3 DEF HasMoved
<1>4. ASSUME NEW pc \in {"env", "done", "detect", "look", "default", "finish", "up"}, S!BootTo(s, pc)
      PROVE  HasMoved(s, pc)
  <2>1. PICK y : y = [x EXCEPT !.pc = pc]
    OBVIOUS
  <2>2. y \in S!Boot /\ y.pc = pc
    BY <2>1 DEF S!Boot
  <2>3. boot' = [boot EXCEPT ![s] = y]
    BY <1>1, <1>2, <1>4, <2>1 DEF S!BootTo
  <2> QED
    BY <1>3, <2>2, <2>3
<1>5. ASSUME NEW env \in BOOLEAN, S!Start(s, env) PROVE HasMoved(s, "env")
  <2>1. PICK y : y = [S!Down EXCEPT !.pc = "env", !.env = env]
    OBVIOUS
  <2>2. y \in S!Boot /\ y.pc = "env"
    BY <2>1 DEF S!Boot, S!Down
  <2>3. boot' = [boot EXCEPT ![s] = y]
    BY <1>5, <2>1 DEF S!Start
  <2> QED
    BY <1>3, <2>2, <2>3
<1>6. ASSUME NEW ip \in S!Sources \cup {Unset}, S!SetAddress(s, ip)
      PROVE  HasMoved(s, IF ip = Unset THEN "finish" ELSE "look")
  <2>1. PICK pc \in {"finish", "look"} : pc = IF ip = Unset THEN "finish" ELSE "look"
    OBVIOUS
  <2>2. PICK y : y = [x EXCEPT !.pc = pc, !.ip = ip]
    OBVIOUS
  <2>3. y \in S!Boot /\ y.pc = pc
    BY <2>2 DEF S!Boot
  <2>4. boot' = [boot EXCEPT ![s].pc = pc, ![s].ip = ip]
    BY <1>6, <2>1 DEF S!SetAddress
  <2>5. boot' = [boot EXCEPT ![s] = y]
    BY <1>1, <1>2, <2>2, <2>4
  <2> QED
    BY <1>3, <2>1, <2>3, <2>5
<1> QED
  BY <1>4, <1>5, <1>6

LEMMA BootSteps ==
  ASSUME KeysInv, NEW s \in Replicas, BootStep(s)
  PROVE  /\ KeysInv' /\ UNCHANGED <<write, given>> /\ boot[s].pc # "up" /\ amiss \subseteq amiss'
         /\ \A t \in Replicas \ {s} : boot'[t] = boot[t]
         /\ \A j \in S!Credentials \cup {"only"} : val'[j] = val[j]
         /\ val'.done \in {"on", val.done}
         /\ \/ boot[s].pc \in Unready
            \/ val'.ip \in {val.ip, "env"} /\ val'.base = val.base
         /\ Orderly' =>
              /\ boot'[s].pc = "up" => val'.done = "on"
              /\ boot'[s].pc \in Unready => boot[s].pc \in Unready \/ val.done # "on"
<1>1. UNCHANGED <<write, given>> /\ boot[s].pc # "up" /\ amiss \subseteq amiss'
  BY DEF BootStep, S!Start, S!SetAddress, S!Override, S!LookAtDone, S!LookAtBase, S!SetBase, S!Finish
<1>2. amiss' \subseteq {"crossed", "blind", "undone", "raced"}
  BY DEF BootStep, S!Start, S!SetAddress, S!Override, S!LookAtDone, S!LookAtBase, S!SetBase, S!Finish,
     KeysInv, S!TypeOK
<1>3. val \in S!Setting /\ boot[s] \in S!Boot
  BY DEF KeysInv, S!TypeOK
<1>4. boot[s].ip \in S!Sources \cup {Unset}
  BY <1>3 DEF S!Boot
<1>5. PICK pc \in {"env", "done", "detect", "look", "default", "finish", "up"} : HasMoved(s, pc)
  BY BootMoved DEF BootStep, S!Override, S!LookAtDone, S!LookAtBase, S!SetBase, S!Finish
<1>6. PICK x \in S!Sources \cup {Unset} :
        \/ val' = val \/ val' = [val EXCEPT !.done = "on"]
        \/ val' = [val EXCEPT !.ip = x] /\ (boot[s].pc \in Unready \/ x = "env")
        \/ val' = [val EXCEPT !.base = x] /\ boot[s].pc \in Unready
  BY <1>4 DEF BootStep, S!Start, S!SetAddress, S!Override, S!LookAtDone, S!LookAtBase, S!SetBase,
     S!Finish, Unready, S!Sources
<1>7. PICK v \in S!Setting, w \in {val'} : v = val /\ w = val'
  BY <1>3
<1>8. /\ w \in S!Setting
      /\ \A j \in S!Credentials \cup {"only"} : w[j] = v[j]
      /\ w.done \in {"on", v.done}
      /\ boot[s].pc \in Unready \/ (w.ip \in {v.ip, "env"} /\ w.base = v.base)
  <2>1. CASE w = v
    BY <2>1
  <2>2. CASE w = [v EXCEPT !.done = "on"]
    BY <2>2 DEF S!Setting, S!Flag, S!Credentials
  <2>3. CASE w = [v EXCEPT !.ip = x] /\ (boot[s].pc \in Unready \/ x = "env")
    BY <2>3 DEF S!Setting, S!Credentials
  <2>4. CASE w = [v EXCEPT !.base = x] /\ boot[s].pc \in Unready
    BY <2>4 DEF S!Setting, S!Credentials
  <2> QED
    BY <1>6, <1>7, <2>1, <2>2, <2>3, <2>4
<1>9. rest' \in [ops : 0..MaxWrites, faults : 0..MaxLosses]
  <2>1. S!Works \/ S!Fault \/ rest' = rest
    BY DEF BootStep, S!Start, S!SetAddress, S!Override, S!LookAtDone, S!LookAtBase, S!SetBase, S!Finish
  <2> QED
    BY <2>1, RestTypes DEF KeysInv, S!TypeOK
<1>10. S!TypeOK'
  BY <1>1, <1>2, <1>5, <1>7, <1>8, <1>9 DEF KeysInv, S!TypeOK, HasMoved
<1>11. \A q \in Writers : RequestOf(q)'
  BY <1>1, <1>5 DEF KeysInv, RequestOf, HasMoved, S!Enforces, S!Withdraws
<1>12. ASSUME Orderly'
       PROVE  /\ boot'[s].pc = "up" => val'.done = "on"
              /\ boot'[s].pc \in Unready => boot[s].pc \in Unready \/ val.done # "on"
  <2>1. CASE \E env \in BOOLEAN : S!Start(s, env)
    BY <2>1, BootMoved DEF HasMoved, Unready
  <2>2. CASE S!Override(s)
    BY <2>2, BootMoved DEF S!Override, HasMoved, Unready
  <2>3. CASE S!LookAtDone(s)
    <3>1. "blind" \notin amiss' /\ val' = val
      BY <1>12, <2>3 DEF Orderly, S!LookAtDone
    <3>2. CASE val.done = "on"
      <4>1. S!BootTo(s, "up")
        BY <2>3, <3>1, <3>2 DEF S!LookAtDone
      <4>2. boot'[s].pc = "up"
        BY <4>1, BootMoved DEF HasMoved
      <4> QED
        BY <3>1, <3>2, <4>2 DEF Unready
    <3>3. CASE val.done # "on"
      <4>1. S!BootTo(s, "detect")
        BY <2>3, <3>1, <3>3 DEF S!LookAtDone
      <4>2. boot'[s].pc = "detect"
        BY <4>1, BootMoved DEF HasMoved
      <4> QED
        BY <3>3, <4>2 DEF Unready
    <3> QED
      BY <3>2, <3>3
  <2>4. CASE S!Finish(s)
    <3>1. "undone" \notin amiss'
      BY <1>12 DEF Orderly
    <3>2. val' = [val EXCEPT !.done = "on"] /\ boot[s].pc = "finish"
      BY <2>4, <3>1 DEF S!Finish
    <3> QED
      BY <1>3, <3>2 DEF S!Setting, Unready
  <2>5. CASE (\E ip \in S!Sources \cup {Unset} : S!SetAddress(s, ip)) \/ S!LookAtBase(s) \/ S!SetBase(s)
    <3>1. boot[s].pc \in Unready
      BY <2>5 DEF S!SetAddress, S!LookAtBase, S!SetBase, Unready
    <3>2. boot'[s].pc # "up"
      <4>1. ASSUME NEW ip \in S!Sources \cup {Unset}, S!SetAddress(s, ip) PROVE boot'[s].pc # "up"
        BY <4>1, BootMoved DEF HasMoved
      <4>2. CASE S!LookAtBase(s) \/ S!SetBase(s)
        BY <4>2, BootMoved DEF S!LookAtBase, S!SetBase, HasMoved
      <4> QED
        BY <2>5, <4>1, <4>2
    <3> QED
      BY <3>1, <3>2
  <2> QED
    BY <2>1, <2>2, <2>3, <2>4, <2>5 DEF BootStep
<1> QED
  BY <1>1, <1>5, <1>7, <1>8, <1>10, <1>11, <1>12 DEF KeysInv, HasMoved

SettingSteps ==
  \/ \E r \in Writers :
       \/ \E s \in Replicas, k \in S!Settable, v \in S!Flag \cup {"user", Unset} : S!Begin(r, s, k, v)
       \/ ReadStep(r) \/ S!Store(r) \/ S!Fail(r)
  \/ \E s \in Replicas : BootStep(s) \/ S!Stop(s)

LEMMA SameKeys ==
  ASSUME KeysInv, UNCHANGED settingVars
  PROVE  KeysInv'
BY DEF KeysInv, S!TypeOK, RequestOf, settingVars, S!Enforces, S!Withdraws

LEMMA FreeIsChecked ==
  ASSUME NEW q, write'[q] = S!Free
  PROVE  Checked(q)'
BY DEF S!Free, Checked, S!Enforces, S!Withdraws, S!Credentials

LEMMA ModeStep ==
  ASSUME ModeInv, SettingSteps \/ UNCHANGED settingVars
  PROVE  ModeInv'
<1>1. KeysInv /\ (\A q \in Writers : Checked(q)) /\ ("crossed" \notin amiss => CanSignIn)
  BY DEF ModeInv
<1>2. ASSUME NEW r \in Writers, NEW s \in Replicas, NEW k \in S!Settable,
             NEW v \in S!Flag \cup {"user", Unset}, S!Begin(r, s, k, v)
      PROVE  ModeInv'
  <2>1. /\ KeysInv' /\ UNCHANGED <<val, boot, given, amiss>>
        /\ \A q \in Writers \ {r} : write'[q] = write[q]
        /\ S!Enforces(r)' => write'[r].pc = "enabled"
        /\ S!Withdraws(r)' => write'[r].pc = "only"
    BY <1>1, <1>2, BeginSteps
  <2>2. \A q \in Writers \ {r} : Checked(q)'
    BY <1>1, <2>1 DEF Checked, S!Enforces, S!Withdraws
  <2>3. Checked(r)'
    BY <2>1 DEF Checked
  <2> QED
    BY <1>1, <2>1, <2>2, <2>3 DEF ModeInv, CanSignIn
<1>3. ASSUME NEW r \in Writers, ReadStep(r) PROVE ModeInv'
  <2>1. /\ KeysInv' /\ UNCHANGED <<val, boot, rest, given, amiss>>
        /\ \A q \in Writers \ {r} : write'[q] = write[q]
        /\ write'[r] = S!Free \/ HasRead(r)
    BY <1>1, <1>3, ReadSteps
  <2>2. \A q \in Writers \ {r} : Checked(q)'
    BY <1>1, <2>1 DEF Checked, S!Enforces, S!Withdraws
  <2>3. ASSUME HasRead(r) PROVE Checked(r)'
    <3>1. Checked(r) /\ RequestOf(r)
      BY <1>1 DEF KeysInv
    <3> QED
      BY <2>1, <2>3, <3>1 DEF HasRead, Checked, RequestOf, S!Enforces, S!Withdraws, S!Credentials
  <2> QED
    BY <1>1, <2>1, <2>2, <2>3, FreeIsChecked DEF ModeInv, CanSignIn
<1>4. ASSUME NEW r \in Writers, S!Store(r) PROVE ModeInv'
  <2> DEFINE k == write[r].key
             v == write[r].to
  <2>1. /\ KeysInv' /\ boot' = boot
        /\ write[r].pc = "write" /\ write[r].key \in S!Settable
        /\ \A j \in Fields : val'[j] = IF j = write[r].key THEN write[r].to ELSE val[j]
        /\ write'[r] = S!Free
        /\ \A q \in Writers \ {r} :
             /\ write'[q].pc = write[q].pc /\ write'[q].seen = write[q].seen
             /\ write'[q].key = write[q].key /\ write'[q].to = write[q].to
             /\ write'[q].late = (write[q].late \/ q \in S!Outdated(r))
        /\ amiss' = amiss \cup (IF write[r].late THEN {"crossed"} ELSE {})
                          \cup (IF write[r].key \in S!Names /\ S!Starting THEN {"raced"} ELSE {})
    BY <1>1, <1>4, StoreSteps
  <2>2. /\ val'.only = IF k = "only" THEN v ELSE val.only
        /\ val'.enabled = IF k = "enabled" THEN v ELSE val.enabled
        /\ val'.id = IF k = "id" THEN v ELSE val.id
        /\ val'.secret = IF k = "secret" THEN v ELSE val.secret
    BY <2>1 DEF Fields, S!Settable, S!Credentials
  <2>3. RequestOf(r) /\ Checked(r)
    BY <1>1 DEF KeysInv
  <2>4. k \in S!Credentials \cup {"only"} => v \in {"on", "off"}
    BY <2>1, <2>3 DEF RequestOf, S!Values, S!Flag, S!Names, S!Credentials
  <2>5. \A q \in Writers \ {r} : Checked(q)'
    <3> SUFFICES ASSUME NEW q \in Writers \ {r} PROVE Checked(q)'
      OBVIOUS
    <3>1. Checked(q) /\ RequestOf(q)
      BY <1>1 DEF KeysInv
    <3>2. (S!Enforces(q)' <=> S!Enforces(q)) /\ (S!Withdraws(q)' <=> S!Withdraws(q))
      BY <2>1 DEF S!Enforces, S!Withdraws
    <3>3. CASE write'[q].late
      BY <3>3 DEF Checked
    <3>4. CASE ~ write'[q].late
      <4>1. /\ write'[q].pc = write[q].pc /\ write'[q].seen = write[q].seen
            /\ ~ write[q].late /\ q \notin S!Outdated(r)
        BY <2>1, <3>4
      <4>2. S!Enforces(q) /\ S!Withdraws(r) => write[q].pc \notin {"id", "secret", "write"}
        BY <4>1 DEF S!Outdated
      <4>3. S!Enforces(r) /\ S!Withdraws(q) => write[q].pc # "write"
        BY <4>1 DEF S!Outdated
      <4>4. ASSUME S!Enforces(q)
            PROVE  /\ write[q].pc \in {"id", "secret", "write"} => val'.enabled = "on"
                   /\ write[q].pc = "secret" /\ write[q].seen = "on" => val'.id = "on"
                   /\ write[q].pc = "write" => val'.id = "on" /\ val'.secret = "on"
        BY <2>2, <2>4, <3>1, <4>1, <4>2, <4>4 DEF Checked, S!Withdraws, S!Credentials
      <4>5. ASSUME S!Withdraws(q), write[q].pc = "write" PROVE val'.only # "on"
        BY <2>2, <2>4, <3>1, <4>1, <4>3, <4>5 DEF Checked, S!Enforces
      <4> QED
        BY <3>2, <4>1, <4>4, <4>5 DEF Checked
    <3> QED
      BY <3>3, <3>4
  <2>6. ASSUME "crossed" \notin amiss' PROVE CanSignIn'
    <3>1. CanSignIn /\ ~ write[r].late
      BY <1>1, <2>1, <2>6
    <3>2. S!Enforces(r) => val.enabled = "on" /\ val.id = "on" /\ val.secret = "on"
      BY <2>1, <2>3, <3>1 DEF Checked
    <3>3. S!Withdraws(r) => val.only # "on"
      BY <2>1, <2>3, <3>1 DEF Checked
    <3> QED
      BY <2>2, <2>4, <3>1, <3>2, <3>3 DEF CanSignIn, S!Enforces, S!Withdraws, S!Credentials
  <2> QED
    BY <2>1, <2>5, <2>6, FreeIsChecked DEF ModeInv
<1>5. ASSUME NEW r \in Writers, S!Fail(r) PROVE ModeInv'
  <2>1. /\ KeysInv' /\ UNCHANGED <<val, boot, given, amiss>>
        /\ write'[r] = S!Free /\ \A q \in Writers \ {r} : write'[q] = write[q]
    BY <1>1, <1>5, FailSteps
  <2>2. \A q \in Writers \ {r} : Checked(q)'
    BY <1>1, <2>1 DEF Checked, S!Enforces, S!Withdraws
  <2> QED
    BY <1>1, <2>1, <2>2, FreeIsChecked DEF ModeInv, CanSignIn
<1>6. ASSUME NEW s \in Replicas, BootStep(s) PROVE ModeInv'
  <2>1. /\ KeysInv' /\ write' = write /\ amiss \subseteq amiss'
        /\ \A j \in S!Credentials \cup {"only"} : val'[j] = val[j]
    BY <1>1, <1>6, BootSteps
  <2>2. val'.only = val.only /\ val'.enabled = val.enabled /\ val'.id = val.id /\ val'.secret = val.secret
    BY <2>1 DEF S!Credentials
  <2> QED
    BY <1>1, <2>1, <2>2 DEF ModeInv, CanSignIn, Checked, S!Enforces, S!Withdraws
<1>7. ASSUME NEW s \in Replicas, S!Stop(s) PROVE ModeInv'
  <2>1. /\ KeysInv' /\ UNCHANGED <<val, given, amiss>>
        /\ \A q \in Writers : write'[q] \in {write[q], S!Free}
    BY <1>1, <1>7, StopSteps
  <2>2. \A q \in Writers : write'[q] = write[q] => Checked(q)'
    BY <1>1, <2>1 DEF Checked, S!Enforces, S!Withdraws
  <2> QED
    BY <1>1, <2>1, <2>2, FreeIsChecked DEF ModeInv, CanSignIn
<1>8. ASSUME UNCHANGED settingVars PROVE ModeInv'
  BY <1>1, <1>8, SameKeys DEF ModeInv, CanSignIn, Checked, S!Enforces, S!Withdraws, settingVars
<1> QED
  BY <1>2, <1>3, <1>4, <1>5, <1>6, <1>7, <1>8 DEF SettingSteps

LEMMA HeedStep ==
  ASSUME HeedInv, SettingSteps \/ UNCHANGED settingVars
  PROVE  HeedInv'
<1> DEFINE Quiet == \A s \in Replicas : boot[s].pc # "up"
           Fine == /\ S!Starting => Never
                   /\ val.done = "on" \/ (Never /\ Quiet)
                   /\ UserIsHeeded
<1>1. KeysInv /\ (Orderly => Fine)
  BY DEF HeedInv
<1>2. ASSUME KeysInv', UNCHANGED <<val, given>>, amiss \subseteq amiss',
             \A s \in Replicas : boot'[s] = boot[s] \/ boot'[s].pc = "down"
      PROVE  HeedInv'
  <2>1. S!Starting' => S!Starting
    BY <1>2 DEF S!Starting
  <2>2. Quiet => Quiet'
    BY <1>2
  <2>3. Orderly' => Orderly
    BY <1>2 DEF Orderly
  <2>4. (Never <=> Never') /\ (Orderly' /\ UserIsHeeded => UserIsHeeded')
    BY <1>2, <2>3 DEF Never, UserIsHeeded, S!UserIsHeeded, Orderly
  <2> QED
    BY <1>1, <1>2, <2>1, <2>2, <2>3, <2>4 DEF HeedInv
<1>3. ASSUME NEW r \in Writers, NEW s \in Replicas, NEW k \in S!Settable,
             NEW v \in S!Flag \cup {"user", Unset}, S!Begin(r, s, k, v)
      PROVE  HeedInv'
  BY <1>1, <1>2, <1>3, BeginSteps
<1>4. ASSUME NEW r \in Writers, ReadStep(r) PROVE HeedInv'
  BY <1>1, <1>2, <1>4, ReadSteps
<1>5. ASSUME NEW r \in Writers, S!Fail(r) PROVE HeedInv'
  BY <1>1, <1>2, <1>5, FailSteps
<1>6. ASSUME NEW s \in Replicas, S!Stop(s) PROVE HeedInv'
  BY <1>1, <1>2, <1>6, StopSteps
<1>7. ASSUME UNCHANGED settingVars PROVE HeedInv'
  BY <1>1, <1>2, <1>7, SameKeys DEF settingVars
(* A name is stored for a user: some server is up, so that the first start *)
(* has been noted; and no server is starting, or this is a race.           *)
<1>8. ASSUME NEW r \in Writers, S!Store(r) PROVE HeedInv'
  <2>1. /\ KeysInv' /\ boot' = boot
        /\ write[r].pc = "write" /\ write[r].key \in S!Settable
        /\ \A j \in Fields : val'[j] = IF j = write[r].key THEN write[r].to ELSE val[j]
        /\ amiss' = amiss \cup (IF write[r].late THEN {"crossed"} ELSE {})
                          \cup (IF write[r].key \in S!Names /\ S!Starting THEN {"raced"} ELSE {})
        /\ given' = IF write[r].key \in S!Names THEN [given EXCEPT ![write[r].key] = write[r].to]
                    ELSE given
        /\ write[r].key \in S!Names => write[r].to \in {"user", Unset}
    BY <1>1, <1>8, StoreSteps
  <2>2. write[r].at \in Replicas /\ boot[write[r].at].pc = "up"
    BY <1>1, <2>1 DEF KeysInv, RequestOf
  <2>3. ASSUME Orderly'
        PROVE  /\ S!Starting' => Never'
               /\ val'.done = "on" \/ (Never' /\ Quiet')
               /\ UserIsHeeded'
    <3>1. Orderly /\ (S!Starting => Never) /\ val.done = "on" /\ UserIsHeeded
      BY <1>1, <2>1, <2>2, <2>3 DEF Orderly
    <3>2. val'.done = "on"
      BY <2>1, <3>1 DEF Fields, S!Settable, S!Credentials, S!Names
    <3>3. S!Starting' => Never'
      <4>1. S!Starting' <=> S!Starting
        BY <2>1 DEF S!Starting
      <4>2. write[r].key \in S!Names => ~ S!Starting
        BY <2>1, <2>3 DEF Orderly
      <4> QED
        BY <2>1, <3>1, <4>1, <4>2 DEF Never
    <3>4. ASSUME NEW n \in S!Names, given'[n] # "never"
          PROVE  val'[n] = given'[n] \/ (n = "ip" /\ val'[n] = "env")
      <4>1. n \in Fields /\ given \in [S!Names -> {"user", Unset, "never"}]
        BY <1>1 DEF Fields, S!Settable, KeysInv, S!TypeOK
      <4>2. CASE n = write[r].key
        BY <2>1, <4>1, <4>2
      <4>3. CASE n # write[r].key
        <5>1. given'[n] = given[n] /\ val'[n] = val[n]
          BY <2>1, <4>1, <4>3
        <5> QED
          BY <3>1, <3>4, <5>1 DEF UserIsHeeded, S!UserIsHeeded, Orderly
      <4> QED
        BY <4>2, <4>3
    <3> QED
      BY <3>2, <3>3, <3>4 DEF UserIsHeeded, S!UserIsHeeded
  <2> QED
    BY <2>1, <2>3 DEF HeedInv
<1>9. ASSUME NEW s \in Replicas, BootStep(s) PROVE HeedInv'
  <2>1. /\ KeysInv' /\ UNCHANGED <<write, given>> /\ boot[s].pc # "up" /\ amiss \subseteq amiss'
        /\ \A t \in Replicas \ {s} : boot'[t] = boot[t]
        /\ val'.done \in {"on", val.done}
        /\ \/ boot[s].pc \in Unready
           \/ val'.ip \in {val.ip, "env"} /\ val'.base = val.base
        /\ Orderly' =>
             /\ boot'[s].pc = "up" => val'.done = "on"
             /\ boot'[s].pc \in Unready => boot[s].pc \in Unready \/ val.done # "on"
    BY <1>1, <1>9, BootSteps
  <2>2. ASSUME Orderly'
        PROVE  /\ S!Starting' => Never'
               /\ val'.done = "on" \/ (Never' /\ Quiet')
               /\ UserIsHeeded'
    <3>1. Orderly
      BY <2>1, <2>2 DEF Orderly
    <3>2. Fine /\ (Never' <=> Never)
      BY <1>1, <2>1, <3>1 DEF Never
    <3>3. boot[s].pc \in Unready => Never
      BY <3>2 DEF S!Starting, Unready
    <3>4. ASSUME S!Starting' PROVE Never'
      <4>1. PICK t \in Replicas : boot'[t].pc \in Unready
        BY <3>4 DEF S!Starting, Unready
      <4>2. CASE t # s
        BY <2>1, <3>2, <4>1, <4>2 DEF S!Starting, Unready
      <4>3. CASE t = s
        BY <2>1, <2>2, <3>2, <3>3, <4>1, <4>3
      <4> QED
        BY <4>2, <4>3
    <3>5. val'.done = "on" \/ (Never' /\ Quiet')
      BY <2>1, <2>2, <3>2
    <3>6. UserIsHeeded'
      <4>1. CASE Never
        BY <3>2, <4>1 DEF Never, UserIsHeeded, S!UserIsHeeded
      <4>2. CASE ~ Never
        <5>1. val'.ip \in {val.ip, "env"} /\ val'.base = val.base
          BY <2>1, <3>3, <4>2
        <5>2. \A n \in S!Names : given[n] # "never" => val[n] = given[n] \/ (n = "ip" /\ val[n] = "env")
          BY <3>1, <3>2 DEF UserIsHeeded, S!UserIsHeeded, Orderly
        <5>3. S!Names = {"ip", "base"}
          BY DEF S!Names
        <5> QED
          BY <2>1, <5>1, <5>2, <5>3 DEF UserIsHeeded, S!UserIsHeeded
      <4> QED
        BY <4>1, <4>2
    <3> QED
      BY <3>4, <3>5, <3>6
  <2> QED
    BY <2>1, <2>2 DEF HeedInv
<1> QED
  BY <1>3, <1>4, <1>5, <1>6, <1>7, <1>8, <1>9 DEF SettingSteps

(* setting_service.go: the settings, requests and starts have the values   *)
(* that the model names.                                                   *)
THEOREM SettingsTypeCorrect == S!Spec => []S!TypeOK
<1>1. S!Init => ModeInv
  BY SettingsInit
<1>2. ModeInv /\ [S!Next]_S!vars => ModeInv'
  BY ModeStep DEF S!Next, SettingSteps, ReadStep, BootStep, S!vars, settingVars
<1>3. ModeInv => S!TypeOK
  BY DEF ModeInv, KeysInv
<1> QED
  BY <1>1, <1>2, <1>3, PTL DEF S!Spec

(* Where only Google may be used to sign in, it can be used                *)
(* (setting_service.go 147-156).                                           *)
THEOREM GoogleCanSignIn == S!Spec => []ModeCanBeUsed
<1>1. S!Init => ModeInv
  BY SettingsInit
<1>2. ModeInv /\ [S!Next]_S!vars => ModeInv'
  BY ModeStep DEF S!Next, SettingSteps, ReadStep, BootStep, S!vars, settingVars
<1>3. ModeInv => ModeCanBeUsed
  BY DEF ModeInv, ModeCanBeUsed, S!ModeCanBeUsed, CanSignIn, S!Credentials
<1> QED
  BY <1>1, <1>2, <1>3, PTL DEF S!Spec

(* What a user has set survives the starts of servers (setting_service.go  *)
(* 41-71).                                                                 *)
THEOREM SettingsAreKept == S!Spec => []UserIsHeeded
<1>1. S!Init => HeedInv
  BY SettingsInit
<1>2. HeedInv /\ [S!Next]_S!vars => HeedInv'
  BY HeedStep DEF S!Next, SettingSteps, ReadStep, BootStep, S!vars, settingVars
<1>3. HeedInv => UserIsHeeded
  BY DEF HeedInv, Orderly, UserIsHeeded, S!UserIsHeeded
<1> QED
  BY <1>1, <1>2, <1>3, PTL DEF S!Spec

-----------------------------------------------------------------------------
(* Authorization *)

(* authz_service.go, guards.go: whoever is a member is shown exactly the   *)
(* rows that the guards let it at; an administrator besides these only     *)
(* rows of deleted projects and other organizations; a deployment may be   *)
(* touched if it and its application are shown.                            *)
THEOREM MembersSeeTheirs == \A w, c, x : A!ListsAgree(w, c, x)
BY DEF A!ListsAgree, A!Listed, A!Shows, A!App, A!CanAccessProject, A!ListIDsByTeams, A!IsPrivileged
THEOREM AdminsAreShownTheirs == \A w, c, x : A!AdminsSeeMore(w, c, x)
BY DEF A!AdminsSeeMore, A!Listed, A!Shows, A!App, A!CanAccessProject, A!ListIDsByTeams, A!IsPrivileged
THEOREM DeploymentsAreShown == \A w, c, d : A!DeploymentsFollow(w, c, d)
BY DEF A!DeploymentsFollow, A!Deployment, A!Listed, A!Shows, A!App, A!CanAccessProject,
       A!ListIDsByTeams, A!IsPrivileged

=============================================================================
