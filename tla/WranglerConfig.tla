--------------------------- MODULE WranglerConfig ---------------------------
(***************************************************************************)
(* How the build pod of a worker finds the R2 buckets that its wrangler    *)
(* configuration names, and what it does about them before it deploys      *)
(* (workerStripConfigComments and the preflight script of                  *)
(* internal/orchestrator/k3s/worker_build.go).  Pure functions, and facts  *)
(* about them over small inputs.                                           *)
(*                                                                         *)
(* A file is a sequence of lines and a line one of tokens: the delimiters  *)
(* of comments and strings, white space, and the bindings of buckets, each *)
(* a text that the pattern of bucket_name matches.  The rest of the file   *)
(* makes no difference and is left out.                                    *)
(***************************************************************************)
EXTENDS Naturals, Sequences, FiniteSets
LOCAL INSTANCE SequencesExt

Names == {"cache", "media"}
Open == "/*"
Close == "*/"
Slashes == "//"
Hash == "#"
Quote == "quote"
Space == "space"
Marks == {Open, Close, Slashes, Hash, Quote, Space}

-----------------------------------------------------------------------------
(* The comments that are taken out *)

(* The first token after white space.                                      *)
Begins(line, mark) ==
  LET text == SelectSeq(line, LAMBDA t : t # Space) IN text # << >> /\ Head(text) = mark

StripTOML(file) == SelectSeq(file, LAMBDA line : ~ Begins(line, Hash))

At(line, mark, from) == {i \in from..Len(line) : line[i] = mark}
First(S) == CHOOSE i \in S : \A j \in S : i <= j
From(line, i) == SubSeq(line, i, Len(line))

(* A line without its block comments, and whether one is left open.        *)
RECURSIVE Cut(_)
Cut(line) ==
  IF At(line, Open, 1) = {} THEN [text |-> line, block |-> FALSE]
  ELSE LET i == First(At(line, Open, 1))
           ends == At(line, Close, i + 1) IN
       IF ends = {} THEN [text |-> SubSeq(line, 1, i - 1), block |-> TRUE]
       ELSE Cut(SubSeq(line, 1, i - 1) \o From(line, First(ends) + 1))

(* One line after those in s, of which the last may have left a block open.*)
StripLine(s, line) ==
  LET ends == At(line, Close, 1)
      rest == Cut(IF s.block THEN From(line, First(ends) + 1) ELSE line) IN
  IF s.block /\ ends = {} THEN s
  ELSE [block |-> rest.block,
        out |-> IF Begins(rest.text, Slashes) THEN s.out ELSE Append(s.out, rest.text)]

StripJSONC(file) == FoldLeft(StripLine, [out |-> << >>, block |-> FALSE], file).out

Strip(file, ext) == CASE ext = "toml" -> StripTOML(file) [] ext = "jsonc" -> StripJSONC(file)

(* The pattern is searched everywhere, in strings and comments too.        *)
Found(file) == UNION {Range(file[k]) \cap Names : k \in DOMAIN file}

BucketNames(file, ext) == Found(Strip(file, ext))

-----------------------------------------------------------------------------
(* What the file says: comments by the grammar of the language *)

(* mode: in the code, in a string, in a comment of the line or a block.    *)
Read(s, t) ==
  CASE s.mode = "line" -> s
    [] s.mode = "block" -> [s EXCEPT !.mode = IF t = Close THEN "code" ELSE "block"]
    [] s.mode = "string" -> [s EXCEPT !.mode = IF t = Quote THEN "code" ELSE "string"]
    [] OTHER -> IF t \in Names THEN [s EXCEPT !.names = @ \cup {t}]
                ELSE [s EXCEPT !.mode = CASE t = Quote -> "string" [] t \in s.line -> "line"
                                          [] t = Open /\ s.blocks -> "block" [] OTHER -> "code"]

(* A string ends on its line: a file in which one does not is no input.    *)
ReadLine(s, line) ==
  LET end == FoldLeft(Read, s, line) IN
  [end EXCEPT !.mode = CASE end.mode = "line" -> "code" [] end.mode = "string" -> "bad"
                         [] OTHER -> end.mode]

Language(ext) == IF ext = "toml" THEN [line |-> {Hash}, blocks |-> FALSE]
                 ELSE [line |-> {Slashes}, blocks |-> TRUE]
Meaning(file, ext) ==
  FoldLeft(LAMBDA s, line : IF s.mode = "bad" THEN s ELSE ReadLine(s, line),
           [mode |-> "code", names |-> {}, line |-> Language(ext).line,
            blocks |-> Language(ext).blocks], file)
Valid(file, ext) == Meaning(file, ext).mode = "code"
Bound(file, ext) == Meaning(file, ext).names

-----------------------------------------------------------------------------
(* The preflight script *)

(* get, post: how Cloudflare answers for each of the buckets named.        *)
Answers(names) == [get : [names -> {"found", "missing", "error"}],
                   post : [names -> {"created", "taken", "error"}]]
Created(names, a) == {n \in names : a.get[n] = "missing" /\ a.post[n] = "created"}
Pending(names, confirmed, a) ==
  {n \in names \ confirmed : a.get[n] = "found" \/ (a.get[n] = "missing" /\ a.post[n] = "taken")}

(* The deployment stops for a confirmation, or wrangler deploys.           *)
Pauses(names, confirmed, a) == Pending(names, confirmed, a) # {}

(* What Cloudflare answers when the account has these buckets.             *)
Honest(names, has) ==
  [get |-> [n \in names |-> IF n \in has THEN "found" ELSE "missing"],
   post |-> [n \in names |-> IF n \in has THEN "taken" ELSE "created"]]

(* A deployment, and ConfirmR2 when it stops: the buckets that exist then, *)
(* those confirmed, and how often the user was asked.                      *)
Round(s, names) ==
  LET a == Honest(names, s.has)
      asks == Pauses(names, s.confirmed, a) IN
  [has |-> s.has \cup Created(names, a),
   confirmed |-> s.confirmed \cup Pending(names, s.confirmed, a),
   asked |-> s.asked + (IF asks THEN 1 ELSE 0), live |-> ~ asks]

-----------------------------------------------------------------------------
(* What is asked of them *)

Lines(n) == UNION {[1..k -> Marks \cup {"cache"}] : k \in 0..n}
Files == {<<x, y>> : x \in Lines(3), y \in Lines(2)}
Plain(file, ext) ==
  \A k \in DOMAIN file :
    LET line == file[k]
        code == SelectSeq(line, LAMBDA t : t # Space) IN
    /\ Quote \notin Range(line)
    /\ \A i \in DOMAIN code :
         code[i] \in Language(ext).line => i = 1 /\ Open \notin Range(code)

(* As the comment of workerStripConfigComments has it, the bucket search   *)
(* ignores bindings that are commented out, and finds the others: in every *)
(* valid file without strings other than the names of buckets, and where a *)
(* line comment has its line for itself and opens no block.                *)
StripIsExact(ext) ==
  \A f \in Files : Valid(f, ext) /\ Plain(f, ext) => BucketNames(f, ext) = Bound(f, ext)

(* Neither limit can be done without.  A string with the delimiter of a    *)
(* block in it, like that of a route that ends with an asterisk, hides the *)
(* bindings after it; a comment at the end of a line names a bucket.       *)
StringsHide == \E f \in Files : Valid(f, "jsonc") /\ ~ Bound(f, "jsonc") \subseteq BucketNames(f, "jsonc")
CommentsShow ==
  \A ext \in {"toml", "jsonc"} : \E f \in Files :
    /\ Valid(f, ext) /\ \A k \in DOMAIN f : Quote \notin Range(f[k])
    /\ ~ BucketNames(f, ext) \subseteq Bound(f, ext)

(* Nothing is deployed onto a bucket that exists and was not confirmed, if *)
(* Cloudflare can be asked; and no bucket is made that exists.             *)
NeverUnasked ==
  \A names, has, confirmed \in SUBSET Names :
    LET a == Honest(names, has) IN
    /\ ~ Pauses(names, confirmed, a) => names \cap has \subseteq confirmed
    /\ Created(names, a) \cap has = {}

(* With the same configuration, a worker is live after three deployments   *)
(* at most; and it stays live once every bucket it names was confirmed.    *)
Converges ==
  \A names, has, confirmed \in SUBSET Names :
    LET one == Round([has |-> has, confirmed |-> confirmed, asked |-> 0], names)
        two == Round(one, names)
        three == Round(two, names) IN
    /\ one.live \/ two.live \/ three.live
    /\ names \subseteq confirmed => one.live

(* model/worker.go:84-88 speaks of buckets that the user has approved for  *)
(* reuse; a bucket that an earlier deployment of the worker has made needs *)
(* the same approval, also when the user has been asked once already.      *)
AsksForItsOwn ==
  /\ \E names, has \in SUBSET Names :
       LET one == Round([has |-> has, confirmed |-> {}, asked |-> 0], names)
           two == Round(one, names) IN two.asked = 2 /\ ~ two.live
  /\ \E names \in SUBSET Names :
       LET one == Round([has |-> {}, confirmed |-> {}, asked |-> 0], names) IN
       one.live /\ ~ Round(one, names).live

ASSUME StripAssumption == StripIsExact("toml") /\ StripIsExact("jsonc")
ASSUME StripLimits == StringsHide /\ CommentsShow
ASSUME PreflightAssumption == NeverUnasked /\ Converges /\ AsksForItsOwn
=============================================================================
