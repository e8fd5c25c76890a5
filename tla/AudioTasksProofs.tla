-------------------------- MODULE AudioTasksProofs --------------------------
(***************************************************************************)
(* The audio tasks for any set of recipes and releases and any number of   *)
(* crashes: markers are durable, results are their recipe's, a clean-up is *)
(* safe, and a task fails only for a cause outside the protocol.           *)
(*                                                                         *)
(* The invariant comes first, part by part; then what the operators yield, *)
(* what every action does (the lemmas ...Is and ...Step), one lemma per    *)
(* part and action, and the theorems at the end.                           *)
(***************************************************************************)
EXTENDS AudioTasks, SequenceTheorems, TLAPS

----------------------------------------
(* The audio a stage stands for. *)

CopySet(p) == {"model", "cover"} \cup (IF p.mix THEN {} ELSE {"output"})
StagesOf(p) ==
    (IF p.song THEN {"separation"} ELSE {}) \cup {"cleanup"}
    \cup (IF p.kind = "preprocess" THEN {} ELSE {"conversion"})
    \cup (IF p.kind = "preview" THEN {"baseline", "preview"} ELSE {})
    \cup (IF p.kind = "convert" /\ p.mix THEN {"mixing"} ELSE {})
\* The stages whose files a stage is computed from.
Needs(p, s) ==
    CASE s = "cleanup" -> IF p.song THEN {"separation"} ELSE {}
      [] s = "conversion" -> {"cleanup"}
      [] s = "mixing" -> {"separation", "conversion"}
      [] s = "preview" -> {"conversion"}
      [] OTHER -> {}
Vocal(t) == VocalOf(Plan(t), saved[t].id.source, saved[t].id.model)
OwnAudio(t, s) ==
    CASE s = "separation" -> Separated(saved[t].id.source)
      [] s = "cleanup" -> LeadOf(Plan(t), saved[t].id.source)
      [] s = "conversion" -> Vocal(t)
      [] s = "mixing" -> Mixed(saved[t].id.source, Separated(saved[t].id.source), Vocal(t))
      [] s = "preview" -> Excerpt(Vocal(t))
      [] s = "baseline" -> Excerpt(Vocal("first"))

----------------------------------------
(* The invariant. *)

Words == {"torn", "source", "model", "newer", "other", "separated", "dereverb", "deharmony",
          "converted", "mixed", "excerpt"} \cup {p.edits : p \in Recipes}
Audio == Seq(Words)
FileType == [c : Audio, safe : 0..2]
RecStates == {"none", "queued", "active", "stopped", "failed", "succeeded"}
RecType == [state : RecStates, plan : Recipes, model : Audio, sha : Audio, kept : BOOLEAN, pruned : BOOLEAN,
            ready : BOOLEAN]
IdType == [is : {TRUE}, by : Releases \cup {"now"}, plan : Recipes, source : Audio, model : Audio]
MarkType == [is : {TRUE}, id : IdType, name : Names, digest : Audio, safe : BOOLEAN]
SavedType == [is : {TRUE}, id : IdType, safe : BOOLEAN]
Committing == {"computed", "synced", "placed", "marked"}
Ending == {"published", "finish"}
Pruning == {"prune", "pruned"}
RunType == [pc : {"idle", "open", "opened", "revise", "inherit", "stages"} \cup Committing \cup Ending \cup Pruning,
            task : Tasks, todo : Seq(Stages \cup Names), id : {None} \cup IdType, name : Names \cup {""},
            ret : {"", "stages", "inherit"}, gone : SUBSET (Names \X FileType)]
TasksType ==
    /\ rec \in [Tasks -> RecType] /\ file \in [Tasks -> [Names -> FileType]]
    /\ mark \in [Tasks -> [Stages -> {None} \cup MarkType]] /\ saved \in [Tasks -> {None} \cup SavedType]
    /\ voice \in Audio /\ release \in Releases \cup {"now"} /\ run \in RunType
    /\ harmed \subseteq Names /\ crashes \in Nat

\* Which task runs, and under which identity.
RunFits ==
    /\ \A t \in Tasks : rec[t].state = "active" <=> t = run.task /\ run.pc \notin {"idle"} \cup Pruning
    /\ run.pc \in Pruning => rec[run.task].state = "succeeded" /\ ~rec[run.task].pruned
    /\ run.pc \notin {"idle", "open"} \cup Pruning => saved[run.task].is /\ run.id = saved[run.task].id
    /\ run.pc \notin {"idle", "open", "opened"} \cup Pruning => saved[run.task].safe
    /\ run.pc \in {"revise", "inherit"} => run.task = "next"
    /\ run.pc \in Committing => run.ret \in {"stages", "inherit"} /\ (run.ret = "inherit" => run.task = "next")
    /\ run.pc = "revise" => run.todo = <<>>
    /\ run.name \notin {"model", "result"}
    /\ run.pc # "prune" => run.gone = {}
\* What is not synchronised yet: the file that is being committed, the result
\* that is being published, the marker and the identity just written.
SyncFits ==
    /\ \A t \in Tasks, n \in Names : file[t][n].safe < 2 =>
         /\ t = run.task
         /\ (run.pc \in {"computed", "synced"} /\ n = run.name) \/ (run.pc = "published" /\ n = "result")
    /\ \A t \in Tasks, s \in Stages : mark[t][s].is /\ ~mark[t][s].safe =>
         run.pc = "marked" /\ t = run.task /\ s = Head(run.todo)
    /\ run.pc = "synced" => file[run.task][run.name].safe # 0
    /\ \A x \in run.gone : x[2].safe = 2
\* What may be asked of a task.
Allowed(t, p) ==
    /\ t = "first" => p.kind # "preview"
    /\ t = "next" => rec["first"].state = "succeeded"
    /\ t = "next" /\ p.kind = "preview" => Plan("first").kind = "convert" /\ SameCleanup(p, Plan("first"))
\* What a task is, and what it was made from.
TaskFits(t) ==
    /\ rec[t].state \in {"none", "queued"} => ~rec[t].kept
    /\ rec[t].state \in {"active", "succeeded"} => rec[t].kept
    /\ ~rec[t].kept => ~saved[t].is /\ \A s \in Stages : ~mark[t][s].is
    /\ rec[t].kept => Allowed(t, Plan(t))
    /\ saved[t].is => saved[t].id.plan = Plan(t) /\ (Plan(t).kind = "preprocess" => saved[t].id.model = <<>>)
    /\ rec[t].pruned => rec[t].state = "succeeded"
\* The identity names what the copies hold, and they are what was copied.
Inputs(t) ==
    /\ Contents(t, "source") = <<"source">>
    /\ Has(t, "model") \/ rec[t].state \in {"active", "stopped"} => Contents(t, "model") = rec[t].model
    /\ saved[t].is => saved[t].id.source = <<"source">> /\ (Plan(t).kind # "preprocess" => saved[t].id.model = rec[t].model)
    /\ Plan(t).kind # "preprocess" /\ voice = <<"model">> => rec[t].model = <<"model">>
InputsFit ==
    /\ \A t \in Tasks : file[t]["source"].safe = 2
    /\ run.pc \notin {"idle", "open"} \cup Pruning =>
         /\ Contents(run.task, "source") = run.id.source
         /\ Plan(run.task).kind # "preprocess" => Contents(run.task, "model") = run.id.model
    /\ harmed = {} => \A t \in Tasks : rec[t].kept => Inputs(t)
    /\ \A x \in run.gone : x[1] = "model" /\ harmed = {} => x[2].c = rec[run.task].model

\* A stage keeps its file under a name of its own.
NameFits(t, s, n) ==
    n = OutputName[s] \/ (s \in DOMAIN InheritedName /\ n = InheritedName[s] /\ t = "next")
    \/ (n = "source" /\ s = "cleanup" /\ ~Cleans(Plan(t)))
Harmed(t, n) == t = "first" /\ n \in harmed
MarkFits(t, s) ==
    mark[t][s].is =>
        /\ saved[t].is /\ saved[t].safe /\ mark[t][s].id = saved[t].id
        /\ mark[t][s].digest = OwnAudio(t, s) /\ NameFits(t, s, Kept(t, s))
        /\ \/ file[t][Kept(t, s)] = [c |-> mark[t][s].digest, safe |-> 2]
           \/ Harmed(t, Kept(t, s))
           \/ rec[t].state = "succeeded" /\ file[t][Kept(t, s)] = Absent /\ Kept(t, s) \in CopySet(Plan(t))
PruneFits ==
    run.pc \in Pruning =>
        /\ Contents(run.task, "result") = rec[run.task].sha
        /\ run.pc = "prune" => run.todo \in Seq(CopySet(Plan(run.task)))
        /\ \A x \in run.gone :
             /\ x[1] \in CopySet(Plan(run.task))
             /\ \A s \in Stages : mark[run.task][s].is /\ Kept(run.task, s) = x[1] =>
                  x[2] = [c |-> mark[run.task][s].digest, safe |-> 2] \/ Harmed(run.task, x[1])
\* The stages of a task are done in their order.
Reused(t, s) == mark[t][s].is /\ Contents(t, Kept(t, s)) = mark[t][s].digest
StagesFit(t) ==
    /\ \A i \in DOMAIN run.todo : run.todo[i] \in StagesOf(Plan(t)) /\ \A n \in Needs(Plan(t), run.todo[i]) :
         Reused(t, n) \/ \E j \in 1..(i - 1) : run.todo[j] = n
    /\ \A s \in StagesOf(Plan(t)) \ {"baseline"} : Reused(t, s) \/ \E j \in DOMAIN run.todo : run.todo[j] = s
Takes(s) ==
    LET p == Plan("next")
        q == Plan("first")
    IN /\ s = "separation" => p.song /\ q.song
       /\ s = "cleanup" => SameCleanup(p, q)
       /\ s = "conversion" => /\ p.kind # "preprocess" /\ q.kind # "preprocess" /\ SameCleanup(p, q) /\ p.edits = q.edits
                              /\ saved["next"].id.model = saved["first"].id.model
InheritFits ==
    /\ saved["next"].id.source = saved["first"].id.source
    /\ run.todo \in Seq({s \in DOMAIN InheritedName : Takes(s)})
CommitFits(t, s) ==
    /\ NameFits(t, s, run.name) /\ Contents(t, run.name) = OwnAudio(t, s)
    /\ run.pc # "marked" => ~mark[t][s].is
    /\ run.pc = "marked" => mark[t][s].is /\ Kept(t, s) = run.name /\ mark[t][s].digest = Contents(t, run.name)
TodoFits ==
    /\ run.pc \in {"stages"} \cup Ending \/ (run.pc \in Committing /\ run.ret = "stages") => StagesFit(run.task)
    /\ run.pc = "inherit" \/ (run.pc \in Committing /\ run.ret = "inherit") => InheritFits
    /\ run.pc \in Committing => run.todo # <<>> /\ CommitFits(run.task, Head(run.todo))
    /\ run.pc \in Ending => run.todo = <<>>
    /\ run.pc \in Ending => Contents(run.task, "result") = AudioOf(Plan(run.task), run.id.source, run.id.model)
\* What a task that has succeeded keeps.
ResultFits(t) ==
    rec[t].state = "succeeded" =>
        /\ saved[t].is /\ saved[t].safe /\ rec[t].sha = AudioOf(Plan(t), saved[t].id.source, saved[t].id.model)
        /\ harmed = {} => Contents(t, "result") = rec[t].sha
        /\ \A s \in StagesOf(Plan(t)) \ {"baseline"} : mark[t][s].is
FirstFits == \A s \in DOMAIN InheritedName : file["first"][InheritedName[s]] = Absent

\* A request, and what it has looked up: the first task has its own model, or a
\* clean-up takes that away or has done so.
RequestFits ==
    /\ request \in [pc : {"none", "asked", "reserved"}, task : Tasks, plan : Recipes, own : BOOLEAN]
    /\ request.pc # "none" => Allowed(request.task, request.plan)
    /\ request.pc = "asked" => rec[request.task].state = "none"
    /\ request.pc = "reserved" => run.pc = "idle" /\ rec[request.task].state = "queued"
    /\ request.pc # "none" /\ request.own =>
         /\ request.task = "next" /\ Plan("first").kind = "convert"
         /\ Has("first", "model") \/ rec["first"].pruned \/ run.pc \in Pruning

TasksInv ==
    /\ RequestFits /\ TasksType /\ RunFits /\ SyncFits /\ InputsFit /\ PruneFits /\ TodoFits /\ FirstFits
    /\ \A t \in Tasks : TaskFits(t) /\ ResultFits(t) /\ \A s \in Stages : MarkFits(t, s)
----------------------------------------
(* Names of files and stages. *)

\* The names of the outputs and of the inherited files.
LEMMA Named ==
    /\ OutputName["separation"] = "vocals" /\ OutputName["cleanup"] = "cleaned"
    /\ OutputName["baseline"] = "baseline" /\ OutputName["conversion"] = "output"
    /\ OutputName["mixing"] = "cover" /\ OutputName["preview"] = "excerpt"
    /\ DOMAIN InheritedName = {"separation", "cleanup", "conversion"}
    /\ InheritedName["separation"] = "inherited-separation"
    /\ InheritedName["cleanup"] = "inherited-cleanup"
    /\ InheritedName["conversion"] = "inherited-conversion"
  BY DEF OutputName, InheritedName

\* The files a stage may keep are files of the directory.
LEMMA NamesAre ==
    /\ {"source", "model", "result", "output", "inherited-conversion"} \subseteq Names
    /\ \A s \in Stages : OutputName[s] \in Names
    /\ \A s \in DOMAIN InheritedName : InheritedName[s] \in Names /\ s \in Stages
    /\ "" \notin Names /\ "none" \notin Names /\ "bad" \notin Names
    /\ "model" \in Names /\ "cover" \in Names
<1>1. /\ \A s \in Stages : OutputName[s] \in Names
      /\ \A s \in DOMAIN InheritedName : InheritedName[s] \in Names
  BY DEF Names
<1>2. OutputName["mixing"] \in Names /\ OutputName["conversion"] \in Names
      /\ InheritedName["conversion"] \in Names
  BY <1>1, Named DEF Stages
<1>3. \A s \in Stages : OutputName[s] # "" /\ OutputName[s] # "none" /\ OutputName[s] # "bad"
  BY Named DEF Stages
<1>4. \A s \in DOMAIN InheritedName : InheritedName[s] # "" /\ InheritedName[s] # "none" /\ InheritedName[s] # "bad"
  BY Named
<1>5. "" \notin Names /\ "none" \notin Names /\ "bad" \notin Names BY <1>3, <1>4 DEF Names
<1>6. {"source", "model", "result"} \subseteq Names BY DEF Names
<1> QED BY <1>1, <1>2, <1>5, <1>6, Named DEF Stages

\* A name that a stage may keep its file under is a name of a file, and no
\* other stage's.
LEMMA KeepsApart ==
    ASSUME NEW t, NEW s \in Stages, NEW n, NameFits(t, s, n)
    PROVE /\ n \in Names /\ n \notin {"model", "result"}
          /\ \A r \in Stages \ {s} : n # OutputName[r]
          /\ \A r \in (DOMAIN InheritedName) \ {s} : n # InheritedName[r]
          /\ s \in DOMAIN InheritedName /\ n = OutputName[s] => n # InheritedName[s]
<1>1. n \in {OutputName[s], "source"} \/ (s \in DOMAIN InheritedName /\ n = InheritedName[s]) BY DEF NameFits
<1>2. n \in Names BY <1>1, NamesAre
<1>3. \A r \in Stages : /\ OutputName[s] \notin {"model", "result", "source"}
                        /\ r # s => OutputName[s] # OutputName[r]
                        /\ r \in DOMAIN InheritedName => OutputName[s] # InheritedName[r]
  BY Named DEF Stages
<1>4. \A r \in DOMAIN InheritedName, q \in Stages :
          /\ InheritedName[r] \notin {"model", "result", "source"} /\ InheritedName[r] # OutputName[q]
          /\ q \in DOMAIN InheritedName /\ q # r => InheritedName[r] # InheritedName[q]
  BY Named DEF Stages
<1>5. \A r \in DOMAIN InheritedName : r \in Stages BY Named DEF Stages
<1>6. CASE n = OutputName[s]
  <2>1. s \in DOMAIN InheritedName => n # InheritedName[s] BY <1>3, <1>6
  <2>2. \A r \in (DOMAIN InheritedName) \ {s} : n # InheritedName[r] BY <1>4, <1>6
  <2> QED BY <1>2, <1>3, <1>6, <2>1, <2>2
<1>7. CASE n = "source"
  <2>1. \A r \in Stages : n # OutputName[r] BY <1>7, Named DEF Stages
  <2>2. \A r \in DOMAIN InheritedName : n # InheritedName[r] BY <1>4, <1>7
  <2> QED BY <1>2, <1>7, <2>1, <2>2
<1>8. CASE s \in DOMAIN InheritedName /\ n = InheritedName[s] BY <1>2, <1>4, <1>5, <1>8
<1> QED BY <1>1, <1>6, <1>7, <1>8

\* The copies a clean-up removes are none of a stage's inherited files.
LEMMA CopiesAreOutputs ==
    ASSUME NEW p, NEW n \in CopySet(p)
    PROVE /\ n \in Names /\ n \notin {"source", "result"} /\ n \in {"model", "cover", "output"}
          /\ \A r \in DOMAIN InheritedName : n # InheritedName[r]
          /\ p.mix => n # "output"
  BY Named, NamesAre DEF CopySet

----------------------------------------
(* The audio operators. *)

Plans == [kind : {"convert", "preview", "preprocess"}, song : BOOLEAN, mix : BOOLEAN,
          clean : BOOLEAN, edits : STRING]
\* What RecipesAssumption says of one recipe.
LEMMA Recipe ==
    ASSUME NEW p \in Recipes
    PROVE /\ p \in Plans /\ p.kind \in {"convert", "preview", "preprocess"} /\ p.edits \in Words
          /\ p.mix => p.song /\ p.kind = "convert"
          /\ p.song \in BOOLEAN /\ p.mix \in BOOLEAN /\ p.clean \in BOOLEAN
  BY RecipesAssumption DEF Plans, Words

\* A list of operations that grows is a list of operations.
LEMMA Prefixed ==
    ASSUME NEW s \in Seq(Words), NEW c \in Seq(Words), s # <<>>
    PROVE s \o c \in Seq(Words) /\ s \o c # <<>>
<1>1. Len(s) \in Nat \ {0} /\ Len(c) \in Nat BY EmptySeq, LenProperties
<1>2. s \o c \in Seq(Words) /\ Len(s \o c) = Len(s) + Len(c) BY ConcatProperties
<1>3. Len(s \o c) # 0 BY <1>1, <1>2
<1> QED BY <1>2, <1>3, EmptySeq

LEMMA Joined ==
    ASSUME NEW s \in Seq(Words), NEW c \in Seq(Words)
    PROVE s \o c \in Seq(Words)
  BY ConcatProperties

\* The operations are words, and audio that one made is not empty.
LEMMA TagsAre ==
    /\ Torn \in Audio /\ Torn # <<>> /\ <<>> \in Audio /\ <<"source">> \in Audio /\ <<"source">> # <<>>
    /\ <<"model">> \in Audio /\ <<"newer">> \in Audio /\ <<"other">> \in Audio
    /\ \A x \in Words : <<x>> \in Seq(Words) /\ <<x>> # <<>>
    /\ \A x, y \in Words : <<x, y>> \in Seq(Words) /\ <<x, y>> # <<>>
<1>1. \A x \in Words : <<x>> \in Seq(Words) /\ <<x>> # <<>> OBVIOUS
<1>2. \A x, y \in Words : <<x, y>> \in Seq(Words) /\ <<x, y>> # <<>>
  <2>1. \A x, y \in Words : <<x, y>> \in Seq(Words) /\ Len(<<x, y>>) = 2 OBVIOUS
  <2> QED BY <2>1, EmptySeq
<1>3. /\ "torn" \in Words /\ "source" \in Words /\ "model" \in Words
      /\ "newer" \in Words /\ "other" \in Words
  BY DEF Words
<1>4. <<>> \in Seq(Words) OBVIOUS
<1> QED BY <1>1, <1>2, <1>3, <1>4 DEF Torn, Audio

\* Every operation makes audio that is not empty, whatever it is given.
LEMMA AudioIs ==
    ASSUME NEW p \in Recipes, NEW c \in Audio, NEW m \in Audio, NEW o \in Audio
    PROVE /\ Separated(c) \in Audio /\ Separated(c) # <<>>
          /\ Cleaned(p, c) \in Audio /\ (c # <<>> => Cleaned(p, c) # <<>>)
          /\ Converted(p, m, c) \in Audio /\ Converted(p, m, c) # <<>>
          /\ Mixed(o, m, c) \in Audio /\ Mixed(o, m, c) # <<>>
          /\ Excerpt(c) \in Audio /\ Excerpt(c) # <<>>
<1>0. /\ "separated" \in Words /\ "mixed" \in Words /\ "excerpt" \in Words /\ "converted" \in Words
      /\ "dereverb" \in Words /\ "deharmony" \in Words
  BY DEF Words
<1>a. (IF p.clean THEN "dereverb" ELSE "deharmony") \in Words /\ p.edits \in Words BY <1>0, Recipe
<1>1. Separated(c) \in Audio /\ Separated(c) # <<>> /\ Excerpt(c) \in Audio /\ Excerpt(c) # <<>>
  BY <1>0, TagsAre, Prefixed DEF Separated, Excerpt, Audio
<1>2. Cleaned(p, c) \in Audio /\ (c # <<>> => Cleaned(p, c) # <<>>)
  <2> DEFINE x == IF p.clean THEN "dereverb" ELSE "deharmony"
  <2>1. x \in Words BY <1>a
  <2>2. <<x>> \in Seq(Words) /\ <<x>> # <<>> BY <2>1, TagsAre
  <2>3. <<x>> \o c \in Seq(Words) /\ <<x>> \o c # <<>> BY <2>2, Prefixed DEF Audio
  <2> QED BY <2>3 DEF Cleaned, Audio
<1>3. Converted(p, m, c) \in Audio /\ Converted(p, m, c) # <<>>
  <2>1. <<"converted", p.edits>> \in Seq(Words) /\ <<"converted", p.edits>> # <<>> BY <1>0, <1>a, TagsAre
  <2>2. <<"converted", p.edits>> \o m \in Seq(Words) /\ <<"converted", p.edits>> \o m # <<>>
    BY <2>1, Prefixed DEF Audio
  <2> QED BY <2>2, Prefixed DEF Converted, Audio
<1>4. Mixed(o, m, c) \in Audio /\ Mixed(o, m, c) # <<>>
  <2>1. <<"mixed">> \o o \in Seq(Words) /\ <<"mixed">> \o o # <<>> BY <1>0, TagsAre, Prefixed DEF Audio
  <2>2. <<"mixed">> \o o \o m \in Seq(Words) /\ <<"mixed">> \o o \o m # <<>> BY <2>1, Prefixed DEF Audio
  <2> QED BY <2>2, Prefixed DEF Mixed, Audio
<1> QED BY <1>1, <1>2, <1>3, <1>4

\* The audio a recipe stands for is audio.
LEMMA OwnIsAudio ==
    ASSUME NEW p \in Recipes, NEW c \in Audio, NEW m \in Audio
    PROVE /\ LeadOf(p, c) \in Audio /\ VocalOf(p, c, m) \in Audio /\ VocalOf(p, c, m) # <<>>
          /\ AudioOf(p, c, m) \in Audio
          /\ c # <<>> => LeadOf(p, c) # <<>>
<1>1. LeadOf(p, c) \in Audio /\ (c # <<>> => LeadOf(p, c) # <<>>)
  <2>1. CASE p.song
    <3> DEFINE d == Separated(c)
    <3>1. d \in Audio /\ d # <<>> BY AudioIs
    <3> HIDE DEF d
    <3>2. Cleaned(p, d) \in Audio /\ Cleaned(p, d) # <<>> BY <3>1, AudioIs
    <3> QED BY <3>2, <2>1 DEF LeadOf, d
  <2>2. CASE ~p.song BY <2>2, AudioIs DEF LeadOf
  <2> QED BY <2>1, <2>2
<1>2. VocalOf(p, c, m) \in Audio /\ VocalOf(p, c, m) # <<>> BY <1>1, AudioIs DEF VocalOf
<1>3. Excerpt(VocalOf(p, c, m)) \in Audio BY <1>2, AudioIs
<1>4. Separated(c) \in Audio BY AudioIs
<1>5. Mixed(c, Separated(c), VocalOf(p, c, m)) \in Audio BY <1>2, <1>4, AudioIs
<1> QED BY <1>1, <1>2, <1>3, <1>5, Recipe DEF AudioOf
----------------------------------------
(* The order of the stages. *)

\* Every stage comes after the stages it is computed from.
Ordered(p, q) ==
    /\ q \in Seq(StagesOf(p))
    /\ \A i \in DOMAIN q : \A n \in Needs(p, q[i]) : \E j \in 1..(i - 1) : q[j] = n
    /\ \A s \in StagesOf(p) : \E j \in DOMAIN q : q[j] = s

\* A concatenation, told by its elements.
LEMMA ConcatOf ==
    ASSUME NEW S, NEW x \in Seq(S), NEW y \in Seq(S), NEW z \in Seq(S), Len(z) = Len(x) + Len(y),
           \A i \in 1..Len(x) : z[i] = x[i], \A i \in 1..Len(y) : z[Len(x) + i] = y[i]
    PROVE x \o y = z
<1>1. /\ x \o y \in Seq(S) /\ Len(x \o y) = Len(x) + Len(y)
      /\ \A i \in 1..Len(x) + Len(y) : (x \o y)[i] = IF i <= Len(x) THEN x[i] ELSE y[i - Len(x)]
  BY ConcatProperties
<1>2. Len(x) \in Nat /\ Len(y) \in Nat BY LenProperties
<1>3. ASSUME NEW i \in 1..Len(x) + Len(y) PROVE (x \o y)[i] = z[i]
  <2>1. CASE i <= Len(x) BY <1>1, <1>2, <2>1
  <2>2. CASE ~(i <= Len(x)) BY <1>2, <2>2, <1>1
  <2> QED BY <2>1, <2>2
<1> QED BY <1>1, <1>2, <1>3, SeqEqual

\* What it takes for z to be x followed by y.
Joins(x, y, z) ==
    /\ x \in Seq(Stages) /\ y \in Seq(Stages) /\ z \in Seq(Stages) /\ Len(z) = Len(x) + Len(y)
    /\ (\A i \in 1..Len(x) : z[i] = x[i]) /\ \A i \in 1..Len(y) : z[Len(x) + i] = y[i]
LEMMA JoinsIs == ASSUME NEW x, NEW y, NEW z, Joins(x, y, z) PROVE x \o y = z
  BY ConcatOf DEF Joins

\* The concatenations StageOrder is made of.
LEMMA ConcatIs ==
    /\ \A a, b \in Stages : <<a>> \o <<b>> = <<a, b>>
    /\ \A a, b, c \in Stages : <<a, b>> \o <<c>> = <<a, b, c>>
    /\ \A a, b, c, d \in Stages : <<a>> \o <<b, c, d>> = <<a, b, c, d>>
    /\ \A a, b, c, d, e \in Stages : <<a, b>> \o <<c, d, e>> = <<a, b, c, d, e>>
    /\ \A a, b, c, d \in Stages : <<a, b>> \o <<c, d>> = <<a, b, c, d>>
    /\ \A a \in Stages : <<a>> \o <<>> = <<a>>
    /\ \A a \in Stages : <<>> \o <<a>> = <<a>>
    /\ \A a, b \in Stages : <<a, b>> \o <<>> = <<a, b>>
<1>1. ASSUME NEW a \in Stages, NEW b \in Stages PROVE <<a>> \o <<b>> = <<a, b>>
  <2> DEFINE x == <<a>>
             y == <<b>>
             z == <<a, b>>
  <2>2. x \in Seq(Stages) /\ y \in Seq(Stages) /\ z \in Seq(Stages) OBVIOUS
  <2>3. Len(x) = 1 /\ Len(y) = 1 /\ Len(z) = Len(x) + Len(y) OBVIOUS
  <2>4. \A i \in 1..Len(x) : z[i] = x[i] OBVIOUS
  <2>5. \A i \in 1..Len(y) : z[Len(x) + i] = y[i] OBVIOUS
  <2> HIDE DEF x, y, z
  <2>1. Joins(x, y, z) BY <2>2, <2>3, <2>4, <2>5 DEF Joins
  <2> QED BY <2>1, JoinsIs DEF x, y, z
<1>2. ASSUME NEW a \in Stages, NEW b \in Stages, NEW c \in Stages PROVE <<a, b>> \o <<c>> = <<a, b, c>>
  <2>1. Joins(<<a, b>>, <<c>>, <<a, b, c>>) BY DEF Joins
  <2> QED BY <2>1, JoinsIs
<1>3. ASSUME NEW a \in Stages, NEW b \in Stages, NEW c \in Stages, NEW d \in Stages PROVE <<a>> \o <<b, c, d>> = <<a, b, c, d>>
  <2>1. Joins(<<a>>, <<b, c, d>>, <<a, b, c, d>>) BY DEF Joins
  <2> QED BY <2>1, JoinsIs
<1>4. ASSUME NEW a \in Stages, NEW b \in Stages, NEW c \in Stages, NEW d \in Stages, NEW e \in Stages PROVE <<a, b>> \o <<c, d, e>> = <<a, b, c, d, e>>
  <2>1. Joins(<<a, b>>, <<c, d, e>>, <<a, b, c, d, e>>) BY DEF Joins
  <2> QED BY <2>1, JoinsIs
<1>5. ASSUME NEW a \in Stages, NEW b \in Stages, NEW c \in Stages, NEW d \in Stages PROVE <<a, b>> \o <<c, d>> = <<a, b, c, d>>
  <2>1. Joins(<<a, b>>, <<c, d>>, <<a, b, c, d>>) BY DEF Joins
  <2> QED BY <2>1, JoinsIs
<1>6. ASSUME NEW a \in Stages PROVE <<a>> \o <<>> = <<a>>
  <2>1. Joins(<<a>>, <<>>, <<a>>) BY DEF Joins
  <2> QED BY <2>1, JoinsIs
<1>7. ASSUME NEW a \in Stages PROVE <<>> \o <<a>> = <<a>>
  <2>1. Joins(<<>>, <<a>>, <<a>>) BY DEF Joins
  <2> QED BY <2>1, JoinsIs
<1>8. ASSUME NEW a \in Stages, NEW b \in Stages PROVE <<a, b>> \o <<>> = <<a, b>>
  <2>1. Joins(<<a, b>>, <<>>, <<a, b>>) BY DEF Joins
  <2> QED BY <2>1, JoinsIs
<1> QED BY <1>1, <1>2, <1>3, <1>4, <1>5, <1>6, <1>7, <1>8

\* StageOrder, written out for every kind of recipe.
LEMMA OrderIs ==
    ASSUME NEW p \in Recipes
    PROVE StageOrder(p) =
            CASE p.kind = "preprocess" /\ p.song -> <<"separation", "cleanup">>
              [] p.kind = "preprocess" /\ ~p.song -> <<"cleanup">>
              [] p.kind = "preview" /\ p.song -> <<"separation", "cleanup", "baseline", "conversion", "preview">>
              [] p.kind = "preview" /\ ~p.song -> <<"cleanup", "baseline", "conversion", "preview">>
              [] p.kind = "convert" /\ ~p.song -> <<"cleanup", "conversion">>
              [] p.kind = "convert" /\ p.song /\ ~p.mix -> <<"separation", "cleanup", "conversion">>
              [] p.kind = "convert" /\ p.song /\ p.mix -> <<"separation", "cleanup", "conversion", "mixing">>
<1>0. /\ "separation" \in Stages /\ "cleanup" \in Stages /\ "baseline" \in Stages
      /\ "conversion" \in Stages /\ "mixing" \in Stages /\ "preview" \in Stages
  BY DEF Stages
<1> DEFINE head == IF p.song THEN <<"separation">> ELSE <<>>
           tail == CASE p.kind = "preprocess" -> <<>>
                     [] p.kind = "preview" -> <<"baseline", "conversion", "preview">>
                     [] p.kind = "convert" -> <<"conversion">> \o (IF p.mix THEN <<"mixing">> ELSE <<>>)
<1>1. StageOrder(p) = head \o <<"cleanup">> \o tail BY DEF StageOrder
<1>2. head \o <<"cleanup">> = IF p.song THEN <<"separation", "cleanup">> ELSE <<"cleanup">>
  <2>1. <<"separation">> \o <<"cleanup">> = <<"separation", "cleanup">> /\ <<>> \o <<"cleanup">> = <<"cleanup">>
    BY <1>0, ConcatIs
  <2> QED BY <2>1
<1>3. tail = CASE p.kind = "preprocess" -> <<>>
               [] p.kind = "preview" -> <<"baseline", "conversion", "preview">>
               [] p.kind = "convert" /\ p.mix -> <<"conversion", "mixing">>
               [] p.kind = "convert" /\ ~p.mix -> <<"conversion">>
  <2>1. <<"conversion">> \o <<"mixing">> = <<"conversion", "mixing">> /\ <<"conversion">> \o <<>> = <<"conversion">>
    BY <1>0, ConcatIs
  <2> QED BY <2>1, Recipe
<1> HIDE DEF head, tail
<1>4. /\ <<"separation", "cleanup">> \o <<>> = <<"separation", "cleanup">>
      /\ <<"cleanup">> \o <<>> = <<"cleanup">>
      /\ <<"cleanup">> \o <<"conversion">> = <<"cleanup", "conversion">>
  BY <1>0, ConcatIs
<1>5. /\ <<"separation", "cleanup">> \o <<"conversion">> = <<"separation", "cleanup", "conversion">>
      /\ <<"separation", "cleanup">> \o <<"conversion", "mixing">> = <<"separation", "cleanup", "conversion", "mixing">>
  BY <1>0, ConcatIs
<1>6. /\ <<"cleanup">> \o <<"baseline", "conversion", "preview">> = <<"cleanup", "baseline", "conversion", "preview">>
      /\ <<"separation", "cleanup">> \o <<"baseline", "conversion", "preview">>
           = <<"separation", "cleanup", "baseline", "conversion", "preview">>
  BY <1>0, ConcatIs
<1>7. CASE p.kind = "preprocess" BY <1>1, <1>2, <1>3, <1>4, <1>7, Recipe
<1>8. CASE p.kind = "preview" BY <1>1, <1>2, <1>3, <1>6, <1>8, Recipe
<1>9. CASE p.kind = "convert" BY <1>1, <1>2, <1>3, <1>4, <1>5, <1>9, Recipe
<1> QED BY <1>7, <1>8, <1>9, Recipe

\* The stages of a recipe come in an order that fits what they need.
LEMMA OrderFits ==
    ASSUME NEW p \in Recipes
    PROVE /\ Ordered(p, StageOrder(p))
          /\ LastStage(p) = CASE p.kind = "preprocess" -> "cleanup"
                              [] p.kind = "preview" -> "preview"
                              [] p.kind = "convert" -> IF p.mix THEN "mixing" ELSE "conversion"
          /\ LastStage(p) \in StagesOf(p) \ {"baseline"}
<1>1. CASE p.kind = "preprocess" /\ p.song
  <2> DEFINE q == <<"separation", "cleanup">>
  <2>1. StageOrder(p) = q BY <1>1, OrderIs, Recipe
  <2>2. DOMAIN q = 1..2 /\ Len(q) = 2 /\ q \in Seq({"separation", "cleanup"}) OBVIOUS
  <2>3. q[1] = "separation" /\ q[2] = "cleanup" OBVIOUS
  <2> HIDE DEF q
  <2>4. StagesOf(p) = {"separation", "cleanup"} BY <1>1, Recipe DEF StagesOf
  <2>5. \A s \in StagesOf(p) : \E j \in 1..2 : q[j] = s BY <2>3, <2>4
  <2>6. \A i \in 1..2 : \A r \in Needs(p, q[i]) : \E j \in 1..(i - 1) : q[j] = r
    <3>1. Needs(p, q[1]) = {} BY <2>3, <1>1, Recipe DEF Needs
    <3>2. Needs(p, q[2]) = {"separation"} BY <2>3, <1>1, Recipe DEF Needs
    <3> QED BY <3>1, <3>2, <2>3
  <2>7. Ordered(p, q) BY <2>2, <2>4, <2>5, <2>6 DEF Ordered
  <2>8. LastStage(p) = q[2] BY <2>1, <2>2 DEF LastStage
  <2> QED BY <2>1, <2>3, <2>4, <2>7, <2>8, <1>1, Recipe
<1>2. CASE p.kind = "preprocess" /\ ~p.song
  <2> DEFINE q == <<"cleanup">>
  <2>1. StageOrder(p) = q BY <1>2, OrderIs, Recipe
  <2>2. DOMAIN q = 1..1 /\ Len(q) = 1 /\ q \in Seq({"cleanup"}) OBVIOUS
  <2>3. q[1] = "cleanup" OBVIOUS
  <2> HIDE DEF q
  <2>4. StagesOf(p) = {"cleanup"} BY <1>2, Recipe DEF StagesOf
  <2>5. \A s \in StagesOf(p) : \E j \in 1..1 : q[j] = s BY <2>3, <2>4
  <2>6. \A i \in 1..1 : \A r \in Needs(p, q[i]) : \E j \in 1..(i - 1) : q[j] = r
    <3>1. Needs(p, q[1]) = {} BY <2>3, <1>2, Recipe DEF Needs
    <3> QED BY <3>1, <2>3
  <2>7. Ordered(p, q) BY <2>2, <2>4, <2>5, <2>6 DEF Ordered
  <2>8. LastStage(p) = q[1] BY <2>1, <2>2 DEF LastStage
  <2> QED BY <2>1, <2>3, <2>4, <2>7, <2>8, <1>2, Recipe
<1>3. CASE p.kind = "preview" /\ p.song
  <2> DEFINE q == <<"separation", "cleanup", "baseline", "conversion", "preview">>
  <2>1. StageOrder(p) = q BY <1>3, OrderIs, Recipe
  <2>2. DOMAIN q = 1..5 /\ Len(q) = 5 /\ q \in Seq({"separation", "cleanup", "baseline", "conversion", "preview"})
    OBVIOUS
  <2>3. q[1] = "separation" /\ q[2] = "cleanup" /\ q[3] = "baseline" /\ q[4] = "conversion" /\ q[5] = "preview"
    OBVIOUS
  <2> HIDE DEF q
  <2>4. StagesOf(p) = {"separation", "cleanup", "baseline", "conversion", "preview"}
    BY <1>3, Recipe DEF StagesOf
  <2>5. \A s \in StagesOf(p) : \E j \in 1..5 : q[j] = s BY <2>3, <2>4
  <2>6. \A i \in 1..5 : \A r \in Needs(p, q[i]) : \E j \in 1..(i - 1) : q[j] = r
    <3>1. Needs(p, q[1]) = {} BY <2>3, <1>3, Recipe DEF Needs
    <3>2. Needs(p, q[2]) = {"separation"} BY <2>3, <1>3, Recipe DEF Needs
    <3>3. Needs(p, q[3]) = {} BY <2>3, <1>3, Recipe DEF Needs
    <3>4. Needs(p, q[4]) = {"cleanup"} BY <2>3, <1>3, Recipe DEF Needs
    <3>5. Needs(p, q[5]) = {"conversion"} BY <2>3, <1>3, Recipe DEF Needs
    <3> QED BY <3>1, <3>2, <3>3, <3>4, <3>5, <2>3
  <2>7. Ordered(p, q) BY <2>2, <2>4, <2>5, <2>6 DEF Ordered
  <2>8. LastStage(p) = q[5] BY <2>1, <2>2 DEF LastStage
  <2> QED BY <2>1, <2>3, <2>4, <2>7, <2>8, <1>3, Recipe
<1>4. CASE p.kind = "preview" /\ ~p.song
  <2> DEFINE q == <<"cleanup", "baseline", "conversion", "preview">>
  <2>1. StageOrder(p) = q BY <1>4, OrderIs, Recipe
  <2>2. DOMAIN q = 1..4 /\ Len(q) = 4 /\ q \in Seq({"cleanup", "baseline", "conversion", "preview"}) OBVIOUS
  <2>3. q[1] = "cleanup" /\ q[2] = "baseline" /\ q[3] = "conversion" /\ q[4] = "preview" OBVIOUS
  <2> HIDE DEF q
  <2>4. StagesOf(p) = {"cleanup", "baseline", "conversion", "preview"} BY <1>4, Recipe DEF StagesOf
  <2>5. \A s \in StagesOf(p) : \E j \in 1..4 : q[j] = s BY <2>3, <2>4
  <2>6. \A i \in 1..4 : \A r \in Needs(p, q[i]) : \E j \in 1..(i - 1) : q[j] = r
    <3>1. Needs(p, q[1]) = {} BY <2>3, <1>4, Recipe DEF Needs
    <3>2. Needs(p, q[2]) = {} BY <2>3, <1>4, Recipe DEF Needs
    <3>3. Needs(p, q[3]) = {"cleanup"} BY <2>3, <1>4, Recipe DEF Needs
    <3>4. Needs(p, q[4]) = {"conversion"} BY <2>3, <1>4, Recipe DEF Needs
    <3> QED BY <3>1, <3>2, <3>3, <3>4, <2>3
  <2>7. Ordered(p, q) BY <2>2, <2>4, <2>5, <2>6 DEF Ordered
  <2>8. LastStage(p) = q[4] BY <2>1, <2>2 DEF LastStage
  <2> QED BY <2>1, <2>3, <2>4, <2>7, <2>8, <1>4, Recipe
<1>5. CASE p.kind = "convert" /\ ~p.song
  <2> DEFINE q == <<"cleanup", "conversion">>
  <2>1. StageOrder(p) = q BY <1>5, OrderIs, Recipe
  <2>2. DOMAIN q = 1..2 /\ Len(q) = 2 /\ q \in Seq({"cleanup", "conversion"}) OBVIOUS
  <2>3. q[1] = "cleanup" /\ q[2] = "conversion" OBVIOUS
  <2> HIDE DEF q
  <2>4. StagesOf(p) = {"cleanup", "conversion"} BY <1>5, Recipe DEF StagesOf
  <2>5. \A s \in StagesOf(p) : \E j \in 1..2 : q[j] = s BY <2>3, <2>4
  <2>6. \A i \in 1..2 : \A r \in Needs(p, q[i]) : \E j \in 1..(i - 1) : q[j] = r
    <3>1. Needs(p, q[1]) = {} BY <2>3, <1>5, Recipe DEF Needs
    <3>2. Needs(p, q[2]) = {"cleanup"} BY <2>3, <1>5, Recipe DEF Needs
    <3> QED BY <3>1, <3>2, <2>3
  <2>7. Ordered(p, q) BY <2>2, <2>4, <2>5, <2>6 DEF Ordered
  <2>8. LastStage(p) = q[2] BY <2>1, <2>2 DEF LastStage
  <2> QED BY <2>1, <2>3, <2>4, <2>7, <2>8, <1>5, Recipe
<1>6. CASE p.kind = "convert" /\ p.song /\ ~p.mix
  <2> DEFINE q == <<"separation", "cleanup", "conversion">>
  <2>1. StageOrder(p) = q BY <1>6, OrderIs, Recipe
  <2>2. DOMAIN q = 1..3 /\ Len(q) = 3 /\ q \in Seq({"separation", "cleanup", "conversion"}) OBVIOUS
  <2>3. q[1] = "separation" /\ q[2] = "cleanup" /\ q[3] = "conversion" OBVIOUS
  <2> HIDE DEF q
  <2>4. StagesOf(p) = {"separation", "cleanup", "conversion"} BY <1>6, Recipe DEF StagesOf
  <2>5. \A s \in StagesOf(p) : \E j \in 1..3 : q[j] = s BY <2>3, <2>4
  <2>6. \A i \in 1..3 : \A r \in Needs(p, q[i]) : \E j \in 1..(i - 1) : q[j] = r
    <3>1. Needs(p, q[1]) = {} BY <2>3, <1>6, Recipe DEF Needs
    <3>2. Needs(p, q[2]) = {"separation"} BY <2>3, <1>6, Recipe DEF Needs
    <3>3. Needs(p, q[3]) = {"cleanup"} BY <2>3, <1>6, Recipe DEF Needs
    <3> QED BY <3>1, <3>2, <3>3, <2>3
  <2>7. Ordered(p, q) BY <2>2, <2>4, <2>5, <2>6 DEF Ordered
  <2>8. LastStage(p) = q[3] BY <2>1, <2>2 DEF LastStage
  <2> QED BY <2>1, <2>3, <2>4, <2>7, <2>8, <1>6, Recipe
<1>7. CASE p.kind = "convert" /\ p.song /\ p.mix
  <2> DEFINE q == <<"separation", "cleanup", "conversion", "mixing">>
  <2>1. StageOrder(p) = q BY <1>7, OrderIs, Recipe
  <2>2. DOMAIN q = 1..4 /\ Len(q) = 4 /\ q \in Seq({"separation", "cleanup", "conversion", "mixing"}) OBVIOUS
  <2>3. q[1] = "separation" /\ q[2] = "cleanup" /\ q[3] = "conversion" /\ q[4] = "mixing" OBVIOUS
  <2> HIDE DEF q
  <2>4. StagesOf(p) = {"separation", "cleanup", "conversion", "mixing"} BY <1>7, Recipe DEF StagesOf
  <2>5. \A s \in StagesOf(p) : \E j \in 1..4 : q[j] = s BY <2>3, <2>4
  <2>6. \A i \in 1..4 : \A r \in Needs(p, q[i]) : \E j \in 1..(i - 1) : q[j] = r
    <3>1. Needs(p, q[1]) = {} BY <2>3, <1>7, Recipe DEF Needs
    <3>2. Needs(p, q[2]) = {"separation"} BY <2>3, <1>7, Recipe DEF Needs
    <3>3. Needs(p, q[3]) = {"cleanup"} BY <2>3, <1>7, Recipe DEF Needs
    <3>4. Needs(p, q[4]) = {"separation", "conversion"} BY <2>3, <1>7, Recipe DEF Needs
    <3> QED BY <3>1, <3>2, <3>3, <3>4, <2>3
  <2>7. Ordered(p, q) BY <2>2, <2>4, <2>5, <2>6 DEF Ordered
  <2>8. LastStage(p) = q[4] BY <2>1, <2>2 DEF LastStage
  <2> QED BY <2>1, <2>3, <2>4, <2>7, <2>8, <1>7, Recipe
<1> QED BY <1>1, <1>2, <1>3, <1>4, <1>5, <1>6, <1>7, Recipe

\* The stages of a recipe are stages.
LEMMA StagesAre ==
    ASSUME NEW p \in Recipes
    PROVE /\ StagesOf(p) \subseteq Stages /\ StageOrder(p) \in Seq(Stages)
          /\ \A s \in Stages : Needs(p, s) \subseteq Stages
<1>1. StagesOf(p) \subseteq Stages BY DEF StagesOf, Stages
<1>2. StageOrder(p) \in Seq(StagesOf(p)) BY OrderFits DEF Ordered
<1>3. StageOrder(p) \in Seq(Stages) BY <1>1, <1>2
<1>4. \A s \in Stages : Needs(p, s) \subseteq Stages BY DEF Needs, Stages
<1> QED BY <1>1, <1>3, <1>4

----------------------------------------
(* The layer of types. *)

\* What has a TRUE "is" is not None.
LEMMA OrNone ==
    /\ None.is = FALSE
    /\ \A x \in {None} \cup SavedType : x.is => x \in SavedType /\ x.is = TRUE
    /\ \A x \in {None} \cup MarkType : x.is => x \in MarkType /\ x.is = TRUE
    /\ \A x \in {None} \cup IdType : x.is => x \in IdType /\ x.is = TRUE
<1>1. None.is = FALSE BY DEF None
<1>2. /\ \A x \in SavedType : x.is = TRUE
      /\ \A x \in MarkType : x.is = TRUE
      /\ \A x \in IdType : x.is = TRUE
  BY DEF SavedType, MarkType, IdType
<1> QED BY <1>1, <1>2

\* The identity a directory is opened under.
LEMMA OpenedIs ==
    ASSUME TasksType, NEW t \in Tasks, NEW m \in Audio
    PROVE /\ OpenedAs(t, m) \in {None} \cup IdType
          /\ OpenedAs(t, m).is => /\ OpenedAs(t, m) \in IdType /\ OpenedAs(t, m).plan = Plan(t)
                                  /\ OpenedAs(t, m).source = Contents(t, "source")
                                  /\ OpenedAs(t, m).model = IF Plan(t).kind = "preprocess" THEN <<>> ELSE m
                                  /\ saved[t].is => OpenedAs(t, m) = saved[t].id
<1> DEFINE now == Identity(Plan(t), release, Contents(t, "source"), m)
<1>1. rec[t] \in RecType /\ Plan(t) \in Recipes /\ release \in Releases \cup {"now"}
  BY DEF TasksType, RecType, Plan
<1>2. Contents(t, "source") \in Audio
  <2>1. "source" \in Names BY DEF Names
  <2>2. file[t]["source"] \in FileType BY <2>1 DEF TasksType
  <2> QED BY <2>2 DEF FileType, Contents
<1>3. /\ now.is = TRUE /\ now.by = release /\ now.plan = Plan(t) /\ now.source = Contents(t, "source")
      /\ now.model = IF Plan(t).kind = "preprocess" THEN <<>> ELSE m
  BY DEF Identity
<1>4. now \in IdType BY <1>1, <1>2, TagsAre DEF Identity, IdType
<1>5. \A by : LET x == [now EXCEPT !.by = by]
              IN x.is = now.is /\ x.plan = now.plan /\ x.source = now.source /\ x.model = now.model
  BY DEF Identity
<1>7. saved[t].is => saved[t].id \in IdType /\ saved[t].is = TRUE BY OrNone DEF TasksType, SavedType
<1>8. None.is = FALSE BY DEF None
<1> HIDE DEF now
<1>9. OpenedAs(t, m) = IF ~saved[t].is THEN now
                       ELSE IF \E by \in Accepted : saved[t].id = [now EXCEPT !.by = by] THEN saved[t].id ELSE None
  BY DEF OpenedAs, now
<1>10. CASE ~saved[t].is BY <1>3, <1>4, <1>9, <1>10
<1>11. CASE saved[t].is /\ \E by \in Accepted : saved[t].id = [now EXCEPT !.by = by]
  <2>1. PICK by \in Accepted : saved[t].id = [now EXCEPT !.by = by] BY <1>11
  <2>2. /\ saved[t].id.plan = Plan(t) /\ saved[t].id.source = Contents(t, "source")
        /\ saved[t].id.model = now.model
    BY <2>1, <1>3, <1>5
  <2> QED BY <1>3, <1>7, <1>9, <1>11, <2>2
<1>12. CASE saved[t].is /\ ~(\E by \in Accepted : saved[t].id = [now EXCEPT !.by = by]) BY <1>8, <1>9, <1>12
<1> QED BY <1>10, <1>11, <1>12

\* The type invariant, one element at a time.
LEMMA TypesAre ==
    ASSUME TasksType, NEW t \in Tasks
    PROVE /\ rec[t] \in RecType /\ Plan(t) \in Recipes /\ rec[t].model \in Audio /\ rec[t].sha \in Audio
          /\ \A n \in Names : file[t][n] \in FileType /\ Contents(t, n) \in Audio
          /\ \A s \in Stages : /\ mark[t][s] \in {None} \cup MarkType
                               /\ mark[t][s].is => /\ mark[t][s] \in MarkType /\ Kept(t, s) \in Names
                                                   /\ mark[t][s].digest \in Audio /\ mark[t][s].is = TRUE
          /\ saved[t] \in {None} \cup SavedType
          /\ saved[t].is => /\ saved[t] \in SavedType /\ saved[t].id \in IdType /\ saved[t].is = TRUE
                            /\ saved[t].id.source \in Audio /\ saved[t].id.model \in Audio
                            /\ saved[t].id.plan \in Recipes
          /\ Resolved(t) \in Audio
<1>1. rec[t] \in RecType /\ Plan(t) \in Recipes /\ rec[t].model \in Audio /\ rec[t].sha \in Audio
  BY DEF TasksType, RecType, Plan
<1>2. \A n \in Names : file[t][n] \in FileType /\ Contents(t, n) \in Audio
  BY DEF TasksType, FileType, Contents
<1>3. ASSUME NEW s \in Stages
      PROVE /\ mark[t][s] \in {None} \cup MarkType
            /\ mark[t][s].is => /\ mark[t][s] \in MarkType /\ Kept(t, s) \in Names
                                /\ mark[t][s].digest \in Audio /\ mark[t][s].is = TRUE
  <2>1. mark[t][s] \in {None} \cup MarkType BY DEF TasksType
  <2>2. mark[t][s].is => mark[t][s] \in MarkType /\ mark[t][s].is = TRUE BY <2>1, OrNone
  <2>3. mark[t][s] \in MarkType => mark[t][s].name \in Names /\ mark[t][s].digest \in Audio BY DEF MarkType
  <2> QED BY <2>1, <2>2, <2>3 DEF Kept
<1>4. saved[t] \in {None} \cup SavedType BY DEF TasksType
<1>5. saved[t].is => saved[t] \in SavedType /\ saved[t].id \in IdType /\ saved[t].is = TRUE
  BY <1>4, OrNone DEF SavedType
<1>6. saved[t].is => /\ saved[t].id.source \in Audio /\ saved[t].id.model \in Audio
                     /\ saved[t].id.plan \in Recipes
  BY <1>5 DEF IdType
<1>7. Resolved(t) \in Audio BY <1>2, NamesAre DEF Resolved, TasksType
<1> QED BY <1>1, <1>2, <1>3, <1>4, <1>5, <1>6, <1>7

\* The type invariant holds at first.
LEMMA InitType == TasksInit => TasksType
<1> SUFFICES ASSUME TasksInit PROVE TasksType OBVIOUS
<1>1. (CHOOSE p \in Recipes : TRUE) \in Recipes BY RecipesAssumption
<1>2. rec \in [Tasks -> RecType] BY <1>1, TagsAre DEF TasksInit, RecType, RecStates
<1>3. Absent \in FileType BY TagsAre DEF Absent, FileType
<1>4. file \in [Tasks -> [Names -> FileType]] BY <1>3 DEF TasksInit
<1>5. mark \in [Tasks -> [Stages -> {None} \cup MarkType]] /\ saved \in [Tasks -> {None} \cup SavedType]
  BY DEF TasksInit
<1>6. Idle \in RunType BY DEF Idle, RunType, Tasks
<1> QED BY <1>2, <1>4, <1>5, <1>6, TagsAre DEF TasksInit, TasksType

----------------------------------------
(* What the code finds in the states of the invariant. *)

\* The parts of the invariant.
LEMMA InvIs ==
    ASSUME TasksInv
    PROVE /\ RequestFits /\ TasksType /\ RunFits /\ SyncFits /\ InputsFit /\ PruneFits /\ TodoFits /\ FirstFits
          /\ \A t \in Tasks : TaskFits(t) /\ ResultFits(t)
          /\ \A t \in Tasks, s \in Stages : MarkFits(t, s)
  BY DEF TasksInv

\* The first task has succeeded whenever the next one exists.
LEMMA FirstIs ==
    ASSUME TasksInv, NEW t \in Tasks, saved[t].is
    PROVE saved["first"].is /\ (t = "next" => rec["first"].state = "succeeded")
<1>1. TaskFits(t) /\ ResultFits("first") /\ "first" \in Tasks /\ t \in {"first", "next"} BY InvIs DEF Tasks
<1>2. t = "next" => rec["first"].state = "succeeded" BY <1>1 DEF TaskFits, Allowed
<1> QED BY <1>1, <1>2 DEF ResultFits

\* The audio of a stage is audio, and not empty if its source is not.
LEMMA OwnAudioIs ==
    ASSUME TasksType, NEW t \in Tasks, NEW s \in Stages, saved[t].is, saved["first"].is
    PROVE OwnAudio(t, s) \in Audio /\ (saved[t].id.source # <<>> => OwnAudio(t, s) # <<>>)
<1>1. /\ Plan(t) \in Recipes /\ saved[t].id.source \in Audio /\ saved[t].id.model \in Audio
      /\ Plan("first") \in Recipes /\ saved["first"].id.source \in Audio /\ saved["first"].id.model \in Audio
  BY TypesAre DEF Tasks
<1>2. Vocal(t) \in Audio /\ Vocal("first") \in Audio BY <1>1, OwnIsAudio DEF Vocal
<1>3. CASE s = "separation" BY <1>1, <1>3, AudioIs DEF OwnAudio
<1>4. CASE s = "cleanup" BY <1>1, <1>4, OwnIsAudio DEF OwnAudio
<1>5. CASE s = "conversion" BY <1>1, <1>5, OwnIsAudio DEF OwnAudio, Vocal
<1>6. CASE s = "mixing"
  <2>1. Separated(saved[t].id.source) \in Audio BY <1>1, AudioIs
  <2>2. /\ Mixed(saved[t].id.source, Separated(saved[t].id.source), Vocal(t)) \in Audio
        /\ Mixed(saved[t].id.source, Separated(saved[t].id.source), Vocal(t)) # <<>>
    BY <1>1, <1>2, <2>1, AudioIs
  <2> QED BY <2>2, <1>6 DEF OwnAudio
<1>7. CASE s = "preview" BY <1>1, <1>2, <1>7, AudioIs DEF OwnAudio
<1>8. CASE s = "baseline" BY <1>1, <1>2, <1>8, AudioIs DEF OwnAudio
<1> QED BY <1>3, <1>4, <1>5, <1>6, <1>7, <1>8 DEF Stages

\* completed_stage is right about a stage it finds completed.
LEMMA CompletedIs ==
    ASSUME TasksInv, NEW t \in Tasks, NEW s \in Stages, NEW id
    PROVE /\ Completed(t, s, id) \in {"none", "ok", "bad"}
          /\ Completed(t, s, id) = "none" <=> ~mark[t][s].is
          /\ Completed(t, s, id) = "ok" =>
               /\ mark[t][s].is /\ Reused(t, s) /\ Kept(t, s) \in Names /\ NameFits(t, s, Kept(t, s)) /\ saved[t].is
               /\ Contents(t, Kept(t, s)) = OwnAudio(t, s) /\ mark[t][s].id = id
<1>1. /\ Completed(t, s, id) \in {"none", "ok", "bad"}
      /\ Completed(t, s, id) = "none" <=> ~mark[t][s].is
  BY DEF Completed
<1>2. Completed(t, s, id) = "ok" =>
        mark[t][s].is /\ mark[t][s].id = id /\ Contents(t, Kept(t, s)) = mark[t][s].digest
  BY DEF Completed, Kept
<1>3. MarkFits(t, s) BY InvIs
<1>4. mark[t][s].is => /\ saved[t].is /\ mark[t][s].digest = OwnAudio(t, s) /\ NameFits(t, s, Kept(t, s))
                       /\ Kept(t, s) \in Names
  BY <1>3, KeepsApart DEF MarkFits
<1> QED BY <1>1, <1>2, <1>4 DEF Reused

\* What a stage that is done holds.
LEMMA ReusedIs ==
    ASSUME TasksInv, NEW t \in Tasks, NEW s \in Stages, Reused(t, s)
    PROVE /\ Contents(t, Kept(t, s)) = OwnAudio(t, s) /\ Kept(t, s) \in Names /\ saved[t].is /\ mark[t][s].is
<1>1. MarkFits(t, s) BY InvIs
<1> QED BY <1>1, KeepsApart DEF Reused, MarkFits

\* A task that works on its stages.
LEMMA WorksIs ==
    ASSUME TasksInv, run.pc \notin {"idle", "open"} \cup Pruning
    PROVE /\ run.task \in Tasks /\ saved[run.task].is /\ run.id = saved[run.task].id /\ rec[run.task].state = "active"
          /\ Contents(run.task, "source") = saved[run.task].id.source
          /\ Plan(run.task).kind # "preprocess" => Contents(run.task, "model") = saved[run.task].id.model
          /\ run.pc # "opened" => saved[run.task].safe
          /\ Plan(run.task) \in Recipes /\ saved["first"].is
<1>1. run.task \in Tasks BY InvIs DEF TasksType, RunType
<1>2. saved[run.task].is /\ run.id = saved[run.task].id /\ rec[run.task].state = "active"
      /\ (run.pc # "opened" => saved[run.task].safe)
  BY <1>1, InvIs DEF RunFits
<1>3. Contents(run.task, "source") = run.id.source
      /\ (Plan(run.task).kind # "preprocess" => Contents(run.task, "model") = run.id.model)
  BY InvIs DEF InputsFit
<1>4. Plan(run.task) \in Recipes /\ saved["first"].is BY <1>1, <1>2, InvIs, TypesAre, FirstIs
<1> QED BY <1>1, <1>2, <1>3, <1>4

\* What is left to do, taken apart.
LEMMA TodoIs ==
    ASSUME TasksInv, run.pc \in {"stages", "inherit"} \cup Committing, run.todo # <<>>
    PROVE /\ Head(run.todo) = run.todo[1] /\ 1 \in DOMAIN run.todo
          /\ Len(run.todo) \in Nat \ {0} /\ DOMAIN run.todo = 1..Len(run.todo)
          /\ Tail(run.todo) \in Seq(Stages \cup Names) /\ Len(Tail(run.todo)) = Len(run.todo) - 1
          /\ \A i \in 1..(Len(run.todo) - 1) : Tail(run.todo)[i] = run.todo[i + 1]
<1>1. run.todo \in Seq(Stages \cup Names) BY InvIs DEF TasksType, RunType
<1>2. Len(run.todo) \in Nat /\ DOMAIN run.todo = 1..Len(run.todo) /\ Len(run.todo) # 0
  BY <1>1, LenProperties, EmptySeq
<1>3. /\ Head(run.todo) = run.todo[1] /\ Tail(run.todo) \in Seq(Stages \cup Names)
      /\ Len(Tail(run.todo)) = Len(run.todo) - 1
      /\ \A i \in 1..(Len(run.todo) - 1) : Tail(run.todo)[i] = run.todo[i + 1]
  BY <1>1, HeadTailProperties
<1> QED BY <1>2, <1>3

\* The next stage to do: the stages it is computed from are done.
LEMMA StageIs ==
    ASSUME TasksInv, run.pc = "stages" \/ (run.pc \in Committing /\ run.ret = "stages"), run.todo # <<>>
    PROVE /\ Head(run.todo) \in StagesOf(Plan(run.task)) /\ Head(run.todo) \in Stages
          /\ \A n \in Needs(Plan(run.task), Head(run.todo)) : n \in Stages /\ Reused(run.task, n)
          /\ Head(run.todo) \in {"baseline", "preview"} =>
               /\ Plan(run.task).kind = "preview" /\ run.task = "next"
               /\ rec["first"].state = "succeeded" /\ Plan("first").kind = "convert"
          /\ Head(run.todo) = "conversion" => Plan(run.task).kind # "preprocess"
          /\ Head(run.todo) = "mixing" => Plan(run.task).kind = "convert" /\ Plan(run.task).song
          /\ Head(run.todo) = "separation" => Plan(run.task).song
<1>1. StagesFit(run.task) BY InvIs DEF TodoFits
<1>2. /\ run.todo[1] = Head(run.todo) /\ 1 \in DOMAIN run.todo BY TodoIs DEF Committing
<1>3. /\ run.todo[1] \in StagesOf(Plan(run.task))
      /\ \A n \in Needs(Plan(run.task), run.todo[1]) : Reused(run.task, n)
  BY <1>1, <1>2 DEF StagesFit
<1>4. run.task \in Tasks /\ Plan(run.task) \in Recipes /\ rec[run.task].state = "active"
  BY WorksIs DEF Committing, Pruning
<1>5. /\ Head(run.todo) \in Stages
      /\ \A n \in Needs(Plan(run.task), Head(run.todo)) : n \in Stages
  BY <1>2, <1>3, <1>4, StagesAre
<1>6. TaskFits(run.task) /\ run.task \in {"first", "next"} BY <1>4, InvIs DEF Tasks
<1>7. /\ Head(run.todo) \in {"baseline", "preview"} => Plan(run.task).kind = "preview"
      /\ Head(run.todo) = "conversion" => Plan(run.task).kind # "preprocess"
      /\ Head(run.todo) = "mixing" => Plan(run.task).kind = "convert" /\ Plan(run.task).song
      /\ Head(run.todo) = "separation" => Plan(run.task).song
  BY <1>2, <1>3, <1>4, Recipe DEF StagesOf
<1>8. Plan(run.task).kind = "preview" =>
        run.task = "next" /\ rec["first"].state = "succeeded" /\ Plan("first").kind = "convert"
  BY <1>4, <1>6 DEF TaskFits, Allowed
<1> QED BY <1>2, <1>3, <1>5, <1>7, <1>8

\* The vocal a preview is compared with is the first task's own.
LEMMA BaselineIs ==
    ASSUME TasksInv, rec["first"].state = "succeeded", Plan("first").kind = "convert", Baseline # "bad"
    PROVE Contents("first", Baseline) = Vocal("first") /\ Baseline \in Names /\ saved["first"].is
<1>1. ResultFits("first") /\ "first" \in Tasks BY InvIs DEF Tasks
<1>2. saved["first"].is /\ rec["first"].sha = AudioOf(Plan("first"), saved["first"].id.source, saved["first"].id.model)
  BY <1>1 DEF ResultFits
<1>5. CASE ~Plan("first").mix /\ rec["first"].pruned
  <2>1. Baseline = "result" /\ Contents("first", "result") = rec["first"].sha BY <1>5 DEF Baseline
  <2> QED BY <1>2, <1>5, <2>1, NamesAre DEF AudioOf, Vocal
<1>6. CASE ~(~Plan("first").mix /\ rec["first"].pruned)
  <2>1. /\ Completed("first", "conversion", saved["first"].id) = "ok"
        /\ Baseline = Kept("first", "conversion")
    BY <1>6 DEF Baseline
  <2>2. "conversion" \in Stages BY DEF Stages
  <2>3. /\ Contents("first", Kept("first", "conversion")) = OwnAudio("first", "conversion")
        /\ Kept("first", "conversion") \in Names
    BY <1>1, <2>1, <2>2, CompletedIs
  <2> QED BY <1>2, <2>1, <2>3 DEF OwnAudio
<1> QED BY <1>5, <1>6

\* A stage computes the audio it stands for.
LEMMA ComputesOwn ==
    ASSUME NEW t, NEW s \in Stages, Contents(t, "source") = saved[t].id.source,
           Plan(t).kind # "preprocess" => Contents(t, "model") = saved[t].id.model,
           \A n \in Needs(Plan(t), s) : Contents(t, Kept(t, n)) = OwnAudio(t, n),
           s = "conversion" => Plan(t).kind # "preprocess",
           s = "baseline" => Contents("first", Baseline) = Vocal("first")
    PROVE Compute(t, s) = OwnAudio(t, s)
<1>4. CASE s = "separation" BY <1>4 DEF Compute, OwnAudio
<1>5. CASE s = "cleanup" /\ Plan(t).song
  <2>1. Contents(t, Kept(t, "separation")) = OwnAudio(t, "separation") BY <1>5 DEF Needs
  <2>2. OwnAudio(t, "separation") = Separated(saved[t].id.source) BY DEF OwnAudio
  <2>3. OwnAudio(t, s) = LeadOf(Plan(t), saved[t].id.source) BY <1>5 DEF OwnAudio
  <2> QED BY <2>1, <2>2, <2>3, <1>5 DEF Compute, LeadOf
<1>6. CASE s = "cleanup" /\ ~Plan(t).song BY <1>6 DEF Compute, OwnAudio, LeadOf
<1>7. CASE s = "conversion"
  <2>1. Contents(t, Kept(t, "cleanup")) = OwnAudio(t, "cleanup") BY <1>7 DEF Needs
  <2>2. OwnAudio(t, "cleanup") = LeadOf(Plan(t), saved[t].id.source) /\ OwnAudio(t, s) = Vocal(t)
    BY <1>7 DEF OwnAudio
  <2> QED BY <2>1, <2>2, <1>7 DEF Compute, Vocal, VocalOf
<1>8. CASE s = "mixing"
  <2>1. /\ Contents(t, Kept(t, "separation")) = OwnAudio(t, "separation")
        /\ Contents(t, Kept(t, "conversion")) = OwnAudio(t, "conversion")
    BY <1>8 DEF Needs
  <2>2. /\ OwnAudio(t, "separation") = Separated(saved[t].id.source) /\ OwnAudio(t, "conversion") = Vocal(t)
        /\ OwnAudio(t, s) = Mixed(saved[t].id.source, Separated(saved[t].id.source), Vocal(t))
    BY <1>8 DEF OwnAudio
  <2> QED BY <2>1, <2>2, <1>8 DEF Compute
<1>9. CASE s = "preview"
  <2>1. Contents(t, Kept(t, "conversion")) = OwnAudio(t, "conversion") BY <1>9 DEF Needs
  <2>2. OwnAudio(t, "conversion") = Vocal(t) /\ OwnAudio(t, s) = Excerpt(Vocal(t)) BY <1>9 DEF OwnAudio
  <2> QED BY <2>1, <2>2, <1>9 DEF Compute
<1>10. CASE s = "baseline" BY <1>10 DEF Compute, OwnAudio
<1> QED BY <1>4, <1>5, <1>6, <1>7, <1>8, <1>9, <1>10 DEF Stages

\* The stage that is computed now makes its own audio.
LEMMA ComputeIs ==
    ASSUME TasksInv, run.pc = "stages", run.todo # <<>>,
           Head(run.todo) = "baseline" => Baseline # "bad"
    PROVE Compute(run.task, Head(run.todo)) = OwnAudio(run.task, Head(run.todo))
<1>1. /\ run.task \in Tasks /\ saved[run.task].is /\ Contents(run.task, "source") = saved[run.task].id.source
      /\ Plan(run.task).kind # "preprocess" => Contents(run.task, "model") = saved[run.task].id.model
  BY WorksIs DEF Pruning
<1>2. /\ Head(run.todo) \in Stages
      /\ \A n \in Needs(Plan(run.task), Head(run.todo)) : n \in Stages /\ Reused(run.task, n)
      /\ Head(run.todo) = "baseline" => rec["first"].state = "succeeded" /\ Plan("first").kind = "convert"
      /\ Head(run.todo) = "conversion" => Plan(run.task).kind # "preprocess"
  BY StageIs
<1>3. \A n \in Needs(Plan(run.task), Head(run.todo)) :
          Contents(run.task, Kept(run.task, n)) = OwnAudio(run.task, n)
  BY <1>1, <1>2, ReusedIs
<1>4. Head(run.todo) = "baseline" => Contents("first", Baseline) = Vocal("first") BY <1>2, BaselineIs
<1> QED BY <1>1, <1>2, <1>3, <1>4, ComputesOwn

\* What a new version takes over is what it would make itself.
LEMMA TakesIs ==
    ASSUME NEW s \in DOMAIN InheritedName, Takes(s), saved["next"].id.source = saved["first"].id.source
    PROVE OwnAudio("first", s) = OwnAudio("next", s)
<1>1. s \in {"separation", "cleanup", "conversion"} BY Named
<1>2. SameCleanup(Plan("next"), Plan("first")) =>
        \A c : LeadOf(Plan("next"), c) = LeadOf(Plan("first"), c)
  BY DEF SameCleanup, LeadOf, Cleaned, Cleans
<1>3. CASE s = "separation" BY <1>3 DEF OwnAudio
<1>4. CASE s = "cleanup" BY <1>2, <1>4 DEF OwnAudio, Takes
<1>5. CASE s = "conversion" BY <1>2, <1>5 DEF OwnAudio, Takes, Vocal, VocalOf, Converted
<1> QED BY <1>1, <1>3, <1>4, <1>5

\* A file that is taken over holds what the new task's stage stands for.
LEMMA InheritIs ==
    ASSUME TasksInv, NEW s \in DOMAIN InheritedName, Takes(s),
           saved["next"].is, saved["next"].id.source = saved["first"].id.source,
           InheritFrom(s, saved["first"].id) \notin {"none", "bad"}
    PROVE /\ InheritFrom(s, saved["first"].id) \in Names
          /\ Contents("first", InheritFrom(s, saved["first"].id)) = OwnAudio("next", s)
          /\ InheritFrom(s, saved["first"].id) = "source" => s = "cleanup" /\ ~Cleans(Plan("next"))
<1> DEFINE from == InheritFrom(s, saved["first"].id)
<1>1. /\ "first" \in Tasks /\ s \in Stages /\ saved["first"].is /\ TaskFits("first") /\ ResultFits("first")
      /\ Plan("first") \in Recipes
  BY InvIs, TypesAre, FirstIs, NamesAre DEF Tasks
<1>2. OwnAudio("first", s) = OwnAudio("next", s) BY TakesIs
<1>3. CASE s = "conversion" /\ CopyRemoved
  <2>1. from = "result" /\ ~Plan("first").mix /\ Contents("first", "result") = rec["first"].sha
    BY <1>3 DEF InheritFrom
  <2>2. rec["first"].state = "succeeded" BY <1>1, <1>3 DEF CopyRemoved, TaskFits
  <2>3. rec["first"].sha = AudioOf(Plan("first"), saved["first"].id.source, saved["first"].id.model)
    BY <1>1, <2>2 DEF ResultFits
  <2>4. Plan("first").kind = "convert"
    <3>1. Plan("first").kind # "preprocess" BY <1>3 DEF Takes
    <3>2. Plan("first").kind # "preview" BY <1>1, <2>2 DEF TaskFits, Allowed
    <3> QED BY <1>1, <3>1, <3>2, Recipe
  <2>5. rec["first"].sha = Vocal("first") /\ OwnAudio("first", s) = Vocal("first")
    BY <1>3, <2>1, <2>3, <2>4 DEF AudioOf, Vocal, OwnAudio
  <2> QED BY <1>2, <2>1, <2>5, NamesAre
<1>4. CASE ~(s = "conversion" /\ CopyRemoved)
  <2>1. Completed("first", s, saved["first"].id) = "ok" /\ from = Kept("first", s)
    <3>1. from = LET how == Completed("first", s, saved["first"].id)
                 IN IF how = "ok" THEN Kept("first", s) ELSE how
      BY <1>4 DEF InheritFrom
    <3>2. Completed("first", s, saved["first"].id) \in {"none", "ok", "bad"} BY <1>1, CompletedIs
    <3> QED BY <3>1, <3>2
  <2>2. /\ Kept("first", s) \in Names /\ NameFits("first", s, Kept("first", s))
        /\ Contents("first", Kept("first", s)) = OwnAudio("first", s)
    BY <1>1, <2>1, CompletedIs
  <2>3. from = "source" => s = "cleanup" /\ ~Cleans(Plan("first"))
    <3>1. /\ \A r \in Stages : OutputName[r] # "source"
          /\ \A r \in DOMAIN InheritedName : InheritedName[r] # "source"
      BY Named DEF Stages
    <3> QED BY <1>1, <2>1, <2>2, <3>1 DEF NameFits
  <2>4. s = "cleanup" => (Cleans(Plan("first")) <=> Cleans(Plan("next"))) BY DEF Takes, SameCleanup, Cleans
  <2> QED BY <1>2, <2>1, <2>2, <2>3, <2>4
<1> QED BY <1>3, <1>4

\* The step that takes a stage over.
LEMMA InheritsIs ==
    ASSUME TasksInv, run.pc = "inherit" \/ (run.pc \in Committing /\ run.ret = "inherit"), run.todo # <<>>
    PROVE /\ run.task = "next" /\ Head(run.todo) \in DOMAIN InheritedName /\ Head(run.todo) \in Stages
          /\ Takes(Head(run.todo)) /\ saved["next"].is /\ saved["next"].id.source = saved["first"].id.source
<1>1. run.task = "next" BY InvIs DEF RunFits
<1>2. saved["next"].is BY <1>1, WorksIs DEF Committing, Pruning
<1>3. InheritFits BY InvIs DEF TodoFits
<1> DEFINE T == {s \in DOMAIN InheritedName : Takes(s)}
<1>4. run.todo \in Seq(T) BY <1>3 DEF InheritFits
<1> HIDE DEF T
<1>5. Head(run.todo) \in T BY <1>4, HeadTailProperties
<1> QED BY <1>1, <1>2, <1>3, <1>5, NamesAre DEF InheritFits, T

----------------------------------------
(* What the steps do to the variables. *)

\* A record of the store whose state changes.
LEMMA StateSet ==
    ASSUME TasksType, NEW t \in Tasks, NEW x \in {"none", "queued", "active", "stopped", "failed", "succeeded"},
           rec' = [rec EXCEPT ![t].state = x]
    PROVE /\ rec' \in [Tasks -> RecType] /\ rec'[t].state = x
          /\ \A u \in Tasks : /\ rec'[u].plan = rec[u].plan /\ rec'[u].model = rec[u].model /\ rec'[u].sha = rec[u].sha
                              /\ rec'[u].pruned = rec[u].pruned /\ rec'[u].kept = rec[u].kept
                              /\ u # t => rec'[u] = rec[u] /\ rec'[u].state = rec[u].state
<1>1. rec \in [Tasks -> RecType] BY DEF TasksType
<1> DEFINE c == [rec[t] EXCEPT !.state = x]
<1>2. c \in RecType /\ c.state = x BY <1>1 DEF RecType, RecStates
<1>3. /\ c.plan = rec[t].plan /\ c.model = rec[t].model /\ c.sha = rec[t].sha
      /\ c.pruned = rec[t].pruned /\ c.kept = rec[t].kept
  BY <1>1 DEF RecType
<1> HIDE DEF c
<1>4. rec' = [rec EXCEPT ![t] = c] BY DEF c
<1> QED BY <1>1, <1>2, <1>3, <1>4

\* A file that is written, or removed.
LEMMA FileSet ==
    ASSUME TasksType, NEW t \in Tasks, NEW n \in Names, NEW x \in FileType,
           file' = [file EXCEPT ![t][n] = x]
    PROVE /\ file' \in [Tasks -> [Names -> FileType]] /\ file'[t][n] = x
          /\ \A u \in Tasks, m \in Names : u # t \/ m # n => file'[u][m] = file[u][m]
<1>1. file \in [Tasks -> [Names -> FileType]] BY DEF TasksType
<1> DEFINE c == [file[t] EXCEPT ![n] = x]
<1>2. c \in [Names -> FileType] /\ c[n] = x /\ \A m \in Names : m # n => c[m] = file[t][m] BY <1>1
<1> HIDE DEF c
<1>3. file' = [file EXCEPT ![t] = c] BY DEF c
<1> QED BY <1>1, <1>2, <1>3

\* A file that is synchronised.
LEMMA SafeSet ==
    ASSUME TasksType, NEW t \in Tasks, NEW n \in Names, NEW x \in 0..2,
           file' = [file EXCEPT ![t][n].safe = x]
    PROVE /\ file' \in [Tasks -> [Names -> FileType]]
          /\ file'[t][n].c = file[t][n].c /\ file'[t][n].safe = x /\ file'[t][n] = [c |-> file[t][n].c, safe |-> x]
          /\ \A u \in Tasks \ {t} : file'[u] = file[u]
          /\ \A m \in Names \ {n} : file'[t][m] = file[t][m]
<1>1. file[t][n] \in FileType BY DEF TasksType
<1> DEFINE y == [file[t][n] EXCEPT !.safe = x]
<1>2. y \in FileType /\ y.c = file[t][n].c /\ y.safe = x /\ y = [c |-> file[t][n].c, safe |-> x]
  BY <1>1 DEF FileType
<1>4. file' = [file EXCEPT ![t] = [file[t] EXCEPT ![n] = [file[t][n] EXCEPT !.safe = x]]] BY Zenon
<1>5. file' = [file EXCEPT ![t] = [file[t] EXCEPT ![n] = y]] BY <1>4 DEF y
<1> HIDE DEF y
<1> DEFINE c == [file[t] EXCEPT ![n] = y]
<1>6. file \in [Tasks -> [Names -> FileType]] BY DEF TasksType
<1>7. c \in [Names -> FileType] /\ c[n] = y /\ \A m \in Names : m # n => c[m] = file[t][m] BY <1>2, <1>6
<1> HIDE DEF c
<1>8. file' = [file EXCEPT ![t] = c] BY <1>5 DEF c
<1> QED BY <1>2, <1>6, <1>7, <1>8

\* A marker that is published.
LEMMA MarkSet ==
    ASSUME TasksType, NEW t \in Tasks, NEW s \in Stages, NEW x \in MarkType,
           mark' = [mark EXCEPT ![t][s] = x]
    PROVE /\ mark' \in [Tasks -> [Stages -> {None} \cup MarkType]] /\ mark'[t][s] = x
          /\ \A u \in Tasks, r \in Stages : u # t \/ r # s => mark'[u][r] = mark[u][r]
<1>1. mark \in [Tasks -> [Stages -> {None} \cup MarkType]] BY DEF TasksType
<1> DEFINE c == [mark[t] EXCEPT ![s] = x]
<1>2. c \in [Stages -> {None} \cup MarkType] /\ c[s] = x /\ \A r \in Stages : r # s => c[r] = mark[t][r]
  BY <1>1
<1> HIDE DEF c
<1>3. mark' = [mark EXCEPT ![t] = c] BY DEF c
<1> QED BY <1>1, <1>2, <1>3

\* A marker that is synchronised.
LEMMA MarkerSafe ==
    ASSUME TasksType, NEW t \in Tasks, NEW s \in Stages, mark[t][s].is,
           mark' = [mark EXCEPT ![t][s].safe = TRUE]
    PROVE /\ mark' \in [Tasks -> [Stages -> {None} \cup MarkType]]
          /\ mark'[t][s].is /\ mark'[t][s].safe /\ mark'[t][s].id = mark[t][s].id
          /\ mark'[t][s].name = mark[t][s].name /\ mark'[t][s].digest = mark[t][s].digest
          /\ \A u \in Tasks, r \in Stages : u # t \/ r # s => mark'[u][r] = mark[u][r]
<1>1. mark[t][s] \in MarkType BY TypesAre
<1> DEFINE y == [mark[t][s] EXCEPT !.safe = TRUE]
<1>2. y \in MarkType /\ y.is /\ y.safe /\ y.id = mark[t][s].id /\ y.name = mark[t][s].name /\ y.digest = mark[t][s].digest
  BY <1>1 DEF MarkType
<1>4. mark' = [mark EXCEPT ![t] = [mark[t] EXCEPT ![s] = [mark[t][s] EXCEPT !.safe = TRUE]]] BY Zenon
<1>5. mark' = [mark EXCEPT ![t] = [mark[t] EXCEPT ![s] = y]] BY <1>4 DEF y
<1> HIDE DEF y
<1> DEFINE c == [mark[t] EXCEPT ![s] = y]
<1>6. mark \in [Tasks -> [Stages -> {None} \cup MarkType]] BY DEF TasksType
<1>7. c \in [Stages -> {None} \cup MarkType] /\ c[s] = y /\ \A r \in Stages : r # s => c[r] = mark[t][r]
  BY <1>2, <1>6
<1> HIDE DEF c
<1>8. mark' = [mark EXCEPT ![t] = c] BY <1>5 DEF c
<1> QED BY <1>2, <1>6, <1>7, <1>8

\* Where the run goes.
LEMMA RunSet ==
    ASSUME TasksType
    PROVE /\ Idle \in RunType /\ Idle.pc = "idle" /\ Idle.gone = {} /\ Idle.name = "" /\ Idle.todo = <<>>
          /\ \A t \in Tasks : /\ [Idle EXCEPT !.pc = "open", !.task = t] \in RunType
                              /\ [Idle EXCEPT !.pc = "open", !.task = t].pc = "open"
                              /\ [Idle EXCEPT !.pc = "open", !.task = t].task = t
                              /\ [Idle EXCEPT !.pc = "open", !.task = t].gone = {}
                              /\ [Idle EXCEPT !.pc = "open", !.task = t].name = ""
          /\ run.todo \in Seq(Stages \cup Names) /\ run.gone \subseteq Names \X FileType /\ run.task \in Tasks
          /\ run.name \in Names \cup {""}
<1>1. Idle \in RunType /\ Idle.pc = "idle" /\ Idle.gone = {} /\ Idle.name = "" /\ Idle.todo = <<>>
  BY DEF Idle, RunType, Tasks
<1>2. ASSUME NEW t \in Tasks
      PROVE /\ [Idle EXCEPT !.pc = "open", !.task = t] \in RunType
            /\ [Idle EXCEPT !.pc = "open", !.task = t].pc = "open"
            /\ [Idle EXCEPT !.pc = "open", !.task = t].task = t
            /\ [Idle EXCEPT !.pc = "open", !.task = t].gone = {}
            /\ [Idle EXCEPT !.pc = "open", !.task = t].name = ""
  <2> DEFINE c == [Idle EXCEPT !.pc = "open", !.task = t]
  <2>1. c \in RunType BY <1>1 DEF RunType
  <2>2. c.pc = "open" /\ c.task = t /\ c.gone = {} /\ c.name = "" BY DEF Idle
  <2> QED BY <2>1, <2>2
<1>3. /\ run.todo \in Seq(Stages \cup Names) /\ run.gone \subseteq Names \X FileType /\ run.task \in Tasks
      /\ run.name \in Names \cup {""}
  BY DEF TasksType, RunType
<1> QED BY <1>1, <1>2, <1>3

CreatedModel(p) ==
    IF p.kind = "preprocess" THEN <<>> ELSE IF request.own THEN Contents("first", "model") ELSE voice
CreatedSource(t) == IF t = "first" THEN <<"source">> ELSE Contents("first", "source")

\* Its inputs are there, so a task is made; or it is booked, or fails for want of
\* them.
Make(t, p) == Prepare(t, p) /\ ~Missing(p)
Books(t) ==
    /\ t = request.task
    /\ Reserve \/ \E p \in Recipes : Prepare(t, p) /\ Missing(p) /\ request.own /\ ~Has("first", "model")
What == <<rec, file, mark, saved, voice, release, run, harmed, crashes>>
Works ==
    \/ \E t \in Tasks : Resume(t) \/ CleanUp(t)
    \/ Open \/ OpenSynced \/ Revise \/ Inherit \/ Inherited \/ Stage
    \/ SyncFile \/ SyncParents \/ PublishMarker \/ SyncMarker \/ PublishResult \/ SyncResult \/ Finish
    \/ RemoveCopy \/ CopiesGone \/ CleanedUp
    \/ Crash \/ Pause \/ (\E n \in Names : Harm(n)) \/ Republish
\* A step makes a task, books one, leaves all but a request alone, or works.
LEMMA StepsAre ==
    ASSUME TasksInv, [TasksNext]_taskVars
    PROVE  Works \/ (\E t \in Tasks, p \in Recipes : Make(t, p)) \/ (\E t \in Tasks : Books(t)) \/ UNCHANGED What
<1>1. request.task \in Tasks BY InvIs DEF RequestFits
<1>2. CASE \E t \in Tasks, p \in Recipes : Ask(t, p) BY <1>2 DEF Ask, What
<1>3. CASE \E t \in Tasks, p \in Recipes : Prepare(t, p)
  <2> PICK t \in Tasks, p \in Recipes : Prepare(t, p) BY <1>3
  <2>1. Missing(p) => request.own /\ ~Has("first", "model") BY DEF Missing
  <2>2. t = request.task BY DEF Prepare
  <2> QED BY <2>1, <2>2 DEF Make, Books
<1>4. CASE Reserve BY <1>1, <1>4 DEF Books
<1>5. CASE Rest \/ UNCHANGED taskVars BY <1>5 DEF Rest, taskVars, What
<1>6. CASE Works BY <1>6
<1> QED BY <1>2, <1>3, <1>4, <1>5, <1>6 DEF TasksNext, Works

\* When a task is made.
LEMMA MakeFits ==
    ASSUME TasksInv, NEW t \in Tasks, NEW p \in Recipes, Make(t, p)
    PROVE /\ run.pc = "idle" /\ rec[t].state = "queued" /\ ~rec[t].kept /\ Allowed(t, p)
          /\ p.kind # "preprocess" /\ request.own => t = "next" /\ Plan("first").kind = "convert" /\ Has("first", "model")
<1>1. request.pc = "reserved" /\ t = request.task /\ p = request.plan /\ ~Missing(p) BY DEF Make, Prepare
<1>2. run.pc = "idle" /\ rec[t].state = "queued" /\ Allowed(t, p) /\ (request.own => t = "next" /\ Plan("first").kind = "convert")
  BY <1>1, InvIs DEF RequestFits
<1>3. ~rec[t].kept BY <1>2, InvIs DEF TaskFits
<1> QED BY <1>1, <1>2, <1>3 DEF Missing

\* A task is made.
LEMMA MakeIs ==
    ASSUME TasksInv, NEW t \in Tasks, NEW p \in Recipes, Make(t, p)
    PROVE /\ rec' \in [Tasks -> RecType] /\ rec'[t].kept
          /\ rec'[t].state = "active" /\ rec'[t].plan = p /\ rec'[t].model = CreatedModel(p)
          /\ rec'[t].sha = rec[t].sha /\ rec'[t].pruned = rec[t].pruned
          /\ \A u \in Tasks : u # t => rec'[u] = rec[u]
          /\ file' \in [Tasks -> [Names -> FileType]]
          /\ file'[t]["model"].c = CreatedModel(p) /\ file'[t]["model"].safe = 2
          /\ file'[t]["source"].c = CreatedSource(t) /\ file'[t]["source"].safe = 2
          /\ \A u \in Tasks, n \in Names : u # t \/ n \notin {"model", "source"} => file'[u][n] = file[u][n]
          /\ run' \in RunType /\ run'.pc = "open" /\ run'.task = t /\ run'.gone = {} /\ run'.name = ""
          /\ UNCHANGED <<mark, saved, voice, release, harmed, crashes>>
<1> DEFINE m == CreatedModel(p)
           src == CreatedSource(t)
<1>0. TasksType /\ "first" \in Tasks /\ "source" \in Names /\ "model" \in Names BY InvIs DEF Tasks, Names
<1>1. m \in Audio /\ src \in Audio
  <2>1. Contents("first", "model") \in Audio /\ voice \in Audio /\ Contents("first", "source") \in Audio
    BY <1>0, TypesAre DEF TasksType
  <2> QED BY <2>1, TagsAre DEF CreatedModel, CreatedSource
<1>2. /\ request.pc = "reserved" /\ t = request.task /\ p = request.plan /\ ~Missing(p)
      /\ UNCHANGED <<mark, saved, voice, release, harmed, crashes>>
  BY DEF Make, Prepare
<1>3. /\ rec' = [rec EXCEPT ![t].state = "active", ![t].plan = p, ![t].model = m, ![t].kept = TRUE]
      /\ file' = [file EXCEPT ![t]["model"] = [c |-> m, safe |-> 2], ![t]["source"] = [c |-> src, safe |-> 2]]
      /\ run' = [Idle EXCEPT !.pc = "open", !.task = t]
  BY <1>2 DEF Make, Prepare, CreatedModel, CreatedSource, BeginTask
<1> HIDE DEF m, src
<1>4. /\ rec' \in [Tasks -> RecType]
      /\ rec'[t].state = "active" /\ rec'[t].plan = p /\ rec'[t].model = m /\ rec'[t].kept
      /\ rec'[t].sha = rec[t].sha /\ rec'[t].pruned = rec[t].pruned
      /\ \A u \in Tasks : u # t => rec'[u] = rec[u]
  <2>1. rec \in [Tasks -> RecType] BY <1>0 DEF TasksType
  <2> DEFINE c == [rec[t] EXCEPT !.state = "active", !.plan = p, !.model = m, !.kept = TRUE]
  <2>2. /\ c \in RecType /\ c.state = "active" /\ c.plan = p /\ c.model = m
        /\ c.sha = rec[t].sha /\ c.pruned = rec[t].pruned /\ c.kept
    BY <1>1, <2>1 DEF RecType, RecStates
  <2>3. rec' = [rec EXCEPT ![t] = c] BY <1>3, <2>1
  <2> HIDE DEF c
  <2> QED BY <2>1, <2>2, <2>3
<1>5. /\ file' \in [Tasks -> [Names -> FileType]]
      /\ file'[t]["model"].c = m /\ file'[t]["model"].safe = 2
      /\ file'[t]["source"].c = src /\ file'[t]["source"].safe = 2
      /\ \A u \in Tasks, n \in Names : u # t \/ n \notin {"model", "source"} => file'[u][n] = file[u][n]
  <2>1. file \in [Tasks -> [Names -> FileType]] BY <1>0 DEF TasksType
  <2> DEFINE x == [c |-> m, safe |-> 2]
             y == [c |-> src, safe |-> 2]
             d == [file[t] EXCEPT !["model"] = x, !["source"] = y]
  <2>2. x \in FileType /\ y \in FileType BY <1>1 DEF FileType
  <2>3. file' = [file EXCEPT ![t]["model"] = x, ![t]["source"] = y] BY <1>3
  <2> HIDE DEF x, y
  <2>4. /\ d \in [Names -> FileType] /\ d["model"] = x /\ d["source"] = y
        /\ \A n \in Names : n \notin {"model", "source"} => d[n] = file[t][n]
    BY <2>1, <2>2, <1>0
  <2>5. file' = [file EXCEPT ![t] = d] BY <2>1, <2>3
  <2> HIDE DEF d
  <2>6. /\ file' \in [Tasks -> [Names -> FileType]] /\ file'[t]["model"] = x /\ file'[t]["source"] = y
        /\ \A u \in Tasks, n \in Names : u # t \/ n \notin {"model", "source"} => file'[u][n] = file[u][n]
    BY <2>1, <2>4, <2>5
  <2> QED BY <2>6 DEF x, y
<1>6. run' \in RunType /\ run'.pc = "open" /\ run'.task = t /\ run'.gone = {} /\ run'.name = ""
  BY <1>0, <1>3, RunSet
<1> QED BY <1>2, <1>4, <1>5, <1>6 DEF m, src

\* A task is booked, or fails for want of its inputs.
LEMMA BookIs ==
    ASSUME TasksInv, NEW t \in Tasks, Books(t)
    PROVE /\ run.pc = "idle" /\ ~rec[t].kept /\ rec[t].state \in {"none", "queued"}
          /\ \E x \in {"queued", "failed"} : rec' = [rec EXCEPT ![t].state = x]
          /\ run' \in RunType /\ run'.pc = "idle" /\ run'.gone = {} /\ run'.name \notin {"model", "result"}
          /\ UNCHANGED <<file, mark, saved, voice, release, harmed, crashes>>
<1>1. TasksType /\ RunFits /\ RequestFits /\ TaskFits(t) BY InvIs
<1>2. /\ Idle \in RunType /\ Idle.pc = "idle" /\ Idle.gone = {} /\ Idle.name = ""
      /\ run \in RunType /\ run.name \notin {"model", "result"} /\ (run.pc = "idle" => run.gone = {})
  BY <1>1, RunSet DEF RunFits, TasksType
<1>3. CASE Reserve
  <2>1. /\ run.pc = "idle" /\ rec[t].state = "none" /\ rec' = [rec EXCEPT ![t].state = "queued"]
        /\ UNCHANGED <<file, mark, saved, voice, release, run, harmed, crashes>>
    BY <1>3 DEF Books, Reserve
  <2>2. ~rec[t].kept BY <1>1, <2>1 DEF TaskFits
  <2> QED BY <1>2, <2>1, <2>2
<1>4. CASE ~Reserve
  <2>1. PICK p \in Recipes : Prepare(t, p) /\ Missing(p) BY <1>4 DEF Books
  <2>2. /\ request.pc = "reserved" /\ t = request.task /\ rec' = [rec EXCEPT ![t].state = "failed"] /\ run' = Idle
        /\ UNCHANGED <<file, mark, saved, voice, release, harmed, crashes>>
    BY <2>1 DEF Prepare, Fail
  <2>3. run.pc = "idle" /\ rec[t].state = "queued" BY <1>1, <2>1, <2>2 DEF RequestFits
  <2>4. ~rec[t].kept BY <1>1, <2>3 DEF TaskFits
  <2> QED BY <1>2, <2>1, <2>2, <2>3, <2>4
<1> QED BY <1>3, <1>4

\* Why it fails.
LEMMA MissIs ==
    ASSUME TasksInv, NEW t \in Tasks, Books(t), ~Reserve
    PROVE run.pc = "idle" /\ request.pc = "reserved" /\ request.own /\ ~Has("first", "model")
  BY InvIs DEF Books, Prepare, RequestFits

\* A task is resumed.
LEMMA ResumeIs ==
    ASSUME TasksInv, NEW t \in Tasks, Resume(t)
    PROVE /\ run.pc = "idle" /\ rec[t].state = "stopped" /\ rec[t].kept
          /\ rec' = [rec EXCEPT ![t].state = "active"]
          /\ run' \in RunType /\ run'.pc = "open" /\ run'.task = t /\ run'.gone = {} /\ run'.name = ""
          /\ UNCHANGED <<file, mark, saved, voice, release, harmed, crashes>>
  BY InvIs, RunSet DEF Resume, BeginTask, Free

\* The task that runs fails.
LEMMA FailIs ==
    ASSUME TasksInv, Fail(run.task), run.pc \notin {"idle"} \cup Pruning
    PROVE /\ run.task \in Tasks /\ rec[run.task].state = "active"
          /\ rec' = [rec EXCEPT ![run.task].state = "failed"] /\ run' = Idle
<1>1. run.task \in Tasks BY InvIs, RunSet
<1>2. rec[run.task].state = "active" BY <1>1, InvIs DEF RunFits
<1> QED BY <1>1, <1>2 DEF Fail

\* A directory is opened.
LEMMA OpenIs ==
    ASSUME TasksInv, Open
    PROVE /\ run.pc = "open" /\ run.task \in Tasks /\ rec[run.task].state = "active"
          /\ UNCHANGED <<file, mark, voice, release, harmed, crashes>>
          /\ \/ Fail(run.task) /\ UNCHANGED saved /\ ~OpenedAs(run.task, Contents(run.task, "model")).is
             \/ /\ UNCHANGED rec
                /\ run' \in RunType /\ run'.pc = "opened" /\ run'.task = run.task /\ run'.name = run.name
                /\ run'.gone = run.gone /\ run'.id = OpenedAs(run.task, Contents(run.task, "model"))
                /\ run'.id \in IdType /\ run'.id.plan = Plan(run.task)
                /\ run'.id.source = Contents(run.task, "source")
                /\ run'.id.model = IF Plan(run.task).kind = "preprocess" THEN <<>> ELSE Contents(run.task, "model")
                /\ saved' \in [Tasks -> {None} \cup SavedType]
                /\ saved'[run.task].is /\ saved'[run.task].id = run'.id
                /\ saved[run.task].is => saved' = saved
                /\ \A u \in Tasks : u # run.task => saved'[u] = saved[u]
<1> DEFINE t == run.task
           id == OpenedAs(run.task, Contents(run.task, "model"))
<1>1. TasksType /\ t \in Tasks /\ run.pc = "open" /\ UNCHANGED <<file, mark, voice, release, harmed, crashes>>
  BY InvIs, RunSet DEF Open
<1>2. rec[t].state = "active" BY <1>1, InvIs DEF RunFits, Pruning
<1>3. Contents(t, "model") \in Audio BY <1>1, TypesAre, NamesAre
<1>4. /\ id.is => /\ id \in IdType /\ id.plan = Plan(t) /\ id.source = Contents(t, "source")
                  /\ id.model = IF Plan(t).kind = "preprocess" THEN <<>> ELSE Contents(t, "model")
                  /\ saved[t].is => id = saved[t].id
  BY <1>1, <1>3, OpenedIs
<1>5. \/ ~id.is /\ Fail(t) /\ UNCHANGED saved
      \/ /\ id.is /\ UNCHANGED rec
         /\ saved' = [saved EXCEPT ![t] = IF @.is THEN @ ELSE [is |-> TRUE, id |-> id, safe |-> FALSE]]
         /\ run' = [run EXCEPT !.pc = "opened", !.id = id]
  BY DEF Open
<1> HIDE DEF id
<1>6. CASE ~id.is /\ Fail(t) /\ UNCHANGED saved BY <1>1, <1>2, <1>6 DEF id
<1>7. CASE /\ id.is /\ UNCHANGED rec
           /\ saved' = [saved EXCEPT ![t] = IF @.is THEN @ ELSE [is |-> TRUE, id |-> id, safe |-> FALSE]]
           /\ run' = [run EXCEPT !.pc = "opened", !.id = id]
  <2>1. saved \in [Tasks -> {None} \cup SavedType] /\ run \in RunType BY <1>1 DEF TasksType
  <2> DEFINE x == IF saved[t].is THEN saved[t] ELSE [is |-> TRUE, id |-> id, safe |-> FALSE]
  <2>2. x \in SavedType /\ x.is /\ x.id = id /\ (saved[t].is => x = saved[t])
    <3>1. CASE saved[t].is BY <3>1, <1>1, <1>4, <1>7, TypesAre
    <3>2. CASE ~saved[t].is BY <3>2, <1>4, <1>7 DEF SavedType
    <3> QED BY <3>1, <3>2
  <2>3. saved' = [saved EXCEPT ![t] = x] BY <1>7
  <2> HIDE DEF x
  <2>4. /\ saved' \in [Tasks -> {None} \cup SavedType] /\ saved'[t].is /\ saved'[t].id = id
        /\ saved[t].is => saved' = saved
        /\ \A u \in Tasks : u # t => saved'[u] = saved[u]
    BY <2>1, <2>2, <2>3, <1>1
  <2>5. /\ run' \in RunType /\ run'.pc = "opened" /\ run'.task = t /\ run'.name = run.name
        /\ run'.gone = run.gone /\ run'.id = id
    BY <2>1, <1>4, <1>7 DEF RunType
  <2> QED BY <1>1, <1>2, <1>4, <1>7, <2>4, <2>5 DEF id
<1> QED BY <1>5, <1>6, <1>7

\* Its identity is durable.
LEMMA OpenSyncedIs ==
    ASSUME TasksInv, OpenSynced
    PROVE /\ run.pc = "opened" /\ run.task \in Tasks /\ saved[run.task].is
          /\ saved' \in [Tasks -> {None} \cup SavedType]
          /\ saved'[run.task].is /\ saved'[run.task].safe /\ saved'[run.task].id = saved[run.task].id
          /\ \A u \in Tasks : u # run.task => saved'[u] = saved[u]
          /\ run' \in RunType /\ run'.task = run.task /\ run'.id = run.id /\ run'.gone = run.gone /\ run'.name = run.name
          /\ \/ run'.pc = "revise" /\ run.task = "next" /\ run'.todo = <<>>
             \/ run'.pc = "stages" /\ run'.todo = StageOrder(Plan(run.task))
          /\ UNCHANGED <<rec, file, mark, voice, release, harmed, crashes>>
<1>1. /\ run.pc = "opened" /\ run.task \in Tasks /\ saved[run.task].is /\ TasksType /\ Plan(run.task) \in Recipes
  BY InvIs, WorksIs DEF OpenSynced, Pruning
<1>2. saved \in [Tasks -> {None} \cup SavedType] /\ run \in RunType BY <1>1 DEF TasksType
<1>3. saved[run.task] \in SavedType BY <1>1, TypesAre
<1> DEFINE x == [saved[run.task] EXCEPT !.safe = TRUE]
<1>4. x \in SavedType /\ x.is /\ x.safe /\ x.id = saved[run.task].id BY <1>3 DEF SavedType
<1>5. saved' = [saved EXCEPT ![run.task] = x] BY <1>2 DEF OpenSynced
<1> HIDE DEF x
<1>6. /\ saved' \in [Tasks -> {None} \cup SavedType]
      /\ saved'[run.task].is /\ saved'[run.task].safe /\ saved'[run.task].id = saved[run.task].id
      /\ \A u \in Tasks : u # run.task => saved'[u] = saved[u]
  BY <1>1, <1>2, <1>4, <1>5
<1> DEFINE b == run.task = "next" /\ ~rec[run.task].ready
           pc == IF b THEN "revise" ELSE "stages"
           todo == IF b THEN <<>> ELSE StageOrder(Plan(run.task))
<1>7. run' = [run EXCEPT !.pc = pc, !.todo = todo] BY DEF OpenSynced
<1>8. todo \in Seq(Stages \cup Names) /\ pc \in {"revise", "stages"}
  <2>1. StageOrder(Plan(run.task)) \in Seq(Stages) BY <1>1, StagesAre
  <2>2. StageOrder(Plan(run.task)) \in Seq(Stages \cup Names) BY <2>1
  <2> QED BY <2>2
<1>9. \/ pc = "revise" /\ run.task = "next" /\ todo = <<>>
      \/ pc = "stages" /\ todo = StageOrder(Plan(run.task))
  OBVIOUS
<1> HIDE DEF pc, todo
<1>10. /\ run' \in RunType /\ run'.task = run.task /\ run'.id = run.id /\ run'.gone = run.gone /\ run'.name = run.name
       /\ run'.pc = pc /\ run'.todo = todo
  BY <1>2, <1>7, <1>8 DEF RunType
<1> QED BY <1>1, <1>6, <1>9, <1>10 DEF OpenSynced

\* The first task is verified before anything is taken from it.
LEMMA ReviseIs ==
    ASSUME TasksInv, Revise
    PROVE /\ run.pc = "revise" /\ run.task = "next" /\ UNCHANGED <<file, mark, saved, voice, release, harmed, crashes>>
          /\ \/ /\ Fail(run.task)
                /\ \/ ~saved["first"].is
                   \/ ~OpenedAs("first", Resolved("first")).is
                   \/ Contents("next", "source") # Contents("first", "source")
             \/ /\ UNCHANGED rec
                /\ run' \in RunType /\ run'.pc = "inherit" /\ run'.task = run.task /\ run'.id = run.id
                /\ run'.gone = run.gone /\ run'.name = run.name
                /\ saved["next"].id.source = saved["first"].id.source
                /\ run'.todo \in Seq({s \in DOMAIN InheritedName : Takes(s)})
<1> DEFINE p == Plan("next")
           q == Plan("first")
           id == OpenedAs("first", Resolved("first"))
           one == IF p.song /\ q.song THEN <<"separation">> ELSE <<>>
           two == IF SameCleanup(p, q) THEN <<"cleanup">> ELSE <<>>
           three == IF SameConversion(p, q) THEN <<"conversion">> ELSE <<>>
           T == {s \in DOMAIN InheritedName : Takes(s)}
<1>1. /\ run.pc = "revise" /\ UNCHANGED <<file, mark, saved, voice, release, harmed, crashes>>
      /\ IF saved["first"].is /\ id.is /\ Contents("next", "source") = Contents("first", "source")
         THEN run' = [run EXCEPT !.pc = "inherit", !.todo = one \o two \o three] /\ UNCHANGED rec
         ELSE Fail("next")
  BY DEF Revise
<1>2. run.task = "next" BY <1>1, InvIs DEF RunFits
<1>3. CASE ~(saved["first"].is /\ id.is /\ Contents("next", "source") = Contents("first", "source"))
  BY <1>1, <1>2, <1>3
<1>4. CASE saved["first"].is /\ id.is /\ Contents("next", "source") = Contents("first", "source")
  <2>1. /\ saved["next"].is /\ Contents("next", "source") = saved["next"].id.source
        /\ p.kind # "preprocess" => Contents("next", "model") = saved["next"].id.model
    BY <1>1, <1>2, WorksIs DEF Pruning
  <2>2. TasksType /\ "first" \in Tasks /\ Resolved("first") \in Audio BY InvIs, TypesAre DEF Tasks
  <2>3. /\ id = saved["first"].id /\ id.source = Contents("first", "source")
        /\ q.kind # "preprocess" => id.model = Resolved("first")
    BY <1>4, <2>2, OpenedIs
  <2>4. saved["next"].id.source = saved["first"].id.source BY <1>4, <2>1, <2>3
  <2>5. /\ p.song /\ q.song => Takes("separation")
        /\ SameCleanup(p, q) => Takes("cleanup")
        /\ SameConversion(p, q) => Takes("conversion")
    BY <2>1, <2>3 DEF Takes, SameConversion
  <2>6. "separation" \in DOMAIN InheritedName /\ "cleanup" \in DOMAIN InheritedName /\ "conversion" \in DOMAIN InheritedName
    BY Named
  <2>7. one \in Seq(T) /\ two \in Seq(T) /\ three \in Seq(T)
    <3>1. p.song /\ q.song => <<"separation">> \in Seq(T) BY <2>5, <2>6
    <3>2. SameCleanup(p, q) => <<"cleanup">> \in Seq(T) BY <2>5, <2>6
    <3>3. SameConversion(p, q) => <<"conversion">> \in Seq(T) BY <2>5, <2>6
    <3>4. <<>> \in Seq(T) OBVIOUS
    <3> QED BY <3>1, <3>2, <3>3, <3>4
  <2> DEFINE todo == one \o two \o three
  <2>8. run' = [run EXCEPT !.pc = "inherit", !.todo = todo] /\ UNCHANGED rec BY <1>1, <1>4
  <2> HIDE DEF one, two, three, T
  <2>9. one \o two \in Seq(T) BY <2>7, ConcatProperties
  <2>10. todo \in Seq(T) BY <2>7, <2>9, ConcatProperties
  <2>11. T \subseteq Stages \cup Names BY NamesAre DEF T
  <2> HIDE DEF todo
  <2>12. todo \in Seq(Stages \cup Names) BY <2>10, <2>11
  <2>13. run \in RunType BY <2>2 DEF TasksType
  <2>14. /\ run' \in RunType /\ run'.pc = "inherit" /\ run'.task = run.task /\ run'.id = run.id
         /\ run'.gone = run.gone /\ run'.name = run.name /\ run'.todo = todo
    BY <2>8, <2>12, <2>13 DEF RunType
  <2> QED BY <1>1, <1>2, <2>4, <2>8, <2>10, <2>14 DEF T
<1> QED BY <1>3, <1>4

\* The step of a stage that has to be computed or taken over: the file is
\* there, under a name of its own, and holds what the stage stands for.
Placed(t, s) ==
    /\ UNCHANGED rec
    /\ run' \in RunType /\ run'.pc = "computed" /\ run'.task = run.task /\ run'.todo = run.todo /\ run'.id = run.id
    /\ run'.gone = run.gone /\ run'.ret = run.pc
    /\ ~mark[t][s].is /\ NameFits(t, s, run'.name) /\ run'.name \in Names
    /\ file' \in [Tasks -> [Names -> FileType]] /\ file'[t][run'.name].c = OwnAudio(t, s)
    /\ \A u \in Tasks, n \in Names : u # t \/ n # run'.name \/ run'.name = "source" => file'[u][n] = file[u][n]
\* The step of a stage there is nothing to do for.
Skipped(t, s) ==
    /\ UNCHANGED <<rec, file>>
    /\ run' \in RunType /\ run'.pc = run.pc /\ run'.task = run.task /\ run'.todo = Tail(run.todo) /\ run'.id = run.id
    /\ run'.gone = run.gone /\ run'.name = run.name
    /\ run.pc = "stages" => s = "baseline" \/ Reused(t, s)

\* The run after a file was placed.
LEMMA RunPlaced ==
    ASSUME run \in RunType, NEW pc \in {"stages", "inherit"}, NEW n \in Names,
           run' = [run EXCEPT !.pc = "computed", !.ret = pc, !.name = n]
    PROVE /\ run' \in RunType /\ run'.pc = "computed" /\ run'.task = run.task /\ run'.todo = run.todo /\ run'.id = run.id
          /\ run'.gone = run.gone /\ run'.ret = pc /\ run'.name = n
  BY DEF RunType, Committing

\* What places a file, as Inherit and Stage do, is Placed.
LEMMA PlacedIs ==
    ASSUME TasksInv, run.pc \in {"stages", "inherit"}, NEW s \in Stages, NEW n \in Names, NameFits(run.task, s, n),
           NEW x \in {0, 1}, ~mark[run.task][s].is, UNCHANGED rec,
           run' = [run EXCEPT !.pc = "computed", !.ret = run.pc, !.name = n],
           \/ n = "source" /\ UNCHANGED file /\ Contents(run.task, n) = OwnAudio(run.task, s)
           \/ n # "source" /\ Put(run.task, n, OwnAudio(run.task, s), x)
    PROVE Placed(run.task, s)
<1>1. TasksType /\ run \in RunType /\ run.task \in Tasks BY InvIs, RunSet DEF TasksType
<1>2. /\ run' \in RunType /\ run'.pc = "computed" /\ run'.task = run.task /\ run'.todo = run.todo /\ run'.id = run.id
      /\ run'.gone = run.gone /\ run'.ret = run.pc /\ run'.name = n
  BY <1>1, RunPlaced
<1>3. CASE n = "source" /\ UNCHANGED file /\ Contents(run.task, n) = OwnAudio(run.task, s)
  <2>1. file' \in [Tasks -> [Names -> FileType]] BY <1>1, <1>3 DEF TasksType
  <2> QED BY <1>1, <1>2, <1>3, <2>1 DEF Placed, Contents
<1>4. CASE n # "source" /\ Put(run.task, n, OwnAudio(run.task, s), x)
  <2>1. saved[run.task].is /\ saved["first"].is BY WorksIs DEF Pruning
  <2>2. OwnAudio(run.task, s) \in Audio BY <1>1, <2>1, OwnAudioIs
  <2> DEFINE y == [c |-> OwnAudio(run.task, s), safe |-> x]
  <2>3. y \in FileType /\ y.c = OwnAudio(run.task, s) BY <2>2 DEF FileType
  <2>4. file' = [file EXCEPT ![run.task][n] = y] BY <1>4 DEF Put
  <2> HIDE DEF y
  <2>5. /\ file' \in [Tasks -> [Names -> FileType]] /\ file'[run.task][n] = y
        /\ \A u \in Tasks, m \in Names : u # run.task \/ m # n => file'[u][m] = file[u][m]
    BY <1>1, <2>3, <2>4, FileSet
  <2> QED BY <1>1, <1>2, <1>4, <2>3, <2>5 DEF Placed
<1> QED BY <1>3, <1>4

\* What passes a stage over, as Inherit and Stage do, is Skipped.
LEMMA SkippedIs ==
    ASSUME TasksInv, run.pc \in {"stages", "inherit"}, run.todo # <<>>, NEW s,
           run' = [run EXCEPT !.todo = Tail(@)], UNCHANGED <<rec, file>>,
           run.pc = "stages" => s = "baseline" \/ Reused(run.task, s)
    PROVE Skipped(run.task, s)
<1>1. run \in RunType BY InvIs DEF TasksType
<1>2. Tail(run.todo) \in Seq(Stages \cup Names) BY TodoIs
<1>3. /\ run' \in RunType /\ run'.pc = run.pc /\ run'.task = run.task /\ run'.todo = Tail(run.todo) /\ run'.id = run.id
      /\ run'.gone = run.gone /\ run'.name = run.name
  BY <1>1, <1>2 DEF RunType
<1> QED BY <1>3 DEF Skipped

\* Inherit fails, skips the stage or places its file.
LEMMA InheritStep ==
    ASSUME TasksInv, Inherit
    PROVE LET s == Head(run.todo)
              from == InheritFrom(s, saved["first"].id)
          IN /\ run.pc = "inherit" /\ run.todo # <<>> /\ run.task = "next" /\ s \in Stages
             /\ UNCHANGED <<mark, saved, voice, release, harmed, crashes>>
             /\ \/ /\ Fail(run.task) /\ UNCHANGED file
                   /\ from = "bad" \/ Completed("next", s, run.id) = "bad"
                \/ Skipped(run.task, s)
                \/ Placed(run.task, s)
<1> DEFINE s == Head(run.todo)
           from == InheritFrom(s, saved["first"].id)
           mine == Completed("next", s, run.id)
<1>1. /\ run.pc = "inherit" /\ run.todo # <<>> /\ UNCHANGED <<mark, saved, voice, release, harmed, crashes>>
      /\ IF from = "bad" \/ (from # "none" /\ mine = "bad") THEN Fail("next") /\ UNCHANGED file
         ELSE IF from = "none" \/ mine = "ok"
         THEN run' = [run EXCEPT !.todo = Tail(@)] /\ UNCHANGED <<rec, file>>
         ELSE /\ IF from = "source" THEN UNCHANGED file
                 ELSE Put("next", InheritedName[s], Contents("first", from), 1)
              /\ run' = [run EXCEPT !.pc = "computed", !.ret = "inherit",
                                    !.name = IF from = "source" THEN "source" ELSE InheritedName[s]]
              /\ UNCHANGED rec
  BY DEF Inherit
<1>2. /\ run.task = "next" /\ s \in DOMAIN InheritedName /\ s \in Stages
      /\ Takes(s) /\ saved["next"].is /\ saved["next"].id.source = saved["first"].id.source
  BY <1>1, InheritsIs
<1> HIDE DEF s, from, mine
<1>3. CASE from = "bad" \/ (from # "none" /\ mine = "bad") BY <1>1, <1>2, <1>3 DEF s, from, mine
<1>4. CASE (from \notin {"bad", "none"} /\ mine = "ok") \/ from = "none"
  <2>1. run' = [run EXCEPT !.todo = Tail(@)] /\ UNCHANGED <<rec, file>> BY <1>1, <1>4
  <2>2. Skipped(run.task, s) BY <1>1, <2>1, SkippedIs
  <2> QED BY <1>1, <1>2, <2>2 DEF s
<1>5. CASE from \notin {"bad", "none"} /\ mine \notin {"ok", "bad"}
  <2>1. /\ from \in Names /\ Contents("first", from) = OwnAudio("next", s)
        /\ from = "source" => s = "cleanup" /\ ~Cleans(Plan("next"))
    BY <1>2, <1>5, InheritIs DEF from
  <2>2. ~mark["next"][s].is
    <3>1. mine = "none" BY <1>2, <1>5, CompletedIs DEF mine, Tasks
    <3> QED BY <1>2, <3>1, CompletedIs DEF mine, Tasks
  <2> DEFINE n == IF from = "source" THEN "source" ELSE InheritedName[s]
  <2>3. /\ run' = [run EXCEPT !.pc = "computed", !.ret = run.pc, !.name = n] /\ UNCHANGED rec
        /\ IF from = "source" THEN UNCHANGED file ELSE Put("next", InheritedName[s], Contents("first", from), 1)
    BY <1>1, <1>5
  <2>4. n \in Names /\ NameFits("next", s, n) BY <1>2, <2>1, NamesAre DEF NameFits
  <2>5. /\ from = "source" => n = "source"
        /\ from # "source" => n = InheritedName[s] /\ n # "source"
    BY <1>2, Named DEF Stages
  <2>6. from = "source" => Contents("next", "source") = OwnAudio("next", s)
    <3> SUFFICES ASSUME from = "source" PROVE Contents("next", "source") = OwnAudio("next", s) OBVIOUS
    <3>1. s = "cleanup" /\ ~Cleans(Plan("next")) BY <2>1
    <3>2. Contents("next", "source") = saved["next"].id.source BY <1>1, <1>2, WorksIs DEF Pruning
    <3>3. OwnAudio("next", s) = LeadOf(Plan("next"), saved["next"].id.source) BY <3>1 DEF OwnAudio
    <3> QED BY <3>1, <3>2, <3>3 DEF LeadOf, Cleaned, Cleans
  <2> HIDE DEF n
  <2>7. Placed("next", s) BY <1>1, <1>2, <2>1, <2>2, <2>3, <2>4, <2>5, <2>6, PlacedIs, ZenonT(60)
  <2> QED BY <1>1, <1>2, <2>7 DEF s
<1> QED BY <1>3, <1>4, <1>5

\* Stage fails, skips the stage or places its file.
LEMMA StageStep ==
    ASSUME TasksInv, Stage
    PROVE LET s == Head(run.todo)
          IN /\ run.pc = "stages" /\ run.todo # <<>> /\ s \in Stages
             /\ UNCHANGED <<mark, saved, voice, release, harmed, crashes>>
             /\ \/ /\ Fail(run.task) /\ UNCHANGED file
                   /\ \/ Completed(run.task, s, run.id) = "bad" \/ (s = "baseline" /\ Baseline = "bad")
                      \/ s = "conversion" /\ Plan(run.task).kind = "preview" /\ ~SeedFits
                \/ Skipped(run.task, s)
                \/ Placed(run.task, s)
<1> DEFINE t == run.task
           s == Head(run.todo)
           how == Completed(t, s, run.id)
           skip == s = "baseline" /\ Completed(t, "conversion", run.id) = "ok"
           asIs == s = "cleanup" /\ ~Cleans(Plan(t))
           fails == \/ how = "bad" \/ (s = "baseline" /\ ~skip /\ Baseline = "bad")
                    \/ s = "conversion" /\ Plan(t).kind = "preview" /\ how = "none" /\ ~SeedFits
<1>1. /\ run.pc = "stages" /\ run.todo # <<>> /\ UNCHANGED <<mark, saved, voice, release, harmed, crashes>>
      /\ IF fails THEN Fail(t) /\ UNCHANGED file
         ELSE IF how = "ok" \/ skip THEN run' = [run EXCEPT !.todo = Tail(@)] /\ UNCHANGED <<rec, file>>
         ELSE /\ IF asIs THEN UNCHANGED file ELSE Put(t, OutputName[s], Compute(t, s), 0)
              /\ run' = [run EXCEPT !.pc = "computed", !.ret = "stages",
                                    !.name = IF asIs THEN "source" ELSE OutputName[s]]
              /\ UNCHANGED rec
  BY DEF Stage
<1>2. /\ t \in Tasks /\ s \in Stages /\ saved[t].is /\ Contents(t, "source") = saved[t].id.source
  BY <1>1, WorksIs, StageIs DEF Pruning
<1>3. /\ how \in {"none", "ok", "bad"} /\ (how = "none" <=> ~mark[t][s].is) /\ (how = "ok" => Reused(t, s))
  BY <1>2, CompletedIs
<1> HIDE DEF how, skip, asIs, fails
<1>4. CASE fails BY <1>1, <1>2, <1>4 DEF how, fails
<1>5. CASE ~fails /\ (how = "ok" \/ skip)
  <2>1. run' = [run EXCEPT !.todo = Tail(@)] /\ UNCHANGED <<rec, file>> BY <1>1, <1>5
  <2>2. s = "baseline" \/ Reused(t, s) BY <1>3, <1>5 DEF skip
  <2>3. Skipped(t, s) BY <1>1, <2>1, <2>2, SkippedIs
  <2> QED BY <1>1, <1>2, <2>3
<1>6. CASE ~fails /\ ~(how = "ok" \/ skip)
  <2> DEFINE n == IF asIs THEN "source" ELSE OutputName[s]
  <2>1. /\ run' = [run EXCEPT !.pc = "computed", !.ret = run.pc, !.name = n] /\ UNCHANGED rec
        /\ IF asIs THEN UNCHANGED file ELSE Put(t, OutputName[s], Compute(t, s), 0)
    BY <1>1, <1>6
  <2>2. n \in Names /\ NameFits(t, s, n) BY <1>2, NamesAre DEF NameFits, asIs
  <2>3. /\ asIs => n = "source"
        /\ ~asIs => n = OutputName[s] /\ n # "source"
    BY <1>2, Named DEF Stages
  <2>4. asIs => Contents(t, "source") = OwnAudio(t, s)
    <3> SUFFICES ASSUME asIs PROVE Contents(t, "source") = OwnAudio(t, s) OBVIOUS
    <3>1. OwnAudio(t, s) = LeadOf(Plan(t), saved[t].id.source) /\ ~Cleans(Plan(t)) BY DEF OwnAudio, asIs
    <3> QED BY <1>2, <3>1 DEF LeadOf, Cleaned, Cleans
  <2>5. ~asIs => Compute(t, s) = OwnAudio(t, s) BY <1>1, <1>6, ComputeIs DEF fails
  <2>6. ~mark[t][s].is BY <1>3, <1>6 DEF fails
  <2> HIDE DEF n
  <2>7. Placed(t, s) BY <1>1, <1>2, <2>1, <2>2, <2>3, <2>4, <2>5, <2>6, PlacedIs, ZenonT(60)
  <2> QED BY <1>1, <1>2, <2>7
<1> QED BY <1>4, <1>5, <1>6

\* Everything that applies has been taken over.
LEMMA InheritedStep ==
    ASSUME TasksInv, Inherited
    PROVE /\ run.pc = "inherit" /\ run.task = "next" /\ "next" \in Tasks
          /\ rec' \in [Tasks -> RecType] /\ rec'["first"] = rec["first"]
          /\ rec'["next"].state = rec["next"].state /\ rec'["next"].plan = rec["next"].plan
          /\ rec'["next"].model = rec["next"].model /\ rec'["next"].sha = rec["next"].sha
          /\ rec'["next"].pruned = rec["next"].pruned /\ rec'["next"].kept = rec["next"].kept
          /\ run' \in RunType /\ run'.pc = "stages" /\ run'.task = run.task /\ run'.id = run.id /\ run'.gone = run.gone
          /\ run'.name = run.name /\ run'.todo = StageOrder(Plan("next"))
          /\ UNCHANGED <<file, mark, saved, voice, release, harmed, crashes>>
<1>1. run.pc = "inherit" /\ run.task = "next" /\ TasksType /\ Plan("next") \in Recipes
  BY InvIs, TypesAre DEF Inherited, RunFits, Tasks
<1>2. rec \in [Tasks -> RecType] /\ run \in RunType BY <1>1 DEF TasksType
<1> DEFINE c == [rec["next"] EXCEPT !.ready = TRUE]
           todo == StageOrder(Plan("next"))
<1>3. /\ c \in RecType /\ c.state = rec["next"].state /\ c.plan = rec["next"].plan
      /\ c.model = rec["next"].model /\ c.sha = rec["next"].sha /\ c.pruned = rec["next"].pruned /\ c.kept = rec["next"].kept
  BY <1>2 DEF RecType, Tasks
<1>4. rec' = [rec EXCEPT !["next"] = c] /\ run' = [run EXCEPT !.pc = "stages", !.todo = todo] BY DEF Inherited
<1>5. todo \in Seq(Stages \cup Names)
  <2>1. todo \in Seq(Stages) BY <1>1, StagesAre
  <2> QED BY <2>1
<1> HIDE DEF c, todo
<1>6. /\ rec' \in [Tasks -> RecType] /\ rec'["first"] = rec["first"] /\ rec'["next"] = c
  BY <1>2, <1>3, <1>4 DEF Tasks
<1>7. /\ run' \in RunType /\ run'.pc = "stages" /\ run'.task = run.task /\ run'.id = run.id /\ run'.gone = run.gone
      /\ run'.name = run.name /\ run'.todo = todo
  BY <1>2, <1>4, <1>5 DEF RunType
<1> QED BY <1>1, <1>3, <1>6, <1>7 DEF Inherited, Tasks, todo

\* A step of the run that changes its place only.
LEMMA PlaceSet ==
    ASSUME run \in RunType,
           NEW pc \in {"idle", "open", "opened", "revise", "inherit", "stages"} \cup Committing \cup Ending \cup Pruning,
           run' = [run EXCEPT !.pc = pc]
    PROVE /\ run' \in RunType /\ run'.pc = pc /\ run'.task = run.task /\ run'.todo = run.todo /\ run'.id = run.id
          /\ run'.name = run.name /\ run'.ret = run.ret /\ run'.gone = run.gone
  BY DEF RunType

\* What is committed has a name of its own.
LEMMA CommitsIs ==
    ASSUME TasksInv, run.pc \in Committing
    PROVE /\ run.task \in Tasks /\ run.todo # <<>> /\ Head(run.todo) \in Stages /\ CommitFits(run.task, Head(run.todo))
          /\ run.name \in Names /\ NameFits(run.task, Head(run.todo), run.name)
          /\ rec[run.task].state = "active" /\ saved[run.task].is /\ saved[run.task].safe /\ run.id = saved[run.task].id
          /\ run.id \in IdType
<1>1. /\ run.task \in Tasks /\ rec[run.task].state = "active" /\ saved[run.task].is /\ saved[run.task].safe
      /\ run.id = saved[run.task].id
  BY WorksIs DEF Committing, Pruning
<1>2. run.todo # <<>> /\ CommitFits(run.task, Head(run.todo)) /\ run.ret \in {"stages", "inherit"}
  BY InvIs DEF TodoFits, RunFits
<1>3. Head(run.todo) \in Stages BY <1>2, StageIs, InheritsIs
<1>4. NameFits(run.task, Head(run.todo), run.name) BY <1>2 DEF CommitFits
<1>5. run.id \in IdType BY <1>1, InvIs, TypesAre
<1> QED BY <1>1, <1>2, <1>3, <1>4, <1>5, KeepsApart

\* The file that is synchronised next.
Syncing == IF run.pc = "published" THEN "result" ELSE run.name
\* A file is synchronised, by any of the three steps that do it.
LEMMA SyncStep ==
    ASSUME TasksInv, SyncFile \/ SyncParents \/ SyncResult
    PROVE /\ run.pc \in {"computed", "synced", "published"} /\ run.task \in Tasks /\ Syncing \in Names
          /\ run' \in RunType /\ run'.task = run.task /\ run'.todo = run.todo /\ run'.id = run.id
          /\ run'.name = run.name /\ run'.ret = run.ret /\ run'.gone = run.gone
          /\ run.pc = "computed" => run'.pc = "synced" /\ file'[run.task][Syncing].safe \in {1, 2}
          /\ run.pc = "synced" => run'.pc = "placed" /\ file'[run.task][Syncing].safe = 2
          /\ run.pc = "published" => run'.pc = "finish" /\ file'[run.task][Syncing].safe = 2
          /\ file' \in [Tasks -> [Names -> FileType]]
          /\ \A u \in Tasks, n \in Names :
               /\ file'[u][n].c = file[u][n].c
               /\ u # run.task \/ n # Syncing \/ file[u][n].safe = 2 => file'[u][n] = file[u][n]
          /\ UNCHANGED <<rec, mark, saved, voice, release, harmed, crashes>>
<1> DEFINE old == file[run.task][Syncing].safe
           x == IF SyncFile THEN (IF old = 0 THEN 1 ELSE old) ELSE 2
<1>1. /\ run.pc \in {"computed", "synced", "published"} /\ run.task \in Tasks /\ TasksType /\ run \in RunType
      /\ UNCHANGED <<rec, mark, saved, voice, release, harmed, crashes>>
  BY InvIs, RunSet DEF SyncFile, SyncParents, SyncResult, TasksType
<1>2. Syncing \in Names BY <1>1, CommitsIs, NamesAre DEF Syncing, Committing
<1>3. /\ file[run.task][Syncing] \in FileType
      /\ file[run.task][Syncing] = [c |-> file[run.task][Syncing].c, safe |-> old] /\ old \in 0..2
  <2>1. file[run.task][Syncing] \in FileType BY <1>1, <1>2, TypesAre
  <2> QED BY <2>1 DEF FileType
<1>4. /\ file' = [file EXCEPT ![run.task][Syncing].safe = x]
      /\ run.pc = "computed" => SyncFile /\ run' = [run EXCEPT !.pc = "synced"]
      /\ run.pc = "synced" => ~SyncFile /\ run' = [run EXCEPT !.pc = "placed"]
      /\ run.pc = "published" => ~SyncFile /\ run' = [run EXCEPT !.pc = "finish"]
  <2>1. CASE SyncFile
    <3>1. run.pc = "computed" /\ run' = [run EXCEPT !.pc = "synced"] /\ Syncing = run.name
      BY <2>1 DEF SyncFile, Syncing
    <3>2. file' = [file EXCEPT ![run.task][run.name].safe = IF @ = 0 THEN 1 ELSE @] BY <2>1 DEF SyncFile
    <3>3. file' = [file EXCEPT ![run.task][run.name].safe = x] BY <2>1, <3>1, <3>2
    <3> QED BY <2>1, <3>1, <3>3
  <2>2. CASE SyncParents BY <2>2 DEF SyncParents, SyncFile, Syncing
  <2>3. CASE SyncResult BY <2>3 DEF SyncResult, SyncFile, Syncing
  <2> QED BY <2>1, <2>2, <2>3
<1>5. x \in 0..2 /\ (run.pc = "computed" => x \in {1, 2}) /\ (run.pc # "computed" => x = 2) /\ (old = 2 => x = 2)
  <2>1. CASE SyncFile BY <1>3, <2>1 DEF SyncFile
  <2>2. CASE ~SyncFile BY <1>4, <2>2
  <2> QED BY <2>1, <2>2
<1> HIDE DEF old, x
<1>6. /\ file' \in [Tasks -> [Names -> FileType]]
      /\ file'[run.task][Syncing].c = file[run.task][Syncing].c /\ file'[run.task][Syncing].safe = x
      /\ file'[run.task][Syncing] = [c |-> file[run.task][Syncing].c, safe |-> x]
      /\ \A u \in Tasks, m \in Names : u # run.task \/ m # Syncing => file'[u][m] = file[u][m]
  <2>1. file' = [file EXCEPT ![run.task][Syncing].safe = x] BY <1>4, Zenon
  <2>2. TasksType /\ run.task \in Tasks /\ x \in 0..2 BY <1>1, <1>5
  <2>3. Syncing \in Names BY <1>2
  <2> DEFINE t == run.task
             n == Syncing
  <2>4. TasksType /\ t \in Tasks /\ n \in Names /\ x \in 0..2 /\ file' = [file EXCEPT ![t][n].safe = x]
    BY <2>1, <2>2, <2>3
  <2> HIDE DEF t, n
  <2>5. file' \in [Tasks -> [Names -> FileType]] BY <2>4, SafeSet, Zenon
  <2>6. file'[t][n] = [c |-> file[t][n].c, safe |-> x] BY <2>4, SafeSet, ZenonT(60)
  <2>7. \A u \in Tasks \ {t} : file'[u] = file[u] BY <2>4, SafeSet, Zenon
  <2>8. \A m \in Names \ {n} : file'[t][m] = file[t][m] BY <2>4, SafeSet, ZenonT(60)
  <2>9. \A u \in Tasks, m \in Names : u # t \/ m # n => file'[u][m] = file[u][m] BY <2>7, <2>8
  <2> QED BY <2>5, <2>6, <2>9 DEF t, n
<1>7. /\ run' \in RunType /\ run'.task = run.task /\ run'.todo = run.todo /\ run'.id = run.id
      /\ run'.name = run.name /\ run'.ret = run.ret /\ run'.gone = run.gone
      /\ run.pc = "computed" => run'.pc = "synced"
      /\ run.pc = "synced" => run'.pc = "placed"
      /\ run.pc = "published" => run'.pc = "finish"
  BY <1>1, <1>4, PlaceSet DEF Committing, Ending
<1>8. ASSUME NEW u \in Tasks, NEW n \in Names
      PROVE /\ file'[u][n].c = file[u][n].c
            /\ u # run.task \/ n # Syncing \/ file[u][n].safe = 2 => file'[u][n] = file[u][n]
  BY <1>3, <1>5, <1>6 DEF old
<1> QED BY <1>1, <1>2, <1>5, <1>6, <1>7, <1>8

\* A marker is published.
LEMMA PublishMarkerIs ==
    ASSUME TasksInv, PublishMarker
    PROVE LET s == Head(run.todo)
          IN /\ run.pc = "placed" /\ run' \in RunType /\ run'.pc = "marked" /\ run'.task = run.task
             /\ run'.todo = run.todo /\ run'.id = run.id /\ run'.name = run.name /\ run'.ret = run.ret /\ run'.gone = run.gone
             /\ mark' \in [Tasks -> [Stages -> {None} \cup MarkType]]
             /\ mark'[run.task][s] = [is |-> TRUE, id |-> run.id, name |-> run.name,
                                      digest |-> Contents(run.task, run.name), safe |-> FALSE]
             /\ \A u \in Tasks, r \in Stages : u # run.task \/ r # s => mark'[u][r] = mark[u][r]
             /\ UNCHANGED <<rec, file, saved, voice, release, harmed, crashes>>
<1> DEFINE s == Head(run.todo)
           x == [is |-> TRUE, id |-> run.id, name |-> run.name, digest |-> Contents(run.task, run.name), safe |-> FALSE]
<1>1. run.pc = "placed" /\ TasksType /\ run \in RunType BY InvIs DEF PublishMarker, TasksType
<1>2. run.task \in Tasks /\ s \in Stages /\ run.name \in Names /\ run.id \in IdType
  BY <1>1, CommitsIs DEF Committing
<1>3. Contents(run.task, run.name) \in Audio BY <1>1, <1>2, TypesAre
<1>4. x \in MarkType BY <1>2, <1>3 DEF MarkType
<1>5. mark' = [mark EXCEPT ![run.task][s] = x] /\ run' = [run EXCEPT !.pc = "marked"]
      /\ UNCHANGED <<rec, file, saved, voice, release, harmed, crashes>>
  BY DEF PublishMarker
<1> HIDE DEF x, s
<1>6. /\ mark' \in [Tasks -> [Stages -> {None} \cup MarkType]] /\ mark'[run.task][s] = x
      /\ \A u \in Tasks, r \in Stages : u # run.task \/ r # s => mark'[u][r] = mark[u][r]
  BY <1>1, <1>2, <1>4, <1>5, MarkSet, ZenonT(60)
<1>7. /\ run' \in RunType /\ run'.pc = "marked" /\ run'.task = run.task
      /\ run'.todo = run.todo /\ run'.id = run.id /\ run'.name = run.name /\ run'.ret = run.ret /\ run'.gone = run.gone
  BY <1>1, <1>5, PlaceSet DEF Committing
<1> QED BY <1>1, <1>5, <1>6, <1>7 DEF x, s

\* A marker is durable, and the stage is done.
LEMMA SyncMarkerIs ==
    ASSUME TasksInv, SyncMarker
    PROVE LET s == Head(run.todo)
          IN /\ run.pc = "marked" /\ run' \in RunType /\ run'.pc = run.ret /\ run'.task = run.task
             /\ run'.todo = Tail(run.todo) /\ run'.id = run.id /\ run'.name = run.name /\ run'.gone = run.gone
             /\ mark' \in [Tasks -> [Stages -> {None} \cup MarkType]]
             /\ mark[run.task][s].is /\ mark'[run.task][s].is /\ mark'[run.task][s].safe
             /\ mark'[run.task][s].id = mark[run.task][s].id /\ mark'[run.task][s].name = mark[run.task][s].name
             /\ mark'[run.task][s].digest = mark[run.task][s].digest
             /\ \A u \in Tasks, r \in Stages : u # run.task \/ r # s => mark'[u][r] = mark[u][r]
             /\ UNCHANGED <<rec, file, saved, voice, release, harmed, crashes>>
<1> DEFINE s == Head(run.todo)
<1>1. run.pc = "marked" /\ TasksType /\ run \in RunType BY InvIs DEF SyncMarker, TasksType
<1>2. run.task \in Tasks /\ s \in Stages /\ CommitFits(run.task, s) /\ run.todo # <<>>
  BY <1>1, CommitsIs DEF Committing
<1>3. mark[run.task][s].is /\ run.ret \in {"stages", "inherit"}
  BY <1>1, <1>2, InvIs DEF CommitFits, RunFits, Committing
<1>4. mark' = [mark EXCEPT ![run.task][s].safe = TRUE] /\ run' = [run EXCEPT !.pc = run.ret, !.todo = Tail(@)]
      /\ UNCHANGED <<rec, file, saved, voice, release, harmed, crashes>>
  BY DEF SyncMarker
<1>5. Tail(run.todo) \in Seq(Stages \cup Names) BY <1>1, <1>2, TodoIs DEF Committing
<1> HIDE DEF s
<1>6. /\ mark' \in [Tasks -> [Stages -> {None} \cup MarkType]]
      /\ mark'[run.task][s].is /\ mark'[run.task][s].safe
      /\ mark'[run.task][s].id = mark[run.task][s].id /\ mark'[run.task][s].name = mark[run.task][s].name
      /\ mark'[run.task][s].digest = mark[run.task][s].digest
      /\ \A u \in Tasks, r \in Stages : u # run.task \/ r # s => mark'[u][r] = mark[u][r]
  <2>1. mark' = [mark EXCEPT ![run.task][s].safe = TRUE] BY <1>4, Zenon
  <2>2. TasksType /\ run.task \in Tasks /\ s \in Stages /\ mark[run.task][s].is BY <1>1, <1>2, <1>3
  <2> QED BY <2>1, <2>2, MarkerSafe, ZenonT(60)
<1>7. /\ run' \in RunType /\ run'.pc = run.ret /\ run'.task = run.task
      /\ run'.todo = Tail(run.todo) /\ run'.id = run.id /\ run'.name = run.name /\ run'.gone = run.gone
  BY <1>1, <1>3, <1>4, <1>5 DEF RunType
<1> QED BY <1>1, <1>3, <1>4, <1>6, <1>7 DEF s

\* A task whose stages are all done has the audio of its recipe.
LEMMA AllDone ==
    ASSUME TasksInv, run.pc \in {"stages"} \cup Ending, run.todo = <<>>
    PROVE LET t == run.task
          IN /\ \A s \in StagesOf(Plan(t)) \ {"baseline"} : Reused(t, s) /\ mark[t][s].is
             /\ LastStage(Plan(t)) \in Stages /\ Kept(t, LastStage(Plan(t))) \in Names
             /\ Contents(t, Kept(t, LastStage(Plan(t)))) = AudioOf(Plan(t), run.id.source, run.id.model)
<1> DEFINE t == run.task
           p == Plan(t)
           s == LastStage(p)
<1>1. t \in Tasks /\ run.id = saved[t].id /\ p \in Recipes BY WorksIs DEF Ending, Pruning
<1>2. StagesFit(t) BY InvIs DEF TodoFits
<1>3. \A r \in StagesOf(p) \ {"baseline"} : Reused(t, r) /\ mark[t][r].is BY <1>2 DEF StagesFit, Reused
<1>4. /\ s = CASE p.kind = "preprocess" -> "cleanup"
               [] p.kind = "preview" -> "preview"
               [] p.kind = "convert" -> IF p.mix THEN "mixing" ELSE "conversion"
      /\ s \in StagesOf(p) \ {"baseline"} /\ s \in Stages
  BY <1>1, OrderFits, StagesAre
<1> HIDE DEF t, s, p
<1>5. Contents(t, Kept(t, s)) = OwnAudio(t, s) /\ Kept(t, s) \in Names BY <1>1, <1>3, <1>4, ReusedIs
<1>6. OwnAudio(t, s) = AudioOf(p, saved[t].id.source, saved[t].id.model)
  <2>1. CASE p.kind = "preprocess" BY <1>4, <2>1 DEF OwnAudio, AudioOf, p
  <2>2. CASE p.kind = "preview" BY <1>4, <2>2 DEF OwnAudio, AudioOf, Vocal, p
  <2>3. CASE p.kind = "convert" /\ p.mix BY <1>4, <2>3 DEF OwnAudio, AudioOf, Vocal, p
  <2>4. CASE p.kind = "convert" /\ ~p.mix BY <1>4, <2>4 DEF OwnAudio, AudioOf, Vocal, p
  <2> QED BY <1>1, <2>1, <2>2, <2>3, <2>4, Recipe
<1> QED BY <1>1, <1>3, <1>4, <1>5, <1>6 DEF t, s, p

\* The result is published.
LEMMA PublishResultIs ==
    ASSUME TasksInv, PublishResult
    PROVE LET t == run.task
          IN /\ run.pc = "stages" /\ run.todo = <<>> /\ t \in Tasks
             /\ run' \in RunType /\ run'.pc = "published" /\ run'.task = t /\ run'.todo = run.todo /\ run'.id = run.id
             /\ run'.name = run.name /\ run'.gone = run.gone
             /\ file' \in [Tasks -> [Names -> FileType]]
             /\ file'[t]["result"].c = AudioOf(Plan(t), run.id.source, run.id.model)
             /\ \A u \in Tasks, n \in Names : u # t \/ n # "result" => file'[u][n] = file[u][n]
             /\ UNCHANGED <<rec, mark, saved, voice, release, harmed, crashes>>
<1> DEFINE t == run.task
           x == [c |-> Contents(t, Kept(t, LastStage(Plan(t)))), safe |-> 1]
<1>1. run.pc = "stages" /\ run.todo = <<>> /\ TasksType /\ run \in RunType /\ t \in Tasks /\ "result" \in Names
  BY InvIs, RunSet DEF PublishResult, TasksType, Names
<1>2. /\ Kept(t, LastStage(Plan(t))) \in Names
      /\ Contents(t, Kept(t, LastStage(Plan(t)))) = AudioOf(Plan(t), run.id.source, run.id.model)
  BY <1>1, AllDone
<1>3. Contents(t, Kept(t, LastStage(Plan(t)))) \in Audio BY <1>1, <1>2, TypesAre
<1>4. x \in FileType /\ x.c = AudioOf(Plan(t), run.id.source, run.id.model) BY <1>2, <1>3 DEF FileType
<1>5. file' = [file EXCEPT ![t]["result"] = x] /\ run' = [run EXCEPT !.pc = "published"]
      /\ UNCHANGED <<rec, mark, saved, voice, release, harmed, crashes>>
  BY DEF PublishResult, Put
<1> HIDE DEF x, t
<1>6. /\ file' \in [Tasks -> [Names -> FileType]] /\ file'[t]["result"] = x
      /\ \A u \in Tasks, n \in Names : u # t \/ n # "result" => file'[u][n] = file[u][n]
  BY <1>1, <1>4, <1>5, FileSet, ZenonT(60)
<1>7. /\ run' \in RunType /\ run'.pc = "published" /\ run'.task = run.task /\ run'.todo = run.todo /\ run'.id = run.id
      /\ run'.name = run.name /\ run'.gone = run.gone
  BY <1>1, <1>5, PlaceSet DEF Ending
<1> QED BY <1>1, <1>4, <1>5, <1>6, <1>7 DEF t

\* A task succeeds.
LEMMA FinishIs ==
    ASSUME TasksInv, Finish
    PROVE LET t == run.task
          IN /\ run.pc = "finish" /\ t \in Tasks /\ rec[t].state = "active" /\ run' = Idle
             /\ rec' \in [Tasks -> RecType] /\ rec'[t].state = "succeeded" /\ rec'[t].sha = Contents(t, "result")
             /\ rec'[t].plan = rec[t].plan /\ rec'[t].model = rec[t].model /\ rec'[t].pruned = rec[t].pruned
             /\ rec'[t].kept = rec[t].kept
             /\ \A u \in Tasks : u # t => rec'[u] = rec[u]
             /\ UNCHANGED <<file, mark, saved, voice, release, harmed, crashes>>
<1> DEFINE t == run.task
           c == [rec[t] EXCEPT !.state = "succeeded", !.sha = Contents(t, "result")]
<1>1. run.pc = "finish" /\ TasksType BY InvIs DEF Finish
<1>2. t \in Tasks /\ rec[t].state = "active" /\ rec \in [Tasks -> RecType]
  BY <1>1, WorksIs DEF Pruning, TasksType
<1>3. Contents(t, "result") \in Audio BY <1>1, <1>2, TypesAre, NamesAre
<1>4. /\ c \in RecType /\ c.state = "succeeded" /\ c.sha = Contents(t, "result")
      /\ c.plan = rec[t].plan /\ c.model = rec[t].model /\ c.pruned = rec[t].pruned /\ c.kept = rec[t].kept
  BY <1>2, <1>3 DEF RecType, RecStates
<1>5. rec' = [rec EXCEPT ![t] = c] /\ run' = Idle /\ UNCHANGED <<file, mark, saved, voice, release, harmed, crashes>>
  BY <1>2 DEF Finish
<1> HIDE DEF c
<1>6. /\ rec' \in [Tasks -> RecType] /\ rec'[t] = c
      /\ \A u \in Tasks : u # t => rec'[u] = rec[u]
  BY <1>2, <1>4, <1>5
<1> QED BY <1>1, <1>2, <1>4, <1>5, <1>6

\* A clean-up starts.
LEMMA CleanUpStep ==
    ASSUME TasksInv, NEW t \in Tasks, CleanUp(t)
    PROVE /\ run.pc = "idle" /\ rec[t].state = "succeeded" /\ ~rec[t].pruned /\ Contents(t, "result") = rec[t].sha
          /\ run' \in RunType /\ run'.pc = "prune" /\ run'.task = t /\ run'.gone = {} /\ run'.name = ""
          /\ run'.todo \in Seq(CopySet(Plan(t)))
          /\ UNCHANGED <<rec, file, mark, saved, voice, release, harmed, crashes>>
<1> DEFINE p == Plan(t)
           todo == Copies(p)
           S == CopySet(p)
           last == IF p.mix THEN <<>> ELSE <<"output">>
<1>1. todo \in Seq(S)
  <2>1. <<"model", "cover">> \in Seq(S) BY DEF CopySet
  <2>2. last \in Seq(S)
    <3>1. p.mix => last = <<>> OBVIOUS
    <3>2. <<>> \in Seq(S) OBVIOUS
    <3>3. ~p.mix => "output" \in S BY DEF CopySet
    <3>4. ~p.mix => <<"output">> \in Seq(S) BY <3>3
    <3> QED BY <3>1, <3>2, <3>4
  <2>3. todo = <<"model", "cover">> \o last BY DEF Copies
  <2> HIDE DEF todo, last, S
  <2> QED BY <2>1, <2>2, <2>3, ConcatProperties
<1>2. S \subseteq Names BY CopiesAreOutputs
<1> HIDE DEF S, todo
<1>3. todo \in Seq(Stages \cup Names)
  <2>1. S \subseteq Stages \cup Names BY <1>2
  <2> QED BY <1>1, <2>1
<1>4. /\ run.pc = "idle" /\ rec[t].state = "succeeded" /\ ~rec[t].pruned /\ Contents(t, "result") = rec[t].sha
      /\ run' = [Idle EXCEPT !.pc = "prune", !.task = t, !.todo = todo]
      /\ UNCHANGED <<rec, file, mark, saved, voice, release, harmed, crashes>>
  BY DEF CleanUp, Protected, todo, Free
<1>5. /\ run' \in RunType
  <2>1. Idle \in RunType BY InvIs, RunSet
  <2> QED BY <1>3, <1>4, <2>1 DEF RunType, Pruning
<1>6. run'.pc = "prune" /\ run'.task = t /\ run'.gone = {} /\ run'.name = "" /\ run'.todo = todo
  BY <1>4 DEF Idle
<1> QED BY <1>1, <1>4, <1>5, <1>6 DEF S

\* A clean-up removes one copy.
LEMMA RemoveCopyIs ==
    ASSUME TasksInv, RemoveCopy
    PROVE LET t == run.task
              n == Head(run.todo)
          IN /\ run.pc = "prune" /\ t \in Tasks /\ n \in CopySet(Plan(t)) /\ n \in Names
             /\ rec[t].state = "succeeded" /\ ~rec[t].pruned
             /\ run' \in RunType /\ run'.pc = "prune" /\ run'.task = t /\ run'.name = run.name
             /\ run'.todo \in Seq(CopySet(Plan(t)))
             /\ \A x \in run'.gone : x \in run.gone \/ (Has(t, n) /\ x[1] = n /\ x[2] = file[t][n])
             /\ file' \in [Tasks -> [Names -> FileType]] /\ file'[t][n] = Absent
             /\ \A u \in Tasks, m \in Names : u # t \/ m # n => file'[u][m] = file[u][m]
             /\ UNCHANGED <<rec, mark, saved, voice, release, harmed, crashes>>
<1> DEFINE t == run.task
           n == Head(run.todo)
           S == CopySet(Plan(t))
           gone == IF Has(t, n) THEN run.gone \cup {<<n, file[t][n]>>} ELSE run.gone
<1>1. run.pc = "prune" /\ run.todo # <<>> /\ TasksType /\ run \in RunType /\ t \in Tasks
  BY InvIs, RunSet DEF RemoveCopy, TasksType
<1>2. rec[t].state = "succeeded" /\ ~rec[t].pruned BY <1>1, InvIs DEF RunFits, Pruning
<1>3. /\ run.todo \in Seq(S) /\ run.todo \in Seq(Stages \cup Names) /\ run.gone \subseteq Names \X FileType
  BY <1>1, InvIs, RunSet DEF PruneFits, Pruning
<1>4. n \in S /\ Tail(run.todo) \in Seq(S) /\ Tail(run.todo) \in Seq(Stages \cup Names)
  BY <1>1, <1>3, HeadTailProperties
<1>5. n \in Names BY <1>4, CopiesAreOutputs
<1>6. Absent \in FileType /\ file[t][n] \in FileType /\ Absent = [c |-> <<>>, safe |-> 2]
  <2>1. file[t][n] \in FileType BY <1>1, <1>5, TypesAre
  <2> QED BY <2>1, TagsAre DEF Absent, FileType
<1>7. /\ file' = [file EXCEPT ![t][n] = Absent]
      /\ run' = [run EXCEPT !.todo = Tail(run.todo), !.gone = gone]
      /\ UNCHANGED <<rec, mark, saved, voice, release, harmed, crashes>>
  BY <1>6 DEF RemoveCopy, Put
<1>8. gone \in SUBSET (Names \X FileType)
      /\ \A x \in gone : x \in run.gone \/ (Has(t, n) /\ x[1] = n /\ x[2] = file[t][n])
  BY <1>3, <1>5, <1>6
<1> HIDE DEF gone, t, n, S
<1>9. /\ file' \in [Tasks -> [Names -> FileType]] /\ file'[t][n] = Absent
      /\ \A u \in Tasks, m \in Names : u # t \/ m # n => file'[u][m] = file[u][m]
  <2>1. file' = [file EXCEPT ![t][n] = Absent] BY <1>7, Zenon
  <2>2. TasksType /\ t \in Tasks /\ Absent \in FileType BY <1>1, <1>6 DEF t
  <2> QED BY <1>5, <2>1, <2>2, FileSet, ZenonT(60)
<1>10. /\ run' \in RunType /\ run'.pc = run.pc /\ run'.task = run.task /\ run'.name = run.name
       /\ run'.todo = Tail(run.todo) /\ run'.gone = gone
  BY <1>1, <1>4, <1>7, <1>8 DEF RunType
<1> QED BY <1>1, <1>2, <1>4, <1>5, <1>7, <1>8, <1>9, <1>10 DEF t, n, S

\* The removals are durable.
LEMMA CopiesGoneIs ==
    ASSUME TasksInv, CopiesGone
    PROVE /\ run.pc = "prune" /\ run' \in RunType /\ run'.pc = "pruned" /\ run'.task = run.task /\ run'.gone = {}
          /\ run'.name = run.name /\ UNCHANGED <<rec, file, mark, saved, voice, release, harmed, crashes>>
<1>1. run \in RunType BY InvIs DEF TasksType
<1> QED BY <1>1 DEF CopiesGone, RunType, Pruning

\* The record says that the copies are gone.
LEMMA CleanedUpIs ==
    ASSUME TasksInv, CleanedUp
    PROVE LET t == run.task
          IN /\ run.pc = "pruned" /\ t \in Tasks /\ rec[t].state = "succeeded" /\ run' = Idle
             /\ rec' \in [Tasks -> RecType] /\ rec'[t].state = "succeeded" /\ rec'[t].sha = rec[t].sha
             /\ rec'[t].plan = rec[t].plan /\ rec'[t].model = rec[t].model /\ rec'[t].kept = rec[t].kept /\ rec'[t].pruned
             /\ \A u \in Tasks : u # t => rec'[u] = rec[u]
             /\ UNCHANGED <<file, mark, saved, voice, release, harmed, crashes>>
<1> DEFINE t == run.task
           c == [rec[t] EXCEPT !.pruned = TRUE]
<1>1. run.pc = "pruned" /\ TasksType /\ t \in Tasks BY InvIs, RunSet DEF CleanedUp
<1>2. rec[t].state = "succeeded" /\ rec \in [Tasks -> RecType] BY <1>1, InvIs DEF RunFits, Pruning, TasksType
<1>3. /\ c \in RecType /\ c.state = "succeeded" /\ c.sha = rec[t].sha
      /\ c.plan = rec[t].plan /\ c.model = rec[t].model /\ c.kept = rec[t].kept /\ c.pruned
  BY <1>1, <1>2 DEF RecType
<1>4. rec' = [rec EXCEPT ![t] = c] /\ run' = Idle /\ UNCHANGED <<file, mark, saved, voice, release, harmed, crashes>>
  BY <1>2 DEF CleanedUp
<1> HIDE DEF c
<1>5. /\ rec' \in [Tasks -> RecType] /\ rec'[t] = c /\ \A u \in Tasks : u # t => rec'[u] = rec[u]
  BY <1>1, <1>2, <1>3, <1>4
<1> QED BY <1>1, <1>2, <1>3, <1>4, <1>5

\* What a crash leaves.
LEMMA CrashIs ==
    ASSUME TasksInv, Crash
    PROVE /\ run' = Idle /\ crashes' \in Nat /\ release' \in {release, "now"} /\ UNCHANGED <<voice, harmed>>
          /\ crashes' = crashes + 1 /\ LeadMayGo
          /\ rec' \in [Tasks -> RecType]
          /\ \A t \in Tasks :
               /\ rec[t].state \in {"queued", "active"} => rec'[t].state = "stopped"
               /\ rec[t].state \notin {"queued", "active"} => rec'[t].state = rec[t].state
               /\ rec'[t].plan = rec[t].plan /\ rec'[t].model = rec[t].model /\ rec'[t].sha = rec[t].sha
               /\ rec'[t].pruned = rec[t].pruned /\ rec'[t].kept = rec[t].kept
          /\ file' \in [Tasks -> [Names -> FileType]]
          /\ \A t \in Tasks, n \in Names :
               /\ \/ file[t][n].safe < 2
                  \/ t = run.task /\ \E x \in run.gone : x[1] = n /\ file'[t][n] = x[2]
                  \/ file'[t][n] = file[t][n]
               /\ file'[t][n].safe = 2
               /\ file'[t][n].c # file[t][n].c => file[t][n].safe < 2 \/ (t = run.task /\ run.gone # {})
          /\ mark' \in [Tasks -> [Stages -> {None} \cup MarkType]]
          /\ \A t \in Tasks, s \in Stages :
               /\ mark'[t][s].is => /\ mark[t][s].is /\ mark'[t][s].safe /\ mark'[t][s].id = mark[t][s].id
                                    /\ mark'[t][s].name = mark[t][s].name /\ mark'[t][s].digest = mark[t][s].digest
               /\ mark[t][s].is /\ mark[t][s].safe => mark'[t][s].is
          /\ saved' \in [Tasks -> {None} \cup SavedType]
          /\ \A t \in Tasks :
               /\ saved'[t].is => saved[t].is /\ saved'[t].safe /\ saved'[t].id = saved[t].id
               /\ saved[t].is /\ saved[t].safe => saved'[t].is
<1>1. PICK lost \in SUBSET {x \in Tasks \X Names : file[x[1]][x[2]].safe < 2},
           torn \in SUBSET {x \in Tasks \X Names : file[x[1]][x[2]].safe = 0},
           unmarked \in SUBSET {x \in Tasks \X Stages : mark[x[1]][x[2]].is /\ ~mark[x[1]][x[2]].safe},
           unnamed \in SUBSET {t \in Tasks : saved[t].is /\ ~saved[t].safe}, back \in SUBSET run.gone :
      /\ crashes < MaxCrashes /\ crashes' = crashes + 1 /\ ~Free
      /\ lost \cap torn = {}
      /\ file' = [t \in Tasks |-> [n \in Names |->
           IF <<t, n>> \in lost THEN Absent
           ELSE IF <<t, n>> \in torn THEN [c |-> Torn, safe |-> 2]
           ELSE IF t = run.task /\ \E x \in back : x[1] = n THEN (CHOOSE x \in back : x[1] = n)[2]
           ELSE [file[t][n] EXCEPT !.safe = 2]]]
      /\ mark' = [t \in Tasks |-> [s \in Stages |->
           IF ~mark[t][s].is \/ <<t, s>> \in unmarked THEN None ELSE [mark[t][s] EXCEPT !.safe = TRUE]]]
      /\ saved' = [t \in Tasks |->
           IF ~saved[t].is \/ t \in unnamed THEN None ELSE [saved[t] EXCEPT !.safe = TRUE]]
      /\ rec' = [t \in Tasks |-> IF rec[t].state \in {"queued", "active"} THEN [rec[t] EXCEPT !.state = "stopped"] ELSE rec[t]]
      /\ LeadMayGo /\ run' = Idle /\ request' = NoRequest
      /\ release' \in {release, "now"} /\ UNCHANGED <<voice, harmed>>
  BY DEF Crash
<1>2. TasksType /\ SyncFits /\ run.gone \subseteq Names \X FileType BY InvIs, RunSet
<1>3. /\ run' = Idle /\ crashes' \in Nat /\ release' \in {release, "now"} /\ UNCHANGED <<voice, harmed>>
      /\ crashes' = crashes + 1 /\ LeadMayGo
  BY <1>1, <1>2 DEF TasksType
<1>4. ASSUME NEW t \in Tasks
      PROVE /\ rec'[t] \in RecType
            /\ rec[t].state \in {"queued", "active"} => rec'[t].state = "stopped"
            /\ rec[t].state \notin {"queued", "active"} => rec'[t].state = rec[t].state
            /\ rec'[t].plan = rec[t].plan /\ rec'[t].model = rec[t].model /\ rec'[t].sha = rec[t].sha
            /\ rec'[t].pruned = rec[t].pruned /\ rec'[t].kept = rec[t].kept
  <2>1. rec[t] \in RecType BY <1>2 DEF TasksType
  <2>2. rec'[t] = IF rec[t].state \in {"queued", "active"} THEN [rec[t] EXCEPT !.state = "stopped"] ELSE rec[t]
    BY <1>1
  <2> QED BY <2>1, <2>2 DEF RecType, RecStates
<1>5. ASSUME NEW t \in Tasks, NEW n \in Names
      PROVE /\ file'[t][n] \in FileType
            /\ \/ file[t][n].safe < 2
               \/ t = run.task /\ \E x \in run.gone : x[1] = n /\ file'[t][n] = x[2]
               \/ file'[t][n] = file[t][n]
            /\ file'[t][n].safe = 2
            /\ file'[t][n].c # file[t][n].c => file[t][n].safe < 2 \/ (t = run.task /\ run.gone # {})
  <2>1. file'[t][n] = IF <<t, n>> \in lost THEN Absent
           ELSE IF <<t, n>> \in torn THEN [c |-> Torn, safe |-> 2]
           ELSE IF t = run.task /\ \E x \in back : x[1] = n THEN (CHOOSE x \in back : x[1] = n)[2]
           ELSE [file[t][n] EXCEPT !.safe = 2]
    BY <1>1
  <2>2. file[t][n] \in FileType /\ file[t][n].safe \in 0..2
    <3>1. file[t][n] \in FileType BY <1>2 DEF TasksType
    <3> QED BY <3>1 DEF FileType
  <2>3. CASE <<t, n>> \in lost
    <3>1. file[t][n].safe < 2 BY <1>1, <2>3
    <3>2. Absent \in FileType /\ Absent.safe = 2 BY TagsAre DEF Absent, FileType
    <3>3. file'[t][n] = Absent BY <2>1, <2>3
    <3>4. file'[t][n] \in FileType /\ file'[t][n].safe = 2 BY <3>2, <3>3
    <3> QED BY <3>1, <3>4
  <2>4. CASE <<t, n>> \notin lost /\ <<t, n>> \in torn
    <3>1. file[t][n].safe < 2 BY <1>1, <2>4
    <3> DEFINE y == [c |-> Torn, safe |-> 2]
    <3>2. y \in FileType /\ y.safe = 2 BY TagsAre DEF FileType
    <3>3. file'[t][n] = y BY <2>1, <2>4
    <3> HIDE DEF y
    <3>4. file'[t][n] \in FileType /\ file'[t][n].safe = 2 BY <3>2, <3>3
    <3> QED BY <3>1, <3>4
  <2>5. CASE <<t, n>> \notin lost /\ <<t, n>> \notin torn /\ t = run.task /\ \E x \in back : x[1] = n
    <3> DEFINE y == CHOOSE x \in back : x[1] = n
    <3>1. y \in back /\ y[1] = n BY <2>5
    <3>2. file'[t][n] = y[2] BY <2>1, <2>5
    <3> HIDE DEF y
    <3>3. y \in run.gone /\ y[2] \in FileType /\ y[2].safe = 2 BY <1>1, <1>2, <3>1 DEF SyncFits
    <3> QED BY <2>5, <3>1, <3>2, <3>3
  <2>6. CASE <<t, n>> \notin lost /\ <<t, n>> \notin torn /\ ~(t = run.task /\ \E x \in back : x[1] = n)
    <3>1. file'[t][n] = [file[t][n] EXCEPT !.safe = 2] BY <2>1, <2>6
    <3>2. /\ file'[t][n] \in FileType /\ file'[t][n].c = file[t][n].c /\ file'[t][n].safe = 2
          /\ file[t][n].safe = 2 => file'[t][n] = file[t][n]
      BY <2>2, <3>1 DEF FileType
    <3> QED BY <2>2, <3>2
  <2> QED BY <2>3, <2>4, <2>5, <2>6
<1>6. ASSUME NEW t \in Tasks, NEW s \in Stages
      PROVE /\ mark'[t][s] \in {None} \cup MarkType
            /\ mark'[t][s].is => /\ mark[t][s].is /\ mark'[t][s].safe /\ mark'[t][s].id = mark[t][s].id
                                 /\ mark'[t][s].name = mark[t][s].name /\ mark'[t][s].digest = mark[t][s].digest
            /\ mark[t][s].is /\ mark[t][s].safe => mark'[t][s].is
  <2>1. mark'[t][s] = IF ~mark[t][s].is \/ <<t, s>> \in unmarked THEN None ELSE [mark[t][s] EXCEPT !.safe = TRUE]
    BY <1>1
  <2>2. mark[t][s].is => mark[t][s] \in MarkType BY <1>2, TypesAre
  <2>3. <<t, s>> \in unmarked => ~mark[t][s].safe BY <1>1
  <2>4. CASE ~mark[t][s].is \/ <<t, s>> \in unmarked BY <2>1, <2>3, <2>4, OrNone
  <2>5. CASE mark[t][s].is /\ <<t, s>> \notin unmarked
    <3>1. mark'[t][s] = [mark[t][s] EXCEPT !.safe = TRUE] /\ mark[t][s] \in MarkType BY <2>1, <2>2, <2>5
    <3> QED BY <2>5, <3>1, ZenonT(60) DEF MarkType
  <2> QED BY <2>4, <2>5
<1>7. ASSUME NEW t \in Tasks
      PROVE /\ saved'[t] \in {None} \cup SavedType
            /\ saved'[t].is => saved[t].is /\ saved'[t].safe /\ saved'[t].id = saved[t].id
            /\ saved[t].is /\ saved[t].safe => saved'[t].is
  <2>1. saved'[t] = IF ~saved[t].is \/ t \in unnamed THEN None ELSE [saved[t] EXCEPT !.safe = TRUE] BY <1>1
  <2>2. saved[t].is => saved[t] \in SavedType BY <1>2, TypesAre
  <2>3. t \in unnamed => ~saved[t].safe BY <1>1
  <2>4. CASE ~saved[t].is \/ t \in unnamed BY <2>1, <2>3, <2>4, OrNone
  <2>5. CASE saved[t].is /\ t \notin unnamed
    <3>1. saved'[t] = [saved[t] EXCEPT !.safe = TRUE] /\ saved[t] \in SavedType BY <2>1, <2>2, <2>5
    <3> QED BY <2>5, <3>1 DEF SavedType
  <2> QED BY <2>4, <2>5
<1>8. rec' \in [Tasks -> RecType]
  <2>1. rec' = [t \in Tasks |-> IF rec[t].state \in {"queued", "active"} THEN [rec[t] EXCEPT !.state = "stopped"] ELSE rec[t]]
    BY <1>1
  <2>2. rec' = [t \in Tasks |-> rec'[t]] BY <2>1
  <2> QED BY <1>4, <2>2
<1>9. file' \in [Tasks -> [Names -> FileType]]
  <2>1. file' = [t \in Tasks |-> [n \in Names |-> file'[t][n]]] BY <1>1
  <2> QED BY <1>5, <2>1
<1>10. mark' \in [Tasks -> [Stages -> {None} \cup MarkType]]
  <2>1. mark' = [t \in Tasks |-> [s \in Stages |-> mark'[t][s]]] BY <1>1
  <2> QED BY <1>6, <2>1
<1>11. saved' \in [Tasks -> {None} \cup SavedType]
  <2>1. saved' = [t \in Tasks |-> saved'[t]] BY <1>1
  <2> QED BY <1>7, <2>1
<1> QED BY <1>3, <1>4, <1>5, <1>6, <1>7, <1>8, <1>9, <1>10, <1>11

\* A task is paused.
LEMMA PauseIs ==
    ASSUME TasksInv, Pause
    PROVE /\ run.pc \in {"stages", "inherit"} /\ run.todo # <<>> /\ run.task \in Tasks /\ rec[run.task].state = "active"
          /\ rec' = [rec EXCEPT ![run.task].state = "stopped"] /\ run' = Idle /\ crashes' \in Nat
          /\ UNCHANGED <<file, mark, saved, voice, release, harmed>>
<1>1. run.pc \in {"stages", "inherit"} /\ TasksType BY InvIs DEF Pause
<1>2. run.task \in Tasks /\ rec[run.task].state = "active" BY <1>1, WorksIs DEF Pruning
<1> QED BY <1>1, <1>2 DEF Pause, TasksType

\* A file of the first task is changed from outside.
LEMMA HarmIs ==
    ASSUME TasksInv, NEW n \in Names, Harm(n)
    PROVE /\ run.pc = "idle" /\ harmed = {} /\ harmed' = {n} /\ Has("first", n)
          /\ file' \in [Tasks -> [Names -> FileType]] /\ file'["first"][n].safe = 2
          /\ \A u \in Tasks, m \in Names : u # "first" \/ m # n => file'[u][m] = file[u][m]
          /\ UNCHANGED <<rec, mark, saved, voice, release, run, crashes>>
<1> DEFINE x == [c |-> <<"other">>, safe |-> 2]
<1>1. x \in FileType /\ x.safe = 2 BY TagsAre DEF FileType
<1>2. file' = [file EXCEPT !["first"][n] = x] BY DEF Harm, Put
<1>3. TasksType /\ "first" \in Tasks BY InvIs DEF Tasks
<1> HIDE DEF x
<1>4. /\ file' \in [Tasks -> [Names -> FileType]] /\ file'["first"][n] = x
      /\ \A u \in Tasks, m \in Names : u # "first" \/ m # n => file'[u][m] = file[u][m]
  BY <1>1, <1>2, <1>3, FileSet, ZenonT(60)
<1> QED BY <1>1, <1>4 DEF Harm, Quiet

----------------------------------------
(* The layer of types. *)

\* Every step keeps the type invariant.
LEMMA TypeStep == TasksInv /\ [TasksNext]_taskVars => TasksType'
<1> SUFFICES ASSUME TasksInv, [TasksNext]_taskVars PROVE TasksType' OBVIOUS
<1>0. TasksType BY InvIs
<1>f. ASSUME Fail(run.task), run.pc \notin {"idle"} \cup Pruning
      PROVE rec' \in [Tasks -> RecType] /\ run' \in RunType
  BY <1>0, <1>f, FailIs, StateSet, RunSet
<1>1. CASE \E t \in Tasks, p \in Recipes : Make(t, p) BY <1>1, <1>0, MakeIs, ZenonT(60) DEF TasksType
<1>b. CASE \E t \in Tasks : Books(t)
  <2> PICK t \in Tasks : Books(t) BY <1>b
  <2>1. PICK x \in {"queued", "failed"} : rec' = [rec EXCEPT ![t].state = x] BY BookIs
  <2>2. rec' \in [Tasks -> RecType] BY <1>0, <2>1, StateSet
  <2> QED BY <1>0, <2>2, BookIs DEF TasksType
<1>2. CASE \E t \in Tasks : Resume(t) BY <1>2, <1>0, ResumeIs, StateSet, ZenonT(60) DEF TasksType
<1>3. CASE \E t \in Tasks : CleanUp(t) BY <1>3, <1>0, CleanUpStep DEF TasksType
<1>4. CASE Open
  <2>1. run.pc = "open" /\ UNCHANGED <<file, mark, voice, release, harmed, crashes>> BY <1>4, OpenIs
  <2>2. CASE Fail(run.task) /\ UNCHANGED saved BY <1>0, <1>f, <2>1, <2>2 DEF TasksType, Pruning
  <2>3. CASE ~(Fail(run.task) /\ UNCHANGED saved) BY <1>4, <1>0, <2>3, OpenIs DEF TasksType
  <2> QED BY <2>2, <2>3
<1>5. CASE OpenSynced BY <1>5, <1>0, OpenSyncedIs DEF TasksType
<1>6. CASE Revise
  <2>1. run.pc = "revise" /\ UNCHANGED <<file, mark, saved, voice, release, harmed, crashes>>
    BY <1>6, ReviseIs
  <2>2. CASE Fail(run.task) BY <1>0, <1>f, <2>1, <2>2 DEF TasksType, Pruning
  <2>3. CASE ~Fail(run.task) BY <1>6, <1>0, <2>3, ReviseIs DEF TasksType
  <2> QED BY <2>2, <2>3
<1>7. CASE Inherit
  <2>1. run.pc = "inherit" /\ UNCHANGED <<mark, saved, voice, release, harmed, crashes>> BY <1>7, InheritStep
  <2>2. CASE Fail(run.task) /\ UNCHANGED file BY <1>0, <1>f, <2>1, <2>2 DEF TasksType, Pruning
  <2>3. CASE Skipped(run.task, Head(run.todo)) BY <1>0, <2>1, <2>3 DEF TasksType, Skipped
  <2>4. CASE Placed(run.task, Head(run.todo)) BY <1>0, <2>1, <2>4 DEF TasksType, Placed
  <2> QED BY <1>7, <2>2, <2>3, <2>4, InheritStep
<1>8. CASE Inherited BY <1>8, <1>0, RunSet, InheritedStep DEF TasksType
<1>9. CASE Stage
  <2>1. run.pc = "stages" /\ UNCHANGED <<mark, saved, voice, release, harmed, crashes>> BY <1>9, StageStep
  <2>2. CASE Fail(run.task) /\ UNCHANGED file BY <1>0, <1>f, <2>1, <2>2 DEF TasksType, Pruning
  <2>3. CASE Skipped(run.task, Head(run.todo)) BY <1>0, <2>1, <2>3 DEF TasksType, Skipped
  <2>4. CASE Placed(run.task, Head(run.todo)) BY <1>0, <2>1, <2>4 DEF TasksType, Placed
  <2> QED BY <1>9, <2>2, <2>3, <2>4, StageStep
<1>10. CASE SyncFile \/ SyncParents \/ SyncResult BY <1>10, <1>0, RunSet, SyncStep DEF TasksType
<1>11. CASE PublishMarker BY <1>11, <1>0, RunSet, PublishMarkerIs, ZenonT(60) DEF TasksType
<1>12. CASE SyncMarker BY <1>12, <1>0, RunSet, SyncMarkerIs DEF TasksType
<1>13. CASE PublishResult BY <1>13, <1>0, RunSet, PublishResultIs DEF TasksType
<1>14. CASE Finish BY <1>14, <1>0, RunSet, FinishIs DEF TasksType
<1>15. CASE RemoveCopy BY <1>15, <1>0, RunSet, RemoveCopyIs DEF TasksType
<1>16. CASE CopiesGone BY <1>16, <1>0, RunSet, CopiesGoneIs DEF TasksType
<1>17. CASE CleanedUp BY <1>17, <1>0, RunSet, CleanedUpIs DEF TasksType
<1>18. CASE Crash
  <2>1. release' \in Releases \cup {"now"} BY <1>18, <1>0, CrashIs DEF TasksType
  <2> QED BY <1>18, <1>0, <2>1, RunSet, CrashIs DEF TasksType
<1>19. CASE Pause BY <1>19, <1>0, RunSet, PauseIs, StateSet DEF TasksType
<1>20. CASE \E n \in Names : Harm(n) BY <1>20, <1>0, HarmIs DEF TasksType
<1>21. CASE Republish BY <1>21, <1>0, TagsAre DEF Republish, TasksType
<1>22. CASE UNCHANGED What BY <1>22, <1>0 DEF What, TasksType
<1> QED BY <1>1, <1>2, <1>3, <1>4, <1>5, <1>6, <1>7, <1>8, <1>9, <1>10, <1>11, <1>12, <1>13, <1>14, <1>15, <1>16, <1>17, <1>18, <1>19, <1>20, <1>21, <1>22, <1>b, StepsAre DEF Works

----------------------------------------
(* The layer of the tasks and of the run. *)

Tasking == \A t \in Tasks : TaskFits(t)
\* A step that gives no task another recipe or identity.
Settled ==
    /\ \A t \in Tasks :
         /\ rec'[t].plan = rec[t].plan /\ rec'[t].kept = rec[t].kept
         /\ rec'[t].state \in {"none", "queued"} => ~rec[t].kept
         /\ rec'[t].state \in {"active", "succeeded"} => rec[t].kept
         /\ rec[t].state = "succeeded" => rec'[t].state = "succeeded"
         /\ rec'[t].pruned => rec'[t].state = "succeeded"
         /\ saved'[t].is => saved[t].is /\ saved'[t].id = saved[t].id
         /\ \A s \in Stages : mark'[t][s].is => rec[t].kept
\* A step that settles nothing anew keeps what the tasks are.
LEMMA TaskingStays ==
    ASSUME TasksInv, Settled PROVE Tasking'
<1> SUFFICES ASSUME NEW t \in Tasks PROVE TaskFits(t)' BY DEF Tasking
<1>1. TaskFits(t) /\ "first" \in Tasks BY InvIs DEF Tasks
<1>2. Plan(t)' = Plan(t) /\ Plan("first")' = Plan("first") BY <1>1 DEF Plan, Settled
<1>3. (~rec[t].kept => ~saved[t].is /\ \A s \in Stages : ~mark[t][s].is)' BY <1>1 DEF Settled, TaskFits
<1>4. /\ (rec[t].state \in {"none", "queued"} => ~rec[t].kept)'
      /\ (rec[t].state \in {"active", "succeeded"} => rec[t].kept)'
  BY DEF Settled
<1>5. (rec[t].kept => Allowed(t, Plan(t)))' BY <1>1, <1>2 DEF TaskFits, Settled, Allowed, SameCleanup
<1>6. (saved[t].is => saved[t].id.plan = Plan(t) /\ (Plan(t).kind = "preprocess" => saved[t].id.model = <<>>))'
  BY <1>1, <1>2 DEF TaskFits, Settled
<1>7. (rec[t].pruned => rec[t].state = "succeeded")' BY DEF Settled
<1> QED BY <1>3, <1>4, <1>5, <1>6, <1>7 DEF TaskFits

\* No task runs at first.
LEMMA InitTasking == TasksInit => Tasking /\ RunFits
<1> SUFFICES ASSUME TasksInit PROVE Tasking /\ RunFits OBVIOUS
<1>1. TasksType /\ Idle.pc = "idle" /\ Idle.gone = {} /\ Idle.name = "" /\ None.is = FALSE
  BY InitType, RunSet, OrNone
<1>2. run = Idle /\ (\A t \in Tasks : saved[t] = None /\ \A s \in Stages : mark[t][s] = None) BY DEF TasksInit
<1>3. \A t \in Tasks : rec[t].state = "none" /\ rec[t].pruned = FALSE /\ rec[t].kept = FALSE BY DEF TasksInit
<1>4. Tasking BY <1>1, <1>2, <1>3 DEF Tasking, TaskFits
<1>5. RunFits BY <1>1, <1>2, <1>3 DEF RunFits, Pruning, Committing
<1> QED BY <1>4, <1>5

\* Every step keeps what the tasks are.
LEMMA TaskingStep == TasksInv /\ [TasksNext]_taskVars => Tasking'
<1> SUFFICES ASSUME TasksInv, [TasksNext]_taskVars PROVE Tasking' OBVIOUS
<1>0. TasksType /\ \A t \in Tasks : TaskFits(t) BY InvIs
<1>u. ASSUME UNCHANGED <<rec, mark, saved>> PROVE Tasking'
  BY <1>0, <1>u, SMTT(30) DEF Tasking, TaskFits, Plan, Allowed, SameCleanup
<1>f. ASSUME Fail(run.task), run.pc \notin {"idle"} \cup Pruning, UNCHANGED <<mark, saved>> PROVE Tasking'
  BY <1>f, FailIs, <1>0, StateSet, TaskingStays DEF Settled, TaskFits
<1>1. CASE \E t \in Tasks, p \in Recipes : Make(t, p)
  <2> PICK t \in Tasks, p \in Recipes : Make(t, p) BY <1>1
  <2>0. rec[t].state = "queued" /\ ~rec[t].kept /\ Allowed(t, p) BY MakeFits
  <2>1. /\ rec'[t].state = "active" /\ rec'[t].plan = p /\ rec'[t].pruned = rec[t].pruned /\ rec'[t].kept
        /\ \A u \in Tasks : u # t => rec'[u] = rec[u]
        /\ UNCHANGED <<mark, saved>>
    BY MakeIs
  <2>2. TaskFits(t)'
    <3>1. TaskFits(t) /\ "first" \in Tasks /\ t \in {"first", "next"} BY <1>0 DEF Tasks
    <3>2. Plan(t)' = p /\ ~saved'[t].is /\ ~rec'[t].pruned BY <2>0, <2>1, <3>1 DEF TaskFits, Plan
    <3>3. t = "next" => rec'["first"] = rec["first"] /\ Plan("first")' = Plan("first")
      BY <2>0, <2>1, <3>1 DEF Plan
    <3>4. Allowed(t, Plan(t))' BY <2>0, <2>1, <3>1, <3>2, <3>3 DEF Allowed, SameCleanup
    <3> QED BY <2>0, <2>1, <3>1, <3>2, <3>4 DEF TaskFits
  <2>3. ASSUME NEW u \in Tasks, u # t PROVE TaskFits(u)'
    <3>1. TaskFits(u) /\ "first" \in Tasks /\ t \in {"first", "next"} /\ u \in {"first", "next"}
      BY <1>0 DEF Tasks
    <3>2. rec'[u] = rec[u] /\ Plan(u)' = Plan(u) BY <2>0, <2>1, <2>3 DEF Plan
    <3>3. u = "next" => ~rec[u].kept BY <2>0, <2>1, <2>3, <3>1 DEF TaskFits, Allowed
    <3>4. (rec[u].kept => Allowed(u, Plan(u)))' BY <3>1, <3>2, <3>3 DEF TaskFits, Allowed
    <3> QED BY <2>0, <2>1, <3>1, <3>2, <3>4 DEF TaskFits
  <2> QED BY <2>2, <2>3 DEF Tasking
<1>b. CASE \E t \in Tasks : Books(t)
  <2> PICK t \in Tasks : Books(t) BY <1>b
  <2>1. PICK x \in {"queued", "failed"} : rec' = [rec EXCEPT ![t].state = x] BY BookIs
  <2>2. ~rec[t].kept /\ rec[t].state \in {"none", "queued"} /\ UNCHANGED <<mark, saved>> BY BookIs
  <2> QED BY <1>0, <2>1, <2>2, StateSet, TaskingStays DEF Settled, TaskFits
<1>2. CASE \E t \in Tasks : Resume(t)
  <2> PICK t \in Tasks : Resume(t) BY <1>2
  <2>1. rec[t].state = "stopped" /\ rec[t].kept /\ rec' = [rec EXCEPT ![t].state = "active"] /\ UNCHANGED <<mark, saved>>
    BY ResumeIs
  <2> QED BY <1>0, <2>1, StateSet, TaskingStays DEF Settled, TaskFits
<1>3. CASE \E t \in Tasks : CleanUp(t)
  <2> PICK t \in Tasks : CleanUp(t) BY <1>3
  <2>1. UNCHANGED <<rec, mark, saved>> BY CleanUpStep
  <2> QED BY <1>u, <2>1
<1>4. CASE Open
  <2>1. run.pc = "open" /\ run.task \in Tasks /\ UNCHANGED mark BY <1>4, OpenIs
  <2>2. CASE Fail(run.task) /\ UNCHANGED saved BY <1>f, <2>1, <2>2 DEF Pruning
  <2>3. CASE ~(Fail(run.task) /\ UNCHANGED saved)
    <3> DEFINE t == run.task
    <3>1. /\ UNCHANGED rec /\ rec[t].state = "active" /\ run'.id.plan = Plan(t) /\ saved'[t].id = run'.id
          /\ run'.id.model = IF Plan(t).kind = "preprocess" THEN <<>> ELSE Contents(t, "model")
          /\ \A u \in Tasks : u # t => saved'[u] = saved[u]
      BY <1>4, <2>3, OpenIs
    <3> HIDE DEF t
    <3>2. ASSUME NEW u \in Tasks PROVE TaskFits(u)'
      <4>1. TaskFits(u) /\ Plan(u)' = Plan(u) /\ Plan("first")' = Plan("first") BY <1>0, <3>1 DEF Plan
      <4>4. Allowed(u, Plan(u))' <=> Allowed(u, Plan(u)) BY <3>1, <4>1 DEF Allowed, SameCleanup
      <4>2. CASE u = t BY <2>1, <3>1, <4>1, <4>2, <4>4 DEF TaskFits, t
      <4>3. CASE u # t BY <2>1, <3>1, <4>1, <4>3, <4>4 DEF TaskFits
      <4> QED BY <4>2, <4>3
    <3> QED BY <3>2 DEF Tasking
  <2> QED BY <2>2, <2>3
<1>5. CASE OpenSynced
  <2>1. /\ UNCHANGED <<rec, mark>> /\ saved[run.task].is /\ saved'[run.task].id = saved[run.task].id
        /\ \A u \in Tasks : u # run.task => saved'[u] = saved[u]
    BY <1>5, OpenSyncedIs
  <2>2. Settled BY <1>0, <2>1 DEF Settled, TaskFits
  <2> QED BY <1>0, <2>1, <2>2, TaskingStays
<1>6. CASE Revise
  <2>1. run.pc = "revise" /\ UNCHANGED <<mark, saved>> BY <1>6, ReviseIs
  <2>2. CASE Fail(run.task) BY <1>f, <2>1, <2>2 DEF Pruning
  <2>3. CASE ~Fail(run.task) BY <1>6, <1>u, <2>1, <2>3, ReviseIs
  <2> QED BY <2>2, <2>3
<1>7. CASE Inherit
  <2>1. run.pc = "inherit" /\ UNCHANGED <<mark, saved>> BY <1>7, InheritStep
  <2>2. CASE Fail(run.task) BY <1>f, <2>1, <2>2 DEF Pruning
  <2>3. CASE Skipped(run.task, Head(run.todo)) \/ Placed(run.task, Head(run.todo))
    BY <1>u, <2>1, <2>3 DEF Skipped, Placed
  <2> QED BY <1>7, <2>2, <2>3, InheritStep
<1>8. CASE Inherited BY <1>8, <1>0, InheritedStep, TaskingStays DEF Settled, TaskFits, Tasks
<1>9. CASE Stage
  <2>1. run.pc = "stages" /\ UNCHANGED <<mark, saved>> BY <1>9, StageStep
  <2>2. CASE Fail(run.task) BY <1>f, <2>1, <2>2 DEF Pruning
  <2>3. CASE Skipped(run.task, Head(run.todo)) \/ Placed(run.task, Head(run.todo))
    BY <1>u, <2>1, <2>3 DEF Skipped, Placed
  <2> QED BY <1>9, <2>2, <2>3, StageStep
<1>10. CASE SyncFile \/ SyncParents \/ SyncResult BY <1>10, <1>u, SyncStep
<1>11. CASE PublishMarker
  <2> DEFINE s == Head(run.todo)
  <2>1. run.pc \in Committing BY <1>11, PublishMarkerIs DEF Committing
  <2>2. run.task \in Tasks /\ s \in Stages /\ rec[run.task].state = "active" BY <2>1, CommitsIs
  <2>3. /\ UNCHANGED <<rec, saved>>
        /\ \A u \in Tasks, r \in Stages : u # run.task \/ r # s => mark'[u][r] = mark[u][r]
    BY <1>11, PublishMarkerIs
  <2> HIDE DEF s
  <2>4. Settled BY <1>0, <2>2, <2>3 DEF Settled, TaskFits
  <2> QED BY <2>3, <2>4, TaskingStays
<1>12. CASE SyncMarker
  <2> DEFINE s == Head(run.todo)
  <2>1. run.pc \in Committing BY <1>12, SyncMarkerIs DEF Committing
  <2>2. run.task \in Tasks /\ s \in Stages /\ rec[run.task].state = "active" BY <2>1, CommitsIs
  <2>3. /\ UNCHANGED <<rec, saved>>
        /\ \A u \in Tasks, r \in Stages : u # run.task \/ r # s => mark'[u][r] = mark[u][r]
    BY <1>12, SyncMarkerIs
  <2> HIDE DEF s
  <2>4. Settled BY <1>0, <2>2, <2>3 DEF Settled, TaskFits
  <2> QED BY <2>3, <2>4, TaskingStays
<1>13. CASE PublishResult BY <1>13, <1>u, PublishResultIs
<1>14. CASE Finish
  <2>1. Settled BY <1>14, <1>0, FinishIs DEF Settled, TaskFits
  <2> QED BY <2>1, TaskingStays
<1>15. CASE RemoveCopy BY <1>15, <1>u, RemoveCopyIs
<1>16. CASE CopiesGone BY <1>16, <1>u, CopiesGoneIs
<1>17. CASE CleanedUp
  <2>1. Settled BY <1>17, <1>0, CleanedUpIs DEF Settled, TaskFits
  <2> QED BY <2>1, TaskingStays
<1>18. CASE Crash
  <2>1. Settled
    <3>1. ASSUME NEW t \in Tasks
          PROVE /\ rec'[t].plan = rec[t].plan /\ rec'[t].kept = rec[t].kept
                /\ rec'[t].state \in {"none", "queued"} => ~rec[t].kept
                /\ rec'[t].state \in {"active", "succeeded"} => rec[t].kept
                /\ rec[t].state = "succeeded" => rec'[t].state = "succeeded"
                /\ rec'[t].pruned => rec'[t].state = "succeeded"
                /\ saved'[t].is => saved[t].is /\ saved'[t].id = saved[t].id
      <4>1. rec'[t].plan = rec[t].plan /\ (saved'[t].is => saved[t].is /\ saved'[t].id = saved[t].id)
        BY <1>18, CrashIs
      <4>2. /\ rec[t].state \in {"queued", "active"} => rec'[t].state = "stopped"
            /\ rec[t].state \notin {"queued", "active"} => rec'[t].state = rec[t].state
            /\ rec'[t].pruned = rec[t].pruned /\ rec'[t].kept = rec[t].kept
        BY <1>18, CrashIs
      <4>3. TaskFits(t) BY <1>0
      <4> QED BY <4>1, <4>2, <4>3 DEF TaskFits
    <3>2. \A t \in Tasks, s \in Stages : mark'[t][s].is => mark[t][s].is BY <1>18, CrashIs
    <3> QED BY <1>0, <3>1, <3>2 DEF Settled, TaskFits
  <2> QED BY <2>1, TaskingStays
<1>19. CASE Pause BY <1>19, PauseIs, <1>0, StateSet, TaskingStays DEF Settled, TaskFits
<1>20. CASE \E n \in Names : Harm(n) BY <1>20, <1>u, HarmIs
<1>21. CASE Republish BY <1>21, <1>u DEF Republish
<1>22. CASE UNCHANGED What BY <1>22, <1>u DEF What
<1> QED BY <1>1, <1>2, <1>3, <1>4, <1>5, <1>6, <1>7, <1>8, <1>9, <1>10, <1>11, <1>12, <1>13, <1>14, <1>15, <1>16, <1>17, <1>18, <1>19, <1>20, <1>21, <1>22, <1>b, StepsAre DEF Works

\* The run ends.
LEMMA RunEnds ==
    ASSUME TasksInv, run' = Idle, \A t \in Tasks : rec'[t].state # "active" PROVE RunFits'
<1>1. run'.pc = "idle" /\ run'.gone = {} /\ run'.name = "" BY InvIs, RunSet
<1> QED BY <1>1 DEF RunFits, Pruning, Committing
\* A run starts.
LEMMA RunStarts ==
    ASSUME TasksInv, NEW t \in Tasks, run.pc = "idle", rec'[t].state = "active",
           \A u \in Tasks : u # t => rec'[u].state = rec[u].state,
           run'.pc = "open", run'.task = t, run'.gone = {}, run'.name = ""
    PROVE RunFits'
<1>1. \A u \in Tasks : rec[u].state # "active" BY InvIs DEF RunFits
<1> QED BY <1>1 DEF RunFits, Pruning, Committing
\* The run goes on with the task it works on.
LEMMA RunGoes ==
    ASSUME TasksInv, run.pc \notin {"idle"} \cup Pruning, run'.pc \notin {"idle", "open"} \cup Pruning,
           run'.task = run.task, \A t \in Tasks : rec'[t].state = rec[t].state,
           saved'[run.task].is, run'.id = saved'[run.task].id, run'.pc # "opened" => saved'[run.task].safe,
           run'.name \notin {"model", "result"}, run'.gone = run.gone,
           run'.pc \in {"revise", "inherit"} => run.task = "next",
           run'.pc \in Committing => run'.ret \in {"stages", "inherit"} /\ (run'.ret = "inherit" => run.task = "next"),
           run'.pc = "revise" => run'.todo = <<>>
    PROVE RunFits'
<1>1. RunFits /\ run'.gone = {} BY InvIs DEF RunFits, Pruning
<1>2. \A t \in Tasks : rec'[t].state = "active" <=> t = run'.task /\ run'.pc \notin {"idle"} \cup Pruning
  BY <1>1 DEF RunFits
<1> QED BY <1>1, <1>2 DEF RunFits

\* Every step keeps the task and the identity of the run.
LEMMA RunStep == TasksInv /\ [TasksNext]_taskVars => RunFits'
<1> SUFFICES ASSUME TasksInv, [TasksNext]_taskVars PROVE RunFits' OBVIOUS
<1>0. TasksType /\ RunFits BY InvIs
<1>e. ASSUME NEW x \in {"stopped", "failed"}, run.task \in Tasks, rec' = [rec EXCEPT ![run.task].state = x], run' = Idle
      PROVE RunFits'
  <2>1. rec'[run.task].state = x /\ \A u \in Tasks : u # run.task => rec'[u].state = rec[u].state
    BY <1>0, <1>e, StateSet
  <2>2. \A u \in Tasks : u # run.task => rec[u].state # "active" BY <1>0 DEF RunFits
  <2>3. \A u \in Tasks : rec'[u].state # "active" BY <2>1, <2>2
  <2> QED BY <1>e, <2>3, RunEnds
<1>f. ASSUME Fail(run.task), run.pc \notin {"idle"} \cup Pruning PROVE RunFits' BY <1>e, <1>f, FailIs
<1>g. ASSUME run.pc \notin {"idle", "open", "opened"} \cup Pruning, run'.pc \notin {"idle", "open"} \cup Pruning,
             run'.task = run.task, \A t \in Tasks : rec'[t].state = rec[t].state, UNCHANGED saved,
             run'.id = run.id, run'.name \notin {"model", "result"} \/ run'.name = run.name, run'.gone = run.gone,
             run'.pc \in {"revise", "inherit"} => run.task = "next", run'.pc # "revise",
             run'.pc \in Committing => run'.ret \in {"stages", "inherit"} /\ (run'.ret = "inherit" => run.task = "next")
      PROVE RunFits'
  BY <1>0, <1>g, RunGoes DEF RunFits
<1>1. CASE \E t \in Tasks, p \in Recipes : Make(t, p)
  <2> PICK t \in Tasks, p \in Recipes : Make(t, p) BY <1>1
  <2>1. /\ run.pc = "idle" /\ rec'[t].state = "active" /\ \A u \in Tasks : u # t => rec'[u] = rec[u]
        /\ run'.pc = "open" /\ run'.task = t /\ run'.gone = {} /\ run'.name = ""
    BY MakeFits, MakeIs
  <2>2. \A u \in Tasks : u # t => rec'[u].state = rec[u].state BY <2>1
  <2> QED BY <2>1, <2>2, RunStarts
<1>b. CASE \E t \in Tasks : Books(t)
  <2> PICK t \in Tasks : Books(t) BY <1>b
  <2>1. PICK x \in {"queued", "failed"} : rec' = [rec EXCEPT ![t].state = x] BY BookIs
  <2>2. rec'[t].state = x /\ \A u \in Tasks : u # t => rec'[u].state = rec[u].state BY <1>0, <2>1, StateSet
  <2>3. run.pc = "idle" /\ run'.pc = "idle" /\ run'.gone = {} /\ run'.name \notin {"model", "result"}
    BY BookIs
  <2>4. \A u \in Tasks : rec[u].state # "active" BY <1>0, <2>3 DEF RunFits
  <2>5. \A u \in Tasks : rec'[u].state # "active" BY <2>1, <2>2, <2>4
  <2> QED BY <2>3, <2>5 DEF RunFits, Pruning, Committing
<1>2. CASE \E t \in Tasks : Resume(t)
  <2> PICK t \in Tasks : Resume(t) BY <1>2
  <2>1. /\ run.pc = "idle" /\ rec' = [rec EXCEPT ![t].state = "active"]
        /\ run'.pc = "open" /\ run'.task = t /\ run'.gone = {} /\ run'.name = ""
    BY ResumeIs
  <2>2. rec'[t].state = "active" /\ \A u \in Tasks : u # t => rec'[u].state = rec[u].state
    BY <1>0, <2>1, StateSet
  <2> QED BY <2>1, <2>2, RunStarts
<1>3. CASE \E t \in Tasks : CleanUp(t)
  <2> PICK t \in Tasks : CleanUp(t) BY <1>3
  <2>1. /\ run.pc = "idle" /\ rec[t].state = "succeeded" /\ ~rec[t].pruned /\ UNCHANGED <<rec, saved>>
        /\ run'.pc = "prune" /\ run'.task = t /\ run'.name = ""
    BY CleanUpStep
  <2> QED BY <1>0, <2>1 DEF RunFits, Pruning, Committing
<1>4. CASE Open
  <2>1. /\ run.pc = "open" /\ run.pc \notin {"idle"} \cup Pruning
        /\ UNCHANGED mark
    BY <1>4, OpenIs DEF Pruning
  <2>2. CASE Fail(run.task) BY <1>f, <2>1, <2>2
  <2>3. CASE ~Fail(run.task)
    <3>1. /\ UNCHANGED rec /\ run'.pc = "opened" /\ run'.task = run.task /\ run'.name = run.name
          /\ run'.gone = run.gone /\ saved'[run.task].is /\ saved'[run.task].id = run'.id
      BY <1>4, <2>3, OpenIs
    <3>2. run'.pc \notin {"idle", "open"} \cup Pruning /\ run'.pc \notin {"revise", "inherit"} \cup Committing
      BY <3>1 DEF Pruning, Committing
    <3> QED BY <1>0, <2>1, <3>1, <3>2, RunGoes DEF RunFits
  <2> QED BY <2>2, <2>3
<1>5. CASE OpenSynced
  <2>1. /\ run.pc = "opened" /\ saved[run.task].is /\ UNCHANGED rec
        /\ saved'[run.task].is /\ saved'[run.task].safe /\ saved'[run.task].id = saved[run.task].id
        /\ run'.task = run.task /\ run'.id = run.id /\ run'.gone = run.gone /\ run'.name = run.name
        /\ \/ run'.pc = "revise" /\ run.task = "next" /\ run'.todo = <<>>
           \/ run'.pc = "stages"
    BY <1>5, OpenSyncedIs
  <2>2. /\ run.pc \notin {"idle", "open"} \cup Pruning /\ run'.pc \notin {"idle", "open"} \cup Pruning
        /\ run'.pc \notin {"inherit"} \cup Committing
    BY <2>1 DEF Pruning, Committing
  <2>3. run'.id = saved'[run.task].id BY <1>0, <2>1, <2>2 DEF RunFits
  <2> QED BY <1>0, <2>1, <2>2, <2>3, RunGoes DEF RunFits
<1>6. CASE Revise
  <2>1. run.pc = "revise" /\ run.task = "next" /\ UNCHANGED saved /\ run.pc \notin {"idle", "open", "opened"} \cup Pruning
    BY <1>6, ReviseIs DEF Pruning
  <2>2. CASE Fail(run.task) BY <1>f, <2>1, <2>2
  <2>3. CASE ~Fail(run.task)
    <3>1. /\ UNCHANGED rec /\ run'.pc = "inherit" /\ run'.task = run.task /\ run'.id = run.id
          /\ run'.gone = run.gone /\ run'.name = run.name
      BY <1>6, <2>3, ReviseIs
    <3>2. run'.pc \notin {"idle", "open"} \cup Pruning /\ run'.pc \notin Committing
      BY <3>1 DEF Pruning, Committing
    <3> QED BY <1>g, <2>1, <3>1, <3>2
  <2> QED BY <2>2, <2>3
<1>7. CASE Inherit
  <2> DEFINE s == Head(run.todo)
  <2>1. /\ run.pc = "inherit" /\ UNCHANGED saved /\ s \in Stages /\ run.pc \notin {"idle", "open", "opened"} \cup Pruning
        /\ Fail(run.task) \/ Skipped(run.task, s) \/ Placed(run.task, s)
    BY <1>7, InheritStep DEF Pruning
  <2> HIDE DEF s
  <2>2. CASE Fail(run.task) BY <1>f, <2>1, <2>2
  <2>3. CASE Skipped(run.task, s)
    <3>1. /\ UNCHANGED rec /\ run'.pc = "inherit" /\ run'.task = run.task /\ run'.id = run.id
          /\ run'.gone = run.gone /\ run'.name = run.name
      BY <2>1, <2>3 DEF Skipped
    <3>2. run'.pc \notin {"idle", "open"} \cup Pruning /\ run'.pc \notin Committing
      BY <3>1 DEF Pruning, Committing
    <3>3. run.pc \in {"revise", "inherit"} => run.task = "next" BY <1>0 DEF RunFits
    <3> QED BY <1>g, <2>1, <3>1, <3>2, <3>3
  <2>4. CASE Placed(run.task, s)
    <3>1. /\ UNCHANGED rec /\ run'.pc = "computed" /\ run'.task = run.task /\ run'.id = run.id
          /\ run'.gone = run.gone /\ run'.ret = "inherit" /\ NameFits(run.task, s, run'.name)
      BY <2>1, <2>4 DEF Placed
    <3>2. run'.pc \notin {"idle", "open"} \cup Pruning /\ run'.pc \notin {"revise", "inherit"}
      BY <3>1 DEF Pruning
    <3>3. run.pc \in {"revise", "inherit"} => run.task = "next" BY <1>0 DEF RunFits
    <3>4. run'.name \notin {"model", "result"} BY <2>1, <3>1, KeepsApart
    <3> QED BY <1>g, <2>1, <3>1, <3>2, <3>3, <3>4
  <2> QED BY <2>1, <2>2, <2>3, <2>4
<1>8. CASE Inherited
  <2>1. /\ run.pc = "inherit" /\ run.task = "next" /\ "next" \in Tasks /\ UNCHANGED saved
        /\ rec'["first"] = rec["first"] /\ rec'["next"].state = rec["next"].state
        /\ run'.pc = "stages" /\ run'.task = run.task /\ run'.id = run.id /\ run'.gone = run.gone /\ run'.name = run.name
    BY <1>8, InheritedStep
  <2>2. /\ run.pc \notin {"idle", "open", "opened"} \cup Pruning
        /\ run'.pc \notin {"idle", "open"} \cup Pruning /\ run'.pc \notin {"revise", "inherit"} \cup Committing
    BY <2>1 DEF Pruning, Committing
  <2>3. \A t \in Tasks : rec'[t].state = rec[t].state BY <2>1 DEF Tasks
  <2> QED BY <1>g, <2>1, <2>2, <2>3
<1>9. CASE Stage
  <2> DEFINE s == Head(run.todo)
  <2>1. /\ run.pc = "stages" /\ UNCHANGED saved /\ s \in Stages /\ run.pc \notin {"idle", "open", "opened"} \cup Pruning
        /\ Fail(run.task) \/ Skipped(run.task, s) \/ Placed(run.task, s)
    BY <1>9, StageStep DEF Pruning
  <2> HIDE DEF s
  <2>2. CASE Fail(run.task) BY <1>f, <2>1, <2>2
  <2>3. CASE Skipped(run.task, s)
    <3>1. /\ UNCHANGED rec /\ run'.pc = "stages" /\ run'.task = run.task /\ run'.id = run.id
          /\ run'.gone = run.gone /\ run'.name = run.name
      BY <2>1, <2>3 DEF Skipped
    <3>2. run'.pc \notin {"idle", "open"} \cup Pruning /\ run'.pc \notin Committing
      BY <3>1 DEF Pruning, Committing
    <3>3. run.pc \in {"revise", "inherit"} => run.task = "next" BY <1>0 DEF RunFits
    <3> QED BY <1>g, <2>1, <3>1, <3>2, <3>3
  <2>4. CASE Placed(run.task, s)
    <3>1. /\ UNCHANGED rec /\ run'.pc = "computed" /\ run'.task = run.task /\ run'.id = run.id
          /\ run'.gone = run.gone /\ run'.ret = "stages" /\ NameFits(run.task, s, run'.name)
      BY <2>1, <2>4 DEF Placed
    <3>2. run'.pc \notin {"idle", "open"} \cup Pruning /\ run'.pc \notin {"revise", "inherit"}
      BY <3>1 DEF Pruning
    <3>3. run.pc \in {"revise", "inherit"} => run.task = "next" BY <1>0 DEF RunFits
    <3>4. run'.name \notin {"model", "result"} BY <2>1, <3>1, KeepsApart
    <3> QED BY <1>g, <2>1, <3>1, <3>2, <3>3, <3>4
  <2> QED BY <2>1, <2>2, <2>3, <2>4
<1>h. ASSUME UNCHANGED <<rec, saved>>, run'.task = run.task, run'.id = run.id, run'.gone = run.gone, run'.name = run.name,
             \/ run'.ret = run.ret /\ <<run.pc, run'.pc>> \in {<<"computed", "synced">>, <<"synced", "placed">>,
                                                            <<"placed", "marked">>, <<"published", "finish">>}
             \/ run.pc = "marked" /\ run'.pc = run.ret
             \/ run.pc = "stages" /\ run'.pc = "published"
      PROVE  RunFits'
  <2>1. /\ run.pc \notin {"idle", "open", "opened"} \cup Pruning
        /\ run'.pc \notin {"idle", "open"} \cup Pruning /\ run'.pc # "revise"
        /\ run'.pc \in Committing => run.pc \in Committing
    BY <1>0, <1>h DEF Pruning, Committing, RunFits
  <2>2. /\ run'.pc \in Committing => run'.ret \in {"stages", "inherit"} /\ (run'.ret = "inherit" => run.task = "next")
        /\ run'.pc = "inherit" => run.task = "next"
    BY <1>0, <1>h, <2>1 DEF RunFits, Committing
  <2> QED BY <1>g, <1>h, <2>1, <2>2
<1>10. CASE SyncFile \/ SyncParents \/ SyncResult
  <2>1. /\ UNCHANGED <<rec, saved>> /\ run'.task = run.task /\ run'.id = run.id
        /\ run'.gone = run.gone /\ run'.name = run.name
        /\ run'.ret = run.ret
        /\ \/ run.pc = "computed" /\ run'.pc = "synced"
           \/ run.pc = "synced" /\ run'.pc = "placed"
           \/ run.pc = "published" /\ run'.pc = "finish"
    BY <1>10, SyncStep
  <2> QED BY <1>h, <2>1
<1>11. CASE PublishMarker
  <2>1. /\ UNCHANGED <<rec, saved>> /\ run'.task = run.task /\ run'.id = run.id
        /\ run'.gone = run.gone /\ run'.name = run.name
        /\ run'.ret = run.ret /\ run.pc = "placed" /\ run'.pc = "marked"
    BY <1>11, PublishMarkerIs
  <2> QED BY <1>h, <2>1
<1>12. CASE SyncMarker BY <1>12, SyncMarkerIs, <1>h
<1>13. CASE PublishResult BY <1>13, PublishResultIs, <1>h
<1>14. CASE Finish
  <2> DEFINE t == run.task
  <2>1. /\ run.pc = "finish" /\ run' = Idle /\ rec'[t].state = "succeeded"
        /\ \A u \in Tasks : u # t => rec'[u] = rec[u]
    BY <1>14, FinishIs
  <2>2. \A u \in Tasks : u # t => rec[u].state # "active" BY <1>0 DEF RunFits
  <2>3. \A u \in Tasks : rec'[u].state # "active" BY <2>1, <2>2
  <2> QED BY <2>1, <2>3, RunEnds
<1>15. CASE RemoveCopy BY <1>15, RemoveCopyIs, <1>0 DEF RunFits, Pruning, Committing
<1>16. CASE CopiesGone BY <1>16, CopiesGoneIs, <1>0 DEF RunFits, Pruning, Committing
<1>17. CASE CleanedUp
  <2> DEFINE t == run.task
  <2>1. /\ run.pc = "pruned" /\ run' = Idle /\ rec'[t].state = "succeeded"
        /\ \A u \in Tasks : u # t => rec'[u] = rec[u]
    BY <1>17, CleanedUpIs
  <2>2. \A u \in Tasks : rec[u].state # "active" BY <1>0, <2>1 DEF RunFits, Pruning
  <2>3. \A u \in Tasks : rec'[u].state # "active" BY <2>1, <2>2
  <2> QED BY <2>1, <2>3, RunEnds
<1>18. CASE Crash BY <1>18, CrashIs, SMTT(30), RunEnds
<1>19. CASE Pause BY <1>19, PauseIs, <1>e
<1>20. CASE \E n \in Names : Harm(n) BY <1>20, <1>0, HarmIs DEF RunFits
<1>21. CASE Republish BY <1>21, <1>0 DEF Republish, RunFits
<1>22. CASE UNCHANGED What BY <1>22, <1>0 DEF What, RunFits
<1> QED BY <1>1, <1>2, <1>3, <1>4, <1>5, <1>6, <1>7, <1>8, <1>9, <1>10, <1>11, <1>12, <1>13, <1>14, <1>15, <1>16, <1>17, <1>18, <1>19, <1>20, <1>21, <1>22, <1>b, StepsAre DEF Works

----------------------------------------
(* The layer of what is synchronised. *)

\* Whenever nothing is being committed or published, everything is durable.
LEMMA QuietIs ==
    ASSUME TasksInv, run.pc \notin {"computed", "synced", "published"}
    PROVE \A t \in Tasks, n \in Names : file[t][n].safe = 2
<1> SUFFICES ASSUME NEW t \in Tasks, NEW n \in Names PROVE file[t][n].safe = 2 OBVIOUS
<1>1. file[t][n].safe \in 0..2 BY InvIs, TypesAre DEF FileType
<1>2. ~(file[t][n].safe < 2) BY InvIs DEF SyncFits
<1> QED BY <1>1, <1>2
\* Every marker is synchronised, unless one is being published.
LEMMA MarksAreQuiet ==
    ASSUME TasksInv, run.pc # "marked"
    PROVE \A t \in Tasks, s \in Stages : mark[t][s].is => mark[t][s].safe
  BY InvIs DEF SyncFits
\* When everything is synchronised the layer holds.
LEMMA SyncQuiet ==
    ASSUME \A t \in Tasks, n \in Names : file'[t][n].safe = 2,
           \A t \in Tasks, s \in Stages : mark'[t][s].is => mark'[t][s].safe,
           run'.pc # "synced", RunFits', run'.pc = "prune" => \A x \in run'.gone : x[2].safe = 2
    PROVE SyncFits'
<1>1. \A x \in run'.gone : x[2].safe = 2 BY DEF RunFits
<1>2. \A t \in Tasks, n \in Names : ~(file'[t][n].safe < 2) OBVIOUS
<1> QED BY <1>1, <1>2 DEF SyncFits

\* Every step keeps track of what is not synchronised.
LEMMA SyncedStep == TasksInv /\ [TasksNext]_taskVars => SyncFits'
<1> SUFFICES ASSUME TasksInv, [TasksNext]_taskVars PROVE SyncFits' OBVIOUS
<1>0. TasksType /\ RunFits /\ SyncFits BY InvIs
<1>r. RunFits' BY RunStep
<1>q. ASSUME run.pc \notin {"computed", "synced", "published", "marked"}, UNCHANGED <<file, mark>>,
             run'.pc \notin {"synced", "prune"}
      PROVE SyncFits'
  BY <1>q, <1>r, QuietIs, MarksAreQuiet, SyncQuiet
<1>1. CASE \E t \in Tasks, p \in Recipes : Make(t, p)
  <2> PICK t \in Tasks, p \in Recipes : Make(t, p) BY <1>1
  <2>1. /\ run.pc = "idle" /\ UNCHANGED mark /\ run'.pc = "open"
        /\ file'[t]["model"].safe = 2 /\ file'[t]["source"].safe = 2
        /\ \A u \in Tasks, n \in Names : u # t \/ n \notin {"model", "source"} => file'[u][n] = file[u][n]
    BY MakeFits, MakeIs
  <2>2. \A u \in Tasks, n \in Names : file[u][n].safe = 2 BY <2>1, QuietIs
  <2>3. \A u \in Tasks, n \in Names : file'[u][n].safe = 2 BY <2>1, <2>2
  <2>4. \A u \in Tasks, s \in Stages : mark'[u][s].is => mark'[u][s].safe BY <2>1, MarksAreQuiet
  <2> QED BY <1>r, <2>1, <2>3, <2>4, SyncQuiet
<1>b. CASE \E t \in Tasks : Books(t) BY <1>b, <1>q, BookIs
<1>2. CASE \E t \in Tasks : Resume(t)
  <2> PICK t \in Tasks : Resume(t) BY <1>2
  <2>1. run.pc = "idle" /\ UNCHANGED <<file, mark>> /\ run'.pc = "open" BY ResumeIs
  <2> QED BY <1>q, <2>1
<1>3. CASE \E t \in Tasks : CleanUp(t)
  <2> PICK t \in Tasks : CleanUp(t) BY <1>3
  <2>1. run.pc = "idle" /\ UNCHANGED <<file, mark>> /\ run'.pc = "prune" /\ run'.gone = {} BY CleanUpStep
  <2> QED BY <1>r, <2>1, QuietIs, MarksAreQuiet, SyncQuiet
<1>4. CASE Open BY <1>4, <1>0, OpenIs, FailIs, RunSet, <1>q DEF Fail
<1>5. CASE OpenSynced BY <1>5, OpenSyncedIs, <1>q
<1>6. CASE Revise BY <1>6, <1>0, ReviseIs, RunSet, <1>q DEF Fail
<1>7. CASE Inherit
  <2> DEFINE s == Head(run.todo)
             t == run.task
  <2>1. /\ run.pc = "inherit" /\ UNCHANGED mark /\ s \in Stages /\ t \in Tasks
        /\ (Fail(t) /\ UNCHANGED file) \/ Skipped(t, s) \/ Placed(t, s)
    BY <1>7, InheritStep, <1>0, RunSet
  <2> HIDE DEF s
  <2>2. CASE Fail(t) /\ UNCHANGED file
    <3>1. run'.pc \notin {"synced", "prune"} BY <1>0, <2>2, RunSet DEF Fail
    <3> QED BY <1>q, <2>1, <2>2, <3>1
  <2>3. CASE Skipped(t, s)
    <3>1. run'.pc \notin {"synced", "prune"} /\ UNCHANGED file BY <2>1, <2>3 DEF Skipped
    <3> QED BY <1>q, <2>1, <3>1
  <2>4. CASE Placed(t, s)
    <3>1. /\ run'.pc = "computed" /\ run'.task = t
          /\ \A u \in Tasks, n \in Names : u # t \/ n # run'.name => file'[u][n] = file[u][n]
      BY <2>4 DEF Placed
    <3>2. \A u \in Tasks, n \in Names : file[u][n].safe = 2 BY <2>1, QuietIs
    <3>3. \A u \in Tasks, n \in Names : file'[u][n].safe < 2 => u = run'.task /\ n = run'.name BY <3>1, <3>2
    <3>4. \A u \in Tasks, r \in Stages : mark'[u][r].is => mark'[u][r].safe BY <2>1, MarksAreQuiet
    <3>5. run'.gone = {} BY <1>r, <3>1 DEF RunFits
    <3> HIDE DEF t
    <3> QED BY <3>1, <3>3, <3>4, <3>5 DEF SyncFits
  <2> QED BY <2>1, <2>2, <2>3, <2>4
<1>8. CASE Inherited BY <1>8, InheritedStep, <1>q
<1>9. CASE Stage
  <2> DEFINE s == Head(run.todo)
             t == run.task
  <2>1. /\ run.pc = "stages" /\ UNCHANGED mark /\ s \in Stages /\ t \in Tasks
        /\ (Fail(t) /\ UNCHANGED file) \/ Skipped(t, s) \/ Placed(t, s)
    BY <1>9, StageStep, <1>0, RunSet
  <2> HIDE DEF s
  <2>2. CASE Fail(t) /\ UNCHANGED file
    <3>1. run'.pc \notin {"synced", "prune"} BY <1>0, <2>2, RunSet DEF Fail
    <3> QED BY <1>q, <2>1, <2>2, <3>1
  <2>3. CASE Skipped(t, s)
    <3>1. run'.pc \notin {"synced", "prune"} /\ UNCHANGED file BY <2>1, <2>3 DEF Skipped
    <3> QED BY <1>q, <2>1, <3>1
  <2>4. CASE Placed(t, s)
    <3>1. /\ run'.pc = "computed" /\ run'.task = t
          /\ \A u \in Tasks, n \in Names : u # t \/ n # run'.name => file'[u][n] = file[u][n]
      BY <2>4 DEF Placed
    <3>2. \A u \in Tasks, n \in Names : file[u][n].safe = 2 BY <2>1, QuietIs
    <3>3. \A u \in Tasks, n \in Names : file'[u][n].safe < 2 => u = run'.task /\ n = run'.name BY <3>1, <3>2
    <3>4. \A u \in Tasks, r \in Stages : mark'[u][r].is => mark'[u][r].safe BY <2>1, MarksAreQuiet
    <3>5. run'.gone = {} BY <1>r, <3>1 DEF RunFits
    <3> HIDE DEF t
    <3> QED BY <3>1, <3>3, <3>4, <3>5 DEF SyncFits
  <2> QED BY <2>1, <2>2, <2>3, <2>4
<1>10. CASE SyncFile \/ SyncParents \/ SyncResult
  <2> DEFINE t == run.task
             n == Syncing
  <2>1. /\ run.pc \in {"computed", "synced", "published"} /\ t \in Tasks /\ n \in Names
        /\ run'.task = t /\ run'.name = run.name /\ UNCHANGED mark
        /\ run.pc = "computed" => run'.pc = "synced" /\ file'[t][n].safe \in {1, 2}
        /\ run.pc = "synced" => run'.pc = "placed" /\ file'[t][n].safe = 2
        /\ run.pc = "published" => run'.pc = "finish" /\ file'[t][n].safe = 2
        /\ \A u \in Tasks, m \in Names : u # t \/ m # n => file'[u][m] = file[u][m]
    BY <1>10, SyncStep
  <2>2. n = (IF run.pc = "published" THEN "result" ELSE run.name) BY DEF Syncing
  <2> HIDE DEF t, n
  <2>3. \A u \in Tasks, m \in Names : u # t \/ m # n => ~(file[u][m].safe < 2)
    BY <1>0, <2>1, <2>2 DEF SyncFits, t
  <2>4. \A u \in Tasks, m \in Names : file'[u][m].safe < 2 => u = t /\ m = n /\ run.pc = "computed"
    BY <2>1, <2>3
  <2>5. \A u \in Tasks, r \in Stages : mark'[u][r].is => mark'[u][r].safe BY <2>1, MarksAreQuiet
  <2>6. run'.gone = {} BY <1>r, <2>1 DEF RunFits
  <2>7. run'.pc = "synced" => run.pc = "computed" /\ n = run'.name BY <2>1, <2>2
  <2>8. run'.pc = "synced" => file'[run'.task][run'.name].safe # 0 BY <2>1, <2>7
  <2> QED BY <2>1, <2>2, <2>4, <2>5, <2>6, <2>8 DEF SyncFits
<1>11. CASE PublishMarker
  <2> DEFINE t == run.task
             s == Head(run.todo)
  <2>1. /\ run.pc = "placed" /\ run'.pc = "marked" /\ run'.task = t /\ Head(run'.todo) = s /\ UNCHANGED file
        /\ \A u \in Tasks, r \in Stages : u # t \/ r # s => mark'[u][r] = mark[u][r]
    BY <1>11, PublishMarkerIs
  <2> HIDE DEF t, s
  <2>2. \A u \in Tasks, n \in Names : ~(file[u][n].safe < 2) BY <2>1, QuietIs
  <2>3. \A u \in Tasks, r \in Stages : mark[u][r].is => mark[u][r].safe BY <2>1, MarksAreQuiet
  <2>4. \A u \in Tasks, r \in Stages : mark'[u][r].is /\ ~mark'[u][r].safe => u = t /\ r = s BY <2>1, <2>3
  <2>5. run'.gone = {} BY <1>r, <2>1 DEF RunFits
  <2> QED BY <2>1, <2>2, <2>4, <2>5 DEF SyncFits
<1>12. CASE SyncMarker
  <2> DEFINE t == run.task
             s == Head(run.todo)
  <2>1. /\ run.pc = "marked" /\ run'.pc = run.ret /\ UNCHANGED file /\ mark'[t][s].safe
        /\ \A u \in Tasks, r \in Stages : u # t \/ r # s => mark'[u][r] = mark[u][r]
    BY <1>12, SyncMarkerIs
  <2>2. run.ret \in {"stages", "inherit"} BY <1>0, <2>1 DEF RunFits, Committing
  <2>3. \A u \in Tasks, r \in Stages : mark[u][r].is /\ ~mark[u][r].safe => u = t /\ r = s
    BY <1>0 DEF SyncFits
  <2> HIDE DEF t, s
  <2>4. \A u \in Tasks, r \in Stages : mark'[u][r].is => mark'[u][r].safe BY <2>1, <2>3
  <2>5. \A u \in Tasks, n \in Names : file'[u][n].safe = 2 BY <2>1, QuietIs
  <2> QED BY <1>r, <2>1, <2>2, <2>4, <2>5, SyncQuiet
<1>13. CASE PublishResult
  <2> DEFINE t == run.task
  <2>1. /\ run.pc = "stages" /\ run'.pc = "published" /\ run'.task = t /\ UNCHANGED mark
        /\ \A u \in Tasks, n \in Names : u # t \/ n # "result" => file'[u][n] = file[u][n]
    BY <1>13, PublishResultIs
  <2> HIDE DEF t
  <2>2. \A u \in Tasks, n \in Names : ~(file[u][n].safe < 2) BY <2>1, QuietIs
  <2>3. \A u \in Tasks, n \in Names : file'[u][n].safe < 2 => u = t /\ n = "result" BY <2>1, <2>2
  <2>4. \A u \in Tasks, r \in Stages : mark'[u][r].is => mark'[u][r].safe BY <2>1, MarksAreQuiet
  <2>5. run'.gone = {} BY <1>r, <2>1 DEF RunFits
  <2> QED BY <2>1, <2>3, <2>4, <2>5 DEF SyncFits
<1>14. CASE Finish BY <1>14, FinishIs, <1>0, <1>q, RunSet
<1>15. CASE RemoveCopy
  <2> DEFINE t == run.task
             n == Head(run.todo)
  <2>1. /\ run.pc = "prune" /\ run'.pc = "prune" /\ t \in Tasks /\ n \in Names /\ UNCHANGED mark
        /\ \A x \in run'.gone : x \in run.gone \/ (x[1] = n /\ x[2] = file[t][n])
        /\ file'[t][n] = Absent
        /\ \A u \in Tasks, m \in Names : u # t \/ m # n => file'[u][m] = file[u][m]
    BY <1>15, RemoveCopyIs
  <2> HIDE DEF t, n
  <2>2. \A u \in Tasks, m \in Names : file[u][m].safe = 2 BY <2>1, QuietIs
  <2>3. \A u \in Tasks, m \in Names : file'[u][m].safe = 2 BY <2>1, <2>2 DEF Absent
  <2>4. \A u \in Tasks, r \in Stages : mark'[u][r].is => mark'[u][r].safe BY <2>1, MarksAreQuiet
  <2>5. \A x \in run'.gone : x[2].safe = 2 BY <1>0, <2>1, <2>2 DEF SyncFits
  <2> QED BY <1>r, <2>1, <2>3, <2>4, <2>5, SyncQuiet
<1>16. CASE CopiesGone BY <1>16, CopiesGoneIs, <1>q
<1>17. CASE CleanedUp BY <1>17, CleanedUpIs, <1>0, <1>q, RunSet
<1>18. CASE Crash
  <2>1. /\ run' = Idle /\ \A t \in Tasks, n \in Names : file'[t][n].safe = 2
        /\ \A t \in Tasks, s \in Stages : mark'[t][s].is => mark'[t][s].safe
    BY <1>18, CrashIs
  <2> QED BY <1>0, <1>r, <2>1, RunSet, SyncQuiet
<1>19. CASE Pause BY <1>19, PauseIs, <1>0, <1>q, RunSet
<1>20. CASE \E n \in Names : Harm(n)
  <2> PICK n \in Names : Harm(n) BY <1>20
  <2>1. /\ run.pc = "idle" /\ UNCHANGED <<run, mark>> /\ file'["first"][n].safe = 2
        /\ \A u \in Tasks, m \in Names : u # "first" \/ m # n => file'[u][m] = file[u][m]
    BY HarmIs
  <2>2. \A u \in Tasks, m \in Names : file[u][m].safe = 2 BY <2>1, QuietIs
  <2>3. \A u \in Tasks, m \in Names : file'[u][m].safe = 2 BY <2>1, <2>2
  <2>4. \A u \in Tasks, s \in Stages : mark'[u][s].is => mark'[u][s].safe BY <2>1, MarksAreQuiet
  <2> QED BY <1>r, <2>1, <2>3, <2>4, SyncQuiet
<1>21. CASE Republish BY <1>21, <1>0 DEF Republish, SyncFits
<1>22. CASE UNCHANGED What BY <1>22, <1>0 DEF What, SyncFits
<1> QED BY <1>1, <1>2, <1>3, <1>4, <1>5, <1>6, <1>7, <1>8, <1>9, <1>10, <1>11, <1>12, <1>13, <1>14, <1>15, <1>16, <1>17, <1>18, <1>19, <1>20, <1>21, <1>22, <1>b, StepsAre DEF Works

----------------------------------------
(* The layer of the inputs. *)

Working == run.pc \notin {"idle", "open"} \cup Pruning
\* A step that leaves the copies of the inputs alone.
LEMMA InputsStay ==
    ASSUME TasksInv, UNCHANGED <<voice, harmed>>,
           \A t \in Tasks : file'[t]["source"] = file[t]["source"] /\ file'[t]["model"].c = file[t]["model"].c,
           \A t \in Tasks :
             /\ rec'[t].plan = rec[t].plan /\ rec'[t].model = rec[t].model /\ rec'[t].kept = rec[t].kept
             /\ rec'[t].state \in {"active", "stopped"} => rec[t].state \in {"active", "stopped"}
             /\ saved'[t].is => saved[t].is /\ saved'[t].id = saved[t].id,
           Working' => Working /\ run'.task = run.task /\ run'.id = run.id,
           run'.gone = {} \/ (run'.task = run.task /\ run'.gone = run.gone)
    PROVE InputsFit'
<1>1. InputsFit /\ run.task \in Tasks BY InvIs, RunSet
<1>2. (\A t \in Tasks : file[t]["source"].safe = 2)' BY <1>1 DEF InputsFit
<1>3. (Working => /\ Contents(run.task, "source") = run.id.source
                  /\ Plan(run.task).kind # "preprocess" => Contents(run.task, "model") = run.id.model)'
  BY <1>1 DEF InputsFit, Contents, Plan, Working
<1>4. ASSUME harmed' = {}, NEW t \in Tasks, rec'[t].kept
      PROVE Inputs(t)'
  <2>1. harmed = {} /\ rec[t].kept BY <1>4
  <2>2. Inputs(t) BY <1>1, <2>1 DEF InputsFit
  <2> QED BY <1>4, <2>2 DEF Inputs, Contents, Has, Plan
<1>5. (\A x \in run.gone : x[1] = "model" /\ harmed = {} => x[2].c = rec[run.task].model)'
  BY <1>1 DEF InputsFit
<1> QED BY <1>2, <1>3, <1>4, <1>5 DEF InputsFit, Working

\* At first there is nothing to synchronise and no input.
LEMMA InitInputs == TasksInit => SyncFits /\ InputsFit
<1> SUFFICES ASSUME TasksInit PROVE SyncFits /\ InputsFit OBVIOUS
<1>1. TasksType /\ Idle.pc = "idle" /\ Idle.gone = {} /\ None.is = FALSE BY InitType, RunSet, OrNone
<1>2. run = Idle /\ (\A t \in Tasks, s \in Stages : mark[t][s] = None) BY DEF TasksInit
<1>3. \A t \in Tasks : rec[t].kept = FALSE BY DEF TasksInit
<1>4. \A t \in Tasks, n \in Names : file[t][n].safe = 2 BY DEF TasksInit, Absent
<1>5. \A t \in Tasks, n \in Names : ~(file[t][n].safe < 2) BY <1>4
<1>6. SyncFits BY <1>1, <1>2, <1>5 DEF SyncFits
<1>7. InputsFit BY <1>1, <1>2, <1>3, <1>4, NamesAre DEF InputsFit
<1> QED BY <1>6, <1>7

\* Every step keeps the inputs and what the identities say of them.
LEMMA InputsStep == TasksInv /\ [TasksNext]_taskVars => InputsFit'
<1> SUFFICES ASSUME TasksInv, [TasksNext]_taskVars PROVE InputsFit' OBVIOUS
<1>0. TasksType /\ RunFits /\ SyncFits /\ InputsFit BY InvIs
<1>n. "source" \in Names /\ "model" \in Names BY NamesAre
<1>e. ASSUME NEW x \in {"stopped", "failed"}, run.task \in Tasks, rec[run.task].state = "active",
             rec' = [rec EXCEPT ![run.task].state = x], run' = Idle, UNCHANGED <<file, saved, voice, harmed>>
      PROVE InputsFit'
  <2>1. /\ rec'[run.task].state = x
        /\ \A u \in Tasks :
             /\ rec'[u].plan = rec[u].plan /\ rec'[u].model = rec[u].model /\ rec'[u].kept = rec[u].kept
             /\ u # run.task => rec'[u].state = rec[u].state
    BY <1>0, <1>e, StateSet, ZenonT(60) DEF RecStates
  <2>2. \A u \in Tasks : rec'[u].state \in {"active", "stopped"} => rec[u].state \in {"active", "stopped"}
    BY <1>e, <2>1
  <2>3. ~Working' /\ run'.gone = {} BY <1>0, <1>e, RunSet DEF Working
  <2> QED BY <1>e, <2>1, <2>2, <2>3, InputsStay
<1>f. ASSUME Fail(run.task), run.pc \notin {"idle"} \cup Pruning, UNCHANGED <<file, saved, voice, harmed>> PROVE InputsFit'
  BY <1>e, <1>f, FailIs
<1>1. CASE \E t \in Tasks, p \in Recipes : Make(t, p)
  <2> PICK t \in Tasks, p \in Recipes : Make(t, p) BY <1>1
  <2>0. /\ run.pc = "idle" /\ ~rec[t].kept /\ (t = "next" => rec["first"].state = "succeeded")
        /\ p.kind # "preprocess" /\ request.own => t = "next" /\ Plan("first").kind = "convert" /\ Has("first", "model")
    BY MakeFits DEF Allowed
  <2>1. /\ UNCHANGED <<saved, voice, harmed>> /\ run'.pc = "open" /\ run'.gone = {}
        /\ rec'[t].plan = p /\ rec'[t].model = CreatedModel(p) /\ \A u \in Tasks : u # t => rec'[u] = rec[u]
    BY MakeIs
  <2>2. /\ file'[t]["model"].c = CreatedModel(p)
        /\ file'[t]["source"].c = CreatedSource(t) /\ file'[t]["source"].safe = 2
        /\ \A u \in Tasks, n \in Names : u # t \/ n \notin {"model", "source"} => file'[u][n] = file[u][n]
    BY MakeIs
  <2>3. ~saved[t].is /\ t \in {"first", "next"} /\ "first" \in Tasks
    <3>1. TaskFits(t) BY InvIs
    <3> QED BY <2>0, <2>1, <3>1 DEF TaskFits, Tasks
  <2>4. ASSUME NEW u \in Tasks PROVE file'[u]["source"].safe = 2
    <3>1. CASE u = t BY <2>2, <3>1
    <3>2. CASE u # t
      <4>1. file'[u]["source"] = file[u]["source"] BY <1>n, <2>2, <3>2
      <4> QED BY <1>0, <4>1 DEF InputsFit
    <3> QED BY <3>1, <3>2
  <2>5. ASSUME NEW u \in Tasks, harmed = {}, rec'[u].kept PROVE Inputs(u)'
    <3>1. CASE u # t
      <4>1. Inputs(u)
        <5>1. rec[u].kept BY <2>0, <2>1, <2>5, <3>1
        <5> QED BY <1>0, <2>5, <5>1 DEF InputsFit
      <4>2. rec'[u] = rec[u] /\ file'[u]["model"] = file[u]["model"] /\ file'[u]["source"] = file[u]["source"]
        BY <2>0, <2>1, <2>2, <3>1, <1>n
      <4>3. saved'[u] = saved[u] /\ voice' = voice BY <2>0, <2>1
      <4> QED BY <4>1, <4>2, <4>3 DEF Inputs, Contents, Has, Plan
    <3>2. CASE u = t
      <4>1. t = "next" => Inputs("first")
        <5>1. TaskFits("first") BY <2>3, InvIs
        <5> QED BY <1>0, <2>0, <2>1, <2>3, <2>5, <5>1 DEF InputsFit, TaskFits
      <4>2. CreatedSource(t) = <<"source">> BY <2>3, <4>1 DEF CreatedSource, Inputs
      <4>3. p.kind # "preprocess" /\ voice = <<"model">> => CreatedModel(p) = <<"model">>
        BY <2>0, <2>1, <2>3, <4>1 DEF CreatedModel, Inputs
      <4> QED BY <2>0, <2>1, <2>2, <2>3, <3>2, <4>2, <4>3 DEF Inputs, Contents, Plan
    <3> QED BY <3>1, <3>2
  <2> QED BY <2>0, <2>1, <2>4, <2>5 DEF InputsFit
<1>b. CASE \E t \in Tasks : Books(t)
  <2> PICK t \in Tasks : Books(t) BY <1>b
  <2>1. PICK x \in {"queued", "failed"} : rec' = [rec EXCEPT ![t].state = x] BY BookIs
  <2>2. UNCHANGED <<file, saved, voice, harmed>> /\ run'.pc = "idle" /\ run'.gone = {} BY BookIs
  <2>3. rec'[t].state = x /\ \A u \in Tasks :
          /\ rec'[u].plan = rec[u].plan /\ rec'[u].model = rec[u].model /\ rec'[u].kept = rec[u].kept
          /\ u # t => rec'[u].state = rec[u].state
    BY <1>0, <2>1, StateSet
  <2>4. \A u \in Tasks : rec'[u].state \in {"active", "stopped"} => rec[u].state \in {"active", "stopped"}
    BY <2>1, <2>3
  <2> QED BY <2>2, <2>3, <2>4, InputsStay DEF Working
<1>2. CASE \E t \in Tasks : Resume(t)
  <2> PICK t \in Tasks : Resume(t) BY <1>2
  <2>1. /\ rec[t].state = "stopped" /\ rec' = [rec EXCEPT ![t].state = "active"] /\ UNCHANGED <<file, saved, voice, harmed>>
        /\ run'.pc = "open" /\ run'.gone = {}
    BY ResumeIs
  <2>2. \A u \in Tasks :
          /\ rec'[u].plan = rec[u].plan /\ rec'[u].model = rec[u].model /\ rec'[u].kept = rec[u].kept
          /\ u # t => rec'[u].state = rec[u].state
    BY <1>0, <2>1, StateSet DEF RecStates
  <2>3. rec'[t].state = "active" BY <1>0, <2>1, StateSet DEF RecStates
  <2> QED BY <2>1, <2>2, <2>3, InputsStay DEF Working
<1>3. CASE \E t \in Tasks : CleanUp(t)
  <2> PICK t \in Tasks : CleanUp(t) BY <1>3
  <2>1. UNCHANGED <<rec, file, saved, voice, harmed>> /\ run'.pc = "prune" /\ run'.gone = {} BY CleanUpStep
  <2> QED BY <2>1, InputsStay DEF Working, Pruning
<1>4. CASE Open
  <2> DEFINE t == run.task
  <2>1. /\ run.pc = "open" /\ t \in Tasks /\ rec[t].state = "active" /\ UNCHANGED <<file, voice, harmed>>
    BY <1>4, OpenIs
  <2>2. CASE Fail(t)
    <3>1. UNCHANGED saved BY <1>4, <2>2, <1>0, OpenIs, RunSet DEF Fail
    <3> QED BY <1>f, <2>1, <2>2, <3>1 DEF Pruning
  <2>3. CASE ~Fail(t)
    <3>1. /\ UNCHANGED rec /\ run'.pc = "opened" /\ run'.task = t /\ run'.gone = run.gone
          /\ run'.id.source = Contents(t, "source")
          /\ run'.id.model = IF Plan(t).kind = "preprocess" THEN <<>> ELSE Contents(t, "model")
          /\ saved'[t].id = run'.id /\ \A u \in Tasks : u # t => saved'[u] = saved[u]
      BY <1>4, <2>3, OpenIs
    <3> HIDE DEF t
    <3>2. ASSUME harmed = {}, NEW u \in Tasks, rec[u].kept PROVE Inputs(u)'
      <4>1. Inputs(u) BY <1>0, <3>2 DEF InputsFit
      <4>2. CASE u = t BY <2>1, <3>1, <4>1, <4>2 DEF Inputs, Contents, Has, Plan
      <4>3. CASE u # t BY <2>1, <3>1, <4>1, <4>3 DEF Inputs, Contents, Has, Plan
      <4> QED BY <4>2, <4>3
    <3>3. run.gone = {} BY <1>0, <2>1 DEF RunFits
    <3>4. \A u \in Tasks : file'[u]["source"].safe = 2 BY <1>0, <2>1 DEF InputsFit
    <3>5. (Working => /\ Contents(run.task, "source") = run.id.source
                      /\ Plan(run.task).kind # "preprocess" => Contents(run.task, "model") = run.id.model)'
      BY <2>1, <3>1 DEF Contents, Plan
    <3> QED BY <2>1, <3>1, <3>2, <3>3, <3>4, <3>5 DEF InputsFit, Working
  <2> QED BY <2>2, <2>3
<1>5. CASE OpenSynced
  <2>1. /\ run.pc = "opened" /\ saved[run.task].is /\ UNCHANGED <<rec, file, voice, harmed>>
        /\ saved'[run.task].id = saved[run.task].id
        /\ \A u \in Tasks : u # run.task => saved'[u] = saved[u]
        /\ run'.task = run.task /\ run'.id = run.id /\ run'.gone = run.gone
    BY <1>5, OpenSyncedIs
  <2>2. \A u \in Tasks : saved'[u].is => saved[u].is /\ saved'[u].id = saved[u].id BY <2>1
  <2>3. Working BY <2>1 DEF Working, Pruning
  <2> QED BY <2>1, <2>2, <2>3, InputsStay
<1>6. CASE Revise
  <2>1. run.pc = "revise" /\ UNCHANGED <<file, saved, voice, harmed>> BY <1>6, ReviseIs
  <2>2. CASE Fail(run.task) BY <1>f, <2>1, <2>2 DEF Pruning
  <2>3. CASE ~Fail(run.task)
    <3>1. UNCHANGED rec /\ run'.task = run.task /\ run'.id = run.id /\ run'.gone = run.gone
      BY <1>6, <2>3, ReviseIs
    <3>2. Working BY <2>1 DEF Working, Pruning
    <3> QED BY <2>1, <3>1, <3>2, InputsStay
  <2> QED BY <2>2, <2>3
<1>7. CASE Inherit
  <2> DEFINE s == Head(run.todo)
  <2>1. /\ run.pc = "inherit" /\ UNCHANGED <<saved, voice, harmed>> /\ s \in Stages
        /\ (Fail(run.task) /\ UNCHANGED file) \/ Skipped(run.task, s) \/ Placed(run.task, s)
    BY <1>7, InheritStep
  <2> HIDE DEF s
  <2>2. Working BY <2>1 DEF Working, Pruning
  <2>3. CASE Fail(run.task) /\ UNCHANGED file BY <1>f, <2>1, <2>3 DEF Pruning
  <2>4. CASE Skipped(run.task, s) BY <2>4, <2>1, <2>2, InputsStay DEF Skipped
  <2>5. CASE Placed(run.task, s)
    <3>1. /\ UNCHANGED rec /\ run'.task = run.task /\ run'.id = run.id /\ run'.gone = run.gone
          /\ NameFits(run.task, s, run'.name)
          /\ \A u \in Tasks, n \in Names : u # run.task \/ n # run'.name \/ run'.name = "source" => file'[u][n] = file[u][n]
      BY <2>5 DEF Placed
    <3>2. run'.name # "model" BY <2>1, <3>1, KeepsApart
    <3>3. \A u \in Tasks : file'[u]["source"] = file[u]["source"] /\ file'[u]["model"] = file[u]["model"]
      BY <3>1, <3>2, <1>n
    <3> QED BY <2>1, <2>2, <3>1, <3>3, InputsStay
  <2> QED BY <2>1, <2>3, <2>4, <2>5
<1>8. CASE Inherited
  <2>1. /\ run.pc = "inherit" /\ UNCHANGED <<file, saved, voice, harmed>>
        /\ rec'["first"] = rec["first"] /\ rec'["next"].state = rec["next"].state /\ rec'["next"].plan = rec["next"].plan
        /\ rec'["next"].model = rec["next"].model /\ rec'["next"].kept = rec["next"].kept
        /\ run'.task = run.task /\ run'.id = run.id /\ run'.gone = run.gone
    BY <1>8, InheritedStep
  <2>2. \A u \in Tasks : rec'[u].state = rec[u].state /\ rec'[u].plan = rec[u].plan /\ rec'[u].model = rec[u].model /\ rec'[u].kept = rec[u].kept
    BY <2>1 DEF Tasks
  <2>3. Working BY <2>1 DEF Working, Pruning
  <2> QED BY <2>1, <2>2, <2>3, InputsStay
<1>9. CASE Stage
  <2> DEFINE s == Head(run.todo)
  <2>1. /\ run.pc = "stages" /\ UNCHANGED <<saved, voice, harmed>> /\ s \in Stages
        /\ (Fail(run.task) /\ UNCHANGED file) \/ Skipped(run.task, s) \/ Placed(run.task, s)
    BY <1>9, StageStep
  <2> HIDE DEF s
  <2>2. Working BY <2>1 DEF Working, Pruning
  <2>3. CASE Fail(run.task) /\ UNCHANGED file BY <1>f, <2>1, <2>3 DEF Pruning
  <2>4. CASE Skipped(run.task, s) BY <2>4, <2>1, <2>2, InputsStay DEF Skipped
  <2>5. CASE Placed(run.task, s)
    <3>1. /\ UNCHANGED rec /\ run'.task = run.task /\ run'.id = run.id /\ run'.gone = run.gone
          /\ NameFits(run.task, s, run'.name)
          /\ \A u \in Tasks, n \in Names : u # run.task \/ n # run'.name \/ run'.name = "source" => file'[u][n] = file[u][n]
      BY <2>5 DEF Placed
    <3>2. run'.name # "model" BY <2>1, <3>1, KeepsApart, ZenonT(60)
    <3>3. \A u \in Tasks : file'[u]["source"] = file[u]["source"] /\ file'[u]["model"] = file[u]["model"]
      BY <3>1, <3>2, <1>n
    <3> QED BY <2>1, <2>2, <3>1, <3>3, InputsStay
  <2> QED BY <2>1, <2>3, <2>4, <2>5
<1>10. CASE SyncFile \/ SyncParents \/ SyncResult
  <2>1. /\ run.pc \in {"computed", "synced", "published"} /\ UNCHANGED <<rec, saved, voice, harmed>>
        /\ run'.task = run.task /\ run'.id = run.id /\ run'.gone = run.gone
        /\ \A u \in Tasks, n \in Names :
             /\ file'[u][n].c = file[u][n].c /\ (file[u][n].safe = 2 => file'[u][n] = file[u][n])
    BY <1>10, SyncStep
  <2>2. Working BY <2>1 DEF Working, Pruning
  <2>3. \A u \in Tasks : file'[u]["source"] = file[u]["source"] /\ file'[u]["model"].c = file[u]["model"].c
    BY <1>0, <2>1, <1>n DEF InputsFit
  <2> QED BY <2>1, <2>2, <2>3, InputsStay
<1>11. CASE PublishMarker
  <2>1. /\ run.pc = "placed" /\ UNCHANGED <<rec, file, saved, voice, harmed>>
        /\ run'.task = run.task /\ run'.id = run.id /\ run'.gone = run.gone
    BY <1>11, PublishMarkerIs
  <2>2. Working BY <2>1 DEF Working, Pruning
  <2> QED BY <2>1, <2>2, InputsStay
<1>12. CASE SyncMarker
  <2>1. /\ run.pc = "marked" /\ UNCHANGED <<rec, file, saved, voice, harmed>>
        /\ run'.task = run.task /\ run'.id = run.id /\ run'.gone = run.gone
    BY <1>12, SyncMarkerIs
  <2>2. Working BY <2>1 DEF Working, Pruning
  <2> QED BY <2>1, <2>2, InputsStay
<1>13. CASE PublishResult
  <2>1. /\ run.pc = "stages" /\ UNCHANGED <<rec, saved, voice, harmed>>
        /\ run'.task = run.task /\ run'.id = run.id /\ run'.gone = run.gone
        /\ \A u \in Tasks, n \in Names : u # run.task \/ n # "result" => file'[u][n] = file[u][n]
    BY <1>13, PublishResultIs
  <2>2. Working BY <2>1 DEF Working, Pruning
  <2>3. \A u \in Tasks : file'[u]["source"] = file[u]["source"] /\ file'[u]["model"] = file[u]["model"]
    BY <2>1, <1>n
  <2> QED BY <2>1, <2>2, <2>3, InputsStay
<1>14. CASE Finish
  <2> DEFINE t == run.task
  <2>1. /\ run' = Idle /\ UNCHANGED <<file, saved, voice, harmed>>
        /\ rec'[t].state = "succeeded" /\ rec'[t].plan = rec[t].plan /\ rec'[t].model = rec[t].model /\ rec'[t].kept = rec[t].kept
        /\ \A u \in Tasks : u # t => rec'[u] = rec[u]
    BY <1>14, FinishIs
  <2> HIDE DEF t
  <2>2. \A u \in Tasks :
          /\ rec'[u].plan = rec[u].plan /\ rec'[u].model = rec[u].model /\ rec'[u].kept = rec[u].kept
          /\ rec'[u].state \in {"active", "stopped"} => rec[u].state \in {"active", "stopped"}
    BY <2>1
  <2>3. ~Working' /\ run'.gone = {} BY <1>0, <2>1, RunSet DEF Working
  <2> QED BY <2>1, <2>2, <2>3, InputsStay
<1>15. CASE RemoveCopy
  <2> DEFINE t == run.task
             n == Head(run.todo)
  <2>1. /\ t \in Tasks /\ n \in CopySet(Plan(t)) /\ rec[t].state = "succeeded" /\ run'.pc = "prune" /\ run'.task = t
        /\ file'[t][n] = Absent /\ UNCHANGED <<rec, saved, voice, harmed>>
    BY <1>15, RemoveCopyIs
  <2>2. /\ \A x \in run'.gone : x \in run.gone \/ (Has(t, n) /\ x[1] = n /\ x[2] = file[t][n])
        /\ \A u \in Tasks, m \in Names : u # t \/ m # n => file'[u][m] = file[u][m]
    BY <1>15, RemoveCopyIs
  <2> HIDE DEF t, n
  <2>3. n # "source" BY <2>1, CopiesAreOutputs
  <2>4. ASSUME NEW u \in Tasks
        PROVE file'[u]["source"] = file[u]["source"] /\ (u # t => file'[u]["model"] = file[u]["model"])
    BY <1>n, <2>2, <2>3
  <2>5. file'[t]["model"].c = <<>> \/ file'[t]["model"] = file[t]["model"] BY <2>1, <2>2, <1>n DEF Absent
  <2>6. ASSUME harmed = {}, NEW u \in Tasks, rec[u].kept PROVE Inputs(u)'
    <3>1. Inputs(u) BY <1>0, <2>6 DEF InputsFit
    <3>2. CASE u # t BY <2>1, <2>4, <3>1, <3>2 DEF Inputs, Contents, Has, Plan
    <3>3. CASE u = t BY <2>1, <2>4, <2>5, <3>1, <3>3 DEF Inputs, Contents, Has, Plan
    <3> QED BY <3>2, <3>3
  <2>7. ASSUME harmed = {}, NEW x \in run'.gone, x[1] = "model" PROVE x[2].c = rec[t].model
    <3>1. CASE x \in run.gone BY <1>0, <2>7, <3>1 DEF InputsFit, t
    <3>2. CASE Has(t, n) /\ x[1] = n /\ x[2] = file[t][n]
      <4>1. Inputs(t) BY <1>0, <2>1, <2>7, InvIs DEF InputsFit, TaskFits
      <4> QED BY <2>7, <3>2, <4>1 DEF Inputs, Contents
    <3> QED BY <2>2, <2>7, <3>1, <3>2
  <2>8. ~Working' BY <2>1 DEF Working, Pruning
  <2>9. \A u \in Tasks : file'[u]["source"].safe = 2 BY <1>0, <2>4 DEF InputsFit
  <2> QED BY <2>1, <2>6, <2>7, <2>8, <2>9 DEF InputsFit, Working
<1>16. CASE CopiesGone BY <1>16, CopiesGoneIs, InputsStay DEF Working, Pruning
<1>17. CASE CleanedUp
  <2> DEFINE t == run.task
  <2>1. /\ run' = Idle /\ UNCHANGED <<file, saved, voice, harmed>>
        /\ rec'[t].state = "succeeded" /\ rec'[t].plan = rec[t].plan /\ rec'[t].model = rec[t].model /\ rec'[t].kept = rec[t].kept
        /\ \A u \in Tasks : u # t => rec'[u] = rec[u]
    BY <1>17, CleanedUpIs
  <2> HIDE DEF t
  <2>2. \A u \in Tasks :
          /\ rec'[u].plan = rec[u].plan /\ rec'[u].model = rec[u].model /\ rec'[u].kept = rec[u].kept
          /\ rec'[u].state \in {"active", "stopped"} => rec[u].state \in {"active", "stopped"}
    BY <2>1
  <2>3. ~Working' /\ run'.gone = {} BY <1>0, <2>1, RunSet DEF Working
  <2> QED BY <2>1, <2>2, <2>3, InputsStay
<1>18. CASE Crash
  <2>1. /\ run' = Idle /\ UNCHANGED <<voice, harmed>>
        /\ \A t \in Tasks : saved'[t].is => saved[t].is /\ saved'[t].id = saved[t].id
    BY <1>18, CrashIs
  <2>2. \A t \in Tasks :
          /\ rec[t].state \in {"queued", "active"} => rec'[t].state = "stopped"
          /\ rec[t].state \notin {"queued", "active"} => rec'[t].state = rec[t].state
          /\ rec'[t].plan = rec[t].plan /\ rec'[t].model = rec[t].model /\ rec'[t].kept = rec[t].kept
    BY <1>18, CrashIs
  <2>3. \A t \in Tasks, n \in Names :
          \/ file[t][n].safe < 2
          \/ t = run.task /\ \E x \in run.gone : x[1] = n /\ file'[t][n] = x[2]
          \/ file'[t][n] = file[t][n]
    BY <1>18, CrashIs
  <2>4. \A t \in Tasks : ~(file[t]["source"].safe < 2) /\ ~(file[t]["model"].safe < 2)
    <3>1. \A t \in Tasks : ~(file[t]["source"].safe < 2) BY <1>0 DEF InputsFit
    <3>2. \A t \in Tasks : ~(file[t]["model"].safe < 2) BY <1>0, <1>n DEF SyncFits, RunFits
    <3> QED BY <3>1, <3>2
  <2>5. \A x \in run.gone : x[1] # "source"
    <3>1. \A x \in run.gone : x[1] \in CopySet(Plan(run.task)) BY <1>0, InvIs DEF PruneFits, RunFits, Pruning
    <3> QED BY <3>1, CopiesAreOutputs
  <2>6. \A t \in Tasks : file'[t]["source"] = file[t]["source"] BY <2>3, <2>4, <2>5, <1>n
  <2>7. \A t \in Tasks : file'[t]["model"] = file[t]["model"] \/ (harmed # {} \/ file'[t]["model"].c = rec[t].model)
    <3>1. \A x \in run.gone : x[1] = "model" /\ harmed = {} => x[2].c = rec[run.task].model
      BY <1>0 DEF InputsFit
    <3>2. ASSUME NEW t \in Tasks, harmed = {}, file'[t]["model"] # file[t]["model"] PROVE file'[t]["model"].c = rec[t].model
      BY <1>n, <2>3, <2>4, <3>2, <3>1
    <3> QED BY <3>2
  <2>8. ASSUME harmed = {}, NEW t \in Tasks, rec'[t].kept PROVE Inputs(t)'
    <3>1. Inputs(t) /\ rec[t].state # "queued" BY <1>0, <2>2, <2>8, InvIs DEF InputsFit, TaskFits
    <3>2. CASE file'[t]["model"] = file[t]["model"]
      BY <2>1, <2>2, <2>6, <3>1, <3>2 DEF Inputs, Contents, Has, Plan
    <3>3. CASE file'[t]["model"].c = rec[t].model
      BY <2>1, <2>2, <2>6, <3>1, <3>3 DEF Inputs, Contents, Has, Plan
    <3> QED BY <2>7, <2>8, <3>2, <3>3
  <2>9. run'.pc = "idle" /\ run'.gone = {} BY <1>0, <2>1, RunSet
  <2>10. \A t \in Tasks : file'[t]["source"].safe = 2 BY <1>0, <2>6 DEF InputsFit
  <2> QED BY <2>1, <2>8, <2>9, <2>10 DEF InputsFit
<1>19. CASE Pause BY <1>19, PauseIs, <1>e
<1>20. CASE \E n \in Names : Harm(n)
  <2> PICK n \in Names : Harm(n) BY <1>20
  <2>1. /\ run.pc = "idle" /\ harmed' # {} /\ UNCHANGED <<run, rec>> /\ file'["first"][n].safe = 2
        /\ \A u \in Tasks, m \in Names : u # "first" \/ m # n => file'[u][m] = file[u][m]
    BY HarmIs
  <2>2. \A u \in Tasks : file'[u]["source"].safe = 2 BY <1>0, <2>1, <1>n DEF InputsFit
  <2>3. run'.gone = {} /\ run'.pc = "idle" BY <1>0, <2>1 DEF RunFits
  <2> QED BY <2>1, <2>2, <2>3 DEF InputsFit
<1>21. CASE Republish
  <2>1. UNCHANGED <<rec, file, saved, run, harmed>> /\ voice' = <<"newer">> BY <1>21 DEF Republish
  <2>2. voice' # <<"model">> BY <2>1
  <2>3. ASSUME harmed = {}, NEW t \in Tasks, rec'[t].kept PROVE Inputs(t)'
    <3>1. Inputs(t) BY <1>0, <2>1, <2>3 DEF InputsFit
    <3> QED BY <2>1, <2>2, <3>1 DEF Inputs, Contents, Has, Plan
  <2> QED BY <1>0, <2>1, <2>3 DEF InputsFit, Contents, Plan
<1>22. CASE UNCHANGED What BY <1>22, <1>0 DEF What, InputsFit, Inputs, Contents, Has, Plan
<1> QED BY <1>1, <1>2, <1>3, <1>4, <1>5, <1>6, <1>7, <1>8, <1>9, <1>10, <1>11, <1>12, <1>13, <1>14, <1>15, <1>16, <1>17, <1>18, <1>19, <1>20, <1>21, <1>22, <1>b, StepsAre DEF Works

----------------------------------------
(* The layer of the markers. *)

\* What a step may never change of a task.
Stays(t) ==
    /\ saved[t].is /\ saved[t].safe =>
         rec'[t].plan = rec[t].plan /\ saved'[t].is /\ saved'[t].safe /\ saved'[t].id = saved[t].id
    /\ rec[t].state = "succeeded" => rec'[t].state = "succeeded" /\ rec'[t].plan = rec[t].plan /\ rec'[t].sha = rec[t].sha
Steady == harmed \subseteq harmed' /\ \A t \in Tasks : Stays(t)

\* No step changes a recipe, a durable identity or a success.
LEMMA SteadyStep == TasksInv /\ [TasksNext]_taskVars => Steady
<1> SUFFICES ASSUME TasksInv, [TasksNext]_taskVars PROVE Steady OBVIOUS
<1>0. TasksType BY InvIs
<1>u. ASSUME UNCHANGED <<rec, saved, harmed>> PROVE Steady BY <1>u DEF Steady, Stays
<1>s. ASSUME NEW t \in Tasks, NEW x \in {"queued", "active", "stopped", "failed"}, rec[t].state # "succeeded",
             rec' = [rec EXCEPT ![t].state = x], UNCHANGED <<saved, harmed>>
      PROVE Steady
  BY <1>0, <1>s, StateSet DEF RecStates, Steady, Stays
<1>f. ASSUME Fail(run.task), run.pc \notin {"idle"} \cup Pruning, UNCHANGED <<saved, harmed>> PROVE Steady
  BY <1>f, FailIs, <1>s
<1>1. CASE \E t \in Tasks, p \in Recipes : Make(t, p)
  <2> PICK t \in Tasks, p \in Recipes : Make(t, p) BY <1>1
  <2>1. /\ rec[t].state = "queued" /\ ~rec[t].kept /\ UNCHANGED <<saved, harmed>> /\ \A u \in Tasks : u # t => rec'[u] = rec[u]
    BY MakeFits, MakeIs
  <2>2. ~saved[t].is
    <3>1. TaskFits(t) BY InvIs
    <3> QED BY <2>1, <3>1 DEF TaskFits
  <2>3. ASSUME NEW u \in Tasks PROVE Stays(u)
    <3>1. CASE u = t BY <2>1, <2>2, <3>1 DEF Stays
    <3>2. CASE u # t BY <2>1, <3>2 DEF Stays
    <3> QED BY <3>1, <3>2
  <2> QED BY <2>1, <2>3 DEF Steady
<1>b. CASE \E t \in Tasks : Books(t)
  <2> PICK t \in Tasks : Books(t) BY <1>b
  <2>1. PICK x \in {"queued", "failed"} : rec' = [rec EXCEPT ![t].state = x] BY BookIs
  <2> QED BY <1>s, <2>1, BookIs
<1>2. CASE \E t \in Tasks : Resume(t)
  <2> PICK t \in Tasks : Resume(t) BY <1>2
  <2>1. rec[t].state = "stopped" /\ rec' = [rec EXCEPT ![t].state = "active"] /\ UNCHANGED <<saved, harmed>>
    BY ResumeIs
  <2> QED BY <1>s, <2>1
<1>3. CASE \E t \in Tasks : CleanUp(t)
  <2> PICK t \in Tasks : CleanUp(t) BY <1>3
  <2>1. UNCHANGED <<rec, saved, harmed>> BY CleanUpStep
  <2> QED BY <1>u, <2>1
<1>4. CASE Open
  <2> DEFINE t == run.task
  <2>1. /\ run.pc = "open" /\ t \in Tasks /\ rec[t].state = "active" /\ UNCHANGED harmed BY <1>4, OpenIs
  <2>2. CASE Fail(t)
    <3>1. UNCHANGED saved BY <1>4, <2>2, <1>0, OpenIs, RunSet DEF Fail
    <3> QED BY <1>f, <2>1, <2>2, <3>1 DEF Pruning
  <2>3. CASE ~Fail(t)
    <3>1. /\ UNCHANGED rec /\ (saved[t].is => saved' = saved) /\ \A u \in Tasks : u # t => saved'[u] = saved[u]
      BY <1>4, <2>3, OpenIs
    <3> HIDE DEF t
    <3> QED BY <2>1, <3>1 DEF Steady, Stays
  <2> QED BY <2>2, <2>3
<1>5. CASE OpenSynced
  <2>1. /\ UNCHANGED <<rec, harmed>>
        /\ saved'[run.task].is /\ saved'[run.task].safe /\ saved'[run.task].id = saved[run.task].id
        /\ \A u \in Tasks : u # run.task => saved'[u] = saved[u]
    BY <1>5, OpenSyncedIs
  <2> QED BY <2>1 DEF Steady, Stays
<1>6. CASE Revise
  <2>1. run.pc = "revise" /\ UNCHANGED <<saved, harmed>> BY <1>6, ReviseIs
  <2>2. CASE Fail(run.task) BY <1>f, <2>1, <2>2 DEF Pruning
  <2>3. CASE ~Fail(run.task) BY <1>6, <1>u, <2>1, <2>3, ReviseIs
  <2> QED BY <2>2, <2>3
<1>7. CASE Inherit
  <2>1. run.pc = "inherit" /\ UNCHANGED <<saved, harmed>> BY <1>7, InheritStep
  <2>2. CASE Fail(run.task) BY <1>f, <2>1, <2>2 DEF Pruning
  <2>3. CASE Skipped(run.task, Head(run.todo)) \/ Placed(run.task, Head(run.todo))
    BY <1>u, <2>1, <2>3 DEF Skipped, Placed
  <2> QED BY <1>7, <2>2, <2>3, InheritStep
<1>8. CASE Inherited
  <2>1. /\ rec'["first"] = rec["first"] /\ rec'["next"].state = rec["next"].state
        /\ rec'["next"].plan = rec["next"].plan /\ rec'["next"].sha = rec["next"].sha /\ UNCHANGED <<saved, harmed>>
    BY <1>8, InheritedStep
  <2>2. \A u \in Tasks : rec'[u].state = rec[u].state /\ rec'[u].plan = rec[u].plan /\ rec'[u].sha = rec[u].sha
    BY <2>1 DEF Tasks
  <2> QED BY <2>1, <2>2 DEF Steady, Stays
<1>9. CASE Stage
  <2>1. run.pc = "stages" /\ UNCHANGED <<saved, harmed>> BY <1>9, StageStep
  <2>2. CASE Fail(run.task) BY <1>f, <2>1, <2>2 DEF Pruning
  <2>3. CASE Skipped(run.task, Head(run.todo)) \/ Placed(run.task, Head(run.todo))
    BY <1>u, <2>1, <2>3 DEF Skipped, Placed
  <2> QED BY <1>9, <2>2, <2>3, StageStep
<1>10. CASE SyncFile \/ SyncParents \/ SyncResult BY <1>10, SyncStep, <1>u
<1>11. CASE PublishMarker BY <1>11, PublishMarkerIs, <1>u
<1>12. CASE SyncMarker BY <1>12, SyncMarkerIs, <1>u
<1>13. CASE PublishResult BY <1>13, PublishResultIs, <1>u
<1>14. CASE Finish
  <2> DEFINE t == run.task
  <2>1. /\ rec[t].state = "active" /\ rec'[t].plan = rec[t].plan /\ UNCHANGED <<saved, harmed>>
        /\ \A u \in Tasks : u # t => rec'[u] = rec[u]
    BY <1>14, FinishIs
  <2> HIDE DEF t
  <2> QED BY <2>1 DEF Steady, Stays
<1>15. CASE RemoveCopy BY <1>15, RemoveCopyIs, <1>u
<1>16. CASE CopiesGone BY <1>16, CopiesGoneIs, <1>u
<1>17. CASE CleanedUp
  <2> DEFINE t == run.task
  <2>1. /\ rec'[t].state = "succeeded" /\ rec'[t].plan = rec[t].plan /\ rec'[t].sha = rec[t].sha /\ UNCHANGED <<saved, harmed>>
        /\ \A u \in Tasks : u # t => rec'[u] = rec[u]
    BY <1>17, CleanedUpIs
  <2> HIDE DEF t
  <2> QED BY <2>1 DEF Steady, Stays
<1>18. CASE Crash
  <2>1. \A t \in Tasks : /\ rec[t].state \notin {"queued", "active"} => rec'[t].state = rec[t].state
                         /\ rec'[t].plan = rec[t].plan /\ rec'[t].sha = rec[t].sha
    BY <1>18, CrashIs
  <2>2. \A t \in Tasks : /\ saved'[t].is => saved[t].is /\ saved'[t].safe /\ saved'[t].id = saved[t].id
                         /\ saved[t].is /\ saved[t].safe => saved'[t].is
    BY <1>18, CrashIs
  <2>3. UNCHANGED harmed BY <1>18, CrashIs
  <2> QED BY <2>1, <2>2, <2>3 DEF Steady, Stays
<1>19. CASE Pause BY <1>19, PauseIs, <1>s
<1>20. CASE \E n \in Names : Harm(n)
  <2> PICK n \in Names : Harm(n) BY <1>20
  <2>1. harmed = {} /\ UNCHANGED <<rec, saved>> BY HarmIs
  <2> QED BY <2>1 DEF Steady, Stays
<1>21. CASE Republish BY <1>21, <1>u DEF Republish
<1>22. CASE UNCHANGED What BY <1>22, <1>u DEF What
<1> QED BY <1>1, <1>2, <1>3, <1>4, <1>5, <1>6, <1>7, <1>8, <1>9, <1>10, <1>11, <1>12, <1>13, <1>14, <1>15, <1>16, <1>17, <1>18, <1>19, <1>20, <1>21, <1>22, <1>b, StepsAre DEF Works

\* The audio a stage stands for never changes once there is a marker.
LEMMA OwnStays ==
    ASSUME TasksInv, Steady, NEW t \in Tasks, NEW s \in Stages, saved[t].is, saved[t].safe
    PROVE OwnAudio(t, s)' = OwnAudio(t, s) /\ Plan(t)' = Plan(t)
<1>1. saved["first"].is /\ "first" \in Tasks /\ (t = "next" => ResultFits("first") /\ rec["first"].state = "succeeded")
  BY InvIs, FirstIs DEF Tasks
<1>2. saved["first"].safe BY <1>1 DEF ResultFits, Tasks
<1>3. /\ Plan(t)' = Plan(t) /\ saved'[t].id = saved[t].id
      /\ Plan("first")' = Plan("first") /\ saved'["first"].id = saved["first"].id
  BY <1>1, <1>2 DEF Steady, Stays, Plan
<1> QED BY <1>3 DEF OwnAudio, Vocal
\* A marker that stays, with its file or without a copy.
LEMMA MarkStays ==
    ASSUME TasksInv, Steady, NEW t \in Tasks, NEW s \in Stages,
           mark'[t][s].is => /\ mark[t][s].is /\ mark'[t][s].id = mark[t][s].id /\ mark'[t][s].name = mark[t][s].name
                             /\ mark'[t][s].digest = mark[t][s].digest,
           mark[t][s].is => \/ file'[t][Kept(t, s)] = file[t][Kept(t, s)]
                            \/ file'[t][Kept(t, s)] = [c |-> mark[t][s].digest, safe |-> 2]
                            \/ Harmed(t, Kept(t, s))'
                            \/ /\ rec[t].state = "succeeded" /\ file'[t][Kept(t, s)] = Absent
                               /\ Kept(t, s) \in CopySet(Plan(t))
    PROVE MarkFits(t, s)'
<1> SUFFICES ASSUME mark'[t][s].is PROVE MarkFits(t, s)' BY DEF MarkFits
<1>1. MarkFits(t, s) /\ mark[t][s].is BY InvIs
<1>2. /\ mark'[t][s].id = mark[t][s].id /\ Kept(t, s)' = Kept(t, s)
      /\ mark'[t][s].digest = mark[t][s].digest
  BY DEF Kept
<1> DEFINE n == Kept(t, s)
           d == mark[t][s].digest
<1>3. /\ saved[t].is /\ saved[t].safe /\ mark[t][s].id = saved[t].id /\ d = OwnAudio(t, s) /\ NameFits(t, s, n)
      /\ \/ file[t][n] = [c |-> d, safe |-> 2] \/ Harmed(t, n)
         \/ rec[t].state = "succeeded" /\ file[t][n] = Absent /\ n \in CopySet(Plan(t))
  BY <1>1 DEF MarkFits
<1> HIDE DEF n, d
<1>4. OwnAudio(t, s)' = OwnAudio(t, s) /\ Plan(t)' = Plan(t) BY <1>3, OwnStays
<1>5. /\ saved'[t].is /\ saved'[t].safe /\ saved'[t].id = saved[t].id
      /\ (rec[t].state = "succeeded" => rec'[t].state = "succeeded") /\ harmed \subseteq harmed'
  BY <1>3 DEF Steady, Stays
<1>6. NameFits(t, s, n)' BY <1>3, <1>4, <1>2 DEF NameFits, n
<1>7. \/ file'[t][n] = file[t][n] \/ file'[t][n] = [c |-> d, safe |-> 2] \/ Harmed(t, n)'
      \/ rec[t].state = "succeeded" /\ file'[t][n] = Absent /\ n \in CopySet(Plan(t))
  BY <1>1, <1>2 DEF n, d, Harmed
<1>8. \/ file'[t][n] = [c |-> d, safe |-> 2] \/ Harmed(t, n)'
      \/ rec'[t].state = "succeeded" /\ file'[t][n] = Absent /\ n \in CopySet(Plan(t))
  BY <1>2, <1>3, <1>5, <1>7 DEF Harmed, n
<1> QED BY <1>2, <1>3, <1>4, <1>5, <1>6, <1>8 DEF MarkFits, n, d, Harmed
\* The files of two stages are kept apart.
LEMMA OtherName ==
    ASSUME NEW t, NEW s \in Stages, NEW n, NameFits(t, s, n), n # "source",
           NEW r \in Stages, r # s, NEW m, NameFits(t, r, m)
    PROVE m # n
<1>1. n = OutputName[s] \/ (s \in DOMAIN InheritedName /\ n = InheritedName[s]) BY DEF NameFits
<1>2. m # OutputName[s] /\ (s \in DOMAIN InheritedName => m # InheritedName[s]) BY KeepsApart
<1> QED BY <1>1, <1>2
\* The stage whose marker is published.
LEMMA MarkedIs ==
    ASSUME TasksInv, Steady, NEW t \in Tasks, NEW s \in Stages, NEW n \in Names, NEW d,
           saved[t].is, saved[t].safe, NameFits(t, s, n), d = OwnAudio(t, s), file'[t][n] = [c |-> d, safe |-> 2],
           mark'[t][s].is, mark'[t][s].id = saved[t].id, mark'[t][s].name = n, mark'[t][s].digest = d
    PROVE MarkFits(t, s)'
<1>1. OwnAudio(t, s)' = OwnAudio(t, s) /\ Plan(t)' = Plan(t) BY OwnStays
<1>2. saved'[t].is /\ saved'[t].safe /\ saved'[t].id = saved[t].id BY DEF Steady, Stays
<1>3. Kept(t, s)' = n BY DEF Kept
<1>4. NameFits(t, s, n)' BY <1>1 DEF NameFits
<1> QED BY <1>1, <1>2, <1>3, <1>4 DEF MarkFits

Marking == \A t \in Tasks, s \in Stages : MarkFits(t, s)

\* Every step keeps the markers true.
LEMMA MarkingStep == TasksInv /\ [TasksNext]_taskVars => Marking'
<1> SUFFICES ASSUME TasksInv, [TasksNext]_taskVars PROVE Marking' OBVIOUS
<1>0. TasksType BY InvIs
<1>s. Steady BY SteadyStep
<1>m. \A t \in Tasks, s \in Stages : mark[t][s].is =>
        /\ NameFits(t, s, Kept(t, s))
        /\ \/ file[t][Kept(t, s)] = [c |-> mark[t][s].digest, safe |-> 2] \/ Harmed(t, Kept(t, s))
           \/ file[t][Kept(t, s)] = Absent
  BY InvIs DEF MarkFits
<1>n. \A t \in Tasks, s \in Stages : mark[t][s].is => Kept(t, s) \in Names /\ Kept(t, s) # "result"
  BY <1>m, KeepsApart
<1>w. ASSUME NEW t \in Tasks, NEW s \in Stages, mark[t][s].is PROVE file[t][Kept(t, s)].safe = 2 \/ Harmed(t, Kept(t, s))
  <2> DEFINE x == file[t][Kept(t, s)]
             d == mark[t][s].digest
  <2>1. x = [c |-> d, safe |-> 2] \/ Harmed(t, Kept(t, s)) \/ x = Absent BY <1>m, <1>w
  <2> HIDE DEF x, d
  <2>2. x.safe = 2 \/ Harmed(t, Kept(t, s)) BY <2>1 DEF Absent
  <2> QED BY <2>2 DEF x
<1>u. ASSUME UNCHANGED <<file, mark>> PROVE Marking' BY <1>s, <1>u, MarkStays DEF Marking
<1>p. ASSUME NEW t, NEW s \in Stages, Placed(t, s), UNCHANGED mark PROVE Marking'
  <2>1. /\ ~mark[t][s].is /\ NameFits(t, s, run'.name)
        /\ \A u \in Tasks, n \in Names : u # t \/ n # run'.name \/ run'.name = "source" => file'[u][n] = file[u][n]
    BY <1>p DEF Placed
  <2>2. ASSUME NEW u \in Tasks, NEW r \in Stages PROVE MarkFits(u, r)'
    <3>1. mark[u][r].is => u # t \/ Kept(u, r) # run'.name \/ run'.name = "source"
      <4>1. SUFFICES ASSUME mark[u][r].is, u = t, run'.name # "source" PROVE Kept(u, r) # run'.name OBVIOUS
      <4>2. r # s /\ NameFits(t, r, Kept(u, r)) BY <1>m, <2>1, <4>1
      <4> QED BY <2>1, <4>1, <4>2, OtherName
    <3>2. mark[u][r].is => file'[u][Kept(u, r)] = file[u][Kept(u, r)] BY <1>n, <2>1, <3>1
    <3> QED BY <1>s, <1>p, <3>2, MarkStays
  <2> QED BY <2>2 DEF Marking
<1>1. CASE \E t \in Tasks, p \in Recipes : Make(t, p)
  <2> PICK t \in Tasks, p \in Recipes : Make(t, p) BY <1>1
  <2>1. /\ ~rec[t].kept /\ UNCHANGED mark
        /\ \A u \in Tasks, n \in Names : u # t \/ n \notin {"model", "source"} => file'[u][n] = file[u][n]
    BY MakeFits, MakeIs
  <2>2. \A s \in Stages : ~mark[t][s].is
    <3>1. TaskFits(t) BY InvIs
    <3> QED BY <2>1, <3>1 DEF TaskFits
  <2>3. ASSUME NEW u \in Tasks, NEW s \in Stages PROVE MarkFits(u, s)'
    <3>1. CASE u = t BY <2>1, <2>2, <3>1 DEF MarkFits
    <3>2. CASE u # t BY <1>n, <2>1, <3>2, <1>s, MarkStays
    <3> QED BY <3>1, <3>2
  <2> QED BY <2>3 DEF Marking
<1>b. CASE \E t \in Tasks : Books(t) BY <1>b, <1>u, BookIs
<1>2. CASE \E t \in Tasks : Resume(t)
  <2> PICK t \in Tasks : Resume(t) BY <1>2
  <2>1. UNCHANGED <<file, mark>> BY ResumeIs
  <2> QED BY <1>u, <2>1
<1>3. CASE \E t \in Tasks : CleanUp(t)
  <2> PICK t \in Tasks : CleanUp(t) BY <1>3
  <2>1. UNCHANGED <<file, mark>> BY CleanUpStep
  <2> QED BY <1>u, <2>1
<1>4. CASE Open BY <1>4, OpenIs, <1>u
<1>5. CASE OpenSynced BY <1>5, OpenSyncedIs, <1>u
<1>6. CASE Revise BY <1>6, ReviseIs, <1>u
<1>7. CASE Inherit
  <2> DEFINE s == Head(run.todo)
             t == run.task
  <2>1. /\ UNCHANGED mark /\ s \in Stages
        /\ UNCHANGED file \/ Skipped(t, s) \/ Placed(t, s)
    BY <1>7, InheritStep
  <2> HIDE DEF s, t
  <2>2. CASE UNCHANGED file \/ Skipped(t, s) BY <1>u, <2>1, <2>2 DEF Skipped
  <2>3. CASE Placed(t, s) BY <1>p, <2>1, <2>3
  <2> QED BY <2>1, <2>2, <2>3
<1>8. CASE Inherited BY <1>8, InheritedStep, <1>u
<1>9. CASE Stage
  <2> DEFINE s == Head(run.todo)
             t == run.task
  <2>1. /\ UNCHANGED mark /\ s \in Stages
        /\ UNCHANGED file \/ Skipped(t, s) \/ Placed(t, s)
    BY <1>9, StageStep
  <2> HIDE DEF s, t
  <2>2. CASE UNCHANGED file \/ Skipped(t, s) BY <1>u, <2>1, <2>2 DEF Skipped
  <2>3. CASE Placed(t, s) BY <1>p, <2>1, <2>3
  <2> QED BY <2>1, <2>2, <2>3
<1>10. CASE SyncFile \/ SyncParents \/ SyncResult
  <2>1. /\ UNCHANGED <<mark, harmed>>
        /\ \A u \in Tasks, n \in Names : file[u][n].safe = 2 => file'[u][n] = file[u][n]
    BY <1>10, SyncStep
  <2>2. ASSUME NEW t \in Tasks, NEW s \in Stages PROVE MarkFits(t, s)'
    <3>2. mark[t][s].is => file'[t][Kept(t, s)] = file[t][Kept(t, s)] \/ Harmed(t, Kept(t, s))'
      BY <1>n, <1>w, <2>1 DEF Harmed, Kept
    <3> QED BY <1>s, <2>1, <3>2, MarkStays
  <2> QED BY <2>2 DEF Marking
<1>11. CASE PublishMarker
  <2>0. run.pc = "placed" /\ run.pc \in Committing BY <1>11, PublishMarkerIs DEF Committing
  <2> PICK t \in Tasks, s \in Stages, n \in Names, d \in {Contents(run.task, run.name)} :
         t = run.task /\ s = Head(run.todo) /\ n = run.name
    BY <2>0, CommitsIs
  <2>1. mark'[t][s] = [is |-> TRUE, id |-> run.id, name |-> n, digest |-> d, safe |-> FALSE]
    BY <1>11, PublishMarkerIs
  <2>2. UNCHANGED file /\ \A u \in Tasks, r \in Stages : u # t \/ r # s => mark'[u][r] = mark[u][r]
    BY <1>11, PublishMarkerIs
  <2>3. /\ saved[t].is /\ saved[t].safe /\ run.id = saved[t].id /\ NameFits(t, s, n)
        /\ Contents(t, n) = OwnAudio(t, s) /\ d = Contents(t, n)
    BY <2>0, CommitsIs DEF CommitFits
  <2>4. file[t][n] = [c |-> d, safe |-> 2]
    <3>1. file[t][n].safe = 2 BY <2>0, QuietIs
    <3>2. file[t][n] \in FileType BY <1>0, TypesAre
    <3> QED BY <2>3, <3>1, <3>2 DEF FileType, Contents
  <2>5. mark'[t][s].is /\ mark'[t][s].id = run.id /\ mark'[t][s].name = n /\ mark'[t][s].digest = d BY <2>1
  <2>6. file'[t][n] = [c |-> d, safe |-> 2] BY <2>2, <2>4
  <2>7. MarkFits(t, s)' BY <1>s, <2>3, <2>5, <2>6, MarkedIs
  <2>8. ASSUME NEW u \in Tasks, NEW r \in Stages, u # t \/ r # s PROVE MarkFits(u, r)'
    BY <2>2, <2>8, <1>s, MarkStays
  <2> QED BY <2>7, <2>8 DEF Marking
<1>12. CASE SyncMarker
  <2> DEFINE t == run.task
             s == Head(run.todo)
  <2>1. /\ mark[t][s].is /\ mark'[t][s].id = mark[t][s].id /\ mark'[t][s].name = mark[t][s].name
        /\ mark'[t][s].digest = mark[t][s].digest
        /\ UNCHANGED file
    BY <1>12, SyncMarkerIs
  <2>2. \A u \in Tasks, r \in Stages : u # t \/ r # s => mark'[u][r] = mark[u][r] BY <1>12, SyncMarkerIs
  <2> HIDE DEF t, s
  <2>3. ASSUME NEW u \in Tasks, NEW r \in Stages PROVE MarkFits(u, r)'
    <3>1. CASE u = t /\ r = s BY <1>s, <2>1, <3>1, MarkStays
    <3>2. CASE u # t \/ r # s BY <2>2, <3>2, <1>s, <2>1, MarkStays
    <3> QED BY <3>1, <3>2
  <2> QED BY <2>3 DEF Marking
<1>13. CASE PublishResult
  <2>1. /\ UNCHANGED mark
        /\ \A u \in Tasks, n \in Names : u # run.task \/ n # "result" => file'[u][n] = file[u][n]
    BY <1>13, PublishResultIs
  <2>2. ASSUME NEW t \in Tasks, NEW s \in Stages PROVE MarkFits(t, s)' BY <1>n, <2>1, <1>s, MarkStays
  <2> QED BY <2>2 DEF Marking
<1>14. CASE Finish BY <1>14, FinishIs, <1>u
<1>15. CASE RemoveCopy
  <2> DEFINE t == run.task
             n == Head(run.todo)
  <2>1. /\ n \in CopySet(Plan(t)) /\ rec[t].state = "succeeded" /\ file'[t][n] = Absent /\ UNCHANGED mark
        /\ \A u \in Tasks, m \in Names : u # t \/ m # n => file'[u][m] = file[u][m]
    BY <1>15, RemoveCopyIs
  <2> HIDE DEF t, n
  <2>2. ASSUME NEW u \in Tasks, NEW s \in Stages PROVE MarkFits(u, s)'
    <3>1. mark[u][s].is => \/ file'[u][Kept(u, s)] = file[u][Kept(u, s)]
                           \/ /\ rec[u].state = "succeeded" /\ file'[u][Kept(u, s)] = Absent
                              /\ Kept(u, s) \in CopySet(Plan(u))
      BY <1>n, <2>1
    <3> QED BY <1>s, <2>1, <3>1, MarkStays
  <2> QED BY <2>2 DEF Marking
<1>16. CASE CopiesGone BY <1>16, CopiesGoneIs, <1>u
<1>17. CASE CleanedUp BY <1>17, CleanedUpIs, <1>u
<1>18. CASE Crash
  <2>1. \A t \in Tasks, s \in Stages :
          mark'[t][s].is => /\ mark[t][s].is /\ mark'[t][s].id = mark[t][s].id
                            /\ mark'[t][s].name = mark[t][s].name /\ mark'[t][s].digest = mark[t][s].digest
    BY <1>18, CrashIs
  <2>2. \A t \in Tasks, n \in Names :
          \/ file[t][n].safe < 2
          \/ t = run.task /\ \E x \in run.gone : x[1] = n /\ file'[t][n] = x[2]
          \/ file'[t][n] = file[t][n]
    BY <1>18, CrashIs
  <2>3. UNCHANGED harmed BY <1>18, CrashIs
  <2>4. \A s \in Stages, x \in run.gone : mark[run.task][s].is /\ Kept(run.task, s) = x[1] =>
          x[2] = [c |-> mark[run.task][s].digest, safe |-> 2] \/ Harmed(run.task, x[1])
    BY InvIs DEF PruneFits, RunFits, Pruning
  <2>5. ASSUME NEW t \in Tasks, NEW s \in Stages PROVE MarkFits(t, s)'
    <3>0. PICK n : n = Kept(t, s) OBVIOUS
    <3>1. ASSUME mark[t][s].is
          PROVE file'[t][n] = file[t][n] \/ file'[t][n] = [c |-> mark[t][s].digest, safe |-> 2] \/ Harmed(t, n)
      BY <1>n, <1>w, <3>0, <3>1, <2>2, <2>4
    <3>2. mark'[t][s].is => Kept(t, s)' = n /\ mark[t][s].is BY <2>1, <3>0 DEF Kept
    <3>3. mark'[t][s].is => \/ file'[t][Kept(t, s)] = file[t][Kept(t, s)]
                            \/ file'[t][Kept(t, s)] = [c |-> mark[t][s].digest, safe |-> 2]
                            \/ Harmed(t, Kept(t, s))'
      BY <2>3, <3>0, <3>1, <3>2 DEF Harmed
    <3>4. CASE ~mark'[t][s].is BY <3>4 DEF MarkFits
    <3>5. CASE mark'[t][s].is BY <1>s, <2>1, <3>3, <3>5, MarkStays
    <3> QED BY <3>4, <3>5
  <2> QED BY <2>5 DEF Marking
<1>19. CASE Pause BY <1>19, PauseIs, <1>u
<1>20. CASE \E n \in Names : Harm(n)
  <2> PICK n \in Names : Harm(n) BY <1>20
  <2>1. /\ harmed' = {n} /\ UNCHANGED mark
        /\ \A u \in Tasks, m \in Names : u # "first" \/ m # n => file'[u][m] = file[u][m]
    BY HarmIs
  <2>2. ASSUME NEW t \in Tasks, NEW s \in Stages PROVE MarkFits(t, s)'
    BY <1>n, <2>1, <1>s, MarkStays DEF Harmed, Kept
  <2> QED BY <2>2 DEF Marking
<1>21. CASE Republish BY <1>21, <1>u DEF Republish
<1>22. CASE UNCHANGED What BY <1>22, <1>u DEF What
<1> QED BY <1>1, <1>2, <1>3, <1>4, <1>5, <1>6, <1>7, <1>8, <1>9, <1>10, <1>11, <1>12, <1>13, <1>14, <1>15, <1>16, <1>17, <1>18, <1>19, <1>20, <1>21, <1>22, <1>b, StepsAre DEF Works

----------------------------------------
(* The layer of the clean-up. *)

\* Every step keeps the clean-up within its copies.
LEMMA PruneStep == TasksInv /\ [TasksNext]_taskVars => PruneFits'
<1> SUFFICES ASSUME TasksInv, [TasksNext]_taskVars PROVE PruneFits' OBVIOUS
<1>0. TasksType /\ RunFits /\ PruneFits BY InvIs
<1>1. CASE \E t \in Tasks, p \in Recipes : Make(t, p)
  <2> PICK t \in Tasks, p \in Recipes : Make(t, p) BY <1>1
  <2>1. run'.pc = "open" BY MakeIs
  <2> QED BY <2>1 DEF PruneFits, Pruning
<1>b. CASE \E t \in Tasks : Books(t) BY <1>b, BookIs DEF PruneFits, Pruning
<1>2. CASE \E t \in Tasks : Resume(t)
  <2> PICK t \in Tasks : Resume(t) BY <1>2
  <2>1. run'.pc = "open" BY ResumeIs
  <2> QED BY <2>1 DEF PruneFits, Pruning
<1>3. CASE \E t \in Tasks : CleanUp(t)
  <2> PICK t \in Tasks : CleanUp(t) BY <1>3
  <2>1. /\ run.pc = "idle" /\ Contents(t, "result") = rec[t].sha /\ run'.pc = "prune" /\ run'.task = t /\ run'.gone = {}
        /\ run'.todo \in Seq(CopySet(Plan(t))) /\ UNCHANGED <<rec, file>>
    BY CleanUpStep
  <2> QED BY <2>1 DEF PruneFits, Contents, Plan
<1>4. CASE Open
  <2>1. run'.pc \in {"idle", "opened"} BY <1>4, <1>0, OpenIs, RunSet DEF Fail
  <2> QED BY <2>1 DEF PruneFits, Pruning
<1>5. CASE OpenSynced
  <2>1. run'.pc \in {"revise", "stages"} BY <1>5, OpenSyncedIs
  <2> QED BY <2>1 DEF PruneFits, Pruning
<1>6. CASE Revise
  <2>1. run'.pc \in {"idle", "inherit"} BY <1>6, <1>0, ReviseIs, RunSet DEF Fail
  <2> QED BY <2>1 DEF PruneFits, Pruning
<1>7. CASE Inherit
  <2> DEFINE s == Head(run.todo)
  <2>2. run.pc = "inherit" /\ (Fail(run.task) \/ Skipped(run.task, s) \/ Placed(run.task, s))
    BY <1>7, InheritStep
  <2> HIDE DEF s
  <2>1. run'.pc \in {"idle", "computed", "inherit"} BY <1>0, <2>2, RunSet DEF Fail, Skipped, Placed
  <2> QED BY <2>1 DEF PruneFits, Pruning
<1>8. CASE Inherited
  <2>1. run'.pc = "stages" BY <1>8, InheritedStep
  <2> QED BY <2>1 DEF PruneFits, Pruning
<1>9. CASE Stage
  <2> DEFINE s == Head(run.todo)
  <2>2. run.pc = "stages" /\ (Fail(run.task) \/ Skipped(run.task, s) \/ Placed(run.task, s))
    BY <1>9, StageStep
  <2> HIDE DEF s
  <2>1. run'.pc \in {"idle", "computed", "stages"} BY <1>0, <2>2, RunSet DEF Fail, Skipped, Placed
  <2> QED BY <2>1 DEF PruneFits, Pruning
<1>10. CASE SyncFile \/ SyncParents \/ SyncResult
  <2>1. run'.pc \in {"synced", "placed", "finish"} BY <1>10, SyncStep
  <2> QED BY <2>1 DEF PruneFits, Pruning
<1>11. CASE PublishMarker
  <2>1. run'.pc = "marked" BY <1>11, PublishMarkerIs
  <2> QED BY <2>1 DEF PruneFits, Pruning
<1>12. CASE SyncMarker
  <2>2. run.pc = "marked" /\ run'.pc = run.ret BY <1>12, SyncMarkerIs
  <2>1. run'.pc \in {"stages", "inherit"} BY <1>0, <2>2 DEF RunFits, Committing
  <2> QED BY <2>1 DEF PruneFits, Pruning
<1>13. CASE PublishResult
  <2>1. run'.pc = "published" BY <1>13, PublishResultIs
  <2> QED BY <2>1 DEF PruneFits, Pruning
<1>14. CASE Finish
  <2>2. run' = Idle BY <1>14, FinishIs
  <2>1. run'.pc = "idle" BY <1>0, <2>2, RunSet
  <2> QED BY <2>1 DEF PruneFits, Pruning
<1>15. CASE RemoveCopy
  <2> PICK t \in Tasks, n \in Names : t = run.task /\ n = Head(run.todo) BY <1>15, RemoveCopyIs
  <2>1. /\ n \in CopySet(Plan(t)) /\ run.pc = "prune" /\ run'.pc = "prune" /\ run'.task = t
        /\ run'.todo \in Seq(CopySet(Plan(t))) /\ UNCHANGED <<rec, mark, harmed>>
    BY <1>15, RemoveCopyIs
  <2>2. /\ \A x \in run'.gone : x \in run.gone \/ (Has(t, n) /\ x[1] = n /\ x[2] = file[t][n])
        /\ \A u \in Tasks, m \in Names : u # t \/ m # n => file'[u][m] = file[u][m]
    BY <1>15, RemoveCopyIs
  <2>3. n # "result" /\ "result" \in Names BY <2>1, CopiesAreOutputs, NamesAre
  <2>4. Contents(t, "result") = rec[t].sha BY <1>0, <2>1 DEF PruneFits, Pruning
  <2>5. (Contents(t, "result") = rec[t].sha)' BY <2>1, <2>2, <2>3, <2>4 DEF Contents
  <2>6. ASSUME NEW x \in run'.gone
        PROVE /\ x[1] \in CopySet(Plan(t))
              /\ \A s \in Stages : mark[t][s].is /\ Kept(t, s) = x[1] =>
                   x[2] = [c |-> mark[t][s].digest, safe |-> 2] \/ Harmed(t, x[1])
    <3>1. CASE x \in run.gone BY <1>0, <2>1, <3>1 DEF PruneFits, Pruning
    <3>2. CASE Has(t, n) /\ x[1] = n /\ x[2] = file[t][n]
      <4>1. file[t][n] # Absent BY <3>2 DEF Has, Absent
      <4>2. ASSUME NEW s \in Stages, mark[t][s].is, Kept(t, s) = n
            PROVE file[t][n] = [c |-> mark[t][s].digest, safe |-> 2] \/ Harmed(t, n)
        <5>1. MarkFits(t, s) BY InvIs
        <5> QED BY <4>1, <4>2, <5>1 DEF MarkFits
      <4> QED BY <2>1, <3>2, <4>2
    <3> QED BY <2>2, <3>1, <3>2
  <2>7. Plan(t)' = Plan(t) /\ \A s \in Stages : Kept(t, s)' = Kept(t, s) BY <2>1 DEF Plan, Kept
  <2>8. ASSUME NEW x \in run'.gone
        PROVE (/\ x[1] \in CopySet(Plan(t))
               /\ \A s \in Stages : mark[t][s].is /\ Kept(t, s) = x[1] =>
                    x[2] = [c |-> mark[t][s].digest, safe |-> 2] \/ Harmed(t, x[1]))'
    BY <2>1, <2>6, <2>7 DEF Harmed
  <2>9. run'.todo \in Seq(CopySet(Plan(t)')) BY <2>1, <2>7
  <2> QED BY <2>1, <2>5, <2>8, <2>9 DEF PruneFits
<1>16. CASE CopiesGone BY <1>16, CopiesGoneIs, <1>0 DEF PruneFits, Pruning, Contents
<1>17. CASE CleanedUp
  <2>2. run' = Idle BY <1>17, CleanedUpIs
  <2>1. run'.pc = "idle" BY <1>0, <2>2, RunSet
  <2> QED BY <2>1 DEF PruneFits, Pruning
<1>18. CASE Crash
  <2>2. run' = Idle BY <1>18, CrashIs
  <2>1. run'.pc = "idle" BY <1>0, <2>2, RunSet
  <2> QED BY <2>1 DEF PruneFits, Pruning
<1>19. CASE Pause
  <2>2. run' = Idle BY <1>19, PauseIs
  <2>1. run'.pc = "idle" BY <1>0, <2>2, RunSet
  <2> QED BY <2>1 DEF PruneFits, Pruning
<1>20. CASE \E n \in Names : Harm(n)
  <2> PICK n \in Names : Harm(n) BY <1>20
  <2>1. run'.pc = "idle" BY HarmIs
  <2> QED BY <2>1 DEF PruneFits, Pruning
<1>21. CASE Republish
  <2>1. run'.pc = "idle" BY <1>21 DEF Republish, Quiet
  <2> QED BY <2>1 DEF PruneFits, Pruning
<1>22. CASE UNCHANGED What
  <2>1. UNCHANGED <<rec, file, mark, run, harmed>> BY <1>22 DEF What
  <2> QED BY <1>0, <2>1 DEF PruneFits, Contents, Plan, Kept, Harmed
<1> QED BY <1>1, <1>2, <1>3, <1>4, <1>5, <1>6, <1>7, <1>8, <1>9, <1>10, <1>11, <1>12, <1>13, <1>14, <1>15, <1>16, <1>17, <1>18, <1>19, <1>20, <1>21, <1>22, <1>b, StepsAre DEF Works

----------------------------------------
(* The layer of the stages that are left to do. *)

OnStages == run.pc \in {"stages"} \cup Ending \/ (run.pc \in Committing /\ run.ret = "stages")
OnInherit == run.pc = "inherit" \/ (run.pc \in Committing /\ run.ret = "inherit")
\* A run that is not among its stages.
LEMMA TodoOff ==
    ASSUME run'.pc \notin {"stages", "inherit"} \cup Committing \cup Ending PROVE TodoFits'
  BY DEF TodoFits
\* The layer, for each way the run goes through the stages.
LEMMA TodoFitsIs ==
    ASSUME TasksInv
    PROVE /\ OnStages => StagesFit(run.task)
          /\ OnInherit => InheritFits
          /\ run.pc \in Committing => run.todo # <<>> /\ CommitFits(run.task, Head(run.todo))
          /\ run.pc \in Ending =>
               run.todo = <<>> /\ Contents(run.task, "result") = AudioOf(Plan(run.task), run.id.source, run.id.model)
  BY InvIs DEF TodoFits, OnStages, OnInherit
\* A run that goes on with the stages.
LEMMA TodoNext ==
    ASSUME run'.task = run.task,
           OnStages' => StagesFit(run.task)', OnInherit' => InheritFits',
           run'.pc \in Committing => run'.todo # <<>> /\ CommitFits(run.task, Head(run.todo))',
           run'.pc \in Ending =>
             run'.todo = <<>> /\ (Contents(run.task, "result") = AudioOf(Plan(run.task), run.id.source, run.id.model))'
    PROVE TodoFits'
  BY DEF TodoFits, OnStages, OnInherit
\* A stage that is done stays done.
LEMMA ReusedStays ==
    ASSUME NEW t, NEW s, Reused(t, s), mark'[t][s].is, mark'[t][s].name = mark[t][s].name,
           mark'[t][s].digest = mark[t][s].digest, file'[t][Kept(t, s)].c = file[t][Kept(t, s)].c
    PROVE Reused(t, s)'
  BY DEF Reused, Kept, Contents
\* A recipe needs stages that it has.
LEMMA NeedsAre ==
    ASSUME NEW p \in Recipes, NEW s \in Stages
    PROVE Needs(p, s) \subseteq Stages \ {"baseline"}
  BY DEF Needs, Stages
\* A step that spoils nothing that is done keeps the stages in order.
LEMMA StagesStay ==
    ASSUME NEW t, Plan(t) \in Recipes, StagesFit(t), \A s \in Stages : Reused(t, s) => Reused(t, s)', Plan(t)' = Plan(t),
           run'.todo = run.todo
    PROVE StagesFit(t)'
<1> DEFINE p == Plan(t)
<1>1. (\A i \in DOMAIN run.todo : run.todo[i] \in StagesOf(p) /\ \A n \in Needs(p, run.todo[i]) : n \in Stages)
      /\ StagesOf(p) \subseteq Stages
  BY StagesAre, NeedsAre DEF StagesFit
<1>2. ASSUME NEW i \in DOMAIN run'.todo
      PROVE /\ run'.todo[i] \in StagesOf(p)
            /\ \A n \in Needs(p, run'.todo[i]) : Reused(t, n)' \/ \E j \in 1..(i - 1) : run'.todo[j] = n
  BY <1>1 DEF StagesFit
<1>3. \A s \in StagesOf(p) \ {"baseline"} : Reused(t, s)' \/ \E j \in DOMAIN run'.todo : run'.todo[j] = s
  BY <1>1 DEF StagesFit
<1> QED BY <1>2, <1>3 DEF StagesFit
\* The first of the stages is done, the others follow.
LEMMA StagesTail ==
    ASSUME TasksInv, NEW t \in Tasks, StagesFit(t), \A s \in Stages : Reused(t, s) => Reused(t, s)', Plan(t)' = Plan(t),
           run.pc \in {"stages", "inherit"} \cup Committing, run.todo # <<>>, run'.todo = Tail(run.todo),
           NEW h, h = Head(run.todo), h = "baseline" \/ Reused(t, h)'
    PROVE StagesFit(t)'
<1> DEFINE p == Plan(t)
           q == run'.todo
<1>1. p \in Recipes /\ StagesOf(p) \subseteq Stages BY InvIs, TypesAre, StagesAre
<1>2. /\ Head(run.todo) = run.todo[1] /\ Len(run.todo) \in Nat \ {0} /\ DOMAIN run.todo = 1..Len(run.todo)
      /\ q \in Seq(Stages \cup Names) /\ Len(q) = Len(run.todo) - 1
      /\ \A i \in 1..(Len(run.todo) - 1) : q[i] = run.todo[i + 1]
  BY TodoIs
<1>3. DOMAIN q = 1..(Len(run.todo) - 1) BY <1>2, LenProperties
<1>4. \A s \in Stages \ {"baseline"}, j \in 1..Len(run.todo) : run.todo[j] = s =>
        Reused(t, s)' \/ (j # 1 /\ j - 1 \in DOMAIN q /\ q[j - 1] = s)
  <2> SUFFICES ASSUME NEW s \in Stages \ {"baseline"}, NEW j \in 1..Len(run.todo), run.todo[j] = s, ~Reused(t, s)'
               PROVE j # 1 /\ j - 1 \in DOMAIN q /\ q[j - 1] = s
    OBVIOUS
  <2>1. j # 1 BY <1>2
  <2>2. j - 1 \in 1..(Len(run.todo) - 1) /\ (j - 1) + 1 = j BY <1>2, <2>1
  <2> QED BY <1>2, <1>3, <2>1, <2>2
<1> HIDE DEF q
<1>5. ASSUME NEW i \in DOMAIN q
      PROVE q[i] \in StagesOf(p) /\ \A n \in Needs(p, q[i]) : Reused(t, n)' \/ \E j \in 1..(i - 1) : q[j] = n
  <2>1. i \in Nat /\ i + 1 \in DOMAIN run.todo /\ q[i] = run.todo[i + 1] /\ i \in 1..(Len(run.todo) - 1)
    BY <1>2, <1>3
  <2>2. q[i] \in StagesOf(p) BY <2>1 DEF StagesFit
  <2>3. ASSUME NEW n \in Needs(p, q[i]), ~Reused(t, n)' PROVE \E j \in 1..(i - 1) : q[j] = n
    <3>1. n \in Stages \ {"baseline"} BY <1>1, <2>2, NeedsAre
    <3>2. Reused(t, n) \/ \E j \in 1..((i + 1) - 1) : run.todo[j] = n BY <2>1 DEF StagesFit
    <3>3. PICK j \in 1..i : run.todo[j] = n BY <2>1, <2>3, <3>1, <3>2
    <3>4. j \in 1..Len(run.todo) BY <1>2, <2>1
    <3>5. j # 1 /\ q[j - 1] = n BY <1>4, <2>3, <3>1, <3>3, <3>4
    <3>6. j - 1 \in 1..(i - 1) BY <2>1, <3>5
    <3> QED BY <3>5, <3>6
  <2> QED BY <2>2, <2>3
<1>6. ASSUME NEW s \in StagesOf(p) \ {"baseline"}, ~Reused(t, s)' PROVE \E j \in DOMAIN q : q[j] = s
  <2>1. Reused(t, s) \/ \E j \in DOMAIN run.todo : run.todo[j] = s BY DEF StagesFit
  <2>2. PICK j \in 1..Len(run.todo) : run.todo[j] = s BY <1>1, <1>2, <1>6, <2>1
  <2> QED BY <1>1, <1>4, <1>6, <2>2
<1> QED BY <1>5, <1>6 DEF StagesFit, q
\* All stages are to be done at first.
LEMMA StagesStart ==
    ASSUME NEW t, Plan(t) \in Recipes, Plan(t)' = Plan(t), run'.todo = StageOrder(Plan(t))
    PROVE StagesFit(t)'
<1> DEFINE p == Plan(t)
           q == run'.todo
<1>1. Ordered(p, q) BY OrderFits
<1> HIDE DEF q
<1>2. \A i \in DOMAIN q : q[i] \in StagesOf(p) BY <1>1, ElementOfSeq, LenProperties DEF Ordered
<1> QED BY <1>1, <1>2 DEF StagesFit, Ordered, q
\* What a new version may take over does not change under it.
LEMMA InheritStays ==
    ASSUME InheritFits, \A t \in Tasks : Plan(t)' = Plan(t) /\ saved'[t].id = saved[t].id,
           run'.todo = run.todo \/ (run.todo # <<>> /\ run'.todo = Tail(run.todo))
    PROVE InheritFits'
<1> DEFINE S == {s \in DOMAIN InheritedName : Takes(s)}
           T == {s \in DOMAIN InheritedName : Takes(s)'}
<1>1. Plan("next")' = Plan("next") /\ Plan("first")' = Plan("first")
      /\ saved'["next"].id = saved["next"].id /\ saved'["first"].id = saved["first"].id
  BY DEF Tasks
<1>2. \A s : Takes(s)' <=> Takes(s) BY <1>1 DEF Takes
<1>3. T = S BY <1>2
<1>4. run.todo \in Seq(S) BY DEF InheritFits
<1>5. run'.todo \in Seq(S)
  <2> DEFINE q == run.todo
  <2> HIDE DEF S, q
  <2>1. q # <<>> => Tail(q) \in Seq(S) BY <1>4, HeadTailProperties DEF q
  <2> QED BY <1>4, <2>1 DEF q
<1>6. run'.todo \in Seq(T) BY <1>3, <1>5
<1> QED BY <1>1, <1>6 DEF InheritFits

\* Every step keeps the stages in order and commits what they stand for.
LEMMA TodoStep == TasksInv /\ [TasksNext]_taskVars => TodoFits'
<1> SUFFICES ASSUME TasksInv, [TasksNext]_taskVars PROVE TodoFits' OBVIOUS
<1>0. TasksType /\ RunFits BY InvIs
<1>s. Steady BY SteadyStep
<1>m. \A t \in Tasks, s \in Stages : mark[t][s].is => NameFits(t, s, Kept(t, s)) BY InvIs DEF MarkFits
<1>n. "result" \in Names /\ \A t \in Tasks, s \in Stages : mark[t][s].is => Kept(t, s) \in Names /\ Kept(t, s) # "result"
  BY <1>m, KeepsApart, NamesAre
<1>i. ASSUME run' = Idle PROVE TodoFits'
  <2>1. run'.pc = "idle" BY <1>0, <1>i, RunSet
  <2> QED BY <2>1, TodoOff DEF Committing, Ending
<1>o. ASSUME run.task \in Tasks, run'.task = run.task, Plan(run.task)' = Plan(run.task) \/ UNCHANGED rec,
             run'.pc = "stages", run'.todo = StageOrder(Plan(run.task))
      PROVE TodoFits'
  <2> PICK t \in Tasks : t = run.task BY <1>o
  <2>1. Plan(t)' = Plan(t) /\ Plan(t) \in Recipes BY <1>0, <1>o, TypesAre DEF Plan
  <2>2. StagesFit(t)' BY <1>o, <2>1, StagesStart
  <2> QED BY <1>o, <2>2 DEF TodoFits, Committing, Ending
<1>k. ASSUME NEW t \in Tasks, t = run.task, NEW s \in Stages, s = Head(run.todo), run.todo # <<>>, Skipped(t, s),
             run.pc \in {"stages", "inherit"}, UNCHANGED <<mark, saved>>
      PROVE TodoFits'
  <2>1. /\ UNCHANGED <<rec, file>> /\ run'.pc = run.pc /\ run'.task = t /\ run'.todo = Tail(run.todo)
        /\ run.pc = "stages" => s = "baseline" \/ Reused(t, s)
    BY <1>k, SMTT(30) DEF Skipped
  <2>2. \A r \in Stages : Reused(t, r) => Reused(t, r)' BY <1>k, <2>1 DEF Reused, Kept, Contents
  <2>3. OnStages' => StagesFit(t)'
    <3>1. OnStages' => OnStages /\ run.pc = "stages" BY <1>k, <2>1 DEF OnStages, Committing, Ending
    <3>2. Plan(t)' = Plan(t) BY <2>1 DEF Plan
    <3> QED BY <1>k, <2>1, <2>2, <3>1, <3>2, StagesTail, TodoFitsIs
  <2>4. OnInherit' => InheritFits'
    <3>1. OnInherit' => OnInherit BY <1>k, <2>1 DEF OnInherit, Committing
    <3>2. \A u \in Tasks : Plan(u)' = Plan(u) /\ saved'[u].id = saved[u].id BY <1>k, <2>1 DEF Plan
    <3> QED BY <1>k, <2>1, <3>1, <3>2, InheritStays, TodoFitsIs
  <2>5. run'.pc \notin Committing \cup Ending BY <1>k, <2>1 DEF Committing, Ending
  <2> QED BY <1>k, <2>1, <2>3, <2>4, <2>5, TodoNext
<1>p. ASSUME NEW t \in Tasks, t = run.task, NEW s \in Stages, s = Head(run.todo), run.todo # <<>>, Placed(t, s),
             run.pc \in {"stages", "inherit"}, UNCHANGED <<mark, saved>>
      PROVE TodoFits'
  <2>1. /\ UNCHANGED rec /\ run'.pc = "computed" /\ run'.task = t /\ run'.todo = run.todo /\ run'.ret = run.pc
    BY <1>p DEF Placed
  <2>2. /\ ~mark[t][s].is /\ NameFits(t, s, run'.name) /\ run'.name \in Names /\ file'[t][run'.name].c = OwnAudio(t, s)
        /\ \A u \in Tasks, n \in Names : u # t \/ n # run'.name \/ run'.name = "source" => file'[u][n] = file[u][n]
    BY <1>p DEF Placed
  <2>3. ASSUME NEW r \in Stages, Reused(t, r) PROVE Reused(t, r)'
    <3>1. r # s /\ mark[t][r].is /\ NameFits(t, r, Kept(t, r)) /\ Kept(t, r) \in Names
      BY <1>m, <1>n, <2>2, <2>3 DEF Reused
    <3>2. run'.name = "source" \/ Kept(t, r) # run'.name BY <2>2, <3>1, OtherName
    <3>3. file'[t][Kept(t, r)] = file[t][Kept(t, r)] BY <2>2, <3>1, <3>2
    <3> QED BY <1>p, <2>3, <3>1, <3>3, ReusedStays
  <2>4. OnStages' => StagesFit(t)'
    <3>1. OnStages' => OnStages BY <1>p, <2>1 DEF OnStages, Committing, Ending
    <3>2. Plan(t)' = Plan(t) /\ Plan(t) \in Recipes BY <1>0, <2>1, TypesAre DEF Plan
    <3> QED BY <1>p, <2>1, <2>3, <3>1, <3>2, StagesStay, TodoFitsIs
  <2>5. OnInherit' => InheritFits'
    <3>1. OnInherit' => OnInherit BY <1>p, <2>1 DEF OnInherit, Committing
    <3>2. \A u \in Tasks : Plan(u)' = Plan(u) /\ saved'[u].id = saved[u].id BY <1>p, <2>1 DEF Plan
    <3> QED BY <2>1, <3>1, <3>2, InheritStays, TodoFitsIs
  <2>6. CommitFits(t, s)'
    <3>1. saved[t].is /\ saved[t].safe BY <1>p, WorksIs DEF Pruning
    <3>2. OwnAudio(t, s)' = OwnAudio(t, s) /\ Plan(t)' = Plan(t) BY <1>s, <3>1, OwnStays
    <3>3. NameFits(t, s, run.name)' BY <2>2, <3>2 DEF NameFits
    <3>4. (Contents(t, run.name) = OwnAudio(t, s))' BY <2>2, <3>2 DEF Contents
    <3> QED BY <1>p, <2>1, <2>2, <3>3, <3>4 DEF CommitFits
  <2>7. run'.pc \notin Ending BY <2>1 DEF Ending
  <2> QED BY <1>p, <2>1, <2>4, <2>5, <2>6, <2>7, TodoNext
<1>1. CASE \E t \in Tasks, p \in Recipes : Make(t, p)
  <2> PICK t \in Tasks, p \in Recipes : Make(t, p) BY <1>1
  <2>1. run'.pc = "open" BY MakeIs
  <2> QED BY <2>1, TodoOff DEF Committing, Ending
<1>b. CASE \E t \in Tasks : Books(t) BY <1>b, BookIs, TodoOff DEF Committing, Ending
<1>2. CASE \E t \in Tasks : Resume(t)
  <2> PICK t \in Tasks : Resume(t) BY <1>2
  <2>1. run'.pc = "open" BY ResumeIs
  <2> QED BY <2>1, TodoOff DEF Committing, Ending
<1>3. CASE \E t \in Tasks : CleanUp(t)
  <2> PICK t \in Tasks : CleanUp(t) BY <1>3
  <2>1. run'.pc = "prune" BY CleanUpStep
  <2> QED BY <2>1, TodoOff DEF Committing, Ending
<1>4. CASE Open
  <2>1. run'.pc \in {"idle", "opened"} BY <1>4, <1>0, OpenIs, RunSet DEF Fail
  <2> QED BY <2>1, TodoOff DEF Committing, Ending
<1>5. CASE OpenSynced
  <2>1. /\ run.pc = "opened" /\ run.task \in Tasks /\ run'.task = run.task /\ UNCHANGED rec
        /\ \/ run'.pc = "revise"
           \/ run'.pc = "stages" /\ run'.todo = StageOrder(Plan(run.task))
    BY <1>5, OpenSyncedIs
  <2>2. CASE run'.pc = "revise" BY <2>2, TodoOff DEF Committing, Ending
  <2>3. CASE run'.pc = "stages" /\ run'.todo = StageOrder(Plan(run.task)) BY <1>o, <2>1, <2>3
  <2> QED BY <2>1, <2>2, <2>3
<1>6. CASE Revise
  <2>1. UNCHANGED <<mark, saved>> BY <1>6, ReviseIs
  <2>2. CASE Fail(run.task) BY <1>i, <2>2 DEF Fail
  <2>3. CASE ~Fail(run.task)
    <3>1. /\ UNCHANGED rec /\ run'.pc = "inherit" /\ saved["next"].id.source = saved["first"].id.source
          /\ run'.todo \in Seq({s \in DOMAIN InheritedName : Takes(s)})
      BY <1>6, <2>3, ReviseIs
    <3>2. \A s : Takes(s)' <=> Takes(s) BY <2>1, <3>1 DEF Takes, Plan
    <3> DEFINE S == {s \in DOMAIN InheritedName : Takes(s)}
               T == {s \in DOMAIN InheritedName : Takes(s)'}
    <3>3. S = T BY <3>2
    <3>4. run'.todo \in Seq(T) BY <3>1, <3>3
    <3>5. InheritFits' BY <2>1, <3>1, <3>4 DEF InheritFits
    <3> QED BY <3>1, <3>5 DEF TodoFits, Committing, Ending
  <2> QED BY <2>2, <2>3
<1>7. CASE Inherit
  <2>0. run.pc = "inherit" /\ UNCHANGED <<mark, saved>> BY <1>7, InheritStep
  <2>1. run.todo # <<>> /\ Head(run.todo) \in Stages BY <1>7, InheritStep
  <2> PICK s \in Stages, t \in Tasks : s = Head(run.todo) /\ t = run.task BY <1>0, <2>1, RunSet
  <2>2. Fail(t) \/ Skipped(t, s) \/ Placed(t, s) BY <1>7, InheritStep
  <2>3. CASE Fail(t) BY <1>i, <2>3 DEF Fail
  <2>4. CASE Skipped(t, s) BY <1>k, <2>0, <2>1, <2>4
  <2>5. CASE Placed(t, s) BY <1>p, <2>0, <2>1, <2>5
  <2> QED BY <2>2, <2>3, <2>4, <2>5
<1>8. CASE Inherited
  <2>1. /\ run.task = "next" /\ "next" \in Tasks /\ run'.task = run.task /\ rec'["next"].plan = rec["next"].plan
        /\ run'.pc = "stages" /\ run'.todo = StageOrder(Plan("next"))
    BY <1>8, InheritedStep
  <2>2. Plan(run.task)' = Plan(run.task) BY <2>1 DEF Plan
  <2> QED BY <1>o, <2>1, <2>2
<1>9. CASE Stage
  <2>0. run.pc = "stages" /\ UNCHANGED <<mark, saved>> BY <1>9, StageStep
  <2>1. run.todo # <<>> /\ Head(run.todo) \in Stages BY <1>9, StageStep
  <2> PICK s \in Stages, t \in Tasks : s = Head(run.todo) /\ t = run.task BY <1>0, <2>1, RunSet
  <2>2. Fail(t) \/ Skipped(t, s) \/ Placed(t, s) BY <1>9, StageStep
  <2>3. CASE Fail(t) BY <1>i, <2>3 DEF Fail
  <2>4. CASE Skipped(t, s) BY <1>k, <2>0, <2>1, <2>4
  <2>5. CASE Placed(t, s) BY <1>p, <2>0, <2>1, <2>5
  <2> QED BY <2>2, <2>3, <2>4, <2>5
<1>10. CASE SyncFile \/ SyncParents \/ SyncResult
  <2>1. /\ run'.task = run.task /\ run'.todo = run.todo /\ run'.id = run.id
        /\ run'.name = run.name /\ run'.ret = run.ret /\ UNCHANGED <<rec, mark, saved>>
    BY <1>10, SyncStep
  <2>2. /\ \/ run.pc = "computed" /\ run'.pc = "synced"
           \/ run.pc = "synced" /\ run'.pc = "placed"
           \/ run.pc = "published" /\ run'.pc = "finish"
        /\ \A u \in Tasks, n \in Names : file'[u][n].c = file[u][n].c
    BY <1>10, SyncStep
  <2> PICK t \in Tasks : t = run.task BY <1>0, RunSet
  <2>3. \A u \in Tasks, n \in Names : Contents(u, n)' = Contents(u, n) BY <2>2 DEF Contents
  <2>4. \A u \in Tasks, r \in Stages : Reused(u, r) => Reused(u, r)'
    BY <1>n, <2>1, <2>2, ReusedStays DEF Reused
  <2>5. OnStages' => StagesFit(t)'
    <3>1. OnStages' => OnStages BY <2>1, <2>2 DEF OnStages, Committing, Ending
    <3>2. Plan(t)' = Plan(t) /\ Plan(t) \in Recipes BY <1>0, <2>1, TypesAre DEF Plan
    <3> QED BY <2>1, <2>4, <3>1, <3>2, StagesStay, TodoFitsIs
  <2>6. OnInherit' => InheritFits'
    <3>1. OnInherit' => OnInherit BY <2>1, <2>2 DEF OnInherit, Committing, Ending
    <3>2. \A u \in Tasks : Plan(u)' = Plan(u) /\ saved'[u].id = saved[u].id BY <2>1 DEF Plan
    <3> QED BY <2>1, <3>1, <3>2, InheritStays, TodoFitsIs
  <2>7. run'.pc \in Committing => run'.todo # <<>> /\ CommitFits(run.task, Head(run.todo))'
    <3> SUFFICES ASSUME run'.pc \in Committing PROVE run'.todo # <<>> /\ CommitFits(run.task, Head(run.todo))'
      OBVIOUS
    <3>1. run.pc \in {"computed", "synced"} /\ run'.pc # "marked" /\ run.pc \in Committing
      BY <2>2 DEF Committing
    <3> PICK s \in Stages : s = Head(run.todo) BY <3>1, CommitsIs
    <3>2. /\ run.todo # <<>> /\ CommitFits(t, s) /\ saved[t].is /\ saved[t].safe /\ run.name \in Names
      BY <3>1, CommitsIs
    <3>3. OwnAudio(t, s)' = OwnAudio(t, s) /\ Plan(t)' = Plan(t) BY <1>s, <3>2, OwnStays
    <3>4. NameFits(t, s, run.name)' /\ (Contents(t, run.name) = OwnAudio(t, s))' /\ ~mark'[t][s].is
      BY <2>1, <2>2, <3>1, <3>2, <3>3 DEF CommitFits, NameFits, Contents
    <3>5. CommitFits(t, s)' BY <3>1, <3>4 DEF CommitFits
    <3> QED BY <2>1, <3>2, <3>5
  <2>8. run'.pc \in Ending =>
          run'.todo = <<>> /\ (Contents(run.task, "result") = AudioOf(Plan(run.task), run.id.source, run.id.model))'
    <3>1. run'.pc \in Ending => run.pc \in Ending BY <2>2 DEF Ending
    <3> QED BY <1>n, <2>1, <2>3, <3>1, TodoFitsIs DEF Plan
  <2> QED BY <2>1, <2>5, <2>6, <2>7, <2>8, TodoNext
<1>11. CASE PublishMarker
  <2>1. /\ run.pc = "placed" /\ run'.pc = "marked" /\ run'.task = run.task /\ run'.todo = run.todo /\ run'.name = run.name
        /\ run'.ret = run.ret /\ UNCHANGED <<rec, file, saved>>
    BY <1>11, PublishMarkerIs
  <2>0. run.pc \in Committing BY <2>1 DEF Committing
  <2> PICK t \in Tasks, s \in Stages : t = run.task /\ s = Head(run.todo) BY <2>0, CommitsIs
  <2>2. \A u \in Tasks, r \in Stages : u # t \/ r # s => mark'[u][r] = mark[u][r] BY <1>11, PublishMarkerIs
  <2>3. mark'[t][s] = [is |-> TRUE, id |-> run.id, name |-> run.name, digest |-> Contents(t, run.name), safe |-> FALSE]
    BY <1>11, PublishMarkerIs
  <2>4. run.todo # <<>> /\ CommitFits(t, s) /\ saved[t].is /\ saved[t].safe /\ run.name \in Names
    BY <2>0, CommitsIs
  <2>5. ASSUME NEW r \in Stages, Reused(t, r) PROVE Reused(t, r)'
    <3>1. r # s BY <2>1, <2>4, <2>5 DEF CommitFits, Reused
    <3> QED BY <2>1, <2>2, <2>5, <3>1, ReusedStays DEF Reused
  <2>6. OnStages' => StagesFit(t)'
    <3>1. OnStages' => OnStages BY <2>1 DEF OnStages, Committing, Ending
    <3>2. Plan(t)' = Plan(t) /\ Plan(t) \in Recipes BY <1>0, <2>1, TypesAre DEF Plan
    <3> QED BY <2>1, <2>5, <3>1, <3>2, StagesStay, TodoFitsIs
  <2>7. OnInherit' => InheritFits'
    <3>1. OnInherit' => OnInherit BY <2>1 DEF OnInherit, Committing, Ending
    <3>2. \A u \in Tasks : Plan(u)' = Plan(u) /\ saved'[u].id = saved[u].id BY <2>1 DEF Plan
    <3> QED BY <2>1, <3>1, <3>2, InheritStays, TodoFitsIs
  <2>8. CommitFits(t, s)'
    <3>1. OwnAudio(t, s)' = OwnAudio(t, s) /\ Plan(t)' = Plan(t) BY <1>s, <2>4, OwnStays
    <3>2. NameFits(t, s, run.name)' /\ (Contents(t, run.name) = OwnAudio(t, s))'
      BY <2>1, <2>4, <3>1 DEF CommitFits, NameFits, Contents
    <3>3. mark'[t][s].is /\ mark'[t][s].name = run.name /\ mark'[t][s].digest = Contents(t, run.name) BY <2>3
    <3>4. Contents(t, run.name)' = Contents(t, run.name) /\ Kept(t, s)' = run'.name
      BY <2>1, <3>3 DEF Contents, Kept
    <3> QED BY <2>1, <3>2, <3>3, <3>4 DEF CommitFits
  <2> QED BY <2>1, <2>4, <2>6, <2>7, <2>8, TodoNext DEF Ending
<1>12. CASE SyncMarker
  <2>1. /\ run.pc = "marked" /\ run'.pc = run.ret /\ run'.task = run.task /\ run'.todo = Tail(run.todo)
        /\ UNCHANGED <<rec, file, saved>>
    BY <1>12, SyncMarkerIs
  <2>0. run.pc \in Committing /\ run.ret \in {"stages", "inherit"} BY <1>0, <2>1 DEF Committing, RunFits
  <2> PICK t \in Tasks, s \in Stages : t = run.task /\ s = Head(run.todo) BY <2>0, CommitsIs
  <2>2. \A u \in Tasks, r \in Stages : u # t \/ r # s => mark'[u][r] = mark[u][r] BY <1>12, SyncMarkerIs
  <2>3. mark'[t][s].is /\ mark'[t][s].name = mark[t][s].name /\ mark'[t][s].digest = mark[t][s].digest
    BY <1>12, SyncMarkerIs
  <2>4. run.todo # <<>> /\ CommitFits(t, s) BY <2>0, CommitsIs
  <2>5. ASSUME NEW r \in Stages, Reused(t, r) PROVE Reused(t, r)'
    BY <2>2, <2>3, <2>5, <2>1, ReusedStays DEF Reused
  <2>6. Reused(t, s)'
    <3>1. Reused(t, s) BY <2>1, <2>4 DEF CommitFits, Reused
    <3> QED BY <2>5, <3>1
  <2>7. OnStages' => StagesFit(t)'
    <3>1. OnStages' => OnStages BY <2>0, <2>1 DEF OnStages, Committing, Ending
    <3>2. Plan(t)' = Plan(t) BY <2>1 DEF Plan
    <3> QED BY <2>0, <2>1, <2>4, <2>5, <2>6, <3>1, <3>2, StagesTail, TodoFitsIs
  <2>8. OnInherit' => InheritFits'
    <3>1. OnInherit' => OnInherit BY <2>0, <2>1 DEF OnInherit, Committing, Ending
    <3>2. \A u \in Tasks : Plan(u)' = Plan(u) /\ saved'[u].id = saved[u].id BY <2>1 DEF Plan
    <3> QED BY <2>1, <2>4, <3>1, <3>2, InheritStays, TodoFitsIs
  <2>9. run'.pc \notin Committing \cup Ending BY <2>0, <2>1 DEF Committing, Ending
  <2> QED BY <2>1, <2>7, <2>8, <2>9, TodoNext
<1>13. CASE PublishResult
  <2>1. /\ run.pc = "stages" /\ run.todo = <<>> /\ run'.pc = "published" /\ run'.task = run.task /\ run'.todo = run.todo
        /\ run'.id = run.id /\ UNCHANGED <<rec, mark, saved>>
    BY <1>13, PublishResultIs
  <2> PICK t \in Tasks : t = run.task BY <1>0, RunSet
  <2>2. /\ file'[t]["result"].c = AudioOf(Plan(t), run.id.source, run.id.model)
        /\ \A u \in Tasks, n \in Names : u # t \/ n # "result" => file'[u][n] = file[u][n]
    BY <1>13, PublishResultIs
  <2>3. \A r \in Stages : Reused(t, r) => Reused(t, r)' BY <1>n, <2>1, <2>2, ReusedStays DEF Reused
  <2>4. StagesFit(t)'
    <3>1. Plan(t)' = Plan(t) /\ Plan(t) \in Recipes BY <1>0, <2>1, TypesAre DEF Plan
    <3> QED BY <2>1, <2>3, <3>1, StagesStay, TodoFitsIs DEF OnStages
  <2>5. (Contents(t, "result") = AudioOf(Plan(t), run.id.source, run.id.model))'
    BY <2>1, <2>2 DEF Contents, Plan
  <2>6. run'.pc \notin Committing /\ ~OnInherit' BY <2>1 DEF Committing, OnInherit
  <2> QED BY <2>1, <2>4, <2>5, <2>6, TodoNext
<1>14. CASE Finish BY <1>14, FinishIs, <1>i
<1>15. CASE RemoveCopy
  <2>1. run'.pc = "prune" BY <1>15, RemoveCopyIs
  <2> QED BY <2>1, TodoOff DEF Committing, Ending
<1>16. CASE CopiesGone
  <2>1. run'.pc = "pruned" BY <1>16, CopiesGoneIs
  <2> QED BY <2>1, TodoOff DEF Committing, Ending
<1>17. CASE CleanedUp BY <1>17, CleanedUpIs, <1>i
<1>18. CASE Crash BY <1>18, CrashIs, <1>i
<1>19. CASE Pause BY <1>19, PauseIs, <1>i
<1>20. CASE \E n \in Names : Harm(n)
  <2> PICK n \in Names : Harm(n) BY <1>20
  <2>1. run'.pc = "idle" BY HarmIs
  <2> QED BY <2>1, TodoOff DEF Committing, Ending
<1>21. CASE Republish
  <2>1. run'.pc = "idle" BY <1>21 DEF Republish, Quiet
  <2> QED BY <2>1, TodoOff DEF Committing, Ending
<1>22. CASE UNCHANGED What
  <2>1. UNCHANGED <<rec, file, mark, saved, run>> BY <1>22 DEF What
  <2>2. \A t : Plan(t)' = Plan(t) BY <2>1 DEF Plan
  <2>3. \A t, s : Kept(t, s)' = Kept(t, s) /\ Contents(t, s)' = Contents(t, s) BY <2>1 DEF Kept, Contents
  <2>4. \A t, s : (Reused(t, s)' <=> Reused(t, s)) /\ (Takes(s)' <=> Takes(s)) /\ OwnAudio(t, s)' = OwnAudio(t, s)
    BY <2>1, <2>2, <2>3 DEF Reused, Takes, OwnAudio, Vocal
  <2>5. OnStages' => StagesFit(run.task)' BY <2>1, <2>2, <2>4, TodoFitsIs DEF StagesFit, OnStages
  <2>6. OnInherit' => InheritFits'
    <3>1. \A u \in Tasks : Plan(u)' = Plan(u) /\ saved'[u].id = saved[u].id BY <2>1, <2>2
    <3>2. OnInherit' => OnInherit BY <2>1 DEF OnInherit
    <3> QED BY <2>1, <3>1, <3>2, InheritStays, TodoFitsIs
  <2>7. run'.pc \in Committing => run'.todo # <<>> /\ CommitFits(run.task, Head(run.todo))'
    BY <2>1, <2>2, <2>3, <2>4, TodoFitsIs DEF CommitFits, NameFits
  <2>8. run'.pc \in Ending =>
          run'.todo = <<>> /\ (Contents(run.task, "result") = AudioOf(Plan(run.task), run.id.source, run.id.model))'
    BY <2>1, <2>2, <2>3, TodoFitsIs
  <2> QED BY <2>1, <2>5, <2>6, <2>7, <2>8, TodoNext
<1> QED BY <1>1, <1>2, <1>3, <1>4, <1>5, <1>6, <1>7, <1>8, <1>9, <1>10, <1>11, <1>12, <1>13, <1>14, <1>15, <1>16, <1>17, <1>18, <1>19, <1>20, <1>21, <1>22, <1>b, StepsAre DEF Works

----------------------------------------
(* The layer of the results. *)

Finished == \A t \in Tasks : ResultFits(t)
\* What a task that has succeeded keeps.
LEMMA ResultStays ==
    ASSUME TasksInv, Steady, NEW t \in Tasks, rec'[t].state = "succeeded" => rec[t].state = "succeeded",
           rec[t].state = "succeeded" => \A s \in Stages : mark[t][s].is => mark'[t][s].is,
           rec[t].state = "succeeded" /\ harmed' = {} => harmed = {} /\ Contents(t, "result")' = Contents(t, "result")
    PROVE ResultFits(t)'
<1> SUFFICES ASSUME rec'[t].state = "succeeded" PROVE ResultFits(t)' BY DEF ResultFits
<1>1. ResultFits(t) /\ rec[t].state = "succeeded" /\ Plan(t) \in Recipes BY InvIs, TypesAre
<1>2. rec'[t].plan = rec[t].plan /\ saved'[t].is /\ saved'[t].safe /\ saved'[t].id = saved[t].id /\ rec'[t].sha = rec[t].sha
  BY <1>1 DEF Steady, Stays, ResultFits
<1>3. Plan(t)' = Plan(t) /\ StagesOf(Plan(t)) \subseteq Stages BY <1>1, <1>2, StagesAre DEF Plan
<1>4. \A s \in StagesOf(Plan(t)) \ {"baseline"} : mark'[t][s].is BY <1>1, <1>3 DEF ResultFits
<1>5. harmed' = {} => (Contents(t, "result") = rec[t].sha)' BY <1>1, <1>2 DEF ResultFits
<1>6. rec'[t].sha = AudioOf(Plan(t), saved[t].id.source, saved[t].id.model) BY <1>1, <1>2 DEF ResultFits
<1> QED BY <1>2, <1>3, <1>4, <1>5, <1>6 DEF ResultFits

\* Every step keeps the results of the tasks that have succeeded.
LEMMA FinishedStep == TasksInv /\ [TasksNext]_taskVars => Finished'
<1> SUFFICES ASSUME TasksInv, [TasksNext]_taskVars PROVE Finished' OBVIOUS
<1>0. TasksType /\ RunFits /\ SyncFits BY InvIs
<1>y. Steady BY SteadyStep
<1>n. "result" \in Names BY NamesAre
<1>q. ASSUME UNCHANGED harmed, \A t \in Tasks : rec'[t].state = "succeeded" => rec[t].state = "succeeded",
             \A t \in Tasks : rec[t].state = "succeeded" =>
               /\ file'[t]["result"].c = file[t]["result"].c
               /\ \A s \in Stages : mark[t][s].is => mark'[t][s].is
      PROVE Finished'
  BY <1>y, <1>q, ResultStays DEF Finished, Contents
<1>s. ASSUME NEW t \in Tasks, NEW x \in {"queued", "active", "stopped", "failed"},
             rec' = [rec EXCEPT ![t].state = x], UNCHANGED <<file, mark, harmed>>
      PROVE Finished'
  <2>1. rec'[t].state = x /\ \A u \in Tasks : u # t => rec'[u].state = rec[u].state
    BY <1>0, <1>s, StateSet DEF RecStates
  <2>2. \A u \in Tasks : rec'[u].state = "succeeded" => rec[u].state = "succeeded" BY <1>s, <2>1
  <2> QED BY <1>q, <1>s, <2>2
<1>f. ASSUME Fail(run.task), run.pc \notin {"idle"} \cup Pruning, UNCHANGED <<file, mark, harmed>> PROVE Finished'
  BY <1>f, FailIs, <1>s
<1>1. CASE \E t \in Tasks, p \in Recipes : Make(t, p)
  <2> PICK t \in Tasks, p \in Recipes : Make(t, p) BY <1>1
  <2>1. rec'[t].state = "active" /\ UNCHANGED <<mark, harmed>> /\ \A u \in Tasks : u # t => rec'[u] = rec[u]
    BY MakeIs
  <2>2. \A u \in Tasks, n \in Names : u # t \/ n \notin {"model", "source"} => file'[u][n] = file[u][n]
    BY MakeIs
  <2> QED BY <1>n, <1>q, <2>1, <2>2
<1>b. CASE \E t \in Tasks : Books(t)
  <2> PICK t \in Tasks : Books(t) BY <1>b
  <2>1. PICK x \in {"queued", "failed"} : rec' = [rec EXCEPT ![t].state = x] BY BookIs
  <2> QED BY <1>s, <2>1, BookIs
<1>2. CASE \E t \in Tasks : Resume(t)
  <2> PICK t \in Tasks : Resume(t) BY <1>2
  <2>1. rec' = [rec EXCEPT ![t].state = "active"] /\ UNCHANGED <<file, mark, harmed>> BY ResumeIs
  <2> QED BY <1>s, <2>1
<1>3. CASE \E t \in Tasks : CleanUp(t)
  <2> PICK t \in Tasks : CleanUp(t) BY <1>3
  <2>1. UNCHANGED <<rec, file, mark, harmed>> BY CleanUpStep
  <2> QED BY <1>q, <2>1
<1>4. CASE Open
  <2>1. run.pc = "open" /\ UNCHANGED <<file, mark, harmed>> /\ (Fail(run.task) \/ UNCHANGED rec)
    BY <1>4, OpenIs
  <2>2. CASE Fail(run.task) BY <1>f, <2>1, <2>2 DEF Pruning
  <2>3. CASE UNCHANGED rec BY <1>q, <2>1, <2>3
  <2> QED BY <2>1, <2>2, <2>3
<1>5. CASE OpenSynced BY <1>5, OpenSyncedIs, <1>q
<1>6. CASE Revise
  <2>1. run.pc = "revise" /\ UNCHANGED <<file, mark, harmed>> /\ (Fail(run.task) \/ UNCHANGED rec)
    BY <1>6, ReviseIs
  <2>2. CASE Fail(run.task) BY <1>f, <2>1, <2>2 DEF Pruning
  <2>3. CASE UNCHANGED rec BY <1>q, <2>1, <2>3
  <2> QED BY <2>1, <2>2, <2>3
<1>7. CASE Inherit
  <2>1. run.pc = "inherit" /\ UNCHANGED <<mark, harmed>> /\ Head(run.todo) \in Stages BY <1>7, InheritStep
  <2> PICK s \in Stages, t \in Tasks : s = Head(run.todo) /\ t = run.task BY <1>0, <2>1, RunSet
  <2>2. (Fail(t) /\ UNCHANGED file) \/ Skipped(t, s) \/ Placed(t, s) BY <1>7, InheritStep
  <2>3. CASE Fail(t) /\ UNCHANGED file BY <1>f, <2>1, <2>3 DEF Pruning
  <2>4. CASE Skipped(t, s)
    <3>1. UNCHANGED <<rec, file>> BY <2>4 DEF Skipped
    <3> QED BY <1>q, <2>1, <3>1
  <2>5. CASE Placed(t, s)
    <3>1. /\ UNCHANGED rec /\ NameFits(t, s, run'.name)
          /\ \A u \in Tasks, n \in Names : u # t \/ n # run'.name => file'[u][n] = file[u][n]
      BY <2>5 DEF Placed
    <3>2. run'.name # "result" BY <3>1, KeepsApart
    <3> QED BY <1>n, <1>q, <2>1, <3>1, <3>2
  <2> QED BY <2>2, <2>3, <2>4, <2>5
<1>8. CASE Inherited
  <2>1. /\ rec'["first"] = rec["first"] /\ rec'["next"].state = rec["next"].state /\ UNCHANGED <<file, mark, harmed>>
    BY <1>8, InheritedStep
  <2>2. \A u \in Tasks : rec'[u].state = rec[u].state BY <2>1 DEF Tasks
  <2> QED BY <1>q, <2>1, <2>2
<1>9. CASE Stage
  <2>1. run.pc = "stages" /\ UNCHANGED <<mark, harmed>> /\ Head(run.todo) \in Stages BY <1>9, StageStep
  <2> PICK s \in Stages, t \in Tasks : s = Head(run.todo) /\ t = run.task BY <1>0, <2>1, RunSet
  <2>2. (Fail(t) /\ UNCHANGED file) \/ Skipped(t, s) \/ Placed(t, s) BY <1>9, StageStep
  <2>3. CASE Fail(t) /\ UNCHANGED file BY <1>f, <2>1, <2>3 DEF Pruning
  <2>4. CASE Skipped(t, s)
    <3>1. UNCHANGED <<rec, file>> BY <2>4 DEF Skipped
    <3> QED BY <1>q, <2>1, <3>1
  <2>5. CASE Placed(t, s)
    <3>1. /\ UNCHANGED rec /\ NameFits(t, s, run'.name)
          /\ \A u \in Tasks, n \in Names : u # t \/ n # run'.name => file'[u][n] = file[u][n]
      BY <2>5 DEF Placed
    <3>2. run'.name # "result" BY <3>1, KeepsApart
    <3> QED BY <1>n, <1>q, <2>1, <3>1, <3>2
  <2> QED BY <2>2, <2>3, <2>4, <2>5
<1>10. CASE SyncFile \/ SyncParents \/ SyncResult BY <1>10, SyncStep, <1>n, <1>q
<1>11. CASE PublishMarker
  <2>0. run.pc = "placed" /\ UNCHANGED <<rec, file, harmed>> BY <1>11, PublishMarkerIs
  <2> PICK t \in Tasks, s \in Stages : t = run.task /\ s = Head(run.todo) BY <2>0, CommitsIs DEF Committing
  <2>1. rec[t].state = "active" BY <2>0, CommitsIs DEF Committing
  <2>2. \A u \in Tasks, r \in Stages : u # t \/ r # s => mark'[u][r] = mark[u][r] BY <1>11, PublishMarkerIs
  <2> QED BY <1>q, <2>0, <2>1, <2>2
<1>12. CASE SyncMarker
  <2>0. run.pc = "marked" /\ UNCHANGED <<rec, file, harmed>> BY <1>12, SyncMarkerIs
  <2> PICK t \in Tasks, s \in Stages : t = run.task /\ s = Head(run.todo) BY <2>0, CommitsIs DEF Committing
  <2>1. rec[t].state = "active" BY <2>0, CommitsIs DEF Committing
  <2>2. \A u \in Tasks, r \in Stages : u # t \/ r # s => mark'[u][r] = mark[u][r] BY <1>12, SyncMarkerIs
  <2> QED BY <1>q, <2>0, <2>1, <2>2
<1>13. CASE PublishResult
  <2> PICK t \in Tasks : t = run.task BY <1>0, RunSet
  <2>1. /\ run.pc = "stages" /\ UNCHANGED <<rec, mark, harmed>>
        /\ \A u \in Tasks, n \in Names : u # t \/ n # "result" => file'[u][n] = file[u][n]
    BY <1>13, PublishResultIs
  <2>2. rec[t].state = "active" BY <1>0, <2>1 DEF RunFits, Pruning
  <2> QED BY <1>n, <1>q, <2>1, <2>2
<1>14. CASE Finish
  <2> PICK t \in Tasks : t = run.task BY <1>0, RunSet
  <2>1. /\ run.pc = "finish" /\ rec'[t].plan = rec[t].plan /\ rec'[t].sha = Contents(t, "result")
        /\ \A u \in Tasks : u # t => rec'[u] = rec[u]
    BY <1>14, FinishIs
  <2>2. UNCHANGED <<file, mark, saved, harmed>> BY <1>14, FinishIs
  <2>3. /\ saved[t].is /\ saved[t].safe /\ run.id = saved[t].id BY <1>0, <2>1 DEF RunFits, Pruning
  <2>4. run.todo = <<>> /\ Contents(t, "result") = AudioOf(Plan(t), run.id.source, run.id.model) /\ OnStages
    BY <2>1, TodoFitsIs DEF Ending, OnStages
  <2>5. \A s \in StagesOf(Plan(t)) \ {"baseline"} : mark[t][s].is BY <2>1, <2>4, AllDone DEF Ending
  <2>6. ResultFits(t)'
    <3>1. Plan(t)' = Plan(t) /\ Contents(t, "result")' = Contents(t, "result")
      BY <2>1, <2>2 DEF Plan, Contents
    <3>2. /\ saved'[t].is /\ saved'[t].safe /\ rec'[t].sha = AudioOf(Plan(t), saved[t].id.source, saved[t].id.model)
          /\ saved'[t].id = saved[t].id /\ \A s \in StagesOf(Plan(t)) \ {"baseline"} : mark'[t][s].is
      BY <2>1, <2>2, <2>3, <2>4, <2>5
    <3> QED BY <2>1, <3>1, <3>2 DEF ResultFits
  <2>7. ASSUME NEW u \in Tasks, u # t PROVE ResultFits(u)'
    <3>1. rec'[u] = rec[u] BY <2>1, <2>7
    <3> QED BY <1>y, <2>2, <3>1, ResultStays DEF Contents
  <2> QED BY <2>6, <2>7 DEF Finished
<1>15. CASE RemoveCopy
  <2> PICK t \in Tasks, n \in Names : t = run.task /\ n = Head(run.todo) BY <1>15, RemoveCopyIs
  <2>1. n \in CopySet(Plan(t)) /\ UNCHANGED <<rec, mark, harmed>> BY <1>15, RemoveCopyIs
  <2>2. \A u \in Tasks, m \in Names : u # t \/ m # n => file'[u][m] = file[u][m] BY <1>15, RemoveCopyIs
  <2>3. n # "result" BY <2>1, CopiesAreOutputs
  <2> QED BY <1>n, <1>q, <2>1, <2>2, <2>3
<1>16. CASE CopiesGone BY <1>16, CopiesGoneIs, <1>q
<1>17. CASE CleanedUp
  <2> PICK t \in Tasks : t = run.task BY <1>0, RunSet
  <2>1. rec[t].state = "succeeded" /\ UNCHANGED <<file, mark, harmed>> /\ \A u \in Tasks : u # t => rec'[u] = rec[u]
    BY <1>17, CleanedUpIs
  <2>2. \A u \in Tasks : rec'[u].state = "succeeded" => rec[u].state = "succeeded" BY <2>1
  <2> QED BY <1>q, <2>1, <2>2
<1>18. CASE Crash
  <2>1. UNCHANGED harmed /\ \A t \in Tasks : rec'[t].state = "succeeded" => rec[t].state = "succeeded"
    BY <1>18, CrashIs
  <2>2. \A t \in Tasks, s \in Stages : mark[t][s].is /\ mark[t][s].safe => mark'[t][s].is BY <1>18, CrashIs
  <2>3. \A t \in Tasks, n \in Names :
          \/ file[t][n].safe < 2
          \/ t = run.task /\ \E x \in run.gone : x[1] = n /\ file'[t][n] = x[2]
          \/ file'[t][n] = file[t][n]
    BY <1>18, CrashIs
  <2>4. ASSUME NEW t \in Tasks, rec[t].state = "succeeded"
        PROVE file'[t]["result"] = file[t]["result"] /\ \A s \in Stages : mark[t][s].is => mark'[t][s].is
    <3>1. \A s \in Stages : mark[t][s].is => mark[t][s].safe BY <1>0, <2>4 DEF RunFits, SyncFits, Pruning
    <3>2. ~(file[t]["result"].safe < 2) BY <1>0, <1>n, <2>4 DEF RunFits, SyncFits, Pruning
    <3>3. \A x \in run.gone : x[1] # "result"
      <4>1. \A x \in run.gone : x[1] \in CopySet(Plan(run.task))
        BY <1>0, InvIs DEF PruneFits, RunFits, Pruning
      <4> QED BY <4>1, CopiesAreOutputs
    <3> QED BY <1>n, <2>2, <2>3, <3>1, <3>2, <3>3
  <2> QED BY <1>q, <2>1, <2>4
<1>19. CASE Pause BY <1>19, PauseIs, <1>s
<1>20. CASE \E n \in Names : Harm(n)
  <2> PICK n \in Names : Harm(n) BY <1>20
  <2>1. harmed' # {} /\ UNCHANGED <<rec, mark>> BY HarmIs
  <2> QED BY <1>y, <2>1, ResultStays DEF Finished
<1>21. CASE Republish
  <2>1. UNCHANGED <<rec, file, mark, harmed>> BY <1>21 DEF Republish
  <2> QED BY <1>q, <2>1
<1>22. CASE UNCHANGED What
  <2>1. UNCHANGED <<rec, file, mark, harmed>> BY <1>22 DEF What
  <2> QED BY <1>q, <2>1
<1> QED BY <1>1, <1>2, <1>3, <1>4, <1>5, <1>6, <1>7, <1>8, <1>9, <1>10, <1>11, <1>12, <1>13, <1>14, <1>15, <1>16, <1>17, <1>18, <1>19, <1>20, <1>21, <1>22, <1>b, StepsAre DEF Works

\* No step takes a stage over for the first task.
LEMMA FirstStep == TasksInv /\ [TasksNext]_taskVars => FirstFits'
<1> SUFFICES ASSUME TasksInv, [TasksNext]_taskVars PROVE FirstFits' OBVIOUS
<1>0. TasksType /\ FirstFits BY InvIs
<1>n. /\ "first" \in Tasks
      /\ \A r \in DOMAIN InheritedName : InheritedName[r] \in Names /\ InheritedName[r] \notin {"model", "source", "result"}
  BY Named, NamesAre DEF Tasks
<1>a. \A r \in DOMAIN InheritedName : file["first"][InheritedName[r]].c = <<>> /\ file["first"][InheritedName[r]].safe = 2
  BY <1>0 DEF FirstFits, Absent
<1>q. ASSUME \A r \in DOMAIN InheritedName : file'["first"][InheritedName[r]] = file["first"][InheritedName[r]] PROVE FirstFits'
  BY <1>0, <1>q DEF FirstFits
<1>1. CASE \E t \in Tasks, p \in Recipes : Make(t, p)
  <2> PICK t \in Tasks, p \in Recipes : Make(t, p) BY <1>1
  <2>1. \A u \in Tasks, n \in Names : u # t \/ n \notin {"model", "source"} => file'[u][n] = file[u][n]
    BY MakeIs
  <2> QED BY <1>q, <1>n, <2>1
<1>b. CASE \E t \in Tasks : Books(t) BY <1>b, <1>q, BookIs
<1>2. CASE \E t \in Tasks : Resume(t)
  <2> PICK t \in Tasks : Resume(t) BY <1>2
  <2>1. UNCHANGED file BY ResumeIs
  <2> QED BY <1>q, <2>1
<1>3. CASE \E t \in Tasks : CleanUp(t)
  <2> PICK t \in Tasks : CleanUp(t) BY <1>3
  <2>1. UNCHANGED file BY CleanUpStep
  <2> QED BY <1>q, <2>1
<1>4. CASE Open BY <1>4, OpenIs, <1>q
<1>5. CASE OpenSynced BY <1>5, OpenSyncedIs, <1>q
<1>6. CASE Revise BY <1>6, ReviseIs, <1>q
<1>7. CASE Inherit
  <2>1. Head(run.todo) \in Stages BY <1>7, InheritStep
  <2> PICK s \in Stages, t \in Tasks : s = Head(run.todo) /\ t = run.task BY <1>0, <2>1, RunSet
  <2>2. UNCHANGED file \/ Skipped(t, s) \/ Placed(t, s) BY <1>7, InheritStep
  <2>3. CASE UNCHANGED file \/ Skipped(t, s) BY <1>q, <2>3 DEF Skipped
  <2>4. CASE Placed(t, s)
    <3>1. /\ NameFits(t, s, run'.name)
          /\ \A u \in Tasks, n \in Names : u # t \/ n # run'.name \/ run'.name = "source" => file'[u][n] = file[u][n]
      BY <2>4 DEF Placed
    <3>2. ASSUME NEW r \in DOMAIN InheritedName, t = "first" PROVE InheritedName[r] # run'.name \/ run'.name = "source"
      <4>1. run'.name = OutputName[s] \/ run'.name = "source" BY <3>1, <3>2 DEF NameFits
      <4>2. ASSUME r # s PROVE InheritedName[r] # run'.name
        <5>1. r \in (DOMAIN InheritedName) \ {s} BY <4>2
        <5>2. \A q \in (DOMAIN InheritedName) \ {s} : run'.name # InheritedName[q]
          <6>1. PICK m : m = run'.name OBVIOUS
          <6>2. NameFits(t, s, m) BY <3>1, <6>1
          <6>3. \A q \in (DOMAIN InheritedName) \ {s} : m # InheritedName[q] BY <6>2, KeepsApart
          <6> QED BY <6>1, <6>3
        <5> QED BY <5>1, <5>2
      <4>3. s \in DOMAIN InheritedName /\ run'.name = OutputName[s] => run'.name # InheritedName[s]
        BY <3>1, KeepsApart
      <4> QED BY <4>1, <4>2, <4>3
    <3>3. ASSUME NEW r \in DOMAIN InheritedName PROVE file'["first"][InheritedName[r]] = file["first"][InheritedName[r]]
      BY <1>n, <3>1, <3>2
    <3> QED BY <1>q, <3>3
  <2> QED BY <2>2, <2>3, <2>4
<1>8. CASE Inherited BY <1>8, InheritedStep, <1>q
<1>9. CASE Stage
  <2>1. Head(run.todo) \in Stages BY <1>9, StageStep
  <2> PICK s \in Stages, t \in Tasks : s = Head(run.todo) /\ t = run.task BY <1>0, <2>1, RunSet
  <2>2. UNCHANGED file \/ Skipped(t, s) \/ Placed(t, s) BY <1>9, StageStep
  <2>3. CASE UNCHANGED file \/ Skipped(t, s) BY <1>q, <2>3 DEF Skipped
  <2>4. CASE Placed(t, s)
    <3>1. /\ NameFits(t, s, run'.name)
          /\ \A u \in Tasks, n \in Names : u # t \/ n # run'.name \/ run'.name = "source" => file'[u][n] = file[u][n]
      BY <2>4 DEF Placed
    <3>2. ASSUME NEW r \in DOMAIN InheritedName, t = "first" PROVE InheritedName[r] # run'.name \/ run'.name = "source"
      <4>1. run'.name = OutputName[s] \/ run'.name = "source" BY <3>1, <3>2 DEF NameFits
      <4>2. ASSUME r # s PROVE InheritedName[r] # run'.name
        <5>1. r \in (DOMAIN InheritedName) \ {s} BY <4>2
        <5>2. \A q \in (DOMAIN InheritedName) \ {s} : run'.name # InheritedName[q]
          <6>1. PICK m : m = run'.name OBVIOUS
          <6>2. NameFits(t, s, m) BY <3>1, <6>1
          <6>3. \A q \in (DOMAIN InheritedName) \ {s} : m # InheritedName[q] BY <6>2, KeepsApart
          <6> QED BY <6>1, <6>3
        <5> QED BY <5>1, <5>2
      <4>3. s \in DOMAIN InheritedName /\ run'.name = OutputName[s] => run'.name # InheritedName[s]
        BY <3>1, KeepsApart
      <4> QED BY <4>1, <4>2, <4>3
    <3>3. ASSUME NEW r \in DOMAIN InheritedName PROVE file'["first"][InheritedName[r]] = file["first"][InheritedName[r]]
      BY <1>n, <3>1, <3>2
    <3> QED BY <1>q, <3>3
  <2> QED BY <2>2, <2>3, <2>4
<1>10. CASE SyncFile \/ SyncParents \/ SyncResult BY <1>10, SyncStep, <1>a, <1>n, <1>q
<1>11. CASE PublishMarker BY <1>11, PublishMarkerIs, <1>q
<1>12. CASE SyncMarker BY <1>12, SyncMarkerIs, <1>q
<1>13. CASE PublishResult BY <1>13, PublishResultIs, <1>n, <1>q
<1>14. CASE Finish BY <1>14, FinishIs, <1>q
<1>15. CASE RemoveCopy
  <2> PICK t \in Tasks, n \in Names : t = run.task /\ n = Head(run.todo) BY <1>15, RemoveCopyIs
  <2>1. n \in CopySet(Plan(t)) /\ \A u \in Tasks, m \in Names : u # t \/ m # n => file'[u][m] = file[u][m]
    BY <1>15, RemoveCopyIs
  <2>2. \A r \in DOMAIN InheritedName : n # InheritedName[r] BY <2>1, CopiesAreOutputs
  <2> QED BY <1>n, <1>q, <2>1, <2>2
<1>16. CASE CopiesGone BY <1>16, CopiesGoneIs, <1>q
<1>17. CASE CleanedUp BY <1>17, CleanedUpIs, <1>q
<1>18. CASE Crash
  <2>1. \A t \in Tasks, n \in Names :
          \/ file[t][n].safe < 2
          \/ t = run.task /\ \E x \in run.gone : x[1] = n /\ file'[t][n] = x[2]
          \/ file'[t][n] = file[t][n]
    BY <1>18, CrashIs
  <2>2. \A x \in run.gone, r \in DOMAIN InheritedName : x[1] # InheritedName[r]
    <3>1. \A x \in run.gone : x[1] \in CopySet(Plan(run.task)) BY InvIs DEF PruneFits, RunFits, Pruning
    <3> QED BY <3>1, CopiesAreOutputs
  <2>3. ASSUME NEW r \in DOMAIN InheritedName PROVE file'["first"][InheritedName[r]] = file["first"][InheritedName[r]]
    BY <1>a, <1>n, <2>1, <2>2
  <2> QED BY <1>q, <2>3
<1>19. CASE Pause BY <1>19, PauseIs, <1>q
<1>20. CASE \E n \in Names : Harm(n)
  <2> PICK n \in Names : Harm(n) BY <1>20
  <2>1. Has("first", n) /\ \A u \in Tasks, m \in Names : u # "first" \/ m # n => file'[u][m] = file[u][m]
    BY HarmIs
  <2>2. \A r \in DOMAIN InheritedName : n # InheritedName[r] BY <1>a, <2>1 DEF Has
  <2> QED BY <1>n, <1>q, <2>1, <2>2
<1>21. CASE Republish BY <1>21, <1>q DEF Republish
<1>22. CASE UNCHANGED What BY <1>22, <1>q DEF What
<1> QED BY <1>1, <1>2, <1>3, <1>4, <1>5, <1>6, <1>7, <1>8, <1>9, <1>10, <1>11, <1>12, <1>13, <1>14, <1>15, <1>16, <1>17, <1>18, <1>19, <1>20, <1>21, <1>22, <1>b, StepsAre DEF Works

----------------------------------------
(* The layer of the request. *)

\* While a task is asked for none is active, and copies are cleaned up only of
\* the first task.
LEMMA AskedIs ==
    ASSUME TasksInv, request.pc # "none"
    PROVE /\ request.task \in Tasks /\ request.pc \in {"asked", "reserved"}
          /\ run.pc \in {"idle"} \cup Pruning /\ (run.pc \in Pruning => run.task = "first")
<1>0. TasksType /\ RunFits /\ RequestFits /\ TaskFits("next") /\ "first" \in Tasks /\ "next" \in Tasks
  BY InvIs DEF Tasks
<1>1. /\ request.task \in {"first", "next"} /\ request.pc \in {"asked", "reserved"} /\ run.task \in {"first", "next"}
      /\ rec[request.task].state \in {"none", "queued"}
  BY <1>0, RunSet DEF RequestFits, Tasks
<1>2. rec["next"].state \in {"active", "succeeded"} => rec["first"].state = "succeeded"
  BY <1>0 DEF TaskFits, Allowed
<1>3. request.task = "next" => rec["first"].state = "succeeded" BY <1>0 DEF RequestFits, Allowed
<1>4. rec[run.task].state # "active" /\ (run.task = "next" => rec[run.task].state # "succeeded")
  BY <1>1, <1>2, <1>3
<1> QED BY <1>0, <1>1, <1>4 DEF RunFits, Tasks

\* Every step keeps what a request has looked up true.
LEMMA RequestStep == TasksInv /\ [TasksNext]_taskVars => RequestFits'
<1> SUFFICES ASSUME TasksInv, [TasksNext]_taskVars PROVE RequestFits' OBVIOUS
<1>0. TasksType /\ RunFits /\ RequestFits /\ TaskFits("first") /\ "first" \in Tasks BY InvIs DEF Tasks
<1>y. Steady BY SteadyStep
<1>z. ASSUME request' = NoRequest PROVE RequestFits'
  <2>1. (CHOOSE p \in Recipes : TRUE) \in Recipes BY RecipesAssumption
  <2> QED BY <1>z, <2>1 DEF RequestFits, NoRequest, Tasks
<1>u. ASSUME UNCHANGED request, request.pc = "none" PROVE RequestFits' BY <1>0, <1>u DEF RequestFits
<1>k. ASSUME UNCHANGED request, request.pc # "none",
             request.pc = "asked" => rec'[request.task].state = "none",
             request.pc = "reserved" => run'.pc = "idle" /\ rec'[request.task].state = "queued",
             request.own => Has("first", "model")' \/ rec'["first"].pruned \/ run'.pc \in Pruning
      PROVE RequestFits'
  <2>1. Allowed(request.task, request.plan)'
    BY <1>0, <1>k, <1>y DEF RequestFits, Allowed, Steady, Stays, Plan, SameCleanup
  <2>2. request.own => Plan("first")' = Plan("first")
    BY <1>0, <1>k, <1>y DEF RequestFits, Allowed, Steady, Stays, Plan
  <2> QED BY <1>0, <1>k, <2>1, <2>2 DEF RequestFits
<1>w. ASSUME UNCHANGED <<request, rec, file>>, request.pc # "none",
             request.pc = "reserved" => run'.pc = "idle", run'.pc \in Pruning \/ UNCHANGED run
      PROVE RequestFits'
  BY <1>0, <1>k, <1>w DEF RequestFits, Has
<1>1. CASE \E t \in Tasks, p \in Recipes : Ask(t, p)
  <2> PICK t \in Tasks, p \in Recipes : Ask(t, p) BY <1>1
  <2> DEFINE own == t = "next" /\ Plan("first").kind = "convert" /\ Has("first", "model")
  <2>1. /\ request' = [pc |-> "asked", task |-> t, plan |-> p, own |-> own] /\ rec[t].state = "none"
        /\ UNCHANGED <<rec, file, run>>
        /\ (t = "first" => p.kind # "preview") /\ (t = "next" => rec["first"].state = "succeeded")
        /\ t = "next" /\ p.kind = "preview" => /\ Plan("first").kind = "convert"
             /\ [p EXCEPT !.kind = "convert", !.edits = Plan("first").edits] = [Plan("first") EXCEPT !.mix = FALSE]
    BY DEF Ask
  <2>2. own \in BOOLEAN /\ (own => t = "next" /\ Plan("first").kind = "convert" /\ Has("first", "model"))
    OBVIOUS
  <2> HIDE DEF own
  <2>3. p \in Plans /\ Plan("first") \in Plans BY <1>0, TypesAre, Recipe
  <2>4. ASSUME t = "next", p.kind = "preview" PROVE SameCleanup(p, Plan("first"))
    <3> DEFINE a == [p EXCEPT !.kind = "convert", !.edits = Plan("first").edits]
               b == [Plan("first") EXCEPT !.mix = FALSE]
    <3>1. a.song = p.song /\ a.clean = p.clean /\ b.song = Plan("first").song /\ b.clean = Plan("first").clean
      BY <2>3 DEF Plans
    <3> QED BY <2>1, <2>4, <3>1 DEF SameCleanup
  <2>5. Allowed(t, p)' /\ Plan("first")' = Plan("first")
    BY <2>1, <2>4, SMTT(30) DEF Allowed, Plan, SameCleanup
  <2> QED BY <2>1, <2>2, <2>5 DEF RequestFits, Has
<1>2. CASE (\E t \in Tasks, p \in Recipes : Prepare(t, p)) \/ Crash BY <1>2, <1>z DEF Prepare, Crash
<1>3. CASE Reserve
  <2>1. /\ request.pc = "asked" /\ run.pc = "idle" /\ UNCHANGED <<file, run>>
        /\ request' = [request EXCEPT !.pc = "reserved"] /\ rec' = [rec EXCEPT ![request.task].state = "queued"]
    BY <1>3 DEF Reserve
  <2>2. /\ request'.pc = "reserved" /\ request'.task = request.task /\ request'.plan = request.plan
        /\ request'.own = request.own /\ request.task \in Tasks
        /\ request' \in [pc : {"none", "asked", "reserved"}, task : Tasks, plan : Recipes, own : BOOLEAN]
    BY <1>0, <2>1 DEF RequestFits
  <2>3. /\ rec'[request.task].state = "queued"
        /\ \A u \in Tasks : /\ rec'[u].plan = rec[u].plan /\ rec'[u].pruned = rec[u].pruned
                            /\ u # request.task => rec'[u].state = rec[u].state
    BY <1>0, <2>1, <2>2, StateSet DEF RecStates
  <2>4. Allowed(request.task, request.plan)' BY <1>0, <2>1, <2>3 DEF RequestFits, Allowed, Plan, SameCleanup
  <2> QED BY <1>0, <2>1, <2>2, <2>3, <2>4 DEF RequestFits, Has, Plan, Allowed, SameCleanup
<1>4. CASE \E t \in Tasks : Resume(t) \/ CleanUp(t)
  <2> PICK t \in Tasks : Resume(t) \/ CleanUp(t) BY <1>4
  <2>1. request.pc # "reserved" /\ run.pc = "idle" /\ UNCHANGED <<request, file>> BY DEF Resume, CleanUp, Free
  <2>2. CASE request.pc = "none" BY <1>u, <2>1, <2>2
  <2>3. CASE request.pc # "none" /\ CleanUp(t) BY <1>w, <2>1, <2>3, CleanUpStep DEF Pruning
  <2>4. CASE request.pc # "none" /\ Resume(t)
    <3>1. request.pc = "asked" /\ request.task \in Tasks /\ rec[request.task].state = "none"
      BY <1>0, <2>1, <2>4, AskedIs DEF RequestFits
    <3>2. rec[t].state = "stopped" /\ rec' = [rec EXCEPT ![t].state = "active"] BY <2>4, ResumeIs
    <3>3. rec'["first"].pruned = rec["first"].pruned /\ rec'[request.task].state = rec[request.task].state
      BY <1>0, <3>1, <3>2, StateSet DEF RecStates
    <3>4. request.own => Has("first", "model") \/ rec["first"].pruned
      BY <1>0, <2>1, <2>4 DEF RequestFits, Pruning
    <3> QED BY <1>k, <2>1, <2>4, <3>1, <3>3, <3>4 DEF Has
  <2> QED BY <2>2, <2>3, <2>4
<1>5. CASE Open \/ OpenSynced \/ Revise \/ Inherit \/ Inherited \/ Stage \/ Pause
  BY <1>5, <1>u, AskedIs DEF Open, OpenSynced, Revise, Inherit, Inherited, Stage, Pause, Pruning
<1>6. CASE SyncFile \/ SyncParents \/ PublishMarker \/ SyncMarker \/ PublishResult \/ SyncResult \/ Finish
  BY <1>6, <1>u, AskedIs DEF SyncFile, SyncParents, PublishMarker, SyncMarker, PublishResult, SyncResult, Finish, Pruning
<1>7. CASE RemoveCopy \/ CopiesGone \/ CleanedUp
  <2>1. UNCHANGED request /\ run.pc \in Pruning BY <1>7 DEF RemoveCopy, CopiesGone, CleanedUp, Pruning
  <2>2. SUFFICES ASSUME request.pc # "none" PROVE RequestFits' BY <1>u, <2>1
  <2>3. request.pc = "asked" /\ request.task \in Tasks /\ run.task = "first" /\ rec[request.task].state = "none"
    BY <1>0, <2>1, <2>2, AskedIs DEF RequestFits, Pruning
  <2>4. CASE RemoveCopy \/ CopiesGone
    <3>1. UNCHANGED rec /\ run'.pc \in Pruning BY <2>4, RemoveCopyIs, CopiesGoneIs DEF Pruning
    <3> QED BY <1>k, <2>1, <2>2, <2>3, <3>1
  <2>5. CASE CleanedUp BY <2>3, <2>5, CleanedUpIs, <1>k, <2>1, <2>2
  <2> QED BY <1>7, <2>4, <2>5
<1>8. CASE (\E n \in Names : Harm(n)) \/ Republish BY <1>8, <1>u DEF Harm, Republish, Quiet
<1>9. CASE Rest \/ UNCHANGED taskVars
  <2>1. UNCHANGED <<request, rec, file, run>> BY <1>9 DEF Rest, taskVars
  <2> QED BY <1>0, <2>1 DEF RequestFits, Allowed, Plan, SameCleanup, Has
<1> QED BY <1>1, <1>2, <1>3, <1>4, <1>5, <1>6, <1>7, <1>8, <1>9 DEF TasksNext

----------------------------------------
(* The invariant, and what follows from it. *)

\* The invariant holds at first.
LEMMA InitInv == TasksInit => TasksInv
<1> SUFFICES ASSUME TasksInit PROVE TasksInv OBVIOUS
<1>1. TasksType /\ RunFits /\ Tasking /\ SyncFits /\ InputsFit BY InitType, InitTasking, InitInputs
<1>2. Idle.pc = "idle" /\ None.is = FALSE /\ run = Idle BY <1>1, RunSet, OrNone DEF TasksInit
<1>3. PruneFits /\ TodoFits BY <1>2 DEF PruneFits, TodoFits, Pruning, Committing, Ending
<1>4. FirstFits BY NamesAre DEF FirstFits, TasksInit, Tasks
<1>5. \A t \in Tasks, s \in Stages : MarkFits(t, s)
  <2>1. \A t \in Tasks, s \in Stages : mark[t][s] = None BY DEF TasksInit
  <2> QED BY <1>2, <2>1 DEF MarkFits
<1>6. \A t \in Tasks : ResultFits(t)
  <2>1. \A t \in Tasks : rec[t].state = "none" BY DEF TasksInit
  <2> QED BY <2>1 DEF ResultFits
<1>7. RequestFits
  <2>1. (CHOOSE p \in Recipes : TRUE) \in Recipes BY RecipesAssumption
  <2> QED BY <2>1 DEF RequestFits, TasksInit, NoRequest, Tasks
<1> QED BY <1>1, <1>3, <1>4, <1>5, <1>6, <1>7 DEF TasksInv, Tasking

\* Every step keeps the invariant: its layers put together.
LEMMA StepInv == TasksInv /\ [TasksNext]_taskVars => TasksInv'
<1> SUFFICES ASSUME TasksInv, [TasksNext]_taskVars PROVE TasksInv' OBVIOUS
<1>1. TasksType' /\ RunFits' /\ SyncFits' /\ Tasking' /\ InputsFit'
  BY TypeStep, RunStep, SyncedStep, TaskingStep, InputsStep
<1>2. Marking' /\ PruneFits' /\ TodoFits' /\ Finished' /\ FirstFits' /\ RequestFits'
  BY MarkingStep, PruneStep, TodoStep, FinishedStep, FirstStep, RequestStep
<1> QED BY <1>1, <1>2 DEF TasksInv, Tasking, Marking, Finished

\* The invariant holds in every state, for every set of recipes and releases and
\* any number of crashes.
THEOREM TasksInvariant == TasksSpec => []TasksInv
<1> QED BY InitInv, StepInv, PTL DEF TasksSpec

\* A stage that is marked as done has its file, durable and with the digest the
\* marker names, unless the file was changed from outside or cleaned up after the
\* task had succeeded (TaskArtifacts::commit, completed_stage).
THEOREM MarkersAreDurable == TasksSpec => []MarkedIsDurable
<1>1. TasksInv => MarkedIsDurable
  <2> SUFFICES ASSUME TasksInv, NEW t \in Tasks, NEW s \in Stages, mark[t][s].is
               PROVE \/ file[t][Kept(t, s)] = [c |-> mark[t][s].digest, safe |-> 2]
                     \/ t = "first" /\ Kept(t, s) \in harmed
                     \/ rec[t].state = "succeeded" /\ ~Has(t, Kept(t, s))
    BY DEF MarkedIsDurable
  <2>1. MarkFits(t, s) BY InvIs
  <2> QED BY <2>1 DEF MarkFits, Harmed, Has, Absent
<1> QED BY <1>1, TasksInvariant, PTL

\* A result that is reported is the one the recipe stands for, whatever was
\* reused, inherited, interrupted or removed on the way (convert_audio,
\* inherit_audio_stages).
THEOREM ResultsAreOwn == TasksSpec => []ResultIsOwn
<1>1. TasksInv => ResultIsOwn
  <2> SUFFICES ASSUME TasksInv PROVE ResultIsOwn OBVIOUS
  <2>1. ASSUME NEW t \in Tasks, rec[t].state = "succeeded"
        PROVE rec[t].sha = AudioOf(Plan(t), saved[t].id.source, saved[t].id.model)
    <3>1. ResultFits(t) BY InvIs
    <3> QED BY <2>1, <3>1 DEF ResultFits
  <2>2. ASSUME NEW t \in Tasks, saved[t].is, harmed = {}
        PROVE saved[t].id.source = <<"source">> /\ (Plan(t).kind # "preprocess" => saved[t].id.model = rec[t].model)
    <3>1. TaskFits(t) /\ InputsFit BY InvIs
    <3>2. rec[t].kept BY <2>2, <3>1 DEF TaskFits
    <3>3. Inputs(t) BY <2>2, <3>1, <3>2 DEF InputsFit
    <3> QED BY <2>2, <3>3 DEF Inputs
  <2>3. ASSUME mark["next"]["baseline"].is
        PROVE mark["next"]["baseline"].digest =
                Excerpt(VocalOf(Plan("first"), saved["first"].id.source, saved["first"].id.model))
    <3>1. MarkFits("next", "baseline") BY InvIs DEF Tasks, Stages
    <3>2. mark["next"]["baseline"].digest = OwnAudio("next", "baseline") BY <2>3, <3>1 DEF MarkFits
    <3> QED BY <3>2 DEF OwnAudio, Vocal
  <2> QED BY <2>1, <2>2, <2>3 DEF ResultIsOwn
<1> QED BY <1>1, TasksInvariant, PTL

\* What a clean-up may remove: never the source, never the result, and never
\* the vocal behind a mix.
LEMMA CopiesMayGo ==
    ASSUME TasksInv, run.pc \in Pruning, NEW n \in CopySet(Plan(run.task))
    PROVE LET t == run.task
          IN /\ rec[t].sha = Contents(t, "result") /\ n \notin {"source", "result"}
             /\ Plan(t).mix => n # Kept(t, "conversion")
<1> PICK t \in Tasks : t = run.task BY InvIs, RunSet
<1>1. rec[t].sha = Contents(t, "result") /\ n \notin {"source", "result"}
  BY InvIs, CopiesAreOutputs DEF PruneFits
<1>2. ASSUME Plan(t).mix PROVE n # Kept(t, "conversion")
  <2>1. Plan(t) \in Recipes /\ rec[t].state = "succeeded" /\ ResultFits(t) /\ MarkFits(t, "conversion")
    BY InvIs, TypesAre DEF RunFits, Stages
  <2>2. Plan(t).kind = "convert" BY <1>2, <2>1, Recipe
  <2>3. mark[t]["conversion"].is BY <2>1, <2>2 DEF ResultFits, StagesOf
  <2>4. NameFits(t, "conversion", Kept(t, "conversion")) BY <2>1, <2>3 DEF MarkFits
  <2>5. Kept(t, "conversion") # "model" /\ Kept(t, "conversion") # OutputName["mixing"]
    BY <2>4, KeepsApart DEF Stages
  <2>6. n \in {"model", "cover"} BY <1>2, CopiesAreOutputs
  <2> QED BY <2>5, <2>6, Named
<1> QED BY <1>1, <1>2

\* While copies are removed only a removal and a crash change the files.
LEMMA PruningIs ==
    ASSUME TasksInv, [TasksNext]_taskVars, run.pc = "prune"
    PROVE RemoveCopy \/ Crash \/ UNCHANGED file
<1>1. (\A t \in Tasks, p \in Recipes : ~Make(t, p)) /\ (\A t \in Tasks : ~Books(t)) /\ (UNCHANGED What => UNCHANGED file)
  BY MakeFits, BookIs DEF What
<1>2. \A t \in Tasks : ~Resume(t) /\ ~CleanUp(t) BY DEF Resume, CleanUp, Free
<1>3. ~Open /\ ~OpenSynced /\ ~Revise /\ ~Inherit /\ ~Inherited /\ ~Stage
  BY DEF Open, OpenSynced, Revise, Inherit, Inherited, Stage
<1>4. ~SyncFile /\ ~SyncParents /\ ~PublishMarker /\ ~SyncMarker /\ ~PublishResult /\ ~SyncResult /\ ~Finish
  BY DEF SyncFile, SyncParents, PublishMarker, SyncMarker, PublishResult, SyncResult, Finish
<1>5. ~CleanedUp /\ ~Pause /\ ~Republish /\ \A n \in Names : ~Harm(n)
  BY DEF CleanedUp, Pause, Republish, Harm, Quiet
<1>6. CopiesGone => UNCHANGED file BY DEF CopiesGone
<1> QED BY <1>1, <1>2, <1>3, <1>4, <1>5, <1>6, StepsAre DEF Works

\* A clean-up removes a copy only while the result that stands in for it is
\* whole, and never the source, the result or the vocal behind a mix, whatever
\* the crash it is cut short by (prune_task_copies).
THEOREM CleaningUpIsSafe == TasksSpec => CleanUpIsSafe
<1>1. ASSUME TasksInv, [TasksNext]_taskVars, NEW t \in Tasks, NEW n \in Names,
             Has(t, n), ~Has(t, n)', run.pc = "prune"
      PROVE /\ rec[t].sha = Contents(t, "result") /\ n \notin {"source", "result"}
            /\ Plan(t).mix => n # Kept(t, "conversion")
  <2> PICK u \in Tasks : u = run.task BY <1>1, InvIs, RunSet
  <2>1. file'[t][n] # file[t][n] BY <1>1 DEF Has
  <2>2. ASSUME t = u, n \in CopySet(Plan(u))
        PROVE /\ rec[t].sha = Contents(t, "result") /\ n \notin {"source", "result"}
              /\ Plan(t).mix => n # Kept(t, "conversion")
    BY <1>1, <2>2, CopiesMayGo DEF Pruning
  <2>3. CASE RemoveCopy
    <3> PICK m \in Names : m = Head(run.todo) BY <1>1, <2>3, RemoveCopyIs
    <3>1. m \in CopySet(Plan(u)) /\ \A v \in Tasks, w \in Names : v # u \/ w # m => file'[v][w] = file[v][w]
      BY <1>1, <2>3, RemoveCopyIs
    <3> QED BY <2>1, <2>2, <3>1
  <2>4. CASE Crash
    <3>1. \/ file[t][n].safe < 2
          \/ t = u /\ \E x \in run.gone : x[1] = n /\ file'[t][n] = x[2]
          \/ file'[t][n] = file[t][n]
      BY <1>1, <2>4, CrashIs
    <3>2. file[t][n].safe = 2 BY <1>1, QuietIs
    <3>3. t = u /\ \E x \in run.gone : x[1] = n BY <2>1, <3>1, <3>2
    <3>4. n \in CopySet(Plan(u)) BY <1>1, <3>3, InvIs DEF PruneFits, Pruning
    <3> QED BY <2>2, <3>3, <3>4
  <2> QED BY <1>1, <2>1, <2>3, <2>4, PruningIs
<1>2. TasksInv /\ [TasksNext]_taskVars =>
        [\A t \in Tasks, n \in Names : Has(t, n) /\ ~Has(t, n)' /\ run.pc = "prune" =>
           /\ rec[t].sha = Contents(t, "result") /\ n \notin {"source", "result"}
           /\ Plan(t).mix => n # Kept(t, "conversion")]_taskVars
  BY <1>1
<1> QED BY <1>2, TasksInvariant, PTL DEF TasksSpec, CleanUpIsSafe

----------------------------------------
(* Why a task fails. *)

\* Nothing was changed from outside, and every release is accepted.
Undisturbed == /\ harmed = {} /\ voice = <<"model">>
               /\ \A u \in Tasks : saved[u].is => saved[u].id.by \in Accepted
\* A clean-up that was cut short has taken the first task's vocal.
CutShort == /\ ~rec["first"].pruned /\ mark["first"]["conversion"].is
            /\ ~Has("first", Kept("first", "conversion"))
\* Or it came between the look-up of the model and its copy.
Gone == request.pc = "reserved" /\ request.own /\ rec["first"].pruned

\* An identity of another release.
LEMMA Resigned ==
    ASSUME NEW x, NEW a, NEW b, NEW p, NEW c, NEW m
    PROVE [[is |-> x, by |-> a, plan |-> p, source |-> c, model |-> m] EXCEPT !.by = b] =
            [is |-> x, by |-> b, plan |-> p, source |-> c, model |-> m]
  OBVIOUS
\* A directory whose identity names its inputs is opened.
LEMMA OpensAs ==
    ASSUME TasksInv, NEW t \in Tasks, NEW m \in Audio, saved[t].is => saved[t].id.by \in Accepted,
           saved[t].is => saved[t].id.source = Contents(t, "source")
                          /\ (Plan(t).kind # "preprocess" => saved[t].id.model = m)
    PROVE OpenedAs(t, m).is
<1> DEFINE now == Identity(Plan(t), release, Contents(t, "source"), m)
<1>1. now.is = TRUE BY DEF Identity
<1>2. CASE ~saved[t].is BY <1>1, <1>2 DEF OpenedAs
<1>3. CASE saved[t].is
  <2>1. saved[t].id \in IdType /\ TaskFits(t) BY <1>3, InvIs, TypesAre
  <2> DEFINE x == saved[t].id
  <2>2. x.is = TRUE /\ x.plan = Plan(t) /\ x.source = Contents(t, "source")
        /\ x.model = IF Plan(t).kind = "preprocess" THEN <<>> ELSE m
    BY <1>3, <2>1 DEF TaskFits, IdType
  <2>3. x = [is |-> x.is, by |-> x.by, plan |-> x.plan, source |-> x.source, model |-> x.model]
    BY <2>1 DEF IdType
  <2>4. [now EXCEPT !.by = x.by] =
          [is |-> TRUE, by |-> x.by, plan |-> Plan(t), source |-> Contents(t, "source"),
           model |-> IF Plan(t).kind = "preprocess" THEN <<>> ELSE m]
    <3> DEFINE k == IF Plan(t).kind = "preprocess" THEN <<>> ELSE m
               yes == TRUE
    <3>1. now = [is |-> yes, by |-> release, plan |-> Plan(t), source |-> Contents(t, "source"), model |-> k]
      BY DEF Identity
    <3> HIDE DEF k, yes
    <3>2. [now EXCEPT !.by = x.by] =
            [is |-> yes, by |-> x.by, plan |-> Plan(t), source |-> Contents(t, "source"), model |-> k]
      BY <3>1, Resigned
    <3> QED BY <3>2 DEF k, yes
  <2>5. x = [now EXCEPT !.by = x.by] /\ x.by \in Accepted BY <1>3, <2>2, <2>3, <2>4
  <2>6. OpenedAs(t, m) = x BY <1>3, <2>5 DEF OpenedAs
  <2> QED BY <2>2, <2>6
<1> QED BY <1>2, <1>3

\* The model of a task, from its own copy or from the voice.
LEMMA ResolvedIs ==
    ASSUME TasksInv, Undisturbed, NEW t \in Tasks, rec[t].kept, Plan(t).kind # "preprocess"
    PROVE Resolved(t) = <<"model">> /\ rec[t].model = <<"model">>
<1>1. Inputs(t) BY InvIs DEF InputsFit, Undisturbed
<1> QED BY <1>1 DEF Inputs, Resolved, Undisturbed

\* A stage that is not as its marker says lacks a copy that a clean-up takes.
LEMMA SpoiltIs ==
    ASSUME TasksInv, harmed = {}, NEW t \in Tasks, NEW s \in Stages, Completed(t, s, saved[t].id) = "bad"
    PROVE /\ rec[t].state = "succeeded" /\ mark[t][s].is /\ ~Has(t, Kept(t, s))
          /\ Kept(t, s) \in CopySet(Plan(t)) /\ NameFits(t, s, Kept(t, s))
<1>1. mark[t][s].is BY DEF Completed
<1>2. MarkFits(t, s) /\ TaskFits(t) /\ InputsFit BY InvIs
<1>3. /\ saved[t].is /\ mark[t][s].id = saved[t].id /\ mark[t][s].digest = OwnAudio(t, s)
      /\ NameFits(t, s, Kept(t, s)) /\ rec[t].kept
  BY <1>1, <1>2 DEF MarkFits, TaskFits
<1>4. saved[t].id.source = <<"source">> BY <1>2, <1>3 DEF InputsFit, Inputs
<1>5. mark[t][s].digest # <<>> BY <1>3, <1>4, TagsAre, OwnAudioIs, FirstIs, InvIs
<1>6. CASE file[t][Kept(t, s)] = [c |-> mark[t][s].digest, safe |-> 2]
  <2>1. Contents(t, Kept(t, s)) = mark[t][s].digest BY <1>6 DEF Contents
  <2> QED BY <1>1, <1>3, <1>5, <2>1 DEF Completed, Has, Contents, Kept
<1>7. CASE rec[t].state = "succeeded" /\ file[t][Kept(t, s)] = Absent /\ Kept(t, s) \in CopySet(Plan(t))
  BY <1>1, <1>3, <1>7 DEF Has, Absent
<1> QED BY <1>1, <1>2, <1>6, <1>7 DEF MarkFits, Harmed
\* A stage of the first task is its vocal then.
LEMMA SpoiltFirst ==
    ASSUME TasksInv, harmed = {}, NEW s \in Stages \ {"mixing"}, Completed("first", s, saved["first"].id) = "bad"
    PROVE /\ s = "conversion" /\ Kept("first", s) = "output" /\ ~Plan("first").mix
          /\ mark["first"][s].is /\ ~Has("first", Kept("first", s))
<1>1. "first" \in Tasks BY DEF Tasks
<1>2. /\ mark["first"][s].is /\ ~Has("first", Kept("first", s))
      /\ Kept("first", s) \in CopySet(Plan("first")) /\ NameFits("first", s, Kept("first", s))
  BY <1>1, SpoiltIs
<1>3. Kept("first", s) = OutputName[s] BY <1>2, CopiesAreOutputs DEF NameFits
<1>4. s = "conversion" BY <1>2, <1>3, Named, CopiesAreOutputs DEF Stages
<1> QED BY <1>2, <1>3, <1>4, Named, CopiesAreOutputs

\* Opening a task fails only when something was disturbed.
LEMMA OpenHolds ==
    ASSUME TasksInv, Undisturbed, Open PROVE ~Fail(run.task)
<1> SUFFICES ASSUME Fail(run.task) PROVE FALSE OBVIOUS
<1> PICK t \in Tasks : t = run.task BY InvIs, RunSet
<1>1. run.pc = "open" /\ rec[t].state = "active" /\ UNCHANGED voice BY OpenIs
<1>2. Inputs(t) BY <1>1, InvIs DEF InputsFit, TaskFits, Undisturbed
<1>3. /\ Contents(t, "source") = <<"source">> /\ Contents(t, "model") = rec[t].model
      /\ saved[t].is => saved[t].id.source = <<"source">> /\ (Plan(t).kind # "preprocess" => saved[t].id.model = rec[t].model)
  BY <1>1, <1>2 DEF Inputs
<1>4. Contents(t, "model") \in Audio BY InvIs, TypesAre, NamesAre
<1>5. OpenedAs(t, Contents(t, "model")).is BY <1>3, <1>4, OpensAs DEF Undisturbed
<1>6. run'.pc = "idle" BY InvIs, RunSet DEF Fail
<1> QED BY <1>5, <1>6, OpenIs

\* So does verifying the first task.
LEMMA ReviseHolds ==
    ASSUME TasksInv, Undisturbed, Revise PROVE ~Fail(run.task)
<1> SUFFICES ASSUME Fail(run.task) PROVE FALSE OBVIOUS
<1>0. "first" \in Tasks /\ "next" \in Tasks BY DEF Tasks
<1>1. run.pc = "revise" /\ run.task = "next" BY ReviseIs
<1>2. saved["first"].is /\ rec["next"].state = "active" BY <1>1, WorksIs DEF Pruning
<1>3. rec["first"].kept /\ rec["next"].kept BY <1>0, <1>2, InvIs DEF TaskFits
<1>4. Inputs("first") /\ Inputs("next") BY <1>0, <1>3, InvIs DEF InputsFit, Undisturbed
<1>5. Contents("next", "source") = Contents("first", "source") /\ saved["first"].id.source = Contents("first", "source")
  BY <1>2, <1>4 DEF Inputs
<1>6. Plan("first").kind # "preprocess" => saved["first"].id.model = Resolved("first")
  BY <1>0, <1>2, <1>3, <1>4, ResolvedIs DEF Inputs
<1>7. Resolved("first") \in Audio BY <1>0, InvIs, TypesAre
<1>8. OpenedAs("first", Resolved("first")).is BY <1>0, <1>5, <1>6, <1>7, OpensAs DEF Undisturbed
<1>9. run'.pc = "idle" BY InvIs, RunSet DEF Fail
<1> QED BY <1>2, <1>5, <1>8, <1>9, ReviseIs

\* Taking a stage over may also miss the vocal that a clean-up took.
LEMMA InheritHolds ==
    ASSUME TasksInv, Undisturbed, Inherit, Fail(run.task) PROVE CutShort
<1> PICK s \in Stages : s = Head(run.todo) BY InheritStep
<1> DEFINE from == InheritFrom(s, saved["first"].id)
<1>0. "first" \in Tasks /\ "next" \in Tasks BY DEF Tasks
<1>1. run.pc = "inherit" /\ run.task = "next" /\ run.todo # <<>> BY InheritStep
<1>2. /\ run.id = saved["next"].id /\ rec["next"].state = "active" /\ s \in DOMAIN InheritedName
  BY <1>1, WorksIs, InheritsIs DEF Pruning
<1>3. rec["first"].state = "succeeded" /\ ResultFits("first") /\ FirstFits
  BY <1>0, <1>2, InvIs DEF TaskFits, Allowed
<1>4. run'.pc = "idle" BY InvIs, RunSet DEF Fail
<1>5. from = "bad" \/ Completed("next", s, run.id) = "bad" BY <1>1, <1>4, InheritStep DEF Skipped, Placed
<1>6. Completed("next", s, run.id) # "bad" BY <1>0, <1>2, SpoiltIs DEF Undisturbed
<1>7. ~(s = "conversion" /\ CopyRemoved)
  BY <1>3, <1>5, <1>6, NamesAre DEF InheritFrom, ResultFits, Undisturbed
<1>8. Completed("first", s, saved["first"].id) = "bad"
  <2>1. Completed("first", s, saved["first"].id) \in {"none", "ok", "bad"} BY <1>0, CompletedIs
  <2>2. Completed("first", s, saved["first"].id) # "ok"
    <3> SUFFICES ASSUME Completed("first", s, saved["first"].id) = "ok" PROVE FALSE OBVIOUS
    <3>1. Kept("first", s) \in Names BY <1>0, CompletedIs
    <3>2. from = Kept("first", s) BY <1>7 DEF InheritFrom
    <3> QED BY <1>5, <1>6, <3>1, <3>2, NamesAre
  <2> QED BY <1>5, <1>6, <1>7, <2>1, <2>2 DEF InheritFrom
<1>9. s = "conversion" /\ Kept("first", s) = "output" /\ mark["first"][s].is /\ ~Has("first", Kept("first", s))
  BY <1>2, <1>8, SpoiltFirst, Named DEF Undisturbed
<1>10. ~Has("first", "inherited-conversion") BY <1>3, Named DEF FirstFits, Has, Absent
<1>11. ~rec["first"].pruned BY <1>7, <1>9, <1>10 DEF CopyRemoved
<1> QED BY <1>9, <1>11 DEF CutShort

\* What the blocks of the first task, and its lead, are: those of its conversion,
\* but a crash may have taken the lead.
Converts == \/ mark["first"]["conversion"].is
            \/ run.task = "first" /\ run.pc \in Committing /\ Head(run.todo) = "conversion"
SeedIs(lead) ==
    /\ seed.of.is \/ seed.lead # <<>> => saved["first"].is /\ saved["first"].safe
    /\ seed.lead = <<>> \/ (Cleans(Plan("first")) /\ seed.lead = lead)
    /\ seed.of.is => /\ seed.of = ConversionOf(<<"model">>, lead)
                     /\ ~Cleans(Plan("first")) \/ seed.lead = lead \/ crashes > 0
    /\ Converts => seed.of.is
SeedInv ==
    /\ seed = [lead |-> seed.lead, safe |-> seed.safe, of |-> seed.of]
    /\ harmed = {} /\ voice = <<"model">> => SeedIs(LeadOf(Plan("first"), <<"source">>))
\* Why a preview finds none to start from.
NoBlocks(t) == /\ t = "next" /\ Plan(t).kind = "preview"
               /\ Plan(t).edits \in Wide \/ (crashes > 0 /\ Cleans(Plan("first")) /\ seed.lead = <<>>)

\* A step that leaves the blocks alone, and completes no conversion.
LEMMA SeedStays ==
    ASSUME TasksInv, Steady, SeedInv, harmed' = {} /\ voice' = <<"model">> => voice = <<"model">>,
           seed' = [lead |-> seed'.lead, safe |-> seed'.safe, of |-> seed'.of], seed'.of = seed.of,
           seed'.lead = seed.lead \/ (seed'.lead = <<>> /\ crashes' > 0), crashes > 0 => crashes' > 0,
           Converts' => Converts
    PROVE SeedInv'
<1> SUFFICES ASSUME harmed' = {}, voice' = <<"model">> PROVE SeedIs(LeadOf(Plan("first"), <<"source">>))'
  BY DEF SeedInv
<1>1. SeedIs(LeadOf(Plan("first"), <<"source">>)) BY DEF SeedInv, Steady
<1>2. CASE seed.of.is \/ seed.lead # <<>> BY <1>1, <1>2 DEF Steady, Stays, SeedIs, Tasks, Plan
<1>3. CASE ~(seed.of.is \/ seed.lead # <<>>) BY <1>1, <1>3 DEF SeedIs
<1> QED BY <1>2, <1>3

\* What the first task's conversion is computed from.
LEMMA LeadIs ==
    ASSUME TasksInv, harmed = {}, voice = <<"model">>, run.pc = "stages", run.todo # <<>>, Head(run.todo) = "conversion"
    PROVE /\ Contents(run.task, "model") = <<"model">>
          /\ Contents(run.task, Kept(run.task, "cleanup")) = LeadOf(Plan(run.task), <<"source">>)
<1> PICK t \in Tasks : t = run.task BY InvIs, RunSet
<1>1. /\ saved[t].is /\ rec[t].state = "active" /\ Plan(t).kind # "preprocess"
      /\ Contents(t, "model") = saved[t].id.model /\ Reused(t, "cleanup") /\ "cleanup" \in Stages
  BY WorksIs, StageIs DEF Pruning, Needs
<1>2. Inputs(t) BY <1>1, InvIs DEF InputsFit, TaskFits
<1>3. Contents(t, Kept(t, "cleanup")) = OwnAudio(t, "cleanup") BY <1>1, ReusedIs
<1> QED BY <1>1, <1>2, <1>3 DEF Inputs, OwnAudio

\* At first there are none.
LEMMA InitSeed == TasksInit => SeedInv
<1> SUFFICES ASSUME TasksInit PROVE SeedInv OBVIOUS
<1>1. Idle.pc = "idle" /\ None.is = FALSE BY InitType, RunSet, OrNone
<1>2. seed = [lead |-> <<>>, safe |-> TRUE, of |-> None] /\ run = Idle /\ mark["first"]["conversion"] = None
  BY DEF TasksInit, Tasks, Stages
<1>3. ~Converts BY <1>1, <1>2 DEF Converts, Committing
<1> QED BY <1>1, <1>2, <1>3 DEF SeedInv, SeedIs

\* A conversion is committed or marked only once a stage has begun it.
LEMMA ConvertsIs ==
    ASSUME TasksInv, [TasksNext]_taskVars, ~Stage PROVE Converts' => Converts
<1>0. TasksType /\ RunFits /\ "first" \in Tasks /\ "next" \in Tasks /\ "conversion" \in Stages
  BY InvIs DEF Tasks, Stages
<1>i. Idle.pc = "idle" BY <1>0, RunSet
<1>k. ASSUME mark'["first"]["conversion"].is => mark["first"]["conversion"].is, run'.pc \notin Committing
      PROVE Converts' => Converts
  BY <1>k DEF Converts
<1>1. CASE \E t \in Tasks, p \in Recipes : Make(t, p) BY <1>1, <1>k, MakeIs DEF Committing
<1>2. CASE \E t \in Tasks : Books(t) BY <1>2, <1>k, BookIs DEF Committing
<1>3. CASE \E t \in Tasks : Resume(t) \/ CleanUp(t) BY <1>3, <1>k, ResumeIs, CleanUpStep DEF Committing
<1>4. CASE Open \/ OpenSynced \/ Revise \/ Inherited
  BY <1>4, <1>i, <1>k, OpenIs, OpenSyncedIs, ReviseIs, InheritedStep DEF Committing, Fail
<1>5. CASE Inherit BY <1>5, InheritStep, <1>i DEF Skipped, Placed, Fail, Converts, Committing
<1>6. CASE SyncFile \/ SyncParents \/ SyncResult
  <2>1. UNCHANGED mark /\ run'.task = run.task /\ Head(run'.todo) = Head(run.todo) BY <1>6, SyncStep
  <2>2. run.pc \in {"computed", "synced", "published"} /\ (run.pc = "published" => run'.pc = "finish")
    BY <1>6, SyncStep
  <2> QED BY <2>1, <2>2 DEF Converts, Committing
<1>7. CASE PublishMarker
  <2>1. /\ run.pc = "placed" /\ run'.task = run.task /\ Head(run'.todo) = Head(run.todo)
        /\ \A u \in Tasks, r \in Stages : u # run.task \/ r # Head(run.todo) => mark'[u][r] = mark[u][r]
    BY <1>7, PublishMarkerIs
  <2>2. mark'["first"]["conversion"] = mark["first"]["conversion"] \/ (run.task = "first" /\ Head(run.todo) = "conversion")
    BY <1>0, <2>1
  <2> QED BY <2>1, <2>2 DEF Converts, Committing
<1>8. CASE SyncMarker
  <2>1. /\ run.pc = "marked" /\ run'.pc = run.ret /\ mark[run.task][Head(run.todo)].is
        /\ \A u \in Tasks, r \in Stages : u # run.task \/ r # Head(run.todo) => mark'[u][r] = mark[u][r]
    BY <1>8, SyncMarkerIs
  <2>2. run'.pc \notin Committing BY <1>0, <2>1 DEF RunFits, Committing
  <2>3. mark'["first"]["conversion"].is => mark["first"]["conversion"].is BY <1>0, <2>1
  <2> QED BY <1>k, <2>2, <2>3
<1>9. CASE PublishResult \/ Finish \/ RemoveCopy \/ CopiesGone \/ CleanedUp \/ Pause
  BY <1>9, <1>i, <1>k, PublishResultIs, FinishIs, RemoveCopyIs, CopiesGoneIs, CleanedUpIs, PauseIs DEF Committing
<1>10. CASE Crash BY <1>0, <1>10, <1>i, <1>k, CrashIs DEF Committing
<1>11. CASE \E n \in Names : Harm(n) BY <1>11, HarmIs DEF Converts
<1>12. CASE Republish \/ UNCHANGED What BY <1>12 DEF Republish, What, Converts
<1> QED BY <1>1, <1>2, <1>3, <1>4, <1>5, <1>6, <1>7, <1>8, <1>9, <1>10, <1>11, <1>12, StepsAre DEF Works

\* Every step keeps what is known of the blocks.
LEMMA SeedStep == TasksInv /\ SeedInv /\ [TasksNext]_taskVars => SeedInv'
<1> SUFFICES ASSUME TasksInv, SeedInv, [TasksNext]_taskVars PROVE SeedInv' OBVIOUS
<1>0. Steady /\ crashes \in Nat BY SteadyStep, InvIs DEF TasksType
<1>1. CASE Stage
  <2> PICK t \in Tasks, s \in Stages : t = run.task /\ s = Head(run.todo) BY <1>1, StageStep, InvIs, RunSet
  <2> DEFINE how == Completed(t, s, run.id)
  <2>1. /\ run.pc = "stages" /\ run.todo # <<>> /\ UNCHANGED <<mark, saved, voice, harmed, crashes>>
        /\ Fail(t) \/ Skipped(t, s) \/ Placed(t, s)
        /\ seed' = IF t = "first" /\ s = "conversion" /\ how # "bad" THEN Leaves(t, how) ELSE seed
    BY <1>1, StageStep DEF Stage
  <2>2. how = "none" <=> ~mark[t][s].is BY CompletedIs
  <2> HIDE DEF how
  <2>3. Converts' => Converts \/ (t = "first" /\ s = "conversion" /\ how # "bad")
    <3>1. run'.pc \in Committing => Placed(t, s) BY <2>1, InvIs, RunSet DEF Fail, Skipped, Committing
    <3>2. Placed(t, s) => how # "bad" /\ run'.task = t /\ Head(run'.todo) = s BY <2>2 DEF Placed
    <3> QED BY <2>1, <3>1, <3>2 DEF Converts
  <2>4. CASE ~(t = "first" /\ s = "conversion" /\ how # "bad")
    BY <1>0, <2>1, <2>3, <2>4, SeedStays DEF SeedInv
  <2>5. CASE t = "first" /\ s = "conversion" /\ how # "bad"
    <3> DEFINE lead == LeadOf(Plan("first"), <<"source">>)
    <3>1. /\ seed'.lead = IF Cleans(Plan(t)) THEN Contents(t, Kept(t, "cleanup")) ELSE seed.lead
          /\ seed'.of = IF how = "none" THEN ConversionOf(Contents(t, "model"), Contents(t, Kept(t, "cleanup"))) ELSE seed.of
          /\ seed' = [lead |-> seed'.lead, safe |-> seed'.safe, of |-> seed'.of]
      BY <2>1, <2>5 DEF Leaves
    <3>2. SUFFICES ASSUME harmed = {}, voice = <<"model">> PROVE SeedIs(lead)' BY <2>1, <3>1 DEF SeedInv
    <3>3. SeedIs(lead) BY <3>2 DEF SeedInv
    <3>4. Contents(t, "model") = <<"model">> /\ Contents(t, Kept(t, "cleanup")) = lead
      BY <2>1, <2>5, <3>2, LeadIs
    <3>5. saved["first"].is /\ saved["first"].safe /\ Plan("first")' = Plan("first")
      BY <1>0, <2>1, <2>5, WorksIs DEF Pruning, Steady, Stays, Plan
    <3>6. lead' = lead BY <3>5
    <3>7. how # "none" => seed.of.is BY <2>2, <2>5, <3>3 DEF SeedIs, Converts
    <3>8. ConversionOf(<<"model">>, lead).is BY DEF ConversionOf
    <3> HIDE DEF lead
    <3>9. seed'.of.is /\ seed'.of = ConversionOf(<<"model">>, lead) BY <3>1, <3>3, <3>4, <3>7, <3>8 DEF SeedIs
    <3>10. (Cleans(Plan("first")) => seed'.lead = lead) /\ (~Cleans(Plan("first")) => seed'.lead = <<>>)
      BY <2>5, <3>1, <3>3, <3>4 DEF SeedIs
    <3> QED BY <2>1, <3>5, <3>6, <3>9, <3>10 DEF SeedIs
  <2> QED BY <2>4, <2>5
<1>2. CASE Crash
  <2>1. UNCHANGED voice /\ crashes' = crashes + 1 /\ LeadMayGo BY <1>2, CrashIs
  <2>2. Converts' => Converts BY <1>0, <2>1, ConvertsIs DEF Stage
  <2>3. /\ seed' = [lead |-> seed'.lead, safe |-> seed'.safe, of |-> seed'.of] /\ seed'.of = seed.of
        /\ seed'.lead \in {seed.lead, <<>>}
    BY <2>1 DEF LeadMayGo, SeedInv
  <2> QED BY <1>0, <2>1, <2>2, <2>3, SeedStays
<1>3. CASE ~Stage /\ ~Crash
  <2>1. /\ UNCHANGED seed /\ (voice' = voice \/ voice' = <<"newer">>) /\ crashes' \in {crashes, crashes + 1}
    <3>1. CASE \/ \E t \in Tasks, p \in Recipes : Ask(t, p) \/ Prepare(t, p)
               \/ Reserve \/ Rest \/ UNCHANGED taskVars \/ \E t \in Tasks : Resume(t) \/ CleanUp(t)
      BY <3>1 DEF Ask, Prepare, Reserve, Rest, taskVars, Resume, CleanUp
    <3>2. CASE Open \/ OpenSynced \/ Revise \/ Inherit \/ Inherited \/ Pause \/ Republish \/ \E n \in Names : Harm(n)
      BY <3>2 DEF Open, OpenSynced, Revise, Inherit, Inherited, Pause, Republish, Harm
    <3>3. CASE \/ SyncFile \/ SyncParents \/ PublishMarker \/ SyncMarker \/ PublishResult \/ SyncResult \/ Finish
               \/ RemoveCopy \/ CopiesGone \/ CleanedUp
      BY <3>3 DEF SyncFile, SyncParents, PublishMarker, SyncMarker, PublishResult, SyncResult, Finish, RemoveCopy, CopiesGone, CleanedUp
    <3> QED BY <1>3, <3>1, <3>2, <3>3 DEF TasksNext
  <2>2. <<"newer">> # <<"model">> OBVIOUS
  <2>3. Converts' => Converts BY <1>3, ConvertsIs
  <2> QED BY <1>0, <2>1, <2>2, <2>3, SeedStays DEF SeedInv
<1> QED BY <1>1, <1>2, <1>3

\* The blocks fit a preview, unless it reaches too far or the lead is lost.
LEMMA BlocksAre ==
    ASSUME TasksInv, SeedInv, Undisturbed, run.pc = "stages", run.todo # <<>>, Head(run.todo) = "conversion",
           Plan(run.task).kind = "preview", ~SeedFits
    PROVE NoBlocks(run.task)
<1> DEFINE lead == LeadOf(Plan("first"), <<"source">>)
<1>0. "first" \in Tasks /\ "next" \in Tasks /\ run.task \in Tasks /\ rec[run.task].state = "active"
  BY WorksIs DEF Tasks, Pruning
<1>1. TaskFits(run.task) /\ TaskFits("first") /\ ResultFits("first") /\ InputsFit BY <1>0, InvIs
<1>2. /\ run.task = "next" /\ rec["first"].state = "succeeded" /\ rec["first"].kept
      /\ Plan("first").kind = "convert" /\ SameCleanup(Plan("next"), Plan("first"))
  BY <1>0, <1>1 DEF TaskFits, Allowed, Tasks
<1>3. Contents("next", "model") = <<"model">> /\ Contents("next", Kept("next", "cleanup")) = LeadOf(Plan("next"), <<"source">>)
  BY <1>2, LeadIs DEF Undisturbed
<1>4. LeadOf(Plan("next"), <<"source">>) = lead BY <1>2 DEF SameCleanup, LeadOf, Cleaned, Cleans
<1>5. Resolved("first") = <<"model">> BY <1>0, <1>2, ResolvedIs
<1>6. SeedIs(lead) /\ Converts BY <1>1, <1>2 DEF SeedInv, Undisturbed, ResultFits, StagesOf, Converts
<1>7. lead # <<>> BY <1>0, InvIs, TypesAre, TagsAre, OwnIsAudio
<1>8. ~Cleans(Plan("first")) => lead = Contents("first", "source")
  <2>1. Inputs("first") BY <1>0, <1>1, <1>2 DEF InputsFit, Undisturbed
  <2> QED BY <2>1 DEF Inputs, LeadOf, Cleaned, Cleans
<1> HIDE DEF lead
<1>9. seed.of = ConversionOf(<<"model">>, lead) BY <1>6 DEF SeedIs
<1>10. CASE LeadFound = lead BY <1>2, <1>3, <1>4, <1>5, <1>9, <1>10 DEF SeedFits, NoBlocks
<1>11. CASE LeadFound # lead BY <1>2, <1>6, <1>7, <1>8, <1>11 DEF SeedIs, LeadFound, NoBlocks
<1> QED BY <1>10, <1>11

\* So may the vocal that a preview is compared with; and a preview may find no
\* blocks to start from.
LEMMA StageHolds ==
    ASSUME TasksInv, SeedInv, Undisturbed, Stage, Fail(run.task) PROVE CutShort \/ NoBlocks(run.task)
<1> PICK t \in Tasks, s \in Stages : t = run.task /\ s = Head(run.todo) BY StageStep, InvIs, RunSet
<1>0. "first" \in Tasks /\ "next" \in Tasks /\ "conversion" \in Stages BY DEF Tasks, Stages
<1>1. run.pc = "stages" /\ run.todo # <<>> BY StageStep
<1>2. run.id = saved[t].id /\ rec[t].state = "active" BY <1>1, WorksIs DEF Pruning
<1>3. run'.pc = "idle" BY InvIs, RunSet DEF Fail
<1>4. \/ Completed(t, s, run.id) = "bad" \/ (s = "baseline" /\ Baseline = "bad")
      \/ s = "conversion" /\ Plan(t).kind = "preview" /\ ~SeedFits
  BY <1>1, <1>3, StageStep DEF Skipped, Placed
<1>5. CASE s = "conversion" /\ Plan(t).kind = "preview" /\ ~SeedFits BY <1>0, <1>1, <1>5, BlocksAre
<1>6. SUFFICES ASSUME ~(s = "conversion" /\ Plan(t).kind = "preview" /\ ~SeedFits) PROVE CutShort BY <1>5
<1>7. s = "baseline" /\ Baseline = "bad" BY <1>2, <1>4, <1>6, SpoiltIs DEF Undisturbed
<1>8. rec["first"].state = "succeeded" /\ Plan("first").kind = "convert" /\ ResultFits("first")
  BY <1>0, <1>1, <1>7, StageIs, InvIs
<1>9. ~(~Plan("first").mix /\ rec["first"].pruned)
  BY <1>7, <1>8, NamesAre DEF Baseline, ResultFits, Undisturbed
<1>10. Completed("first", "conversion", saved["first"].id) # "ok"
  <2> SUFFICES ASSUME Completed("first", "conversion", saved["first"].id) = "ok" PROVE FALSE OBVIOUS
  <2>1. Kept("first", "conversion") \in Names BY <1>0, CompletedIs
  <2>2. Baseline = Kept("first", "conversion") BY <1>9 DEF Baseline
  <2> QED BY <1>7, <2>1, <2>2, NamesAre
<1>11. mark["first"]["conversion"].is BY <1>8 DEF ResultFits, StagesOf
<1>12. Completed("first", "conversion", saved["first"].id) = "bad" BY <1>0, <1>10, <1>11, CompletedIs
<1>13. ~Plan("first").mix /\ ~Has("first", Kept("first", "conversion"))
  BY <1>0, <1>12, SpoiltFirst DEF Undisturbed
<1> QED BY <1>9, <1>11, <1>13 DEF CutShort

\* Only opening a task, taking a stage over and a stage itself can fail it, and
\* the want of the model it was to copy.
LEMMA FailsIs ==
    ASSUME TasksInv, [TasksNext]_taskVars, NEW t \in Tasks, rec[t].state # "failed", rec'[t].state = "failed"
    PROVE ((Open \/ Revise \/ Inherit \/ Stage) /\ Fail(run.task) /\ t = run.task) \/ Gone
<1>0. TasksType BY InvIs
<1>s. ASSUME NEW u \in Tasks, NEW x \in {"queued", "active", "stopped", "succeeded"}, rec' = [rec EXCEPT ![u].state = x]
      PROVE FALSE
  BY <1>0, <1>s, StateSet DEF RecStates
<1>b. CASE \E u \in Tasks : Books(u)
  <2> PICK u \in Tasks : Books(u) BY <1>b
  <2>1. ~Reserve BY <1>s, <1>0, InvIs DEF Reserve, RequestFits
  <2>2. run.pc = "idle" /\ request.pc = "reserved" /\ request.own /\ ~Has("first", "model") BY <2>1, MissIs
  <2> QED BY <2>2, InvIs DEF RequestFits, Pruning, Gone
<1>1. ~\E u \in Tasks, p \in Recipes : Make(u, p)
  <2> SUFFICES ASSUME NEW u \in Tasks, NEW p \in Recipes, Make(u, p) PROVE FALSE OBVIOUS
  <2>1. rec'[u].state = "active" /\ \A v \in Tasks : v # u => rec'[v] = rec[v] BY MakeIs
  <2> QED BY <2>1
<1>2. \A u \in Tasks : ~Resume(u) /\ ~CleanUp(u)
  <2> SUFFICES ASSUME NEW u \in Tasks, Resume(u) \/ CleanUp(u) PROVE FALSE OBVIOUS
  <2>1. CASE Resume(u) BY <1>s, <2>1, ResumeIs
  <2>2. CASE CleanUp(u) BY <2>2, CleanUpStep
  <2> QED BY <2>1, <2>2
<1>3. ~OpenSynced BY OpenSyncedIs
<1>4. ~Inherited
  <2> SUFFICES ASSUME Inherited PROVE FALSE OBVIOUS
  <2>1. rec'["first"] = rec["first"] /\ rec'["next"].state = rec["next"].state BY InheritedStep
  <2> QED BY <2>1 DEF Tasks
<1>5. ~SyncFile /\ ~SyncParents /\ ~SyncResult BY SyncStep
<1>6. ~PublishMarker /\ ~SyncMarker /\ ~PublishResult BY PublishMarkerIs, SyncMarkerIs, PublishResultIs
<1>7. ~Finish /\ ~CleanedUp
  <2> SUFFICES ASSUME Finish \/ CleanedUp PROVE FALSE OBVIOUS
  <2> PICK u \in Tasks : u = run.task BY <1>0, RunSet
  <2>1. rec'[u].state = "succeeded" /\ \A v \in Tasks : v # u => rec'[v] = rec[v] BY FinishIs, CleanedUpIs
  <2> QED BY <2>1
<1>8. ~RemoveCopy /\ ~CopiesGone BY RemoveCopyIs, CopiesGoneIs
<1>9. ~Crash
  <2> SUFFICES ASSUME Crash PROVE FALSE OBVIOUS
  <2>1. /\ rec[t].state \in {"queued", "active"} => rec'[t].state = "stopped"
        /\ rec[t].state \notin {"queued", "active"} => rec'[t].state = rec[t].state
    BY CrashIs
  <2> QED BY <2>1
<1>10. ~Pause BY <1>s, PauseIs
<1>11. \A n \in Names : ~Harm(n) BY HarmIs
<1>12. ~Republish /\ ~UNCHANGED What BY DEF Republish, What
<1>13. Open \/ Revise \/ Inherit \/ Stage \/ \E u \in Tasks : Books(u)
  BY <1>1, <1>2, <1>3, <1>4, <1>5, <1>6, <1>7, <1>8, <1>9, <1>10, <1>11, <1>12, StepsAre DEF Works
<1>14. rec' # rec OBVIOUS
<1>15. Open => Fail(run.task) BY <1>14, OpenIs
<1>16. Revise => Fail(run.task) BY <1>14, ReviseIs
<1>17. Inherit => Fail(run.task) BY <1>14, InheritStep DEF Skipped, Placed
<1>18. Stage => Fail(run.task) BY <1>14, StageStep DEF Skipped, Placed
<1>19. Fail(run.task) => t = run.task
  <2>1. Fail(run.task) => \A v \in Tasks : v # run.task => rec'[v].state = rec[v].state
    BY <1>0, RunSet, StateSet DEF Fail, RecStates
  <2> QED BY <2>1, SMTT(30)
<1> QED BY <1>b, <1>13, <1>15, <1>16, <1>17, <1>18, <1>19

\* No task fails by the protocol's own doing: something was changed from outside,
\* a release is not accepted, a clean-up has to be called again or came between
\* the look-up of the model and its copy, or a preview has no blocks to start
\* from (TaskArtifacts, inherit_audio_stages, convert_audio, seed_preview).
THEOREM FailuresHaveCauses == TasksSpec => FailureHasCause
<1>1. ASSUME TasksInv, SeedInv, [TasksNext]_taskVars, NEW t \in Tasks, rec[t].state # "failed", rec'[t].state = "failed"
      PROVE ~Undisturbed \/ CutShort \/ Gone \/ NoBlocks(t)
  BY <1>1, FailsIs, OpenHolds, ReviseHolds, InheritHolds, StageHolds
<1>2. TasksInv /\ SeedInv /\ [TasksNext]_taskVars =>
        [\A t \in Tasks : rec[t].state # "failed" /\ rec[t].state' = "failed" =>
           \/ harmed # {} \/ voice # <<"model">>
           \/ \E u \in Tasks : saved[u].is /\ saved[u].id.by \notin Accepted
           \/ /\ ~rec["first"].pruned /\ mark["first"]["conversion"].is
              /\ ~Has("first", Kept("first", "conversion"))
           \/ request.pc = "reserved" /\ request.own /\ rec["first"].pruned
           \/ /\ t = "next" /\ Plan(t).kind = "preview"
              /\ \/ Plan(t).edits \in Wide
                 \/ crashes > 0 /\ Cleans(Plan("first")) /\ seed.lead = <<>>]_taskVars
  BY <1>1 DEF Undisturbed, CutShort, Gone, NoBlocks
<1> QED BY <1>2, InitSeed, SeedStep, TasksInvariant, PTL DEF TasksSpec, FailureHasCause
=============================================================================
