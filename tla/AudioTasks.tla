----------------------------- MODULE AudioTasks -----------------------------
(***************************************************************************)
(* The stages of an audio task (tools/web/task_artifacts.cpp and           *)
(* convert_audio in tools/web/web_service.cpp), the copies that cleaning   *)
(* up removes (tools/web/task_storage.cpp), and the new versions and       *)
(* previews that reuse what an earlier task has kept.  One task runs at a  *)
(* time; the machine may stop between any two steps, and then what was not *)
(* synchronised may be lost or torn.  An audio file is the list of the     *)
(* operations that made it.                                                *)
(*                                                                         *)
(* Operators marked FAULT are wrong on purpose: no action uses them, and   *)
(* the project's mutants put them in place of the operator they precede.   *)
(***************************************************************************)
EXTENDS Integers, Sequences, FiniteSets

CONSTANTS
    Recipes,    \* what a task may be asked: kind, song, mix, clean, edits
    Releases,   \* releases of the service that may have started the first task
    Wide,       \* edits that change more than two synthesis cores
    MaxCrashes  \* how often the machine stops

\* Only a conversion of a song is mixed (handle_convert, mixed_result).
ASSUME RecipesAssumption ==
    /\ Recipes # {} /\ MaxCrashes \in Nat /\ Wide \subseteq STRING
    /\ Recipes \subseteq [kind : {"convert", "preview", "preprocess"}, song : BOOLEAN, mix : BOOLEAN,
                          clean : BOOLEAN, edits : STRING]
    /\ \A p \in Recipes : p.mix => p.song /\ p.kind = "convert"

VARIABLES
    rec,      \* TaskStore: state, plan, recovery (kept), result_sha256, retention,
              \* revision_ready; and the model the task was created with
    file,     \* the files of each task's work directory
    mark,     \* stage.<key>.done
    saved,    \* workflow.identity
    voice,    \* the published model
    release,  \* the release that is running
    run,      \* the background job, or the cleanup
    harmed,   \* files that were changed behind the service's back
    crashes,
    request,  \* a handler that creates a task: what it has looked up so far
    seed      \* what the first task's conversion leaves for previews: lead40.wav,
              \* and in conversion_blocks the identity it was computed under

taskVars == <<rec, file, mark, saved, voice, release, run, harmed, crashes, request, seed>>

Tasks == {"first", "next"}
Stages == {"separation", "cleanup", "baseline", "conversion", "mixing", "preview"}
Absent == [c |-> <<>>, safe |-> 2]
None == [is |-> FALSE]
Idle == [pc |-> "idle", task |-> "first", todo |-> <<>>, id |-> None, name |-> "", ret |-> "", gone |-> {}]
NoRequest == [pc |-> "none", task |-> "first", plan |-> CHOOSE p \in Recipes : TRUE, own |-> FALSE]
Torn == <<"torn">>

\* The file a stage writes, and the one a copy of an earlier task's goes to.
OutputName == [separation |-> "vocals", cleanup |-> "cleaned", baseline |-> "baseline",
               conversion |-> "output", mixing |-> "cover", preview |-> "excerpt"]
InheritedName == [separation |-> "inherited-separation", cleanup |-> "inherited-cleanup",
                  conversion |-> "inherited-conversion"]
Names == {"source", "model", "result"} \cup {OutputName[s] : s \in Stages}
         \cup {InheritedName[s] : s \in DOMAIN InheritedName}

Put(t, name, c, safe) == file' = [file EXCEPT ![t][name] = [c |-> c, safe |-> safe]]
Has(t, name) == file[t][name].c # <<>>
Contents(t, name) == file[t][name].c

----------------------------------------
(* What a recipe asks for.  An unset cleanup hands its input on.           *)

Plan(t) == rec[t].plan
\* convert_audio, then run_audio_task: the stages in their order.
StageOrder(p) ==
    (IF p.song THEN <<"separation">> ELSE <<>>) \o <<"cleanup">>
    \o (CASE p.kind = "preprocess" -> <<>>
          [] p.kind = "preview" -> <<"baseline", "conversion", "preview">>
          [] p.kind = "convert" -> <<"conversion">> \o (IF p.mix THEN <<"mixing">> ELSE <<>>))
Cleans(p) == p.song \/ p.clean

Separated(c) == <<"separated">> \o c
Cleaned(p, c) == IF Cleans(p) THEN <<IF p.clean THEN "dereverb" ELSE "deharmony">> \o c ELSE c
Converted(p, model, c) == <<"converted", p.edits>> \o model \o c
Mixed(original, vocals, c) == <<"mixed">> \o original \o vocals \o c
Excerpt(c) == <<"excerpt">> \o c

\* The audio a recipe stands for, from the source and the model alone.
LeadOf(p, source) == Cleaned(p, IF p.song THEN Separated(source) ELSE source)
VocalOf(p, source, model) == Converted(p, model, LeadOf(p, source))
AudioOf(p, source, model) ==
    CASE p.kind = "preprocess" -> LeadOf(p, source)
      [] p.kind = "preview" -> Excerpt(VocalOf(p, source, model))
      [] p.kind = "convert" ->
            IF p.mix THEN Mixed(source, Separated(source), VocalOf(p, source, model))
                     ELSE VocalOf(p, source, model)

----------------------------------------
(* Identities and markers.                                                 *)

\* audio_identity: recipe, input, programs and models; the name of the task
\* and the voice's own path are not in it.
Identity(p, by, source, model) ==
    [is |-> TRUE, by |-> by, plan |-> p, source |-> source,
     model |-> IF p.kind = "preprocess" THEN <<>> ELSE model]
\* kLegacyProducers: the earlier releases whose tasks are still accepted.
Accepted == IF release = "now" THEN {"now", "legacy"} ELSE {release}

\* resolve_saved_audio_model: the task's own copy, or the published voice.
Resolved(t) == IF Has(t, "model") THEN Contents(t, "model") ELSE voice

\* The TaskArtifacts constructor on a directory: the identity it works under,
\* none if the one that is saved there is another.
OpenedAs(t, model) ==
    LET now == Identity(Plan(t), release, Contents(t, "source"), model)
    IN IF ~saved[t].is THEN now
       ELSE IF \E by \in Accepted : saved[t].id = [now EXCEPT !.by = by] THEN saved[t].id ELSE None

\* FAULT: the file is there, whatever it holds.
CompletedUnread(t, s, id) ==
    IF ~mark[t][s].is THEN "none"
    ELSE IF mark[t][s].id = id /\ Has(t, mark[t][s].name) THEN "ok" ELSE "bad"
\* completed_stage: no marker, or a marker of this identity whose file has
\* the digest it names; everything else is an error.
Completed(t, s, id) ==
    IF ~mark[t][s].is THEN "none"
    ELSE IF mark[t][s].id = id /\ Has(t, mark[t][s].name)
                /\ Contents(t, mark[t][s].name) = mark[t][s].digest THEN "ok" ELSE "bad"
Kept(t, s) == mark[t][s].name

----------------------------------------
TasksInit ==
    /\ rec = [t \in Tasks |-> [state |-> "none", plan |-> CHOOSE p \in Recipes : TRUE,
                               model |-> <<>>, sha |-> <<>>, kept |-> FALSE, pruned |-> FALSE, ready |-> FALSE]]
    /\ file = [t \in Tasks |-> [n \in Names |-> Absent]]
    /\ mark = [t \in Tasks |-> [s \in Stages |-> None]] /\ saved = [t \in Tasks |-> None]
    /\ voice = <<"model">> /\ release \in Releases /\ run = Idle /\ harmed = {} /\ crashes = 0
    /\ request = NoRequest /\ seed = [lead |-> <<>>, safe |-> TRUE, of |-> None]

BeginTask(t) == run' = [Idle EXCEPT !.pc = "open", !.task = t]
Fail(t) == rec' = [rec EXCEPT ![t].state = "failed"] /\ run' = Idle

\* handle_convert / handle_pitch_preview: without the job's lock, so perhaps
\* while copies are being cleaned up, the handler looks up the task it starts
\* from and whether that still has its own copy of the model.
Ask(t, p) ==
    /\ request.pc = "none" /\ run.pc \in {"idle", "prune", "pruned"} /\ rec[t].state = "none"
    /\ t = "first" => p.kind # "preview"
    /\ t = "next" => rec["first"].state = "succeeded" /\ Plan("first").kind # "preview"
    /\ t = "next" /\ p.kind = "preview" =>
         /\ Plan("first").kind = "convert" /\ p.edits # Plan("first").edits
         /\ [p EXCEPT !.kind = "convert", !.edits = Plan("first").edits] = [Plan("first") EXCEPT !.mix = FALSE]
    /\ request' = [pc |-> "asked", task |-> t, plan |-> p,
                   own |-> t = "next" /\ Plan("first").kind = "convert" /\ Has("first", "model")]
    /\ UNCHANGED <<rec, file, mark, saved, voice, release, run, harmed, crashes, seed>>
\* start_audio_task takes the slot, under the lock: reserve_job, a new record.
Reserve ==
    /\ request.pc = "asked" /\ run.pc = "idle" /\ rec[request.task].state = "none"
    /\ rec' = [rec EXCEPT ![request.task].state = "queued"] /\ request' = [request EXCEPT !.pc = "reserved"]
    /\ UNCHANGED <<file, mark, saved, voice, release, run, harmed, crashes, seed>>
Missing(p) == p.kind # "preprocess" /\ request.own /\ ~Has("first", "model")
\* Then it copies and synchronises the inputs, and only after that does the
\* record name the recipe (recovery); a file that has gone fails the task.  What
\* a crash leaves of the copies before that is never read.
Prepare(t, p) ==
    LET model == IF p.kind = "preprocess" THEN <<>> ELSE IF request.own THEN Contents("first", "model") ELSE voice
    IN /\ request.pc = "reserved" /\ t = request.task /\ p = request.plan /\ request' = NoRequest
       /\ IF Missing(p) THEN Fail(t) /\ UNCHANGED file
          ELSE /\ rec' = [rec EXCEPT ![t].state = "active", ![t].plan = p, ![t].model = model, ![t].kept = TRUE]
               /\ file' = [file EXCEPT ![t]["model"] = [c |-> model, safe |-> 2],
                     ![t]["source"] = [c |-> IF t = "first" THEN <<"source">> ELSE Contents("first", "source"),
                                       safe |-> 2]]
               /\ BeginTask(t)
       /\ UNCHANGED <<mark, saved, voice, release, harmed, crashes, seed>>
\* Nothing holds the job's slot (job_.running).
Free == run.pc = "idle" /\ request.pc # "reserved"

\* A stopped task is resumed: its plan is read back from its record, if that
\* names one (restore_audio_plan).
Resume(t) ==
    /\ Free /\ rec[t].state = "stopped" /\ rec[t].kept
    /\ rec' = [rec EXCEPT ![t].state = "active"] /\ BeginTask(t)
    /\ UNCHANGED <<file, mark, saved, voice, release, harmed, crashes, request, seed>>

\* The constructor; a new directory gets its identity (publish), durably.
Open ==
    LET t == run.task
        id == OpenedAs(t, Contents(t, "model"))
    IN /\ run.pc = "open"
       /\ IF ~id.is THEN Fail(t) /\ UNCHANGED saved
          ELSE /\ saved' = [saved EXCEPT ![t] = IF @.is THEN @ ELSE [is |-> TRUE, id |-> id, safe |-> FALSE]]
               /\ run' = [run EXCEPT !.pc = "opened", !.id = id] /\ UNCHANGED rec
       /\ UNCHANGED <<file, mark, voice, release, harmed, crashes, request, seed>>
OpenSynced ==
    LET t == run.task
    IN /\ run.pc = "opened" /\ saved' = [saved EXCEPT ![t].safe = TRUE]
       /\ run' = [run EXCEPT !.pc = IF t = "next" /\ ~rec[t].ready THEN "revise" ELSE "stages",
                             !.todo = IF t = "next" /\ ~rec[t].ready THEN <<>> ELSE StageOrder(Plan(t))]
       /\ UNCHANGED <<rec, file, mark, voice, release, harmed, crashes, request, seed>>

----------------------------------------
(* inherit_audio_stages: a new version takes over what still applies.      *)

SameCleanup(p, q) == p.song = q.song /\ p.clean = q.clean
\* FAULT: the local pitch edits are not compared.
SameConversionUnedited(p, q) ==
    /\ p.kind # "preprocess" /\ q.kind # "preprocess" /\ SameCleanup(p, q)
    /\ Contents("next", "model") = Resolved("first")
SameConversion(p, q) ==
    /\ p.kind # "preprocess" /\ q.kind # "preprocess" /\ SameCleanup(p, q) /\ p.edits = q.edits
    /\ Contents("next", "model") = Resolved("first")

\* FAULT: a clean-up of the first task is not thought of.
CopyRemovedNever == FALSE
\* The first task was cleaned up and its own vocal is gone.
CopyRemoved ==
    rec["first"].pruned /\ ~Has("first", "output") /\ ~Has("first", "inherited-conversion")

\* Where a stage of the first task can be taken from: none, an error, a file.
InheritFrom(s, id) ==
    IF s = "conversion" /\ CopyRemoved
    THEN IF Plan("first").mix THEN "none"
         ELSE IF Contents("first", "result") = rec["first"].sha THEN "result" ELSE "bad"
    ELSE LET how == Completed("first", s, id) IN IF how = "ok" THEN Kept("first", s) ELSE how

\* The first task is verified before anything is taken from it.
Revise ==
    LET p == Plan("next")
        q == Plan("first")
        id == OpenedAs("first", Resolved("first"))
        applies == (IF p.song /\ q.song THEN <<"separation">> ELSE <<>>)
                   \o (IF SameCleanup(p, q) THEN <<"cleanup">> ELSE <<>>)
                   \o (IF SameConversion(p, q) THEN <<"conversion">> ELSE <<>>)
    IN /\ run.pc = "revise"
       /\ IF saved["first"].is /\ id.is /\ Contents("next", "source") = Contents("first", "source")
          THEN run' = [run EXCEPT !.pc = "inherit", !.todo = applies] /\ UNCHANGED rec
          ELSE Fail("next")
       /\ UNCHANGED <<file, mark, saved, voice, release, harmed, crashes, request, seed>>

\* One stage: nothing to take, already taken, taken over as the same source,
\* or copied under a name of its own; then it is committed.
Inherit ==
    LET s == Head(run.todo)
        from == InheritFrom(s, saved["first"].id)
        mine == Completed("next", s, run.id)
    IN /\ run.pc = "inherit" /\ run.todo # <<>>
       /\ IF from = "bad" \/ (from # "none" /\ mine = "bad") THEN Fail("next") /\ UNCHANGED file
          ELSE IF from = "none" \/ mine = "ok"
          THEN run' = [run EXCEPT !.todo = Tail(@)] /\ UNCHANGED <<rec, file>>
          ELSE /\ IF from = "source" THEN UNCHANGED file
                  ELSE Put("next", InheritedName[s], Contents("first", from), 1)
               /\ run' = [run EXCEPT !.pc = "computed", !.ret = "inherit",
                                     !.name = IF from = "source" THEN "source" ELSE InheritedName[s]]
               /\ UNCHANGED rec
       /\ UNCHANGED <<mark, saved, voice, release, harmed, crashes, request, seed>>
Inherited ==
    /\ run.pc = "inherit" /\ run.todo = <<>>
    /\ rec' = [rec EXCEPT !["next"].ready = TRUE]
    /\ run' = [run EXCEPT !.pc = "stages", !.todo = StageOrder(Plan("next"))]
    /\ UNCHANGED <<file, mark, saved, voice, release, harmed, crashes, request, seed>>

----------------------------------------
(* convert_audio: a completed stage is reused, another one computed.       *)

\* The clean vocal a preview is compared with.
Baseline ==
    IF ~Plan("first").mix /\ rec["first"].pruned
    THEN IF Contents("first", "result") = rec["first"].sha THEN "result" ELSE "bad"
    ELSE LET how == Completed("first", "conversion", saved["first"].id)
         IN IF how = "ok" THEN Kept("first", "conversion") ELSE "bad"

\* convert_audio writes the lead at the conversion's rate, if it was cleaned
\* (lead40.wav, not synchronised), and a conversion's blocks name what it is
\* computed from.  The programs in that name are in the task's identity as well.
ConversionOf(model, lead) == [is |-> TRUE, model |-> model, lead |-> lead]
Leaves(t, how) ==
    LET lead == Contents(t, Kept(t, "cleanup"))
    IN [lead |-> IF Cleans(Plan(t)) THEN lead ELSE seed.lead, safe |-> ~Cleans(Plan(t)),
        of |-> IF how = "none" THEN ConversionOf(Contents(t, "model"), lead) ELSE seed.of]
\* seed_preview, after the baseline is committed: the first task's blocks are
\* reused if its lead (input_path) and its model are the preview's and still
\* those the blocks name, and if at most two cores change.
LeadFound == IF seed.lead = <<>> THEN Contents("first", "source") ELSE seed.lead
SeedFits ==
    /\ Contents("next", "model") = Resolved("first")
    /\ Contents("next", Kept("next", "cleanup")) = LeadFound
    /\ seed.of = ConversionOf(Resolved("first"), LeadFound)
    /\ Plan("next").edits \notin Wide

Compute(t, s) ==
    CASE s = "separation" -> Separated(Contents(t, "source"))
      [] s = "cleanup" -> Cleaned(Plan(t), Contents(t, IF Plan(t).song THEN Kept(t, "separation") ELSE "source"))
      [] s = "conversion" -> Converted(Plan(t), Contents(t, "model"), Contents(t, Kept(t, "cleanup")))
      [] s = "mixing" -> Mixed(Contents(t, "source"), Contents(t, Kept(t, "separation")),
                               Contents(t, Kept(t, "conversion")))
      [] s = "baseline" -> Excerpt(Contents("first", Baseline))
      [] s = "preview" -> Excerpt(Contents(t, Kept(t, "conversion")))

Stage ==
    LET t == run.task
        s == Head(run.todo)
        how == Completed(t, s, run.id)
        skip == s = "baseline" /\ Completed(t, "conversion", run.id) = "ok"
        asIs == s = "cleanup" /\ ~Cleans(Plan(t))
    IN /\ run.pc = "stages" /\ run.todo # <<>>
       /\ IF \/ how = "bad" \/ (s = "baseline" /\ ~skip /\ Baseline = "bad")
             \/ s = "conversion" /\ Plan(t).kind = "preview" /\ how = "none" /\ ~SeedFits
          THEN Fail(t) /\ UNCHANGED file
          ELSE IF how = "ok" \/ skip THEN run' = [run EXCEPT !.todo = Tail(@)] /\ UNCHANGED <<rec, file>>
          ELSE /\ IF asIs THEN UNCHANGED file ELSE Put(t, OutputName[s], Compute(t, s), 0)
               /\ run' = [run EXCEPT !.pc = "computed", !.ret = "stages", !.name = IF asIs THEN "source" ELSE OutputName[s]]
               /\ UNCHANGED rec
       /\ seed' = IF t = "first" /\ s = "conversion" /\ how # "bad" THEN Leaves(t, how) ELSE seed
       /\ UNCHANGED <<mark, saved, voice, release, harmed, crashes, request>>

(* TaskArtifacts::commit: digest and sync of the file, sync of the         *)
(* directories above it, then the marker (written, synchronised, renamed)  *)
(* and the sync of its directory.                                          *)

\* FAULT: the file is left to the operating system.
SyncFileLater ==
    /\ run.pc = "computed" /\ run' = [run EXCEPT !.pc = "placed"]
    /\ UNCHANGED <<rec, file, mark, saved, voice, release, harmed, crashes, request, seed>>
SyncFile ==
    /\ run.pc = "computed" /\ run' = [run EXCEPT !.pc = "synced"]
    /\ file' = [file EXCEPT ![run.task][run.name].safe = IF @ = 0 THEN 1 ELSE @]
    /\ UNCHANGED <<rec, mark, saved, voice, release, harmed, crashes, request, seed>>
SyncParents ==
    /\ run.pc = "synced" /\ run' = [run EXCEPT !.pc = "placed"]
    /\ file' = [file EXCEPT ![run.task][run.name].safe = 2]
    /\ UNCHANGED <<rec, mark, saved, voice, release, harmed, crashes, request, seed>>
PublishMarker ==
    /\ run.pc = "placed" /\ run' = [run EXCEPT !.pc = "marked"]
    /\ mark' = [mark EXCEPT ![run.task][Head(run.todo)] =
          [is |-> TRUE, id |-> run.id, name |-> run.name, digest |-> Contents(run.task, run.name), safe |-> FALSE]]
    /\ UNCHANGED <<rec, file, saved, voice, release, harmed, crashes, request, seed>>
SyncMarker ==
    /\ run.pc = "marked" /\ run' = [run EXCEPT !.pc = run.ret, !.todo = Tail(@)]
    /\ mark' = [mark EXCEPT ![run.task][Head(run.todo)].safe = TRUE]
    /\ UNCHANGED <<rec, file, saved, voice, release, harmed, crashes, request, seed>>

\* publish_result: a synchronised copy of the last stage's file is renamed.
LastStage(p) == StageOrder(p)[Len(StageOrder(p))]
PublishResult ==
    LET t == run.task
    IN /\ run.pc = "stages" /\ run.todo = <<>>
       /\ Put(t, "result", Contents(t, Kept(t, LastStage(Plan(t)))), 1)
       /\ run' = [run EXCEPT !.pc = "published"]
       /\ UNCHANGED <<rec, mark, saved, voice, release, harmed, crashes, request, seed>>
SyncResult ==
    /\ run.pc = "published" /\ file' = [file EXCEPT ![run.task]["result"].safe = 2]
    /\ run' = [run EXCEPT !.pc = "finish"]
    /\ UNCHANGED <<rec, mark, saved, voice, release, harmed, crashes, request, seed>>
\* finish_audio_task
Finish ==
    LET t == run.task
    IN /\ run.pc = "finish" /\ run' = Idle
       /\ rec' = [rec EXCEPT ![t].state = "succeeded", ![t].sha = Contents(t, "result")]
       /\ UNCHANGED <<file, mark, saved, voice, release, harmed, crashes, request, seed>>

----------------------------------------
(* prune_task_copies, called by handle_task_control under the job's lock.  *)

\* FAULT: the vocal behind a mix is taken for a copy.
CopiesOfAll(p) == <<"model", "cover", "output">>
Copies(p) == <<"model", "cover">> \o (IF p.mix THEN <<>> ELSE <<"output">>)
\* FAULT: the result is not read.
ProtectedByName(t) == Has(t, "source") /\ Has(t, "result")
Protected(t) == Has(t, "source") /\ Has(t, "result") /\ Contents(t, "result") = rec[t].sha

CleanUp(t) ==
    /\ Free /\ rec[t].state = "succeeded" /\ ~rec[t].pruned
    /\ Protected(t)
    /\ run' = [Idle EXCEPT !.pc = "prune", !.task = t, !.todo = Copies(Plan(t))]
    /\ UNCHANGED <<rec, file, mark, saved, voice, release, harmed, crashes, request, seed>>
RemoveCopy ==
    LET t == run.task
        n == Head(run.todo)
    IN /\ run.pc = "prune" /\ run.todo # <<>>
       /\ Put(t, n, <<>>, 2)
       /\ run' = [run EXCEPT !.todo = Tail(@),
                             !.gone = IF Has(t, n) THEN @ \cup {<<n, file[t][n]>>} ELSE @]
       /\ UNCHANGED <<rec, mark, saved, voice, release, harmed, crashes, request, seed>>
\* The directory is synchronised, then the record says so.
CopiesGone ==
    /\ run.pc = "prune" /\ run.todo = <<>> /\ run' = [run EXCEPT !.pc = "pruned", !.gone = {}]
    /\ UNCHANGED <<rec, file, mark, saved, voice, release, harmed, crashes, request, seed>>
CleanedUp ==
    /\ run.pc = "pruned" /\ run' = Idle /\ rec' = [rec EXCEPT ![run.task].pruned = TRUE]
    /\ UNCHANGED <<file, mark, saved, voice, release, harmed, crashes, request, seed>>

----------------------------------------
(* The world outside.                                                      *)

\* The lead is still going to be read: not that of a first task that will be
\* resumed, which is written again, nor once the next task is no preview or has
\* taken its blocks over.
LeadMatters ==
    /\ rec["first"].state = "succeeded" /\ ~mark["next"]["conversion"].is
    /\ rec["next"].kept => Plan("next").kind = "preview"
\* A torn lead is refused as a lost one is.
LeadMayGo ==
    \E lead \in IF seed.safe \/ ~LeadMatters THEN {seed.lead} ELSE {seed.lead, <<>>} :
        seed' = [seed EXCEPT !.lead = lead, !.safe = TRUE]
\* The machine stops.  What was not synchronised is there, gone, or torn; a
\* copy whose removal was not synchronised may be back.
Crash ==
    \E lost \in SUBSET {x \in Tasks \X Names : file[x[1]][x[2]].safe < 2},
       torn \in SUBSET {x \in Tasks \X Names : file[x[1]][x[2]].safe = 0},
       unmarked \in SUBSET {x \in Tasks \X Stages : mark[x[1]][x[2]].is /\ ~mark[x[1]][x[2]].safe},
       unnamed \in SUBSET {t \in Tasks : saved[t].is /\ ~saved[t].safe}, back \in SUBSET run.gone :
        /\ crashes < MaxCrashes /\ crashes' = crashes + 1 /\ ~Free
        /\ lost \cap torn = {}
        /\ file' = [t \in Tasks |-> [n \in Names |->
             IF <<t, n>> \in lost THEN Absent
             ELSE IF <<t, n>> \in torn THEN [c |-> Torn, safe |-> 2]
             ELSE IF t = run.task /\ \E x \in back : x[1] = n THEN (CHOOSE x \in back : x[1] = n)[2]
             ELSE [file[t][n] EXCEPT !.safe = 2]]]
        /\ mark' = [t \in Tasks |-> [s \in Stages |->
             IF ~mark[t][s].is \/ <<t, s>> \in unmarked THEN None ELSE [mark[t][s] EXCEPT !.safe = TRUE]]]
        /\ saved' = [t \in Tasks |->
             IF ~saved[t].is \/ t \in unnamed THEN None ELSE [saved[t] EXCEPT !.safe = TRUE]]
        /\ rec' = [t \in Tasks |-> IF rec[t].state \in {"queued", "active"} THEN [rec[t] EXCEPT !.state = "stopped"] ELSE rec[t]]
        /\ LeadMayGo /\ run' = Idle /\ request' = NoRequest
        /\ release' \in {release, "now"} /\ UNCHANGED <<voice, harmed>>
\* A pause at a stage's boundary.
Pause ==
    /\ run.pc \in {"stages", "inherit"} /\ run.todo # <<>> /\ crashes < MaxCrashes
    /\ crashes' = crashes + 1 /\ run' = Idle
    /\ rec' = [rec EXCEPT ![run.task].state = "stopped"]
    /\ UNCHANGED <<file, mark, saved, voice, release, harmed, request, seed>>
\* Between two executions, while some are to come, and before a request: what
\* that looks up is not the voice, and a change leaves it as it is.
Quiet == run.pc = "idle" /\ request.pc = "none" /\ rec["next"].state \in {"none", "stopped"}
\* A file of the first task is changed on the disk.
Harm(n) ==
    /\ Quiet /\ harmed = {} /\ Has("first", n)
    /\ Put("first", n, <<"other">>, 2) /\ harmed' = {n}
    /\ UNCHANGED <<rec, mark, saved, voice, release, run, crashes, request, seed>>
\* Another training publishes the voice anew.
Republish ==
    /\ Quiet /\ voice = <<"model">> /\ voice' = <<"newer">>
    /\ UNCHANGED <<rec, file, mark, saved, release, run, harmed, crashes, request, seed>>
\* Everything is done.
Rest ==
    /\ Free
    /\ \/ rec["first"].state = "failed" \/ rec["next"].state \in {"succeeded", "failed"}
       \/ \E t \in Tasks : rec[t].state = "stopped" /\ ~rec[t].kept
    /\ UNCHANGED taskVars

TasksNext ==
    \/ \E t \in Tasks, p \in Recipes : Ask(t, p) \/ Prepare(t, p)
    \/ Reserve
    \/ \E t \in Tasks : Resume(t) \/ CleanUp(t)
    \/ Open \/ OpenSynced \/ Revise \/ Inherit \/ Inherited \/ Stage
    \/ SyncFile \/ SyncParents \/ PublishMarker \/ SyncMarker \/ PublishResult \/ SyncResult \/ Finish
    \/ RemoveCopy \/ CopiesGone \/ CleanedUp
    \/ Crash \/ Pause \/ (\E n \in Names : Harm(n)) \/ Republish \/ Rest

TasksSpec == TasksInit /\ [][TasksNext]_taskVars

----------------------------------------
\* A marker is published only once the file it names is durable and has the
\* digest it names: no crash leaves a stage that is done in name only
\* (TaskArtifacts::commit).  Later only a clean-up takes the file away.
MarkedIsDurable ==
    \A t \in Tasks, s \in Stages : mark[t][s].is =>
        \/ file[t][Kept(t, s)] = [c |-> mark[t][s].digest, safe |-> 2]
        \/ t = "first" /\ Kept(t, s) \in harmed
        \/ rec[t].state = "succeeded" /\ ~Has(t, Kept(t, s))

\* Whatever was reused, taken over, cleaned up, interrupted or resumed on the
\* way, and whatever was published or damaged meanwhile, the result a task
\* reports is the one its recipe stands for, with the source and the model its
\* identity names: those it was created with, unless the copies were changed
\* before; and a preview is compared with the vocal of the version it was made
\* from (convert_audio, inherit_audio_stages).
ResultIsOwn ==
    /\ \A t \in Tasks : rec[t].state = "succeeded" =>
         rec[t].sha = AudioOf(Plan(t), saved[t].id.source, saved[t].id.model)
    /\ \A t \in Tasks : saved[t].is /\ harmed = {} =>
         saved[t].id.source = <<"source">> /\ (Plan(t).kind # "preprocess" => saved[t].id.model = rec[t].model)
    /\ mark["next"]["baseline"].is =>
         mark["next"]["baseline"].digest =
            Excerpt(VocalOf(Plan("first"), saved["first"].id.source, saved["first"].id.model))

\* Cleaning up takes nothing away, first or again after a crash, unless the
\* result that stands in for it is whole; the source and the vocal behind a
\* mix stay (prune_task_copies).
CleanUpIsSafe ==
    [][\A t \in Tasks, n \in Names : Has(t, n) /\ ~Has(t, n)' /\ run.pc = "prune" =>
         /\ rec[t].sha = Contents(t, "result") /\ n \notin {"source", "result"}
         /\ Plan(t).mix => n # Kept(t, "conversion")]_taskVars

\* A task fails only for a reason outside the protocol: a damaged file, a
\* voice that was published anew, a release whose tasks are not accepted, a
\* clean-up that a crash cut short and that has to be called again, or one that
\* removed the model between its look-up and its copy; and a preview also
\* because a crash took the lead of the first task, which is not synchronised,
\* or because its edits reach too far (seed_preview).
FailureHasCause ==
    [][\A t \in Tasks : rec[t].state # "failed" /\ rec[t].state' = "failed" =>
         \/ harmed # {} \/ voice # <<"model">>
         \/ \E u \in Tasks : saved[u].is /\ saved[u].id.by \notin Accepted
         \/ /\ ~rec["first"].pruned /\ mark["first"]["conversion"].is
            /\ ~Has("first", Kept("first", "conversion"))
         \/ request.pc = "reserved" /\ request.own /\ rec["first"].pruned
         \/ /\ t = "next" /\ Plan(t).kind = "preview"
            /\ \/ Plan(t).edits \in Wide
               \/ crashes > 0 /\ Cleans(Plan("first")) /\ seed.lead = <<>>]_taskVars
=============================================================================
