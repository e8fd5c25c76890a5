------------------------- MODULE BoundedConversion -------------------------
(***************************************************************************)
(* convert_file_bounded (src/pipeline/bounded_pipeline.cpp): one clip is   *)
(* snapshotted, filtered, its pitch extracted window by window, its voice  *)
(* synthesised core by core, and the result written beside the target and  *)
(* renamed onto it.  Finished windows and cores are saved in the task's    *)
(* block checkpoint, so that a pause or the death of the process loses one *)
(* block at most.  Another process may change the input while it is read.  *)
(* Samples are counted, not computed: what matters is where they lie.      *)
(*                                                                         *)
(* Operators marked FAULT are wrong on purpose: no action uses them, and   *)
(* the project's mutants put them in place of the operator they precede.   *)
(***************************************************************************)
EXTENDS AudioPlans

CONSTANTS
    Clips,      \* clips and configurations: n, energy, chunk, query, pad
    Context,    \* the context of the pitch extractor
    Up, Down,   \* output samples per input sample, as a fraction
    MaxStops    \* pauses and deaths of the process that are tried

ASSUME ConversionAssumption ==
    /\ Context \in Nat /\ Context % Hop = 0 /\ {Up, Down} \subseteq Nat \ {0} /\ MaxStops \in Nat
    /\ \A c \in Clips :
         /\ {c.n, c.chunk, c.query, c.pad} \subseteq Nat
         /\ \A f \in 0..(Frames(c.n) - 1) : c.energy[f] \in Nat

VARIABLES
    ready,      \* VoiceConversionPipeline::initialized_
    clip,       \* the clip
    source,     \* the input is still the file that was opened
    stage,      \* where convert_file_bounded is
    frames,     \* the raw F0 spool: the lattice position of each frame
    planner,    \* QuietCorePlanner: the last cut and the next target
    out,        \* samples in the raw output spool
    cores,      \* the cores that went into it
    segment,    \* samples of the last segment given to the models
    staging,    \* samples in the staging WAV, -1 if there is none
    target,     \* the cores of the file at the target, <<>> for the old file
    saved,      \* blocks in the checkpoint
    spent,      \* how often each block was computed
    outcome,    \* VCResult
    stops       \* pauses and deaths so far

conversionVars == <<ready, clip, source, stage, frames, planner, out, cores, segment, staging, target,
          saved, spent, outcome, stops>>
progress == <<frames, planner, out, cores, segment>>

Plan == ChunkPlan(clip.n, clip.chunk, clip.query, clip.pad)
Virtual == clip.n + 2 * Plan.pad
TotalFrames == Virtual \div Hop + 1
ToOutput(s) == (s * Up) \div Down
Stretch(key, start, count) == [key |-> key, start |-> start, count |-> count]

ConversionInit ==
    /\ clip \in Clips /\ ready = FALSE /\ source = "same" /\ stage = "idle"
    /\ frames = <<>> /\ planner = [previous |-> 0, target |-> 0] /\ out = 0 /\ cores = <<>> /\ segment = 0
    /\ staging = -1 /\ target = <<>> /\ saved = {} /\ spent = <<>> /\ outcome = "none" /\ stops = 0

\* Every return and every exception runs the destructors of the spools and of
\* the writer, which removes the staging file.
EndRun(how) == stage' = "ended" /\ outcome' = how /\ staging' = -1

----------------------------------------
\* VoiceConversionPipeline::init builds a new graph and replaces the old one;
\* a failure leaves the pipeline empty, whatever it was before.
InitPipeline ==
    /\ stage = "idle" /\ ~ready /\ ready' \in BOOLEAN
    /\ IF ready' THEN UNCHANGED <<stage, outcome>> ELSE stage' = "ended" /\ outcome' = "failed"
    /\ UNCHANGED <<clip, source, progress, staging, target, saved, spent, stops>>

\* The profile is checked, the input opened, then the staging file created.
StartRun ==
    /\ stage = "idle" /\ ready /\ UNCHANGED <<ready, clip, target, saved, spent, stops>>
    /\ source' = "same"
    /\ IF clip.n < 2 THEN EndRun("failed") /\ UNCHANGED progress
       ELSE /\ stage' = "snapshot" /\ staging' = 0 /\ outcome' = "none"
            /\ frames' = <<>> /\ planner' = [previous |-> 0, target |-> 0] /\ out' = 0
            /\ cores' = <<>> /\ segment' = 0

\* Another process writes to the input while it is copied to the spool.
SourceChanges ==
    /\ stage = "snapshot" /\ source = "same" /\ source' = "changed"
    /\ UNCHANGED <<ready, clip, stage, progress, staging, target, saved, spent, outcome, stops>>

\* FAULT: the input is not compared with what was opened.
SnapshotUnverified ==
    /\ stage = "snapshot" /\ UNCHANGED <<ready, clip, source, progress, target, saved, spent, stops>>
    /\ stage' = "highpass" /\ UNCHANGED <<outcome, staging>>
Snapshot ==
    /\ stage = "snapshot" /\ UNCHANGED <<ready, clip, source, progress, target, saved, spent, stops>>
    /\ IF source = "changed" THEN EndRun("failed")
       ELSE stage' = "highpass" /\ UNCHANGED <<outcome, staging>>

\* The filter, then the plan of the chunks, whose bounds are checked.
Highpass ==
    /\ stage = "highpass" /\ UNCHANGED <<ready, clip, source, progress, target, saved, spent, stops>>
    /\ IF ~Plan.valid THEN EndRun("failed") ELSE stage' = "f0" /\ UNCHANGED <<outcome, staging>>

----------------------------------------
(* Blocks.  A block is loaded if it was saved, or computed and saved.      *)

Spend(b) == spent' = [k \in DOMAIN spent \cup {b} |-> (IF k \in DOMAIN spent THEN spent[k] ELSE 0)
                                                   + (IF k = b THEN 1 ELSE 0)]
\* FAULT: what was saved is not looked up.
LoadOrComputeAgain(b) == saved' = saved \cup {b} /\ Spend(b)
LoadOrCompute(b) ==
    IF b \in saved THEN UNCHANGED <<saved, spent>> ELSE saved' = saved \cup {b} /\ Spend(b)

\* FAULT: the crop is taken from the start of the window.
CropFromStart(p) == [j \in 1..p.count |-> p.start \div Hop + j - 1]
Crop(p) == [j \in 1..p.count |-> p.start \div Hop + p.crop + j - 1]

F0Window ==
    LET p == PlanF0Window(Virtual, Len(frames), Context)
    IN /\ stage = "f0" /\ Len(frames) < TotalFrames
       /\ UNCHANGED <<ready, clip, source, planner, out, cores, segment, target, stops>>
       /\ IF ~p.valid THEN EndRun("failed") /\ UNCHANGED <<frames, saved, spent>>
          ELSE /\ frames' = frames \o Crop(p) /\ LoadOrCompute(Stretch("f0", p.first, p.count))
               /\ UNCHANGED <<stage, outcome, staging>>

\* process_f0: an edit that does not fit the clip is an error.
Curve ==
    /\ stage = "f0" /\ Len(frames) >= TotalFrames
    /\ UNCHANGED <<ready, clip, source, frames, out, cores, segment, target, saved, spent, stops>>
    /\ IF Len(frames) = TotalFrames
       THEN /\ stage' = "synthesis" /\ planner' = [previous |-> 0, target |-> Plan.chunk]
            /\ UNCHANGED <<outcome, staging>>
       ELSE EndRun("failed") /\ UNCHANGED planner

\* FAULT: a piece that is too short is not filled up with silence.
CoreSamplesTaken(start, end, piece) == Min({ToOutput(end) - ToOutput(start), piece})
\* A piece that is too short is filled up, so that the next one lies right.
CoreSamples(start, end, piece) ==
    LET take == Min({ToOutput(end) - ToOutput(start), piece})
    IN take + (ToOutput(end) - ToOutput(start) - take)

\* Where the next core and its segment end.
NextSegment ==
    LET core == NextCore(clip.n, clip.energy, Plan.chunk, Plan.query, Plan.hardCore,
                         planner.previous, planner.target)
    IN [core |-> core, last |-> Min({Virtual, core.end + 2 * Plan.pad + Hop})]
\* The frames of the pitch curve that a segment is synthesised from.
SegmentFrames(start, last) == (start \div Hop)..(Min({Len(frames), last \div Hop}) - 1)
\* FAULT: the context on the right is counted once.
SeedFramesOneSide(start, end) ==
    (start \div Hop)..(Min({TotalFrames, Min({Virtual, end + Plan.pad + Hop}) \div Hop}) - 1)
\* seed_preview: the frames whose change makes a saved core useless.
SeedFrames(start, end) ==
    (start \div Hop)..(Min({TotalFrames, Min({Virtual, end + 2 * Plan.pad + Hop}) \div Hop}) - 1)

\* One core: the segment with its context, the models, the cut to the core.
Core ==
    LET start == planner.previous
        core == NextSegment.core
        last == NextSegment.last
        block == Stretch("synth", start, ToOutput(core.end) - ToOutput(start))
    IN /\ stage = "synthesis" /\ start < clip.n
       /\ UNCHANGED <<ready, clip, source, frames, target, stops>>
       /\ \/ /\ core.fails \/ out # ToOutput(start) \/ last - start > Plan.hardSegment
                \/ SegmentFrames(start, last) = {}
             /\ EndRun("failed") /\ UNCHANGED <<planner, out, cores, segment, saved, spent>>
          \/ /\ ~core.fails /\ out = ToOutput(start) /\ last - start <= Plan.hardSegment
             /\ SegmentFrames(start, last) # {}
             /\ planner' = [previous |-> core.end, target |-> core.target]
             /\ cores' = Append(cores, <<start, core.end>>)
             /\ LoadOrCompute(block)
             /\ IF block \in saved THEN out' = out + block.count /\ UNCHANGED segment
                ELSE segment' = last - start
                     /\ \E piece \in {block.count - 1, block.count, block.count + 1} :
                            out' = out + CoreSamples(start, core.end, piece)
             /\ UNCHANGED <<stage, outcome, staging>>

SynthesisDone ==
    /\ stage = "synthesis" /\ planner.previous >= clip.n
    /\ UNCHANGED <<ready, clip, source, progress, target, saved, spent, stops>>
    /\ IF out = ToOutput(clip.n) THEN stage' = "output" /\ UNCHANGED <<outcome, staging>>
       ELSE EndRun("failed")

\* write_final_output appends every sample; commit counts them once more.
WriteOutput ==
    /\ stage = "output" /\ stage' = "commit" /\ staging' = out
    /\ UNCHANGED <<ready, clip, source, progress, target, saved, spent, outcome, stops>>
\* FAULT: a failed sync of the directory is reported after the rename.
ReportSync(synced) == IF synced THEN "success" ELSE "failed"
Report(synced) == "success"
Commit ==
    /\ stage = "commit" /\ UNCHANGED <<ready, clip, source, progress, saved, spent, stops>>
    /\ IF staging = ToOutput(clip.n) THEN (\E synced \in BOOLEAN : EndRun(Report(synced))) /\ target' = cores
       ELSE EndRun("failed") /\ UNCHANGED target

----------------------------------------
Working == stage \notin {"idle", "ended"}

\* Any read, append, allocation or model call fails.
FailRun ==
    /\ Working /\ EndRun("failed")
    /\ UNCHANGED <<ready, clip, source, progress, target, saved, spent, stops>>

\* OperationPaused at a boundary: before and after each block.
Pause ==
    /\ stage \in {"f0", "synthesis"} /\ stops < MaxStops /\ stops' = stops + 1 /\ EndRun("paused")
    /\ UNCHANGED <<ready, clip, source, progress, target, saved, spent>>

\* The process dies; its spools and its staging file stay behind, under names
\* that the next attempt does not use.
Die ==
    /\ Working /\ stops < MaxStops /\ stops' = stops + 1 /\ stage' = "idle" /\ ready' = FALSE
    /\ staging' = -1 /\ outcome' = "none"
    /\ UNCHANGED <<clip, source, progress, target, saved, spent>>

Resume ==
    /\ stage = "ended" /\ outcome = "paused" /\ stage' = "idle" /\ ready' = FALSE /\ outcome' = "none"
    /\ UNCHANGED <<clip, source, progress, staging, target, saved, spent, stops>>

StepRun ==
    \/ InitPipeline \/ StartRun \/ Snapshot \/ Highpass \/ F0Window \/ Curve \/ Core \/ SynthesisDone
    \/ WriteOutput \/ Commit
\* The conversion has succeeded or failed and is not asked for again.
Over == stage = "ended" /\ outcome # "paused" /\ UNCHANGED conversionVars
ConversionNext == StepRun \/ SourceChanges \/ FailRun \/ Pause \/ Die \/ Resume \/ Over
ConversionSpec == ConversionInit /\ [][ConversionNext]_conversionVars

----------------------------------------
\* Frames and samples lie where they belong in every attempt, whether a block
\* was computed or loaded and however long the pieces of the synthesizer are.
SpoolsAreAligned ==
    /\ \A i \in DOMAIN frames : frames[i] = i - 1
    /\ out = ToOutput(planner.previous)

\* The target is the old file, or the clip from end to end, cut where the older
\* conversion cuts it: no pause, death or failure before the rename shows.
TargetIsWhole ==
    target # <<>> =>
        LET cuts == LongCuts(clip.n, clip.energy, Plan.chunk, Plan.query)
        IN target = [k \in 1..(Len(cuts) - 1) |-> <<cuts[k], cuts[k + 1]>>]

\* The target is replaced by a success only, and a success has replaced it
\* (VC-MIG: a failure keeps the old target).
SuccessIsReplaced == (outcome = "success") = (target # <<>>)

\* What the models are given never exceeds what they accept; and a plan that
\* was accepted and counts in whole hops is enough for every clip: the bounds
\* are not met for the first time in the middle of it.  (Cuts lie on hops: with
\* targets between them two quiet places may be a hop less one sample further
\* apart than QuietCorePlanner allows, and the conversion fails there.)
SegmentsFit ==
    /\ segment <= ContentMax
    /\ stage = "synthesis" /\ planner.previous < clip.n /\ Plan.query % Hop = 0 /\ Plan.chunk % Hop = 0 =>
        ~NextSegment.core.fails /\ NextSegment.last - planner.previous <= Plan.hardSegment

\* An output is made from the input that was opened, all of it: a change during
\* the snapshot fails the conversion (verify_unchanged at its end).
OutputIsOfOneInput == stage \in {"f0", "synthesis", "output", "commit"} => source = "same"

\* A block that was saved is never computed again, whatever paused or died in
\* between (one that was computed and not yet saved may be).
NothingTwice == \A b \in DOMAIN spent : spent[b] = 1

\* The preview of an edit reuses the cores that no changed frame of the curve
\* reaches.  It works out their reach for itself: every frame a core was
\* synthesised from is in it (seed_preview, convert_file_bounded).
SeedReachesAll ==
    [][cores' # cores /\ Len(cores') > Len(cores) =>
         SegmentFrames(planner.previous, NextSegment.last)
            \subseteq SeedFrames(Last(cores')[1], Last(cores')[2])]_conversionVars

\* The conversion as a whole: the file at the target is the whole clip, made of
\* one input and nothing else, on whatever path of plans, checkpoints, pauses,
\* deaths and previews it came about (convert_file_bounded).
ConversionIsWhole ==
    /\ [](TargetIsWhole /\ SuccessIsReplaced /\ OutputIsOfOneInput)
    /\ [](SpoolsAreAligned /\ SegmentsFit /\ NothingTwice)
    /\ SeedReachesAll
=============================================================================
