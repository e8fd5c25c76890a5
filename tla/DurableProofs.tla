---------------------------- MODULE DurableProofs ---------------------------
(***************************************************************************)
(* What the service keeps on disk, for any number of uploads, steps and    *)
(* clips, of calls and lines, and for any limits: nobody who reads the     *)
(* material of a voice under its locks sees a mix of generations, no two   *)
(* children share the GPU, a call that returns leaves nothing behind, and  *)
(* a batch that is accepted has become one whole file per recording.       *)
(*                                                                         *)
(* One part per component, each with its invariant, built up in layers;    *)
(* the theorems are at the end.                                            *)
(***************************************************************************)
EXTENDS MCDurable, FiniteSetTheorems, TLAPS

----------------------------------------
(* The material of a voice: the invariant. *)

Replacers == {"upload", "train", "step"}
Swapping == {"swap", "committed", "failed"}
Reading == {"find", "read", "done"}

Places == {"idle", "gpu", "slot", "lock", "swap", "committed", "failed", "return", "reserve", "handoff", "decide",
           "copy", "run", "mark", "find", "read", "done", "send"}

DiskType == [raw : 0..MaxUploads, work : WorkType, marker : 0..MaxHistory]
InputType == [mode : {"plain", "full"}, flag : BOOLEAN, src : {"raw", "work"}, got : SUBSET WorkType, k : 1..(Clips + 1)]
OutputType == [work : [gen : 0..MaxUploads, n : 0..(MaxHistory + 1)], marker : 0..MaxHistory]
ViewType == [from : {"work", "raw"}, found : WorkType, copied : WorkType]

VoiceType ==
    /\ raw \in 0..MaxUploads /\ work \in WorkType /\ marker \in 0..MaxHistory
    /\ old \in DiskType
    /\ gpu \in Holders /\ mat \in Holders /\ slot \in {"free", "train", "step"}
    /\ pc \in [Requests -> Places]
    /\ pos \in 1..5 /\ fresh \in [Writers -> 0..MaxUploads] /\ ups \in 0..MaxUploads
    /\ tr \in InputType /\ out \in OutputType /\ seen \in [Readers -> ViewType]

\* The place of one request fits the locks it holds.
LocksOf(r) ==
    /\ r = "upload" /\ pc[r] \in {"slot", "lock"} \cup Swapping => gpu = r
    /\ r = "train" /\ pc[r] \in {"lock"} \cup Swapping => gpu = r
    /\ r = "step" /\ pc[r] \in {"run", "mark", "lock"} \cup Swapping => gpu = r
    /\ r \in Replacers /\ pc[r] \in Swapping => mat = r
    /\ r \in Readers /\ pc[r] \in Reading => mat = r
    /\ r = "train" /\ pc[r] \in {"decide", "copy"} /\ tr.mode = "plain" => gpu = r
HoldsLocks == \A r \in Requests : LocksOf(r)

\* A voice's directory in one generation.
Whole(r, w, m) == m = w.n /\ r = w.gen /\ (w.gen = 0 => w.n = 0)
SwapFree == \A r \in Replacers : pc[r] # "swap"
\* What the renames passed so far have moved.
MaterialMoved(g) ==
    /\ raw = (IF pos = 1 THEN old.raw ELSE IF pos = 5 THEN g ELSE 0)
    /\ work = (IF pos < 3 THEN old.work ELSE NoWork)
    /\ marker = (IF pos < 4 THEN old.marker ELSE 0)
StepMoved ==
    /\ pos < 5 /\ raw = old.raw
    /\ work = (IF pos = 1 THEN old.work ELSE IF pos = 4 THEN out.work ELSE NoWork)
    /\ marker = (IF pos < 3 THEN old.marker ELSE 0)
DiskFits ==
    /\ SwapFree => pos = 1 /\ Whole(raw, work, marker)
    /\ ~SwapFree => Whole(old.raw, old.work, old.marker)
    /\ \A r \in Writers : pc[r] = "swap" => MaterialMoved(fresh[r])
    /\ pc["step"] = "swap" => StepMoved

\* The staged output of a step is the material it replaces, one step on.
Follows(o, w) == w.gen # 0 /\ o.gen = w.gen /\ o.n = w.n + 1
StagedFits ==
    /\ pc["step"] \in {"mark", "lock"} => Follows(out.work, work)
    /\ pc["step"] = "lock" => out.marker = out.work.n
    /\ pc["step"] = "swap" => Follows(out.work, old.work) /\ out.marker = out.work.n

\* What a reader has found does not change under it.
ReadersFit ==
    \A r \in Readers :
        /\ pc[r] \in {"idle", "lock", "find"} => seen[r].found = NoWork /\ seen[r].copied = NoWork
        /\ pc[r] = "read" => seen[r].found = Content(seen[r].from)
        /\ pc[r] \in {"done", "send"} => seen[r].copied = seen[r].found
        /\ pc[r] = "done" /\ seen[r].found.gen = 0 => raw = 0 /\ work.gen = 0

\* A plain training reads one generation, and decided by the same.
OneInput == (\A c, d \in tr.got : c = d) /\ \A c \in tr.got : tr.flag <=> c.n > 0
InputsFit ==
    /\ pc["train"] \notin {"copy", "return"} => tr.got = {}
    /\ tr.mode = "plain" => OneInput
    /\ tr.mode = "plain" /\ pc["train"] = "copy" =>
         /\ tr.flag <=> Preprocessed
         /\ tr.src = (IF tr.flag THEN "work" ELSE "raw") /\ tr.got \subseteq {Content(tr.src)}

VoiceInv == VoiceType /\ HoldsLocks /\ DiskFits /\ StagedFits /\ ReadersFit /\ InputsFit
LEMMA VoiceBegins == Init => VoiceInv
<1> SUFFICES ASSUME Init PROVE VoiceInv OBVIOUS
<1>a. 0 \in 0..MaxUploads /\ 0 \in 0..MaxHistory /\ 0 \in 0..(MaxHistory + 1) /\ 1 \in 1..(Clips + 1) /\ 1 \in 1..5
  BY MaterialAssumption
<1>0. NoWork \in WorkType /\ NoBackup \in DiskType /\ NoInput \in InputType /\ NoOutput \in OutputType /\ NoView \in ViewType
  BY <1>a DEF NoWork, WorkType, NoBackup, DiskType, NoInput, InputType, NoOutput, OutputType, NoView, ViewType
<1>1. VoiceType BY <1>a, <1>0 DEF Init, VoiceType, Requests, Readers, Writers, Places, Holders
<1>2. \A r \in Requests : pc[r] = "idle" BY DEF Init
<1>3. HoldsLocks BY <1>2 DEF HoldsLocks, LocksOf, Swapping, Reading
<1>4. DiskFits /\ StagedFits
  BY <1>2 DEF Init, DiskFits, StagedFits, SwapFree, Whole, NoWork, Requests, Replacers, Writers
<1>5. ReadersFit BY <1>2 DEF Init, ReadersFit, Requests, Readers, NoView
<1>6. InputsFit BY <1>2 DEF Init, InputsFit, NoInput, OneInput, Requests
<1> QED BY <1>1, <1>3, <1>4, <1>5, <1>6 DEF VoiceInv

----------------------------------------
(* Who does what. *)

UploadStep == StageUpload \/ UploadGpu \/ UploadSlot \/ UploadUnlock \/ UploadReturn
TrainingStep ==
    \/ \E mode \in {"plain", "full"} : StageTraining(mode)
    \/ ReserveTraining \/ TrainingGpu \/ TrainingUnlock \/ HandOff \/ DecideSource \/ CopyClip \/ TrainingReturn
CliStep == ReserveStep \/ StepGpu \/ RunStep \/ MarkStep \/ StepUnlock \/ FinishStep \/ StepReturn
ReaderStep(r) == (r = "convert" /\ ConvertGpu) \/ ReaderLock(r) \/ Find(r) \/ ReadWav(r) \/ ReaderUnlock(r) \/ ReaderSend(r)
PublishStep == PublishGpu \/ PublishSlot \/ PublishLock \/ PublishReturn

LEMMA EveryVoiceStep ==
    ASSUME Next
    PROVE  \/ \E r \in Replacers : LockToReplace(r)
           \/ \E r \in Writers : Replace(r, 5)
           \/ Replace("step", 4) \/ CancelCommit
           \/ UploadStep \/ TrainingStep \/ CliStep \/ PublishStep
           \/ \E r \in Readers : ReaderStep(r)
<1>1. Replacers = Writers \cup {"step"} /\ "convert" \in Readers BY DEF Replacers, Writers, Readers
<1> QED BY <1>1 DEF Next, UploadStep, TrainingStep, CliStep, ReaderStep, PublishStep

\* Steps of one request that leave the directory alone.
OnlyPc(r) == pc' \in [Requests -> Places] /\ \A x \in Requests \ {r} : pc'[x] = pc[x]
Departs(r) ==
    /\ UNCHANGED <<raw, work, marker, old, pos>> /\ OnlyPc(r)
    /\ r \in Replacers => pc[r] # "swap" /\ pc'[r] # "swap"
    /\ \A x \in Writers \ {r} : fresh'[x] = fresh[x]

LEMMA UploadLeaves == ASSUME VoiceType, UploadStep PROVE Departs("upload") /\ UNCHANGED <<tr, out, seen>>
<1> USE DEF Departs, OnlyPc, disk, To, At, VoiceType, Requests, Readers, Places, Writers
<1>1. CASE StageUpload BY <1>1 DEF StageUpload
<1>2. CASE UploadGpu BY <1>2 DEF UploadGpu, TryGpu
<1>3. CASE UploadSlot BY <1>3 DEF UploadSlot
<1>4. CASE UploadUnlock BY <1>4 DEF UploadUnlock
<1>5. CASE UploadReturn BY <1>5 DEF UploadReturn
<1> QED BY <1>1, <1>2, <1>3, <1>4, <1>5 DEF UploadStep

LEMMA TrainingLeaves == ASSUME VoiceType, TrainingStep PROVE Departs("train") /\ UNCHANGED <<out, seen>>
<1> USE DEF Departs, OnlyPc, disk, To, At, VoiceType, Requests, Readers, Places, Writers
<1>1. ASSUME NEW mode \in {"plain", "full"}, StageTraining(mode) PROVE Departs("train") /\ UNCHANGED <<out, seen>>
  BY <1>1 DEF StageTraining
<1>2. CASE ReserveTraining BY <1>2 DEF ReserveTraining
<1>3. CASE TrainingGpu BY <1>3 DEF TrainingGpu, TryGpu
<1>4. CASE TrainingUnlock BY <1>4 DEF TrainingUnlock
<1>5. CASE HandOff BY <1>5 DEF HandOff
<1>6. CASE DecideSource BY <1>6 DEF DecideSource
<1>7. CASE CopyClip BY <1>7 DEF CopyClip
<1>8. CASE TrainingReturn BY <1>8 DEF TrainingReturn
<1> QED BY <1>1, <1>2, <1>3, <1>4, <1>5, <1>6, <1>7, <1>8 DEF TrainingStep

LEMMA CliLeaves == ASSUME VoiceType, CliStep PROVE Departs("step") /\ UNCHANGED <<tr, seen>>
<1> USE DEF Departs, OnlyPc, disk, To, At, VoiceType, Requests, Readers, Places, Writers
<1>1. CASE ReserveStep BY <1>1 DEF ReserveStep
<1>2. CASE StepGpu BY <1>2 DEF StepGpu, TryGpu
<1>3. CASE RunStep BY <1>3 DEF RunStep
<1>4. CASE MarkStep BY <1>4 DEF MarkStep
<1>5. CASE StepUnlock BY <1>5 DEF StepUnlock
<1>6. CASE FinishStep BY <1>6 DEF FinishStep
<1>7. CASE StepReturn BY <1>7 DEF StepReturn
<1> QED BY <1>1, <1>2, <1>3, <1>4, <1>5, <1>6, <1>7 DEF CliStep

LEMMA ReaderLeaves == ASSUME VoiceType, NEW r \in Readers, ReaderStep(r) PROVE Departs(r) /\ UNCHANGED <<tr, out>>
<1>0. r \in Requests /\ r \notin Replacers BY DEF Requests, Readers, Replacers
<1> USE DEF Departs, OnlyPc, disk, To, At, VoiceType, Places, Writers
<1>1. CASE r = "convert" /\ ConvertGpu BY <1>0, <1>1 DEF ConvertGpu, TryGpu
<1>2. CASE ReaderLock(r) BY <1>0, <1>2 DEF ReaderLock, LockToRead, LockMaterial
<1>3. CASE Find(r) BY <1>0, <1>3 DEF Find
<1>4. CASE ReadWav(r) BY <1>0, <1>4 DEF ReadWav
<1>5. CASE ReaderUnlock(r) BY <1>0, <1>5 DEF ReaderUnlock
<1>6. CASE ReaderSend(r) BY <1>0, <1>6 DEF ReaderSend
<1> QED BY <1>1, <1>2, <1>3, <1>4, <1>5, <1>6 DEF ReaderStep

LEMMA PublishLeaves == ASSUME VoiceType, PublishStep PROVE Departs("publish") /\ UNCHANGED <<tr, out, seen>>
<1>0. "publish" \in Requests /\ "publish" \notin Replacers BY DEF Requests, Replacers
<1> USE DEF Departs, OnlyPc, disk, To, At, VoiceType, Places, Writers
<1>1. CASE PublishGpu BY <1>0, <1>1 DEF PublishGpu, TryGpu
<1>2. CASE PublishSlot BY <1>0, <1>2 DEF PublishSlot
<1>3. CASE PublishLock BY <1>0, <1>3 DEF PublishLock, LockMaterial
<1>4. CASE PublishReturn BY <1>0, <1>4 DEF PublishReturn
<1> QED BY <1>1, <1>2, <1>3, <1>4 DEF PublishStep

----------------------------------------
(* Types, and who holds which lock. *)

\* A replacement, told by the places of the requests.
LEMMA SwapMoves ==
    ASSUME VoiceType, NEW r \in Replacers, NEW last \in 4..5, Replace(r, last)
    PROVE  /\ OnlyPc(r) /\ pc[r] = "swap" /\ UNCHANGED <<gpu, mat, slot, fresh, ups, tr, out, seen>>
           /\ \/ pc' = pc /\ pos < last /\ pos' = pos + 1 /\ old' = old
                 /\ IF r = "step" THEN MoveStep(pos) ELSE MoveMaterial(pos, fresh[r])
              \/ pc'[r] = "committed" /\ pos >= last /\ pos' = 1 /\ old' = NoBackup
                 /\ IF r = "step" THEN MoveStep(pos) ELSE MoveMaterial(pos, fresh[r])
              \/ pc'[r] = "failed" /\ pos' = 1 /\ old' = NoBackup
                 /\ raw' = old.raw /\ work' = old.work /\ marker' = old.marker
<1>1. r \in Requests /\ "committed" \in Places /\ "failed" \in Places /\ pc \in [Requests -> Places] /\ pos \in 1..5
  BY DEF Replacers, Requests, Places, VoiceType
<1>2. pc[r] = "swap" /\ UNCHANGED <<gpu, mat, slot, fresh, ups, tr, out, seen>> BY DEF Replace, At
<1>3. CASE /\ IF r = "step" THEN MoveStep(pos) ELSE MoveMaterial(pos, fresh[r])
           /\ IF pos < last THEN pos' = pos + 1 /\ UNCHANGED pc ELSE pos' = 1 /\ To(r, "committed")
  <2>1. CASE pos < last
    <3>1. pc' = pc /\ pos' = pos + 1 /\ pc'[r] = "swap" BY <1>2, <1>3, <2>1
    <3>2. old' = old BY <3>1 DEF Replace
    <3>3. OnlyPc(r) BY <1>1, <3>1 DEF OnlyPc
    <3> QED BY <1>2, <1>3, <2>1, <3>1, <3>2, <3>3
  <2>2. CASE ~(pos < last)
    <3>1. pc' = [pc EXCEPT ![r] = "committed"] /\ pos' = 1 BY <1>3, <2>2 DEF To
    <3>2. pc'[r] = "committed" /\ OnlyPc(r) BY <1>1, <3>1 DEF OnlyPc
    <3>3. old' = NoBackup BY <3>2 DEF Replace
    <3>4. pos >= last BY <1>1, <2>2
    <3> QED BY <1>2, <1>3, <3>1, <3>2, <3>3, <3>4
  <2> QED BY <2>1, <2>2
<1>4. CASE raw' = old.raw /\ work' = old.work /\ marker' = old.marker /\ pos' = 1 /\ To(r, "failed")
  <2>1. pc'[r] = "failed" /\ OnlyPc(r) BY <1>1, <1>4 DEF OnlyPc, To
  <2>2. old' = NoBackup BY <2>1 DEF Replace
  <2> QED BY <1>2, <1>4, <2>1, <2>2
<1> QED BY <1>3, <1>4 DEF Replace

LEMMA ReplacerLocks ==
    ASSUME VoiceType, NEW r \in Replacers, LockToReplace(r)
    PROVE  /\ OnlyPc(r) /\ pc[r] = "lock" /\ pc'[r] = "swap" /\ mat = "free" /\ mat' = r /\ pos' = 1
           /\ old' = [raw |-> raw, work |-> work, marker |-> marker]
           /\ UNCHANGED <<raw, work, marker, gpu, slot, fresh, ups, tr, out, seen>>
<1>1. r \in Requests /\ "swap" \in Places /\ pc \in [Requests -> Places]
  BY DEF Replacers, Requests, Places, VoiceType
<1> QED BY <1>1 DEF LockToReplace, LockMaterial, At, To, OnlyPc, disk

\* A request takes and gives back only its own locks.
OwnLocks(r) == \A x \in Requests \ {r} : (gpu = x => gpu' = x) /\ (mat = x => mat' = x)

LEMMA LocksStay ==
    ASSUME HoldsLocks, NEW r \in Requests, OnlyPc(r), OwnLocks(r), LocksOf(r)', r # "train" => tr' = tr
    PROVE  HoldsLocks'
<1>1. ASSUME NEW x \in Requests \ {r} PROVE LocksOf(x)'
  <2>1. LocksOf(x) /\ pc'[x] = pc[x] /\ (gpu = x => gpu' = x) /\ (mat = x => mat' = x)
    BY DEF HoldsLocks, OnlyPc, OwnLocks
  <2>2. x = "train" => tr' = tr OBVIOUS
  <2> QED BY <2>1, <2>2 DEF LocksOf
<1> QED BY <1>1 DEF HoldsLocks

LEMMA UploadLocks == ASSUME VoiceType, HoldsLocks, UploadStep PROVE HoldsLocks'
<1>0. OnlyPc("upload") /\ tr' = tr /\ "upload" \in Requests BY UploadLeaves DEF Departs, Requests
<1> SUFFICES OwnLocks("upload") /\ LocksOf("upload")' BY <1>0, LocksStay
<1> USE DEF OwnLocks, LocksOf, To, At, VoiceType, Requests, Readers, Replacers, Swapping, Reading
<1>h. LocksOf("upload") BY DEF HoldsLocks
<1>1. CASE StageUpload BY <1>h, <1>1 DEF StageUpload
<1>2. CASE UploadGpu BY <1>h, <1>2 DEF UploadGpu, TryGpu
<1>3. CASE UploadSlot BY <1>h, <1>3 DEF UploadSlot
<1>4. CASE UploadUnlock BY <1>h, <1>4 DEF UploadUnlock, FreeMaterial
<1>5. CASE UploadReturn BY <1>h, <1>5 DEF UploadReturn, FreeGpu
<1> QED BY <1>1, <1>2, <1>3, <1>4, <1>5 DEF UploadStep

LEMMA TrainingLocks == ASSUME VoiceType, HoldsLocks, TrainingStep PROVE HoldsLocks'
<1>0. OnlyPc("train") /\ "train" \in Requests BY TrainingLeaves DEF Departs, Requests
<1> SUFFICES OwnLocks("train") /\ LocksOf("train")' BY <1>0, LocksStay
<1> USE DEF OwnLocks, LocksOf, To, At, VoiceType, Requests, Readers, Replacers, Swapping, Reading
<1>h. LocksOf("train") BY DEF HoldsLocks
<1>1. ASSUME NEW mode \in {"plain", "full"}, StageTraining(mode) PROVE OwnLocks("train") /\ LocksOf("train")'
  BY <1>h, <1>1 DEF StageTraining
<1>2. CASE ReserveTraining BY <1>h, <1>2 DEF ReserveTraining
<1>3. CASE TrainingGpu BY <1>h, <1>3 DEF TrainingGpu, TryGpu
<1>4. CASE TrainingUnlock BY <1>h, <1>4 DEF TrainingUnlock, FreeMaterial, FreeGpu
<1>5. CASE HandOff BY <1>h, <1>5 DEF HandOff
<1>6. CASE DecideSource BY <1>h, <1>6 DEF DecideSource, InputType
<1>7. CASE CopyClip BY <1>h, <1>7, ZenonT(60) DEF CopyClip, InputType
<1>8. CASE TrainingReturn BY <1>h, <1>8 DEF TrainingReturn, FreeGpu
<1> QED BY <1>1, <1>2, <1>3, <1>4, <1>5, <1>6, <1>7, <1>8 DEF TrainingStep

LEMMA CliLocks == ASSUME VoiceType, HoldsLocks, CliStep PROVE HoldsLocks'
<1>0. OnlyPc("step") /\ tr' = tr /\ "step" \in Requests BY CliLeaves DEF Departs, Requests
<1> SUFFICES OwnLocks("step") /\ LocksOf("step")' BY <1>0, LocksStay
<1> USE DEF OwnLocks, LocksOf, To, At, VoiceType, Requests, Readers, Replacers, Swapping, Reading
<1>h. LocksOf("step") BY DEF HoldsLocks
<1>1. CASE ReserveStep BY <1>h, <1>1 DEF ReserveStep
<1>2. CASE StepGpu BY <1>h, <1>2 DEF StepGpu, TryGpu
<1>3. CASE RunStep BY <1>h, <1>3 DEF RunStep
<1>4. CASE MarkStep BY <1>h, <1>4 DEF MarkStep
<1>5. CASE StepUnlock BY <1>h, <1>5 DEF StepUnlock, FreeMaterial
<1>6. CASE FinishStep BY <1>h, <1>6 DEF FinishStep
<1>7. CASE StepReturn BY <1>h, <1>7 DEF StepReturn, FreeGpu
<1> QED BY <1>1, <1>2, <1>3, <1>4, <1>5, <1>6, <1>7 DEF CliStep

LEMMA ReaderLocks == ASSUME VoiceType, HoldsLocks, NEW r \in Readers, ReaderStep(r) PROVE HoldsLocks'
<1>0. OnlyPc(r) /\ tr' = tr /\ r \in Requests /\ r \notin Replacers
  BY ReaderLeaves DEF Departs, Requests, Readers, Replacers
<1> SUFFICES OwnLocks(r) /\ LocksOf(r)' BY <1>0, LocksStay
<1> USE DEF OwnLocks, LocksOf, To, At, VoiceType, Swapping, Reading
<1>g. r # "upload" /\ r # "train" /\ r # "step" BY DEF Readers
<1>h. LocksOf(r) BY <1>0 DEF HoldsLocks
<1>1. CASE r = "convert" /\ ConvertGpu
  <2>1. mat' = mat /\ (gpu' = gpu \/ gpu = "free") /\ (pc'["convert"] = "lock" \/ pc'["convert"] = "send")
    BY <1>0, <1>1 DEF ConvertGpu, TryGpu
  <2>2. "free" \notin Requests BY DEF Requests, Readers
  <2> QED BY <1>g, <1>1, <2>1, <2>2
<1>2. CASE ReaderLock(r)
  <2>1. gpu' = gpu /\ mat = "free" /\ mat' = r /\ pc'[r] = "find"
    BY <1>0, <1>2 DEF ReaderLock, LockToRead, LockMaterial
  <2>2. "free" \notin Requests BY DEF Requests, Readers
  <2> QED BY <1>g, <2>1, <2>2
<1>3. CASE Find(r) BY <1>h, <1>g, <1>0, <1>3 DEF Find
<1>4. CASE ReadWav(r) BY <1>h, <1>g, <1>0, <1>4 DEF ReadWav
<1>5. CASE ReaderUnlock(r) BY <1>h, <1>g, <1>0, <1>5 DEF ReaderUnlock, FreeMaterial
<1>6. CASE ReaderSend(r) BY <1>h, <1>g, <1>0, <1>6 DEF ReaderSend, FreeGpu
<1> QED BY <1>1, <1>2, <1>3, <1>4, <1>5, <1>6 DEF ReaderStep

LEMMA PublishLocks == ASSUME VoiceType, HoldsLocks, PublishStep PROVE HoldsLocks'
<1>0. OnlyPc("publish") /\ tr' = tr /\ "publish" \in Requests BY PublishLeaves DEF Departs, Requests
<1>1. LocksOf("publish")' BY DEF LocksOf, Replacers, Readers
<1> SUFFICES OwnLocks("publish") BY <1>0, <1>1, LocksStay
<1> USE DEF OwnLocks, VoiceType, Requests, Readers
<1>2. CASE PublishGpu BY <1>2 DEF PublishGpu, TryGpu
<1>3. CASE PublishSlot BY <1>3 DEF PublishSlot
<1>4. CASE PublishLock BY <1>4 DEF PublishLock, LockMaterial
<1>5. CASE PublishReturn BY <1>5 DEF PublishReturn, FreeMaterial, FreeGpu
<1> QED BY <1>2, <1>3, <1>4, <1>5 DEF PublishStep

LEMMA SwapLocks ==
    ASSUME VoiceType, HoldsLocks, NEW r \in Replacers, LockToReplace(r) \/ Replace(r, 4) \/ Replace(r, 5) \/ (r = "train" /\ CancelCommit)
    PROVE  HoldsLocks'
<1>0. r \in Requests /\ r \notin Readers /\ pc \in [Requests -> Places]
  BY DEF Requests, Readers, Replacers, VoiceType
<1>h. LocksOf(r) BY <1>0 DEF HoldsLocks
<1>1. CASE LockToReplace(r)
  <2>1. OnlyPc(r) /\ pc[r] = "lock" /\ pc'[r] = "swap" /\ mat = "free" /\ mat' = r /\ gpu' = gpu /\ tr' = tr
    BY <1>1, ReplacerLocks
  <2>2. "free" \notin Requests BY DEF Requests, Readers
  <2>3. OwnLocks(r) BY <2>1, <2>2 DEF OwnLocks
  <2>4. LocksOf(r)' BY <1>0, <1>h, <2>1 DEF LocksOf, Swapping
  <2> QED BY <1>0, <2>1, <2>3, <2>4, LocksStay
<1>2. CASE Replace(r, 4) \/ Replace(r, 5)
  <2>1. OnlyPc(r) /\ pc[r] = "swap" /\ (pc'[r] = pc[r] \/ pc'[r] = "committed" \/ pc'[r] = "failed") /\ gpu' = gpu /\ mat' = mat /\ tr' = tr
    BY <1>2, SwapMoves, 4 \in 4..5, 5 \in 4..5
  <2>3. OwnLocks(r) BY <2>1 DEF OwnLocks
  <2>4. LocksOf(r)' BY <1>0, <1>h, <2>1 DEF LocksOf, Swapping
  <2> QED BY <1>0, <2>1, <2>3, <2>4, LocksStay
<1>3. CASE r = "train" /\ CancelCommit
  <2>1. OnlyPc(r) /\ pc[r] = "swap" /\ pc'[r] = "failed" /\ gpu' = gpu /\ mat' = mat /\ tr' = tr
    BY <1>0, <1>3 DEF CancelCommit, At, To, OnlyPc, Places
  <2>3. OwnLocks(r) BY <2>1 DEF OwnLocks
  <2>4. LocksOf(r)' BY <1>0, <1>h, <2>1 DEF LocksOf, Swapping
  <2> QED BY <1>0, <2>1, <2>3, <2>4, LocksStay
<1> QED BY <1>1, <1>2, <1>3

LEMMA LocksHold == ASSUME VoiceType, HoldsLocks, [Next]_vars PROVE HoldsLocks'
<1>0. CASE UNCHANGED vars BY <1>0 DEF vars, HoldsLocks, LocksOf
<1>1. CASE Next
  <2>1. "train" \in Replacers /\ "step" \in Replacers /\ Writers \subseteq Replacers BY DEF Replacers, Writers
  <2> QED BY <1>1, <2>1, EveryVoiceStep, SwapLocks, UploadLocks, TrainingLocks, CliLocks, PublishLocks, ReaderLocks
<1> QED BY <1>0, <1>1

LEMMA TypeStays ==
    ASSUME VoiceType, NEW r \in Requests, Departs(r),
           gpu' \in Holders, mat' \in Holders, slot' \in {"free", "train", "step"},
           fresh' \in [Writers -> 0..MaxUploads], ups' \in 0..MaxUploads,
           tr' \in InputType, out' \in OutputType, seen' \in [Readers -> ViewType]
    PROVE  VoiceType'
BY DEF VoiceType, Departs, OnlyPc, DiskType, InputType, OutputType, ViewType, WorkType, Holders

LEMMA UploadTyped == ASSUME VoiceType, UploadStep PROVE VoiceType'
<1>0. Departs("upload") /\ UNCHANGED <<tr, out, seen>> /\ "upload" \in Requests BY UploadLeaves DEF Requests
<1> SUFFICES /\ gpu' \in Holders /\ mat' \in Holders /\ slot' \in {"free", "train", "step"}
             /\ fresh' \in [Writers -> 0..MaxUploads] /\ ups' \in 0..MaxUploads
  BY <1>0, TypeStays DEF VoiceType
<1>a. 0 \in 0..MaxUploads /\ ups \in 0..MaxUploads /\ (ups < MaxUploads => ups + 1 \in 0..MaxUploads) /\ fresh \in [Writers -> 0..MaxUploads]
  BY MaterialAssumption DEF VoiceType
<1>b. gpu \in Holders /\ mat \in Holders /\ slot \in {"free", "train", "step"} /\ "upload" \in Holders /\ "free" \in Holders
  BY DEF VoiceType, Holders, Requests
<1>1. CASE StageUpload BY <1>a, <1>b, <1>1 DEF StageUpload
<1>2. CASE UploadGpu BY <1>a, <1>b, <1>2 DEF UploadGpu, TryGpu
<1>3. CASE UploadSlot BY <1>a, <1>b, <1>3 DEF UploadSlot
<1>4. CASE UploadUnlock BY <1>a, <1>b, <1>4 DEF UploadUnlock, FreeMaterial
<1>5. CASE UploadReturn BY <1>a, <1>b, <1>5 DEF UploadReturn, FreeGpu
<1> QED BY <1>1, <1>2, <1>3, <1>4, <1>5 DEF UploadStep

\* What one more copied clip makes of the training input.
CopiedInput == [tr EXCEPT !.got = @ \cup {Content(tr.src)}, !.k = @ + 1]
LEMMA CopyIs ==
    ASSUME VoiceType, CopyClip
    PROVE  \/ UNCHANGED tr /\ pc'["train"] = "return"
           \/ tr' = CopiedInput /\ pc' = pc /\ tr' \in InputType /\ tr.k <= Clips
<1>1. "train" \in Requests /\ pc \in [Requests -> Places] /\ tr \in InputType BY DEF Requests, VoiceType
<1>2. CASE UNCHANGED tr /\ To("train", "return") BY <1>1, <1>2 DEF To
<1>3. CASE ~(Content(tr.src).gen = 0 \/ tr.k > Clips) /\ tr' = CopiedInput /\ pc' = pc
  <2>1. Content(tr.src) \in WorkType
    <3>1. 0 \in 0..MaxHistory BY MaterialAssumption
    <3> QED BY <3>1 DEF Content, WorkType, VoiceType
  <2>2. tr.k \in 1..(Clips + 1) /\ tr.got \in SUBSET WorkType /\ Clips \in Nat
    BY <1>1, MaterialAssumption DEF InputType
  <2>3. tr.k <= Clips /\ tr.k + 1 \in 1..(Clips + 1) BY <1>3, <2>2
  <2>4. tr.got \cup {Content(tr.src)} \in SUBSET WorkType BY <2>1, <2>2
  <2>5. CopiedInput \in InputType BY <1>1, <2>3, <2>4 DEF CopiedInput, InputType
  <2> QED BY <1>3, <2>3, <2>5
<1> QED BY <1>2, <1>3 DEF CopyClip, CopiedInput

LEMMA TrainingTyped == ASSUME VoiceType, TrainingStep PROVE VoiceType'
<1>0. Departs("train") /\ UNCHANGED <<out, seen>> /\ "train" \in Requests BY TrainingLeaves DEF Requests
<1> SUFFICES /\ gpu' \in Holders /\ mat' \in Holders /\ slot' \in {"free", "train", "step"}
             /\ fresh' \in [Writers -> 0..MaxUploads] /\ ups' \in 0..MaxUploads /\ tr' \in InputType
  BY <1>0, TypeStays DEF VoiceType
<1>a. 0 \in 0..MaxUploads /\ ups \in 0..MaxUploads /\ (ups < MaxUploads => ups + 1 \in 0..MaxUploads) /\ fresh \in [Writers -> 0..MaxUploads]
  BY MaterialAssumption DEF VoiceType
<1>b. gpu \in Holders /\ mat \in Holders /\ slot \in {"free", "train", "step"} /\ "train" \in Holders /\ "free" \in Holders /\ tr \in InputType
  BY DEF VoiceType, Holders, Requests
<1>c. 1 \in 1..(Clips + 1) BY MaterialAssumption
<1>1. ASSUME NEW mode \in {"plain", "full"}, StageTraining(mode)
      PROVE  /\ gpu' \in Holders /\ mat' \in Holders /\ slot' \in {"free", "train", "step"}
             /\ fresh' \in [Writers -> 0..MaxUploads] /\ ups' \in 0..MaxUploads /\ tr' \in InputType
  <2>1. tr' \in InputType BY <1>c, <1>1 DEF StageTraining, InputType, NoInput
  <2>2. fresh' \in [Writers -> 0..MaxUploads] /\ ups' \in 0..MaxUploads BY <1>a, <1>1 DEF StageTraining
  <2> QED BY <1>b, <1>1, <2>1, <2>2 DEF StageTraining
<1>2. CASE ReserveTraining BY <1>a, <1>b, <1>2 DEF ReserveTraining
<1>3. CASE TrainingGpu BY <1>a, <1>b, <1>3 DEF TrainingGpu, TryGpu
<1>4. CASE TrainingUnlock BY <1>a, <1>b, <1>4 DEF TrainingUnlock, FreeMaterial, FreeGpu
<1>5. CASE HandOff BY <1>a, <1>b, <1>5 DEF HandOff
<1>6. CASE DecideSource
  <2>1. tr' \in InputType BY <1>b, <1>6 DEF DecideSource, InputType, Preprocessed
  <2> QED BY <1>a, <1>b, <1>6, <2>1 DEF DecideSource
<1>7. CASE CopyClip
  <2>1. tr' \in InputType BY <1>b, <1>7, CopyIs
  <2> QED BY <1>a, <1>b, <1>7, <2>1 DEF CopyClip
<1>8. CASE TrainingReturn
  <2>1. tr' \in InputType BY <1>c, <1>8 DEF TrainingReturn, InputType, NoInput
  <2> QED BY <1>a, <1>b, <1>8, <2>1 DEF TrainingReturn, FreeGpu, FreeSlot
<1> QED BY <1>1, <1>2, <1>3, <1>4, <1>5, <1>6, <1>7, <1>8 DEF TrainingStep

\* What the CLI and the marker make of the staged output.
LEMMA RunIs ==
    ASSUME VoiceType, RunStep
    PROVE  \/ out' = out /\ pc'["step"] = "return"
           \/ /\ work.gen # 0 /\ pc'["step"] = "mark" /\ out' \in OutputType
              /\ out'.work.gen = work.gen /\ out'.work.n = work.n + 1
<1>1. "step" \in Requests /\ pc \in [Requests -> Places] /\ out \in OutputType /\ work \in WorkType
  BY DEF Requests, VoiceType
<1>2. CASE UNCHANGED out /\ To("step", "return") BY <1>1, <1>2 DEF To
<1>3. CASE work.gen # 0 /\ out' = [out EXCEPT !.work = [work EXCEPT !.n = @ + 1]] /\ To("step", "mark")
  <2> DEFINE w == [work EXCEPT !.n = @ + 1]
  <2>1. work.n \in 0..MaxHistory /\ MaxHistory \in Nat BY <1>1, MaterialAssumption DEF WorkType
  <2>2. work.n + 1 \in 0..(MaxHistory + 1) BY <2>1
  <2>3. w \in [gen : 0..MaxUploads, n : 0..(MaxHistory + 1)] /\ w.gen = work.gen /\ w.n = work.n + 1
    BY <1>1, <2>2 DEF WorkType
  <2> HIDE DEF w
  <2>4. out' = [out EXCEPT !.work = w] BY <1>3 DEF w
  <2> QED BY <1>1, <1>3, <2>3, <2>4 DEF OutputType, To
<1> QED BY <1>2, <1>3 DEF RunStep

LEMMA MarkIs ==
    ASSUME VoiceType, MarkStep
    PROVE  \/ out' = out /\ pc'["step"] = "return"
           \/ pc'["step"] = "lock" /\ out' \in OutputType /\ out'.work = out.work /\ out'.marker = marker + 1 /\ marker < MaxHistory
<1>1. "step" \in Requests /\ pc \in [Requests -> Places] /\ out \in OutputType /\ marker \in 0..MaxHistory
  BY DEF Requests, VoiceType
<1>2. CASE UNCHANGED out /\ To("step", "return") BY <1>1, <1>2 DEF To
<1>3. CASE marker < MaxHistory /\ out' = [out EXCEPT !.marker = marker + 1] /\ To("step", "lock")
  <2>1. marker + 1 \in 0..MaxHistory BY <1>1, <1>3, MaterialAssumption
  <2> QED BY <1>1, <1>3, <2>1 DEF OutputType, To
<1> QED BY <1>2, <1>3 DEF MarkStep, HistoryFits

LEMMA CliTyped == ASSUME VoiceType, CliStep PROVE VoiceType'
<1>0. Departs("step") /\ UNCHANGED <<tr, seen>> /\ "step" \in Requests BY CliLeaves DEF Requests
<1> SUFFICES /\ gpu' \in Holders /\ mat' \in Holders /\ slot' \in {"free", "train", "step"}
             /\ fresh' \in [Writers -> 0..MaxUploads] /\ ups' \in 0..MaxUploads /\ out' \in OutputType
  BY <1>0, TypeStays DEF VoiceType
<1>b. /\ gpu \in Holders /\ mat \in Holders /\ slot \in {"free", "train", "step"} /\ "step" \in Holders /\ "free" \in Holders
      /\ out \in OutputType /\ fresh \in [Writers -> 0..MaxUploads] /\ ups \in 0..MaxUploads
  BY DEF VoiceType, Holders, Requests
<1>1. CASE ReserveStep BY <1>b, <1>1 DEF ReserveStep
<1>2. CASE StepGpu BY <1>b, <1>2 DEF StepGpu, TryGpu
<1>3. CASE RunStep BY <1>b, <1>3, RunIs DEF RunStep
<1>4. CASE MarkStep BY <1>b, <1>4, MarkIs DEF MarkStep
<1>5. CASE StepUnlock BY <1>b, <1>5 DEF StepUnlock, FreeMaterial
<1>6. CASE FinishStep BY <1>b, <1>6 DEF FinishStep, FreeSlot
<1>7. CASE StepReturn
  <2>1. 0 \in 0..MaxUploads /\ 0 \in 0..MaxHistory /\ 0 \in 0..(MaxHistory + 1) BY MaterialAssumption
  <2>2. out' \in OutputType BY <1>7, <2>1 DEF StepReturn, NoOutput, NoWork, OutputType
  <2> QED BY <1>b, <1>7, <2>2 DEF StepReturn, FreeGpu
<1> QED BY <1>1, <1>2, <1>3, <1>4, <1>5, <1>6, <1>7 DEF CliStep

LEMMA ContentTyped == ASSUME VoiceType, NEW dir PROVE Content(dir) \in WorkType
<1>1. 0 \in 0..MaxHistory BY MaterialAssumption
<1> QED BY <1>1 DEF Content, WorkType, VoiceType

\* What a reader's step makes of its view.
LEMMA ViewIs ==
    ASSUME VoiceType, NEW r \in Readers, ReaderStep(r)
    PROVE  /\ seen' \in [Readers -> ViewType] /\ \A x \in Readers \ {r} : seen'[x] = seen[x]
           /\ \/ /\ pc'[r] \in {"lock", "send"} /\ pc[r] = "idle"
                 /\ seen'[r].found = seen[r].found /\ seen'[r].copied = seen[r].copied
              \/ seen' = seen /\ pc[r] \in {"idle", "lock"} /\ pc'[r] = "find"
              \/ seen' = seen /\ pc[r] = "done" /\ pc'[r] = "send"
              \/ /\ pc[r] = "find" /\ seen'[r].from = seen[r].from
                 /\ seen'[r].found = Content(seen[r].from) /\ seen'[r].copied = NoWork
                 /\ pc'[r] = (IF Content(seen[r].from).gen = 0 THEN "done" ELSE "read")
              \/ /\ pc[r] = "read" /\ seen'[r].from = seen[r].from
                 /\ seen'[r].found = seen[r].found /\ seen'[r].copied = Content(seen[r].from) /\ pc'[r] = "done"
              \/ pc[r] = "send" /\ seen'[r] = NoView /\ pc'[r] = "idle"
<1>0. r \in Requests /\ pc \in [Requests -> Places] /\ seen \in [Readers -> ViewType] /\ seen[r] \in ViewType
  BY DEF Requests, VoiceType
<1>z. NoWork \in WorkType /\ NoView \in ViewType
  <2>1. 0 \in 0..MaxUploads /\ 0 \in 0..MaxHistory BY MaterialAssumption
  <2> QED BY <2>1 DEF NoWork, WorkType, NoView, ViewType
<1>c. Content(seen[r].from) \in WorkType BY ContentTyped
<1>1. CASE r = "convert" /\ ConvertGpu
  <2>1. PICK from \in {"work", "raw"} : seen' = [seen EXCEPT ![r] = [@ EXCEPT !.from = from]]
    BY <1>1 DEF ConvertGpu
  <2>2. pc[r] = "idle" /\ pc'[r] \in {"lock", "send"} BY <1>0, <1>1 DEF ConvertGpu, TryGpu, At, To
  <2> QED BY <1>0, <2>1, <2>2 DEF ViewType
<1>2. CASE ReaderLock(r) BY <1>0, <1>2 DEF ReaderLock, LockToRead, LockMaterial, At, To
<1>3. CASE Find(r)
  <2> DEFINE v == [seen[r] EXCEPT !.found = Content(seen[r].from), !.copied = NoWork]
  <2>1. v \in ViewType /\ v.from = seen[r].from /\ v.found = Content(seen[r].from) /\ v.copied = NoWork
    BY <1>0, <1>z, <1>c DEF ViewType
  <2>2. seen' = [seen EXCEPT ![r] = v] BY <1>0, <1>3 DEF Find
  <2>3. pc[r] = "find" /\ pc'[r] = (IF Content(seen[r].from).gen = 0 THEN "done" ELSE "read")
    BY <1>0, <1>3 DEF Find, At, To
  <2> HIDE DEF v
  <2> QED BY <1>0, <2>1, <2>2, <2>3
<1>4. CASE ReadWav(r)
  <2> DEFINE v == [seen[r] EXCEPT !.copied = Content(seen[r].from)]
  <2>1. v \in ViewType /\ v.from = seen[r].from /\ v.found = seen[r].found /\ v.copied = Content(seen[r].from)
    BY <1>0, <1>c DEF ViewType
  <2>2. seen' = [seen EXCEPT ![r] = v] BY <1>0, <1>4 DEF ReadWav
  <2>3. pc[r] = "read" /\ pc'[r] = "done" BY <1>0, <1>4 DEF ReadWav, At, To
  <2> HIDE DEF v
  <2> QED BY <1>0, <2>1, <2>2, <2>3
<1>5. CASE ReaderUnlock(r)
  <2>1. seen' = seen /\ pc[r] = "done" /\ pc'[r] = "send" BY <1>0, <1>5 DEF ReaderUnlock, At, To
  <2> QED BY <1>0, <2>1
<1>6. CASE ReaderSend(r) BY <1>0, <1>6, <1>z DEF ReaderSend, At, To
<1> QED BY <1>1, <1>2, <1>3, <1>4, <1>5, <1>6 DEF ReaderStep

LEMMA ReaderTyped == ASSUME VoiceType, NEW r \in Readers, ReaderStep(r) PROVE VoiceType'
<1>0. Departs(r) /\ UNCHANGED <<tr, out>> /\ r \in Requests /\ seen' \in [Readers -> ViewType]
  BY ReaderLeaves, ViewIs DEF Requests
<1> SUFFICES /\ gpu' \in Holders /\ mat' \in Holders /\ slot' \in {"free", "train", "step"}
             /\ fresh' \in [Writers -> 0..MaxUploads] /\ ups' \in 0..MaxUploads
  BY <1>0, TypeStays DEF VoiceType
<1>b. /\ gpu \in Holders /\ mat \in Holders /\ slot \in {"free", "train", "step"} /\ r \in Holders /\ "convert" \in Holders /\ "free" \in Holders
      /\ fresh \in [Writers -> 0..MaxUploads] /\ ups \in 0..MaxUploads
  BY <1>0 DEF VoiceType, Holders, Requests, Readers
<1>1. CASE r = "convert" /\ ConvertGpu BY <1>b, <1>1 DEF ConvertGpu, TryGpu
<1>2. CASE ReaderLock(r) BY <1>b, <1>2 DEF ReaderLock, LockToRead, LockMaterial
<1>3. CASE Find(r) BY <1>b, <1>3 DEF Find
<1>4. CASE ReadWav(r) BY <1>b, <1>4 DEF ReadWav
<1>5. CASE ReaderUnlock(r) BY <1>b, <1>5 DEF ReaderUnlock, FreeMaterial
<1>6. CASE ReaderSend(r) BY <1>b, <1>6 DEF ReaderSend, FreeGpu
<1> QED BY <1>1, <1>2, <1>3, <1>4, <1>5, <1>6 DEF ReaderStep

LEMMA PublishTyped == ASSUME VoiceType, PublishStep PROVE VoiceType'
<1>0. Departs("publish") /\ UNCHANGED <<tr, out, seen>> /\ "publish" \in Requests
  BY PublishLeaves DEF Requests
<1> SUFFICES /\ gpu' \in Holders /\ mat' \in Holders /\ slot' \in {"free", "train", "step"}
             /\ fresh' \in [Writers -> 0..MaxUploads] /\ ups' \in 0..MaxUploads
  BY <1>0, TypeStays DEF VoiceType
<1>b. /\ gpu \in Holders /\ mat \in Holders /\ slot \in {"free", "train", "step"} /\ "publish" \in Holders /\ "free" \in Holders
      /\ fresh \in [Writers -> 0..MaxUploads] /\ ups \in 0..MaxUploads
  BY DEF VoiceType, Holders, Requests
<1>1. CASE PublishGpu BY <1>b, <1>1 DEF PublishGpu, TryGpu
<1>2. CASE PublishSlot BY <1>b, <1>2 DEF PublishSlot
<1>3. CASE PublishLock BY <1>b, <1>3 DEF PublishLock, LockMaterial
<1>4. CASE PublishReturn BY <1>b, <1>4 DEF PublishReturn, FreeMaterial, FreeGpu
<1> QED BY <1>1, <1>2, <1>3, <1>4 DEF PublishStep

----------------------------------------
(* The replacements. *)

\* One replacement at a time, and nothing else reads or prepares a step then.
LEMMA SwapAlone ==
    ASSUME HoldsLocks, NEW r \in Replacers, pc[r] = "swap"
    PROVE  /\ mat = r /\ gpu = r
           /\ \A x \in Replacers \ {r} : pc[x] # "swap"
           /\ \A x \in Readers : pc[x] \notin Reading
           /\ r # "step" => pc["step"] \notin {"run", "mark", "lock"}
           /\ r # "train" /\ tr.mode = "plain" => pc["train"] \notin {"decide", "copy"}
<1>0. Replacers \subseteq Requests /\ Readers \subseteq Requests /\ "step" \in Requests /\ "train" \in Requests
  BY DEF Replacers, Readers, Requests
<1>1. mat = r /\ gpu = r BY <1>0 DEF HoldsLocks, LocksOf, Swapping, Replacers
<1>2. \A x \in Replacers \ {r} : pc[x] # "swap" BY <1>0, <1>1 DEF HoldsLocks, LocksOf, Swapping
<1>3. \A x \in Readers : pc[x] \notin Reading
  <2>1. r \notin Readers BY DEF Replacers, Readers
  <2> QED BY <1>0, <1>1, <2>1 DEF HoldsLocks, LocksOf
<1>4. r # "step" => pc["step"] \notin {"run", "mark", "lock"} BY <1>0, <1>1 DEF HoldsLocks, LocksOf
<1>5. r # "train" /\ tr.mode = "plain" => pc["train"] \notin {"decide", "copy"}
  BY <1>0, <1>1 DEF HoldsLocks, LocksOf
<1> QED BY <1>1, <1>2, <1>3, <1>4, <1>5

LEMMA FreeIsQuiet ==
    ASSUME HoldsLocks, mat \notin Replacers \/ (gpu = "step" /\ pc["step"] # "swap") PROVE SwapFree
<1>1. ASSUME NEW r \in Replacers, pc[r] = "swap" PROVE FALSE BY <1>1, SwapAlone
<1> QED BY <1>1 DEF SwapFree

\* The renames of one replacement, all done or all undone.
LEMMA WholeAfter ==
    ASSUME VoiceType, HoldsLocks, DiskFits, StagedFits, NEW r \in Replacers, NEW last \in 4..5, (r = "step") <=> (last = 4),
           Replace(r, last), pc'[r] # "swap"
    PROVE  Whole(raw', work', marker')
<1>1. pc[r] = "swap" BY SwapMoves
<1>2. ~SwapFree /\ Whole(old.raw, old.work, old.marker) BY <1>1 DEF SwapFree, DiskFits
<1>3. CASE raw' = old.raw /\ work' = old.work /\ marker' = old.marker BY <1>2, <1>3
<1>4. CASE pos >= last /\ IF r = "step" THEN MoveStep(pos) ELSE MoveMaterial(pos, fresh[r])
  <2>0. pos \in 1..5 BY DEF VoiceType
  <2>1. CASE r = "step"
    <3>1. StepMoved /\ pos = 4 /\ MoveStep(pos) /\ Follows(out.work, old.work) /\ out.marker = out.work.n
      BY <1>1, <1>4, <2>0, <2>1 DEF DiskFits, StagedFits, StepMoved
    <3>2. raw = old.raw /\ work = out.work BY <3>1 DEF StepMoved
    <3>3. raw' = raw /\ work' = work /\ marker' = out.marker BY <3>1 DEF MoveStep
    <3> QED BY <1>2, <3>1, <3>2, <3>3 DEF Whole, Follows
  <2>2. CASE r # "step"
    <3>1. r \in Writers /\ pos = 5 /\ MoveMaterial(pos, fresh[r]) BY <1>4, <2>0, <2>2 DEF Replacers, Writers
    <3>2. MaterialMoved(fresh[r]) BY <1>1, <3>1 DEF DiskFits
    <3>3. raw = fresh[r] /\ marker = 0 BY <3>1, <3>2 DEF MaterialMoved
    <3>4. raw' = raw /\ work' = [gen |-> fresh[r], n |-> 0] /\ marker' = marker BY <3>1 DEF MoveMaterial
    <3> QED BY <3>3, <3>4 DEF Whole
  <2> QED BY <2>1, <2>2
<1>5. pc' # pc BY <1>1
<1> QED BY <1>3, <1>4, <1>5, SwapMoves

\* One rename further.
LEMMA MovedFurther ==
    ASSUME VoiceType, DiskFits, NEW r \in Replacers, NEW last \in 4..5, (r = "step") <=> (last = 4),
           Replace(r, last), pc'[r] = "swap"
    PROVE  /\ pc' = pc /\ old' = old
           /\ r \in Writers => MaterialMoved(fresh[r])'
           /\ r = "step" => StepMoved'
<1>1. /\ pc[r] = "swap" /\ pc' = pc /\ old' = old /\ pos' = pos + 1 /\ pos < last /\ UNCHANGED <<out, fresh>>
      /\ IF r = "step" THEN MoveStep(pos) ELSE MoveMaterial(pos, fresh[r])
  BY SwapMoves
<1>2. pos \in 1..5 BY DEF VoiceType
<1>3. ASSUME r \in Writers PROVE MaterialMoved(fresh[r])'
  <2>1. MaterialMoved(fresh[r]) /\ MoveMaterial(pos, fresh[r]) /\ pos \in 1..4
    BY <1>1, <1>2, <1>3 DEF DiskFits, Writers
  <2>2. raw' = (IF pos' = 1 THEN old.raw ELSE IF pos' = 5 THEN fresh[r] ELSE 0)
    BY <1>1, <2>1 DEF MaterialMoved, MoveMaterial
  <2>3. work' = (IF pos' < 3 THEN old.work ELSE NoWork) BY <1>1, <2>1 DEF MaterialMoved, MoveMaterial
  <2>4. marker' = (IF pos' < 4 THEN old.marker ELSE 0) BY <1>1, <2>1 DEF MaterialMoved, MoveMaterial
  <2> QED BY <1>1, <2>2, <2>3, <2>4 DEF MaterialMoved
<1>4. ASSUME r = "step" PROVE StepMoved'
  <2>1. StepMoved /\ MoveStep(pos) /\ pos \in 1..3 BY <1>1, <1>2, <1>4 DEF DiskFits
  <2>2. raw' = old.raw BY <2>1 DEF StepMoved, MoveStep
  <2>3. work' = (IF pos' = 1 THEN old.work ELSE IF pos' = 4 THEN out.work ELSE NoWork)
    BY <1>1, <2>1 DEF StepMoved, MoveStep
  <2>4. marker' = (IF pos' < 3 THEN old.marker ELSE 0) BY <1>1, <2>1 DEF StepMoved, MoveStep
  <2>5. pos' < 5 BY <1>1, <2>1
  <2> QED BY <1>1, <2>2, <2>3, <2>4, <2>5 DEF StepMoved
<1> QED BY <1>1, <1>3, <1>4

LEMMA DiskAfterReplace ==
    ASSUME VoiceType, HoldsLocks, DiskFits, StagedFits, NEW r \in Replacers, NEW last \in 4..5, (r = "step") <=> (last = 4),
           Replace(r, last)
    PROVE  DiskFits'
<1>1. pc[r] = "swap" /\ OnlyPc(r) /\ fresh' = fresh /\ out' = out /\ (\A x \in Replacers \ {r} : pc[x] # "swap")
  BY SwapMoves, SwapAlone
<1>0. Replacers \subseteq Requests /\ Writers \subseteq Replacers /\ "step" \in Replacers
  BY DEF Replacers, Writers, Requests
<1>2. \A x \in Replacers \ {r} : pc'[x] # "swap" BY <1>0, <1>1 DEF OnlyPc
<1>3. CASE pc'[r] = "swap"
  <2>1. pc' = pc /\ old' = old /\ (r \in Writers => MaterialMoved(fresh[r])') /\ (r = "step" => StepMoved')
    BY <1>3, MovedFurther
  <2>2. ~SwapFree /\ ~SwapFree' /\ Whole(old.raw, old.work, old.marker)
    BY <1>1, <1>3, <2>1 DEF SwapFree, DiskFits
  <2>3. \A x \in Writers : pc'[x] = "swap" => x = r BY <1>0, <1>2
  <2>4. pc'["step"] = "swap" => r = "step" BY <1>0, <1>2
  <2> QED BY <2>1, <2>2, <2>3, <2>4 DEF DiskFits
<1>4. CASE pc'[r] # "swap"
  <2>1. \A x \in Replacers : pc'[x] # "swap" BY <1>2, <1>4
  <2>2. Whole(raw', work', marker') BY <1>4, WholeAfter
  <2>3. pos' = 1 BY <1>1, <1>4, SwapMoves
  <2> QED BY <1>0, <2>1, <2>2, <2>3 DEF DiskFits, SwapFree
<1> QED BY <1>3, <1>4

LEMMA DiskAfterLock ==
    ASSUME HoldsLocks, DiskFits, NEW r \in Replacers, LockToReplace(r), VoiceType
    PROVE  DiskFits'
<1>1. /\ OnlyPc(r) /\ pc[r] = "lock" /\ pc'[r] = "swap" /\ mat = "free" /\ pos' = 1
      /\ old' = [raw |-> raw, work |-> work, marker |-> marker] /\ UNCHANGED <<raw, work, marker>>
  BY ReplacerLocks
<1>2. "free" \notin Replacers BY DEF Replacers
<1>3. SwapFree /\ Whole(raw, work, marker) BY <1>1, <1>2, FreeIsQuiet DEF DiskFits
<1>4. Whole(old'.raw, old'.work, old'.marker) BY <1>1, <1>3
<1>5. \A g : MaterialMoved(g)' BY <1>1 DEF MaterialMoved
<1>6. StepMoved' BY <1>1 DEF StepMoved
<1>7. ~SwapFree' BY <1>1 DEF SwapFree
<1> QED BY <1>4, <1>5, <1>6, <1>7 DEF DiskFits

LEMMA DiskAfterCancel == ASSUME VoiceType, HoldsLocks, DiskFits, CancelCommit PROVE DiskFits'
<1>0. Replacers \subseteq Requests /\ Writers \subseteq Replacers /\ "step" \in Replacers /\ "train" \in Writers
  BY DEF Replacers, Writers, Requests
<1>1. pc["train"] = "swap" /\ pos = 1 /\ UNCHANGED <<raw, work, marker, pos>> /\ pc' = [pc EXCEPT !["train"] = "failed"] /\ pc \in [Requests -> Places]
  BY DEF CancelCommit, At, To, disk, VoiceType
<1>2. MaterialMoved(fresh["train"]) /\ Whole(old.raw, old.work, old.marker)
  BY <1>0, <1>1 DEF DiskFits, SwapFree
<1>3. raw = old.raw /\ work = old.work /\ marker = old.marker BY <1>1, <1>2 DEF MaterialMoved
<1>4. \A x \in Replacers : pc'[x] # "swap" BY <1>0, <1>1, SwapAlone
<1> QED BY <1>0, <1>1, <1>2, <1>3, <1>4 DEF DiskFits, SwapFree

LEMMA DiskStays ==
    ASSUME DiskFits, NEW r \in Requests, Departs(r), pc["step"] = "swap" => out' = out
    PROVE  DiskFits'
<1>0. Replacers \subseteq Requests /\ Writers \subseteq Replacers /\ "step" \in Replacers
  BY DEF Replacers, Writers, Requests
<1>1. \A x \in Replacers : pc'[x] = "swap" <=> pc[x] = "swap" BY <1>0 DEF Departs, OnlyPc
<1>2. UNCHANGED <<raw, work, marker, old, pos>> BY DEF Departs
<1>3. ASSUME NEW x \in Writers, pc'[x] = "swap" PROVE MaterialMoved(fresh[x])'
  <2>1. fresh'[x] = fresh[x] /\ MaterialMoved(fresh[x]) BY <1>0, <1>1, <1>3 DEF Departs, DiskFits
  <2> QED BY <1>2, <2>1 DEF MaterialMoved
<1>4. ASSUME pc'["step"] = "swap" PROVE StepMoved'
  <2>1. StepMoved /\ out' = out BY <1>0, <1>1, <1>4 DEF DiskFits
  <2> QED BY <1>2, <2>1 DEF StepMoved
<1>5. SwapFree' <=> SwapFree BY <1>1 DEF SwapFree
<1> QED BY <1>2, <1>3, <1>4, <1>5 DEF DiskFits

\* A step of one request: the directory left alone, or one of the replacements.
LEMMA VoiceStepIs ==
    ASSUME VoiceType, Next
    PROVE  \/ \E r \in Replacers : LockToReplace(r)
           \/ \E r \in Replacers, last \in 4..5 : (r = "step" <=> last = 4) /\ Replace(r, last)
           \/ CancelCommit
           \/ CliStep /\ Departs("step") /\ tr' = tr /\ seen' = seen
           \/ TrainingStep /\ Departs("train") /\ out' = out /\ seen' = seen
           \/ \E r \in Readers : ReaderStep(r) /\ Departs(r) /\ tr' = tr /\ out' = out
           \/ \E r \in Requests \ {"step", "train"} : Departs(r) /\ r \notin Readers /\ UNCHANGED <<tr, out, seen>>
<1>1. "upload" \in Requests \ {"step", "train"} /\ "publish" \in Requests \ {"step", "train"} /\ "upload" \notin Readers /\ "publish" \notin Readers
  BY DEF Requests, Readers
<1>2. ASSUME NEW r \in Writers, Replace(r, 5)
      PROVE  \E s \in Replacers, last \in 4..5 : (s = "step" <=> last = 4) /\ Replace(s, last)
  <2>1. r \in Replacers /\ r # "step" /\ 5 \in 4..5 /\ 5 # 4 BY DEF Writers, Replacers
  <2> QED BY <1>2, <2>1
<1>3. ASSUME Replace("step", 4)
      PROVE  \E s \in Replacers, last \in 4..5 : (s = "step" <=> last = 4) /\ Replace(s, last)
  <2>1. "step" \in Replacers /\ 4 \in 4..5 BY DEF Replacers
  <2> QED BY <1>3, <2>1
<1> QED BY <1>1, <1>2, <1>3, EveryVoiceStep, UploadLeaves, TrainingLeaves, CliLeaves, ReaderLeaves, PublishLeaves

LEMMA DiskHolds == ASSUME VoiceType, HoldsLocks, DiskFits, StagedFits, [Next]_vars PROVE DiskFits'
<1>0. CASE UNCHANGED vars BY <1>0 DEF vars, DiskFits, SwapFree, MaterialMoved, StepMoved
<1>1. CASE Next
  <2>0. Readers \subseteq Requests /\ "step" \in Requests /\ "train" \in Requests BY DEF Readers, Requests
  <2>1. ASSUME NEW r \in Replacers, LockToReplace(r) PROVE DiskFits' BY <2>1, DiskAfterLock
  <2>2. ASSUME NEW r \in Replacers, NEW last \in 4..5, r = "step" <=> last = 4, Replace(r, last) PROVE DiskFits'
    BY <2>2, DiskAfterReplace
  <2>3. CASE CancelCommit BY <2>3, DiskAfterCancel
  <2>4. CASE CliStep /\ Departs("step")
    <3>1. pc["step"] # "swap" BY <2>4 DEF Departs, Replacers
    <3> QED BY <2>0, <2>4, <3>1, DiskStays
  <2>5. ASSUME NEW r \in Requests, Departs(r), out' = out PROVE DiskFits' BY <2>5, DiskStays
  <2> QED BY <1>1, <2>0, <2>1, <2>2, <2>3, <2>4, <2>5, VoiceStepIs
<1> QED BY <1>0, <1>1

LEMMA SwapTyped ==
    ASSUME VoiceType, StagedFits, NEW r \in Replacers, NEW last \in 4..5, (r = "step") <=> (last = 4),
           Replace(r, last)
    PROVE  VoiceType'
<1>1. OnlyPc(r) /\ pc[r] = "swap" /\ UNCHANGED <<gpu, mat, slot, fresh, ups, tr, out, seen>> BY SwapMoves
<1>a. 0 \in 0..MaxUploads /\ 0 \in 0..MaxHistory BY MaterialAssumption
<1>b. NoWork \in WorkType /\ NoBackup \in DiskType /\ old \in DiskType /\ raw \in 0..MaxUploads /\ work \in WorkType /\ marker \in 0..MaxHistory
  BY <1>a DEF NoWork, WorkType, NoBackup, DiskType, VoiceType
<1>2. raw' \in 0..MaxUploads /\ work' \in WorkType /\ marker' \in 0..MaxHistory
  <2>1. CASE raw' = old.raw /\ work' = old.work /\ marker' = old.marker BY <1>b, <2>1 DEF DiskType
  <2>2. CASE r = "step" /\ MoveStep(pos)
    <3>1. out \in OutputType /\ Follows(out.work, old.work) /\ out.marker = out.work.n
      BY <1>1, <2>2 DEF StagedFits, VoiceType
    <3>2. out.marker \in 0..MaxHistory /\ out.work \in WorkType BY <3>1 DEF OutputType, WorkType
    <3> QED BY <1>a, <1>b, <2>2, <3>2 DEF MoveStep
  <2>3. CASE r # "step" /\ MoveMaterial(pos, fresh[r])
    <3>1. fresh[r] \in 0..MaxUploads BY <2>3 DEF VoiceType, Replacers, Writers
    <3>2. [gen |-> fresh[r], n |-> 0] \in WorkType BY <1>a, <3>1 DEF WorkType
    <3> QED BY <1>a, <1>b, <2>3, <3>1, <3>2 DEF MoveMaterial
  <2> QED BY <2>1, <2>2, <2>3, SwapMoves
<1>3. pos' \in 1..5 /\ old' \in DiskType
  <2>1. pos \in 1..5 /\ (pos < last => pos + 1 \in 1..5) /\ 1 \in 1..5 BY DEF VoiceType
  <2> QED BY <1>b, <2>1, SwapMoves
<1> QED BY <1>1, <1>2, <1>3 DEF VoiceType, OnlyPc

LEMMA TypeHolds == ASSUME VoiceType, StagedFits, [Next]_vars PROVE VoiceType'
<1>0. CASE UNCHANGED vars
  BY <1>0 DEF vars, VoiceType, DiskType, InputType, OutputType, ViewType, WorkType, Holders
<1>1. ASSUME NEW r \in Replacers, LockToReplace(r) PROVE VoiceType'
  <2>1. r \in Holders BY DEF Holders, Requests, Replacers
  <2>2. OnlyPc(r) /\ mat' = r /\ UNCHANGED <<raw, work, marker, gpu, slot, fresh, ups, tr, out, seen>> /\ pos' = 1
        /\ old' = [raw |-> raw, work |-> work, marker |-> marker]
    BY <1>1, ReplacerLocks
  <2>3. old' \in DiskType BY <2>2 DEF DiskType, VoiceType
  <2>4. pos' \in 1..5 BY <2>2
  <2> QED BY <2>1, <2>2, <2>3, <2>4 DEF VoiceType, OnlyPc
<1>2. CASE CancelCommit
  <2>1. 0 \in 0..MaxUploads /\ 0 \in 0..MaxHistory BY MaterialAssumption
  <2>2. NoBackup \in DiskType BY <2>1 DEF NoBackup, NoWork, WorkType, DiskType
  <2>3. old' = NoBackup /\ UNCHANGED <<raw, work, marker, gpu, mat, slot, pos, fresh, ups, tr, out, seen>>
    BY <1>2 DEF CancelCommit, disk
  <2>4. pc' \in [Requests -> Places] BY <1>2 DEF CancelCommit, To, VoiceType, Places
  <2> QED BY <2>2, <2>3, <2>4 DEF VoiceType
<1>3. ASSUME NEW r \in Replacers, NEW last \in 4..5, r = "step" <=> last = 4, Replace(r, last) PROVE VoiceType'
  BY <1>3, SwapTyped
<1>4. CASE Next
  BY <1>1, <1>2, <1>3, <1>4, EveryVoiceStep, UploadTyped, TrainingTyped, CliTyped, ReaderTyped, PublishTyped DEF Writers, Replacers
<1> QED BY <1>0, <1>4

----------------------------------------
(* The staged step, the readers and the training input. *)

LEMMA StagedHolds == ASSUME VoiceType, HoldsLocks, DiskFits, StagedFits, [Next]_vars PROVE StagedFits'
<1>0. CASE UNCHANGED vars BY <1>0 DEF vars, StagedFits
<1>s. "step" \in Requests /\ "step" \in Replacers /\ Replacers \subseteq Requests BY DEF Requests, Replacers
<1>1. ASSUME NEW r \in Replacers, LockToReplace(r) PROVE StagedFits'
  <2>1. /\ OnlyPc(r) /\ pc[r] = "lock" /\ pc'[r] = "swap" /\ mat = "free" /\ UNCHANGED <<raw, work, marker, out>>
        /\ old' = [raw |-> raw, work |-> work, marker |-> marker]
    BY <1>1, ReplacerLocks
  <2>2. "free" \notin Replacers BY DEF Replacers
  <2>3. pc["step"] # "swap" BY <1>s, <2>1, <2>2, FreeIsQuiet DEF SwapFree
  <2>4. r = "step" \/ pc'["step"] = pc["step"] BY <1>s, <2>1 DEF OnlyPc
  <2> QED BY <2>1, <2>3, <2>4 DEF StagedFits
<1>2. ASSUME NEW r \in Replacers, NEW last \in 4..5, Replace(r, last) PROVE StagedFits'
  <2>1. OnlyPc(r) /\ pc[r] = "swap" /\ out' = out BY <1>2, SwapMoves
  <2>2. CASE r = "step"
    <3>1. pc'["step"] = "swap" => old' = old BY <1>2, <2>2, SwapMoves
    <3>2. pc'["step"] \in {"swap", "committed", "failed"} BY <1>2, <2>1, <2>2, SwapMoves
    <3> QED BY <2>1, <2>2, <3>1, <3>2 DEF StagedFits
  <2>3. CASE r # "step" BY <1>s, <2>1, <2>3, SwapAlone DEF OnlyPc, StagedFits
  <2> QED BY <2>2, <2>3
<1>3. CASE CancelCommit
  <2>1. "train" \in Replacers /\ "train" \in Requests BY DEF Replacers, Requests
  <2>2. pc["train"] = "swap" /\ pc'["step"] = pc["step"]
    BY <1>s, <1>3, <2>1 DEF CancelCommit, At, To, VoiceType
  <2>3. pc["step"] \notin {"mark", "lock", "swap"} BY <1>s, <2>1, <2>2, SwapAlone
  <2> QED BY <2>2, <2>3 DEF StagedFits
<1>4. CASE CliStep /\ Departs("step")
  <2>0. UNCHANGED <<raw, work, marker, old>> /\ pc'["step"] # "swap" /\ pc["step"] # "swap"
    BY <1>4, <1>s DEF Departs
  <2> USE DEF To, At, VoiceType
  <2>1. CASE ReserveStep BY <1>s, <2>0, <2>1 DEF ReserveStep, StagedFits
  <2>2. CASE StepGpu BY <1>s, <2>0, <2>2 DEF StepGpu, TryGpu, StagedFits
  <2>3. CASE RunStep BY <2>0, <2>3, RunIs DEF StagedFits, Follows
  <2>4. CASE MarkStep
    <3>1. pc["step"] = "mark" BY <2>4 DEF MarkStep
    <3>2. gpu = "step" BY <1>s, <3>1 DEF HoldsLocks, LocksOf
    <3>3. SwapFree BY <2>0, <3>2, FreeIsQuiet
    <3>4. marker = work.n /\ Follows(out.work, work) BY <3>1, <3>3 DEF DiskFits, Whole, StagedFits
    <3> QED BY <2>0, <2>4, <3>1, <3>4, MarkIs DEF StagedFits, Follows
  <2>5. CASE StepUnlock BY <1>s, <2>0, <2>5 DEF StepUnlock, StagedFits
  <2>6. CASE FinishStep BY <1>s, <2>0, <2>6 DEF FinishStep, StagedFits
  <2>7. CASE StepReturn BY <1>s, <2>0, <2>7 DEF StepReturn, StagedFits
  <2> QED BY <1>4, <2>1, <2>2, <2>3, <2>4, <2>5, <2>6, <2>7 DEF CliStep
<1>5. ASSUME NEW r \in Requests \ {"step"}, Departs(r), out' = out PROVE StagedFits'
  <2>1. pc'["step"] = pc["step"] /\ UNCHANGED <<work, old, out>> BY <1>s, <1>5 DEF Departs, OnlyPc
  <2> QED BY <2>1 DEF StagedFits
<1>6. CASE Next
  <2>1. "train" \in Requests \ {"step"} /\ Readers \subseteq Requests \ {"step"} BY DEF Requests, Readers
  <2> QED BY <1>1, <1>2, <1>3, <1>4, <1>5, <1>6, <2>1, VoiceStepIs
<1> QED BY <1>0, <1>6

\* The part of the readers' layer that concerns one of them.
ReaderFits(r) ==
    /\ pc[r] \in {"idle", "lock", "find"} => seen[r].found = NoWork /\ seen[r].copied = NoWork
    /\ pc[r] = "read" => seen[r].found = Content(seen[r].from)
    /\ pc[r] \in {"done", "send"} => seen[r].copied = seen[r].found
    /\ pc[r] = "done" /\ seen[r].found.gen = 0 => raw = 0 /\ work.gen = 0

LEMMA ReadersHold == ASSUME VoiceType, HoldsLocks, DiskFits, ReadersFit, [Next]_vars PROVE ReadersFit'
<1>0. CASE UNCHANGED vars BY <1>0 DEF vars, ReadersFit, Content
<1>s. Readers \subseteq Requests /\ Replacers \subseteq Requests /\ Readers \cap Replacers = {}
  BY DEF Requests, Replacers, Readers
<1>f. (\A x \in Readers : ReaderFits(x)) /\ ((\A x \in Readers : ReaderFits(x)') => ReadersFit')
  BY DEF ReadersFit, ReaderFits
\* One reader left alone in the directory it reads.
<1>1. ASSUME NEW x \in Readers, pc'[x] = pc[x], seen'[x] = seen[x],
             pc[x] \notin Reading \/ UNCHANGED <<raw, work>>
      PROVE  ReaderFits(x)'
  <2>1. CASE UNCHANGED <<raw, work>> BY <1>1, <1>f, <2>1 DEF ReaderFits, Content
  <2>2. CASE pc[x] \notin Reading BY <1>1, <1>f, <2>2 DEF ReaderFits, Reading
  <2> QED BY <1>1, <2>1, <2>2
<1>2. ASSUME NEW r \in Replacers, NEW last \in 4..5, Replace(r, last) PROVE ReadersFit'
  <2>1. OnlyPc(r) /\ pc[r] = "swap" /\ seen' = seen BY <1>2, SwapMoves
  <2>2. \A x \in Readers : pc[x] \notin Reading /\ pc'[x] = pc[x] BY <1>s, <2>1, SwapAlone DEF OnlyPc
  <2> QED BY <1>1, <1>f, <2>1, <2>2
<1>3. ASSUME NEW r \in Requests \ Readers, OnlyPc(r), UNCHANGED <<raw, work, seen>> PROVE ReadersFit'
  <2>1. \A x \in Readers : pc'[x] = pc[x] BY <1>s, <1>3 DEF OnlyPc
  <2> QED BY <1>1, <1>f, <1>3, <2>1
<1>4. ASSUME NEW r \in Readers, ReaderStep(r), Departs(r) PROVE ReadersFit'
  <2>0. UNCHANGED <<raw, work>> /\ OnlyPc(r) BY <1>4 DEF Departs
  <2>1. \A x \in Readers \ {r} : ReaderFits(x)' BY <1>1, <1>4, <1>s, <2>0, ViewIs DEF OnlyPc
  <2>2. ReaderFits(r) BY <1>f
  <2>c. Content(seen[r].from) \in WorkType /\ NoView.found = NoWork /\ NoView.copied = NoWork
    BY ContentTyped DEF NoView
  <2>3. pc[r] \in Reading => Whole(raw, work, marker)
    <3>1. mat = r => SwapFree BY <1>s, FreeIsQuiet
    <3> QED BY <1>s, <3>1 DEF HoldsLocks, LocksOf, DiskFits
  <2>4. pc[r] \in Reading /\ Content(seen[r].from).gen = 0 => Content(seen[r].from) = NoWork /\ raw = 0 /\ work.gen = 0
    BY <2>3, <2>c DEF Whole, Content, WorkType, NoWork, VoiceType
  <2>5. ReaderFits(r)'
    <3>1. CASE pc'[r] \in {"lock", "send"} /\ pc[r] = "idle" /\ seen'[r].found = seen[r].found /\ seen'[r].copied = seen[r].copied
      BY <2>2, <3>1 DEF ReaderFits
    <3>2. CASE seen' = seen /\ pc[r] \in {"idle", "lock"} /\ pc'[r] = "find" BY <2>2, <3>2 DEF ReaderFits
    <3>3. CASE seen' = seen /\ pc[r] = "done" /\ pc'[r] = "send" BY <2>2, <3>3 DEF ReaderFits
    <3>4. CASE /\ pc[r] = "find" /\ seen'[r].from = seen[r].from
               /\ seen'[r].found = Content(seen[r].from) /\ seen'[r].copied = NoWork
               /\ pc'[r] = (IF Content(seen[r].from).gen = 0 THEN "done" ELSE "read")
      <4>1. Content(seen[r].from)' = Content(seen[r].from) BY <2>0, <3>4 DEF Content
      <4> QED BY <2>0, <2>4, <3>4, <4>1 DEF ReaderFits, Reading
    <3>5. CASE /\ pc[r] = "read" /\ seen'[r].from = seen[r].from
               /\ seen'[r].found = seen[r].found /\ seen'[r].copied = Content(seen[r].from) /\ pc'[r] = "done"
      BY <2>0, <2>2, <2>4, <3>5 DEF ReaderFits, Reading
    <3>6. CASE pc[r] = "send" /\ seen'[r] = NoView /\ pc'[r] = "idle" BY <2>c, <3>6 DEF ReaderFits
    <3> QED BY <1>4, <3>1, <3>2, <3>3, <3>4, <3>5, <3>6, ViewIs
  <2> QED BY <1>f, <2>1, <2>5
<1>5. CASE Next
  <2>0. Requests \ {"step", "train"} \subseteq Requests /\ "step" \in Requests \ Readers /\ "train" \in Requests \ Readers
    BY DEF Requests, Readers
  <2>1. ASSUME NEW r \in Replacers, LockToReplace(r) PROVE ReadersFit' BY <1>s, <2>1, ReplacerLocks, <1>3
  <2>2. CASE CancelCommit BY <2>2, <2>0, <1>3 DEF CancelCommit, To, OnlyPc, VoiceType, disk, Places
  <2>3. ASSUME NEW r \in Requests \ Readers, Departs(r), seen' = seen PROVE ReadersFit'
    BY <1>3, <2>3 DEF Departs
  <2> QED BY <1>2, <1>4, <1>5, <2>0, <2>1, <2>2, <2>3, VoiceStepIs
<1> QED BY <1>0, <1>5

LEMMA InputsHold == ASSUME VoiceType, HoldsLocks, DiskFits, InputsFit, [Next]_vars PROVE InputsFit'
<1>0. CASE UNCHANGED vars BY <1>0 DEF vars, InputsFit, OneInput, Preprocessed, Content
<1>s. "train" \in Requests /\ "train" \in Replacers /\ Replacers \subseteq Requests /\ Readers \subseteq Requests \ {"train"}
  BY DEF Requests, Replacers, Readers
<1>1. ASSUME pc'["train"] = pc["train"], tr' = tr, UNCHANGED <<raw, work, marker>> PROVE InputsFit'
  BY <1>1 DEF InputsFit, OneInput, Preprocessed, Content
<1>2. ASSUME NEW r \in Replacers, NEW last \in 4..5, Replace(r, last) PROVE InputsFit'
  <2>1. OnlyPc(r) /\ pc[r] = "swap" /\ tr' = tr BY <1>2, SwapMoves
  <2>3. tr.mode = "plain" => pc'["train"] # "copy" BY <1>2, <1>s, <2>1, SwapAlone, SwapMoves DEF OnlyPc
  <2>4. pc'["train"] \notin {"copy", "return"} => tr.got = {}
    <3>1. CASE r = "train" BY <2>1, <3>1 DEF InputsFit
    <3>2. CASE r # "train" BY <1>s, <2>1, <3>2 DEF InputsFit, OnlyPc
    <3> QED BY <3>1, <3>2
  <2> QED BY <2>1, <2>3, <2>4 DEF InputsFit, OneInput
<1>3. ASSUME NEW r \in Replacers, LockToReplace(r) PROVE InputsFit'
  <2>1. OnlyPc(r) /\ pc[r] = "lock" /\ pc'[r] = "swap" /\ UNCHANGED <<raw, work, marker, tr>>
    BY <1>3, ReplacerLocks
  <2>2. CASE r # "train" BY <1>1, <1>s, <2>1, <2>2 DEF OnlyPc
  <2>3. CASE r = "train" BY <2>1, <2>3 DEF InputsFit, OneInput
  <2> QED BY <2>2, <2>3
<1>4. CASE CancelCommit BY <1>4, <1>s DEF CancelCommit, At, To, VoiceType, InputsFit, OneInput
<1>5. CASE TrainingStep /\ Departs("train")
  <2>0. UNCHANGED <<raw, work, marker>> /\ pc \in [Requests -> Places] /\ tr \in InputType
    BY <1>5 DEF Departs, VoiceType
  \* The training request outside its copying.
  <2>a. ASSUME pc'["train"] # "copy", pc["train"] \notin {"copy", "return"}, tr' = tr PROVE InputsFit'
    BY <2>a DEF InputsFit, OneInput
  <2>1. ASSUME NEW mode \in {"plain", "full"}, StageTraining(mode) PROVE InputsFit'
    <3>1. pc'["train"] = "reserve" /\ tr'.got = {} BY <1>s, <2>0, <2>1 DEF StageTraining, NoInput, To
    <3> QED BY <3>1 DEF InputsFit, OneInput
  <2>2. CASE ReserveTraining BY <1>s, <2>0, <2>2, <2>a DEF ReserveTraining, At, To
  <2>3. CASE TrainingGpu BY <1>s, <2>0, <2>3, <2>a DEF TrainingGpu, TryGpu, At, To
  <2>4. CASE TrainingUnlock BY <1>s, <2>0, <2>4, <2>a DEF TrainingUnlock, At, To
  <2>5. CASE HandOff BY <1>s, <2>0, <2>5, <2>a DEF HandOff, At, To
  <2>6. CASE DecideSource
    <3>1. pc["train"] = "decide" /\ pc'["train"] = "copy" BY <1>s, <2>0, <2>6 DEF DecideSource, At, To
    <3>2. /\ tr'.mode = tr.mode /\ (tr'.flag <=> Preprocessed) /\ tr'.src = (IF Preprocessed THEN "work" ELSE "raw")
          /\ tr'.got = tr.got
      BY <2>0, <2>6 DEF DecideSource, InputType
    <3>3. tr.got = {} BY <3>1 DEF InputsFit
    <3>4. Preprocessed' <=> Preprocessed BY <2>0 DEF Preprocessed
    <3> QED BY <3>1, <3>2, <3>3, <3>4 DEF InputsFit, OneInput
  <2>7. CASE CopyClip
    <3>0. pc["train"] = "copy" BY <2>7 DEF CopyClip, At
    <3>1. CASE tr' = tr /\ pc'["train"] = "return" BY <3>0, <3>1 DEF InputsFit, OneInput
    <3>2. CASE tr' = CopiedInput /\ pc' = pc
      <4> DEFINE c == Content(tr.src)
      <4>1. tr'.mode = tr.mode /\ tr'.flag = tr.flag /\ tr'.src = tr.src /\ tr'.got = tr.got \cup {c}
        BY <2>0, <3>2 DEF CopiedInput, InputType
      <4>2. c.gen # 0 /\ (tr.src = "raw" => c.n = 0) /\ (tr.src = "work" => c = work)
        <5>1. Content(tr.src).gen # 0 BY <1>s, <2>0, <2>7, <3>0, <3>2 DEF CopyClip, To
        <5> QED BY <5>1 DEF Content
      <4>3. Content(tr.src)' = c /\ (Preprocessed' <=> Preprocessed)
        <5>1. tr.src' = tr.src BY <4>1
        <5> QED BY <2>0, <5>1 DEF Content, Preprocessed
      <4>4. ASSUME tr.mode = "plain" PROVE (tr.flag <=> Preprocessed) /\ tr.src = (IF tr.flag THEN "work" ELSE "raw") /\ tr.got \subseteq {c}
        BY <3>0, <4>4 DEF InputsFit
      <4>5. ASSUME tr.mode = "plain" PROVE tr.flag <=> c.n > 0
        <5>1. ASSUME NEW r \in Replacers, pc[r] = "swap" PROVE FALSE BY <1>s, <3>0, <4>5, <5>1, SwapAlone
        <5>2. marker = work.n BY <5>1 DEF SwapFree, DiskFits, Whole
        <5> QED BY <4>2, <4>4, <4>5, <5>2 DEF Preprocessed
      <4> QED BY <3>0, <3>2, <4>1, <4>3, <4>4, <4>5 DEF InputsFit, OneInput
    <3> QED BY <2>7, <3>1, <3>2, CopyIs
  <2>8. CASE TrainingReturn
    <3>1. pc'["train"] = "idle" /\ tr'.got = {} BY <1>s, <2>0, <2>8 DEF TrainingReturn, NoInput, To
    <3> QED BY <3>1 DEF InputsFit, OneInput
  <2> QED BY <1>5, <2>1, <2>2, <2>3, <2>4, <2>5, <2>6, <2>7, <2>8 DEF TrainingStep
<1>6. ASSUME NEW r \in Requests \ {"train"}, Departs(r), tr' = tr PROVE InputsFit'
  <2>1. pc'["train"] = pc["train"] /\ UNCHANGED <<raw, work, marker>> BY <1>s, <1>6 DEF Departs, OnlyPc
  <2> QED BY <1>1, <1>6, <2>1
<1>7. CASE Next
  <2>1. "step" \in Requests \ {"train"} BY DEF Requests
  <2> QED BY <1>2, <1>3, <1>4, <1>5, <1>6, <1>7, <1>s, <2>1, VoiceStepIs
<1> QED BY <1>0, <1>7

LEMMA VoiceInvHolds == Init /\ [][Next]_vars => []VoiceInv
<1>1. VoiceInv /\ [Next]_vars => VoiceInv'
  BY TypeHolds, LocksHold, DiskHolds, StagedHolds, ReadersHold, InputsHold DEF VoiceInv
<1> QED BY VoiceBegins, <1>1, PTL

LEMMA VoiceIsWhole == VoiceInv => MaterialIsWhole
<1> SUFFICES ASSUME VoiceInv PROVE MaterialIsWhole OBVIOUS
<1>1. TypeOK BY DEF VoiceInv, VoiceType, TypeOK, DiskType, InputType, OutputType, ViewType, Places, Writers
<1>2. MarkerIsTrue
  <2>1. ASSUME mat = "free" PROVE SwapFree BY <2>1, FreeIsQuiet DEF VoiceInv, Replacers
  <2> QED BY <2>1 DEF VoiceInv, DiskFits, Whole, MarkerIsTrue
<1>3. PreviewIsWhole BY DEF VoiceInv, ReadersFit, PreviewIsWhole
<1>4. ASSUME tr.mode = "plain" PROVE InputFits
  <2>1. OneInput BY <1>4 DEF VoiceInv, InputsFit
  <2>2. Cardinality(tr.got) <= 1
    <3>1. CASE tr.got = {} BY <3>1, FS_EmptySet
    <3>2. ASSUME NEW c \in tr.got PROVE Cardinality(tr.got) <= 1
      <4>1. tr.got = {c} BY <2>1, <3>2 DEF OneInput
      <4> QED BY <4>1, FS_Singleton, SMTT(30)
    <3> QED BY <3>1, <3>2
  <2> QED BY <2>1, <2>2 DEF InputFits, OneInput
<1> QED BY <1>1, <1>2, <1>3, <1>4 DEF MaterialIsWhole, PlainInputFits

----------------------------------------
(* Children of the service: the invariant. *)

Before == {"idle", "lock", "pipe", "spawn"}
With == {"spawned", "read", "wait"}

CallType == [pc : Before \cup With \cup {"return", "done", "lost"}, got : Nat, thrown : BOOLEAN, io : BOOLEAN,
             end : {"none", "launch", "exec", "success", "failure", "signaled", "wait"}]
ChildType == [is : {"none", "live", "zombie", "gone"}, wrote : Nat, status : {"none", "zero", "nonzero", "signal"}]
PipeType == [lines : Nat, reader : BOOLEAN, writers : SUBSET (Calls \cup {Service})]

RunnerType ==
    /\ leased \subseteq Calls /\ deaths \in Nat
    /\ call \in [Calls -> CallType] /\ child \in [Calls -> ChildType]
    /\ output \in [Calls -> PipeType] /\ lease \in [Calls -> SUBSET (Calls \cup {Service})]

\* Where a call is, and whether its child is there.
ChildFits(r) ==
    /\ call[r].pc \in Before => child[r].is = "none" /\ child[r].wrote = 0
    /\ call[r].pc \in With => child[r].is \in {"live", "zombie"}
    /\ call[r].pc = "return" => child[r].is = "gone" \/ (call[r].end = "wait" /\ child[r].is \in {"live", "zombie"})
    /\ call[r].pc = "done" => child[r].is \in {"none", "gone"}
    /\ call[r].pc = "lost" => child[r].is # "zombie"
    /\ call[r].pc \in {"return", "done"} /\ call[r].end = "success" => child[r].status = "zero"
    /\ child[r].is = "zombie" => child[r].status # "none"
    /\ call[r].pc \notin {"return", "done"} => call[r].end = "none"

\* A descriptor of the pipe or of the lease is held by the service while the
\* call needs it, and by the child while it lives: by nobody else.
HoldersFit(r) ==
    /\ output[r].writers \subseteq {Service, r} /\ lease[r] \subseteq {Service, r}
    /\ r \in output[r].writers => ChildLives(r)
    /\ Service \in output[r].writers <=> call[r].pc \in {"spawn", "spawned"}
    /\ output[r].reader <=> call[r].pc \in {"spawn", "spawned", "read"}
    /\ r \in lease[r] <=> r \in leased /\ ChildLives(r)
    /\ call[r].pc = "lock" => r \in leased
    /\ Service \in lease[r] <=> r \in leased /\ call[r].pc \in {"pipe", "spawn", "spawned", "read", "wait", "return"}

\* Nothing the child wrote is lost on the way to the observer and the log.
LinesFit(r) ==
    /\ call[r].pc \in Before => call[r].got = 0 /\ output[r].lines = 0 /\ ~call[r].thrown /\ ~call[r].io
    /\ call[r].pc \in {"spawned", "read"} /\ ~call[r].thrown /\ ~call[r].io =>
         call[r].got + output[r].lines = child[r].wrote
    /\ call[r].pc \in {"wait", "return"} /\ ~call[r].thrown /\ ~call[r].io => call[r].got = child[r].wrote
    /\ call[r].pc = "done" /\ call[r].end = "success" /\ ~call[r].io => call[r].got = child[r].wrote

\* The lock of the GPU is held through one descriptor.
OneLease == \A r, s \in Calls : r # s => lease[r] = {} \/ lease[s] = {}

CallInv(r) == ChildFits(r) /\ HoldersFit(r) /\ LinesFit(r)
RunnerInv == RunnerType /\ OneLease /\ \A r \in Calls : CallInv(r)
LEMMA RunnerBegins == RunnerInit => RunnerInv
<1> SUFFICES ASSUME RunnerInit PROVE RunnerInv OBVIOUS
<1>1. RunnerType BY DEF RunnerInit, RunnerType, CallType, ChildType, PipeType, NewCall, NoPipe, Before, With
<1>2. OneLease BY DEF RunnerInit, OneLease
<1>3. ASSUME NEW r \in Calls PROVE CallInv(r)
  BY DEF RunnerInit, CallInv, ChildFits, HoldersFit, LinesFit, NewCall, NoPipe, Before, With, ChildLives
<1> QED BY <1>1, <1>2, <1>3 DEF RunnerInv

Local(s) == /\ call'[s] = call[s] /\ child'[s] = child[s]
            /\ output'[s] = output[s] /\ lease'[s] = lease[s]
\* A step that changes the state of one call, or nothing: what is left to show of it.
StepOf(r, c, h, o, l) ==
    /\ call' = [call EXCEPT ![r] = c] /\ child' = [child EXCEPT ![r] = h]
    /\ output' = [output EXCEPT ![r] = o] /\ lease' = [lease EXCEPT ![r] = l]
    /\ leased' = leased /\ deaths' = deaths
    /\ c \in CallType /\ h \in ChildType /\ o \in PipeType /\ l \subseteq Calls \cup {Service}

LEMMA OneCallStep ==
    ASSUME RunnerInv, NEW r \in Calls, NEW c, NEW h, NEW o, NEW l, StepOf(r, c, h, o, l),
           (call'[r] = c /\ child'[r] = h /\ output'[r] = o /\ lease'[r] = l /\ leased' = leased) => CallInv(r)',
           l # {} => lease[r] # {} \/ \A s \in Calls : lease[s] = {}
    PROVE  RunnerInv'
<1>0. RunnerType' /\ leased' = leased BY DEF StepOf, RunnerInv, RunnerType
<1>1. \A s \in Calls \ {r} : Local(s) BY DEF StepOf, RunnerInv, RunnerType, Local
<1>2. call'[r] = c /\ child'[r] = h /\ output'[r] = o /\ lease'[r] = l BY DEF StepOf, RunnerInv, RunnerType
<1>3. ASSUME NEW s \in Calls \ {r} PROVE CallInv(s)'
  <2>1. Local(s) /\ leased' = leased /\ CallInv(s) BY <1>0, <1>1 DEF RunnerInv
  <2> QED BY <2>1 DEF Local, CallInv, ChildFits, HoldersFit, LinesFit, ChildLives
<1>4. OneLease' BY <1>1, <1>2 DEF Local, RunnerInv, OneLease
<1>5. CallInv(r)' BY <1>0, <1>2
<1> QED BY <1>0, <1>3, <1>4, <1>5 DEF RunnerInv

\* A launch that failed at a call whose child has not begun.
LEMMA LaunchFailing ==
    ASSUME RunnerInv, NEW r \in Calls, call[r].pc \in Before, NEW end \in {"launch", "exec"},
           LaunchFails(r, end), UNCHANGED <<leased, child, deaths>>
    PROVE  RunnerInv'
<1> DEFINE c == [call[r] EXCEPT !.pc = "done", !.end = end]
<1>0. CallInv(r) /\ call[r] \in CallType /\ child[r] \in ChildType BY DEF RunnerInv, RunnerType
<1>1. c \in CallType /\ c.pc = "done" /\ c.end = end BY <1>0 DEF CallType
<1>2. StepOf(r, c, child[r], NoPipe, {})
  BY <1>0, <1>1 DEF LaunchFails, StepOf, NoPipe, PipeType, RunnerInv, RunnerType
<1> HIDE DEF c
<1>3. (call'[r] = c /\ child'[r] = child[r] /\ output'[r] = NoPipe /\ lease'[r] = {} /\ leased' = leased) => CallInv(r)'
  BY <1>0, <1>1 DEF CallInv, ChildFits, HoldersFit, LinesFit, ChildLives, NoPipe, Before, With
<1> QED BY <1>2, <1>3, OneCallStep

LEMMA OpenLogKeeps == ASSUME RunnerInv, NEW r \in Calls, OpenLog(r) PROVE RunnerInv'
<1>0. call[r].pc = "idle" /\ CallInv(r) /\ call[r] \in CallType /\ output[r] \in PipeType /\ child[r] \in ChildType
  BY DEF OpenLog, CallAt, RunnerInv, RunnerType
<1>1. CASE LaunchFails(r, "launch") BY <1>0, <1>1, LaunchFailing DEF OpenLog, Before
<1>2. CASE ~LaunchFails(r, "launch")
  <2> DEFINE c == [call[r] EXCEPT !.pc = IF r \in leased THEN "lock" ELSE "pipe"]
  <2>1. /\ c \in CallType /\ c.pc = (IF r \in leased THEN "lock" ELSE "pipe")
        /\ c.got = call[r].got /\ c.thrown = call[r].thrown /\ c.io = call[r].io /\ c.end = call[r].end
    BY <1>0 DEF CallType, Before
  <2>2. StepOf(r, c, child[r], output[r], lease[r])
    BY <1>0, <1>2, <2>1 DEF OpenLog, CallTo, StepOf, RunnerInv, RunnerType
  <2> HIDE DEF c
  <2>3. (call'[r] = c /\ child'[r] = child[r] /\ output'[r] = output[r] /\ lease'[r] = lease[r] /\ leased' = leased) => CallInv(r)'
    BY <1>0, <2>1 DEF CallInv, ChildFits, HoldersFit, LinesFit, ChildLives, Before, With
  <2> QED BY <2>2, <2>3, OneCallStep
<1> QED BY <1>1, <1>2

LEMMA LockKeeps == ASSUME RunnerInv, NEW r \in Calls, Lock(r) PROVE RunnerInv'
<1>0. call[r].pc = "lock" /\ CallInv(r) /\ call[r] \in CallType /\ output[r] \in PipeType /\ child[r] \in ChildType
  BY DEF Lock, CallAt, RunnerInv, RunnerType
<1>1. CASE LaunchFails(r, "launch") BY <1>0, <1>1, LaunchFailing DEF Lock, Before
<1>2. CASE ~LaunchFails(r, "launch")
  <2> DEFINE c == [call[r] EXCEPT !.pc = "pipe"]
  <2>1. /\ c \in CallType /\ c.pc = "pipe"
        /\ c.got = call[r].got /\ c.thrown = call[r].thrown /\ c.io = call[r].io /\ c.end = call[r].end
    BY <1>0 DEF CallType, Before
  <2>2a. /\ \A s \in Calls : lease[s] = {}
         /\ call' = [call EXCEPT ![r] = c] /\ lease' = [lease EXCEPT ![r] = {Service}]
         /\ UNCHANGED <<leased, child, output, deaths>>
    BY <1>2 DEF Lock, CallTo
  <2>2. StepOf(r, c, child[r], output[r], {Service}) /\ \A s \in Calls : lease[s] = {}
    BY <1>0, <2>2a, <2>1 DEF StepOf, RunnerInv, RunnerType
  <2>3. r \in leased BY <1>0, <1>2, <2>2 DEF CallInv, HoldersFit
  <2> HIDE DEF c
  <2>4. (call'[r] = c /\ child'[r] = child[r] /\ output'[r] = output[r] /\ lease'[r] = {Service} /\ leased' = leased) => CallInv(r)'
    BY <1>0, <2>1, <2>3, RunnerAssumption DEF CallInv, ChildFits, HoldersFit, LinesFit, ChildLives, Before, With
  <2> QED BY <2>2, <2>4, OneCallStep
<1> QED BY <1>1, <1>2

LEMMA MakePipeKeeps == ASSUME RunnerInv, NEW r \in Calls, MakePipe(r) PROVE RunnerInv'
<1>0. call[r].pc = "pipe" /\ CallInv(r) /\ call[r] \in CallType /\ output[r] \in PipeType /\ child[r] \in ChildType
  BY DEF MakePipe, CallAt, RunnerInv, RunnerType
<1>1. CASE LaunchFails(r, "launch") BY <1>0, <1>1, LaunchFailing DEF MakePipe, Before
<1>2. CASE ~LaunchFails(r, "launch")
  <2> DEFINE c == [call[r] EXCEPT !.pc = "spawn"]
  <2> DEFINE o == [lines |-> 0, reader |-> TRUE, writers |-> {Service}]
  <2>1. /\ c \in CallType /\ c.pc = "spawn"
        /\ c.got = call[r].got /\ c.thrown = call[r].thrown /\ c.io = call[r].io /\ c.end = call[r].end
    BY <1>0 DEF CallType, Before
  <2>2. StepOf(r, c, child[r], o, lease[r])
    BY <1>0, <1>2, <2>1 DEF MakePipe, CallTo, StepOf, RunnerInv, RunnerType, PipeType
  <2> HIDE DEF c
  <2>3. (call'[r] = c /\ child'[r] = child[r] /\ output'[r] = o /\ lease'[r] = lease[r] /\ leased' = leased) => CallInv(r)'
    BY <1>0, <2>1, RunnerAssumption DEF CallInv, ChildFits, HoldersFit, LinesFit, ChildLives, Before, With
  <2> QED BY <2>2, <2>3, OneCallStep
<1> QED BY <1>1, <1>2

LEMMA SpawnKeeps == ASSUME RunnerInv, NEW r \in Calls, Spawn(r) PROVE RunnerInv'
<1>a. CallAt(r, "spawn") BY DEF Spawn
<1>0. call[r].pc = "spawn" /\ CallInv(r) /\ call[r] \in CallType /\ output[r] \in PipeType /\ child[r] \in ChildType
  BY <1>a DEF CallAt, RunnerInv, RunnerType
<1>1. CASE LaunchFails(r, "exec") /\ UNCHANGED child BY <1>0, <1>1, LaunchFailing DEF Spawn, Before
<1>2. CASE ~(LaunchFails(r, "exec") /\ UNCHANGED child)
  <2> DEFINE c == [call[r] EXCEPT !.pc = "spawned"]
  <2> DEFINE h == [child[r] EXCEPT !.is = "live"]
  <2> DEFINE o == [output[r] EXCEPT !.writers = output[r].writers \cup {r}]
  <2> DEFINE l == IF r \in leased THEN lease[r] \cup {r} ELSE lease[r]
  <2>1. /\ c \in CallType /\ c.pc = "spawned"
        /\ c.got = call[r].got /\ c.thrown = call[r].thrown /\ c.io = call[r].io /\ c.end = call[r].end
    BY <1>0 DEF CallType, With
  <2>2. h \in ChildType /\ h.is = "live" /\ h.wrote = child[r].wrote /\ h.status = child[r].status
    BY <1>0 DEF ChildType
  <2>3. o \in PipeType /\ o.lines = output[r].lines /\ o.reader = output[r].reader /\ o.writers = output[r].writers \cup {r}
    BY <1>0 DEF PipeType
  <2>4. /\ output' = [s \in Calls |-> IF s = r THEN o ELSE output[s]]
        /\ lease' = [s \in Calls |-> IF s = r THEN l ELSE lease[s]]
        /\ call' = [call EXCEPT ![r] = c] /\ child' = [child EXCEPT ![r] = h] /\ UNCHANGED <<leased, deaths>>
    BY <1>2 DEF Spawn, Handed, CallTo
  <2> HIDE DEF c, h, o
  <2>5. StepOf(r, c, h, o, l) BY <2>1, <2>2, <2>3, <2>4 DEF StepOf, RunnerInv, RunnerType
  <2>6. l # {} => lease[r] # {} BY <1>0 DEF CallInv, HoldersFit
  <2>7. (call'[r] = c /\ child'[r] = h /\ output'[r] = o /\ lease'[r] = l /\ leased' = leased) => CallInv(r)'
    BY <1>0, <2>1, <2>2, <2>3, RunnerAssumption DEF CallInv, ChildFits, HoldersFit, LinesFit, ChildLives, Before, With
  <2> HIDE DEF l
  <2> QED BY <2>5, <2>6, <2>7, OneCallStep
<1> QED BY <1>1, <1>2

LEMMA CloseWriteEndKeeps == ASSUME RunnerInv, NEW r \in Calls, CloseWriteEnd(r) PROVE RunnerInv'
<1> DEFINE c == [call[r] EXCEPT !.pc = "read"]
<1> DEFINE o == [output[r] EXCEPT !.writers = output[r].writers \ {Service}]
<1>0. call[r].pc = "spawned" /\ CallInv(r) /\ call[r] \in CallType /\ output[r] \in PipeType /\ child[r] \in ChildType
  BY DEF CloseWriteEnd, CallAt, RunnerInv, RunnerType
<1>1. /\ c \in CallType /\ c.pc = "read"
      /\ c.got = call[r].got /\ c.thrown = call[r].thrown /\ c.io = call[r].io /\ c.end = call[r].end
  BY <1>0 DEF CallType, With
<1>2. o \in PipeType /\ o.lines = output[r].lines /\ o.reader = output[r].reader /\ o.writers = output[r].writers \ {Service}
  BY <1>0 DEF PipeType
<1>3. StepOf(r, c, child[r], o, lease[r])
  BY <1>0, <1>1, <1>2 DEF CloseWriteEnd, CallTo, StepOf, RunnerInv, RunnerType
<1> HIDE DEF c, o
<1>4. (call'[r] = c /\ child'[r] = child[r] /\ output'[r] = o /\ lease'[r] = lease[r] /\ leased' = leased) => CallInv(r)'
  BY <1>0, <1>1, <1>2, RunnerAssumption DEF CallInv, ChildFits, HoldersFit, LinesFit, ChildLives, Before, With
<1> QED BY <1>3, <1>4, OneCallStep

LEMMA WriteLineKeeps == ASSUME RunnerInv, NEW r \in Calls, WriteLine(r) PROVE RunnerInv'
<1> DEFINE h == [child[r] EXCEPT !.wrote = child[r].wrote + 1]
<1> DEFINE o == [output[r] EXCEPT !.lines = output[r].lines + 1]
<1>0. /\ ChildLives(r) /\ output[r].reader
      /\ CallInv(r) /\ call[r] \in CallType /\ output[r] \in PipeType /\ child[r] \in ChildType
  BY DEF WriteLine, RunnerInv, RunnerType
<1>4. child[r].wrote \in Nat /\ output[r].lines \in Nat /\ call[r].got \in Nat
  BY <1>0 DEF ChildType, PipeType, CallType
<1>1. h \in ChildType /\ h.is = child[r].is /\ h.wrote = child[r].wrote + 1 /\ h.status = child[r].status
  BY <1>0, <1>4 DEF ChildType
<1>b. output[r].lines + 1 \in Nat /\ output[r].reader \in BOOLEAN /\ output[r].writers \subseteq Calls \cup {Service}
  BY <1>0, <1>4 DEF PipeType
<1>2. o.lines = output[r].lines + 1 /\ o.reader = output[r].reader /\ o.writers = output[r].writers
  BY <1>0 DEF PipeType
<1>c. o \in PipeType BY <1>0, <1>b DEF PipeType
<1>3. StepOf(r, call[r], h, o, lease[r])
  BY <1>0, <1>1, <1>2, <1>c DEF WriteLine, StepOf, RunnerInv, RunnerType
<1> HIDE DEF h, o
<1>a. call[r].pc \in {"spawned", "read"} BY <1>0 DEF CallInv, ChildFits, HoldersFit, ChildLives, Before
<1>5. (call'[r] = call[r] /\ child'[r] = h /\ output'[r] = o /\ lease'[r] = lease[r] /\ leased' = leased) => CallInv(r)'
  <2> SUFFICES ASSUME call'[r] = call[r], child'[r] = h, output'[r] = o, lease'[r] = lease[r], leased' = leased
               PROVE  CallInv(r)'
    OBVIOUS
  <2>1. ChildFits(r)' /\ HoldersFit(r)'
    BY <1>0, <1>a, <1>1, <1>2 DEF CallInv, ChildFits, HoldersFit, ChildLives, Before, With
  <2>2. LinesFit(r)' BY <1>0, <1>a, <1>1, <1>2, <1>4 DEF CallInv, LinesFit, Before
  <2> QED BY <2>1, <2>2 DEF CallInv
<1> QED BY <1>3, <1>5, OneCallStep

\* What others hold is not touched when a process that is not theirs is dropped.
LEMMA DroppingOne ==
    ASSUME RunnerInv, NEW r \in Calls, NEW gone, gone \subseteq {r, Service},
           output' = [s \in Calls |-> [output[s] EXCEPT !.writers = @ \ (IF s = r THEN gone ELSE gone \ {Service})]],
           lease' = [s \in Calls |-> lease[s] \ (IF s = r THEN gone ELSE gone \ {Service})]
    PROVE  /\ output' = [output EXCEPT ![r] = [output[r] EXCEPT !.writers = output[r].writers \ gone]]
           /\ lease' = [lease EXCEPT ![r] = lease[r] \ gone]
<1>1. ASSUME NEW s \in Calls, s # r
      PROVE  lease[s] \ (gone \ {Service}) = lease[s] /\ output[s].writers \ (gone \ {Service}) = output[s].writers
  BY <1>1 DEF RunnerInv, CallInv, HoldersFit
<1>2. ASSUME NEW s \in Calls, s # r
      PROVE  [output[s] EXCEPT !.writers = output[s].writers \ (gone \ {Service})] = output[s]
  <2>1. output[s] \in PipeType BY DEF RunnerInv, RunnerType
  <2> QED BY <1>1, <1>2, <2>1 DEF PipeType
<1> QED BY <1>1, <1>2 DEF RunnerInv, RunnerType

LEMMA ChildEndsKeeps == ASSUME RunnerInv, NEW r \in Calls, ChildEnds(r) PROVE RunnerInv'
<1>0. ChildLives(r) /\ CallInv(r) /\ call[r] \in CallType /\ output[r] \in PipeType /\ child[r] \in ChildType
  BY DEF ChildEnds, RunnerInv, RunnerType
<1> DEFINE o == [output[r] EXCEPT !.writers = output[r].writers \ {r}]
<1>1. PICK status \in {"zero", "nonzero", "signal"} :
        child' = [child EXCEPT ![r].status = status, ![r].is = IF CallAt(r, "lost") THEN "gone" ELSE "zombie"]
  BY DEF ChildEnds
<1> DEFINE h == [child[r] EXCEPT !.status = status, !.is = IF CallAt(r, "lost") THEN "gone" ELSE "zombie"]
<1>2. /\ h \in ChildType /\ h.is = (IF call[r].pc = "lost" THEN "gone" ELSE "zombie")
      /\ h.status = status /\ h.wrote = child[r].wrote
  BY <1>0 DEF ChildType, CallAt
<1>3. o \in PipeType /\ o.lines = output[r].lines /\ o.reader = output[r].reader /\ o.writers = output[r].writers \ {r}
  BY <1>0 DEF PipeType
<1>4. output' = [output EXCEPT ![r] = o] /\ lease' = [lease EXCEPT ![r] = lease[r] \ {r}]
  <2>1. output' = [s \in Calls |-> [output[s] EXCEPT !.writers = @ \ (IF s = r THEN {r} ELSE {r} \ {Service})]]
    BY RunnerAssumption DEF ChildEnds, Closes
  <2>2. lease' = [s \in Calls |-> lease[s] \ (IF s = r THEN {r} ELSE {r} \ {Service})]
    BY RunnerAssumption DEF ChildEnds, Closes, Dropped
  <2> HIDE DEF h
  <2> QED BY <2>1, <2>2, DroppingOne
<1>5. child' = [child EXCEPT ![r] = h] /\ UNCHANGED <<leased, call, deaths>> BY <1>1 DEF ChildEnds
<1> HIDE DEF h, o
<1>6. StepOf(r, call[r], h, o, lease[r] \ {r})
  BY <1>0, <1>2, <1>3, <1>4, <1>5 DEF StepOf, RunnerInv, RunnerType
<1>7. (call'[r] = call[r] /\ child'[r] = h /\ output'[r] = o /\ lease'[r] = lease[r] \ {r} /\ leased' = leased) => CallInv(r)'
  <2> SUFFICES ASSUME call'[r] = call[r], child'[r] = h, output'[r] = o, lease'[r] = lease[r] \ {r}, leased' = leased
               PROVE  CallInv(r)'
    OBVIOUS
  <2>a. call[r].pc \in With \cup {"return", "lost"} /\ (call[r].pc = "return" => call[r].end = "wait")
    BY <1>0 DEF CallInv, ChildFits, ChildLives, CallType
  <2>1. ChildFits(r)' BY <1>0, <2>a, <1>2 DEF CallInv, ChildFits, ChildLives, Before, With
  <2>2. HoldersFit(r)' BY <1>0, <2>a, <1>2, <1>3, RunnerAssumption DEF CallInv, HoldersFit, ChildLives
  <2>3. LinesFit(r)' BY <1>0, <2>a, <1>2, <1>3 DEF CallInv, LinesFit, Before, With
  <2> QED BY <2>1, <2>2, <2>3 DEF CallInv
<1> QED BY <1>6, <1>7, OneCallStep

LEMMA ReadLineKeeps == ASSUME RunnerInv, NEW r \in Calls, ReadLine(r) PROVE RunnerInv'
<1>0. /\ call[r].pc = "read" /\ output[r].lines > 0
      /\ CallInv(r) /\ call[r] \in CallType /\ output[r] \in PipeType /\ child[r] \in ChildType
  BY DEF ReadLine, CallAt, RunnerInv, RunnerType
<1>1. PICK throws, fails \in BOOLEAN :
         call' = [call EXCEPT ![r].thrown = @ \/ throws, ![r].io = @ \/ fails,
                              ![r].got = IF call[r].thrown \/ throws \/ call[r].io \/ fails THEN @ ELSE @ + 1]
  BY DEF ReadLine
<1> DEFINE thrown == call[r].thrown \/ throws
<1> DEFINE io == call[r].io \/ fails
<1> DEFINE got == IF call[r].thrown \/ throws \/ call[r].io \/ fails THEN call[r].got ELSE call[r].got + 1
<1> DEFINE c == [call[r] EXCEPT !.thrown = thrown, !.io = io, !.got = got]
<1> DEFINE o == [output[r] EXCEPT !.lines = output[r].lines - 1]
<1>2. call[r].got \in Nat /\ output[r].lines \in Nat /\ child[r].wrote \in Nat /\ output[r].lines - 1 \in Nat
  BY <1>0 DEF CallType, PipeType, ChildType
<1>3. got \in Nat /\ thrown \in BOOLEAN /\ io \in BOOLEAN
      /\ (~thrown /\ ~io => got = call[r].got + 1 /\ ~call[r].thrown /\ ~call[r].io)
  BY <1>2
<1>4. UNCHANGED <<leased, child, lease, deaths>> /\ call' = [call EXCEPT ![r] = c] /\ output' = [output EXCEPT ![r] = o]
  BY <1>1, ZenonT(60) DEF ReadLine
<1> HIDE DEF thrown, io, got
<1>5. c \in CallType /\ c.pc = "read" /\ c.got = got /\ c.thrown = thrown /\ c.io = io /\ c.end = call[r].end
  BY <1>0, <1>3 DEF CallType
<1>6. o.lines = output[r].lines - 1 /\ o.reader = output[r].reader /\ o.writers = output[r].writers
  BY <1>0 DEF PipeType
<1>7. o \in PipeType BY <1>0, <1>2 DEF PipeType
<1> HIDE DEF c, o
<1>8. StepOf(r, c, child[r], o, lease[r]) BY <1>0, <1>4, <1>5, <1>7 DEF StepOf, RunnerInv, RunnerType
<1>9. (call'[r] = c /\ child'[r] = child[r] /\ output'[r] = o /\ lease'[r] = lease[r] /\ leased' = leased) => CallInv(r)'
  <2> SUFFICES ASSUME call'[r] = c, child'[r] = child[r], output'[r] = o, lease'[r] = lease[r], leased' = leased
               PROVE  CallInv(r)'
    OBVIOUS
  <2>1. ChildFits(r)' /\ HoldersFit(r)'
    BY <1>0, <1>5, <1>6 DEF CallInv, ChildFits, HoldersFit, ChildLives, Before, With
  <2>2. LinesFit(r)' BY <1>0, <1>2, <1>3, <1>5, <1>6 DEF CallInv, LinesFit, Before
  <2> QED BY <2>1, <2>2 DEF CallInv
<1> QED BY <1>8, <1>9, OneCallStep

LEMMA ReadEndsKeeps == ASSUME RunnerInv, NEW r \in Calls, ReadEnds(r) PROVE RunnerInv'
<1> DEFINE c == [call[r] EXCEPT !.pc = "wait"]
<1>0. /\ call[r].pc = "read" /\ output[r].lines = 0 /\ output[r].writers = {}
      /\ CallInv(r) /\ call[r] \in CallType /\ output[r] \in PipeType /\ child[r] \in ChildType
  BY DEF ReadEnds, CallAt, RunnerInv, RunnerType
<1>1. /\ c \in CallType /\ c.pc = "wait"
      /\ c.got = call[r].got /\ c.thrown = call[r].thrown /\ c.io = call[r].io /\ c.end = call[r].end
  BY <1>0 DEF CallType, With
<1>2. UNCHANGED <<leased, child, lease, deaths>> /\ call' = [call EXCEPT ![r] = c] /\ output' = [output EXCEPT ![r] = NoPipe]
  BY DEF ReadEnds, CallTo
<1> HIDE DEF c
<1>3. StepOf(r, c, child[r], NoPipe, lease[r])
  BY <1>0, <1>1, <1>2 DEF StepOf, RunnerInv, RunnerType, PipeType, NoPipe
<1>4. call[r].got \in Nat /\ child[r].wrote \in Nat BY <1>0 DEF CallType, ChildType
<1>5. (call'[r] = c /\ child'[r] = child[r] /\ output'[r] = NoPipe /\ lease'[r] = lease[r] /\ leased' = leased) => CallInv(r)'
  BY <1>0, <1>1, <1>4 DEF CallInv, ChildFits, HoldersFit, LinesFit, ChildLives, Before, With, NoPipe
<1> QED BY <1>3, <1>5, OneCallStep

LEMMA ReadFailsKeeps == ASSUME RunnerInv, NEW r \in Calls, ReadFails(r) PROVE RunnerInv'
<1> DEFINE c == [call[r] EXCEPT !.pc = "wait", !.io = TRUE]
<1> DEFINE o == [output[r] EXCEPT !.reader = FALSE, !.lines = 0]
<1>0. /\ call[r].pc = "read"
      /\ CallInv(r) /\ call[r] \in CallType /\ output[r] \in PipeType /\ child[r] \in ChildType
  BY DEF ReadFails, CallAt, RunnerInv, RunnerType
<1>1. c \in CallType /\ c.pc = "wait" /\ c.io /\ c.thrown = call[r].thrown /\ c.end = call[r].end
  BY <1>0 DEF CallType, With
<1>2. o \in PipeType /\ ~o.reader /\ o.writers = output[r].writers BY <1>0 DEF PipeType
<1>3. UNCHANGED <<leased, child, lease, deaths>> /\ call' = [call EXCEPT ![r] = c] /\ output' = [output EXCEPT ![r] = o]
  BY DEF ReadFails
<1> HIDE DEF c, o
<1>4. StepOf(r, c, child[r], o, lease[r]) BY <1>0, <1>1, <1>2, <1>3 DEF StepOf, RunnerInv, RunnerType
<1>5. (call'[r] = c /\ child'[r] = child[r] /\ output'[r] = o /\ lease'[r] = lease[r] /\ leased' = leased) => CallInv(r)'
  BY <1>0, <1>1, <1>2 DEF CallInv, ChildFits, HoldersFit, LinesFit, ChildLives, Before, With
<1> QED BY <1>4, <1>5, OneCallStep

LEMMA WaitKeeps == ASSUME RunnerInv, NEW r \in Calls, Wait(r) PROVE RunnerInv'
<1> DEFINE c == [call[r] EXCEPT !.pc = "return", !.end = EndOf(child[r].status)]
<1> DEFINE h == [child[r] EXCEPT !.is = "gone"]
<1>0. /\ call[r].pc = "wait" /\ child[r].is = "zombie"
      /\ CallInv(r) /\ call[r] \in CallType /\ output[r] \in PipeType /\ child[r] \in ChildType
  BY DEF Wait, CallAt, RunnerInv, RunnerType
<1>1. /\ EndOf(child[r].status) \in {"success", "failure", "signaled"}
      /\ EndOf(child[r].status) = "success" => child[r].status = "zero"
  BY <1>0 DEF CallInv, ChildFits, ChildType, EndOf
<1>2. /\ c \in CallType /\ c.pc = "return" /\ c.end = EndOf(child[r].status)
      /\ c.got = call[r].got /\ c.thrown = call[r].thrown /\ c.io = call[r].io
  BY <1>0, <1>1 DEF CallType
<1>3. h \in ChildType /\ h.is = "gone" /\ h.wrote = child[r].wrote /\ h.status = child[r].status
  BY <1>0 DEF ChildType
<1>4. UNCHANGED <<leased, output, lease, deaths>> /\ call' = [call EXCEPT ![r] = c] /\ child' = [child EXCEPT ![r] = h]
  BY DEF Wait
<1> HIDE DEF c, h
<1>5. StepOf(r, c, h, output[r], lease[r]) BY <1>0, <1>2, <1>3, <1>4 DEF StepOf, RunnerInv, RunnerType
<1>6. (call'[r] = c /\ child'[r] = h /\ output'[r] = output[r] /\ lease'[r] = lease[r] /\ leased' = leased) => CallInv(r)'
  BY <1>0, <1>1, <1>2, <1>3 DEF CallInv, ChildFits, HoldersFit, LinesFit, ChildLives, Before, With
<1> QED BY <1>5, <1>6, OneCallStep

LEMMA WaitFailsKeeps == ASSUME RunnerInv, NEW r \in Calls, WaitFails(r) PROVE RunnerInv'
<1> DEFINE c == [call[r] EXCEPT !.pc = "return", !.end = "wait"]
<1>0. /\ call[r].pc = "wait"
      /\ CallInv(r) /\ call[r] \in CallType /\ output[r] \in PipeType /\ child[r] \in ChildType
  BY DEF WaitFails, CallAt, RunnerInv, RunnerType
<1>1. /\ c \in CallType /\ c.pc = "return" /\ c.end = "wait"
      /\ c.got = call[r].got /\ c.thrown = call[r].thrown /\ c.io = call[r].io
  BY <1>0 DEF CallType
<1>2. UNCHANGED <<leased, child, output, lease, deaths>> /\ call' = [call EXCEPT ![r] = c] BY DEF WaitFails
<1> HIDE DEF c
<1>3. StepOf(r, c, child[r], output[r], lease[r]) BY <1>0, <1>1, <1>2 DEF StepOf, RunnerInv, RunnerType
<1>4. (call'[r] = c /\ child'[r] = child[r] /\ output'[r] = output[r] /\ lease'[r] = lease[r] /\ leased' = leased) => CallInv(r)'
  BY <1>0, <1>1 DEF CallInv, ChildFits, HoldersFit, LinesFit, ChildLives, Before, With
<1> QED BY <1>3, <1>4, OneCallStep

\* The guard: afterwards the child is gone and the service holds nothing.
LEMMA Guarding ==
    ASSUME RunnerInv, NEW r \in Calls, CallAt(r, "return"), Guard(r)
    PROVE  \E h \in ChildType, o \in PipeType :
             /\ child' = [child EXCEPT ![r] = h] /\ output' = [output EXCEPT ![r] = o] /\ lease' = [lease EXCEPT ![r] = {}]
             /\ h.is = "gone" /\ h.wrote = child[r].wrote /\ (call[r].end # "wait" => h = child[r])
             /\ ~o.reader /\ o.writers = {}
<1>0. call[r].pc = "return" /\ CallInv(r) /\ output[r] \in PipeType /\ child[r] \in ChildType
  BY DEF CallAt, RunnerInv, RunnerType
<1>1. ~output[r].reader /\ Service \notin output[r].writers /\ output[r].writers \subseteq {r} /\ lease[r] \subseteq {r, Service}
  BY <1>0 DEF CallInv, HoldersFit
<1>2. CASE call[r].end = "wait"
  <2> DEFINE h == [child[r] EXCEPT !.is = "gone", !.status = IF ChildLives(r) THEN "signal" ELSE child[r].status]
  <2> DEFINE o == [output[r] EXCEPT !.writers = output[r].writers \ {r}]
  <2>1. h \in ChildType /\ h.is = "gone" /\ h.wrote = child[r].wrote BY <1>0 DEF ChildType
  <2>2. o \in PipeType /\ ~o.reader /\ o.writers = {} BY <1>0, <1>1 DEF PipeType
  <2>3. child' = [child EXCEPT ![r] = h] BY <1>2 DEF Guard
  <2> HIDE DEF h
  <2>4. output' = [s \in Calls |-> [output[s] EXCEPT !.writers = @ \ {r}]] BY <1>2 DEF Guard
  <2>5. output' = [output EXCEPT ![r] = o]
    <3>1. ASSUME NEW s \in Calls, s # r PROVE [output[s] EXCEPT !.writers = output[s].writers \ {r}] = output[s]
      BY <3>1, RunnerAssumption DEF RunnerInv, RunnerType, CallInv, HoldersFit, PipeType
    <3> QED BY <2>4, <3>1 DEF RunnerInv, RunnerType
  <2>6. lease' = [lease EXCEPT ![r] = {}]
    <3>1. lease' = [s \in Calls |-> lease[s] \ (IF s = r THEN {r, Service} ELSE {r})] BY <1>2 DEF Guard
    <3>2. \A s \in Calls : s # r => lease[s] \ {r} = lease[s]
      BY RunnerAssumption DEF RunnerInv, CallInv, HoldersFit
    <3> QED BY <1>1, <3>1, <3>2 DEF RunnerInv, RunnerType
  <2> HIDE DEF o
  <2> QED BY <1>2, <2>1, <2>2, <2>3, <2>5, <2>6
<1>3. CASE call[r].end # "wait"
  <2>1. child[r].is = "gone" BY <1>0, <1>3 DEF CallInv, ChildFits
  <2>2. output[r].writers = {} /\ lease[r] \ {Service} = {}
    BY <1>0, <1>1, <2>1 DEF CallInv, HoldersFit, ChildLives
  <2>3. child' = child /\ output' = output /\ lease' = [lease EXCEPT ![r] = lease[r] \ {Service}]
    BY <1>3 DEF Guard
  <2> QED BY <1>0, <1>1, <1>3, <2>1, <2>2, <2>3 DEF RunnerInv, RunnerType
<1> QED BY <1>2, <1>3

LEMMA ReturnKeeps == ASSUME RunnerInv, NEW r \in Calls, Return(r) PROVE RunnerInv'
<1>0. /\ call[r].pc = "return" /\ UNCHANGED <<leased, deaths>> /\ Guard(r) /\ CallAt(r, "return")
      /\ CallInv(r) /\ call[r] \in CallType /\ output[r] \in PipeType /\ child[r] \in ChildType
  BY DEF Return, CallAt, RunnerInv, RunnerType
<1>1. PICK closes \in BOOLEAN : call' = [call EXCEPT ![r].pc = "done", ![r].io = Fault(r) \/ ~closes]
  BY DEF Return
<1>2. PICK h \in ChildType, o \in PipeType :
             /\ child' = [child EXCEPT ![r] = h] /\ output' = [output EXCEPT ![r] = o] /\ lease' = [lease EXCEPT ![r] = {}]
             /\ h.is = "gone" /\ h.wrote = child[r].wrote /\ (call[r].end # "wait" => h = child[r])
             /\ ~o.reader /\ o.writers = {}
  BY <1>0, Guarding
<1> DEFINE io == Fault(r) \/ ~closes
<1> DEFINE c == [call[r] EXCEPT !.pc = "done", !.io = io]
<1>3. io \in BOOLEAN /\ (~io => ~call[r].io /\ ~call[r].thrown) BY <1>0 DEF Fault
<1>4. call' = [call EXCEPT ![r] = c] BY <1>1
<1> HIDE DEF io
<1>5. /\ c \in CallType /\ c.pc = "done" /\ c.io = io
      /\ c.got = call[r].got /\ c.thrown = call[r].thrown /\ c.end = call[r].end
  BY <1>0, <1>3 DEF CallType
<1> HIDE DEF c
<1>6. StepOf(r, c, h, o, {}) BY <1>0, <1>2, <1>4, <1>5 DEF StepOf, RunnerInv, RunnerType
<1>7. (call'[r] = c /\ child'[r] = h /\ output'[r] = o /\ lease'[r] = {} /\ leased' = leased) => CallInv(r)'
  BY <1>0, <1>2, <1>3, <1>5 DEF CallInv, ChildFits, HoldersFit, LinesFit, ChildLives, Before, With
<1> QED BY <1>6, <1>7, OneCallStep

LEMMA ServiceDiesKeeps == ASSUME RunnerInv, ServiceDies PROVE RunnerInv'
<1>1. ASSUME NEW r \in Calls
      PROVE  /\ leased' = leased
             /\ call'[r] = IF call[r].pc \in {"idle", "done"} THEN call[r] ELSE [NewCall EXCEPT !.pc = "lost"]
             /\ child'[r] = IF child[r].is = "zombie" THEN [child[r] EXCEPT !.is = "gone"] ELSE child[r]
             /\ output'[r] = [lines |-> 0, reader |-> FALSE, writers |-> output[r].writers \ {Service}]
             /\ lease'[r] = lease[r] \ {Service}
  <2>1. leased' = leased /\ call'[r] = IF call[r].pc \in {"idle", "done"} THEN call[r] ELSE [NewCall EXCEPT !.pc = "lost"]
    BY DEF ServiceDies
  <2>2. child'[r] = IF child[r].is = "zombie" THEN [child[r] EXCEPT !.is = "gone"] ELSE child[r]
    BY DEF ServiceDies
  <2>3. output'[r] = [lines |-> 0, reader |-> FALSE, writers |-> output[r].writers \ {Service}]
    BY DEF ServiceDies
  <2>4. lease'[r] = lease[r] \ {Service} BY DEF ServiceDies, Dropped
  <2> QED BY <2>1, <2>2, <2>3, <2>4
<1>2. RunnerType'
  <2>1. ASSUME NEW r \in Calls
        PROVE  call'[r] \in CallType /\ child'[r] \in ChildType /\ output'[r] \in PipeType /\ lease'[r] \subseteq Calls \cup {Service}
    <3>0. call[r] \in CallType /\ child[r] \in ChildType /\ output[r] \in PipeType /\ lease[r] \subseteq Calls \cup {Service}
      BY DEF RunnerInv, RunnerType
    <3>1. [NewCall EXCEPT !.pc = "lost"] \in CallType BY DEF NewCall, CallType
    <3>2. call'[r] \in CallType BY <1>1, <3>0, <3>1
    <3>3. child'[r] \in ChildType BY <1>1, <3>0 DEF ChildType
    <3>4. output[r].writers \ {Service} \subseteq Calls \cup {Service} /\ lease[r] \ {Service} \subseteq Calls \cup {Service}
      BY <3>0 DEF PipeType
    <3>5. [lines |-> 0, reader |-> FALSE, writers |-> output[r].writers \ {Service}] \in PipeType
      BY <3>4 DEF PipeType
    <3>6. output'[r] \in PipeType BY <1>1, <3>5
    <3>7. lease'[r] \subseteq Calls \cup {Service} BY <1>1, <3>4
    <3> QED BY <3>2, <3>3, <3>6, <3>7
  <2>3. /\ call' = [r \in Calls |-> call'[r]] /\ child' = [r \in Calls |-> child'[r]]
        /\ output' = [r \in Calls |-> output'[r]] /\ lease' = [r \in Calls |-> lease'[r]]
    BY DEF ServiceDies, Dropped
  <2>4. leased' = leased /\ deaths' \in Nat BY DEF ServiceDies, RunnerInv, RunnerType
  <2>5. call' \in [Calls -> CallType] /\ child' \in [Calls -> ChildType] BY <2>1, <2>3
  <2>6. output' \in [Calls -> PipeType] /\ lease' \in [Calls -> SUBSET (Calls \cup {Service})] BY <2>1, <2>3
  <2>7. leased' \subseteq Calls BY <2>4 DEF RunnerInv, RunnerType
  <2> QED BY <2>4, <2>5, <2>6, <2>7 DEF RunnerType
<1>3. OneLease' BY <1>1 DEF RunnerInv, OneLease
<1>4. ASSUME NEW r \in Calls PROVE CallInv(r)'
  <2>0. CallInv(r) /\ call[r] \in CallType /\ child[r] \in ChildType BY DEF RunnerInv, RunnerType
  <2>1. /\ leased' = leased /\ ~output'[r].reader /\ output'[r].lines = 0
        /\ output'[r].writers = output[r].writers \ {Service} /\ lease'[r] = lease[r] \ {Service}
    <3>1. leased' = leased /\ output'[r] = [lines |-> 0, reader |-> FALSE, writers |-> output[r].writers \ {Service}]
      BY <1>1
    <3>2. lease'[r] = lease[r] \ {Service} BY <1>1
    <3> QED BY <3>1, <3>2
  <2>2. child'[r].wrote = child[r].wrote /\ child'[r].status = child[r].status
        /\ child'[r].is = IF child[r].is = "zombie" THEN "gone" ELSE child[r].is
    BY <1>1, <2>0 DEF ChildType
  <2>3. CASE call[r].pc \in {"idle", "done"}
    <3>1. call'[r] = call[r] BY <1>1, <2>3
    <3> QED BY <2>0, <2>1, <2>2, <2>3, <3>1 DEF CallInv, ChildFits, HoldersFit, LinesFit, ChildLives, Before, With
  <2>4. CASE call[r].pc \notin {"idle", "done"}
    <3>0. call'[r] = [NewCall EXCEPT !.pc = "lost"] BY <1>1, <2>4
    <3>1. call'[r].pc = "lost" /\ call'[r].end = "none" BY <3>0 DEF NewCall
    <3>2. child[r].is \in {"none", "live", "zombie", "gone"} BY <2>0 DEF ChildType
    <3>3. ChildFits(r)' BY <2>0, <2>2, <3>1, <3>2 DEF CallInv, ChildFits, Before, With
    <3>4. HoldersFit(r)' BY <2>0, <2>1, <2>2, <3>1, <3>2, RunnerAssumption DEF CallInv, HoldersFit, ChildLives
    <3>5. LinesFit(r)' BY <3>1 DEF LinesFit, Before
    <3> QED BY <3>3, <3>4, <3>5 DEF CallInv
  <2> QED BY <2>3, <2>4
<1> QED BY <1>2, <1>3, <1>4 DEF RunnerInv

LEMMA RunnerSteps == RunnerInv /\ [RunnerNext]_runnerVars => RunnerInv'
<1> SUFFICES ASSUME RunnerInv, [RunnerNext]_runnerVars PROVE RunnerInv' OBVIOUS
<1>1. CASE UNCHANGED runnerVars
  BY <1>1 DEF runnerVars, RunnerInv, RunnerType, OneLease, CallInv, ChildFits, HoldersFit, LinesFit, ChildLives
<1>2. CASE ServiceDies BY <1>2, ServiceDiesKeeps
<1>3. ASSUME NEW r \in Calls, Proceeds(r) PROVE RunnerInv'
  BY <1>3, OpenLogKeeps, LockKeeps, MakePipeKeeps, SpawnKeeps, CloseWriteEndKeeps, ReadLineKeeps, ReadEndsKeeps,
     WaitKeeps, ReturnKeeps DEF Proceeds
<1>4. ASSUME NEW r \in Calls, ReadFails(r) \/ WaitFails(r) \/ WriteLine(r) \/ ChildEnds(r) PROVE RunnerInv'
  BY <1>4, ReadFailsKeeps, WaitFailsKeeps, WriteLineKeeps, ChildEndsKeeps
<1> QED BY <1>1, <1>2, <1>3, <1>4 DEF RunnerNext

LEMMA RunnerInvHolds == RunnerInit /\ [][RunnerNext]_runnerVars => []RunnerInv
<1> QED BY RunnerBegins, RunnerSteps, PTL

LEMMA RunnerIsTrue == RunnerInv => LeaseFollowsChild /\ ReturnIsClean /\ SuccessIsWhole
<1> SUFFICES ASSUME RunnerInv PROVE LeaseFollowsChild /\ ReturnIsClean /\ SuccessIsWhole OBVIOUS
<1>1. LeaseFollowsChild BY DEF RunnerInv, RunnerType, OneLease, CallInv, HoldersFit, LeaseFollowsChild
<1>2. ReturnIsClean
  <2>1. ASSUME NEW r \in Calls, CallAt(r, "done")
        PROVE  child[r].is \in {"none", "gone"} /\ lease[r] = {} /\ ~output[r].reader /\ output[r].writers = {}
    BY <2>1 DEF RunnerInv, CallInv, ChildFits, HoldersFit, CallAt, ChildLives
  <2> QED BY <2>1 DEF ReturnIsClean
<1>3. SuccessIsWhole BY DEF RunnerInv, CallInv, ChildFits, LinesFit, SuccessIsWhole, CallAt
<1> QED BY <1>1, <1>2, <1>3

----------------------------------------
(* A batch of recordings: the sum of what is decoded. *)

Bytes(r) == IF r.compressed THEN r.size ELSE 0
\* What the first k recordings of a batch of at most two come to.
BytesTo(b, k) == (IF 1 <= k THEN Bytes(b[1]) ELSE 0) + (IF 2 <= k THEN Bytes(b[2]) ELSE 0)

LEMMA BatchIs ==
    ASSUME NEW b \in Batches
    PROVE  /\ Len(b) \in 0..2 /\ DOMAIN b = 1..Len(b) /\ (b = <<>> <=> Len(b) = 0)
           /\ \A i \in DOMAIN b : b[i] \in Recordings /\ Bytes(b[i]) \in Nat /\ b[i].size \in Nat
                                  /\ b[i].stem \in Stems /\ b[i].compressed \in BOOLEAN /\ b[i].sound \in BOOLEAN
<1>1. PICK n \in 0..2 : b \in [1..n -> Recordings] BY DEF Batches
<1>2. Len(b) = n /\ DOMAIN b = 1..n /\ b \in Seq(Recordings) BY <1>1
<1>3. b = <<>> <=> Len(b) = 0 BY <1>2
<1>4. ASSUME NEW i \in DOMAIN b PROVE b[i] \in Recordings /\ Bytes(b[i]) \in Nat /\ b[i].size \in Nat
                                      /\ b[i].stem \in Stems /\ b[i].compressed \in BOOLEAN /\ b[i].sound \in BOOLEAN
  <2>1. b[i] \in Recordings BY <1>1, <1>4
  <2> QED BY <2>1, UploadsAssumption DEF Recordings, Bytes
<1> QED BY <1>2, <1>3, <1>4

\* The sum the property takes with a fold.
LEMMA FoldIsSum ==
    ASSUME NEW b \in Batches
    PROVE  FoldLeft(LAMBDA sum, r : sum + IF r.compressed THEN r.size ELSE 0, 0, b) = BytesTo(b, Len(b))
<1> DEFINE D == DOMAIN b
           B(i) == IF b[i].compressed THEN b[i].size ELSE 0
           P(i, s) == IF i \in s THEN Bytes(b[i]) ELSE 0
           Folds(f) == f = [s \in SUBSET D |-> IF s = {} THEN 0 ELSE LET x == Max(s) IN f[s \ {x}] + B(x)]
           w == [s \in SUBSET D |-> P(1, s) + P(2, s)]
           iter == CHOOSE f : Folds(f)
<1>0. D \subseteq {1, 2} /\ \A i \in D : Bytes(b[i]) \in Nat BY BatchIs
<1>1. ASSUME NEW s \in SUBSET D, s # {} PROVE Max(s) \in s
  <2>1. s = {1} \/ s = {2} \/ s = {1, 2} BY <1>0, <1>1
  <2>2. \E x \in s : \A y \in s : x >= y BY <2>1
  <2> QED BY <2>2 DEF Max
<1>2. ASSUME NEW s \in SUBSET D, NEW x \in s PROVE w[s] = w[s \ {x}] + Bytes(b[x])
  <2>1. x \in {1, 2} /\ s \ {x} \in SUBSET D /\ \A i \in s : Bytes(b[i]) \in Nat BY <1>0, <1>2
  <2>2. w[s] = P(1, s) + P(2, s) /\ w[s \ {x}] = P(1, s \ {x}) + P(2, s \ {x}) BY <2>1
  <2>3. P(1, s) \in Nat /\ P(2, s) \in Nat /\ P(x, s) = Bytes(b[x]) /\ P(x, s \ {x}) = 0 BY <2>1, <1>2
  <2>4. \A i \in {1, 2} : i # x => P(i, s \ {x}) = P(i, s) OBVIOUS
  <2> QED BY <2>1, <2>2, <2>3, <2>4
<1>3. w[{}] = 0 OBVIOUS
<1>4. Folds(w)
  <2>1. ASSUME NEW s \in SUBSET D PROVE w[s] = IF s = {} THEN 0 ELSE LET x == Max(s) IN w[s \ {x}] + B(x)
    BY <1>1, <1>2, <1>3 DEF Bytes
  <2> HIDE DEF w
  <2>2. w = [s \in SUBSET D |-> w[s]] BY DEF w
  <2> QED BY <2>1, <2>2
<1>5. Folds(iter)
  <2> HIDE DEF w
  <2>1. \E f : Folds(f) BY <1>4
  <2> HIDE DEF Folds
  <2> QED BY <2>1
<1>6. \A s \in SUBSET D : iter[s] = w[s]
  <2> HIDE DEF iter
  <2>0. ASSUME NEW s \in SUBSET D, s # {} PROVE iter[s] = iter[s \ {Max(s)}] + Bytes(b[Max(s)])
    BY <1>5, <2>0 DEF Bytes
  <2>1. iter[{}] = 0 BY <1>5
  <2> HIDE DEF w, Folds
  <2>2. ASSUME NEW i \in D PROVE iter[{i}] = w[{i}]
    <3>1. Max({i}) = i /\ {i} \ {i} = {} BY <1>1
    <3> QED BY <1>2, <1>3, <2>0, <2>1, <3>1
  <2>3. CASE D = {1, 2}
    <3>1. PICK x \in D : x = Max(D) BY <1>1, <2>3
    <3>2. PICK i \in D : D \ {x} = {i} BY <2>3
    <3>3. iter[D] = iter[{i}] + Bytes(b[x]) /\ w[D] = w[{i}] + Bytes(b[x]) BY <1>2, <2>0, <2>3, <3>1, <3>2
    <3>4. \A s \in SUBSET D : s = {} \/ s = D \/ \E j \in D : s = {j} BY <2>3
    <3> QED BY <1>3, <2>1, <2>2, <3>3, <3>4
  <2>4. CASE D # {1, 2}
    <3>1. \A s \in SUBSET D : s = {} \/ \E j \in D : s = {j} BY <1>0, <2>4
    <3> QED BY <1>3, <2>1, <2>2, <3>1
  <2> QED BY <2>3, <2>4
<1>7. FoldLeft(LAMBDA sum, r : sum + IF r.compressed THEN r.size ELSE 0, 0, b) = iter[D]
  BY DEF FoldLeft, MapThenFoldSet
<1>8. w[D] = BytesTo(b, Len(b)) BY BatchIs DEF BytesTo
<1> QED BY <1>6, <1>7, <1>8

----------------------------------------
(* The handler of an upload. *)

Shelf == [Stems -> SUBSET [of : Recordings, size : Nat, whole : BOOLEAN]]
\* Recording i is stored, whole and within the limits of a file.
Stored(i) ==
    /\ desk.raw[batch[i].stem] = {Wav(i, batch[i].size, TRUE)}
    /\ working => desk.work[batch[i].stem] = desk.raw[batch[i].stem]
    /\ batch[i].compressed =>
         batch[i].sound /\ batch[i].size <= FileLimit /\ (stereo => batch[i].size - 1 <= StereoFrames)

OneNameEach == \A i, j \in DOMAIN batch : batch[i].stem = batch[j].stem => i = j
StoredTo(k) ==
    /\ OneNameEach
    /\ \A i \in 1..k : Stored(i)
    /\ desk.decoded = BytesTo(batch, k) /\ desk.decoded <= BatchLimit
UploadsInv ==
    /\ batch \in Batches /\ stereo \in BOOLEAN /\ working \in BOOLEAN
    /\ desk.raw \in Shelf /\ desk.work \in Shelf /\ desk.next \in Nat /\ desk.decoded \in Nat
    /\ desk = [pc |-> desk.pc, next |-> desk.next, decoded |-> desk.decoded, raw |-> desk.raw, work |-> desk.work]
    /\ desk.pc = "collect" => desk.next = 1 /\ desk.decoded = 0
    /\ desk.pc = "files" => desk.next \in DOMAIN batch /\ StoredTo(desk.next - 1)
    /\ desk.pc = "200" => StoredTo(Len(batch))

LEMMA UploadBegins == UploadsInit => UploadsInv
BY DEF UploadsInit, UploadsInv, Shelf

\* An answer that is not an acceptance ends the request.
LEMMA Answered ==
    ASSUME UploadsInv, NEW status, status \notin {"collect", "files", "200"}, UNCHANGED <<batch, stereo, working>>,
           NEW raw1 \in Shelf, desk' = [desk EXCEPT !.raw = raw1, !.pc = status]
    PROVE  UploadsInv'
<1>1. desk' = [pc |-> status, next |-> desk.next, decoded |-> desk.decoded, raw |-> raw1, work |-> desk.work]
  BY DEF UploadsInv
<1>2. desk'.pc = status /\ desk'.raw = raw1 /\ desk'.work = desk.work /\ desk'.next = desk.next /\ desk'.decoded = desk.decoded
  BY <1>1
<1> QED BY <1>1, <1>2 DEF UploadsInv

\* One more recording is stored: all of it, and within the limits.
LEMMA WrittenKeeps ==
    ASSUME UploadsInv, desk.pc = "files", UNCHANGED <<batch, stereo, working>>, NEW i, i = desk.next,
           batch[i].compressed =>
             batch[i].sound /\ batch[i].size <= FileLimit /\ (stereo => batch[i].size - 1 <= StereoFrames)
                            /\ batch[i].size <= BatchLimit - desk.decoded,
           Written(i, Wav(i, batch[i].size, TRUE), Bytes(batch[i]))
    PROVE  UploadsInv'
<1> DEFINE wav == Wav(i, batch[i].size, TRUE)
           stem == batch[i].stem
           raw1 == [desk.raw EXCEPT ![stem] = {wav}]
           work1 == [desk.work EXCEPT ![stem] = IF working THEN {wav} ELSE @]
           pc1 == IF i = Len(batch) THEN "200" ELSE "files"
           decoded1 == desk.decoded + Bytes(batch[i])
<1>0. /\ i \in DOMAIN batch /\ batch \in Batches /\ DOMAIN batch = 1..Len(batch) /\ Len(batch) \in 0..2 /\ stem \in Stems
      /\ Bytes(batch[i]) \in Nat /\ batch[i].size \in Nat /\ batch[i] \in Recordings /\ desk.raw \in Shelf /\ desk.work \in Shelf
      /\ desk.decoded \in Nat /\ StoredTo(i - 1)
  BY BatchIs DEF UploadsInv
<1>1. wav \in [of : Recordings, size : Nat, whole : BOOLEAN] BY <1>0 DEF Wav
<1>2. raw1 \in Shelf /\ work1 \in Shelf /\ raw1[stem] = {wav} /\ (working => work1[stem] = {wav})
      /\ \A s \in Stems \ {stem} : raw1[s] = desk.raw[s] /\ work1[s] = desk.work[s]
  <2> HIDE DEF wav, stem
  <2> QED BY <1>0, <1>1 DEF Shelf
<1>3. decoded1 \in Nat /\ decoded1 = BytesTo(batch, i) /\ decoded1 <= BatchLimit
  <2>1. desk.decoded = BytesTo(batch, i - 1) /\ desk.decoded <= BatchLimit BY <1>0 DEF StoredTo
  <2>2. i \in {1, 2} /\ \A j \in DOMAIN batch : Bytes(batch[j]) \in Nat BY <1>0, BatchIs
  <2>3. BytesTo(batch, i) = BytesTo(batch, i - 1) + Bytes(batch[i])
    <3>1. CASE i = 1
      <4>1. Bytes(batch[1]) \in Nat BY <1>0, <3>1
      <4> QED BY <3>1, <4>1 DEF BytesTo
    <3>2. CASE i = 2
      <4>1. Bytes(batch[1]) \in Nat /\ Bytes(batch[2]) \in Nat BY <1>0, <2>2, <3>2
      <4> QED BY <3>2, <4>1 DEF BytesTo
    <3> QED BY <2>2, <3>1, <3>2
  <2>4. BatchLimit \in Nat BY UploadsAssumption
  <2>5. decoded1 <= BatchLimit
    <3>1. CASE batch[i].compressed BY <1>0, <2>4, <3>1 DEF Bytes
    <3>2. CASE ~batch[i].compressed BY <1>0, <2>1, <3>2 DEF Bytes
    <3> QED BY <3>1, <3>2
  <2> QED BY <1>0, <2>1, <2>3, <2>5
<1>4. desk' = [pc |-> pc1, next |-> i + 1, decoded |-> decoded1, raw |-> raw1, work |-> work1]
  BY DEF Written, UploadsInv
<1> HIDE DEF raw1, work1, pc1, decoded1
<1>5. desk'.pc = pc1 /\ desk'.next = i + 1 /\ desk'.decoded = decoded1 /\ desk'.raw = raw1 /\ desk'.work = work1
  BY <1>4
<1>6. StoredTo(i)'
  <2>0. \A j \in 1..i : j \in DOMAIN batch /\ batch[j].stem \in Stems BY <1>0, BatchIs
  <2>1. ASSUME NEW j \in 1..i, j # i PROVE Stored(j)'
    <3>1. j \in 1..(i - 1) BY <1>0, <2>1
    <3>2. Stored(j) /\ batch[j].stem \in Stems \ {stem} BY <1>0, <2>0, <3>1 DEF StoredTo, OneNameEach
    <3> QED BY <1>2, <1>5, <3>2 DEF Stored, Wav, FileLimit
  <2>2. Stored(i)' BY <1>2, <1>5 DEF Stored, Wav, FileLimit
  <2>3. OneNameEach' BY <1>0 DEF StoredTo, OneNameEach
  <2> QED BY <1>3, <1>5, <2>1, <2>2, <2>3 DEF StoredTo
<1>7. pc1 \in {"200", "files"} /\ (pc1 = "200" => i = Len(batch)) /\ (pc1 = "files" => i + 1 \in DOMAIN batch) /\ i + 1 \in Nat /\ (i + 1) - 1 = i
  BY <1>0, SMTT(30) DEF pc1
<1> QED BY <1>0, <1>2, <1>3, <1>4, <1>5, <1>6, <1>7 DEF UploadsInv

LEMMA CollectKeeps == ASSUME UploadsInv, Collect, UNCHANGED <<batch, stereo, working>> PROVE UploadsInv'
<1>0. desk.pc = "collect" /\ batch \in Batches /\ desk.raw \in Shelf /\ desk.next = 1 /\ desk.decoded = 0
  BY DEF Collect, UploadsInv
<1>r. ASSUME NEW status, Reply(status) PROVE desk' = [desk EXCEPT !.raw = desk.raw, !.pc = status]
  BY <1>r DEF Reply, UploadsInv
<1>1. ASSUME NEW status \in {"400", "409", "503"}, Reply(status) PROVE UploadsInv'
  BY <1>0, <1>1, <1>r, Answered
<1>2. CASE ~(batch = <<>> \/ Cardinality({StoredName(i) : i \in DOMAIN batch}) < Len(batch)) /\ Reply("files")
  <2>1. Len(batch) \in 1..2 /\ DOMAIN batch = 1..Len(batch) BY <1>0, <1>2, BatchIs
  <2>2. OneNameEach
    <3>1. CASE Len(batch) = 1 BY <2>1, <3>1 DEF OneNameEach
    <3>2. CASE Len(batch) = 2
      <4>1. ASSUME batch[1].stem = batch[2].stem PROVE FALSE
        <5> DEFINE S == {StoredName(i) : i \in DOMAIN batch}
        <5>1. S = {batch[1].stem} BY <2>1, <3>2, <4>1 DEF StoredName
        <5>2. ~(Cardinality(S) < Len(batch)) BY <1>2
        <5> HIDE DEF S
        <5>3. Cardinality(S) = 1 BY <5>1, FS_Singleton
        <5> QED BY <3>2, <5>2, <5>3
      <4> QED BY <2>1, <3>2, <4>1 DEF OneNameEach
    <3> QED BY <2>1, <3>1, <3>2
  <2>3. desk' = [pc |-> "files", next |-> 1, decoded |-> 0, raw |-> desk.raw, work |-> desk.work]
    BY <1>0, <1>2 DEF Reply, UploadsInv
  <2>4. desk'.pc = "files" /\ desk'.next = 1 /\ desk'.decoded = 0 /\ desk'.raw = desk.raw /\ desk'.work = desk.work
    BY <2>3
  <2>5. StoredTo(0)'
    <3>1. BytesTo(batch, 0) = 0 /\ 0 <= BatchLimit BY UploadsAssumption DEF BytesTo
    <3> QED BY <2>2, <2>4, <3>1 DEF StoredTo, OneNameEach
  <2> QED BY <1>0, <2>1, <2>3, <2>4, <2>5 DEF UploadsInv
<1> QED BY <1>1, <1>2 DEF Collect

LEMMA StoreKeeps == ASSUME UploadsInv, Store, UNCHANGED <<batch, stereo, working>> PROVE UploadsInv'
<1> DEFINE i == desk.next
           wav == Wav(i, batch[i].size, TRUE)
<1>0. desk.pc = "files" /\ i \in DOMAIN batch /\ ~batch[i].compressed /\ batch \in Batches /\ desk.raw \in Shelf /\ batch[i].stem \in Stems
      /\ batch[i].size \in Nat /\ batch[i] \in Recordings /\ batch[i].size = batch[i].size
  BY BatchIs DEF Store, UploadsInv
<1>1. CASE Written(i, wav, 0)
  <2>1. Bytes(batch[i]) = 0 BY <1>0 DEF Bytes
  <2> QED BY <1>0, <1>1, <2>1, WrittenKeeps
<1>2. CASE WriteFails(i, wav)
  <2>1. PICK there \in {{}, {wav}} : desk' = [desk EXCEPT !.raw[batch[i].stem] = there, !.pc = "500"]
    BY <1>2 DEF WriteFails
  <2>2. wav \in [of : Recordings, size : Nat, whole : BOOLEAN] BY <1>0 DEF Wav
  <2> DEFINE raw1 == [desk.raw EXCEPT ![batch[i].stem] = there]
  <2>3. raw1 \in Shelf BY <1>0, <2>1, <2>2 DEF Shelf
  <2>4. desk' = [desk EXCEPT !.raw = raw1, !.pc = "500"] BY <2>1
  <2> QED BY <2>3, <2>4, Answered
<1> QED BY <1>1, <1>2 DEF Store

LEMMA DecodeKeeps == ASSUME UploadsInv, Decode, UNCHANGED <<batch, stereo, working>> PROVE UploadsInv'
<1> DEFINE i == desk.next
<1>0. desk.pc = "files" /\ i \in DOMAIN batch /\ batch[i].compressed /\ batch \in Batches /\ desk.raw \in Shelf /\ batch[i].stem \in Stems
      /\ batch[i].size \in Nat /\ batch[i] \in Recordings /\ batch[i].sound \in BOOLEAN /\ desk.decoded \in Nat
  BY BatchIs DEF Decode, UploadsInv
<1>f. FileLimit \in Nat /\ BatchLimit \in Nat /\ Packet \in Nat /\ DecoderLimit = FileLimit + 1
  BY UploadsAssumption DEF FileLimit, DecoderLimit
<1>1. ASSUME NEW wav \in [of : Recordings, size : Nat, whole : BOOLEAN], NEW status \in {"400", "413", "500"}, Left(wav, status) PROVE UploadsInv'
  <2> DEFINE raw1 == [desk.raw EXCEPT ![batch[i].stem] = {wav}]
  <2>1. raw1 \in Shelf BY <1>0 DEF Shelf
  <2>2. desk' = [desk EXCEPT !.raw = raw1, !.pc = status] BY <1>1 DEF Left
  <2> QED BY <2>1, <2>2, Answered
<1>r. \A wav, success : Refusal(wav, success) \in {"400", "413", "none"} BY DEF Refusal
<1>2. ASSUME NEW wav \in Decodings(i), Judged(wav, TRUE) PROVE UploadsInv'
  <2>1. wav \in [of : Recordings, size : Nat, whole : BOOLEAN] /\ wav.whole = batch[i].sound
        /\ (wav.size <= FileLimit => wav = Wav(i, batch[i].size, batch[i].sound))
    BY <1>0, <1>2, <1>f DEF Decodings, Wav
  <2>2. CASE Refusal(wav, TRUE) # "none" BY <1>1, <1>2, <1>r, <2>1, <2>2 DEF Judged
  <2>3. CASE Refusal(wav, TRUE) = "none" /\ Left(wav, "500") BY <1>1, <2>1, <2>3
  <2>4. CASE Refusal(wav, TRUE) = "none" /\ Written(i, wav, wav.size)
    <3>1. ~(wav.size > FileLimit \/ wav.size > BatchRoom) /\ HasFrames(wav) /\ ~(stereo /\ Frames(wav) > StereoFrames)
      BY <2>4 DEF Refusal
    <3>2. wav.size <= FileLimit /\ wav.size <= BatchLimit - desk.decoded
      BY <1>0, <1>f, <2>1, <3>1 DEF BatchRoom
    <3>3. wav = Wav(i, batch[i].size, TRUE) /\ batch[i].sound BY <1>0, <2>1, <3>1, <3>2 DEF HasFrames
    <3>4. wav.size = batch[i].size BY <3>3 DEF Wav
    <3>5. stereo => batch[i].size - 1 <= StereoFrames
      <4>1. StereoFrames \in Nat BY UploadsAssumption
      <4> QED BY <1>0, <3>1, <3>4, <4>1 DEF Frames
    <3>6. Bytes(batch[i]) = wav.size BY <1>0, <3>4 DEF Bytes
    <3> QED BY <1>0, <2>4, <3>2, <3>3, <3>4, <3>5, <3>6, WrittenKeeps
  <2> QED BY <1>2, <2>2, <2>3, <2>4 DEF Judged
<1>3. ASSUME NEW size \in 0..batch[i].size, Judged(Wav(i, size, FALSE), FALSE) PROVE UploadsInv'
  <2>1. Wav(i, size, FALSE) \in [of : Recordings, size : Nat, whole : BOOLEAN] BY <1>0 DEF Wav
  <2>2. Refusal(Wav(i, size, FALSE), FALSE) \in {"400", "413"} BY DEF Refusal
  <2> QED BY <1>1, <1>3, <2>1, <2>2 DEF Judged
<1>4. ASSUME NEW status \in {"503", "500"}, Reply(status) PROVE UploadsInv'
  <2>1. desk' = [desk EXCEPT !.raw = desk.raw, !.pc = status] BY <1>4 DEF Reply, UploadsInv
  <2> QED BY <1>0, <2>1, Answered
<1> QED BY <1>2, <1>3, <1>4 DEF Decode

LEMMA UploadsInvHolds == UploadsInit /\ [][UploadsNext]_uploadVars => []UploadsInv
<1>1. UploadsInv /\ [UploadsNext]_uploadVars => UploadsInv'
  <2>1. CASE UNCHANGED uploadVars
    BY <2>1 DEF uploadVars, UploadsInv, StoredTo, Stored, OneNameEach, Wav, FileLimit
  <2> QED BY <2>1, CollectKeeps, StoreKeeps, DecodeKeeps DEF UploadsNext
<1> QED BY UploadBegins, <1>1, PTL

LEMMA UploadsInvIsWhole == UploadsInv => UploadsAreWhole
<1> SUFFICES ASSUME UploadsInv, desk.pc = "200" PROVE UploadsAreWhole BY DEF UploadsAreWhole
<1>1. StoredTo(Len(batch)) /\ batch \in Batches /\ DOMAIN batch = 1..Len(batch) BY BatchIs DEF UploadsInv
<1>2. FoldLeft(LAMBDA sum, r : sum + IF r.compressed THEN r.size ELSE 0, 0, batch) = BytesTo(batch, Len(batch))
  BY <1>1, FoldIsSum
<1>3. FoldLeft(LAMBDA sum, r : sum + IF r.compressed THEN r.size ELSE 0, 0, batch) <= BatchLimit
  BY <1>1, <1>2 DEF StoredTo
<1> QED BY <1>1, <1>3 DEF UploadsAreWhole, StoredTo, Stored

----------------------------------------
(* The theorems. *)

\* Whoever reads a voice's raw and work directories and its marker under the
\* locks of web_service.cpp sees one generation, whichever uploads, trainings
\* and steps replace them meanwhile, and whichever renames fail.
THEOREM VoiceStaysWhole == Spec => []MaterialIsWhole
<1> QED BY VoiceInvHolds, VoiceIsWhole, PTL DEF Spec

\* PosixProcessRunner::run: one GPU worker lives at a time, over the death of the
\* service too; a call that returns has drained and reaped its child and holds no
\* descriptor; a success is that of a child that ended with zero and whose lines
\* were all seen.
THEOREM RunsAreClean ==
    RunnerInit /\ [][RunnerNext]_runnerVars => [](LeaseFollowsChild /\ ReturnIsClean /\ SuccessIsWhole)
<1> QED BY RunnerInvHolds, RunnerIsTrue, PTL

\* normalize_uploads: whatever the decoder leaves when it reaches its limit, fails
\* or meets a damaged recording, a batch that is accepted is stored whole, each
\* recording under a name of its own and all of them within the limits.
THEOREM BatchesStayWhole == UploadsInit /\ [][UploadsNext]_uploadVars => []UploadsAreWhole
<1> QED BY UploadsInvHolds, UploadsInvIsWhole, PTL

\* A step of the composition is a step of each component, or leaves it alone.
LEMMA PartsAreComponents ==
    ASSUME [DurableNext]_<<part, vars, taskVars, uploadVars, runnerVars>>
    PROVE  [Next]_vars /\ [RunnerNext]_runnerVars /\ [UploadsNext]_uploadVars
BY DEF DurableNext

\* What the run of the composition checks of the material, for every instance.
THEOREM DurableMaterialIsWhole == DurableSpec => []MaterialIsWhole
<1>1. DurableInit => Init BY DEF DurableInit
<1>2. [DurableNext]_<<part, vars, taskVars, uploadVars, runnerVars>> => [Next]_vars BY PartsAreComponents
<1>3. DurableSpec => Init /\ [][Next]_vars BY <1>1, <1>2, PTL DEF DurableSpec
<1> QED BY <1>3, VoiceInvHolds, VoiceIsWhole, PTL

\* What the run of the composition checks of the children and of the uploads they
\* decode, for every instance.
THEOREM DurableChildrenAreTrue == DurableSpec => []ChildrenAreTrue
<1>1. DurableInit => RunnerInit /\ UploadsInit BY DEF DurableInit
<1>2. [DurableNext]_<<part, vars, taskVars, uploadVars, runnerVars>> => [RunnerNext]_runnerVars /\ [UploadsNext]_uploadVars
  BY PartsAreComponents
<1>3. DurableSpec => RunnerInit /\ [][RunnerNext]_runnerVars BY <1>1, <1>2, PTL DEF DurableSpec
<1>4. DurableSpec => UploadsInit /\ [][UploadsNext]_uploadVars BY <1>1, <1>2, PTL DEF DurableSpec
<1>5. RunnerInv /\ UploadsInv => ChildrenAreTrue BY RunnerIsTrue, UploadsInvIsWhole DEF ChildrenAreTrue
<1> QED BY <1>3, <1>4, <1>5, RunnerInvHolds, UploadsInvHolds, PTL
=============================================================================
