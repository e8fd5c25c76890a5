--------------------------- MODULE VoiceMaterial ---------------------------
(***************************************************************************)
(* One voice's material: the raw and work directories, the step marker     *)
(* steps.txt, and the requests of web_service.cpp that replace or read     *)
(* them under gpu_mutex_, material_mutex_ and the job slot.  One step is   *)
(* one lock operation or one access to one path, so that every             *)
(* interleaving of the request threads and workers is explored.  A failed  *)
(* replacement is rolled back at once; ArtifactSwap has its inside.        *)
(*                                                                         *)
(* Operators marked FAULT are wrong on purpose: no action uses them, and   *)
(* the project's mutants put them in place of the operator they precede.   *)
(***************************************************************************)
EXTENDS Integers, FiniteSets

CONSTANTS
    MaxUploads,  \* bound on the uploads explored
    MaxHistory,  \* steps that steps.txt can record (kMaximumStepHistoryBytes)
    Clips        \* number of clips that a training request reads

ASSUME MaterialAssumption == MaxUploads \in Nat \ {0} /\ MaxHistory \in Nat \ {0} /\ Clips \in Nat \ {0}

VARIABLES
    raw,     \* the upload that raw/ holds, 0 if there is no raw/
    work,    \* the upload that work/ was made from and the steps applied to it
    marker,  \* the steps that steps.txt records, 0 if there is no file
    old,     \* what a replacement in progress has moved to its backup
    gpu,     \* holder of gpu_mutex_
    mat,     \* holder of material_mutex_
    slot,    \* holder of the job slot
    pc,      \* where each request is
    pos,     \* the position of the replacement in progress
    fresh,   \* the upload staged by each uploading request
    ups,     \* number of uploads so far
    tr,      \* the training request: its mode, its decision and what it read
    out,     \* the staged output of a step: a work directory and a marker
    seen     \* for each reader: the directory it reads, what it found and copied

vars == <<raw, work, marker, old, gpu, mat, slot, pc, pos, fresh, ups, tr, out, seen>>
disk == <<raw, work, marker>>

NoWork == [gen |-> 0, n |-> 0]
NoBackup == [raw |-> 0, work |-> NoWork, marker |-> 0]
NoInput == [mode |-> "plain", flag |-> FALSE, src |-> "raw", got |-> {}, k |-> 1]
NoOutput == [work |-> NoWork, marker |-> 0]
NoView == [from |-> "work", found |-> NoWork, copied |-> NoWork]
Readers == {"preview", "convert"}
Requests == {"upload", "train", "step", "publish"} \cup Readers

Init ==
    /\ raw = 0 /\ work = NoWork /\ marker = 0
    /\ old = NoBackup
    /\ gpu = "free" /\ mat = "free" /\ slot = "free"
    /\ pc = [r \in Requests |-> "idle"] /\ pos = 1
    /\ fresh = [r \in {"upload", "train"} |-> 0] /\ ups = 0
    /\ tr = NoInput
    /\ out = NoOutput
    /\ seen = [r \in Readers |-> NoView]

----------------------------------------
(* Locks.                                                                  *)

At(r, p) == pc[r] = p
To(r, p) == pc' = [pc EXCEPT ![r] = p]

\* std::try_to_lock on gpu_mutex_.
\* FAULT
IgnoreGpu(r, yes, no) == UNCHANGED gpu /\ To(r, yes)
TryGpu(r, yes, no) ==
    IF gpu = "free" THEN gpu' = r /\ To(r, yes) ELSE UNCHANGED gpu /\ To(r, no)

FreeGpu(r) == gpu' = IF gpu = r THEN "free" ELSE gpu
FreeSlot(r) == slot' = IF slot = r THEN "free" ELSE slot

\* lock_guard on material_mutex_.
LockMaterial(r, next) == mat = "free" /\ mat' = r /\ To(r, next)
\* FAULT
ReadAnyway(r, next) == UNCHANGED mat /\ To(r, next)
LockToRead(r, next) == LockMaterial(r, next)
FreeMaterial(r) == mat' = IF mat = r THEN "free" ELSE mat

Writers == {"upload", "train"}
LockToReplace(r) ==
    /\ At(r, "lock") /\ LockMaterial(r, "swap")
    /\ old' = [raw |-> raw, work |-> work, marker |-> marker] /\ pos' = 1
    /\ UNCHANGED <<disk, gpu, slot, fresh, ups, tr, out, seen>>

----------------------------------------
(* replace_material_dirs and replace_step_artifacts, one rename at a time. *)

\* FAULT
KeepMarker(p, g) ==
    /\ raw' = IF p = 1 THEN 0 ELSE IF p = 4 THEN g ELSE raw
    /\ work' = IF p = 2 THEN NoWork ELSE IF p = 5 THEN [gen |-> g, n |-> 0] ELSE work
    /\ UNCHANGED marker
\* Retire raw, work and the marker, then install the new raw and work.
MoveMaterial(p, g) ==
    /\ raw' = IF p = 1 THEN 0 ELSE IF p = 4 THEN g ELSE raw
    /\ work' = IF p = 2 THEN NoWork ELSE IF p = 5 THEN [gen |-> g, n |-> 0] ELSE work
    /\ marker' = IF p = 3 THEN 0 ELSE marker

\* Retire work and the marker, then install the step's.
MoveStep(p) ==
    /\ work' = IF p = 1 THEN NoWork ELSE IF p = 3 THEN out.work ELSE work
    /\ marker' = IF p = 2 THEN 0 ELSE IF p = 4 THEN out.marker ELSE marker
    /\ UNCHANGED raw

Replace(r, last) ==
    /\ At(r, "swap")
    /\ \/ /\ IF r = "step" THEN MoveStep(pos) ELSE MoveMaterial(pos, fresh[r])
          /\ IF pos < last THEN pos' = pos + 1 /\ UNCHANGED pc ELSE pos' = 1 /\ To(r, "committed")
       \/ /\ raw' = old.raw /\ work' = old.work /\ marker' = old.marker
          /\ pos' = 1 /\ To(r, "failed")
    /\ old' = IF pc'[r] = "swap" THEN old ELSE NoBackup
    /\ UNCHANGED <<gpu, mat, slot, fresh, ups, tr, out, seen>>

----------------------------------------
(* POST /api/material.                                                     *)

StageUpload ==
    /\ At("upload", "idle") /\ ups < MaxUploads
    /\ ups' = ups + 1 /\ fresh' = [fresh EXCEPT !["upload"] = ups + 1]
    /\ To("upload", "gpu")
    /\ UNCHANGED <<disk, old, gpu, mat, slot, pos, tr, out, seen>>

UploadGpu ==
    /\ At("upload", "gpu") /\ TryGpu("upload", "slot", "return")
    /\ UNCHANGED <<disk, old, mat, slot, pos, fresh, ups, tr, out, seen>>

UploadSlot ==
    /\ At("upload", "slot")
    /\ To("upload", IF slot = "free" THEN "lock" ELSE "return")
    /\ UNCHANGED <<disk, old, gpu, mat, slot, pos, fresh, ups, tr, out, seen>>

UploadUnlock ==
    /\ pc["upload"] \in {"committed", "failed"}
    /\ FreeMaterial("upload") /\ To("upload", "return")
    /\ UNCHANGED <<disk, old, gpu, slot, pos, fresh, ups, tr, out, seen>>

UploadReturn ==
    /\ At("upload", "return") /\ FreeGpu("upload") /\ To("upload", "idle")
    /\ fresh' = [fresh EXCEPT !["upload"] = 0]
    /\ UNCHANGED <<disk, old, mat, slot, pos, ups, tr, out, seen>>

----------------------------------------
(* POST /api/train, plain or full, with or without uploads.                *)

StageTraining(mode) ==
    /\ At("train", "idle")
    /\ \/ /\ ups < MaxUploads /\ ups' = ups + 1
          /\ fresh' = [fresh EXCEPT !["train"] = ups + 1]
       \/ /\ work.gen # 0 /\ fresh' = [fresh EXCEPT !["train"] = 0] /\ UNCHANGED ups
    /\ tr' = [NoInput EXCEPT !.mode = mode]
    /\ To("train", "reserve")
    /\ UNCHANGED <<disk, old, gpu, mat, slot, pos, out, seen>>

ReserveTraining ==
    /\ At("train", "reserve")
    /\ IF slot = "free"
       THEN slot' = "train" /\ To("train", IF fresh["train"] = 0 THEN "handoff" ELSE "gpu")
       ELSE UNCHANGED slot /\ To("train", "return")
    /\ UNCHANGED <<disk, old, gpu, mat, pos, fresh, ups, tr, out, seen>>

TrainingGpu ==
    /\ At("train", "gpu") /\ TryGpu("train", "lock", "return")
    /\ UNCHANGED <<disk, old, mat, slot, pos, fresh, ups, tr, out, seen>>

\* A cancellation seen under the material lock leaves the material alone.
CancelCommit ==
    /\ At("train", "swap") /\ pos = 1 /\ To("train", "failed") /\ old' = NoBackup
    /\ UNCHANGED <<disk, gpu, mat, slot, pos, fresh, ups, tr, out, seen>>

TrainingUnlock ==
    /\ pc["train"] \in {"committed", "failed"}
    /\ FreeMaterial("train") /\ FreeGpu("train")
    /\ To("train", IF At("train", "committed") THEN "handoff" ELSE "return")
    /\ UNCHANGED <<disk, old, slot, pos, fresh, ups, tr, out, seen>>

\* A full training request fixes its input on the request thread, with no lock;
\* plain training polls for the GPU first (run_training).
HandOff ==
    /\ At("train", "handoff")
    /\ IF tr.mode = "full" THEN UNCHANGED gpu /\ To("train", "decide")
       ELSE gpu = "free" /\ gpu' = "train" /\ To("train", "decide")
    /\ UNCHANGED <<disk, old, mat, slot, pos, fresh, ups, tr, out, seen>>

\* The material counts as preprocessed if there is a marker and a work set.
Preprocessed == marker > 0 /\ work.gen # 0

DecideSource ==
    /\ At("train", "decide")
    /\ tr' = [tr EXCEPT !.flag = Preprocessed, !.src = IF Preprocessed THEN "work" ELSE "raw"]
    /\ To("train", "copy")
    /\ UNCHANGED <<disk, old, gpu, mat, slot, pos, fresh, ups, out, seen>>

Content(dir) == IF dir = "work" THEN work ELSE [gen |-> raw, n |-> 0]

\* copy_training_clips, or the CLI that reads the same directory.
CopyClip ==
    /\ At("train", "copy")
    /\ IF Content(tr.src).gen = 0 \/ tr.k > Clips
       THEN To("train", "return") /\ UNCHANGED tr
       ELSE tr' = [tr EXCEPT !.got = @ \cup {Content(tr.src)}, !.k = @ + 1] /\ UNCHANGED pc
    /\ UNCHANGED <<disk, old, gpu, mat, slot, pos, fresh, ups, out, seen>>

TrainingReturn ==
    /\ At("train", "return")
    /\ FreeGpu("train") /\ FreeSlot("train") /\ To("train", "idle")
    /\ tr' = NoInput /\ fresh' = [fresh EXCEPT !["train"] = 0]
    /\ UNCHANGED <<disk, old, mat, pos, ups, out, seen>>

----------------------------------------
(* POST /api/step and run_step.                                            *)

ReserveStep ==
    /\ At("step", "idle") /\ slot = "free" /\ work.gen # 0
    /\ slot' = "step" /\ To("step", "gpu")
    /\ UNCHANGED <<disk, old, gpu, mat, pos, fresh, ups, tr, out, seen>>

StepGpu ==
    /\ At("step", "gpu") /\ TryGpu("step", "run", "return")
    /\ UNCHANGED <<disk, old, mat, slot, pos, fresh, ups, tr, out, seen>>

\* The CLI reads the work set; it may fail.
RunStep ==
    /\ At("step", "run")
    /\ \/ work.gen # 0 /\ out' = [out EXCEPT !.work = [work EXCEPT !.n = @ + 1]] /\ To("step", "mark")
       \/ UNCHANGED out /\ To("step", "return")
    /\ UNCHANGED <<disk, old, gpu, mat, slot, pos, fresh, ups, tr, seen>>

\* FAULT
AnyHistory == TRUE
HistoryFits == marker < MaxHistory

MarkStep ==
    /\ At("step", "mark")
    /\ IF HistoryFits THEN out' = [out EXCEPT !.marker = marker + 1] /\ To("step", "lock")
       ELSE UNCHANGED out /\ To("step", "return")
    /\ UNCHANGED <<disk, old, gpu, mat, slot, pos, fresh, ups, tr, seen>>

\* finish frees the slot before the worker's GPU lock goes out of scope.
StepUnlock ==
    /\ pc["step"] \in {"committed", "failed"}
    /\ FreeMaterial("step") /\ To("step", "return")
    /\ UNCHANGED <<disk, old, gpu, slot, pos, fresh, ups, tr, out, seen>>

FinishStep ==
    /\ At("step", "return") /\ slot = "step" /\ FreeSlot("step")
    /\ UNCHANGED <<disk, old, gpu, mat, pc, pos, fresh, ups, tr, out, seen>>

StepReturn ==
    /\ At("step", "return") /\ slot # "step" /\ FreeGpu("step") /\ To("step", "idle")
    /\ out' = NoOutput
    /\ UNCHANGED <<disk, old, mat, slot, pos, fresh, ups, tr, seen>>

----------------------------------------
(* GET /api/preview, and POST /api/convert on a session.                   *)

\* The manual workflow converts the work set, the others the raw upload.
ConvertGpu ==
    /\ At("convert", "idle") /\ TryGpu("convert", "lock", "send")
    /\ \E from \in {"work", "raw"} : seen' = [seen EXCEPT !["convert"].from = from]
    /\ UNCHANGED <<disk, old, mat, slot, pos, fresh, ups, tr, out>>

ReaderLock(r) ==
    /\ At(r, IF r = "convert" THEN "lock" ELSE "idle") /\ LockToRead(r, "find")
    /\ UNCHANGED <<disk, old, gpu, slot, pos, fresh, ups, tr, out, seen>>

\* first_valid_wav, then the copy or the read.
Find(r) ==
    /\ At(r, "find")
    /\ seen' = [seen EXCEPT ![r].found = Content(seen[r].from), ![r].copied = NoWork]
    /\ To(r, IF Content(seen[r].from).gen = 0 THEN "done" ELSE "read")
    /\ UNCHANGED <<disk, old, gpu, mat, slot, pos, fresh, ups, tr, out>>

ReadWav(r) ==
    /\ At(r, "read")
    /\ seen' = [seen EXCEPT ![r].copied = Content(seen[r].from)]
    /\ To(r, "done")
    /\ UNCHANGED <<disk, old, gpu, mat, slot, pos, fresh, ups, tr, out>>

ReaderUnlock(r) ==
    /\ At(r, "done") /\ FreeMaterial(r) /\ To(r, "send")
    /\ UNCHANGED <<disk, old, gpu, slot, pos, fresh, ups, tr, out, seen>>

ReaderSend(r) ==
    /\ At(r, "send") /\ FreeGpu(r) /\ To(r, "idle")
    /\ seen' = [seen EXCEPT ![r] = NoView]
    /\ UNCHANGED <<disk, old, mat, slot, pos, fresh, ups, tr, out>>

----------------------------------------
(* POST /api/train/publish: the answer is sent with both locks held.       *)

PublishGpu ==
    /\ At("publish", "idle") /\ TryGpu("publish", "slot", "idle")
    /\ UNCHANGED <<disk, old, mat, slot, pos, fresh, ups, tr, out, seen>>

PublishSlot ==
    /\ At("publish", "slot")
    /\ To("publish", "send") \/ (slot = "free" /\ To("publish", "lock"))
    /\ UNCHANGED <<disk, old, gpu, mat, slot, pos, fresh, ups, tr, out, seen>>

PublishLock ==
    /\ At("publish", "lock") /\ LockMaterial("publish", "send")
    /\ UNCHANGED <<disk, old, gpu, slot, pos, fresh, ups, tr, out, seen>>

PublishReturn ==
    /\ At("publish", "send")
    /\ FreeMaterial("publish") /\ FreeGpu("publish") /\ To("publish", "idle")
    /\ UNCHANGED <<disk, old, slot, pos, fresh, ups, tr, out, seen>>

----------------------------------------
Next ==
    \/ \E r \in Writers \cup {"step"} : LockToReplace(r)
    \/ \E r \in Writers : Replace(r, 5)
    \/ Replace("step", 4)
    \/ StageUpload \/ UploadGpu \/ UploadSlot \/ UploadUnlock \/ UploadReturn
    \/ \E mode \in {"plain", "full"} : StageTraining(mode)
    \/ ReserveTraining \/ TrainingGpu \/ CancelCommit \/ TrainingUnlock \/ HandOff
    \/ DecideSource \/ CopyClip \/ TrainingReturn
    \/ ReserveStep \/ StepGpu \/ RunStep \/ MarkStep \/ StepUnlock \/ FinishStep \/ StepReturn
    \/ ConvertGpu
    \/ \E r \in Readers : ReaderLock(r) \/ Find(r) \/ ReadWav(r) \/ ReaderUnlock(r) \/ ReaderSend(r)
    \/ PublishGpu \/ PublishSlot \/ PublishLock \/ PublishReturn

Spec == Init /\ [][Next]_vars

----------------------------------------
WorkType == [gen : 0..MaxUploads, n : 0..MaxHistory]
Holders == Requests \cup {"free"}

\* Every variable has its type; the step history stays within its limit.
TypeOK ==
    /\ raw \in 0..MaxUploads /\ work \in WorkType /\ marker \in 0..MaxHistory
    /\ old \in [raw : 0..MaxUploads, work : WorkType, marker : 0..MaxHistory]
    /\ gpu \in Holders /\ mat \in Holders /\ slot \in {"free", "train", "step"}
    /\ pc \in [Requests -> {"idle", "gpu", "slot", "lock", "swap", "committed", "failed", "return",
                            "reserve", "handoff", "decide", "copy", "run", "mark", "find", "read",
                            "done", "send"}]
    /\ pos \in 1..5 /\ fresh \in [{"upload", "train"} -> 0..MaxUploads] /\ ups \in 0..MaxUploads
    /\ tr.mode \in {"plain", "full"} /\ tr.flag \in BOOLEAN /\ tr.src \in {"raw", "work"}
    /\ tr.got \subseteq WorkType /\ tr.k \in 1..(Clips + 1)
    /\ out.work \in [gen : 0..MaxUploads, n : 0..(MaxHistory + 1)] /\ out.marker \in 0..MaxHistory
    /\ seen \in [Readers -> [from : {"work", "raw"}, found : WorkType, copied : WorkType]]

\* While nobody holds the material lock, steps.txt records exactly the steps
\* applied to work/, and raw/ and work/ come from the same upload: no mix of an
\* upload, a step and their failures leaves a marker for another generation.
MarkerIsTrue == mat = "free" => marker = work.n /\ raw = work.gen

\* A preview, or a conversion of a session, returns one whole generation: it
\* finds material whenever some was ever published, and copies what it found.
PreviewIsWhole ==
    \A r \in Readers :
        /\ pc[r] \in {"done", "send"} => seen[r].copied = seen[r].found
        /\ pc[r] = "done" /\ seen[r].found.gen = 0 => raw = 0 /\ work.gen = 0

\* The training input is one generation, and its cleanup is skipped exactly
\* when its clips have been through a step.
InputFits ==
    /\ Cardinality(tr.got) <= 1
    /\ \A c \in tr.got : tr.flag <=> c.n > 0

\* Plain training, which reads under the GPU mutex, always has such an input.
PlainInputFits == tr.mode = "plain" => InputFits

\* Nobody who reads the voice's directory under its locks sees a mix of two
\* generations, or a marker that is not the one of the clips beside it.
MaterialIsWhole == TypeOK /\ MarkerIsTrue /\ PreviewIsWhole /\ PlainInputFits

\* The clips of a full training request count as preprocessed only if they have
\* been through a step; otherwise the requested cleanup is still to run on them.
FullInputFits == tr.mode = "full" /\ tr.flag => \A c \in tr.got : c.n > 0

\* No thread writes to a socket while it holds the material lock.
NoSendUnderLock == mat # "free" => pc[mat] # "send"
=============================================================================
