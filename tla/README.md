# Verification of Resonantia

TLA+ models of Resonantia, a voice-conversion and training system whose web service
`vc_serve` runs GPU work in CLI children: the control logic of the service, of its
durable tasks and of the CLIs, the streaming of a conversion, the formats it reads,
and the structure, though not the rounding, of its networks and kernels. TLC checks
the models on small instances; the results that matter most are proved with TLAPS
for every value of the constants. Paths below are relative to the repository;
`web_service.cpp` is `tools/web/web_service.cpp`, and so on.

## 1. Inventory

| Component | State it keeps | Operations | Hard because | Correct when |
|---|---|---|---|---|
| Durable task lifecycle (`tools/web/web_service.*`) | `job_` (one slot: task, attempt, generation, stage, pause and cancel flags), the task records, `task_storage_failed_`, one `TrainingCancelSource` and one control file per attempt, stage markers, installed result | submit, prepare, hand off, run stages, pause, cancel, resume, clean up, guard the storage, publish, finish; recover at startup | request threads, a worker, children and late handlers interleave; saves fail before or after the rename; the service dies while a child runs | a slot has one owner, one record is active, an accepted pause or cancel is never followed by success, a request reaches only its own attempt, orphans are told to stop, stages are not repeated |
| `TaskStore` (`tools/web/task_store.*`) | one `record` file per task, an owner lock | `get`, `list`, `save` (compare-and-swap on the revision), `recover_interrupted` | failing writes and syncs, process death, power loss, two services, capacity, revision width | no acknowledged update is lost, a revision names one content, admission is bounded |
| Replacement of artifacts (`workflow_support.cpp`) | live paths, a backup directory | `replace_material_dirs`, `replace_step_artifacts`, `replace_training_artifacts` | every rename, removal and allocation may fail, also inside the rollback; exceptions; death | the old group survives until the new one is committed; all or nothing |
| Voice material (`web_service.cpp`) | `raw/`, `work/`, `steps.txt`, `gpu_mutex_`, `material_mutex_`, the slot | upload, training, step, preview, publish, convert a session | try-locks, checks under one lock that are used under another, readers during swaps | the marker describes the work set, a reader sees one generation, training input fits its cleanup decision |
| Block and operation checkpoints (`src/io/block_checkpoint.cpp`, `operation_checkpoint.h`) | owner and stage directories: lock, identity, blocks, pending files | open, scan, publish an identity, load, save, boundary | death between two file steps, two runs in one directory, a resume with another recipe, limits | results are never mixed, whatever is left can be resumed, a pause is prompt |
| Control channel (`training_cancel.*`) | one byte `0`/`1` per attempt, a sticky error in the source | create, request, close; poll in the child | a request races with close; an I/O error is charged to an execution | inside TaskLifecycle |
| Stage artifacts (`task_artifacts.cpp`) | per stage: identity, output digest, a marker; copies taken over from an earlier task | begin, commit, inherit, complete | power loss between output, directory and marker; files damaged outside; another release; a model published anew | a marker names durable content, a result is the one of its recipe, source and model |
| Resumable joint training (`joint_full_training.cpp`, `joint_run_state.h`, `joint_checkpoint.h`) | initial directory, epoch and clip order, checkpoints, candidates | initialise, step, checkpoint, export, cancel, resume | death between a checkpoint and an export; order of clips and random generators after a resume; pruning; two runs in one directory | a resumed training makes the updates of an uninterrupted one, the furthest checkpoint is kept, the service can go on from whatever is left |
| CLI process runner (`workflow_support.cpp`) | descriptors of each call: log, output pipe, lease of the GPU; its child | open, lock, spawn, read to the end, wait, kill and reap | calls on several threads share the descriptors of one process, children inherit them; a log, an observer, a read or a wait fails; the service dies before its child | one GPU worker at a time, every call drains and reaps its child, a success is whole, no call waits for the child of another |
| Upload decoding (`workflow_support.cpp`) | the staging directories of a request, `decoded_bytes` | collect, write, decode, check, copy | names that differ in their extension, a decoder that is cut off by its own limit and reports success, limits of a file and of a batch | what is accepted is one whole file per recording, within the limits |
| Task storage (`task_storage.cpp`) | private copies of a task | account, prune | deletion that stops in the middle and is called again | nothing is removed unless the result that replaces it is whole |
| HTTP transport (`http_transport.cpp`) | connection and in-flight byte counters | accept, read a head, reserve, read a body, handle, answer, release, close | counters on every exit path, races for the last bytes, stalled clients, threads that fail to start | counters equal what is live, limits hold, every connection ends |
| Submissions of the page (`webui/tasks.js`) | hints in memory and local storage, the service's list | submit, retry, poll, reload | lost requests and answers, late requests, awaits that interleave | one task per submission, no task forgotten, hints settle |
| Bounded audio I/O (`bounded_audio_io.cpp`, `audio_io.cpp`) | the identity of an input, spools, a staging file | open, read, append, commit | foreign writes in the middle of a read, failing writes and syncs, power loss | a read is of the file that was opened, the target is old or whole |
| Conversion pipeline (`bounded_pipeline.cpp`, `pipeline.cpp`) | spools, a planner, the state of filters | snapshot, filter, pitch, synthesise core by core, mix, commit | block, window and core edges; pause and resume between them | the streamed conversion is the whole-clip one, nothing saved is computed twice |
| Guided pitch review (`pitch_review.cpp`) | a curve, edits, suggestions | analyse, edit, preview, revise | a second copy of the curve, reuse of cores an edit does not reach | what is reviewed is what is converted |
| Flat index, weights (`cuda_flat_index.cpp`, `safetensors.cpp`) | immutable snapshot | load, search | writes during a load that leave the times unchanged; threads that fail | a snapshot is one moment of the file as far as times and contents tell, a search is whole |
| Formats (WAV, safetensors, multipart, numbers, ranges) | - | parse, write | limits of widths, odd chunks, delimiters inside data | what is accepted is in bounds and read as it was written |
| Networks (`joint_trainer.cpp`, `generator_trainer.cpp`, `synthesizer.cpp`, ...) | parameters | load, train, export, convert | one network written three times, weights folded and renamed between them | what was trained is what is heard |
| GPU kernels (`autograd.cu`, `vits_ops.cu`, `rmvpe_ops.cu`, `kernels.cu`) | - | convolve, transpose, attend, gather, differentiate | variants by size, last tiles, strides, groups | every variant adds the same products, gradients are the adjoints |
| Content, pitch and separation models, CLIs, presentation, benchmarks | - | - | floating point, option parsing | not modelled |

How they interact: an HTTP handler reserves the slot under `job_.mu` and hands it
to a worker thread. The worker creates the attempt's control file, takes
`gpu_mutex_`, runs one CLI child per stage, waits for it and moves to the next
stage; each boundary is a critical section of `job_.mu` that persists the record
through `TaskStore`. Control handlers set the request under `job_.mu`, leave it,
deliver the request through the `TrainingCancelSource` they copied and come back
to report an I/O error. The child reads the control file at its safe points, so
`BlockCheckpoint` sees it as its pause file, and a conversion (`BoundedConversion`)
meets it between two blocks. A checkpoint that `JointTraining` exports is what
`Networks` loads, and the requests that `HttpTransport` lets in are those that
`Submissions` sends and `TaskLifecycle` handles. Results and material reach their
place through the replacement functions under `material_mutex_`.

## 2. The models

Each module has a header that names its source and the granularity of its
actions. Operators marked FAULT are wrong on purpose and unused: the mutants of
`PROJECT.json` put one in place of the operator it precedes, and TLC must then
find the named property violated. `PROJECT.json` maps every definition to lines.

### TaskLifecycle, TaskContract

`job` is `job_`, `rec` the records on disk, `ctl` the control files, `src` the
`TrainingCancelSource` objects, `own` the request thread or worker that owns the
slot (program counter, ticket, stage), `procs` the live CLI children (each keeps
the flock on `.gpu-worker.lock`), `gpu` the holder of `gpu_mutex_`, `pend` the
control handlers between their lock section and their answer, `latch`
`task_storage_failed_`, `done` and `res` the stage markers and the installed
result. `phase` and `todo` are the constructor: mark active records interrupted,
then signal the control files of the tasks that can be recovered.

One action is one critical section of `job_.mu` or one file, process or GPU step
between two. The five kinds are audio work, the pitch preview, full training,
the older (plain) training and a preprocessing step; they differ in the boundary
they use (`audio_boundary`, `training_checkpoint`), in the children that are given
the control file, in the order in which the GPU and the channel are released, and
in how the outcome is judged. `Save` may fail with the old or with the new record
on disk, and latches; `SaveQuiet` is the save that does not latch. `Crash` keeps
files and children and loses memory.

`TaskContract` is what a client may rely on: numbered attempts, one active task,
an attempt either accepts a request to stop or installs a result, success is
final. `KeepsContract` is the refinement with the mapping at the end of
`TaskLifecycle`.

Abstracted: requests are already parsed, a record is its state, attempt, kind and
the flags the control code reads, a stage is a number, GPU work is the time
between `Launch` and `ChildExit`. The field `from`, and the histories `accepted`
and `res`, exist for the properties.

### TaskStore

A record is its revision, the set of updates it contains and the two flags that
`save` and `recover_interrupted` read. `cand` holds the versions a power loss may
leave of a renamed but unsynced record, `dirs` the task directories whose entry in
the root is durable. A save is: compare and admit (`Save`), create the directory
and sync the root and the temporary file (`Stage`), `Rename`, `SyncDir`; each may
throw. `ServiceDies` is the death of a process, `PowerLoss` that of the machine. In
`TaskLifecycle` all of this is the one action `Save`; the outcomes it offers there
(done, thrown with the old, thrown with the new record) are the ones of this module.

### ArtifactSwap

One module for the three functions, which differ only in constants: the number of
paths, which are staged, which are directories, whether the rollback goes
backwards and whether a marker is checked first. `live` and `bak` say what each path
and its backup hold; `torn` is a directory whose removal stopped in the middle.
`Retention` is `BackupRetentionGuard` with `TempDir`'s destructor.

### VoiceMaterial

One voice and one request of each sort: upload, training (plain or full), step,
preview, conversion of a session, publication. A step is one lock operation or one
access to one path. A failed replacement is rolled back at once, since ArtifactSwap
has its inside; the clean-rollback case is what that module proves to be the old state.

### BlockCheckpoint

`OperationCheckpointSession` with one stage, and the loop of the checkpointed
pipeline stages: boundary, load, compute and save. `dir` has, for each store, the
directory, the identity and `identity.pending`; `blk` the recipe whose result each
block file holds; `btmp` the pending blocks. `Identity` is the digest over program,
recipe and inputs; a digest is taken to be injective. The outcomes `refused` (another
recipe, or Create on something that exists), `busy` (flock) and `stranded` (the files
left behind cannot be opened) separate the reasons for which the code throws. `used`,
`late` and `met` are histories. Only process death is modelled: the parent directories
are not synced, and `specs/003-webui/task-lifecycle-20261029.md` does not claim power loss.

### JointTraining

`run_full_joint_training` over one checkpoint directory. `ckpt`, `cands`, `ident` and
`tmps` are its files, `mem` the `RunState` and `JointTrainer` of a run. Floating point
is abstracted to what it depends on: a network is the sequence of its updates (clip,
crop, learning rate, noise), a random generator is the number of draws since it was
seeded, `Shuffle` is any function that makes a permutation of a
permutation and a draw. `LaunchByService` is the
choice between `--resume`, `--resume-initial` and a fresh start in `web_service.cpp`;
`LaunchByHand` allows all of them, with any checkpoint of the directory. Hashing and
feature extraction are the one step `Prepare`: they leave no trace in the directory.
`late` and `met` are histories. As in BlockCheckpoint only process death is modelled.

### AudioTasks

Two tasks: the first makes a voice from a song, the second is a new version or a pitch
preview that reuses what the first has kept. The stages are those of `convert_audio`;
`file` has the content of each file and how far it is safe (written, synchronised, its
name synchronised), `mark` the stage markers. An audio file is the list of operations
that made it, a digest is the content. `Crash`, which may come
after every step, may tear or drop whatever was not
synchronised, or bring back a copy whose removal was not; `Harm` changes a file
between two executions, `Republish` the model. A clean-up that a crash cuts short after
`output.wav` is gone and before the record says so leaves a task from which a revision
of the same conversion fails until the clean-up is called again: fail-closed, and one of
the causes `FailureHasCause` names.

A request is three steps: the handler looks up, without the job's lock, which model the task
starts from (`Ask`); `reserve_job` takes the slot under it (`Reserve`); the inputs are copied
and then the record names the recipe (`Prepare`). A clean-up may run from the first to the
second, so the copy can find the model gone (`Missing`): the new task fails, nothing else is
touched. `seed` is what a conversion leaves for a preview, the lead `lead40.wav`, which is
not synchronised, and the identity its blocks name; `SeedFits` has the refusals of
`seed_preview`. Edits that reach more than two cores, or beyond the preview, are the constant
`Wide`; which blocks are then reused is in `BoundedConversion`.

### HttpTransport, Submissions

`HttpTransport`: `acceptor` is the accepting thread, `conn` the connection threads,
`counted` and `inflight` the two atomics. Load and compare-and-swap are steps of their
own. A client may stall, break off or stop reading at any time; the header, body and send
deadlines are the actions by which a stalled thread goes on.

`Submissions`: one `await` of `tasks.js` is a step boundary; a request the page has given
up may be handled later (`late`), an answer may be lost, the page may be reloaded. The
history `resent` marks a submission that was posted again while an earlier request was
still under way: there a conflict may retire the hint of a task the page has not seen,
until its next poll lists it. An upload whose connection broke may still be committed.

### AudioPlans, BoundedConversion, StreamedAudio

`AudioPlans` has the integer plans: pitch windows, quiet cores, chunk limits and the cuts
of the older conversion. `BoundedConversion` is the control of `convert_file_bounded`: what
lies in the spools is counted and not computed, `saved` is the block checkpoint, another
process may change the input, a pause or a death may come anywhere. `StreamedAudio` runs
each stage on small inputs in blocks and compares it with the whole-clip function, which is
a translation of `pipeline.cpp` (or `pitch_review.cpp`) and not a restatement of the blocks.
The curve has two: filter and edits are written once in `process_f0` and once in
`prepare_pitch_curve`, so the model has `ConversionEdit` and `ReviewEdit`, each from its own
lines. A pitch is its logarithm, 0 is unvoiced; a shift multiplies, so a frame that is voiced
in the raw curve and that the median has zeroed stays 0 (`Shift`).
A loop of the code is `Iterated`: its state after n turns. Samples are integers; the
high-pass is some recursion that never forgets. `JobFits` says with which inputs the code
calls a stage: `read_reflected` refuses a range outside the padded clip, the context of an
extractor is whole hops, a core belongs to a plan that was accepted.

A chunk or query length that is not a multiple of the hop can make the planner refuse a
clip in the middle (`CutsAreWhole` says exactly when). `docs/adr` calls for a refusal
(`0004-bounded-offline-file-conversion.md:100`) and not for a longer segment, so this is
stated as a property and not as a flaw; `SegmentsFit` claims of whole hops only that a plan
once accepted never fails later.
`SeedFrames` takes the default padding of two seconds, as `seed_preview` does.

### AudioFiles, Snapshots, Formats

`AudioFiles`: `file` is the open file with a stamp for inode, size and times; every foreign
write changes it. A foreign write in place during the append of a spool is outside the
model's assumption, since the spool is a private file of mode 0600. `onDisk` are the
targets that a power loss may leave. `Snapshots` allows writes that the times do not show
(one tick of the clock) and writes that bring earlier bytes back. The weights trust the
times; the index compares its copy with the file, but not the header it read before
(`cuda_flat_index.cpp:274`) and keeps (`:337`). So `LoadedAtOneMoment` promises one moment,
header included, only if the times show every write (`unshown`); otherwise the data of one
moment unless a write undid another (`undone`), under a header the file has had. The code's
decision record claims more (results never mix versions,
`docs/adr/0005-immutable-flat-index-snapshot.md:41`): a write between header and copy, in the
tick of the one before, is against it.
`Formats` has parsers as functions of a sequence of symbols, one for each class of
characters the code tells apart, with scaled widths; the loops of the code are `Iterated`
of `Loops`. `CaseFits` describes the inputs: anything may be read, and what a client writes
to be read back has a boundary that is on no line of its files and well-formed comments.
The limit on the bytes of a part's headers is left out.

### Networks, Convolutions

`Networks` computes the forward passes of the joint trainer, of the GAN trainer and of the
converter on residues modulo a prime, where every nonlinearity is a fixed arbitrary
function: formulas that agree on arbitrary weights are one formula. A behaviour loads a
checkpoint into a trainer, updates it arbitrarily, exports it and converts with it. GAN and
joint exports keep the posterior encoder they loaded. Rounding is left out, and with it the
double phase of the training source against the float one of inference.

`Convolutions` keeps of a kernel the set of products it adds, as flat indices, and forgets
values, rounding and the order of additions. The references are the definitions of the
operations; the kernels are translated thread by thread with their tiles and layouts.

### ProcessRunner, Uploads

`ProcessRunner` is one call of `PosixProcessRunner::run` per thread, one action per system
call. `output` and `lease` hold, for each call, the processes that have the write end of its
pipe and the descriptor of its flock: a pipe ends, and a lease with it, when the last of them
is gone, whoever that is. `Handed` is what the file actions and the close-on-exec flags leave
open in a child. Lines are counted. `ServiceDies` closes what the service holds and leaves
its children running. TaskLifecycle sees a call as `Launch` and `ChildExit`.

`Uploads` is one file of the batch per action. Sizes are units; `Decodings` is what a decoder
may leave when it reports success: the recording, or as much as `-fs` let through, up to a
packet more. `VoiceMaterial` begins where this answers 200.

### The instances that share a run

`MCServing`, `MCDurable` and `MCConversion` each explore several components in one run,
one at a time: the variable `part` is chosen initially and never changes, the components
that are not at stake rest in one initial state, and a step belongs to the component of
the part. No component constrains another; the state spaces add up and do not multiply.

## 3. Runs

| Run | Instance | Shows |
|---|---|---|
| `recoverable_tasks` | one audio or full-training task, 2 audio stages (3 for training), 2 attempts, 2 handlers, 1 crash; 1.2 M states | slot ownership, accepted requests never succeed, fresh attempts, errors and signals only for their own execution, orphans signalled, stages not repeated, pause not overwritten, `TaskContract` |
| `two_tasks` | 2 tasks (symmetric), audio, plain training and steps, 1 handler, 1 crash; 0.7 M | one active record, success means installed, cleanup never takes what a resume needs, cancellation against publication, `TaskContract` |
| `control_liveness` | 1 task, 3 kinds, 1 attempt, 1 crash | an accepted request settles; a child that outlives the service stops |
| `preview_orphan` | 1 preview task, 1 crash | **violated**, see below |
| `serving` | swap: 3 paths as in `replace_material_dirs`, every subset existing; http: 3 connections, 2 threads, 3 bytes in flight; page: 1 submission, 1 reload, another client; children: 2 calls, one with the lease, 1 line, a pipe that holds 1; 97 k | old artifacts kept, all or nothing; counters agree, limits hold, refusals only when full, whole bodies; one task per submission, hints kept; connections end, hints settle, calls return, children are read |
| `durable` | voice: 2 uploads, history of 2, 2 clips; tasks: 7 recipes, 3 releases, 1 crash; upload: every batch of up to 2 recordings of 2 names, sizes around every limit; children: 2 calls with and without the lease, 1 death; 2.0 M | marker is true, readers whole, plain training input fits; stage markers durable, results their own, clean-up safe, failures with a cause; accepted uploads whole; one GPU worker, calls that drain and reap, successes whole |
| `conversion` | blocks: 2 processes, recipes of 2 and 3 blocks, limit 2, 3 runs; clip: up to 18 samples with a hop of 2, 2 stops, chunks of whole hops and not; stream: every small clip of each stage; files: 3 calls, 2 foreign writes; snapshot: 3 portions of 2 contents, 3 writes, 5 queries on 3 threads; bytes: headers, bodies and numbers around every bound; net: 2 layers of everything, 2 updates; kernel: shapes around every tile; 0.6 M | results never mixed, nothing stranded, prompt pause; the streamed conversion is the whole one, made of one input, and nothing is computed twice; reads true, targets whole; what is parsed is in bounds; trainers and converter are one network; kernels add the same products, gradients are adjoint |
| `full_training_input`, `publish_lock` | smaller instances | **violated**, see below |
| `store_crash` | 2 services, 3 threads, 2 records, capacity 1, 4 updates, largest revision 4; 0.65 M | acknowledged updates kept, revision names content, admission bounded, revision never wraps |
| `joint_training` | 2 processes, 2 recipes, 2 clips, 4 epochs, checkpoints and candidates every 2 epochs, 3 runs; 1.6 M | resume is exact, progress kept, the service can resume, a stop keeps its step and is prompt |
| `lost_candidate` | 1 process, 2 runs | **violated**, see below |

Most properties are conjunctions of named parts that answer one question together; each
part is stated, with its own comment, in the module of the component, and has a mutant of
its own where it can break alone, so a property may have several mutants.

| Property | Parts |
|---|---|
| `ControlIsOwn`, `NothingIsUndone`, `RecordsHaveFiles` | `AttemptIsFresh`, `ErrorIsOwn`, `NoLateSignal`; `PauseSticks`, `NoStageIsRepeated`; `SuccessIsInstalled`, `RecoverableKeepsCopies` |
| `LimitsHold` | the type (a revision never exceeds its width), `AdmissionIsBounded` |
| `StopIsHonoured` | `StopIsPrompt`, `StopKeepsStep` |
| `BlocksAreOwn`, `StopsAndResumes` | `LoadedIsOwn`, `InUseIsNamed`; `PauseIsPrompt`, `NeverStranded` |
| `MaterialIsWhole` | `MarkerIsTrue`, `PreviewIsWhole`, `PlainInputFits` |
| `AdmissionIsExact`, `SubmittedOnce` | `CountersAgree`, `LoadIsBounded`, `HandlerSeesWhole`, `RefusedWhenFull`; `NeverTwice`, `HintKept` |
| `NothingHangs` | `ConnectionsEnd`, `HintsSettle`, `RunsReturn`, `WritersGoOn` |
| `ChildrenAreTrue` | `LeaseFollowsChild`, `ReturnIsClean`, `SuccessIsWhole`, `UploadsAreWhole` |
| `ConversionIsWhole` | `TargetIsWhole`, `SuccessIsReplaced`, `OutputIsOfOneInput`, `SpoolsAreAligned`, `SegmentsFit`, `NothingTwice`, `SeedReachesAll` |
| `StreamedAsWhole`, `ReviewIsHeard` | `StreamIsWhole`, `WindowsCover`, `PitchIsWhole`, `EnvelopeIsWhole`, `CutsAreWhole`; `ReviewIsTrue`, `SuggestionsHold` |
| `FilesAreTrue`, `SnapshotsAreWhole` | `ReadsAreTrue`, `WavIsOldOrWhole`, `NothingIsLeft`; `LoadedAtOneMoment`, `SearchIsWhole` |
| `InputIsExact` | `WavIsRead`, `SamplesSurvive`, `TensorsPartition`, `NumbersAreExact`, `ParametersAreQuoted`, `UploadIsExact` |
| `TrainedIsHeard` | `TrainersAgree`, `ConvertsAsTrained`, `ExportsAsTrained`, `DrawsArePositional`, `LayoutsAgree` |
| `KernelsAgree` | `ConvolutionsAgree`, `TranspositionsAgree`, `PlanesAgree`, `AttentionIsRelative`, `GradientsAreAdjoint` |

ArtifactSwap's type invariant is a part of the induction of section 4 and not of a run. In
`two_tasks`, `AcceptedNeverSucceeds` is not repeated: the contract implies it. `ResultIsOwn`
is relative to the identity a task has saved: a source that is changed before the first
execution has saved its identity is taken for the source, by the code as by the model.

Why the bounds are enough for the questions: two attempts are the least with which
an old handler or an old control file can meet a new execution, and two handlers the
least with which one can be late while another acts. Two tasks show competition for
the slot; a third adds no new pair. One crash already separates a child from its
service, and recovery runs from every state in which that can happen. Three threads
in two processes give two writers in one service and one that must be kept out. A
capacity of 1 and a revision limit of 4 put every boundary in reach. Three
checkpoint runs are a victim, a resume and a run that meets either of them, and the
recipe with three blocks runs into the limit of two. Four epochs of two clips put the
steps 0, 4 and 8 and any stop between them in one directory, so that pruning has something
to choose and a third run meets three checkpoints. The training variant of ArtifactSwap
(reverse rollback) is left to the theorem, which covers every constant.

The new instances are sized by the same rule. Three connections for two threads give two
that race and one that is refused; lengths 0, 2 and 3 against 3 bytes give a body that fits
alone and two that do not fit together. Clips of 1 to 17 samples lie on both sides of every
edge of a block of 3, a hop of 2 and a core of 8, and the resting states of the other parts are
never read. The networks have two of everything that is indexed (layers, heads, couplings,
stages, kernels, speakers), so that an index that is dropped, swapped or off by one is
seen; `LayoutsAgree` is evaluated at the program's own sizes. The kernels' tiles are scaled
to 4 and shapes run past two of them. Two calls are the least of which one can hold what
belongs to the other; one line fills the pipe, so a child that is not read is a child that
waits. Decoded sizes of 1 to 6 units lie on both sides of the limits of a mono file (3), of the
frames of a stereo file (3, so 4 units), of a stereo file and of a batch (5).

CHECK_DEADLOCK is FALSE where the system really stops: a finished replacement, and the
bounded number of training runs. In `conversion` deadlock is checked for the conversion
itself, which always goes on until it is over; its other parts may stop (a step of their own).

### Fairness

`FairSpec` assumes weak fairness of the owner thread (it is runnable whenever its
next step is; `WaitGpu` polls and is left by a cancellation), of the tail of a step,
of control handlers between unlock and answer, and of the restart, since `OrphansStop`
speaks of what happens once an operator or supervisor has started the service
again. A signalled child is assumed to reach its next safe point, which is what
`BlockCheckpoint`'s `PauseIsPrompt` is about, and a child without a control file to
end by itself. Nothing is assumed of a controlled child nobody signalled, of a
synchronous request that holds the GPU, or of clients.

`HttpFairness` assumes that threads are scheduled and that blocking calls end by their
deadlines, and that a compare-and-swap that could succeed again and again does once.
`PageFairness` assumes that the poll's timer fires and that the network does not fail for
ever. Neither assumes anything of a client or of a user. `RunnerFairness` assumes that the
thread of a call goes on once it has begun, nothing of a child, and neither that a read or a
wait fails. `ServingFairness` gives each part the fairness of its component.

### Findings

- `preview_orphan`: the constructor signals interrupted tasks of recipes audio-v1 and
  training-full-v1 only (`web_service.cpp:333`), so the child of a pitch preview
  keeps the GPU lock until it ends by itself; `docs/DESIGN.md:728` says that every
  interrupted record's control file is asked for a safe stop.
- `full_training_input`: `prepare_training_task` decides and copies without a lock
  (`web_service.cpp:1191`), and an upload that had already seen a free slot may swap
  the material in between; unprocessed clips are then recorded as preprocessed,
  against `specs/003-webui/spec.md:111-113`.
- `publish_lock`: `handle_publish` answers while it holds `material_mutex_`
  (`web_service.cpp:1414`), against `web_service.h:181-182`.
- `lost_candidate`: a run that ends between the checkpoint and the candidate of epoch
  50, 100 or 150 (`joint_full_training.cpp:214-215`) is resumed behind the candidate,
  which is then never exported; `docs/CLI.md:130-131` lists it as an output.

## 4. Proofs

Thirty-seven theorems hold for every value of the constants that satisfies the named
assumptions: `NoTaskAssumption`, `KindsAssumption`, `BoundsAssumption`, `SwapAssumption`,
`StoreAssumption`, `MaterialAssumption`, `RunnerAssumption`, `UploadsAssumption`,
`RecipesAssumption`, `HttpAssumption`, `CheckpointAssumption`, `AudioFilesAssumption`,
`SnapshotsAssumption`, `TrainingAssumption`, `PlanAssumption`, `ConversionAssumption`,
`StreamAssumption`, `JobsAssumption`, `FormatsAssumption`, `CasesAssumption`. They say that bounds are naturals (positive where nothing could
happen otherwise), that distinguished values are not members of the sets they stand
beside, that connections and task ids are finitely many (they are counted), that some
recipe needs the most blocks, that a mix is made from a song, that a shuffle permutes, that
the context and the core of the pitch windows are whole hops (they are constants of the
code), that the loudness of a clip's frames is ordered as naturals are, that a filtered clip
is longer than the filter's padding (the code returns a shorter one as it is), and that the
inputs of the stages and of the parsers are those `JobFits` and `CaseFits` describe. Every argument is an inductive
invariant, in named parts.

| Module | Theorem | Property |
|---|---|---|
| `TaskLifecycleProofs` | `TypeCorrect`, `SlotCorrect`, `ActiveCorrect` | `TypeOK`, `SlotHasOneOwner`, `OneActiveRecord` |
| | `StopIsFinal`, `RecordsAreTrue`, `ControlCorrect`, `OrphansAreTold`, `RecordedStays` | `AcceptedNeverSucceeds`, `RecordsHaveFiles`, `ControlIsOwn`, `OrphansAreSignalled`, `NothingIsUndone` (an action property) |
| | `ContractKept` | `KeepsContract`, the refinement of `TaskContract` |
| `DurableProofs` | `VoiceStaysWhole`, `DurableMaterialIsWhole` | `MaterialIsWhole`, of the component and of the composition |
| | `RunsAreClean`, `BatchesStayWhole`, `DurableChildrenAreTrue` | the parts of `ChildrenAreTrue`, and the property of the composition |
| `AudioTasksProofs` | `MarkersAreDurable`, `ResultsAreOwn`, `CleaningUpIsSafe`, `FailuresHaveCauses` | `MarkedIsDurable`, `ResultIsOwn`, and the action properties `CleanUpIsSafe`, `FailureHasCause` |
| `ServingProofs` | `AdmissionsAreExact`, `SubmissionsAreOnce` | `AdmissionIsExact`, `SubmittedOnce` |
| | `OldIsNeverLost`, `SwapIsAtomic` | `OldIsKept`, `AllOrNothing` of ArtifactSwap |
| | `NoLostUpdate`, `CompareIsSound`, `LimitsKept` | `AckedIsKept`, `RevisionNamesContent`, `LimitsHold` of TaskStore |
| `ConversionProofs` | `BlocksStayOwn`, `OperationsResume`, `FilesHold`, `SnapshotsHold`, `WholeConversion` | `BlocksAreOwn`, `StopsAndResumes`, `FilesAreTrue`, `SnapshotsAreWhole`, `ConversionIsWhole` |
| `StreamedAudioProofs` | `StreamsAreWhole`, `ReviewsAreHeard` | `StreamedAsWhole`, `ReviewIsHeard` |
| `FormatsProofs` | `InputsAreExact` | `InputIsExact` |
| `JointTrainingProofs` | `TrainingResumes`, `ServiceResumes`, `ProgressKept`, `StopHonoured` | `ResumeIsExact`, `ServiceCanResume`, and the action properties `ProgressIsKept`, `StopIsHonoured` |

- **TaskLifecycleProofs**. The inductive invariant is `TypeOK`, `Slot` and `ActiveOne`.
  `SlotHasOneOwner` is not inductive by itself: a step writes the record of the task it
  believes to own, so its attempt must be the record's, and the constructor's phases must
  exclude an owner. `OneActiveRecord` needs the case in which the latch is set: then the
  slot's record may already be settled while the slot is still taken, or still be
  active after it is freed, and what survives is that no other record is active.
  The outcomes add five layers. `Flow`: which kinds of work pass through which
  steps, with which stage, outcome and requests; a publication that was sealed is past
  every request. `Recs`: the record of the slot's task is active, of the slot's kind and not
  ahead of the slot's requests, and a task that may be resumed keeps its copies. `Results`: results, markers and
  accepted requests belong to attempts that have begun, and an attempt that is about to
  succeed has accepted nothing. `Channels`: control files and sources belong to attempts
  that have begun, the slot's is there exactly when its stages need it, and a handler that
  is under way carries a request that was accepted. `Children`: a
  child that outlived its service was told to stop, or its task is still in `todo`. No
  layer is inductive without the ones before it: whether a success contradicts an accepted
  request depends on where the owner is, and that on what its kind of work allows. The
  refinement is then one lemma per group of actions: what a record shows changes as
  `TaskContract` says, or not at all.
- **DurableProofs**. Voice: who is where holds which locks (`HoldsLocks`); without a swap
  under way, marker and directories are of one generation (`DiskFits`), and what a step has
  staged, a reader has found and a training has copied is compared with them. Runner: a
  pipe's writers and a lease's holders are the callers and the children that may have them,
  and a child is read to its end before it is reaped. Uploads: the files up to the one at
  hand are stored whole under their names. The composition of section 2 never mixes the
  parts, so each theorem carries over to it.
- **AudioTasksProofs**. A marker's digest is of a file that is safe, or harmed, or of a copy
  that the result stands in for; it is the one the recipe and the saved identity stand for; a stage
  that is still to do finds what it needs reused or done before it. What a clean-up
  has removed and a crash may bring back is what the marker says. `FailuresHaveCauses` reads this
  backwards: in each place where a task can fail, one of the causes must hold. For a model that
  is gone it needs `RequestFits` (a request that counts on the copy was made when it was there,
  so it has been cleaned up since), for a refused preview an induction of its own, `SeedInv`:
  without damage or a new voice the blocks and the lead are those of the first task's recipe,
  or a crash took the lead.
- **ServingProofs**. The counters are sums over threads. The sum is the cardinality of a set
  of pairs (`Units`), so that a step of one connection changes it by that connection's
  share, and what a connection holds follows from where it is. For the page: who can still
  send a request for an identifier, and that a request the service has denied can come to
  nothing. For ArtifactSwap: for each loop, what the paths already passed and those still
  ahead hold; in the rollback, for each path, which of the live place and the backup has
  the old version, and what `clean` still guarantees. For TaskStore: flock and the mutex leave
  one writer, whose base is the stored record until the rename; every candidate version
  contains the acknowledged updates; revision 0 means that there is no record; a record
  between its comparison and its rename replaces a retained one, is not retained, or has
  room, and nobody else can take it.
- **ConversionProofs**. Checkpoints: the run that holds a store's lock knows what it says,
  and a run that met no other knows the whole directory, which is why it is never turned
  away. Files: what an object remembers is what its file holds as long as the stamp is the
  same, so the portions of a read join without a gap. Snapshots: while the stamp is the one
  seen first and shows every write, header and copy are the file's. Without it, the witness is
  the file at the end of the first pass: if no write undoes another, a portion of the copy that
  the second pass finds in the file again held its place at that moment too. In a search every
  query is found, or lies ahead of a thread at a multiple of their number. The conversion:
  `convert_long` passes over all targets once, `QuietCorePlanner` goes to the next target
  that gives a cut, after the core before it is done; `NextCoreIs` (of StreamedAudioProofs)
  says that the planner, standing at the cut of some target, goes to the next cut of that
  pass, for every clip, loudness, chunk and query. It needs where each cut lies
  (`CutsForm`), by induction over the targets, and that targets which give no cut leave the
  pass as it was (`CutsStay`). The
  invariant then carries `AtCut`, the planner's place among the cuts, through windows, cores,
  pauses and deaths; what is renamed onto the target is the pass as a whole. `SegmentsFit`
  needs that chunk and query are whole hops, and `NextCoreIs` shows where: a cut lies on a
  hop, so around a target between two hops it may lie further ahead than the query.
- **StreamedAudioProofs**. A job runs in one step, so `StreamInv` only says that a result is
  its job's `Outcome`; the theorems are about what the loops compute. Each stage is one or
  two loops. Either the state after any number of turns has a closed form, and two loops with
  the same turns have the same states (`SameTurns`), or it stays in a set that every turn
  keeps (`LoopOf`); both by `InductionOf`, a set of naturals without a least counterexample.
  Resampling: what the native cache holds is the clip at its place, before and after every
  move. Filter: one recursion over a concatenation is two with the state carried, in both
  directions, and the padded ends are those of the whole clip. Pitch: windows cover the
  frames and always move on; a gap is swept once its end is known, from the last voiced frame
  on; a median needs a halo of half its length. Cores: the planner has refused the clip, has
  covered it, or stands at cuts of the targets the older conversion passed too, whose list
  only grows; it refuses only where a core longer than the bound follows. Review: the two loops
  agree at each correction, on the curve as on the refusal; a correction changes no frame outside its own range, so they are applied one after the other
  as the conversion does; the frame a suggested shift ends at lies near the curve around it,
  and two values an octave apart are not both near a third, so it is not suggested again.
- **FormatsProofs**. Each parser is a loop, made a function of the number of its turns, and
  a set that every turn keeps holds after the last. WAV: the cursor stays at the chunks as
  they were laid out, so what is found is the format and the data of the file. Tensors: in
  sorted order they follow one another without a gap, hence lie in the section and never on
  one another, and a stride is refused before it overflows. Numbers: a digit is refused
  before its addition would pass the limit. Parameters: nested comments are skipped to where
  the depth is back at nothing, and a quoted text is read back byte by byte. Multipart: what
  was read of any body spells that body again, and of an upload each part ends at its own
  delimiter, since no line inside it is one.
- **JointTrainingProofs**. One half is about data: the states of the uninterrupted training
  (`Ideal`, a recursive function) exist for any length, and each has its own step, learning
  rate and model and a permutation for its order. It is an induction, which the prover
  cannot do with the library's theorems (they take a predicate); here a set of naturals is
  shown to be all of them by its least counterexample, which the well-foundedness of `<`
  provides. The other half is the invariant `JointInv`: flock leaves one run at work; what
  it holds in memory is `Ideal` at its step, and so are the files at the steps in their
  names; a directory without a checkpoint is one that `--resume-initial` accepts; a run of
  the service that met no other knows the furthest checkpoint. `ResumeIsExact` is not
  inductive by itself: the identity of a directory changes only while it holds no checkpoint,
  or its files would be another recipe's. The last two clauses serve `ServiceCanResume` and
  `StopIsHonoured`.

Only model-checked: liveness (`OrphansStop`, `AcceptedSettles`, `NothingHangs`), for which
there is no proof rule here; `TrainedIsHeard` and `KernelsAgree`, which say that sums over
products of indices are the same sums.

## 5. Not modelled

- Floating point: rounding, losses, backward passes of whole networks, the optimiser,
  distances and their order in the index, the GPU search.
- The content encoders, the pitch networks, the separators and the VAD: one
  implementation each of an external network, with nothing in the repository to agree with.
- `infer_stream`, debug entry points, elementwise and reduction kernels.
- HTTP heads and answers, listings, downloads, renames of a task; the filter and the
  splitting of log lines; a child between its fork and its exec; the owner and mode checks
  of control files.
- Read-only inspection of old checkpoints and the byte limit beside the block limit.
- The studio and pitch review pages, option parsing of the CLIs, benchmarks and probes.

## 6. Plan

1. *Done*: the modules above, their twelve runs and the theorems of section 4.
2. Proofs next: the kernels, each of which needs that its indices are numbers in a mixed base.
3. Models next: the tape of the autograd graph, and the reading of old checkpoints.
