--------------------------- MODULE TaskLifecycle ---------------------------
(***************************************************************************)
(* The durable task lifecycle of vc_serve (tools/web/web_service.cpp): one *)
(* job slot guarded by job_.mu, the task records TaskStore keeps, the      *)
(* control file of every execution attempt, the thread that owns the slot, *)
(* the CLI child it runs, the HTTP handlers that submit, pause, cancel,    *)
(* resume and clean up, and crashes and restarts of the service.           *)
(*                                                                         *)
(* One action is one critical section of job_.mu or one file, process or   *)
(* GPU-mutex step between two of them.  Any save of a record may fail      *)
(* before its rename or be reported as failed after it.                    *)
(*                                                                         *)
(* Operators marked FAULT are wrong on purpose: no action uses them, and   *)
(* the project's mutants put them in place of the operator they precede.   *)
(***************************************************************************)
EXTENDS Integers, FiniteSets

CONSTANTS
    Tasks,        \* task identifiers a client may submit
    NoTask,       \* "no task": an empty slot, or a child of a synchronous request
    Kinds,        \* the kinds of work that are submitted
    AudioStages,  \* reusable stages of an audio task (separation, cleanup, ...)
    MaxAttempt,   \* bound: execution attempts per task
    MaxHandlers,  \* bound: control handlers that have yet to use their source
    MaxCrashes    \* bound: crashes of the service

Audio == {"audio", "preview"}      \* recovery audio-v1, audio-pitch-preview-v1
Training == {"full", "plain"}      \* training-full-v1, the older modes
AllKinds == Audio \cup Training \cup {"step"}

ASSUME NoTaskAssumption == NoTask \notin Tasks
ASSUME KindsAssumption == Kinds \subseteq AllKinds
ASSUME BoundsAssumption ==
    AudioStages \in Nat \ {0} /\ MaxAttempt \in Nat \ {0} /\ MaxHandlers \in Nat \ {0}
    /\ MaxCrashes \in Nat

Attempts == 1..MaxAttempt
ActiveStates == {"preparing", "queued", "running", "pause_requested"}
SettledStates == {"paused", "interrupted", "succeeded", "failed", "cancelled"}
RecordStates == {"none"} \cup ActiveStates \cup SettledStates

\* clips, training and indexing; a step is one child; audio work has AudioStages
LastStage(k) == IF k \in Training THEN 3 ELSE IF k = "step" THEN 1 ELSE AudioStages
MaxStage == IF AudioStages > 3 THEN AudioStages ELSE 3

\* the children that are given the attempt's control file (--pause-file,
\* --cancel-file); the others always run to their own end
Controlled(k, n) == k \in Audio \/ (k = "full" /\ n <= 2) \/ (k = "plain" /\ n = 2)

VARIABLES
    phase,     \* the service process: down, marking, signalling (constructor), up
    todo,      \* interrupted tasks the constructor has still to signal
    latch,     \* task_storage_failed_
    rec,       \* the task records on disk; state "none" is no record
    copies,    \* the task's private input copies are on disk
    ctl,       \* the content of the control file of every task and attempt
    done,      \* how many stages of the task have a completion marker
    res,       \* the attempt that installed the task's result; 0 is no result
    job,       \* job_
    own,       \* the request thread or worker that owns the reservation
    src,       \* the TrainingCancelSource of every task and attempt
    procs,     \* live CLI children: each holds the flock on .gpu-worker.lock
    gpu,       \* holder of gpu_mutex_
    pend,      \* control handlers between their lock section and their answer
    accepted,  \* history: the attempts for which a pause or cancel was accepted
    crashes    \* number of crashes so far

durable == <<rec, copies, ctl, done, res>>
memory == <<latch, job, own, src, gpu, pend>>
vars == <<phase, todo, durable, memory, procs, accepted, crashes>>

NoRecord == [state |-> "none", att |-> 0, from |-> 0, kind |-> "step",
             recov |-> FALSE, pruned |-> FALSE, noted |-> FALSE]
Idle == [pc |-> "idle", task |-> NoTask, att |-> 0, gen |-> 0, k |-> 1,
         out |-> "none", exit |-> "none", bad |-> FALSE]
NoJob == [running |-> FALSE, task |-> NoTask, att |-> 1, gen |-> 0,
          kind |-> "none", stage |-> "idle", pause |-> FALSE, cancel |-> FALSE,
          cerr |-> FALSE, cancelled |-> FALSE, recov |-> FALSE, src |-> FALSE]
NoSources == [t \in Tasks |-> [a \in Attempts |-> "none"]]

Init ==
    /\ phase = "down" /\ todo = {} /\ latch = FALSE
    /\ rec = [t \in Tasks |-> NoRecord]
    /\ copies = [t \in Tasks |-> FALSE]
    /\ ctl = [t \in Tasks |-> [a \in Attempts |-> "absent"]]
    /\ done = [t \in Tasks |-> 0]
    /\ res = [t \in Tasks |-> 0]
    /\ job = NoJob /\ own = Idle /\ src = NoSources
    /\ procs = {} /\ gpu = "free" /\ pend = {}
    /\ accepted = {} /\ crashes = 0

----------------------------------------
(* Task records.                                                           *)

\* The saves of prepared parameters: their failure is not latched.
SaveQuiet(t, r, ok) ==
    /\ rec' \in (IF ok THEN {} ELSE {rec}) \cup {[rec EXCEPT ![t] = r]}
    /\ UNCHANGED latch

\* TaskStore::save seen by a caller that latches task_storage_failed_: the save
\* is done, or it throws with the old or with the new record on disk.
Save(t, r, ok) ==
    \/ /\ ok
       /\ rec' = [rec EXCEPT ![t] = r]
       /\ UNCHANGED latch
    \/ /\ ~ok
       /\ rec' \in {rec, [rec EXCEPT ![t] = r]}
       /\ latch' = TRUE

\* persist_job_locked: nothing is written once the latch is set.
PersistJob(state, ok) ==
    IF latch THEN ~ok /\ UNCHANGED <<rec, latch>>
    ELSE Save(job.task, [rec[job.task] EXCEPT !.state = state], ok)

----------------------------------------
(* The owner's control flow.                                               *)

Goto(pc) == own' = [own EXCEPT !.pc = pc]
\* FAULT
ReturnWithoutFinish(pc) == own' = [own EXCEPT !.pc = "idle", !.out = "error"]
Fail(pc) == own' = [own EXCEPT !.pc = pc, !.out = "error"]
Leave(out) == own' = [own EXCEPT !.pc = "finish", !.out = out]

ChannelOpen == own.att \in Attempts /\ src[own.task][own.att] \in {"open", "bad"}

\* Leaving the worker's scope: an audio or full-training worker gives the GPU
\* back first and then closes its channel; plain training closes it first.
Unwind(out) ==
    /\ own' = [own EXCEPT !.pc = IF ChannelOpen THEN "close" ELSE "finish", !.out = out]
    /\ gpu' = IF gpu = "owner" /\ job.kind # "step" /\ (job.kind # "plain" \/ ~ChannelOpen)
              THEN "free" ELSE gpu

Blocked == job.gen # own.gen \/ job.cerr
\* FAULT
PauseAsked == job.pause
\* FAULT
CancelAsked == job.recov /\ job.cancel
StopAsked == job.pause \/ (job.recov /\ job.cancel)

\* Entering a stage: the in-memory stage and the record change together.
EnterStage(stage, next) ==
    /\ job' = [job EXCEPT !.stage = stage]
    /\ \E ok \in BOOLEAN :
          /\ PersistJob("running", ok)
          /\ IF ok THEN Goto(next) /\ UNCHANGED gpu ELSE Unwind("error")

AudioBoundary(stage, next) ==
    \/ Blocked /\ Unwind("error") /\ UNCHANGED <<rec, latch, job>>
    \/ ~Blocked /\ StopAsked /\ Unwind("paused") /\ UNCHANGED <<rec, latch, job>>
    \/ ~Blocked /\ ~StopAsked /\ EnterStage(stage, next)

TrainingCheckpoint(stage, next) ==
    \/ (Blocked \/ job.cancel) /\ Unwind("cancelled") /\ UNCHANGED <<rec, latch, job>>
    \/ ~Blocked /\ ~job.cancel /\ EnterStage(stage, next)

Boundary(stage, next) ==
    /\ IF job.kind = "plain" THEN TrainingCheckpoint(stage, next) ELSE AudioBoundary(stage, next)
    /\ UNCHANGED <<phase, todo, copies, ctl, done, res, src, procs, pend, accepted, crashes>>

AtPc(pc) == phase = "up" /\ own.pc = pc

----------------------------------------
(* Submission: reserve_job and the request thread's preparation.           *)

ReserveJob(t, k) ==
    /\ phase = "up" /\ ~job.running /\ ~latch
    /\ rec[t].state = "none"
    /\ \E ok \in BOOLEAN :
        /\ Save(t, [NoRecord EXCEPT !.state = "queued", !.att = 1, !.kind = k], ok)
        /\ IF ok
           THEN /\ job' = [NoJob EXCEPT !.running = TRUE, !.task = t, !.gen = job.gen + 1,
                                        !.kind = k, !.stage = "queued"]
                /\ own' = [Idle EXCEPT !.pc = "prepare", !.task = t, !.att = 1,
                                       !.gen = job.gen + 1]
           ELSE UNCHANGED <<job, own>>
    /\ UNCHANGED <<phase, todo, copies, ctl, done, res, src, procs, gpu, pend, accepted, crashes>>

\* start_audio_task: private copies of the inputs, then the recovery recipe.
PrepareAudio ==
    /\ AtPc("prepare") /\ job.kind \in Audio
    /\ copies' \in {copies, [copies EXCEPT ![own.task] = TRUE]}
    /\ \E ok \in BOOLEAN :
        IF copies'[own.task]
        THEN /\ SaveQuiet(own.task, [rec[own.task] EXCEPT !.recov = TRUE], ok)
             /\ IF ok THEN Goto("create") ELSE Fail("finish")
        ELSE UNCHANGED <<rec, latch>> /\ Fail("finish")
    /\ UNCHANGED <<phase, todo, ctl, done, res, job, src, procs, gpu, pend, accepted, crashes>>

\* handle_train retains the request's parameters in the new record.
RetainParameters ==
    /\ AtPc("prepare") /\ job.kind \in Training
    /\ Goto("material") \/ Fail("finish")
    /\ UNCHANGED <<phase, todo, durable, latch, job, src, procs, gpu, pend, accepted, crashes>>

\* handle_train without uploads has no material to commit.
NoMaterial ==
    /\ AtPc("material")
    /\ Goto("handoff")
    /\ UNCHANGED <<phase, todo, durable, latch, job, src, procs, gpu, pend, accepted, crashes>>

\* handle_train with uploads: commit them under the GPU mutex, or not at all.
CommitMaterial ==
    /\ AtPc("material")
    /\ IF gpu # "free" THEN Leave("error") /\ UNCHANGED <<rec, latch, job>>
       ELSE IF Blocked \/ job.cancel THEN Leave("cancelled") /\ UNCHANGED <<rec, latch, job>>
       ELSE /\ job' = [job EXCEPT !.stage = "busy"]
            /\ \E ok \in BOOLEAN :
                 /\ PersistJob("running", ok)
                 /\ IF ok THEN Goto("handoff") \/ Fail("finish") ELSE Fail("finish")
    /\ UNCHANGED <<phase, todo, copies, ctl, done, res, src, procs, gpu, pend, accepted, crashes>>

\* handle_train's last cancellation check before a worker is started.
HandOff ==
    /\ AtPc("handoff")
    /\ IF job.cancel THEN Leave("cancelled")
       ELSE Goto(IF job.kind = "full" THEN "fix" ELSE "enqueue")
    /\ UNCHANGED <<phase, todo, durable, latch, job, src, procs, gpu, pend, accepted, crashes>>

\* prepare_training_task: fixed clips and models, then the recovery recipe.
PrepareTraining ==
    /\ AtPc("fix")
    /\ copies' \in {copies, [copies EXCEPT ![own.task] = TRUE]}
    /\ \E ok \in BOOLEAN :
        IF copies'[own.task]
        THEN /\ SaveQuiet(own.task, [rec[own.task] EXCEPT !.recov = TRUE], ok)
             /\ job' = [job EXCEPT !.recov = ok]
             /\ IF ok THEN Goto("enqueue") ELSE Fail("finish")
        ELSE UNCHANGED <<rec, latch, job>> /\ Fail("finish")
    /\ UNCHANGED <<phase, todo, ctl, done, res, src, procs, gpu, pend, accepted, crashes>>

\* FAULT
AlwaysQueued == "queued"
QueuedState == IF job.pause THEN "pause_requested" ELSE "queued"

\* set_stage("queued"), then the worker thread; either may fail.
SetQueued ==
    /\ AtPc("enqueue")
    /\ job' = [job EXCEPT !.stage = "queued"]
    /\ \E ok \in BOOLEAN :
        /\ PersistJob(QueuedState, ok)
        /\ \/ ok /\ Goto(IF job.kind = "full" THEN "create" ELSE "gpu")
           \/ Fail("finish")
    /\ UNCHANGED <<phase, todo, copies, ctl, done, res, src, procs, gpu, pend, accepted, crashes>>

\* handle_step's worker: GPU at once or not at all, then set_stage("step:...").
StartStep ==
    /\ AtPc("prepare") /\ job.kind = "step"
    /\ IF gpu # "free" THEN Fail("finish") /\ UNCHANGED <<rec, latch, job, gpu>>
       ELSE /\ gpu' = "owner"
            /\ job' = [job EXCEPT !.stage = "busy"]
            /\ \E ok \in BOOLEAN :
                 PersistJob("running", ok) /\ IF ok THEN Goto("run") ELSE Fail("finish")
    /\ UNCHANGED <<phase, todo, copies, ctl, done, res, src, procs, pend, accepted, crashes>>

----------------------------------------
(* The worker: control channel, GPU, stages.                               *)

\* The channel's file is created exclusively; a leftover file is an error.
CreateChannel ==
    /\ AtPc("create")
    /\ \/ /\ ctl[own.task][own.att] = "absent"
          /\ ctl' = [ctl EXCEPT ![own.task][own.att] = "0"]
          /\ src' = [src EXCEPT ![own.task][own.att] = "open"]
          /\ Goto("register") /\ UNCHANGED gpu
       \/ Unwind("error") /\ UNCHANGED <<ctl, src>>
    /\ UNCHANGED <<phase, todo, rec, copies, done, res, latch, job, procs, pend, accepted, crashes>>

\* Publishing the source in job_; plain training re-checks for a cancellation
\* that came between its stage boundary and this registration.
Register ==
    /\ AtPc("register")
    /\ IF job.kind = "plain"
       THEN IF job.gen # own.gen \/ job.cancel
            THEN Unwind("cancelled") /\ UNCHANGED job
            ELSE job' = [job EXCEPT !.src = TRUE] /\ Goto("run") /\ UNCHANGED gpu
       ELSE job' = [job EXCEPT !.src = TRUE] /\ Goto("gpu") /\ UNCHANGED gpu
    /\ UNCHANGED <<phase, todo, durable, latch, src, procs, pend, accepted, crashes>>

TakeGpu ==
    /\ AtPc("gpu") /\ gpu = "free"
    /\ gpu' = "owner" /\ Goto("check")
    /\ UNCHANGED <<phase, todo, durable, latch, job, src, procs, pend, accepted, crashes>>

\* One poll of the wait loop while somebody else holds the GPU mutex.
WaitGpu ==
    /\ AtPc("gpu") /\ gpu # "free"
    /\ IF job.kind = "plain" THEN job.cancel /\ Unwind("cancelled")
       ELSE \/ Blocked /\ Unwind("error")
            \/ ~Blocked /\ StopAsked /\ Unwind("paused")
    /\ UNCHANGED <<phase, todo, durable, latch, job, src, procs, pend, accepted, crashes>>

Check == AtPc("check") /\ Boundary("busy", "stage")

BeginStage ==
    /\ AtPc("stage")
    /\ Boundary("busy", IF job.kind = "plain" /\ own.k = 2 THEN "create" ELSE "run")

\* FAULT
EndlessStages == [own EXCEPT !.pc = "stage", !.k = own.k + 1, !.exit = "none", !.bad = FALSE]
NextStage == IF own.k < LastStage(job.kind)
             THEN [own EXCEPT !.pc = "stage", !.k = own.k + 1, !.exit = "none", !.bad = FALSE]
             ELSE [own EXCEPT !.pc = IF job.kind = "step" THEN "publish" ELSE "seal"]

\* FAULT
NeverCompleted == FALSE
Completed == job.kind \in Audio \cup {"full"} /\ done[own.task] >= own.k

\* A stage with a verified completion marker is not run again.
ReuseStage ==
    /\ AtPc("run") /\ Completed
    /\ own' = NextStage
    /\ UNCHANGED <<phase, todo, durable, latch, job, src, procs, gpu, pend, accepted, crashes>>

MyChild == [task |-> own.task, att |-> own.att]

\* ProcessRunner::run refuses to start a child while another one, possibly
\* left by an earlier service, holds the GPU lock file.
Launch ==
    /\ AtPc("run") /\ ~Completed
    /\ \/ procs = {} /\ procs' = {MyChild} /\ Goto("wait") /\ UNCHANGED gpu
       \/ Unwind("error") /\ UNCHANGED procs
    /\ UNCHANGED <<phase, todo, durable, latch, job, src, pend, accepted, crashes>>

Signalled(p) == p.task \in Tasks /\ ctl[p.task][p.att] = "1"
StopsOn(p) == /\ Signalled(p)
              /\ own.pc = "wait" /\ MyChild = p => Controlled(job.kind, own.k)

\* A child ends by itself, or with status 2 at a safe point after it has seen
\* the control file set.  An orphan has no parent that reads its status.
ChildExit(p) ==
    /\ p \in procs
    /\ procs' = procs \ {p}
    /\ \E code \in {"ok", "fail", "stop"} :
        /\ code = "stop" => StopsOn(p)
        /\ own' = IF own.pc = "wait" /\ MyChild = p THEN [own EXCEPT !.exit = code] ELSE own
    /\ gpu' = IF p.task = NoTask /\ gpu = "sync" THEN "free" ELSE gpu
    /\ UNCHANGED <<phase, todo, durable, latch, job, src, pend, accepted, crashes>>

\* observe_progress cannot store a progress line: the runner notes an I/O error
\* and still drains and reaps the child.
ProgressFault ==
    /\ AtPc("wait") /\ own.exit = "none" /\ ~own.bad
    /\ own' = [own EXCEPT !.bad = TRUE]
    /\ latch' = TRUE
    /\ UNCHANGED <<phase, todo, durable, job, src, procs, gpu, pend, accepted, crashes>>

\* run_audio_process, then the stage's completion marker.
Reap ==
    /\ AtPc("wait") /\ own.exit # "none" /\ job.kind # "plain"
    /\ IF own.exit = "ok" /\ ~own.bad
       THEN \/ /\ own' = NextStage /\ UNCHANGED gpu
               /\ done' = IF job.kind = "step" THEN done ELSE [done EXCEPT ![own.task] = own.k]
            \/ Unwind("error") /\ UNCHANGED done
       ELSE /\ Unwind(IF own.exit = "stop" /\ ~own.bad /\ StopAsked /\ ~Blocked
                      THEN "paused" ELSE "error")
            /\ UNCHANGED done
    /\ UNCHANGED <<phase, todo, rec, copies, ctl, res, latch, job, src, procs, pend, accepted, crashes>>

\* run_training: the channel's scope ends with the training child.
ReapPlain ==
    /\ AtPc("wait") /\ own.exit # "none" /\ job.kind = "plain"
    /\ IF ChannelOpen THEN Goto("close") /\ UNCHANGED gpu
       ELSE IF own.exit = "ok" /\ ~own.bad THEN own' = NextStage /\ UNCHANGED gpu
       ELSE Unwind("error")
    /\ UNCHANGED <<phase, todo, durable, latch, job, src, procs, pend, accepted, crashes>>

\* TrainingCancelSource::close(); the descriptor is gone even if close fails.
CloseChannel ==
    /\ AtPc("close")
    /\ src' \in {[src EXCEPT ![own.task][own.att] = s] :
                   s \in {"closedbad"} \cup
                         (IF src[own.task][own.att] = "open" THEN {"closed"} ELSE {})}
    /\ Goto("retire")
    /\ UNCHANGED <<phase, todo, durable, latch, job, procs, gpu, pend, accepted, crashes>>

\* The rest of ~TrainingCancelLease, under job_.mu.
Retire ==
    /\ AtPc("retire")
    /\ job' = IF job.gen # own.gen THEN job
              ELSE [job EXCEPT !.cerr = @ \/ src[own.task][own.att] = "closedbad", !.src = FALSE]
    /\ Goto(IF job.kind = "plain" THEN "judge"
            ELSE IF job.kind = "full" /\ own.out = "paused" THEN "settle" ELSE "finish")
    /\ UNCHANGED <<phase, todo, durable, latch, src, procs, gpu, pend, accepted, crashes>>

\* run_training after the training child: exit status 2 means cancelled only if
\* a cancellation was requested, and a channel error wins over both.
Judge ==
    /\ AtPc("judge")
    /\ \/ own.out # "none" /\ Unwind(own.out)
       \/ /\ own.out = "none"
          /\ IF Blocked \/ own.bad \/ own.exit = "fail" THEN Unwind("error")
             ELSE IF own.exit = "stop" THEN Unwind(IF job.cancel THEN "cancelled" ELSE "error")
             ELSE own' = NextStage /\ UNCHANGED gpu
    /\ UNCHANGED <<phase, todo, durable, latch, job, src, procs, pend, accepted, crashes>>

\* run_training_task's handler of OperationPaused, after the channel is gone.
Settle ==
    /\ AtPc("settle")
    /\ Leave(IF job.cancel THEN "cancelled" ELSE "paused")
    /\ UNCHANGED <<phase, todo, durable, latch, job, src, procs, gpu, pend, accepted, crashes>>

\* The boundary into the stage no control request can interrupt.
Seal == AtPc("seal") /\ Boundary("final", "publish")

\* publish_result, replace_training_artifacts, replace_step_artifacts.
Publish ==
    /\ AtPc("publish")
    /\ \/ res' = [res EXCEPT ![own.task] = own.att] /\ Unwind("ok")
       \/ UNCHANGED res /\ Unwind("error")
    /\ UNCHANGED <<phase, todo, rec, copies, ctl, done, latch, job, src, procs, pend, accepted, crashes>>

----------------------------------------
(* Finalization: the last lock section of every owner.                     *)

\* FAULT
UncheckedOutcome == IF own.out = "paused" THEN "paused" ELSE "succeeded"
AudioOutcome == IF job.cerr \/ own.out = "error" THEN "failed"
                ELSE IF own.out = "paused" THEN "paused" ELSE "succeeded"

\* finish_audio_task writes whatever the latch says.
FinishAudio ==
    /\ AtPc("finish") /\ job.kind \in Audio /\ job.gen = own.gen
    /\ \E ok \in BOOLEAN : Save(own.task, [rec[own.task] EXCEPT !.state = AudioOutcome], ok)
    /\ job' = [job EXCEPT !.running = FALSE]
    /\ own' = Idle
    /\ UNCHANGED <<phase, todo, copies, ctl, done, res, src, procs, gpu, pend, accepted, crashes>>

FinishTraining ==
    /\ AtPc("finish") /\ job.kind \in Training /\ job.gen = own.gen
    /\ LET out == IF job.cerr THEN "error" ELSE own.out
           state == CASE out = "paused" -> "paused" [] out = "cancelled" -> "cancelled"
                      [] out = "error" -> "failed" [] OTHER -> "succeeded"
       IN /\ \E ok \in BOOLEAN : PersistJob(state, ok)
          /\ job' = [job EXCEPT !.running = FALSE,
                                !.cancelled = ~latch' /\ out = "cancelled",
                                !.stage = IF latch' THEN "failed" ELSE state]
    /\ own' = Idle
    /\ UNCHANGED <<phase, todo, copies, ctl, done, res, src, procs, gpu, pend, accepted, crashes>>

\* finish() for a step: the worker still holds the GPU when the slot is free.
FinishStep ==
    /\ AtPc("finish") /\ job.kind = "step" /\ job.gen = own.gen
    /\ LET state == IF own.out = "error" THEN "failed" ELSE "succeeded"
       IN /\ \E ok \in BOOLEAN : PersistJob(state, ok)
          /\ job' = [job EXCEPT !.running = FALSE, !.stage = state]
    /\ gpu' = IF gpu = "owner" THEN "tail" ELSE gpu
    /\ own' = Idle
    /\ UNCHANGED <<phase, todo, copies, ctl, done, res, src, procs, pend, accepted, crashes>>

\* The finished step worker leaves run_step's scope.
StepTail ==
    /\ phase = "up" /\ gpu = "tail" /\ gpu' = "free"
    /\ UNCHANGED <<phase, todo, durable, latch, job, own, src, procs, pend, accepted, crashes>>

----------------------------------------
(* Control requests.                                                       *)

Pausable == job.kind \in Audio \/ job.recov
PauseAllowed == Pausable /\ job.stage # "final"

\* FAULT
CancelAtAnyStage == job.kind \in Training /\ ~(job.recov /\ job.att > 1)
CancelAllowed == /\ job.kind \in Training /\ ~(job.recov /\ job.att > 1)
                 /\ job.stage # "final"

\* A handler keeps the slot's source, if there is one, for use after the unlock.
\* FAULT
NoRequest(op) == pend
Request(op) ==
    IF job.src THEN pend \cup {[op |-> op, task |-> job.task, att |-> job.att, st |-> "deliver"]}
    ELSE pend

\* /api/task/pause, first lock section.  A failed save only makes the answer
\* "durable": false; the request itself stands.
Pause ==
    /\ phase = "up" /\ job.running /\ PauseAllowed
    /\ Cardinality(pend) < MaxHandlers
    /\ job' = [job EXCEPT !.pause = TRUE]
    /\ \E ok \in BOOLEAN : PersistJob("pause_requested", ok)
    /\ pend' = Request("pause")
    /\ accepted' = accepted \cup {<<job.task, job.att>>}
    /\ UNCHANGED <<phase, todo, copies, ctl, done, res, own, src, procs, gpu, crashes>>

\* /api/train/cancel; a resumed training attempt is refused.
Cancel ==
    /\ phase = "up" /\ job.running /\ CancelAllowed
    /\ Cardinality(pend) < MaxHandlers
    /\ job' = [job EXCEPT !.cancel = TRUE]
    /\ pend' = Request("cancel")
    /\ accepted' = accepted \cup {<<job.task, job.att>>}
    /\ UNCHANGED <<phase, todo, durable, latch, own, src, procs, gpu, crashes>>

\* The execution whose source the handler kept.
\* FAULT
CurrentTarget(d) == [task |-> job.task, att |-> job.att]
Target(d) == [task |-> d.task, att |-> d.att]

\* TrainingCancelSource::request(), outside job_.mu: the handler may run it
\* long after the attempt it was meant for has ended.
Deliver(d) ==
    /\ phase = "up" /\ d \in pend /\ d.st = "deliver"
    /\ LET t == Target(d).task
           a == Target(d).att
           s == src[t][a]
           failed == {[d EXCEPT !.st = "report"]}
       IN \/ /\ s = "open"
             /\ ctl' = [ctl EXCEPT ![t][a] = "1"]
             /\ pend' = pend \ {d} /\ UNCHANGED src
          \/ /\ s = "open" /\ ctl[t][a] = "0"
             /\ src' = [src EXCEPT ![t][a] = "bad"]
             /\ pend' = (pend \ {d}) \cup failed /\ UNCHANGED ctl
          \/ /\ s # "open"
             /\ pend' = (pend \ {d}) \cup (IF s \in {"bad", "closedbad"} THEN failed ELSE {})
             /\ UNCHANGED <<ctl, src>>
    /\ UNCHANGED <<phase, todo, rec, copies, done, res, latch, job, own, procs, gpu, accepted, crashes>>

\* FAULT
SameTask(d) == job.task = d.task
SameExecution(d) == job.task = d.task /\ job.att = d.att

\* After a failed delivery the pause handler marks the slot if it still shows
\* the same execution; the cancel handler only answers 500.
Report(d) ==
    /\ phase = "up" /\ d \in pend /\ d.st = "report"
    /\ pend' = pend \ {d}
    /\ job' = IF d.op = "pause" /\ SameExecution(d) THEN [job EXCEPT !.cerr = TRUE] ELSE job
    /\ UNCHANGED <<phase, todo, durable, latch, own, src, procs, gpu, accepted, crashes>>

\* guard_task_storage at a boundary or on a progress line: the owner's thread
\* turns a full disk into a pause of its own task.
GuardStorage ==
    /\ phase = "up" /\ own.pc \in {"gpu", "check", "stage", "seal", "wait"}
    /\ own.pc = "wait" => own.exit = "none" /\ ~own.bad
    /\ job.gen = own.gen /\ job.running /\ PauseAllowed /\ ~job.pause
    /\ LET t == own.task
           a == own.att
           Stop == IF own.pc = "wait" THEN own' = [own EXCEPT !.bad = TRUE] /\ UNCHANGED gpu
                   ELSE Unwind("error")
       IN \E ok \in BOOLEAN :
          /\ PersistJob("pause_requested", ok)
          /\ \/ /\ ok /\ src[t][a] = "open"
                /\ ctl' = [ctl EXCEPT ![t][a] = "1"]
                /\ job' = [job EXCEPT !.pause = TRUE]
                /\ UNCHANGED <<own, src, gpu>>
             \/ /\ ok /\ (src[t][a] = "bad" \/ ctl[t][a] = "0")
                /\ src' = [src EXCEPT ![t][a] = "bad"]
                /\ job' = [job EXCEPT !.pause = TRUE, !.cerr = TRUE]
                /\ Stop /\ UNCHANGED ctl
             \/ /\ ~ok
                /\ job' = [job EXCEPT !.pause = TRUE]
                /\ Stop /\ UNCHANGED <<ctl, src>>
    /\ UNCHANGED <<phase, todo, copies, done, res, procs, pend, accepted, crashes>>

\* FAULT
SameAttempt(t) == rec[t].att
NextAttempt(t) == rec[t].att + 1

\* FAULT
AnySettled(t) == rec[t].state \in SettledStates
Resumable(t) == \/ rec[t].state \in {"paused", "interrupted", "failed"}
                \/ rec[t].state = "cancelled" /\ rec[t].kind = "full"

\* /api/task/resume: a new attempt is on disk before the slot shows it.
Resume(t) ==
    /\ phase = "up" /\ ~latch /\ ~job.running
    /\ rec[t].recov /\ rec[t].att < MaxAttempt
    /\ Resumable(t)
    /\ \E ok \in BOOLEAN :
        /\ Save(t, [rec[t] EXCEPT !.state = "queued", !.att = NextAttempt(t), !.from = rec[t].att,
                                  !.noted = FALSE], ok)
        /\ IF ok
           THEN /\ job' = [NoJob EXCEPT !.running = TRUE, !.task = t, !.att = NextAttempt(t),
                             !.gen = job.gen + 1, !.kind = rec[t].kind, !.stage = "queued",
                             !.recov = rec[t].kind = "full"]
                /\ \E pc \in {"create", "finish"} :
                     own' = [Idle EXCEPT !.pc = pc, !.task = t, !.att = NextAttempt(t),
                               !.gen = job.gen + 1,
                               !.out = IF pc = "finish" THEN "error" ELSE "none"]
           ELSE UNCHANGED <<job, own>>
    /\ UNCHANGED <<phase, todo, copies, ctl, done, res, src, procs, gpu, pend, accepted, crashes>>

Cleanable(t) == rec[t].state = "succeeded"

\* /api/task/cleanup: the copies go before the record says so.
Cleanup(t) ==
    /\ phase = "up" /\ ~job.running
    /\ Cleanable(t) /\ ~rec[t].pruned
    /\ copies' = [copies EXCEPT ![t] = FALSE]
    /\ \E ok \in BOOLEAN : Save(t, [rec[t] EXCEPT !.pruned = TRUE], ok)
    /\ UNCHANGED <<phase, todo, ctl, done, res, job, own, src, procs, gpu, pend, accepted, crashes>>

\* A synchronous convert or preprocess request: GPU mutex and child, no record.
SyncRequest ==
    /\ phase = "up" /\ gpu = "free" /\ procs = {}
    /\ gpu' = "sync" /\ procs' = {[task |-> NoTask, att |-> 0]}
    /\ UNCHANGED <<phase, todo, durable, latch, job, own, src, pend, accepted, crashes>>

----------------------------------------
(* Crash and restart.                                                      *)

\* The process dies: memory is lost, files and running children stay.
Crash ==
    /\ phase # "down" /\ crashes < MaxCrashes
    /\ crashes' = crashes + 1 /\ phase' = "down" /\ todo' = {}
    /\ latch' = FALSE /\ job' = NoJob /\ own' = Idle /\ src' = NoSources
    /\ gpu' = "free" /\ pend' = {}
    /\ UNCHANGED <<durable, procs, accepted>>

Start ==
    /\ phase = "down" /\ phase' = "marking"
    /\ UNCHANGED <<todo, durable, memory, procs, accepted, crashes>>

\* recover_interrupted, one record at a time.
MarkInterrupted(t) ==
    /\ phase = "marking" /\ rec[t].state \in ActiveStates
    /\ rec' = [rec EXCEPT ![t].state = "interrupted", ![t].noted = FALSE]
    /\ UNCHANGED <<phase, todo, copies, ctl, done, res, memory, procs, accepted, crashes>>

\* FAULT
OnlyTraining == {t \in Tasks : rec[t].state = "interrupted" /\ rec[t].kind = "full"}
SignalTargets == {t \in Tasks : /\ rec[t].state = "interrupted" /\ rec[t].recov
                                /\ rec[t].kind \in {"audio", "full"}}

MarkingDone ==
    /\ phase = "marking" /\ \A t \in Tasks : rec[t].state \notin ActiveStates
    /\ phase' = "signalling" /\ todo' = SignalTargets
    /\ UNCHANGED <<durable, memory, procs, accepted, crashes>>

\* stop_interrupted_execution on the attempt's own file; a missing file is fine
\* and a file that cannot be written is noted in the record.
SignalInterrupted(t) ==
    /\ phase = "signalling" /\ t \in todo
    /\ todo' = todo \ {t}
    /\ LET a == rec[t].att
       IN \/ ctl[t][a] = "absent" /\ UNCHANGED <<ctl, rec>>
          \/ ctl[t][a] # "absent" /\ ctl' = [ctl EXCEPT ![t][a] = "1"] /\ UNCHANGED rec
          \/ ctl[t][a] # "absent" /\ rec' = [rec EXCEPT ![t].noted = TRUE] /\ UNCHANGED ctl
    /\ UNCHANGED <<phase, copies, done, res, memory, procs, accepted, crashes>>

Ready ==
    /\ phase = "signalling" /\ todo = {} /\ phase' = "up"
    /\ UNCHANGED <<todo, durable, memory, procs, accepted, crashes>>

----------------------------------------
Owner ==
    \/ PrepareAudio \/ RetainParameters \/ NoMaterial \/ CommitMaterial \/ HandOff \/ PrepareTraining
    \/ SetQueued \/ StartStep \/ CreateChannel \/ Register \/ TakeGpu \/ WaitGpu
    \/ Check \/ BeginStage \/ ReuseStage \/ Launch \/ Reap \/ ReapPlain
    \/ CloseChannel \/ Retire \/ Judge \/ Settle \/ Seal \/ Publish
    \/ FinishAudio \/ FinishTraining \/ FinishStep

Restart == Start \/ (\E t \in Tasks : MarkInterrupted(t) \/ SignalInterrupted(t))
                 \/ MarkingDone \/ Ready

Handlers ==
    \/ \E t \in Tasks : (\E k \in Kinds : ReserveJob(t, k)) \/ Resume(t) \/ Cleanup(t)
    \/ Pause \/ Cancel \/ SyncRequest
    \/ \E d \in pend : Deliver(d) \/ Report(d)

Next ==
    \/ Owner \/ Handlers \/ Restart \/ StepTail
    \/ \E p \in procs : ChildExit(p)
    \/ ProgressFault \/ GuardStorage \/ Crash

Spec == Init /\ [][Next]_vars

\* A child that was signalled stops at its next safe point, and one that is not
\* given the control file runs to its end.  Nothing is assumed of a controlled
\* child that was not signalled, nor of a synchronous request's child.
EndsByItself(p) == own.pc = "wait" /\ MyChild = p /\ ~Controlled(job.kind, own.k)
SafeStop == \E p \in procs : (Signalled(p) \/ EndsByItself(p)) /\ ChildExit(p)

\* Threads and handlers are scheduled, and a supervisor restarts the service.
Fairness ==
    /\ WF_vars(Owner) /\ WF_vars(StepTail) /\ WF_vars(SafeStop) /\ WF_vars(Restart)
    /\ \A t \in Tasks, a \in Attempts, op \in {"pause", "cancel"}, st \in {"deliver", "report"} :
          LET d == [op |-> op, task |-> t, att |-> a, st |-> st]
          IN WF_vars(Deliver(d) \/ Report(d))

FairSpec == Spec /\ Fairness

----------------------------------------
(* Properties.                                                             *)

PcValues == {"idle", "prepare", "material", "handoff", "fix", "enqueue", "create", "register", "gpu",
             "check", "stage", "run", "wait", "close", "retire", "judge", "settle",
             "seal", "publish", "finish"}
RecordType == [state : RecordStates, att : 0..MaxAttempt, from : 0..MaxAttempt,
               kind : AllKinds, recov : BOOLEAN, pruned : BOOLEAN, noted : BOOLEAN]
JobType == [running : BOOLEAN, task : Tasks \cup {NoTask}, att : Attempts, gen : Nat,
            kind : AllKinds \cup {"none"},
            stage : {"idle", "queued", "busy", "final"} \cup SettledStates,
            pause : BOOLEAN, cancel : BOOLEAN, cerr : BOOLEAN, cancelled : BOOLEAN,
            recov : BOOLEAN, src : BOOLEAN]
OwnerType == [pc : PcValues, task : Tasks \cup {NoTask}, att : 0..MaxAttempt, gen : Nat,
              k : 1..MaxStage, out : {"none", "ok", "paused", "cancelled", "error"},
              exit : {"none", "ok", "fail", "stop"}, bad : BOOLEAN]
ChildType == [task : Tasks \cup {NoTask}, att : 0..MaxAttempt]
PendType == [op : {"pause", "cancel"}, task : Tasks, att : Attempts, st : {"deliver", "report"}]

\* Every variable has its type; in particular the slot, the owner and the
\* records only ever hold combinations the C++ types can hold.
TypeOK ==
    /\ phase \in {"down", "marking", "signalling", "up"}
    /\ todo \subseteq Tasks
    /\ latch \in BOOLEAN
    /\ rec \in [Tasks -> RecordType]
    /\ copies \in [Tasks -> BOOLEAN]
    /\ ctl \in [Tasks -> [Attempts -> {"absent", "0", "1"}]]
    /\ done \in [Tasks -> 0..MaxStage]
    /\ res \in [Tasks -> 0..MaxAttempt]
    /\ job \in JobType
    /\ own \in OwnerType
    /\ src \in [Tasks -> [Attempts -> {"none", "open", "bad", "closed", "closedbad"}]]
    /\ procs \subseteq ChildType
    /\ gpu \in {"free", "owner", "sync", "tail"}
    /\ pend \subseteq PendType
    /\ accepted \subseteq (Tasks \X Attempts)
    /\ crashes \in 0..MaxCrashes

\* The slot is taken exactly while some thread owns it, and that thread's
\* ticket is the slot's: no path through preparation, failure, pause or
\* completion leaks job_.running or lets a stale generation keep working.
SlotHasOneOwner ==
    /\ job.running <=> own.pc # "idle"
    /\ job.running => /\ own.gen = job.gen /\ own.task = job.task /\ own.att = job.att
                      /\ rec[job.task].att = job.att

\* At any time at most one record on disk is active, across failed saves,
\* crashes and restarts; while the service is up and its storage works, that
\* record is the one in the slot, so no history entry claims to run for ever.
OneActiveRecord ==
    /\ \A t, u \in Tasks : rec[t].state \in ActiveStates /\ rec[u].state \in ActiveStates => t = u
    /\ phase = "up" /\ ~latch =>
         \A t \in Tasks : rec[t].state \in ActiveStates <=> job.running /\ job.task = t

\* ADR-0010: an accepted pause or cancellation is never followed by the success
\* of the same attempt, however the request races with the boundary into the
\* saving or publishing stage.
AcceptedNeverSucceeds ==
    \A t \in Tasks : rec[t].state = "succeeded" => <<t, rec[t].att>> \notin accepted

\* A record says succeeded only when this attempt installed the result and
\* every stage of a recoverable task carries its completion marker.
SuccessIsInstalled ==
    \A t \in Tasks : rec[t].state = "succeeded" =>
        /\ res[t] = rec[t].att
        /\ rec[t].kind \in Audio \cup {"full"} => done[t] = LastStage(rec[t].kind)

\* Each attempt runs at most once: when a worker comes to create its control
\* file, neither this service nor an earlier one has created it before.
AttemptIsFresh ==
    own.pc = "create" => ctl[own.task][own.att] = "absent"

\* A control I/O error is charged only to the execution whose channel failed,
\* even when the handler that saw it comes back long after that execution.
ErrorIsOwn ==
    job.cerr => src[job.task][job.att] \in {"bad", "closedbad"}

\* A running execution's control file is set only by a request accepted for
\* that very execution or by its own storage guard: no delayed delivery for an
\* earlier attempt, or for another task, reaches it.
NoLateSignal ==
    job.running /\ ctl[job.task][job.att] = "1" =>
        job.pause \/ <<job.task, job.att>> \in accepted

\* What belongs to one execution never touches another: a control file, the
\* delivery of a request and an I/O error are those of the attempt they were
\* made for (execute_task, control_task).
ControlIsOwn == AttemptIsFresh /\ ErrorIsOwn /\ NoLateSignal

MyLiveChild(p) == own.pc = "wait" /\ p = MyChild
Orphan(p) == p \in procs /\ p.task # NoTask /\ ~MyLiveChild(p)
Left(p) == rec[p.task].state = "interrupted" /\ rec[p.task].att = p.att

\* A restarted service is not up before the child an earlier service left
\* behind has been told to stop through its own attempt's control file.
OrphansAreSignalled ==
    phase = "up" => \A p \in procs :
        Orphan(p) /\ Left(p) /\ rec[p.task].kind \in {"audio", "full"} =>
            ctl[p.task][p.att] = "1" \/ rec[p.task].noted

\* docs/DESIGN.md says the same of every interrupted record, and a pitch preview
\* is one of the recovery recipes; the constructor leaves previews out.
AllOrphansAreSignalled ==
    phase = "up" => \A p \in procs :
        Orphan(p) /\ Left(p) /\ rec[p.task].kind \in Audio \cup {"full"} =>
            ctl[p.task][p.att] = "1" \/ rec[p.task].noted

\* The input copies and the recovery recipe of a task that may still be resumed
\* are never cleaned away.
RecoverableKeepsCopies ==
    \A t \in Tasks : rec[t].recov /\ rec[t].state # "succeeded" => copies[t]

\* What a record says is on the disk: the result and the markers of a success,
\* and the copies that a resume needs (finish_audio_task, cleanup_task).
RecordsHaveFiles == SuccessIsInstalled /\ RecoverableKeepsCopies

\* A recorded pause request is not overwritten by progress of the same attempt:
\* the record leaves pause_requested only for a settled state.
PauseSticks ==
    [][\A t \in Tasks : rec[t].state = "pause_requested" /\ rec'[t].state # "pause_requested"
          => rec'[t].state \in SettledStates]_vars

\* Stage markers are never lost and an attempt never runs a marked stage again.
NoStageIsRepeated ==
    [][/\ \A t \in Tasks : done'[t] >= done[t]
       /\ \A p \in procs' \ procs : p.task # NoTask /\ job.kind \in Audio \cup {"full"}
             => done[p.task] = own.k - 1]_vars

\* Nothing that was recorded is undone by a step that comes late: neither a
\* request to pause nor a finished stage (set_stage, audio_boundary).
NothingIsUndone == PauseSticks /\ NoStageIsRepeated

\* An execution that accepted a pause or a cancellation comes to an end, also
\* while a synchronous request keeps the GPU and while its child would go on
\* for ever; only a channel that cannot be written leaves it to the child.
AcceptedSettles ==
    \A t \in Tasks, a \in Attempts :
        <<t, a>> \in accepted ~>
            \/ ~(job.running /\ job.task = t /\ job.att = a)
            \/ src[t][a] \in {"bad", "closedbad"}

\* A child that outlives the service stops after the restart and frees the GPU
\* lock, unless its record notes that it could not be told to.
OrphansStop ==
    \A t \in Tasks, a \in Attempts :
        phase = "down" /\ [task |-> t, att |-> a] \in procs /\ rec[t].kind \in {"audio", "full"} ~>
            [task |-> t, att |-> a] \notin procs \/ rec[t].noted

\* The records, results and accepted requests seen as TaskContract's state.
LifeOf(r) == CASE r.state = "none" -> "none"
               [] r.state \in ActiveStates -> "active"
               [] r.state = "succeeded" -> "succeeded"
               [] OTHER -> "stopped"

Contract == INSTANCE TaskContract
    WITH life <- [t \in Tasks |-> LifeOf(rec[t])], attempt <- [t \in Tasks |-> rec[t].att],
         result <- res, asked <- accepted

\* The lifecycle implements the contract: no interleaving, failed save, crash
\* or restart shows a client a step the contract does not allow.
KeepsContract == Contract!Spec
=============================================================================
