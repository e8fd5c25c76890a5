------------------------ MODULE TaskLifecycleProofs ------------------------
(***************************************************************************)
(* Proofs about the durable task lifecycle, for any tasks, stages,         *)
(* attempts, handlers and crashes.  The inductive invariant IndInv ties    *)
(* the slot job_ to the ticket of the one thread that owns it (Slot) and   *)
(* to the active records on disk (ActiveOne); neither is inductive without *)
(* the other, because a step writes the record of the task it believes to  *)
(* own.  Each lemma XKeeps shows that the action X preserves IndInv.       *)
(*                                                                         *)
(* TaskInv adds five layers to IndInv for what the lifecycle promises:     *)
(* where the owner can be (Flow), what the records promise (Recs), what    *)
(* results, markers and accepted requests there are (Results), whose the   *)
(* control channels are (Channels) and what the live children were told    *)
(* (Children).  No layer is inductive without those before it; each has    *)
(* one lemma that every step preserves it.                                 *)
(***************************************************************************)
EXTENDS TaskLifecycle, TLAPS

GpuHolders == {"free", "owner", "sync", "tail"}
Outcomes == {"none", "ok", "paused", "cancelled", "error"}
BusyPcs == PcValues \ {"idle"}
Active(t) == rec[t].state \in ActiveStates

\* The slot and the thread that owns it.
Slot ==
    /\ job.running <=> own.pc # "idle"
    /\ phase # "up" => ~job.running /\ latch = FALSE
    /\ job.running => /\ job.task \in Tasks /\ job.kind \in AllKinds
                      /\ own.gen = job.gen /\ own.task = job.task /\ own.att = job.att
                      /\ rec[job.task].att = job.att

\* The active records on disk.
ActiveOne ==
    /\ \A t, u \in Tasks : Active(t) /\ Active(u) => t = u
    /\ job.running => \A t \in Tasks : Active(t) => t = job.task
    /\ phase = "up" /\ ~latch => \A t \in Tasks : Active(t) <=> job.running /\ job.task = t
    /\ phase = "signalling" => \A t \in Tasks : ~Active(t)

IndInv == TypeOK /\ Slot /\ ActiveOne

Records == rec \in [Tasks -> RecordType] /\ latch \in BOOLEAN

\* What a step does to the record of t: its attempt stays, its state becomes s
\* or, when the save fails and is latched, may stay as it was.
RecStep(t, s) ==
    /\ Records'
    /\ \A u \in Tasks : u # t => rec'[u] = rec[u]
    /\ rec'[t].att = rec[t].att
    /\ rec'[t].state \in {rec[t].state, s}
    /\ ~latch' => ~latch /\ rec'[t].state = s

SameOwner == /\ own' \in OwnerType /\ own'.pc # "idle"
             /\ own'.task = own.task /\ own'.att = own.att /\ own'.gen = own.gen
SameJob == /\ job' \in JobType
           /\ job'.running = job.running /\ job'.task = job.task /\ job'.att = job.att
           /\ job'.gen = job.gen /\ job'.kind = job.kind
StageNames == {"idle", "queued", "busy", "final"} \cup SettledStates

----------------------------------------
\* A save changes one record, to what was given or not at all, and a failed
\* one is latched.
LEMMA SaveStep ==
    ASSUME Records, NEW t \in Tasks, NEW r \in RecordType, NEW ok \in BOOLEAN,
           Save(t, r, ok)
    PROVE  /\ Records'
           /\ \A u \in Tasks : u # t => rec'[u] = rec[u]
           /\ rec'[t] = rec[t] \/ rec'[t] = r
           /\ ok => rec'[t] = r /\ latch' = latch
           /\ ok \/ latch'
<1>1. CASE ok
  <2>1. rec' = [rec EXCEPT ![t] = r] /\ latch' = latch BY <1>1 DEF Save
  <2> QED BY <1>1, <2>1 DEF Records
<1>2. CASE ~ok
  <2>1. rec' \in {rec, [rec EXCEPT ![t] = r]} /\ latch' = TRUE BY <1>2 DEF Save
  <2>2. latch' BY <2>1
  <2> QED BY <1>2, <2>1, <2>2 DEF Records
<1> QED BY <1>1, <1>2

\* A record stays a record when one field is assigned.
LEMMA RecordMoves ==
    ASSUME NEW r \in RecordType
    PROVE  /\ \A s \in RecordStates : [r EXCEPT !.state = s] \in RecordType
           /\ \A s : [r EXCEPT !.state = s].state = s /\ [r EXCEPT !.state = s].att = r.att
           /\ [r EXCEPT !.recov = TRUE] \in RecordType
           /\ [r EXCEPT !.recov = TRUE].state = r.state
           /\ [r EXCEPT !.recov = TRUE].att = r.att
           /\ [r EXCEPT !.pruned = TRUE] \in RecordType
           /\ [r EXCEPT !.pruned = TRUE].state = r.state
           /\ [r EXCEPT !.pruned = TRUE].att = r.att
           /\ [r EXCEPT !.noted = TRUE] \in RecordType
           /\ [r EXCEPT !.noted = TRUE].state = r.state
           /\ [r EXCEPT !.noted = TRUE].att = r.att
  BY DEF RecordType

\* Saving a record with another state is a RecStep.
LEMMA StateStep ==
    ASSUME Records, NEW t \in Tasks, NEW s \in RecordStates, NEW ok \in BOOLEAN,
           Save(t, [rec[t] EXCEPT !.state = s], ok)
    PROVE  RecStep(t, s)
<1> DEFINE r == [rec[t] EXCEPT !.state = s]
<1>0. rec[t] \in RecordType BY DEF Records
<1>1. r \in RecordType /\ r.state = s /\ r.att = rec[t].att BY <1>0, RecordMoves
<1>2. Save(t, r, ok) OBVIOUS
<1> HIDE DEF r
<1>3. Records' /\ (\A u \in Tasks : u # t => rec'[u] = rec[u]) BY <1>1, <1>2, SaveStep
<1>4. rec'[t] = rec[t] \/ rec'[t] = r BY <1>1, <1>2, SaveStep
<1>5. CASE ok
  <2>1. rec'[t] = r /\ latch' = latch BY <1>1, <1>2, <1>5, SaveStep
  <2> QED BY <1>1, <1>3, <1>4, <2>1 DEF RecStep
<1>6. CASE ~ok
  <2>1. ~latch' => FALSE BY <1>1, <1>2, <1>6, SaveStep
  <2> QED BY <1>1, <1>3, <1>4, <2>1 DEF RecStep
<1> QED BY <1>5, <1>6

\* persist_job_locked is a RecStep of the slot's task.
LEMMA PersistStep ==
    ASSUME Records, job.task \in Tasks, NEW s \in RecordStates, NEW ok \in BOOLEAN, PersistJob(s, ok)
    PROVE  RecStep(job.task, s)
<1>1. CASE latch BY <1>1 DEF PersistJob, RecStep, Records
<1>2. CASE ~latch BY <1>2, StateStep DEF PersistJob
<1> QED BY <1>1, <1>2

\* The owner's ticket survives each of its moves: goto, fail, leave, unwind.
LEMMA GotoMoves ==
    ASSUME own \in OwnerType, NEW pc \in BusyPcs, Goto(pc) PROVE SameOwner
  BY DEF Goto, OwnerType, SameOwner, BusyPcs

LEMMA FailMoves ==
    ASSUME own \in OwnerType, NEW pc \in BusyPcs, Fail(pc) PROVE SameOwner
  BY DEF Fail, OwnerType, SameOwner, BusyPcs

LEMMA LeaveMoves ==
    ASSUME own \in OwnerType, NEW out \in Outcomes, Leave(out) PROVE SameOwner
  BY DEF Leave, OwnerType, SameOwner, PcValues, Outcomes

LEMMA UnwindMoves ==
    ASSUME own \in OwnerType, gpu \in GpuHolders, NEW out \in Outcomes, Unwind(out)
    PROVE  SameOwner /\ gpu' \in GpuHolders
<1>1. gpu' \in GpuHolders BY DEF Unwind, GpuHolders
<1>2. PICK pc \in {"close", "finish"} : own' = [own EXCEPT !.pc = pc, !.out = out] BY DEF Unwind
<1>3. SameOwner BY <1>2 DEF OwnerType, SameOwner, PcValues, Outcomes
<1> QED BY <1>1, <1>3

\* job_ stays typed and keeps its ticket when its stage is assigned, and when
\* the control fields are (JobMoves).
LEMMA StageMoves ==
    ASSUME own \in OwnerType, own' = NextStage PROVE SameOwner
<1>1. CASE own.k < LastStage(job.kind)
  <2>1. own.k \in 1..MaxStage /\ own.k + 1 \in 1..MaxStage
    BY <1>1, BoundsAssumption DEF LastStage, MaxStage, OwnerType
  <2>2. own' = [own EXCEPT !.pc = "stage", !.k = own.k + 1, !.exit = "none", !.bad = FALSE]
    BY <1>1 DEF NextStage
  <2> QED BY <2>1, <2>2, ZenonT(60) DEF OwnerType, SameOwner, PcValues
<1>2. CASE ~(own.k < LastStage(job.kind))
  <2>1. PICK pc \in {"publish", "seal"} : own' = [own EXCEPT !.pc = pc] BY <1>2 DEF NextStage
  <2> QED BY <2>1 DEF OwnerType, SameOwner, PcValues
<1> QED BY <1>1, <1>2

LEMMA JobMoves ==
    ASSUME job \in JobType,
           \/ \E s \in StageNames : job' = [job EXCEPT !.stage = s]
           \/ \E b \in BOOLEAN : \/ job' = [job EXCEPT !.recov = b]
                                 \/ job' = [job EXCEPT !.src = b]
                                 \/ job' = [job EXCEPT !.pause = b]
                                 \/ job' = [job EXCEPT !.cancel = b]
                                 \/ job' = [job EXCEPT !.cerr = b]
    PROVE  SameJob
  BY DEF JobType, SameJob, StageNames

CtlType == [Tasks -> [Attempts -> {"absent", "0", "1"}]]
SrcType == [Tasks -> [Attempts -> {"none", "open", "bad", "closed", "closedbad"}]]

\* The variables that no slot or record fact speaks about.
Rest ==
    /\ todo \subseteq Tasks
    /\ copies \in [Tasks -> BOOLEAN]
    /\ ctl \in CtlType
    /\ done \in [Tasks -> 0..MaxStage]
    /\ res \in [Tasks -> 0..MaxAttempt]
    /\ src \in SrcType
    /\ procs \subseteq ChildType
    /\ gpu \in GpuHolders
    /\ pend \subseteq PendType
    /\ accepted \subseteq (Tasks \X Attempts)
    /\ crashes \in 0..MaxCrashes

\* TypeOK is the type of what the proofs move, and Rest.
LEMMA TypeParts ==
    TypeOK <=> /\ phase \in {"down", "marking", "signalling", "up"}
               /\ Records /\ Rest /\ job \in JobType /\ own \in OwnerType
  BY DEF TypeOK, Records, Rest, GpuHolders, CtlType, SrcType

LEMMA TypePartsNext ==
    ASSUME phase' \in {"down", "marking", "signalling", "up"},
           Records', Rest', job' \in JobType, own' \in OwnerType
    PROVE  TypeOK'
  BY DEF TypeOK, Records, Rest, GpuHolders, CtlType, SrcType

RecMove == \/ UNCHANGED <<rec, latch>>
           \/ \E s \in ActiveStates : RecStep(job.task, s)

\* The owner moves on and the slot's record, if it is written, stays active.
\* A step of the owner that keeps the slot, the ticket and the types and makes
\* at most its own record active keeps the invariant.
LEMMA OwnerStep ==
    ASSUME IndInv, job.running, SameOwner, SameJob, RecMove, phase' = phase, Rest'
    PROVE  IndInv'
<1> USE DEF IndInv
<1>1. CASE UNCHANGED <<rec, latch>>
  <2>1. Slot' /\ ActiveOne' BY <1>1 DEF Slot, ActiveOne, Active, SameOwner, SameJob
  <2>2. TypeOK' BY <1>1, TypeParts, TypePartsNext DEF Records, SameOwner, SameJob
  <2> QED BY <2>1, <2>2
<1>2. ASSUME NEW s \in ActiveStates, RecStep(job.task, s) PROVE IndInv'
  <2>1. Slot' BY <1>2 DEF Slot, SameOwner, SameJob, RecStep
  <2>2. ActiveOne' BY <1>2 DEF Slot, ActiveOne, Active, SameJob, RecStep
  <2>3. TypeOK' BY <1>2, TypeParts, TypePartsNext DEF RecStep, SameOwner, SameJob
  <2> QED BY <2>1, <2>2, <2>3
<1> QED BY <1>1, <1>2 DEF RecMove

LEMMA Typed ==
    ASSUME IndInv
    PROVE  /\ phase \in {"down", "marking", "signalling", "up"} /\ Records /\ Rest
           /\ job \in JobType /\ own \in OwnerType /\ gpu \in GpuHolders
  BY TypeParts DEF IndInv, Rest

LEMMA Working ==
    ASSUME IndInv, own.pc # "idle"
    PROVE  /\ job.running /\ job.task \in Tasks /\ job.att \in Attempts /\ job.kind \in AllKinds
           /\ own.task = job.task /\ own.att = job.att /\ own.gen = job.gen
  BY DEF IndInv, Slot, TypeOK, JobType

LEMMA KeptJob == ASSUME IndInv, UNCHANGED job PROVE SameJob
  BY DEF IndInv, TypeOK, SameJob

LEMMA KeptRecords == ASSUME UNCHANGED <<rec, latch>> PROVE RecMove
  BY DEF RecMove

LEMMA PersistMove ==
    ASSUME IndInv, own.pc # "idle", NEW s \in ActiveStates, NEW ok \in BOOLEAN, PersistJob(s, ok)
    PROVE  RecMove
<1>1. s \in RecordStates BY DEF RecordStates
<1> QED BY <1>1, Typed, Working, PersistStep DEF RecMove

\* A save of prepared parameters leaves the state and attempt of every record.
LEMMA QuietMove ==
    ASSUME IndInv, own.pc # "idle", NEW ok,
           SaveQuiet(own.task, [rec[own.task] EXCEPT !.recov = TRUE], ok)
    PROVE  RecMove
<1> DEFINE t == job.task
           r == [rec[t] EXCEPT !.recov = TRUE]
<1>1. t \in Tasks /\ own.task = t /\ job.running /\ Records BY Working, Typed
<1>2. r \in RecordType /\ r.state = rec[t].state /\ r.att = rec[t].att BY <1>1, RecordMoves DEF Records
<1>3. rec' \in {rec, [rec EXCEPT ![t] = r]} /\ latch' = latch BY <1>1 DEF SaveQuiet
<1> HIDE DEF r
<1>4. Records' /\ (\A u \in Tasks : u # t => rec'[u] = rec[u]) BY <1>1, <1>2, <1>3 DEF Records
<1>5. rec'[t].state = rec[t].state /\ rec'[t].att = rec[t].att BY <1>1, <1>2, <1>3 DEF Records
<1>6. CASE latch
  <2>1. RecStep(t, "running") BY <1>3, <1>4, <1>5, <1>6 DEF RecStep
  <2> QED BY <2>1 DEF RecMove, ActiveStates
<1>7. CASE ~latch
  <2>1. rec[t].state \in ActiveStates BY <1>1, <1>7 DEF IndInv, ActiveOne, Active, Slot
  <2>2. RecStep(t, rec[t].state) BY <1>3, <1>4, <1>5, <1>7 DEF RecStep
  <2> QED BY <2>1, <2>2 DEF RecMove
<1> QED BY <1>1, <1>6, <1>7 DEF Records

----------------------------------------
(* One lemma per action. *)

\* The boundary action shared by every check and stage entry.
LEMMA BoundaryKeeps ==
    ASSUME IndInv, own.pc # "idle", NEW stage \in StageNames, NEW next \in BusyPcs,
           Boundary(stage, next)
    PROVE  IndInv'
<1>1. job.running /\ own \in OwnerType /\ job \in JobType /\ gpu \in GpuHolders /\ Rest BY Working, Typed
<1>2. \/ /\ UNCHANGED <<rec, latch, job>>
         /\ \E out \in Outcomes : Unwind(out)
      \/ EnterStage(stage, next)
  BY DEF Boundary, AudioBoundary, TrainingCheckpoint, Outcomes
<1>3. ASSUME UNCHANGED <<rec, latch, job>>, NEW out \in Outcomes, Unwind(out)
      PROVE  SameOwner /\ gpu' \in GpuHolders /\ SameJob /\ RecMove
  BY <1>1, <1>3, UnwindMoves, KeptJob, KeptRecords
<1>4. ASSUME EnterStage(stage, next)
      PROVE  SameOwner /\ gpu' \in GpuHolders /\ SameJob /\ RecMove
  <2>1. SameJob BY <1>1, <1>4, JobMoves DEF EnterStage
  <2>2. PICK ok \in BOOLEAN : /\ PersistJob("running", ok)
                              /\ IF ok THEN Goto(next) /\ UNCHANGED gpu ELSE Unwind("error")
    BY <1>4 DEF EnterStage
  <2>3. RecMove BY <2>2, PersistMove DEF ActiveStates
  <2>4. SameOwner /\ gpu' \in GpuHolders
    <3>1. CASE ok BY <1>1, <2>2, <3>1, GotoMoves
    <3>2. CASE ~ok BY <1>1, <2>2, <3>2, UnwindMoves DEF Outcomes
    <3> QED BY <3>1, <3>2
  <2> QED BY <2>1, <2>3, <2>4
<1>5. SameOwner /\ gpu' \in GpuHolders /\ SameJob /\ RecMove BY <1>2, <1>3, <1>4
<1>6. Rest' BY <1>1, <1>5 DEF Rest, Boundary
<1>7. phase' = phase BY DEF Boundary
<1> QED BY <1>1, <1>5, <1>6, <1>7, OwnerStep

LEMMA PrepareAudioKeeps == ASSUME IndInv, PrepareAudio PROVE IndInv'
<1>1. own.pc # "idle" /\ phase' = phase /\ UNCHANGED job BY DEF PrepareAudio, AtPc
<1>2. job.running /\ own.task \in Tasks /\ own \in OwnerType /\ Rest BY <1>1, Working, Typed
<1>3. PICK ok \in BOOLEAN :
        IF copies'[own.task]
        THEN /\ SaveQuiet(own.task, [rec[own.task] EXCEPT !.recov = TRUE], ok)
             /\ IF ok THEN Goto("create") ELSE Fail("finish")
        ELSE UNCHANGED <<rec, latch>> /\ Fail("finish")
  BY DEF PrepareAudio
<1>4. SameOwner BY <1>2, <1>3, GotoMoves, FailMoves DEF BusyPcs, PcValues
<1>5. RecMove BY <1>1, <1>3, QuietMove, KeptRecords
<1>6. Rest' BY <1>2 DEF Rest, PrepareAudio
<1> QED BY <1>1, <1>2, <1>4, <1>5, <1>6, KeptJob, OwnerStep

LEMMA RetainParametersKeeps == ASSUME IndInv, RetainParameters PROVE IndInv'
<1>1. own.pc # "idle" /\ phase' = phase /\ UNCHANGED job /\ UNCHANGED <<rec, latch>>
  BY DEF RetainParameters, AtPc, durable
<1>2. job.running /\ own \in OwnerType /\ Rest BY <1>1, Working, Typed
<1>3. SameOwner BY <1>2, GotoMoves, FailMoves DEF RetainParameters, BusyPcs, PcValues
<1>4. Rest' BY <1>2 DEF Rest, RetainParameters, durable
<1> QED BY <1>1, <1>2, <1>3, <1>4, KeptJob, KeptRecords, OwnerStep

LEMMA NoMaterialKeeps == ASSUME IndInv, NoMaterial PROVE IndInv'
<1>1. own.pc # "idle" /\ phase' = phase /\ UNCHANGED job /\ UNCHANGED <<rec, latch>>
  BY DEF NoMaterial, AtPc, durable
<1>2. job.running /\ own \in OwnerType /\ Rest BY <1>1, Working, Typed
<1>3. SameOwner BY <1>2, GotoMoves DEF NoMaterial, BusyPcs, PcValues
<1>4. Rest' BY <1>2 DEF Rest, NoMaterial, durable
<1> QED BY <1>1, <1>2, <1>3, <1>4, KeptJob, KeptRecords, OwnerStep

LEMMA CommitMaterialKeeps == ASSUME IndInv, CommitMaterial PROVE IndInv'
<1>1. own.pc # "idle" /\ phase' = phase BY DEF CommitMaterial, AtPc
<1>2. job.running /\ own \in OwnerType /\ job \in JobType /\ Rest BY <1>1, Working, Typed
<1>3. \/ (Leave("error") \/ Leave("cancelled")) /\ UNCHANGED <<rec, latch, job>>
      \/ /\ job' = [job EXCEPT !.stage = "busy"]
         /\ \E ok \in BOOLEAN : PersistJob("running", ok)
         /\ Goto("handoff") \/ Fail("finish")
  BY DEF CommitMaterial
<1>4. SameOwner BY <1>2, <1>3, LeaveMoves, GotoMoves, FailMoves DEF BusyPcs, PcValues, Outcomes
<1>5. RecMove BY <1>1, <1>3, PersistMove, KeptRecords DEF ActiveStates
<1>6. SameJob BY <1>2, <1>3, JobMoves, KeptJob DEF StageNames
<1>7. Rest' BY <1>2 DEF Rest, CommitMaterial
<1> QED BY <1>1, <1>2, <1>4, <1>5, <1>6, <1>7, OwnerStep

LEMMA HandOffKeeps == ASSUME IndInv, HandOff PROVE IndInv'
<1>1. own.pc # "idle" /\ phase' = phase /\ UNCHANGED job /\ UNCHANGED <<rec, latch>>
  BY DEF HandOff, AtPc, durable
<1>2. job.running /\ own \in OwnerType /\ Rest BY <1>1, Working, Typed
<1>3. Leave("cancelled") \/ Goto("fix") \/ Goto("enqueue") BY DEF HandOff
<1>4. SameOwner BY <1>2, <1>3, GotoMoves, LeaveMoves DEF BusyPcs, PcValues, Outcomes
<1>5. Rest' BY <1>2 DEF Rest, HandOff, durable
<1> QED BY <1>1, <1>2, <1>4, <1>5, KeptJob, KeptRecords, OwnerStep

LEMMA PrepareTrainingKeeps == ASSUME IndInv, PrepareTraining PROVE IndInv'
<1>1. own.pc # "idle" /\ phase' = phase BY DEF PrepareTraining, AtPc
<1>2. job.running /\ own.task \in Tasks /\ own \in OwnerType /\ job \in JobType /\ Rest
  BY <1>1, Working, Typed
<1>3. PICK ok \in BOOLEAN :
        IF copies'[own.task]
        THEN /\ SaveQuiet(own.task, [rec[own.task] EXCEPT !.recov = TRUE], ok)
             /\ job' = [job EXCEPT !.recov = ok]
             /\ IF ok THEN Goto("enqueue") ELSE Fail("finish")
        ELSE UNCHANGED <<rec, latch, job>> /\ Fail("finish")
  BY DEF PrepareTraining
<1>4. SameOwner BY <1>2, <1>3, GotoMoves, FailMoves DEF BusyPcs, PcValues
<1>5. RecMove BY <1>1, <1>3, QuietMove, KeptRecords
<1>6. SameJob BY <1>2, <1>3, JobMoves, KeptJob
<1>7. Rest' BY <1>2 DEF Rest, PrepareTraining
<1> QED BY <1>1, <1>2, <1>4, <1>5, <1>6, <1>7, OwnerStep

LEMMA SetQueuedKeeps == ASSUME IndInv, SetQueued PROVE IndInv'
<1>1. own.pc # "idle" /\ phase' = phase BY DEF SetQueued, AtPc
<1>2. job.running /\ own \in OwnerType /\ job \in JobType /\ Rest BY <1>1, Working, Typed
<1>3. PICK ok \in BOOLEAN : /\ PersistJob(QueuedState, ok)
                            /\ Goto("create") \/ Goto("gpu") \/ Fail("finish")
  BY DEF SetQueued
<1>4. SameOwner BY <1>2, <1>3, GotoMoves, FailMoves DEF BusyPcs, PcValues
<1>5. QueuedState \in ActiveStates BY DEF QueuedState, ActiveStates
<1>6. RecMove BY <1>1, <1>3, <1>5, PersistMove
<1>7. SameJob BY <1>2, JobMoves DEF SetQueued, StageNames
<1>8. Rest' BY <1>2 DEF Rest, SetQueued
<1> QED BY <1>1, <1>2, <1>4, <1>6, <1>7, <1>8, OwnerStep

LEMMA StartStepKeeps == ASSUME IndInv, StartStep PROVE IndInv'
<1>1. own.pc # "idle" /\ phase' = phase BY DEF StartStep, AtPc
<1>2. job.running /\ own \in OwnerType /\ job \in JobType /\ Rest BY <1>1, Working, Typed
<1>3. \/ Fail("finish") /\ UNCHANGED <<rec, latch, job, gpu>>
      \/ /\ job' = [job EXCEPT !.stage = "busy"] /\ gpu' = "owner"
         /\ \E ok \in BOOLEAN : PersistJob("running", ok)
         /\ Goto("run") \/ Fail("finish")
  BY DEF StartStep
<1>4. SameOwner BY <1>2, <1>3, GotoMoves, FailMoves DEF BusyPcs, PcValues
<1>5. RecMove BY <1>1, <1>3, PersistMove, KeptRecords DEF ActiveStates
<1>6. SameJob BY <1>2, <1>3, JobMoves, KeptJob DEF StageNames
<1>7. Rest' BY <1>2, <1>3 DEF Rest, StartStep, GpuHolders
<1> QED BY <1>1, <1>2, <1>4, <1>5, <1>6, <1>7, OwnerStep

\* A control channel that is created is typed.
LEMMA ChannelMoves ==
    ASSUME NEW t \in Tasks, NEW a \in Attempts
    PROVE  /\ ctl \in CtlType => \A v \in {"absent", "0", "1"} : [ctl EXCEPT ![t][a] = v] \in CtlType
           /\ src \in SrcType => \A v \in {"none", "open", "bad", "closed", "closedbad"} :
                                    [src EXCEPT ![t][a] = v] \in SrcType
<1>1. ASSUME ctl \in CtlType, NEW v \in {"absent", "0", "1"} PROVE [ctl EXCEPT ![t][a] = v] \in CtlType
  BY <1>1 DEF CtlType
<1>2. ASSUME src \in SrcType, NEW v \in {"none", "open", "bad", "closed", "closedbad"}
      PROVE  [src EXCEPT ![t][a] = v] \in SrcType
  BY <1>2 DEF SrcType
<1> QED BY <1>1, <1>2

LEMMA CreateChannelKeeps == ASSUME IndInv, CreateChannel PROVE IndInv'
<1>1. own.pc # "idle" /\ phase' = phase /\ UNCHANGED job /\ UNCHANGED <<rec, latch>>
  BY DEF CreateChannel, AtPc
<1>2. /\ job.running /\ own.task \in Tasks /\ own.att \in Attempts
      /\ own \in OwnerType /\ gpu \in GpuHolders /\ Rest
  BY <1>1, Working, Typed
<1>3. SameOwner /\ gpu' \in GpuHolders
  BY <1>2, GotoMoves, UnwindMoves DEF CreateChannel, BusyPcs, PcValues, Outcomes
<1>4. ctl' \in CtlType
  <2>1. ctl' = ctl \/ ctl' = [ctl EXCEPT ![own.task][own.att] = "0"] BY DEF CreateChannel
  <2> QED BY <1>2, <2>1, ChannelMoves, ZenonT(60) DEF Rest
<1>5. src' \in SrcType
  <2>1. src' = src \/ src' = [src EXCEPT ![own.task][own.att] = "open"] BY DEF CreateChannel
  <2> QED BY <1>2, <2>1, ChannelMoves, ZenonT(60) DEF Rest
<1>6. Rest' BY <1>2, <1>3, <1>4, <1>5 DEF Rest, CreateChannel
<1> QED BY <1>1, <1>2, <1>3, <1>6, KeptJob, KeptRecords, OwnerStep

LEMMA RegisterKeeps == ASSUME IndInv, Register PROVE IndInv'
<1>1. own.pc # "idle" /\ phase' = phase /\ UNCHANGED <<rec, latch>> BY DEF Register, AtPc, durable
<1>2. job.running /\ own \in OwnerType /\ job \in JobType /\ gpu \in GpuHolders /\ Rest
  BY <1>1, Working, Typed
<1>3. SameOwner /\ gpu' \in GpuHolders
  BY <1>2, GotoMoves, UnwindMoves DEF Register, BusyPcs, PcValues, Outcomes
<1>4. SameJob BY <1>2, JobMoves, KeptJob DEF Register
<1>5. Rest' BY <1>2, <1>3 DEF Rest, Register, durable
<1> QED BY <1>1, <1>2, <1>3, <1>4, <1>5, KeptRecords, OwnerStep

LEMMA TakeGpuKeeps == ASSUME IndInv, TakeGpu PROVE IndInv'
<1>1. own.pc # "idle" /\ phase' = phase /\ UNCHANGED job /\ UNCHANGED <<rec, latch>>
  BY DEF TakeGpu, AtPc, durable
<1>2. job.running /\ own \in OwnerType /\ Rest BY <1>1, Working, Typed
<1>3. SameOwner BY <1>2, GotoMoves DEF TakeGpu, BusyPcs, PcValues
<1>4. Rest' BY <1>2 DEF Rest, TakeGpu, durable, GpuHolders
<1> QED BY <1>1, <1>2, <1>3, <1>4, KeptJob, KeptRecords, OwnerStep

LEMMA WaitGpuKeeps == ASSUME IndInv, WaitGpu PROVE IndInv'
<1>1. own.pc # "idle" /\ phase' = phase /\ UNCHANGED job /\ UNCHANGED <<rec, latch>>
  BY DEF WaitGpu, AtPc, durable
<1>2. job.running /\ own \in OwnerType /\ gpu \in GpuHolders /\ Rest BY <1>1, Working, Typed
<1>3. SameOwner /\ gpu' \in GpuHolders BY <1>2, UnwindMoves DEF WaitGpu, Outcomes
<1>4. Rest' BY <1>2, <1>3 DEF Rest, WaitGpu, durable
<1> QED BY <1>1, <1>2, <1>3, <1>4, KeptJob, KeptRecords, OwnerStep

LEMMA BoundariesKeep == ASSUME IndInv, Check \/ BeginStage \/ Seal PROVE IndInv'
<1>1. own.pc # "idle" BY DEF Check, BeginStage, Seal, AtPc
<1>2. \E stage \in StageNames, next \in BusyPcs : Boundary(stage, next)
  <2>1. "busy" \in StageNames /\ "final" \in StageNames BY DEF StageNames
  <2>2. {"stage", "create", "run", "publish"} \subseteq BusyPcs BY DEF BusyPcs, PcValues
  <2>3. \/ Boundary("busy", "stage") \/ Boundary("busy", "create")
        \/ Boundary("busy", "run") \/ Boundary("final", "publish")
    BY DEF Check, BeginStage, Seal
  <2> QED BY <2>1, <2>2, <2>3
<1> QED BY <1>1, <1>2, BoundaryKeeps

LEMMA ReuseStageKeeps == ASSUME IndInv, ReuseStage PROVE IndInv'
<1>1. own.pc # "idle" /\ phase' = phase /\ UNCHANGED job /\ UNCHANGED <<rec, latch>>
  BY DEF ReuseStage, AtPc, durable
<1>2. job.running /\ own \in OwnerType /\ Rest BY <1>1, Working, Typed
<1>3. SameOwner BY <1>2, StageMoves DEF ReuseStage
<1>4. Rest' BY <1>2 DEF Rest, ReuseStage, durable
<1> QED BY <1>1, <1>2, <1>3, <1>4, KeptJob, KeptRecords, OwnerStep

LEMMA LaunchKeeps == ASSUME IndInv, Launch PROVE IndInv'
<1>1. own.pc # "idle" /\ phase' = phase /\ UNCHANGED job /\ UNCHANGED <<rec, latch>>
  BY DEF Launch, AtPc, durable
<1>2. job.running /\ own \in OwnerType /\ gpu \in GpuHolders /\ Rest BY <1>1, Working, Typed
<1>3. SameOwner /\ gpu' \in GpuHolders BY <1>2, GotoMoves, UnwindMoves DEF Launch, BusyPcs, PcValues, Outcomes
<1>4. MyChild \in ChildType BY <1>2 DEF MyChild, ChildType, OwnerType
<1>5. Rest' BY <1>2, <1>3, <1>4 DEF Rest, Launch, durable
<1> QED BY <1>1, <1>2, <1>3, <1>5, KeptJob, KeptRecords, OwnerStep

LEMMA ReapKeeps == ASSUME IndInv, Reap PROVE IndInv'
<1>1. own.pc # "idle" /\ phase' = phase /\ UNCHANGED job /\ UNCHANGED <<rec, latch>> BY DEF Reap, AtPc
<1>2. job.running /\ own.task \in Tasks /\ own \in OwnerType /\ gpu \in GpuHolders /\ Rest
  BY <1>1, Working, Typed
<1>3. \/ own' = NextStage /\ UNCHANGED gpu
      \/ Unwind("error") \/ Unwind("paused")
  BY DEF Reap
<1>4. SameOwner /\ gpu' \in GpuHolders BY <1>2, <1>3, StageMoves, UnwindMoves DEF Outcomes
<1>5. own.k \in 0..MaxStage BY <1>2, BoundsAssumption DEF OwnerType, MaxStage
<1>6. done' \in [Tasks -> 0..MaxStage] BY <1>2, <1>5 DEF Reap, Rest
<1>7. Rest' BY <1>2, <1>4, <1>6 DEF Rest, Reap
<1> QED BY <1>1, <1>2, <1>4, <1>7, KeptJob, KeptRecords, OwnerStep

LEMMA ReapPlainKeeps == ASSUME IndInv, ReapPlain PROVE IndInv'
<1>1. own.pc # "idle" /\ phase' = phase /\ UNCHANGED job /\ UNCHANGED <<rec, latch>>
  BY DEF ReapPlain, AtPc, durable
<1>2. job.running /\ own \in OwnerType /\ gpu \in GpuHolders /\ Rest BY <1>1, Working, Typed
<1>3. ((own' = NextStage \/ Goto("close")) /\ UNCHANGED gpu) \/ Unwind("error") BY DEF ReapPlain
<1>4. SameOwner /\ gpu' \in GpuHolders
  BY <1>2, <1>3, StageMoves, GotoMoves, UnwindMoves DEF Outcomes, BusyPcs, PcValues
<1>5. Rest' BY <1>2, <1>4 DEF Rest, ReapPlain, durable
<1> QED BY <1>1, <1>2, <1>4, <1>5, KeptJob, KeptRecords, OwnerStep

LEMMA CloseChannelKeeps == ASSUME IndInv, CloseChannel PROVE IndInv'
<1>1. own.pc # "idle" /\ phase' = phase /\ UNCHANGED job /\ UNCHANGED <<rec, latch>>
  BY DEF CloseChannel, AtPc, durable
<1>2. /\ job.running /\ own.task \in Tasks /\ own.att \in Attempts
      /\ own \in OwnerType /\ Rest
  BY <1>1, Working, Typed
<1>3. SameOwner BY <1>2, GotoMoves DEF CloseChannel, BusyPcs, PcValues
<1>4. PICK v \in {"closed", "closedbad"} : src' = [src EXCEPT ![own.task][own.att] = v] BY DEF CloseChannel
<1>5. src' \in SrcType BY <1>2, <1>4, ChannelMoves DEF Rest
<1>6. Rest' BY <1>2, <1>5 DEF Rest, CloseChannel, durable
<1> QED BY <1>1, <1>2, <1>3, <1>6, KeptJob, KeptRecords, OwnerStep

LEMMA RetireKeeps == ASSUME IndInv, Retire PROVE IndInv'
<1>1. own.pc # "idle" /\ phase' = phase /\ UNCHANGED <<rec, latch>> BY DEF Retire, AtPc, durable
<1>2. job.running /\ own \in OwnerType /\ job \in JobType /\ Rest BY <1>1, Working, Typed
<1>3. Goto("judge") \/ Goto("settle") \/ Goto("finish") BY DEF Retire
<1>4. SameOwner BY <1>2, <1>3, GotoMoves DEF BusyPcs, PcValues
<1>5. job' = job \/ \E b \in BOOLEAN : job' = [job EXCEPT !.cerr = b, !.src = FALSE]
  <2>1. CASE job.gen # own.gen BY <2>1 DEF Retire
  <2>2. CASE job.gen = own.gen
    <3> DEFINE b == job.cerr \/ src[own.task][own.att] = "closedbad"
    <3>1. b \in BOOLEAN OBVIOUS
    <3>2. job' = [job EXCEPT !.cerr = b, !.src = FALSE] BY <2>2 DEF Retire
    <3> QED BY <3>1, <3>2
  <2> QED BY <2>1, <2>2
<1>6. SameJob BY <1>2, <1>5, ZenonT(60) DEF JobType, SameJob
<1>7. Rest' BY <1>2 DEF Rest, Retire, durable
<1> QED BY <1>1, <1>2, <1>4, <1>6, <1>7, KeptRecords, OwnerStep

LEMMA JudgeKeeps == ASSUME IndInv, Judge PROVE IndInv'
<1>1. own.pc # "idle" /\ phase' = phase /\ UNCHANGED job /\ UNCHANGED <<rec, latch>>
  BY DEF Judge, AtPc, durable
<1>2. job.running /\ own \in OwnerType /\ gpu \in GpuHolders /\ Rest BY <1>1, Working, Typed
<1>3. own.out \in Outcomes BY <1>2 DEF OwnerType, Outcomes
<1>4. \/ own' = NextStage /\ UNCHANGED gpu
      \/ Unwind("error") \/ Unwind("cancelled") \/ Unwind(own.out)
  BY DEF Judge
<1>5. SameOwner /\ gpu' \in GpuHolders BY <1>2, <1>3, <1>4, StageMoves, UnwindMoves DEF Outcomes
<1>6. Rest' BY <1>2, <1>5 DEF Rest, Judge, durable
<1> QED BY <1>1, <1>2, <1>5, <1>6, KeptJob, KeptRecords, OwnerStep

LEMMA SettleKeeps == ASSUME IndInv, Settle PROVE IndInv'
<1>1. own.pc # "idle" /\ phase' = phase /\ UNCHANGED job /\ UNCHANGED <<rec, latch>>
  BY DEF Settle, AtPc, durable
<1>2. job.running /\ own \in OwnerType /\ Rest BY <1>1, Working, Typed
<1>3. Leave("cancelled") \/ Leave("paused") BY DEF Settle
<1>4. SameOwner BY <1>2, <1>3, LeaveMoves DEF Outcomes
<1>5. Rest' BY <1>2 DEF Rest, Settle, durable
<1> QED BY <1>1, <1>2, <1>4, <1>5, KeptJob, KeptRecords, OwnerStep

LEMMA PublishKeeps == ASSUME IndInv, Publish PROVE IndInv'
<1>1. own.pc # "idle" /\ phase' = phase /\ UNCHANGED job /\ UNCHANGED <<rec, latch>> BY DEF Publish, AtPc
<1>2. /\ job.running /\ own.task \in Tasks /\ own.att \in Attempts
      /\ own \in OwnerType /\ gpu \in GpuHolders /\ Rest
  BY <1>1, Working, Typed
<1>3. SameOwner /\ gpu' \in GpuHolders BY <1>2, UnwindMoves DEF Publish, Outcomes
<1>4. res' \in [Tasks -> 0..MaxAttempt]
  <2>1. res' = res \/ res' = [res EXCEPT ![own.task] = own.att] BY DEF Publish
  <2>2. own.att \in 0..MaxAttempt BY <1>2 DEF OwnerType
  <2> QED BY <1>2, <2>1, <2>2 DEF Rest
<1>5. Rest' BY <1>2, <1>3, <1>4 DEF Rest, Publish
<1> QED BY <1>1, <1>2, <1>3, <1>5, KeptJob, KeptRecords, OwnerStep

\* Steps that leave the records and the owner alone.
\* A step of somebody else that leaves slot, owner and records alone.
LEMMA SideStep ==
    ASSUME IndInv, UNCHANGED <<phase, own, rec, latch>>, SameJob, Rest'
    PROVE  IndInv'
<1>1. Slot' BY DEF IndInv, Slot, SameJob
<1>2. ActiveOne' BY DEF IndInv, ActiveOne, Active, SameJob
<1>3. TypeOK' BY Typed, TypePartsNext DEF SameJob, Records
<1> QED BY <1>1, <1>2, <1>3 DEF IndInv

LEMMA ChildExitKeeps == ASSUME IndInv, NEW p \in procs, ChildExit(p) PROVE IndInv'
<1>1. phase' = phase /\ UNCHANGED job /\ UNCHANGED <<rec, latch>> BY DEF ChildExit, durable
<1>2. own \in OwnerType /\ gpu \in GpuHolders /\ Rest BY Typed
<1>3. gpu' \in GpuHolders BY <1>2 DEF ChildExit, GpuHolders
<1>4. Rest' BY <1>2, <1>3 DEF Rest, ChildExit, durable
<1>5. CASE own.pc = "wait" /\ MyChild = p
  <2>1. PICK code \in {"ok", "fail", "stop"} : own' = [own EXCEPT !.exit = code] BY <1>5 DEF ChildExit
  <2>2. SameOwner BY <1>2, <1>5, <2>1 DEF OwnerType, SameOwner
  <2> QED BY <1>1, <1>4, <1>5, <2>2, Working, KeptJob, KeptRecords, OwnerStep
<1>6. CASE ~(own.pc = "wait" /\ MyChild = p)
  <2>1. UNCHANGED own BY <1>6 DEF ChildExit
  <2> QED BY <1>1, <1>4, <2>1, KeptJob, SideStep
<1> QED BY <1>5, <1>6

LEMMA ProgressFaultKeeps == ASSUME IndInv, ProgressFault PROVE IndInv'
<1>1. own.pc # "idle" /\ phase' = phase /\ UNCHANGED job /\ rec' = rec /\ latch' = TRUE
  BY DEF ProgressFault, AtPc, durable
<1>2. job.running /\ own \in OwnerType /\ Records /\ Rest BY <1>1, Working, Typed
<1>3. SameOwner BY <1>2 DEF ProgressFault, AtPc, OwnerType, SameOwner
<1>4. RecMove
  <2>1. RecStep(job.task, "running") BY <1>1, <1>2 DEF RecStep, Records
  <2> QED BY <2>1 DEF RecMove, ActiveStates
<1>5. Rest' BY <1>2 DEF Rest, ProgressFault, durable
<1> QED BY <1>1, <1>2, <1>3, <1>4, <1>5, KeptJob, OwnerStep

LEMMA StepTailKeeps == ASSUME IndInv, StepTail PROVE IndInv'
<1>1. UNCHANGED <<phase, own, rec, latch>> /\ UNCHANGED job BY DEF StepTail, durable
<1>2. Rest' BY Typed DEF Rest, StepTail, durable, GpuHolders
<1> QED BY <1>1, <1>2, KeptJob, SideStep

\* What a control handler remembers is typed.
LEMMA RequestTypes ==
    ASSUME IndInv, own.pc # "idle", NEW op \in {"pause", "cancel"}
    PROVE  Request(op) \subseteq PendType
<1>1. pend \subseteq PendType BY Typed DEF Rest
<1>2. [op |-> op, task |-> job.task, att |-> job.att, st |-> "deliver"] \in PendType BY Working DEF PendType
<1> QED BY <1>1, <1>2 DEF Request

LEMMA PauseKeeps == ASSUME IndInv, Pause PROVE IndInv'
<1>1. phase' = phase /\ job.running /\ UNCHANGED own BY DEF Pause
<1>2. own.pc # "idle" BY <1>1 DEF IndInv, Slot
<1>3. own \in OwnerType /\ job \in JobType /\ Rest /\ job.task \in Tasks /\ job.att \in Attempts
  BY <1>2, Working, Typed
<1>4. SameOwner BY <1>1, <1>2, <1>3 DEF SameOwner
<1>5. SameJob BY <1>3, JobMoves DEF Pause
<1>6. RecMove BY <1>2, PersistMove DEF Pause, ActiveStates
<1>7. pend' \subseteq PendType BY <1>2, RequestTypes DEF Pause
<1>8. accepted' \subseteq (Tasks \X Attempts) BY <1>3 DEF Pause, Rest
<1>9. Rest' BY <1>3, <1>7, <1>8 DEF Rest, Pause
<1> QED BY <1>1, <1>4, <1>5, <1>6, <1>9, OwnerStep

LEMMA CancelKeeps == ASSUME IndInv, Cancel PROVE IndInv'
<1>1. phase' = phase /\ job.running /\ UNCHANGED own /\ UNCHANGED <<rec, latch>> BY DEF Cancel, durable
<1>2. own.pc # "idle" BY <1>1 DEF IndInv, Slot
<1>3. own \in OwnerType /\ job \in JobType /\ Rest /\ job.task \in Tasks /\ job.att \in Attempts
  BY <1>2, Working, Typed
<1>4. SameJob BY <1>3, JobMoves DEF Cancel
<1>5. pend' \subseteq PendType BY <1>2, RequestTypes DEF Cancel
<1>6. accepted' \subseteq (Tasks \X Attempts) BY <1>3 DEF Cancel, Rest
<1>7. Rest' BY <1>3, <1>5, <1>6 DEF Rest, Cancel, durable
<1> QED BY <1>1, <1>4, <1>7, SideStep

LEMMA DeliverKeeps == ASSUME IndInv, NEW d \in pend, Deliver(d) PROVE IndInv'
<1>1. UNCHANGED <<phase, own, rec, latch>> /\ UNCHANGED job BY DEF Deliver
<1>2. Rest /\ d \in PendType BY Typed DEF Rest
<1>3. d.task \in Tasks /\ d.att \in Attempts /\ [d EXCEPT !.st = "report"] \in PendType BY <1>2 DEF PendType
<1>4. ctl' = ctl \/ ctl' = [ctl EXCEPT ![d.task][d.att] = "1"] BY DEF Deliver, Target
<1>5. src' = src \/ src' = [src EXCEPT ![d.task][d.att] = "bad"] BY DEF Deliver, Target
<1>6. pend' \subseteq pend \cup {[d EXCEPT !.st = "report"]} BY DEF Deliver
<1>7. ctl' \in CtlType /\ src' \in SrcType
  <2>1. ctl' \in CtlType BY <1>2, <1>3, <1>4, ChannelMoves, ZenonT(60) DEF Rest
  <2>2. src' \in SrcType BY <1>2, <1>3, <1>5, ChannelMoves, ZenonT(60) DEF Rest
  <2> QED BY <2>1, <2>2
<1>8. pend' \subseteq PendType BY <1>2, <1>3, <1>6 DEF Rest
<1>9. Rest' BY <1>2, <1>7, <1>8 DEF Rest, Deliver
<1> QED BY <1>1, <1>9, KeptJob, SideStep

LEMMA ReportKeeps == ASSUME IndInv, NEW d \in pend, Report(d) PROVE IndInv'
<1>1. UNCHANGED <<phase, own, rec, latch>> BY DEF Report, durable
<1>2. job' = job \/ job' = [job EXCEPT !.cerr = TRUE] BY DEF Report
<1>3. SameJob BY <1>2, Typed, JobMoves, KeptJob
<1>4. Rest' BY Typed DEF Rest, Report, durable
<1> QED BY <1>1, <1>3, <1>4, SideStep

LEMMA SyncRequestKeeps == ASSUME IndInv, SyncRequest PROVE IndInv'
<1>1. UNCHANGED <<phase, own, rec, latch>> /\ UNCHANGED job BY DEF SyncRequest, durable
<1>2. [task |-> NoTask, att |-> 0] \in ChildType BY BoundsAssumption DEF ChildType
<1>3. Rest' BY <1>2, Typed DEF Rest, SyncRequest, durable, GpuHolders
<1> QED BY <1>1, <1>3, KeptJob, SideStep

LEMMA GuardStorageKeeps == ASSUME IndInv, GuardStorage PROVE IndInv'
<1>1. own.pc # "idle" /\ phase' = phase BY DEF GuardStorage
<1>2. /\ job.running /\ own \in OwnerType /\ job \in JobType /\ gpu \in GpuHolders /\ Rest
      /\ own.task \in Tasks /\ own.att \in Attempts
  BY <1>1, Working, Typed
<1>3. RecMove
  <2>1. \E ok \in BOOLEAN : PersistJob("pause_requested", ok) BY DEF GuardStorage
  <2> QED BY <1>1, <2>1, PersistMove DEF ActiveStates
<1>4. \/ UNCHANGED <<own, gpu>>
      \/ own' = [own EXCEPT !.bad = TRUE] /\ UNCHANGED gpu
      \/ Unwind("error")
  BY DEF GuardStorage
<1>5. SameOwner /\ gpu' \in GpuHolders
  <2>1. CASE UNCHANGED <<own, gpu>> BY <1>1, <1>2, <2>1 DEF SameOwner
  <2>2. CASE own' = [own EXCEPT !.bad = TRUE] /\ UNCHANGED gpu BY <1>1, <1>2, <2>2 DEF SameOwner, OwnerType
  <2>3. CASE Unwind("error") BY <1>2, <2>3, UnwindMoves DEF Outcomes
  <2> QED BY <1>4, <2>1, <2>2, <2>3
<1>6. job' = [job EXCEPT !.pause = TRUE] \/ job' = [job EXCEPT !.pause = TRUE, !.cerr = TRUE]
  BY DEF GuardStorage
<1>7. SameJob BY <1>2, <1>6, ZenonT(60) DEF SameJob, JobType
<1>8. ctl' = ctl \/ ctl' = [ctl EXCEPT ![own.task][own.att] = "1"] BY DEF GuardStorage
<1>9. src' = src \/ src' = [src EXCEPT ![own.task][own.att] = "bad"] BY DEF GuardStorage
<1>10. ctl' \in CtlType /\ src' \in SrcType BY <1>2, <1>8, <1>9, ChannelMoves, ZenonT(60) DEF Rest
<1>11. Rest' BY <1>2, <1>5, <1>10 DEF Rest, GuardStorage
<1> QED BY <1>1, <1>2, <1>3, <1>5, <1>7, <1>11, OwnerStep

----------------------------------------
(* The slot is given back. *)

\* The initial slot, ticket and record are typed.
LEMMA IdleTypes == Idle \in OwnerType /\ NoJob \in JobType /\ NoRecord \in RecordType
<1>1. 1 \in 1..MaxStage /\ 1 \in 1..MaxAttempt /\ 0 \in 0..MaxAttempt BY BoundsAssumption DEF MaxStage
<1>2. Idle \in OwnerType BY <1>1 DEF Idle, OwnerType, PcValues
<1>3. NoJob \in JobType BY <1>1 DEF NoJob, JobType, Attempts
<1>4. NoRecord \in RecordType BY <1>1 DEF NoRecord, RecordType, RecordStates, AllKinds
<1> QED BY <1>2, <1>3, <1>4

\* Freeing the slot with the record settled keeps the invariant.
LEMMA FinishStepKeeps0 ==
    ASSUME IndInv, own.pc # "idle", phase' = phase, own' = Idle,
           job' \in JobType, ~job'.running, Rest',
           NEW s \in SettledStates, RecStep(job.task, s)
    PROVE  IndInv'
<1>1. job.running /\ job.task \in Tasks BY Working
<1>2. Slot' BY <1>1 DEF IndInv, Slot, Idle
<1>3. s \notin ActiveStates BY DEF SettledStates, ActiveStates
<1>4. ActiveOne' BY <1>1, <1>3 DEF IndInv, Slot, ActiveOne, Active, RecStep
<1>5. TypeOK' BY Typed, IdleTypes, TypePartsNext DEF RecStep
<1> QED BY <1>2, <1>4, <1>5 DEF IndInv

LEMMA FinishAudioKeeps == ASSUME IndInv, FinishAudio PROVE IndInv'
<1>1. own.pc # "idle" /\ phase' = phase /\ own' = Idle BY DEF FinishAudio, AtPc
<1>2. /\ job.task \in Tasks /\ own.task = job.task /\ Records /\ Rest /\ job \in JobType
  BY <1>1, Working, Typed
<1>3. AudioOutcome \in SettledStates /\ AudioOutcome \in RecordStates
  BY DEF AudioOutcome, SettledStates, RecordStates
<1>4. RecStep(job.task, AudioOutcome) BY <1>2, <1>3, StateStep DEF FinishAudio
<1>5. job' \in JobType /\ ~job'.running BY <1>2 DEF FinishAudio, JobType
<1>6. Rest' BY <1>2 DEF Rest, FinishAudio
<1> QED BY <1>1, <1>3, <1>4, <1>5, <1>6, FinishStepKeeps0

LEMMA FinishTrainingKeeps == ASSUME IndInv, FinishTraining PROVE IndInv'
<1>1. own.pc # "idle" /\ phase' = phase /\ own' = Idle BY DEF FinishTraining, AtPc
<1>2. /\ job.task \in Tasks /\ Records /\ Rest /\ job \in JobType BY <1>1, Working, Typed
<1> DEFINE out == IF job.cerr THEN "error" ELSE own.out
           state == CASE out = "paused" -> "paused" [] out = "cancelled" -> "cancelled"
                      [] out = "error" -> "failed" [] OTHER -> "succeeded"
<1>3. state \in {"paused", "cancelled", "failed", "succeeded"} OBVIOUS
<1>4. /\ \E ok \in BOOLEAN : PersistJob(state, ok)
      /\ job' = [job EXCEPT !.running = FALSE,
                            !.cancelled = ~latch' /\ out = "cancelled",
                            !.stage = IF latch' THEN "failed" ELSE state]
  BY DEF FinishTraining
<1> HIDE DEF state, out
<1>5. state \in SettledStates /\ state \in RecordStates BY <1>3 DEF SettledStates, RecordStates
<1>6. RecStep(job.task, state) BY <1>2, <1>4, <1>5, PersistStep
<1>7. job' \in JobType /\ ~job'.running
  <2>1. (~latch' /\ out = "cancelled") \in BOOLEAN OBVIOUS
  <2>2. (IF latch' THEN "failed" ELSE state) \in StageNames BY <1>5 DEF StageNames, SettledStates
  <2>3. PICK b \in BOOLEAN, g \in StageNames :
          job' = [job EXCEPT !.running = FALSE, !.cancelled = b, !.stage = g]
    BY <1>4, <2>1, <2>2
  <2> QED BY <1>2, <2>3, ZenonT(60) DEF JobType, StageNames
<1>8. Rest' BY <1>2 DEF Rest, FinishTraining
<1> QED BY <1>1, <1>5, <1>6, <1>7, <1>8, FinishStepKeeps0

LEMMA FinishStepKeeps == ASSUME IndInv, FinishStep PROVE IndInv'
<1>1. own.pc # "idle" /\ phase' = phase /\ own' = Idle BY DEF FinishStep, AtPc
<1>2. /\ job.task \in Tasks /\ Records /\ Rest /\ job \in JobType BY <1>1, Working, Typed
<1>3. PICK state \in {"failed", "succeeded"} :
          /\ \E ok \in BOOLEAN : PersistJob(state, ok)
          /\ job' = [job EXCEPT !.running = FALSE, !.stage = state]
  BY DEF FinishStep
<1>4. state \in SettledStates /\ state \in RecordStates BY DEF SettledStates, RecordStates
<1>5. RecStep(job.task, state) BY <1>2, <1>3, <1>4, PersistStep
<1>6. job' \in JobType /\ ~job'.running BY <1>2, <1>3, <1>4 DEF JobType
<1>7. Rest' BY <1>2 DEF Rest, FinishStep, GpuHolders
<1> QED BY <1>1, <1>4, <1>5, <1>6, <1>7, FinishStepKeeps0

----------------------------------------
(* The slot is taken. *)

\* A task enters a free slot: its record is the only active one.
LEMMA BeginKeeps ==
    ASSUME IndInv, phase = "up", ~latch, ~job.running, phase' = phase, Rest',
           NEW t \in Tasks, NEW r \in RecordType, r.state \in ActiveStates,
           NEW ok \in BOOLEAN, Save(t, r, ok),
           ok => /\ job' \in JobType /\ job'.running /\ job'.task = t /\ job'.kind \in AllKinds
                 /\ own' \in OwnerType /\ own'.pc # "idle" /\ own'.task = t
                 /\ own'.gen = job'.gen /\ own'.att = job'.att /\ job'.att = r.att,
           ~ok => UNCHANGED <<job, own>>
    PROVE  IndInv'
<1>1. \A u \in Tasks : ~Active(u) BY DEF IndInv, ActiveOne
<1>2. Records' /\ (\A u \in Tasks : u # t => rec'[u] = rec[u]) BY Typed, SaveStep
<1>3. CASE ok
  <2>1. rec'[t] = r /\ latch' = latch BY <1>3, Typed, SaveStep
  <2>2. Slot' BY <1>3, <2>1 DEF Slot
  <2>3. ActiveOne' BY <1>1, <1>2, <1>3, <2>1 DEF ActiveOne, Active
  <2>4. TypeOK' BY <1>2, <1>3, Typed, TypePartsNext
  <2> QED BY <2>2, <2>3, <2>4 DEF IndInv
<1>4. CASE ~ok
  <2>1. ~latch' => FALSE BY <1>4, Typed, SaveStep
  <2>2. Slot' BY <1>4 DEF IndInv, Slot
  <2>3. ActiveOne' BY <1>1, <1>2, <1>4, <2>1 DEF ActiveOne, Active
  <2>4. TypeOK' BY <1>2, <1>4, Typed, TypePartsNext
  <2> QED BY <2>2, <2>3, <2>4 DEF IndInv
<1> QED BY <1>3, <1>4

LEMMA ReserveJobKeeps ==
    ASSUME IndInv, NEW t \in Tasks, NEW k \in Kinds, ReserveJob(t, k) PROVE IndInv'
<1> DEFINE r == [NoRecord EXCEPT !.state = "queued", !.att = 1, !.kind = k]
<1>0. k \in AllKinds /\ 1 \in Attempts /\ 1 \in 0..MaxAttempt
  BY KindsAssumption, BoundsAssumption DEF Attempts
<1>1. r \in RecordType /\ r.state \in ActiveStates /\ r.att = 1
  BY <1>0, IdleTypes DEF NoRecord, RecordType, RecordStates, ActiveStates
<1>2. phase = "up" /\ ~latch /\ ~job.running /\ phase' = phase BY DEF ReserveJob
<1>3. PICK ok \in BOOLEAN :
        /\ Save(t, r, ok)
        /\ IF ok
           THEN /\ job' = [NoJob EXCEPT !.running = TRUE, !.task = t, !.gen = job.gen + 1,
                                        !.kind = k, !.stage = "queued"]
                /\ own' = [Idle EXCEPT !.pc = "prepare", !.task = t, !.att = 1,
                                       !.gen = job.gen + 1]
           ELSE UNCHANGED <<job, own>>
  BY DEF ReserveJob
<1> HIDE DEF r
<1>4. job.gen + 1 \in Nat BY Typed DEF JobType
<1>5. ok => /\ job' \in JobType /\ job'.running /\ job'.task = t /\ job'.kind \in AllKinds
            /\ job'.att = 1 /\ job'.gen = job.gen + 1
  <2>1. ok => job' = [NoJob EXCEPT !.running = TRUE, !.task = t, !.gen = job.gen + 1,
                                   !.kind = k, !.stage = "queued"]
    BY <1>3
  <2> QED BY <1>0, <1>4, <2>1, ZenonT(60) DEF NoJob, JobType
<1>6. ok => /\ own' \in OwnerType /\ own'.pc # "idle" /\ own'.task = t
            /\ own'.gen = job.gen + 1 /\ own'.att = 1
  <2>1. ok => own' = [Idle EXCEPT !.pc = "prepare", !.task = t, !.att = 1, !.gen = job.gen + 1] BY <1>3
  <2> QED BY <1>0, <1>4, <2>1, IdleTypes, ZenonT(60) DEF Idle, OwnerType, PcValues
<1>7. Rest' BY Typed DEF Rest, ReserveJob
<1>8. ~ok => UNCHANGED <<job, own>> BY <1>3
<1>9. Save(t, r, ok) BY <1>3
<1> QED BY <1>1, <1>2, <1>5, <1>6, <1>7, <1>8, <1>9, BeginKeeps

LEMMA ResumeKeeps == ASSUME IndInv, NEW t \in Tasks, Resume(t) PROVE IndInv'
<1> DEFINE n == NextAttempt(t)
           r == [rec[t] EXCEPT !.state = "queued", !.att = n, !.from = rec[t].att, !.noted = FALSE]
<1>0. rec[t] \in RecordType /\ job \in JobType BY Typed DEF Records
<1>1. n \in Attempts /\ n \in 0..MaxAttempt
  BY <1>0, BoundsAssumption DEF Resume, NextAttempt, RecordType, Attempts
<1>2. phase = "up" /\ ~latch /\ ~job.running /\ phase' = phase BY DEF Resume
<1>3. PICK ok \in BOOLEAN :
        /\ Save(t, r, ok)
        /\ IF ok
           THEN /\ job' = [NoJob EXCEPT !.running = TRUE, !.task = t, !.att = n,
                             !.gen = job.gen + 1, !.kind = rec[t].kind, !.stage = "queued",
                             !.recov = rec[t].kind = "full"]
                /\ \E pc \in {"create", "finish"} :
                     own' = [Idle EXCEPT !.pc = pc, !.task = t, !.att = n,
                               !.gen = job.gen + 1,
                               !.out = IF pc = "finish" THEN "error" ELSE "none"]
           ELSE UNCHANGED <<job, own>>
  BY DEF Resume
<1> HIDE DEF n
<1>4. r \in RecordType /\ r.state \in ActiveStates /\ r.att = n
  BY <1>0, <1>1 DEF RecordType, RecordStates, ActiveStates
<1> HIDE DEF r
<1>5. job.gen + 1 \in Nat /\ rec[t].kind \in AllKinds BY <1>0 DEF JobType, RecordType
<1>6. ok => /\ job' \in JobType /\ job'.running /\ job'.task = t /\ job'.kind \in AllKinds
            /\ job'.att = n /\ job'.gen = job.gen + 1
  <2>1. ok => \E b \in BOOLEAN :
                job' = [NoJob EXCEPT !.running = TRUE, !.task = t, !.att = n,
                          !.gen = job.gen + 1, !.kind = rec[t].kind, !.stage = "queued",
                          !.recov = b]
    BY <1>3
  <2> QED BY <1>1, <1>5, <2>1, ZenonT(60) DEF NoJob, JobType
<1>7. ok => /\ own' \in OwnerType /\ own'.pc # "idle" /\ own'.task = t
            /\ own'.gen = job.gen + 1 /\ own'.att = n
  <2>1. ok => \E pc \in {"create", "finish"}, o \in {"error", "none"} :
                own' = [Idle EXCEPT !.pc = pc, !.task = t, !.att = n,
                          !.gen = job.gen + 1, !.out = o]
    BY <1>3
  <2> QED BY <1>1, <1>5, <2>1, IdleTypes, ZenonT(60) DEF Idle, OwnerType, PcValues
<1>8. Rest' BY Typed DEF Rest, Resume
<1>9. Save(t, r, ok) /\ (~ok => UNCHANGED <<job, own>>) BY <1>3
<1> QED BY <1>2, <1>4, <1>6, <1>7, <1>8, <1>9, BeginKeeps

----------------------------------------
(* No thread owns the slot. *)

\* A step while nobody owns the slot that makes no record active.
LEMMA IdleStep ==
    ASSUME IndInv, ~job.running, UNCHANGED <<phase, job, own>>, Records', Rest',
           \A u \in Tasks : rec'[u].state = rec[u].state,
           ~latch' => ~latch, phase # "up" => latch' = FALSE
    PROVE  IndInv'
<1>1. Slot' BY DEF IndInv, Slot
<1>2. ActiveOne' BY DEF IndInv, ActiveOne, Active
<1>3. TypeOK' BY Typed, TypePartsNext
<1> QED BY <1>1, <1>2, <1>3 DEF IndInv

LEMMA CleanupKeeps == ASSUME IndInv, NEW t \in Tasks, Cleanup(t) PROVE IndInv'
<1> DEFINE r == [rec[t] EXCEPT !.pruned = TRUE]
<1>1. rec[t] \in RecordType BY Typed DEF Records
<1>2. r \in RecordType /\ r.state = rec[t].state BY <1>1, RecordMoves
<1>3. PICK ok \in BOOLEAN : Save(t, r, ok) BY DEF Cleanup
<1> HIDE DEF r
<1>4. Records' /\ (\A u \in Tasks : u # t => rec'[u] = rec[u]) /\ (rec'[t] = rec[t] \/ rec'[t] = r)
  BY <1>2, <1>3, Typed, SaveStep
<1>5. ~latch' => ~latch BY <1>2, <1>3, Typed, SaveStep
<1>6. \A u \in Tasks : rec'[u].state = rec[u].state BY <1>2, <1>4
<1>7. phase = "up" /\ ~job.running /\ UNCHANGED <<phase, job, own>> BY DEF Cleanup
<1>8. Rest' BY Typed DEF Rest, Cleanup
<1> QED BY <1>4, <1>5, <1>6, <1>7, <1>8, IdleStep

LEMMA SignalInterruptedKeeps ==
    ASSUME IndInv, NEW t \in Tasks, SignalInterrupted(t) PROVE IndInv'
<1>1. /\ phase = "signalling" /\ UNCHANGED <<phase, job, own>> /\ UNCHANGED latch
      /\ ~job.running /\ latch = FALSE
  BY DEF IndInv, Slot, SignalInterrupted, memory
<1>2. rec[t] \in RecordType /\ Records /\ Rest BY Typed DEF Records
<1>3. /\ ctl' = ctl \/ ctl' = [ctl EXCEPT ![t][rec[t].att] = "1"]
      /\ rec' = rec \/ rec' = [rec EXCEPT ![t].noted = TRUE]
  BY DEF SignalInterrupted
<1>4. ctl' \in CtlType
  <2>1. ctl \in CtlType /\ ctl[t] \in [Attempts -> {"absent", "0", "1"}] BY <1>2 DEF Rest, CtlType
  <2>2. ASSUME NEW a PROVE [ctl[t] EXCEPT ![a] = "1"] \in [Attempts -> {"absent", "0", "1"}] BY <2>1
  <2>3. ASSUME NEW a PROVE [ctl EXCEPT ![t][a] = "1"] \in CtlType BY <2>1, <2>2 DEF CtlType
  <2> QED BY <1>3, <2>1, <2>3
<1>5. Rest' BY <1>2, <1>4 DEF Rest, SignalInterrupted, memory
<1>6. Records' /\ (\A u \in Tasks : rec'[u].state = rec[u].state)
  BY <1>1, <1>2, <1>3, RecordMoves, ZenonT(60) DEF Records
<1> QED BY <1>1, <1>5, <1>6, IdleStep

LEMMA MarkInterruptedKeeps ==
    ASSUME IndInv, NEW t \in Tasks, MarkInterrupted(t) PROVE IndInv'
<1>1. /\ phase = "marking" /\ UNCHANGED <<phase, job, own, latch>>
      /\ rec' = [rec EXCEPT ![t].state = "interrupted", ![t].noted = FALSE]
  BY DEF MarkInterrupted, memory
<1>2. rec[t] \in RecordType /\ Records /\ Rest BY Typed DEF Records
<1> DEFINE r == [rec[t] EXCEPT !.state = "interrupted", !.noted = FALSE]
<1>3. r \in RecordType /\ r.state = "interrupted" BY <1>2 DEF RecordType, RecordStates, SettledStates
<1>4. rec' = [rec EXCEPT ![t] = r] BY <1>1, <1>2 DEF Records
<1> HIDE DEF r
<1>5. Records' /\ (\A u \in Tasks : u # t => rec'[u] = rec[u]) /\ rec'[t] = r
  BY <1>1, <1>2, <1>3, <1>4 DEF Records
<1>6. Rest' BY <1>2 DEF Rest, MarkInterrupted, memory
<1>7. Slot' BY <1>1 DEF IndInv, Slot
<1>8. ActiveOne' BY <1>1, <1>3, <1>5 DEF IndInv, Slot, ActiveOne, Active, ActiveStates
<1>9. TypeOK' BY <1>1, <1>5, <1>6, Typed, TypePartsNext
<1> QED BY <1>7, <1>8, <1>9 DEF IndInv

LEMMA CrashKeeps == ASSUME IndInv, Crash PROVE IndInv'
<1>1. /\ phase' = "down" /\ latch' = FALSE /\ job' = NoJob /\ own' = Idle /\ rec' = rec BY DEF Crash, durable
<1>2. Slot' BY <1>1 DEF Slot, NoJob, Idle
<1>3. ActiveOne' BY <1>1 DEF IndInv, ActiveOne, Active, NoJob
<1>4. NoSources \in SrcType BY DEF NoSources, SrcType
<1>5. crashes' \in 0..MaxCrashes BY Typed, BoundsAssumption DEF Crash, Rest
<1>6. Rest' BY <1>4, <1>5, Typed DEF Rest, Crash, durable, GpuHolders
<1>7. TypeOK' BY <1>1, <1>6, Typed, IdleTypes, TypePartsNext DEF Records
<1> QED BY <1>2, <1>3, <1>7 DEF IndInv

LEMMA RestartKeeps == ASSUME IndInv, Start \/ MarkingDone \/ Ready PROVE IndInv'
<1>1. /\ UNCHANGED <<rec, latch>> /\ UNCHANGED job /\ UNCHANGED own
      /\ phase' \in {"marking", "signalling", "up"} /\ phase # "up"
  BY DEF Start, MarkingDone, Ready, durable, memory
<1>2. ~job.running /\ latch = FALSE BY <1>1 DEF IndInv, Slot
<1>3. Slot' BY <1>1, <1>2 DEF IndInv, Slot
<1>4. phase' # "marking" => \A t \in Tasks : ~Active(t)
  BY DEF IndInv, ActiveOne, Active, Start, MarkingDone, Ready
<1>5. ActiveOne' BY <1>1, <1>2, <1>4 DEF IndInv, ActiveOne, Active
<1>6. todo' \subseteq Tasks BY Typed DEF Start, MarkingDone, Ready, SignalTargets, Rest
<1>7. Rest' BY <1>6, Typed DEF Rest, Start, MarkingDone, Ready, durable, memory
<1>8. TypeOK' BY <1>1, <1>7, Typed, TypePartsNext DEF Records
<1> QED BY <1>3, <1>5, <1>8 DEF IndInv

----------------------------------------
\* The initial states satisfy the invariant.
LEMMA InitIndInv == ASSUME Init PROVE IndInv
<1>1. TypeOK
  <2>1. Records /\ job \in JobType /\ own \in OwnerType BY IdleTypes DEF Init, Records
  <2>2. Rest
    <3>1. src \in SrcType /\ ctl \in CtlType BY DEF Init, NoSources, SrcType, CtlType
    <3>2. 0 \in 0..MaxStage /\ 0 \in 0..MaxAttempt /\ 0 \in 0..MaxCrashes BY BoundsAssumption DEF MaxStage
    <3> QED BY <3>1, <3>2 DEF Init, Rest, GpuHolders
  <2> QED BY <2>1, <2>2, TypeParts DEF Init
<1>2. Slot BY DEF Init, Slot, NoJob, Idle
<1>3. ActiveOne BY DEF Init, ActiveOne, Active, NoRecord, ActiveStates
<1> QED BY <1>1, <1>2, <1>3 DEF IndInv

\* Every step keeps it: one case per group of actions.
LEMMA NextIndInv == ASSUME IndInv, [Next]_vars PROVE IndInv'
<1>1. CASE Owner
  BY <1>1, PrepareAudioKeeps, RetainParametersKeeps, NoMaterialKeeps, CommitMaterialKeeps, HandOffKeeps,
     PrepareTrainingKeeps, SetQueuedKeeps, StartStepKeeps, CreateChannelKeeps, RegisterKeeps,
     TakeGpuKeeps, WaitGpuKeeps, BoundariesKeep, ReuseStageKeeps, LaunchKeeps, ReapKeeps,
     ReapPlainKeeps, CloseChannelKeeps, RetireKeeps, JudgeKeeps, SettleKeeps, PublishKeeps,
     FinishAudioKeeps, FinishTrainingKeeps, FinishStepKeeps DEF Owner
<1>2. CASE Handlers BY <1>2, ReserveJobKeeps, ResumeKeeps, CleanupKeeps, PauseKeeps, CancelKeeps,
     SyncRequestKeeps, DeliverKeeps, ReportKeeps DEF Handlers
<1>3. CASE Restart BY <1>3, RestartKeeps, MarkInterruptedKeeps, SignalInterruptedKeeps DEF Restart
<1>4. CASE StepTail \/ (\E p \in procs : ChildExit(p)) \/ ProgressFault \/ GuardStorage \/ Crash
  BY <1>4, StepTailKeeps, ChildExitKeeps, ProgressFaultKeeps, GuardStorageKeeps, CrashKeeps
<1>5. CASE UNCHANGED vars
  <2>1. UNCHANGED <<phase, own, rec, latch>> /\ UNCHANGED job BY <1>5 DEF vars, durable, memory
  <2>2. Rest' BY <1>5, Typed DEF Rest, vars, durable, memory
  <2> QED BY <2>1, <2>2, KeptJob, SideStep
<1> QED BY <1>1, <1>2, <1>3, <1>4, <1>5 DEF Next

\* The slot, the thread that owns it and the records on disk agree in every
\* reachable state.
THEOREM IndInvHolds == Spec => []IndInv
  BY InitIndInv, NextIndInv, PTL DEF Spec

\* Type correctness, for any number of tasks, stages, attempts, handlers and
\* crashes: job_, the owner's ticket and the records never leave their types.
THEOREM TypeCorrect == Spec => []TypeOK
<1>1. IndInv => TypeOK BY DEF IndInv
<1> QED BY <1>1, IndInvHolds, PTL

\* job_.running is set exactly while one thread holds the matching ticket, on
\* every path through reserve_job, resume, failure, pause and finish.
THEOREM SlotCorrect == Spec => []SlotHasOneOwner
<1>1. IndInv => SlotHasOneOwner BY DEF IndInv, Slot, SlotHasOneOwner
<1> QED BY <1>1, IndInvHolds, PTL

\* At most one record on disk is active, and while the service is up and its
\* storage works that is the record of the slot, whatever saves fail and
\* wherever the service crashes.
THEOREM ActiveCorrect == Spec => []OneActiveRecord
<1>1. IndInv => OneActiveRecord BY DEF IndInv, ActiveOne, Active, OneActiveRecord
<1> QED BY <1>1, IndInvHolds, PTL

----------------------------------------
(* The layers of TaskInv: accepted requests, results, stage markers, input *)
(* copies, control files, children that outlive the service, and the *)
(* refinement of TaskContract. *)

Recoverable(k) == k \in Audio \cup {"full"}
Ended == {"close", "retire", "judge", "settle", "finish"}
Unready == {"prepare", "material", "handoff", "fix", "finish"}

----------------------------------------
(* The invariant, in layers: each rests on itself and on those above it. *)

\* Which kinds of work pass through which steps.
PcFitsKind ==
    /\ own.pc \in {"material", "handoff", "enqueue"} => job.kind \in Training
    /\ own.pc \in {"fix", "settle"} => job.kind = "full"
    /\ own.pc = "judge" => job.kind = "plain"
    /\ job.kind = "step" => own.pc \in {"prepare", "run", "wait", "publish", "close", "retire", "finish"}

\* An outcome is known only on the way out, and only some kinds have it.
OutIsLate ==
    /\ own.pc \notin Ended => own.out = "none"
    /\ own.pc = "finish" => own.out # "none"
    /\ own.pc = "settle" => own.out = "paused"
    /\ own.pc \in {"close", "retire"} /\ own.out = "none" => job.kind = "plain"
    /\ own.out = "cancelled" => job.kind \in Training
    /\ own.out = "paused" => Recoverable(job.kind)

\* The number of the stage the owner is at.
StageFits ==
    /\ own.k <= LastStage(job.kind)
    /\ own.pc \in {"prepare", "material", "handoff", "fix", "enqueue", "gpu", "check"} => own.k = 1
    /\ Recoverable(job.kind) /\ own.pc \in {"create", "register"} => own.k = 1
    /\ own.pc \in {"seal", "publish"} => own.k = LastStage(job.kind)
    /\ job.kind = "plain" /\ own.pc \in {"create", "register"} => own.k = 2

\* Which requests the slot can have accepted.
RequestsFit ==
    /\ job.recov => job.kind = "full"
    /\ own.pc \in {"prepare", "material", "handoff", "fix"} => ~job.recov
    /\ job.kind = "full" /\ own.pc \notin Unready => job.recov
    /\ job.pause => Recoverable(job.kind) /\ (job.kind = "full" => job.recov)
    /\ job.cancel => job.kind \in Training

\* The stage that no request can interrupt is entered before anything is
\* published.
FinalIsSealed ==
    job.kind # "step" /\ (own.pc = "publish" \/ own.out = "ok") => job.stage = "final"

Flow == job.running => PcFitsKind /\ OutIsLate /\ StageFits /\ RequestsFit /\ FinalIsSealed

\* The record of the slot's task, and what every record promises.
NoneIsBlank == \A t \in Tasks : rec[t].state = "none" => rec[t] = NoRecord
RecipeFits == \A t \in Tasks : rec[t].recov => Recoverable(rec[t].kind)
SlotRecord ==
    job.running =>
        /\ Active(job.task)
        /\ rec[job.task].kind = job.kind
        /\ rec[job.task].state = "pause_requested" => job.pause
        /\ Recoverable(job.kind) /\ own.pc \notin Unready => rec[job.task].recov

Recs == NoneIsBlank /\ RecipeFits /\ SlotRecord /\ RecoverableKeepsCopies

\* Results, stage markers and accepted requests.
ResultIsPast == \A t \in Tasks : res[t] <= rec[t].att
DoneIsReal == \A t \in Tasks : done[t] <= (IF Recoverable(rec[t].kind) THEN LastStage(rec[t].kind) ELSE 0)
SlotResult ==
    job.running =>
        /\ res[job.task] = job.att <=> own.out = "ok"
        /\ Recoverable(job.kind) =>
             /\ own.pc \in {"gpu", "check", "stage", "run"} => done[job.task] >= own.k - 1
             /\ own.pc = "wait" => done[job.task] = own.k - 1
             /\ own.pc \in {"seal", "publish"} \/ own.out = "ok" => done[job.task] = LastStage(job.kind)
AcceptedIsPast == \A t \in Tasks, a \in Attempts : <<t, a>> \in accepted => a <= rec[t].att
SlotAccepted ==
    job.running =>
        /\ <<job.task, job.att>> \in accepted => job.pause \/ job.cancel
        /\ own.pc = "publish" \/ own.out = "ok" => <<job.task, job.att>> \notin accepted

Results == /\ ResultIsPast /\ DoneIsReal /\ SlotResult /\ AcceptedIsPast /\ SlotAccepted
           /\ AcceptedNeverSucceeds /\ SuccessIsInstalled

\* Control files and their sources.
ChannelsArePast ==
    \A t \in Tasks, a \in Attempts :
        /\ ctl[t][a] # "absent" => a <= rec[t].att
        /\ src[t][a] # "none" => a <= rec[t].att
BeforeChannel ==
    \/ own.pc \in {"prepare", "material", "handoff", "fix", "enqueue", "create"}
    \/ job.kind = "plain" /\ own.pc \in {"gpu", "check"}
    \/ job.kind = "plain" /\ own.pc \in {"stage", "run", "wait"} /\ own.k = 1
    \/ job.kind = "plain" /\ own.pc = "stage" /\ own.k = 2
SlotChannel ==
    job.running =>
        /\ BeforeChannel => ctl[job.task][job.att] = "absent" /\ src[job.task][job.att] = "none"
        /\ Recoverable(job.kind) /\ own.pc \in {"register", "gpu", "check", "stage", "run", "wait"}
             => ctl[job.task][job.att] # "absent"
HandlersAreOwn ==
    \A d \in pend : /\ <<d.task, d.att>> \in accepted
                    /\ d.st = "report" => src[d.task][d.att] \in {"bad", "closedbad"}

PlainIsLate ==
    job.running /\ job.kind = "plain" /\ own.pc \in {"close", "retire", "judge"} => own.k >= 2
ErrorHasTask == job.cerr => job.task \in Tasks

Channels == PlainIsLate /\ ErrorHasTask /\ ChannelsArePast /\ SlotChannel /\ HandlersAreOwn /\ ErrorIsOwn /\ NoLateSignal

\* Children, and what a restart still has to do about them.
ChildrenAreTold ==
    \A p \in procs : p.task # NoTask =>
        /\ p.att \in Attempts /\ p.att <= rec[p.task].att
        /\ Recoverable(rec[p.task].kind) => rec[p.task].recov /\ ctl[p.task][p.att] # "absent"
        /\ phase \in {"signalling", "up"} /\ Left(p) /\ rec[p.task].kind \in {"audio", "full"} =>
             (phase = "signalling" /\ p.task \in todo) \/ ctl[p.task][p.att] = "1" \/ rec[p.task].noted
TodoIsLeft == \A t \in todo : phase = "signalling" /\ rec[t].state = "interrupted"

Children == ChildrenAreTold /\ TodoIsLeft

TaskInv == IndInv /\ Flow /\ Recs /\ Results /\ Channels /\ Children
----------------------------------------
(* What the steps do, field by field: where the owner goes, what the slot *)
(* and the slot's record become.  Each lemma XGoes says it of the action X *)
(* in terms of the operators below; the layers of the invariant use them *)
(* and never the assignments themselves. *)

\* The owner goes to pc with outcome out, and keeps its ticket and its stage.
Moves(pc, out) ==
    /\ own'.pc = pc /\ own'.out = out /\ own'.k = own.k /\ own'.exit = own.exit
    /\ own'.task = own.task /\ own'.att = own.att /\ own'.gen = own.gen
Jumps(pc) == Moves(pc, own.out)
Fails == Moves("finish", "error")
Unwinds(out) == \/ ChannelOpen /\ Moves("close", out)
                \/ ~ChannelOpen /\ Moves("finish", out)
\* The owner takes up the next stage, or has none left.
Advances ==
    /\ own'.out = own.out
    /\ own'.task = own.task /\ own'.att = own.att /\ own'.gen = own.gen
    /\ \/ /\ own.k < LastStage(job.kind)
          /\ own'.pc = "stage" /\ own'.k = own.k + 1
       \/ /\ ~(own.k < LastStage(job.kind))
          /\ own'.pc = (IF job.kind = "step" THEN "publish" ELSE "seal")
          /\ own'.k = own.k
\* job_ keeps its ticket, and its control fields become what is given.
JobSets(stage, pause, cancel, cerr, recov) ==
    /\ job'.running = job.running /\ job'.task = job.task /\ job'.att = job.att
    /\ job'.gen = job.gen /\ job'.kind = job.kind
    /\ job'.stage = stage /\ job'.pause = pause /\ job'.cancel = cancel
    /\ job'.cerr = cerr /\ job'.recov = recov
JobStays == JobSets(job.stage, job.pause, job.cancel, job.cerr, job.recov)
Enters(stage) == JobSets(stage, job.pause, job.cancel, job.cerr, job.recov)
\* The record of t, alone, is saved with state s, or stays as it was.
Writes(t, s) ==
    /\ \A u \in Tasks : u # t => rec'[u] = rec[u]
    /\ rec'[t].state \in {rec[t].state, s}
    /\ rec'[t].att = rec[t].att /\ rec'[t].kind = rec[t].kind
    /\ rec'[t].recov = rec[t].recov /\ rec'[t].noted = rec[t].noted

LEMMA OwnerMoves ==
    ASSUME own \in OwnerType
    PROVE  /\ \A pc : Goto(pc) => Jumps(pc)
           /\ Fail("finish") => Fails
           /\ \A out : Leave(out) => Moves("finish", out)
           /\ \A out : Unwind(out) => Unwinds(out)
           /\ UNCHANGED own => Jumps(own.pc)
           /\ own' = [own EXCEPT !.bad = TRUE] => Jumps(own.pc)
           /\ own' = NextStage => Advances
<1> USE DEF OwnerType, Moves
<1>1. ASSUME NEW pc, Goto(pc) PROVE Jumps(pc) BY <1>1 DEF Goto, Jumps
<1>2. ASSUME Fail("finish") PROVE Fails BY <1>2 DEF Fail, Fails
<1>3. ASSUME NEW out, Leave(out) PROVE Moves("finish", out) BY <1>3 DEF Leave
<1>4. ASSUME NEW out, Unwind(out) PROVE Unwinds(out)
  <2>1. PICK pc \in {"close", "finish"} : own' = [own EXCEPT !.pc = pc, !.out = out]
                                         /\ pc = IF ChannelOpen THEN "close" ELSE "finish"
    BY <1>4 DEF Unwind
  <2>2. Moves(pc, out) BY <2>1
  <2> QED BY <2>1, <2>2 DEF Unwinds
<1>5. UNCHANGED own \/ own' = [own EXCEPT !.bad = TRUE] => Jumps(own.pc) BY DEF Jumps
<1>6. ASSUME own' = NextStage PROVE Advances BY <1>6 DEF NextStage, Advances
<1> QED BY <1>1, <1>2, <1>3, <1>4, <1>5, <1>6

LEMMA JobFields ==
    ASSUME job \in JobType
    PROVE  /\ UNCHANGED job => JobStays
           /\ \A s : job' = [job EXCEPT !.stage = s] => Enters(s)
           /\ \A b : job' = [job EXCEPT !.src = b] => JobStays
           /\ job' = [job EXCEPT !.pause = TRUE] => JobSets(job.stage, TRUE, job.cancel, job.cerr, job.recov)
           /\ job' = [job EXCEPT !.pause = TRUE, !.cerr = TRUE] => JobSets(job.stage, TRUE, job.cancel, TRUE, job.recov)
           /\ job' = [job EXCEPT !.cancel = TRUE] => JobSets(job.stage, job.pause, TRUE, job.cerr, job.recov)
           /\ job' = [job EXCEPT !.cerr = TRUE] => JobSets(job.stage, job.pause, job.cancel, TRUE, job.recov)
           /\ \A b : job' = [job EXCEPT !.recov = b] => JobSets(job.stage, job.pause, job.cancel, job.cerr, b)
           /\ \A b : job' = [job EXCEPT !.cerr = job.cerr \/ b, !.src = FALSE]
                => JobSets(job.stage, job.pause, job.cancel, job.cerr \/ b, job.recov)
  BY ZenonT(60) DEF JobType, JobStays, Enters, JobSets

LEMMA Ticket ==
    ASSUME IndInv
    PROVE  /\ own \in OwnerType /\ job \in JobType /\ own.k \in Nat \ {0} /\ rec \in [Tasks -> RecordType]
           /\ own.pc # "idle" =>
                /\ job.running /\ job.task \in Tasks /\ job.att \in Attempts /\ job.kind \in AllKinds
                /\ own.task = job.task /\ own.att = job.att /\ own.gen = job.gen
                /\ rec[job.task].att = job.att
<1>1. own \in OwnerType /\ job \in JobType /\ rec \in [Tasks -> RecordType] BY Typed DEF Records
<1>2. own.k \in Nat \ {0} BY <1>1 DEF OwnerType
<1>3. own.pc # "idle" => rec[job.task].att = job.att BY DEF IndInv, Slot
<1> QED BY <1>1, <1>2, <1>3, Working

\* A save of another state, by whichever call, writes only that.
LEMMA SaveWrites ==
    ASSUME rec \in [Tasks -> RecordType], NEW t \in Tasks, NEW s, NEW ok,
           Save(t, [rec[t] EXCEPT !.state = s], ok)
    PROVE  Writes(t, s)
<1>1. rec[t] \in RecordType OBVIOUS
<1>2. UNCHANGED rec \/ rec' = [rec EXCEPT ![t] = [rec[t] EXCEPT !.state = s]] BY DEF Save
<1>3. CASE UNCHANGED rec BY <1>3 DEF Writes
<1>4. CASE rec' = [rec EXCEPT ![t] = [rec[t] EXCEPT !.state = s]]
  <2>1. \A u \in Tasks : u # t => rec'[u] = rec[u] BY <1>4
  <2>2. rec'[t] = [rec[t] EXCEPT !.state = s] BY <1>4
  <2> QED BY <1>1, <2>1, <2>2 DEF Writes, RecordType
<1> QED BY <1>2, <1>3, <1>4

LEMMA PersistWrites ==
    ASSUME rec \in [Tasks -> RecordType], job.task \in Tasks, NEW s, NEW ok, PersistJob(s, ok)
    PROVE  Writes(job.task, s)
<1>1. CASE latch BY <1>1 DEF PersistJob, Writes
<1>2. CASE ~latch BY <1>2, SaveWrites DEF PersistJob
<1> QED BY <1>1, <1>2
----------------------------------------
(* The owner's steps. *)

\* The record of t receives its recovery recipe, once the copies are there.
Recipe(t) ==
    /\ copies'[t]
    /\ \A u \in Tasks : u # t => rec'[u] = rec[u]
    /\ rec'[t].state = rec[t].state /\ rec'[t].att = rec[t].att /\ rec'[t].kind = rec[t].kind
    /\ rec'[t].recov /\ rec'[t].noted = rec[t].noted

LEMMA QuietSaves ==
    ASSUME rec \in [Tasks -> RecordType], NEW t \in Tasks, copies'[t], NEW ok,
           SaveQuiet(t, [rec[t] EXCEPT !.recov = TRUE], ok)
    PROVE  Recipe(t) \/ (~ok /\ UNCHANGED rec)
<1>1. rec[t] \in RecordType OBVIOUS
<1>2. CASE rec' = [rec EXCEPT ![t] = [rec[t] EXCEPT !.recov = TRUE]]
  <2>1. \A u \in Tasks : u # t => rec'[u] = rec[u] BY <1>2
  <2>2. rec'[t] = [rec[t] EXCEPT !.recov = TRUE] BY <1>2
  <2> QED BY <1>1, <2>1, <2>2 DEF Recipe, RecordType
<1> QED BY <1>2 DEF SaveQuiet

LEMMA PrepareAudioGoes == ASSUME IndInv, PrepareAudio PROVE
    /\ own.pc = "prepare" /\ job.kind \in Audio /\ JobStays
    /\ \/ Jumps("create") /\ Recipe(job.task)
       \/ Fails /\ (Recipe(job.task) \/ UNCHANGED rec)
<1>1. own.pc = "prepare" /\ job.kind \in Audio /\ UNCHANGED job BY DEF PrepareAudio, AtPc
<1>2. PICK ok \in BOOLEAN :
        IF copies'[own.task]
        THEN /\ SaveQuiet(own.task, [rec[own.task] EXCEPT !.recov = TRUE], ok)
             /\ IF ok THEN Goto("create") ELSE Fail("finish")
        ELSE UNCHANGED <<rec, latch>> /\ Fail("finish")
  BY DEF PrepareAudio
<1>3. CASE copies'[own.task] BY <1>1, <1>2, <1>3, Ticket, QuietSaves, OwnerMoves, JobFields
<1>4. CASE ~copies'[own.task] BY <1>1, <1>2, <1>4, Ticket, OwnerMoves, JobFields
<1> QED BY <1>3, <1>4

LEMMA RetainParametersGoes == ASSUME IndInv, RetainParameters PROVE
    own.pc = "prepare" /\ job.kind \in Training /\ JobStays /\ (Jumps("material") \/ Fails)
  BY Ticket, OwnerMoves, JobFields DEF RetainParameters, AtPc

LEMMA NoMaterialGoes == ASSUME IndInv, NoMaterial PROVE
    own.pc = "material" /\ JobStays /\ Jumps("handoff")
  BY Ticket, OwnerMoves, JobFields DEF NoMaterial, AtPc

LEMMA CommitMaterialGoes == ASSUME IndInv, CommitMaterial PROVE
    /\ own.pc = "material"
    /\ \/ JobStays /\ UNCHANGED rec /\ (Fails \/ Moves("finish", "cancelled"))
       \/ Enters("busy") /\ Writes(job.task, "running") /\ (Jumps("handoff") \/ Fails)
<1>1. own.pc = "material" BY DEF CommitMaterial, AtPc
<1>2. CASE UNCHANGED <<rec, latch, job>> /\ (Leave("error") \/ Leave("cancelled"))
  BY <1>1, <1>2, Ticket, OwnerMoves, JobFields DEF Fails
<1>3. CASE /\ job' = [job EXCEPT !.stage = "busy"]
           /\ \E ok \in BOOLEAN :
                /\ PersistJob("running", ok)
                /\ IF ok THEN Goto("handoff") \/ Fail("finish") ELSE Fail("finish")
  BY <1>1, <1>3, Ticket, OwnerMoves, JobFields, PersistWrites
<1> QED BY <1>2, <1>3 DEF CommitMaterial

LEMMA HandOffGoes == ASSUME IndInv, HandOff PROVE
    /\ own.pc = "handoff" /\ JobStays
    /\ \/ Moves("finish", "cancelled")
       \/ job.kind = "full" /\ Jumps("fix")
       \/ job.kind # "full" /\ Jumps("enqueue")
  BY Ticket, OwnerMoves, JobFields DEF HandOff, AtPc

LEMMA PrepareTrainingGoes == ASSUME IndInv, PrepareTraining PROVE
    /\ own.pc = "fix"
    /\ \/ JobSets(job.stage, job.pause, job.cancel, job.cerr, TRUE) /\ Jumps("enqueue") /\ Recipe(job.task)
       \/ /\ JobSets(job.stage, job.pause, job.cancel, job.cerr, FALSE) \/ JobStays
          /\ Fails /\ (Recipe(job.task) \/ UNCHANGED rec)
<1>1. own.pc = "fix" BY DEF PrepareTraining, AtPc
<1>2. PICK ok \in BOOLEAN :
        IF copies'[own.task]
        THEN /\ SaveQuiet(own.task, [rec[own.task] EXCEPT !.recov = TRUE], ok)
             /\ job' = [job EXCEPT !.recov = ok]
             /\ IF ok THEN Goto("enqueue") ELSE Fail("finish")
        ELSE UNCHANGED <<rec, latch, job>> /\ Fail("finish")
  BY DEF PrepareTraining
<1>3. CASE copies'[own.task]
  <2>1. Recipe(job.task) \/ (~ok /\ UNCHANGED rec) BY <1>1, <1>2, <1>3, Ticket, QuietSaves
  <2>2. JobSets(job.stage, job.pause, job.cancel, job.cerr, ok) BY <1>2, <1>3, Ticket, JobFields
  <2> QED BY <1>1, <1>2, <1>3, <2>1, <2>2, Ticket, OwnerMoves
<1>4. CASE ~copies'[own.task] BY <1>1, <1>2, <1>4, Ticket, OwnerMoves, JobFields
<1> QED BY <1>3, <1>4

LEMMA SetQueuedGoes == ASSUME IndInv, SetQueued PROVE
    /\ own.pc = "enqueue" /\ Enters("queued") /\ Writes(job.task, QueuedState)
    /\ \/ job.kind = "full" /\ Jumps("create")
       \/ job.kind # "full" /\ Jumps("gpu")
       \/ Fails
<1>1. own.pc = "enqueue" /\ job' = [job EXCEPT !.stage = "queued"] BY DEF SetQueued, AtPc
<1>2. PICK ok \in BOOLEAN :
        /\ PersistJob(QueuedState, ok)
        /\ \/ ok /\ Goto(IF job.kind = "full" THEN "create" ELSE "gpu")
           \/ Fail("finish")
  BY DEF SetQueued
<1> QED BY <1>1, <1>2, Ticket, OwnerMoves, JobFields, PersistWrites

LEMMA StartStepGoes == ASSUME IndInv, StartStep PROVE
    /\ own.pc = "prepare" /\ job.kind = "step"
    /\ \/ JobStays /\ UNCHANGED rec /\ Fails
       \/ Enters("busy") /\ Writes(job.task, "running") /\ (Jumps("run") \/ Fails)
<1>1. own.pc = "prepare" /\ job.kind = "step" BY DEF StartStep, AtPc
<1>2. CASE UNCHANGED <<rec, latch, job, gpu>> /\ Fail("finish") BY <1>1, <1>2, Ticket, OwnerMoves, JobFields
<1>3. CASE /\ job' = [job EXCEPT !.stage = "busy"]
           /\ \E ok \in BOOLEAN :
                PersistJob("running", ok) /\ IF ok THEN Goto("run") ELSE Fail("finish")
  BY <1>1, <1>3, Ticket, OwnerMoves, JobFields, PersistWrites
<1> QED BY <1>2, <1>3 DEF StartStep

LEMMA CreateChannelGoes == ASSUME IndInv, CreateChannel PROVE
    /\ own.pc = "create" /\ JobStays
    /\ \/ /\ Jumps("register")
          /\ ctl' = [ctl EXCEPT ![own.task][own.att] = "0"]
          /\ src' = [src EXCEPT ![own.task][own.att] = "open"]
       \/ Unwinds("error") /\ UNCHANGED <<ctl, src>>
<1>1. own.pc = "create" /\ UNCHANGED job BY DEF CreateChannel, AtPc
<1>2. CASE /\ ctl' = [ctl EXCEPT ![own.task][own.att] = "0"]
           /\ src' = [src EXCEPT ![own.task][own.att] = "open"]
           /\ Goto("register")
  BY <1>1, <1>2, Ticket, OwnerMoves, JobFields
<1>3. CASE Unwind("error") /\ UNCHANGED <<ctl, src>> BY <1>1, <1>3, Ticket, OwnerMoves, JobFields
<1> QED BY <1>2, <1>3 DEF CreateChannel

LEMMA RegisterGoes == ASSUME IndInv, Register PROVE
    /\ own.pc = "register" /\ JobStays
    /\ \/ job.kind = "plain" /\ (Unwinds("cancelled") \/ Jumps("run"))
       \/ job.kind # "plain" /\ Jumps("gpu")
<1>1. own.pc = "register" BY DEF Register, AtPc
<1>2. CASE job.kind = "plain" /\ Unwind("cancelled") /\ UNCHANGED job
  BY <1>1, <1>2, Ticket, OwnerMoves, JobFields
<1>3. CASE job.kind = "plain" /\ job' = [job EXCEPT !.src = TRUE] /\ Goto("run")
  BY <1>1, <1>3, Ticket, OwnerMoves, JobFields
<1>4. CASE job.kind # "plain" /\ job' = [job EXCEPT !.src = TRUE] /\ Goto("gpu")
  BY <1>1, <1>4, Ticket, OwnerMoves, JobFields
<1> QED BY <1>2, <1>3, <1>4 DEF Register

LEMMA TakeGpuGoes == ASSUME IndInv, TakeGpu PROVE
    own.pc = "gpu" /\ JobStays /\ Jumps("check")
  BY Ticket, OwnerMoves, JobFields DEF TakeGpu, AtPc

LEMMA WaitGpuGoes == ASSUME IndInv, WaitGpu PROVE
    /\ own.pc = "gpu" /\ JobStays
    /\ \/ job.kind = "plain" /\ Unwinds("cancelled")
       \/ job.kind # "plain" /\ (Unwinds("error") \/ Unwinds("paused"))
<1>1. /\ own.pc = "gpu" /\ UNCHANGED job
      /\ \/ job.kind = "plain" /\ Unwind("cancelled")
         \/ job.kind # "plain" /\ (Unwind("error") \/ Unwind("paused"))
  BY DEF WaitGpu, AtPc
<1> QED BY <1>1, Ticket, OwnerMoves, JobFields

\* What a boundary does; it is entered only when no stop was asked for.
Bounds(stage, next) ==
    \/ JobStays /\ UNCHANGED rec /\ Unwinds("error")
    \/ JobStays /\ UNCHANGED rec /\ job.kind = "plain" /\ Unwinds("cancelled")
    \/ JobStays /\ UNCHANGED rec /\ job.kind # "plain" /\ Unwinds("paused")
    \/ /\ job.kind = "plain" => ~job.cancel
       /\ job.kind # "plain" => ~StopAsked
       /\ Enters(stage) /\ Writes(job.task, "running") /\ (Jumps(next) \/ Unwinds("error"))

LEMMA BoundaryGoes ==
    ASSUME IndInv, own.pc # "idle", NEW stage, NEW next, Boundary(stage, next)
    PROVE  Bounds(stage, next)
<1>1. ASSUME EnterStage(stage, next)
      PROVE  Enters(stage) /\ Writes(job.task, "running") /\ (Jumps(next) \/ Unwinds("error"))
  BY <1>1, Ticket, OwnerMoves, JobFields, PersistWrites DEF EnterStage
<1>2. ASSUME UNCHANGED <<rec, latch, job>> PROVE JobStays /\ UNCHANGED rec BY <1>2, Ticket, JobFields
<1>3. CASE job.kind = "plain" BY <1>1, <1>2, <1>3, Ticket, OwnerMoves DEF Boundary, TrainingCheckpoint, Bounds
<1>4. CASE job.kind # "plain" BY <1>1, <1>2, <1>4, Ticket, OwnerMoves DEF Boundary, AudioBoundary, Bounds
<1> QED BY <1>3, <1>4

LEMMA ReuseStageGoes == ASSUME IndInv, ReuseStage PROVE
    own.pc = "run" /\ JobStays /\ Advances /\ done[own.task] >= own.k
  BY Ticket, OwnerMoves, JobFields DEF ReuseStage, AtPc, Completed

LEMMA LaunchGoes == ASSUME IndInv, Launch PROVE
    /\ own.pc = "run" /\ ~Completed /\ JobStays
    /\ \/ Jumps("wait") /\ procs' = {MyChild}
       \/ Unwinds("error") /\ UNCHANGED procs
<1>1. /\ own.pc = "run" /\ ~Completed /\ UNCHANGED job
      /\ \/ procs' = {MyChild} /\ Goto("wait")
         \/ Unwind("error") /\ UNCHANGED procs
  BY DEF Launch, AtPc
<1> QED BY <1>1, Ticket, OwnerMoves, JobFields

LEMMA ReapGoes == ASSUME IndInv, Reap PROVE
    /\ own.pc = "wait" /\ job.kind # "plain" /\ JobStays
    /\ \/ Advances /\ done' = IF job.kind = "step" THEN done ELSE [done EXCEPT ![own.task] = own.k]
       \/ Unwinds("error") /\ UNCHANGED done
       \/ StopAsked /\ Unwinds("paused") /\ UNCHANGED done
<1>1. own.pc = "wait" /\ job.kind # "plain" /\ UNCHANGED job BY DEF Reap, AtPc
<1>2. CASE /\ own' = NextStage
           /\ done' = IF job.kind = "step" THEN done ELSE [done EXCEPT ![own.task] = own.k]
  BY <1>2, Ticket, OwnerMoves, <1>1, JobFields
<1>3. CASE UNCHANGED done /\ (Unwind("error") \/ (StopAsked /\ Unwind("paused")))
  BY <1>1, <1>3, Ticket, OwnerMoves, JobFields
<1> QED BY <1>2, <1>3 DEF Reap

LEMMA ReapPlainGoes == ASSUME IndInv, ReapPlain PROVE
    /\ own.pc = "wait" /\ job.kind = "plain" /\ JobStays
    /\ Advances \/ Unwinds("error") \/ (ChannelOpen /\ Jumps("close"))
<1>1. own.pc = "wait" /\ job.kind = "plain" /\ UNCHANGED job BY DEF ReapPlain, AtPc
<1>2. own' = NextStage \/ Unwind("error") \/ (ChannelOpen /\ Goto("close")) BY DEF ReapPlain
<1> QED BY <1>1, <1>2, Ticket, OwnerMoves, JobFields

LEMMA CloseChannelGoes == ASSUME IndInv, CloseChannel PROVE
    own.pc = "close" /\ JobStays /\ Jumps("retire")
  BY Ticket, OwnerMoves, JobFields DEF CloseChannel, AtPc

LEMMA RetireGoes == ASSUME IndInv, Retire PROVE
    /\ own.pc = "retire"
    /\ JobSets(job.stage, job.pause, job.cancel,
               job.cerr \/ src[own.task][own.att] = "closedbad", job.recov)
    /\ \/ job.kind = "plain" /\ Jumps("judge")
       \/ job.kind = "full" /\ own.out = "paused" /\ Jumps("settle")
       \/ job.kind # "plain" /\ ~(job.kind = "full" /\ own.out = "paused") /\ Jumps("finish")
<1>1. own.pc = "retire" /\ own.gen = job.gen BY Ticket DEF Retire, AtPc
<1>2. job' = [job EXCEPT !.cerr = job.cerr \/ src[own.task][own.att] = "closedbad", !.src = FALSE]
  BY <1>1, Ticket DEF Retire
<1>3. Goto(IF job.kind = "plain" THEN "judge"
           ELSE IF job.kind = "full" /\ own.out = "paused" THEN "settle" ELSE "finish")
  BY DEF Retire
<1> QED BY <1>1, <1>2, <1>3, Ticket, OwnerMoves, JobFields

LEMMA JudgeGoes == ASSUME IndInv, Judge PROVE
    /\ own.pc = "judge" /\ JobStays
    /\ \/ own.out # "none" /\ Unwinds(own.out)
       \/ own.out = "none" /\ (Unwinds("error") \/ Unwinds("cancelled") \/ Advances)
<1>1. own.pc = "judge" /\ UNCHANGED job BY DEF Judge, AtPc
<1>2. \/ own.out # "none" /\ Unwind(own.out)
      \/ own.out = "none" /\ (Unwind("error") \/ Unwind("cancelled") \/ own' = NextStage)
  BY DEF Judge
<1> QED BY <1>1, <1>2, Ticket, OwnerMoves, JobFields

LEMMA SettleGoes == ASSUME IndInv, Settle PROVE
    own.pc = "settle" /\ JobStays /\ (Moves("finish", "cancelled") \/ Moves("finish", "paused"))
  BY Ticket, OwnerMoves, JobFields DEF Settle, AtPc

LEMMA PublishGoes == ASSUME IndInv, Publish PROVE
    /\ own.pc = "publish" /\ JobStays
    /\ \/ res' = [res EXCEPT ![own.task] = own.att] /\ Unwinds("ok")
       \/ UNCHANGED res /\ Unwinds("error")
<1>1. own.pc = "publish" /\ UNCHANGED job BY DEF Publish, AtPc
<1>2. \/ res' = [res EXCEPT ![own.task] = own.att] /\ Unwind("ok")
      \/ UNCHANGED res /\ Unwind("error")
  BY DEF Publish
<1> QED BY <1>1, <1>2, Ticket, OwnerMoves, JobFields

\* The record of a finished execution: only an execution that was neither
\* paused, cancelled nor failed is recorded as succeeded.
Finishes ==
    /\ own.pc = "finish" /\ ~job'.running /\ own' = Idle
    /\ job'.cerr = job.cerr /\ job'.task = job.task /\ job'.att = job.att
    /\ \E s \in SettledStates :
         /\ Writes(job.task, s)
         /\ s = "succeeded" => own.out \notin {"error", "paused", "cancelled"}
                               \/ (job.kind \in Audio /\ own.out = "cancelled")
                               \/ (job.kind = "step" /\ own.out # "error")
         /\ s # "interrupted"

LEMMA FinishGoes == ASSUME IndInv, FinishAudio \/ FinishTraining \/ FinishStep PROVE Finishes
<1>1. /\ own.pc = "finish" /\ own' = Idle /\ ~job'.running
      /\ job'.cerr = job.cerr /\ job'.task = job.task /\ job'.att = job.att
  BY Ticket DEF FinishAudio, FinishTraining, FinishStep, AtPc, JobType
<1>2. CASE FinishAudio
  <2>1. job.kind \in Audio /\ Writes(job.task, AudioOutcome) BY <1>1, <1>2, Ticket, SaveWrites DEF FinishAudio
  <2> QED BY <1>1, <2>1 DEF AudioOutcome, Finishes, SettledStates
<1>3. CASE FinishTraining
  <2> DEFINE out == IF job.cerr THEN "error" ELSE own.out
             state == CASE out = "paused" -> "paused" [] out = "cancelled" -> "cancelled"
                        [] out = "error" -> "failed" [] OTHER -> "succeeded"
  <2>1. Writes(job.task, state) BY <1>1, <1>3, Ticket, PersistWrites DEF FinishTraining
  <2>2. state \in SettledStates /\ state # "interrupted"
        /\ (state = "succeeded" => own.out \notin {"error", "paused", "cancelled"})
    BY DEF SettledStates
  <2> QED BY <1>1, <2>1, <2>2 DEF Finishes
<1>4. CASE FinishStep BY <1>1, <1>4, Ticket, PersistWrites DEF FinishStep, Finishes, SettledStates
<1> QED BY <1>2, <1>3, <1>4
----------------------------------------
(* Requests, the child, crash and restart. *)

\* A slot is taken: a fresh execution of t, with its own record.
Begins(t, a, pc, out, k, recov) ==
    /\ job'.running /\ job'.task = t /\ job'.att = a /\ job'.kind = k
    /\ job'.stage = "queued" /\ ~job'.pause /\ ~job'.cancel /\ ~job'.cerr
    /\ job'.recov <=> recov
    /\ own'.pc = pc /\ own'.out = out /\ own'.k = 1 /\ own'.exit = "none"
    /\ own'.task = t /\ own'.att = a

LEMMA SlotBegins ==
    ASSUME NEW t, NEW a, NEW g, NEW k, NEW b \in BOOLEAN, NEW pc, NEW out,
           \/ a = 1 /\ b = FALSE /\ job' = [NoJob EXCEPT !.running = TRUE, !.task = t, !.gen = g, !.kind = k,
                                                       !.stage = "queued"]
           \/ job' = [NoJob EXCEPT !.running = TRUE, !.task = t, !.att = a, !.gen = g, !.kind = k,
                                    !.stage = "queued", !.recov = b],
           \/ out = "none" /\ own' = [Idle EXCEPT !.pc = pc, !.task = t, !.att = a, !.gen = g]
           \/ own' = [Idle EXCEPT !.pc = pc, !.task = t, !.att = a, !.gen = g, !.out = out]
    PROVE  Begins(t, a, pc, out, k, b)
<1>1. /\ job'.running /\ job'.task = t /\ job'.att = a /\ job'.kind = k
      /\ job'.stage = "queued" /\ ~job'.pause /\ ~job'.cancel /\ ~job'.cerr
      /\ job'.recov = b
  <2>1. CASE a = 1 /\ b = FALSE /\ job' = [NoJob EXCEPT !.running = TRUE, !.task = t, !.gen = g, !.kind = k,
                                                     !.stage = "queued"]
    BY <2>1 DEF NoJob
  <2>2. CASE job' = [NoJob EXCEPT !.running = TRUE, !.task = t, !.att = a, !.gen = g, !.kind = k,
                                    !.stage = "queued", !.recov = b]
    BY <2>2 DEF NoJob
  <2> QED BY <2>1, <2>2
<1>2. /\ own'.pc = pc /\ own'.out = out /\ own'.k = 1 /\ own'.exit = "none"
      /\ own'.task = t /\ own'.att = a
  BY ZenonT(60) DEF Idle
<1> QED BY <1>1, <1>2 DEF Begins

LEMMA ReserveJobGoes == ASSUME IndInv, NEW t \in Tasks, NEW k \in Kinds, ReserveJob(t, k) PROVE
    /\ ~job.running /\ rec[t].state = "none" /\ rec'[t].state \in {"none", "queued"}
    /\ \A u \in Tasks : u # t => rec'[u] = rec[u]
    /\ \/ UNCHANGED <<own, job>> /\ (UNCHANGED rec \/ rec'[t] = [NoRecord EXCEPT !.state = "queued", !.att = 1, !.kind = k])
       \/ /\ Begins(t, 1, "prepare", "none", k, FALSE)
          /\ rec'[t] = [NoRecord EXCEPT !.state = "queued", !.att = 1, !.kind = k]
<1> DEFINE r == [NoRecord EXCEPT !.state = "queued", !.att = 1, !.kind = k]
<1>1. ~job.running /\ rec[t].state = "none" /\ rec \in [Tasks -> RecordType] BY Ticket DEF ReserveJob
<1>2. PICK ok \in BOOLEAN :
        /\ Save(t, r, ok)
        /\ IF ok
           THEN /\ job' = [NoJob EXCEPT !.running = TRUE, !.task = t, !.gen = job.gen + 1,
                                        !.kind = k, !.stage = "queued"]
                /\ own' = [Idle EXCEPT !.pc = "prepare", !.task = t, !.att = 1,
                                       !.gen = job.gen + 1]
           ELSE UNCHANGED <<job, own>>
  BY DEF ReserveJob
<1>3. r.state = "queued" BY DEF NoRecord
<1>4. ASSUME ok PROVE Begins(t, 1, "prepare", "none", k, FALSE) BY <1>2, <1>4, SlotBegins
<1>5. ~ok => UNCHANGED <<own, job>> BY <1>2
<1> HIDE DEF r
<1>6. (ok => rec' = [rec EXCEPT ![t] = r]) /\ (~ok => rec' = rec \/ rec' = [rec EXCEPT ![t] = r])
  BY <1>2 DEF Save
<1>7. rec' = [rec EXCEPT ![t] = r] => rec'[t] = r /\ \A u \in Tasks : u # t => rec'[u] = rec[u] BY <1>1
<1>8. (\A u \in Tasks : u # t => rec'[u] = rec[u]) /\ (ok => rec'[t] = r) /\ (UNCHANGED rec \/ rec'[t] = r)
  BY <1>6, <1>7
<1> QED BY <1>1, <1>3, <1>4, <1>5, <1>8 DEF r

\* The record of t after its next attempt was saved.
NextTry(t) ==
    /\ rec'[t].state = "queued" /\ rec'[t].att = NextAttempt(t) /\ rec'[t].kind = rec[t].kind
    /\ rec'[t].recov

LEMMA ResumeGoes == ASSUME IndInv, NEW t \in Tasks, Resume(t) PROVE
    /\ ~job.running /\ rec[t].recov /\ Resumable(t) /\ rec[t].att < MaxAttempt
    /\ \A u \in Tasks : u # t => rec'[u] = rec[u]
    /\ \/ UNCHANGED <<own, job>> /\ (UNCHANGED rec \/ NextTry(t))
       \/ /\ NextTry(t)
          /\ \/ Begins(t, NextAttempt(t), "create", "none", rec[t].kind, rec[t].kind = "full")
             \/ Begins(t, NextAttempt(t), "finish", "error", rec[t].kind, rec[t].kind = "full")
<1> DEFINE n == NextAttempt(t)
           b == rec[t].kind = "full"
           r == [rec[t] EXCEPT !.state = "queued", !.att = n, !.from = rec[t].att, !.noted = FALSE]
<1>1. /\ ~job.running /\ rec[t].recov /\ Resumable(t) /\ rec[t].att < MaxAttempt
      /\ rec \in [Tasks -> RecordType] /\ rec[t] \in RecordType
  BY Ticket DEF Resume
<1>2. PICK ok \in BOOLEAN :
        /\ Save(t, r, ok)
        /\ IF ok
           THEN /\ job' = [NoJob EXCEPT !.running = TRUE, !.task = t, !.att = n,
                             !.gen = job.gen + 1, !.kind = rec[t].kind, !.stage = "queued",
                             !.recov = b]
                /\ \E pc \in {"create", "finish"} :
                     own' = [Idle EXCEPT !.pc = pc, !.task = t, !.att = n,
                               !.gen = job.gen + 1,
                               !.out = IF pc = "finish" THEN "error" ELSE "none"]
           ELSE UNCHANGED <<job, own>>
  BY DEF Resume
<1>3. b \in BOOLEAN OBVIOUS
<1> HIDE DEF n, b
<1>4. ASSUME ok
      PROVE  Begins(t, n, "create", "none", rec[t].kind, b) \/ Begins(t, n, "finish", "error", rec[t].kind, b)
  <2>1. PICK pc \in {"create", "finish"} :
          own' = [Idle EXCEPT !.pc = pc, !.task = t, !.att = n, !.gen = job.gen + 1,
                              !.out = IF pc = "finish" THEN "error" ELSE "none"]
    BY <1>2, <1>4
  <2> DEFINE out == IF pc = "finish" THEN "error" ELSE "none"
             kind == rec[t].kind
             g == job.gen + 1
  <2>2. job' = [NoJob EXCEPT !.running = TRUE, !.task = t, !.att = n, !.gen = job.gen + 1,
                             !.kind = rec[t].kind, !.stage = "queued", !.recov = b]
    BY <1>2, <1>4
  <2>3. (pc = "create" /\ out = "none") \/ (pc = "finish" /\ out = "error") BY <2>1
  <2>5. /\ own' = [Idle EXCEPT !.pc = pc, !.task = t, !.att = n, !.gen = g, !.out = out]
        /\ job' = [NoJob EXCEPT !.running = TRUE, !.task = t, !.att = n, !.gen = g, !.kind = kind,
                                !.stage = "queued", !.recov = b]
    BY <2>1, <2>2
  <2> HIDE DEF out, g, kind
  <2>4. Begins(t, n, pc, out, kind, b) BY <1>3, <2>5, SlotBegins
  <2> QED BY <2>3, <2>4 DEF kind
<1>5. ~ok => UNCHANGED <<own, job>> BY <1>2
<1>6. r.state = "queued" /\ r.att = n /\ r.kind = rec[t].kind /\ r.recov = rec[t].recov BY <1>1 DEF RecordType
<1> HIDE DEF r
<1>7. (ok => rec' = [rec EXCEPT ![t] = r]) /\ (~ok => rec' = rec \/ rec' = [rec EXCEPT ![t] = r])
  BY <1>2 DEF Save
<1>8. rec' = [rec EXCEPT ![t] = r] => rec'[t] = r /\ \A u \in Tasks : u # t => rec'[u] = rec[u] BY <1>1
<1>9. rec'[t] = r => NextTry(t) BY <1>1, <1>6 DEF NextTry, n
<1>10. (\A u \in Tasks : u # t => rec'[u] = rec[u]) /\ (ok => NextTry(t)) /\ (UNCHANGED rec \/ NextTry(t))
  BY <1>7, <1>8, <1>9
<1> QED BY <1>1, <1>4, <1>5, <1>10 DEF n, b

LEMMA CleanupGoes == ASSUME IndInv, NEW t \in Tasks, Cleanup(t) PROVE
    /\ ~job.running /\ UNCHANGED own /\ JobStays /\ rec[t].state = "succeeded"
    /\ \A u \in Tasks : u # t => copies'[u] = copies[u] /\ rec'[u] = rec[u]
    /\ \A u \in Tasks : /\ rec'[u].state = rec[u].state /\ rec'[u].att = rec[u].att
                        /\ rec'[u].kind = rec[u].kind /\ rec'[u].recov = rec[u].recov
                        /\ rec'[u].noted = rec[u].noted
<1> DEFINE r == [rec[t] EXCEPT !.pruned = TRUE]
<1>1. /\ ~job.running /\ UNCHANGED own /\ JobStays /\ rec[t].state = "succeeded"
      /\ copies' = [copies EXCEPT ![t] = FALSE]
  <2>1. /\ ~job.running /\ UNCHANGED own /\ UNCHANGED job /\ rec[t].state = "succeeded"
        /\ copies' = [copies EXCEPT ![t] = FALSE]
    BY DEF Cleanup, Cleanable
  <2> QED BY <2>1, Ticket, JobFields
<1>2. \A u \in Tasks : u # t => copies'[u] = copies[u] BY <1>1, Typed DEF Rest
<1>3. rec[t] \in RecordType BY Ticket
<1>4. /\ r.state = rec[t].state /\ r.att = rec[t].att /\ r.kind = rec[t].kind
      /\ r.recov = rec[t].recov /\ r.noted = rec[t].noted
  BY <1>3 DEF RecordType
<1>5. \E ok \in BOOLEAN : Save(t, r, ok) BY DEF Cleanup
<1> HIDE DEF r
<1>6. rec' = rec \/ rec' = [rec EXCEPT ![t] = r] BY <1>5 DEF Save
<1>7. rec' = [rec EXCEPT ![t] = r] => rec'[t] = r /\ \A u \in Tasks : u # t => rec'[u] = rec[u] BY Ticket
<1>8. \A u \in Tasks : /\ rec'[u].state = rec[u].state /\ rec'[u].att = rec[u].att
                       /\ rec'[u].kind = rec[u].kind /\ rec'[u].recov = rec[u].recov
                       /\ rec'[u].noted = rec[u].noted
  BY <1>4, <1>6, <1>7
<1> QED BY <1>1, <1>2, <1>6, <1>7, <1>8

LEMMA PauseGoes == ASSUME IndInv, Pause PROVE
    /\ job.running /\ PauseAllowed /\ Jumps(own.pc)
    /\ JobSets(job.stage, TRUE, job.cancel, job.cerr, job.recov)
    /\ Writes(job.task, "pause_requested")
<1>1. job.running /\ own.pc # "idle" BY DEF Pause, IndInv, Slot
<1> QED BY <1>1, Ticket, OwnerMoves, JobFields, PersistWrites DEF Pause

LEMMA CancelGoes == ASSUME IndInv, Cancel PROVE
    /\ job.running /\ CancelAllowed /\ Jumps(own.pc)
    /\ JobSets(job.stage, job.pause, TRUE, job.cerr, job.recov)
<1>1. job.running /\ CancelAllowed /\ UNCHANGED own /\ job' = [job EXCEPT !.cancel = TRUE]
  BY SMTT(30) DEF Cancel
<1> QED BY <1>1, Ticket, OwnerMoves, JobFields

LEMMA DeliverGoes == ASSUME IndInv, NEW d \in pend, Deliver(d) PROVE Jumps(own.pc) /\ JobStays
  BY Ticket, OwnerMoves, JobFields DEF Deliver

LEMMA ReportGoes == ASSUME IndInv, NEW d \in pend, Report(d) PROVE
    /\ Jumps(own.pc)
    /\ \/ JobStays
       \/ SameExecution(d) /\ JobSets(job.stage, job.pause, job.cancel, TRUE, job.recov)
<1>1. UNCHANGED own /\ (UNCHANGED job \/ (SameExecution(d) /\ job' = [job EXCEPT !.cerr = TRUE]))
  BY DEF Report
<1> QED BY <1>1, Ticket, OwnerMoves, JobFields

LEMMA ChildExitGoes == ASSUME IndInv, NEW p \in procs, ChildExit(p) PROVE
    /\ JobStays /\ own'.pc = own.pc /\ own'.out = own.out /\ own'.k = own.k
    /\ own'.task = own.task /\ own'.att = own.att
<1>1. UNCHANGED job /\ \E code : own' = own \/ own' = [own EXCEPT !.exit = code] BY DEF ChildExit
<1> QED BY <1>1, Ticket, JobFields DEF OwnerType

LEMMA ProgressFaultGoes == ASSUME IndInv, ProgressFault PROVE JobStays /\ Jumps(own.pc)
  BY Ticket, OwnerMoves, JobFields DEF ProgressFault

\* The guard's pause: the channel of this execution is written, or is bad.
LEMMA GuardStorageGoes == ASSUME IndInv, GuardStorage PROVE
    /\ own.pc \in {"gpu", "check", "stage", "seal", "wait"} /\ PauseAllowed
    /\ Writes(job.task, "pause_requested")
    /\ Jumps(own.pc) \/ Unwinds("error")
    /\ \/ JobSets(job.stage, TRUE, job.cancel, job.cerr, job.recov) /\ UNCHANGED <<ctl, src>>
       \/ /\ JobSets(job.stage, TRUE, job.cancel, job.cerr, job.recov) /\ UNCHANGED src
          /\ src[own.task][own.att] = "open"
          /\ ctl' = [ctl EXCEPT ![own.task][own.att] = "1"]
       \/ /\ JobSets(job.stage, TRUE, job.cancel, TRUE, job.recov) /\ UNCHANGED ctl
          /\ src[own.task][own.att] = "bad" \/ ctl[own.task][own.att] = "0"
          /\ src' = [src EXCEPT ![own.task][own.att] = "bad"]
<1> DEFINE Stop == IF own.pc = "wait" THEN own' = [own EXCEPT !.bad = TRUE] /\ UNCHANGED gpu
                   ELSE Unwind("error")
           t == own.task
           a == own.att
<1>1. own.pc \in {"gpu", "check", "stage", "seal", "wait"} /\ PauseAllowed BY DEF GuardStorage
<1>2. PICK ok \in BOOLEAN :
          /\ PersistJob("pause_requested", ok)
          /\ \/ /\ ok /\ src[t][a] = "open"
                /\ ctl' = [ctl EXCEPT ![t][a] = "1"]
                /\ job' = [job EXCEPT !.pause = TRUE]
                /\ UNCHANGED <<own, src, gpu>>
             \/ /\ ok /\ (src[t][a] = "bad" \/ ctl[t][a] = "0")
                /\ src' = [src EXCEPT ![t][a] = "bad"]
                /\ job' = [job EXCEPT !.pause = TRUE, !.cerr = TRUE]
                /\ Stop /\ UNCHANGED ctl
             \/ /\ ~ok
                /\ job' = [job EXCEPT !.pause = TRUE]
                /\ Stop /\ UNCHANGED <<ctl, src>>
  BY DEF GuardStorage
<1>3. Stop => Jumps(own.pc) \/ Unwinds("error") BY Ticket, OwnerMoves
<1>4. UNCHANGED own => Jumps(own.pc) BY Ticket, OwnerMoves
<1>5. Writes(job.task, "pause_requested") BY <1>1, <1>2, Ticket, PersistWrites
<1> HIDE DEF Stop
<1> QED BY <1>1, <1>2, <1>3, <1>4, <1>5, Ticket, JobFields

\* A crash loses the memory and keeps the files and the children.
LEMMA CrashGoes == ASSUME Crash PROVE
    /\ ~job'.running /\ ~job'.cerr /\ own'.pc = "idle" /\ phase' = "down" /\ todo' = {} /\ pend' = {} /\ src' = NoSources
    /\ UNCHANGED <<rec, copies, ctl, done, res, procs, accepted>>
  BY DEF Crash, NoJob, Idle, durable

\* Steps that leave the slot, its owner and what they know alone.
Aside == SyncRequest \/ StepTail \/ UNCHANGED vars
LEMMA AsideGoes == ASSUME IndInv, Aside PROVE
    /\ JobStays /\ Jumps(own.pc)
    /\ UNCHANGED <<phase, todo, rec, copies, ctl, done, res, src, pend, accepted>>
    /\ procs' \subseteq procs \cup {[task |-> NoTask, att |-> 0]}
<1>1. UNCHANGED job /\ UNCHANGED own BY DEF Aside, SyncRequest, StepTail, vars, memory
<1> QED BY <1>1, Ticket, OwnerMoves, JobFields DEF Aside, SyncRequest, StepTail, vars, memory, durable

\* The constructor works alone.
LEMMA RestartGoes ==
    ASSUME IndInv, Restart
    PROVE  /\ JobStays /\ Jumps(own.pc) /\ phase # "up" /\ ~job.running
           /\ UNCHANGED <<copies, done, res, src, pend, accepted, procs>>
<1>1. /\ UNCHANGED job /\ UNCHANGED own /\ phase # "up"
      /\ UNCHANGED <<copies, done, res, src, pend, accepted, procs>>
  BY DEF Restart, Start, MarkInterrupted, SignalInterrupted, MarkingDone, Ready, durable, memory
<1>2. ~job.running BY <1>1 DEF IndInv, Slot
<1> QED BY <1>1, <1>2, Ticket, OwnerMoves, JobFields
----------------------------------------
\* Every step is one of these.
LEMMA EveryStep ==
    ASSUME TaskInv, [Next]_vars
    PROVE  \/ PrepareAudio \/ RetainParameters \/ NoMaterial \/ CommitMaterial \/ HandOff
           \/ PrepareTraining \/ SetQueued \/ StartStep \/ CreateChannel \/ Register \/ TakeGpu
           \/ WaitGpu \/ ReuseStage \/ Launch \/ Reap \/ ReapPlain \/ CloseChannel \/ Retire
           \/ Judge \/ Settle \/ Publish \/ Pause \/ Cancel \/ GuardStorage \/ ProgressFault
           \/ Boundary("busy", "stage") /\ own.pc = "check"
           \/ \E next \in {"run", "create"} : /\ Boundary("busy", next) /\ own.pc = "stage"
                                              /\ next = "create" <=> job.kind = "plain" /\ own.k = 2
           \/ Boundary("final", "publish") /\ own.pc = "seal"
           \/ FinishAudio \/ FinishTraining \/ FinishStep
           \/ \E t \in Tasks : (\E k \in Kinds : ReserveJob(t, k)) \/ Resume(t) \/ Cleanup(t)
           \/ \E d \in pend : Deliver(d) \/ Report(d)
           \/ \E p \in procs : ChildExit(p)
           \/ Crash \/ Restart \/ Aside
<1>1. CASE Owner BY <1>1 DEF Owner, Check, BeginStage, Seal, AtPc
<1>2. CASE Handlers BY <1>2 DEF Handlers, Aside
<1> QED BY <1>1, <1>2 DEF Next, Aside
----------------------------------------
(* The owner and the slot. *)

\* Every step leaves the owner where its kind of work can be.
LEMMA FlowNext == ASSUME TaskInv, [Next]_vars PROVE Flow'
<1>a. LastStage("step") = 1 /\ \A k : LastStage(k) \in Nat \ {0} BY BoundsAssumption DEF LastStage, Training
<1>0. IndInv /\ Flow /\ RecipeFits /\ job.kind \in AllKinds \cup {"none"} /\ own.k \in Nat \ {0}
      /\ (own.pc # "idle" => job.running /\ job.kind \in AllKinds)
  BY Ticket DEF TaskInv, Recs, JobType
<1> USE DEF Flow, PcFitsKind, OutIsLate, StageFits, RequestsFit, FinalIsSealed, Ended, Unready, Recoverable,
        Audio, Training, AllKinds, Moves, Jumps, Fails, Unwinds, Advances, JobSets, JobStays, Enters
<1>1. CASE PrepareAudio BY <1>a, <1>0, <1>1, PrepareAudioGoes
<1>2. CASE RetainParameters BY <1>a, <1>0, <1>2, RetainParametersGoes
<1>3. CASE NoMaterial BY <1>a, <1>0, <1>3, NoMaterialGoes
<1>4. CASE CommitMaterial BY <1>a, <1>0, <1>4, CommitMaterialGoes
<1>5. CASE HandOff BY <1>a, <1>0, <1>5, HandOffGoes
<1>6. CASE PrepareTraining BY <1>a, <1>0, <1>6, PrepareTrainingGoes
<1>7. CASE SetQueued BY <1>a, <1>0, <1>7, SetQueuedGoes
<1>8. CASE StartStep BY <1>a, <1>0, <1>8, StartStepGoes
<1>9. CASE CreateChannel BY <1>a, <1>0, <1>9, CreateChannelGoes
<1>10. CASE Register BY <1>a, <1>0, <1>10, RegisterGoes
<1>11. CASE TakeGpu BY <1>a, <1>0, <1>11, TakeGpuGoes
<1>12. CASE WaitGpu BY <1>a, <1>0, <1>12, WaitGpuGoes
<1>13. CASE ReuseStage BY <1>a, <1>0, <1>13, ReuseStageGoes
<1>14. CASE Launch BY <1>a, <1>0, <1>14, LaunchGoes
<1>15. CASE Reap BY <1>0, <1>15, ReapGoes, <1>a DEF StopAsked
<1>16. CASE ReapPlain BY <1>a, <1>0, <1>16, ReapPlainGoes
<1>17. CASE CloseChannel BY <1>a, <1>0, <1>17, CloseChannelGoes
<1>18. CASE Retire BY <1>a, <1>0, <1>18, RetireGoes
<1>19. CASE Judge BY <1>a, <1>0, <1>19, JudgeGoes
<1>20. CASE Settle BY <1>a, <1>0, <1>20, SettleGoes
<1>21. CASE Publish BY <1>a, <1>0, <1>21, PublishGoes
<1>23. CASE Pause BY <1>a, <1>0, <1>23, PauseGoes DEF PauseAllowed, Pausable
<1>24. CASE Cancel BY <1>a, <1>0, <1>24, CancelGoes DEF CancelAllowed
<1>25. CASE GuardStorage BY <1>a, <1>0, <1>25, GuardStorageGoes DEF PauseAllowed, Pausable
<1>26. CASE ProgressFault BY <1>a, <1>0, <1>26, ProgressFaultGoes
<1>22. CASE Aside BY <1>a, <1>0, <1>22, AsideGoes
<1>27. ASSUME Boundary("busy", "stage"), own.pc = "check" PROVE Flow'
  <2>1. Bounds("busy", "stage") BY <1>a, <1>0, <1>27, BoundaryGoes
  <2> QED BY <1>a, <1>0, <1>27, <2>1, ZenonT(60) DEF Bounds, StopAsked
<1>28. ASSUME NEW next \in {"run", "create"}, Boundary("busy", next), own.pc = "stage",
              next = "create" <=> job.kind = "plain" /\ own.k = 2 PROVE Flow'
  <2>1. Bounds("busy", next) BY <1>a, <1>0, <1>28, BoundaryGoes
  <2> QED BY <1>a, <1>0, <1>28, <2>1, ZenonT(60) DEF Bounds, StopAsked
<1>29. ASSUME Boundary("final", "publish"), own.pc = "seal" PROVE Flow'
  <2>1. Bounds("final", "publish") BY <1>a, <1>0, <1>29, BoundaryGoes
  <2> QED BY <1>a, <1>0, <1>29, <2>1, ZenonT(60) DEF Bounds, StopAsked
<1>30. CASE FinishAudio \/ FinishTraining \/ FinishStep BY <1>30, <1>0, FinishGoes DEF Finishes
<1>31. ASSUME NEW t \in Tasks, NEW k \in Kinds, ReserveJob(t, k) PROVE Flow'
  <2>1. (UNCHANGED own /\ UNCHANGED job) \/ Begins(t, 1, "prepare", "none", k, FALSE)
    BY <1>0, <1>31, ReserveJobGoes
  <2> QED BY <1>a, <1>0, <2>1, KindsAssumption DEF Begins
<1>32. ASSUME NEW t \in Tasks, Resume(t) PROVE Flow'
  <2>1. rec[t].kind \in AllKinds /\ Recoverable(rec[t].kind)
    BY <1>a, <1>0, <1>32, ResumeGoes, Ticket DEF RecordType, RecipeFits
  <2>2. \/ UNCHANGED own /\ UNCHANGED job
        \/ \E a : \/ Begins(t, a, "create", "none", rec[t].kind, rec[t].kind = "full")
                  \/ Begins(t, a, "finish", "error", rec[t].kind, rec[t].kind = "full")
    BY <1>0, <1>32, ResumeGoes
  <2>3. CASE UNCHANGED own /\ UNCHANGED job BY <1>0, <2>3
  <2>4. ASSUME NEW a, \/ Begins(t, a, "create", "none", rec[t].kind, rec[t].kind = "full")
                      \/ Begins(t, a, "finish", "error", rec[t].kind, rec[t].kind = "full") PROVE Flow'
    BY <1>a, <2>1, <2>4 DEF Begins
  <2> QED BY <2>2, <2>3, <2>4
<1>33. ASSUME NEW t \in Tasks, Cleanup(t) PROVE Flow' BY <1>a, <1>0, <1>33, CleanupGoes
<1>34. ASSUME NEW d \in pend, Deliver(d) PROVE Flow' BY <1>a, <1>0, <1>34, DeliverGoes
<1>35. ASSUME NEW d \in pend, Report(d) PROVE Flow' BY <1>a, <1>0, <1>35, ReportGoes
<1>36. ASSUME NEW p \in procs, ChildExit(p) PROVE Flow' BY <1>a, <1>0, <1>36, ChildExitGoes
<1>37. CASE Crash BY <1>37, CrashGoes
<1>38. CASE Restart BY <1>a, <1>0, <1>38, RestartGoes
<1> HIDE DEF Flow, PcFitsKind, OutIsLate, StageFits, RequestsFit, FinalIsSealed, Ended, Unready, Recoverable,
        Audio, Training, AllKinds, Moves, Jumps, Fails, Unwinds, Advances, JobSets, JobStays, Enters
<1> QED BY <1>1, <1>2, <1>3, <1>4, <1>5, <1>6, <1>7, <1>8, <1>9, <1>10, <1>11, <1>12, <1>13, <1>14, <1>15,
     <1>16, <1>17, <1>18, <1>19, <1>20, <1>21, <1>22, <1>23, <1>24, <1>25, <1>26, <1>27, <1>28, <1>29, <1>30,
     <1>31, <1>32, <1>33, <1>34, <1>35, <1>36, <1>37, <1>38, EveryStep
----------------------------------------
(* The records. *)

\* The slot keeps its ticket; a pause that was asked for stays asked for.
KeepsSlot ==
    /\ job'.running = job.running /\ job'.task = job.task /\ job'.att = job.att /\ job'.kind = job.kind
    /\ job.pause => job'.pause

LEMMA JobKeeps ==
    /\ JobStays => KeepsSlot
    /\ \A s, c, e, r : JobSets(s, job.pause, c, e, r) \/ JobSets(s, TRUE, c, e, r) => KeepsSlot
    /\ \A s : Enters(s) => KeepsSlot
  BY DEF JobStays, JobSets, Enters, KeepsSlot

\* A step that keeps the slot and at most saves an active state for its task.
LEMMA RecsStep ==
    ASSUME TaskInv, KeepsSlot, UNCHANGED copies,
           NEW s \in ActiveStates, s = "pause_requested" => job'.pause,
           UNCHANGED rec \/ (job.running /\ Writes(job.task, s)),
           job.running /\ Recoverable(job.kind) => own'.pc \in Unready \/ own.pc \notin Unready
    PROVE  Recs'
<1>1. Recs /\ (job.running => job.task \in Tasks) BY DEF TaskInv, IndInv, Slot
<1>2. CASE UNCHANGED rec
  BY <1>1, <1>2 DEF Recs, NoneIsBlank, RecipeFits, SlotRecord, RecoverableKeepsCopies, Active, KeepsSlot
<1>3. CASE job.running /\ Writes(job.task, s)
  <2> DEFINE t == job.task
  <2>1. /\ t \in Tasks /\ rec[t].state \in ActiveStates /\ rec'[t].state \in ActiveStates
        /\ rec'[t].kind = rec[t].kind /\ rec'[t].recov = rec[t].recov
        /\ rec'[t].state = "pause_requested" => job'.pause
        /\ \A u \in Tasks : u # t => rec'[u] = rec[u]
    BY <1>1, <1>3 DEF Writes, Recs, SlotRecord, Active, KeepsSlot
  <2>2. SlotRecord' BY <1>1, <1>3, <2>1 DEF Recs, SlotRecord, Active, KeepsSlot
  <2>3. NoneIsBlank' BY <1>1, <2>1 DEF Recs, NoneIsBlank, ActiveStates
  <2>4. RecipeFits' BY <1>1, <2>1 DEF Recs, RecipeFits
  <2>5. RecoverableKeepsCopies' BY <1>1, <2>1 DEF Recs, RecoverableKeepsCopies, ActiveStates
  <2> QED BY <2>2, <2>3, <2>4, <2>5 DEF Recs
<1> QED BY <1>2, <1>3

\* The step that records the recipe, once the copies are made.
LEMMA RecipeStep ==
    ASSUME TaskInv, KeepsSlot, job.running, Recoverable(job.kind), Recipe(job.task),
           copies' \in {copies, [copies EXCEPT ![job.task] = TRUE]}
    PROVE  Recs'
<1> DEFINE t == job.task
<1>1. Recs /\ t \in Tasks /\ copies \in [Tasks -> BOOLEAN] BY Typed DEF TaskInv, IndInv, Slot, Rest
<1>2. copies'[t] /\ \A u \in Tasks : u # t => copies'[u] = copies[u] BY <1>1 DEF Recipe
<1>3. /\ rec'[t].state = rec[t].state /\ rec'[t].kind = rec[t].kind /\ rec'[t].recov
      /\ \A u \in Tasks : u # t => rec'[u] = rec[u]
  BY DEF Recipe
<1>4. rec[t].kind = job.kind /\ rec[t].state \in ActiveStates
      /\ (rec[t].state = "pause_requested" => job.pause)
  BY <1>1 DEF Recs, SlotRecord, Active
<1>5. SlotRecord' BY <1>3, <1>4 DEF SlotRecord, Active, KeepsSlot
<1>6. NoneIsBlank' BY <1>1, <1>3, <1>4 DEF Recs, NoneIsBlank, ActiveStates
<1>7. RecipeFits' BY <1>1, <1>3, <1>4 DEF Recs, RecipeFits
<1>8. RecoverableKeepsCopies' BY <1>1, <1>2, <1>3 DEF Recs, RecoverableKeepsCopies
<1> QED BY <1>5, <1>6, <1>7, <1>8 DEF Recs

\* Records change in their state and attempt only, none becomes blank, and
\* nobody owns the slot afterwards.
LEMMA RecsRest ==
    ASSUME TaskInv, ~job'.running,
           \A t \in Tasks : /\ rec'[t].recov = rec[t].recov /\ rec'[t].kind = rec[t].kind
                            /\ \/ rec'[t] = rec[t]
                               \/ rec'[t].state # "none" /\ (rec'[t].state = "succeeded" \/ rec[t].state # "succeeded"),
           \A t \in Tasks : copies'[t] = copies[t] \/ rec'[t].state = "succeeded"
    PROVE  Recs'
  BY DEF TaskInv, Recs, NoneIsBlank, RecipeFits, SlotRecord, RecoverableKeepsCopies

\* Copies that were made for a recipe that is not recorded.
LEMMA FailedCopies ==
    ASSUME TaskInv, KeepsSlot, job.running, UNCHANGED rec, own'.pc = "finish",
           copies' \in {copies, [copies EXCEPT ![job.task] = TRUE]}
    PROVE  Recs'
<1>1. copies \in [Tasks -> BOOLEAN] /\ Recs BY Typed DEF TaskInv, Rest
<1>2. \A t \in Tasks : copies[t] => copies'[t] BY <1>1
<1> QED BY <1>1, <1>2 DEF Recs, NoneIsBlank, RecipeFits, SlotRecord, RecoverableKeepsCopies, Active,
        KeepsSlot, Unready

\* What the constructor does to the records.
LEMMA MarkGoes == ASSUME IndInv, NEW t \in Tasks, MarkInterrupted(t) PROVE
    /\ phase = "marking" /\ rec[t].state \in ActiveStates
    /\ \A u \in Tasks : u # t => rec'[u] = rec[u]
    /\ rec'[t].state = "interrupted" /\ rec'[t].att = rec[t].att /\ rec'[t].kind = rec[t].kind
    /\ rec'[t].recov = rec[t].recov
<1>1. rec[t] \in RecordType /\ rec \in [Tasks -> RecordType] BY Ticket
<1> DEFINE r == [rec[t] EXCEPT !.state = "interrupted", !.noted = FALSE]
<1>2. rec' = [rec EXCEPT ![t] = r] BY <1>1 DEF MarkInterrupted
<1>3. r.state = "interrupted" /\ r.att = rec[t].att /\ r.kind = rec[t].kind /\ r.recov = rec[t].recov
  BY <1>1 DEF RecordType
<1> HIDE DEF r
<1>4. rec'[t] = r /\ \A u \in Tasks : u # t => rec'[u] = rec[u] BY <1>1, <1>2
<1> QED BY <1>3, <1>4 DEF MarkInterrupted

LEMMA SignalGoes == ASSUME IndInv, NEW t \in Tasks, SignalInterrupted(t) PROVE
    /\ phase = "signalling" /\ UNCHANGED phase /\ t \in todo /\ todo' = todo \ {t}
    /\ \/ ctl[t][rec[t].att] = "absent" /\ UNCHANGED <<ctl, rec>>
       \/ ctl[t][rec[t].att] # "absent" /\ ctl' = [ctl EXCEPT ![t][rec[t].att] = "1"] /\ UNCHANGED rec
       \/ /\ ctl[t][rec[t].att] # "absent" /\ UNCHANGED ctl /\ rec'[t].noted
          /\ \A u \in Tasks : u # t => rec'[u] = rec[u]
          /\ rec'[t].state = rec[t].state /\ rec'[t].att = rec[t].att /\ rec'[t].kind = rec[t].kind
          /\ rec'[t].recov = rec[t].recov
<1>1. rec[t] \in RecordType /\ rec \in [Tasks -> RecordType] BY Ticket
<1> DEFINE r == [rec[t] EXCEPT !.noted = TRUE]
<1>2. CASE ctl[t][rec[t].att] # "absent" /\ rec' = [rec EXCEPT ![t] = r] /\ UNCHANGED ctl
  <2>1. r.noted /\ r.state = rec[t].state /\ r.att = rec[t].att /\ r.kind = rec[t].kind /\ r.recov = rec[t].recov
    BY <1>1 DEF RecordType
  <2> HIDE DEF r
  <2>2. rec'[t] = r /\ \A u \in Tasks : u # t => rec'[u] = rec[u] BY <1>1, <1>2
  <2> QED BY <1>2, <2>1, <2>2 DEF SignalInterrupted
<1>3. CASE \/ ctl[t][rec[t].att] = "absent" /\ UNCHANGED <<ctl, rec>>
           \/ ctl[t][rec[t].att] # "absent" /\ ctl' = [ctl EXCEPT ![t][rec[t].att] = "1"] /\ UNCHANGED rec
  BY <1>3 DEF SignalInterrupted
<1>4. rec' = [rec EXCEPT ![t].noted = TRUE] => rec' = [rec EXCEPT ![t] = r] BY <1>1
<1> QED BY <1>2, <1>3, <1>4 DEF SignalInterrupted

\* The constructor turns active records into interrupted ones, and no other.
LEMMA RestartRecords ==
    ASSUME TaskInv, Restart
    PROVE  \A t \in Tasks : /\ rec'[t].recov = rec[t].recov /\ rec'[t].kind = rec[t].kind
                            /\ rec'[t].att = rec[t].att
                            /\ \/ rec'[t] = rec[t]
                               \/ rec'[t].state = "interrupted" /\ rec[t].state \in ActiveStates
                               \/ rec'[t].state = rec[t].state /\ rec[t].state # "none"
<1>0. IndInv /\ Children BY DEF TaskInv
<1>1. ASSUME NEW t \in Tasks, MarkInterrupted(t)
      PROVE  /\ \A u \in Tasks : u # t => rec'[u] = rec[u]
             /\ rec'[t].state = "interrupted" /\ rec[t].state \in ActiveStates
             /\ rec'[t].att = rec[t].att /\ rec'[t].kind = rec[t].kind
             /\ rec'[t].recov = rec[t].recov
  BY <1>0, <1>1, MarkGoes
<1>2. ASSUME NEW t \in Tasks, SignalInterrupted(t)
      PROVE  /\ \A u \in Tasks : u # t => rec'[u] = rec[u]
             /\ rec'[t].state = rec[t].state /\ rec'[t].att = rec[t].att /\ rec[t].state # "none"
             /\ rec'[t].kind = rec[t].kind /\ rec'[t].recov = rec[t].recov
  BY <1>0, <1>2, SignalGoes DEF Children, TodoIsLeft
<1>3. CASE Start \/ MarkingDone \/ Ready BY <1>3 DEF Start, MarkingDone, Ready, durable
<1> QED BY <1>1, <1>2, <1>3 DEF Restart

\* Every step keeps the records' promises.
LEMMA RecsNext == ASSUME TaskInv, [Next]_vars PROVE Recs'
<1>0. /\ IndInv /\ Flow /\ Recs /\ "running" \in ActiveStates /\ "queued" \in ActiveStates
      /\ "pause_requested" \in ActiveStates
  BY DEF TaskInv, ActiveStates
<1>1. /\ own.pc # "idle" => job.running /\ own.task = job.task
      /\ job.running => job.task \in Tasks
  BY <1>0, Ticket DEF IndInv, Slot
<1> USE DEF Moves, Jumps, Fails, Unwinds, Unready
<1>2. CASE RetainParameters \/ NoMaterial \/ HandOff
  <2>1. KeepsSlot /\ own'.pc \in {"material", "handoff", "fix", "finish", "enqueue"}
        /\ (own'.pc = "enqueue" => job.kind # "full" /\ own.pc = "handoff") /\ own.pc # "idle"
        /\ UNCHANGED <<rec, copies>>
    BY <1>0, <1>2, RetainParametersGoes, NoMaterialGoes, HandOffGoes, JobKeeps
       DEF RetainParameters, NoMaterial, HandOff, durable
  <2>2. own'.pc = "enqueue" => ~Recoverable(job.kind)
    BY <1>0, <1>1, <2>1 DEF Flow, PcFitsKind, Recoverable, Training, Audio
  <2> QED BY <1>0, <2>1, <2>2, RecsStep
<1>3. CASE CreateChannel \/ Register \/ TakeGpu \/ WaitGpu \/ ReuseStage \/ Launch \/ Reap \/ ReapPlain
           \/ CloseChannel \/ Retire \/ Judge \/ Settle \/ Publish \/ ProgressFault \/ Cancel
  <2>1. own.pc \in Unready => own'.pc = own.pc
    BY <1>0, <1>3, CreateChannelGoes, RegisterGoes, TakeGpuGoes, WaitGpuGoes, ReuseStageGoes, LaunchGoes,
       ReapGoes, ReapPlainGoes, CloseChannelGoes, RetireGoes, JudgeGoes, SettleGoes, PublishGoes,
       ProgressFaultGoes, CancelGoes
  <2>2. KeepsSlot
    BY <1>0, <1>3, CreateChannelGoes, RegisterGoes, TakeGpuGoes, WaitGpuGoes, ReuseStageGoes, LaunchGoes,
       ReapGoes, ReapPlainGoes, CloseChannelGoes, RetireGoes, JudgeGoes, SettleGoes, PublishGoes,
       ProgressFaultGoes, CancelGoes, JobKeeps
  <2>3. UNCHANGED <<rec, copies>>
    BY <1>3 DEF CreateChannel, Register, TakeGpu, WaitGpu, ReuseStage, Launch, Reap, ReapPlain,
       CloseChannel, Retire, Judge, Settle, Publish, ProgressFault, Cancel, durable
  <2> QED BY <1>0, <2>1, <2>2, <2>3, RecsStep
<1>4. ASSUME Aside \/ (\E d \in pend : Deliver(d) \/ Report(d)) \/ \E p \in procs : ChildExit(p) PROVE Recs'
  <2>1. KeepsSlot /\ own'.pc = own.pc
    BY <1>0, <1>4, AsideGoes, DeliverGoes, ReportGoes, ChildExitGoes, JobKeeps
  <2>2. UNCHANGED <<rec, copies>>
    BY <1>4 DEF Aside, SyncRequest, StepTail, vars, Deliver, Report, ChildExit, durable
  <2> QED BY <1>0, <2>1, <2>2, RecsStep
<1>5. CASE PrepareAudio
  <2>1. /\ own.pc = "prepare" /\ job.kind \in Audio /\ KeepsSlot
        /\ \/ Recipe(job.task)
           \/ own'.pc = "finish" /\ UNCHANGED rec
    BY <1>0, <1>5, PrepareAudioGoes, JobKeeps
  <2>2. copies' \in {copies, [copies EXCEPT ![own.task] = TRUE]} BY <1>5 DEF PrepareAudio
  <2>3. CASE Recipe(job.task) BY <1>1, <2>1, <2>2, <2>3, RecipeStep DEF Recoverable
  <2>4. CASE own'.pc = "finish" /\ UNCHANGED rec BY <1>0, <1>1, <2>1, <2>2, <2>4, FailedCopies
  <2> QED BY <2>1, <2>3, <2>4
<1>6. CASE PrepareTraining
  <2>1. /\ own.pc = "fix" /\ KeepsSlot
        /\ \/ Recipe(job.task)
           \/ own'.pc = "finish" /\ UNCHANGED rec
    BY <1>0, <1>6, PrepareTrainingGoes, JobKeeps
  <2>2. copies' \in {copies, [copies EXCEPT ![own.task] = TRUE]} /\ job.kind = "full"
    BY <1>0, <1>1, <1>6, <2>1 DEF PrepareTraining, Flow, PcFitsKind
  <2>3. CASE Recipe(job.task) BY <1>1, <2>1, <2>2, <2>3, RecipeStep DEF Recoverable
  <2>4. CASE own'.pc = "finish" /\ UNCHANGED rec BY <1>0, <1>1, <2>1, <2>2, <2>4, FailedCopies
  <2> QED BY <2>1, <2>3, <2>4
<1>7. CASE CommitMaterial BY <1>0, <1>7, CommitMaterialGoes, JobKeeps, <1>1, RecsStep DEF CommitMaterial
<1>8. CASE SetQueued
  BY <1>0, <1>8, SetQueuedGoes, JobKeeps, <1>1, RecsStep DEF QueuedState, KeepsSlot, SetQueued
<1>9. CASE StartStep BY <1>0, <1>9, StartStepGoes, JobKeeps, <1>1, RecsStep DEF StartStep, Recoverable, Audio
<1>10. ASSUME NEW stage, NEW next, Boundary(stage, next), own.pc \in {"check", "stage", "seal"} PROVE Recs'
  <2>1. Bounds(stage, next) /\ UNCHANGED copies BY <1>0, <1>10, BoundaryGoes DEF Boundary
  <2>2. KeepsSlot /\ (UNCHANGED rec \/ Writes(job.task, "running")) BY <2>1, JobKeeps DEF Bounds
  <2> QED BY <1>0, <1>1, <1>10, <2>1, <2>2, RecsStep
<1>11. CASE Pause BY <1>0, <1>11, PauseGoes, JobKeeps, <1>1, RecsStep DEF JobSets, Pause
<1>12. CASE GuardStorage BY <1>0, <1>1, <1>12, GuardStorageGoes, JobKeeps, RecsStep DEF JobSets, GuardStorage
<1>13. CASE FinishAudio \/ FinishTraining \/ FinishStep
  <2>1. PICK s \in SettledStates : Writes(job.task, s) /\ ~job'.running /\ own.pc = "finish"
    BY <1>0, <1>13, FinishGoes DEF Finishes
  <2>2. UNCHANGED copies BY <1>13 DEF FinishAudio, FinishTraining, FinishStep
  <2>3. job.task \in Tasks /\ rec[job.task].state \in ActiveStates
    BY <1>0, <1>1, <2>1 DEF Recs, SlotRecord, Active
  <2>4. rec'[job.task].state # "none" /\ rec[job.task].state # "succeeded"
    BY <2>1, <2>3 DEF Writes, ActiveStates, SettledStates
  <2> QED BY <2>1, <2>2, <2>3, <2>4, RecsRest DEF Writes
<1>14. ASSUME NEW t \in Tasks, NEW k \in Kinds, ReserveJob(t, k) PROVE Recs'
  <2> DEFINE r == [NoRecord EXCEPT !.state = "queued", !.att = 1, !.kind = k]
  <2>1. /\ ~job.running /\ rec[t].state = "none" /\ \A u \in Tasks : u # t => rec'[u] = rec[u]
        /\ \/ UNCHANGED job /\ (UNCHANGED rec \/ rec'[t] = r)
           \/ Begins(t, 1, "prepare", "none", k, FALSE) /\ rec'[t] = r
    BY <1>0, <1>14, ReserveJobGoes
  <2>2. r.state = "queued" /\ r.recov = FALSE /\ r.kind = k BY DEF NoRecord
  <2>3. UNCHANGED copies BY <1>14 DEF ReserveJob
  <2> HIDE DEF r
  <2>4. CASE UNCHANGED rec /\ UNCHANGED job BY <1>0, <2>1, <2>3, <2>4, RecsRest
  <2>5. CASE rec'[t] = r
    <3>1. SlotRecord' BY <2>1, <2>2, <2>5 DEF SlotRecord, Begins, Active, ActiveStates
    <3>2. NoneIsBlank' /\ RecipeFits' /\ RecoverableKeepsCopies'
      BY <1>0, <2>1, <2>2, <2>3, <2>5 DEF Recs, NoneIsBlank, RecipeFits, RecoverableKeepsCopies
    <3> QED BY <3>1, <3>2 DEF Recs
  <2> QED BY <2>1, <2>4, <2>5
<1>15. ASSUME NEW t \in Tasks, Resume(t) PROVE Recs'
  <2>1. /\ ~job.running /\ rec[t].recov /\ Resumable(t) /\ \A u \in Tasks : u # t => rec'[u] = rec[u]
        /\ \/ UNCHANGED job /\ (UNCHANGED rec \/ NextTry(t))
           \/ NextTry(t) /\ \E a, pc, out : Begins(t, a, pc, out, rec[t].kind, rec[t].kind = "full")
    BY <1>0, <1>15, ResumeGoes
  <2>2. rec[t].state # "succeeded" BY <2>1 DEF Resumable
  <2>3. UNCHANGED copies BY <1>15 DEF Resume
  <2>4. CASE UNCHANGED rec /\ UNCHANGED job BY <1>0, <2>1, <2>3, <2>4, RecsRest
  <2>5. CASE NextTry(t)
    <3>1. SlotRecord' BY <2>1, <2>5 DEF SlotRecord, Begins, Active, ActiveStates, NextTry
    <3>2. NoneIsBlank' /\ RecipeFits' /\ RecoverableKeepsCopies'
      BY <1>0, <2>1, <2>2, <2>3, <2>5 DEF Recs, NoneIsBlank, RecipeFits, RecoverableKeepsCopies, NextTry
    <3> QED BY <3>1, <3>2 DEF Recs
  <2> QED BY <2>1, <2>4, <2>5
<1>16. ASSUME NEW t \in Tasks, Cleanup(t) PROVE Recs'
  <2>1. ~job'.running BY <1>0, <1>16, CleanupGoes DEF JobStays, JobSets
  <2>2. \A u \in Tasks : /\ rec'[u].state = rec[u].state /\ rec'[u].recov = rec[u].recov
                         /\ rec'[u].kind = rec[u].kind
    BY <1>0, <1>16, CleanupGoes
  <2>3. /\ rec[t].state = "succeeded"
        /\ \A u \in Tasks : u # t => copies'[u] = copies[u] /\ rec'[u] = rec[u]
    BY <1>0, <1>16, CleanupGoes
  <2> QED BY <2>1, <2>2, <2>3, RecsRest
<1>17. CASE Crash BY <1>17, CrashGoes, RecsRest
<1>18. CASE Restart
  <2>1. ~job'.running /\ UNCHANGED copies BY <1>0, <1>18, RestartGoes DEF JobStays, JobSets
  <2>2. \A t \in Tasks : /\ rec'[t].recov = rec[t].recov /\ rec'[t].kind = rec[t].kind
                         /\ \/ rec'[t] = rec[t]
                            \/ rec'[t].state # "none" /\ (rec'[t].state = "succeeded" \/ rec[t].state # "succeeded")
    BY <1>18, RestartRecords DEF ActiveStates
  <2> QED BY <2>1, <2>2, RecsRest
<1> QED BY <1>2, <1>3, <1>4, <1>5, <1>6, <1>7, <1>8, <1>9, <1>10, <1>11, <1>12, <1>13, <1>14, <1>15, <1>16,
     <1>17, <1>18, EveryStep
----------------------------------------
(* Results, stage markers and accepted requests. *)

\* The numbers of attempts and stages are numbers.
LEMMA Numbers ==
    ASSUME IndInv
    PROVE  /\ \A t \in Tasks : res[t] \in Nat /\ done[t] \in Nat /\ rec[t].att \in Nat
           /\ \A k : LastStage(k) \in Nat \ {0}
           /\ LastStage("step") = 1
           /\ \A t \in Tasks, n \in 0..MaxStage : \A d :
                d = [done EXCEPT ![t] = n] => d[t] = n /\ \A u \in Tasks : u # t => d[u] = done[u]
           /\ \A t \in Tasks : \A n, r :
                r = [res EXCEPT ![t] = n] => r[t] = n /\ \A u \in Tasks : u # t => r[u] = res[u]
<1>1. /\ res \in [Tasks -> 0..MaxAttempt] /\ done \in [Tasks -> 0..MaxStage] /\ rec \in [Tasks -> RecordType]
  BY Typed, Ticket DEF Rest
<1>2. \A t \in Tasks : res[t] \in Nat /\ done[t] \in Nat BY <1>1
<1>3. \A t \in Tasks : rec[t].att \in Nat BY <1>1 DEF RecordType
<1>4. LastStage("step") = 1 /\ \A k : LastStage(k) \in Nat \ {0} BY BoundsAssumption DEF LastStage, Training
<1> QED BY <1>1, <1>2, <1>3, <1>4

\* What every record says survives a step that writes no result, no marker and
\* accepts nothing, and saves at most an active state for the slot's task.
Recorded == /\ ResultIsPast /\ DoneIsReal /\ AcceptedIsPast
            /\ AcceptedNeverSucceeds /\ SuccessIsInstalled

LEMMA RecordedStep ==
    ASSUME TaskInv, UNCHANGED <<res, done, accepted>>, NEW s, s # "succeeded",
           UNCHANGED rec \/ (job.running /\ Writes(job.task, s))
    PROVE  Recorded'
<1>1. Results /\ (job.running => job.task \in Tasks) BY DEF TaskInv, IndInv, Slot
<1>2. \A t \in Tasks : /\ rec'[t].att = rec[t].att /\ rec'[t].kind = rec[t].kind
                       /\ rec'[t].state = "succeeded" => rec[t].state = "succeeded"
  BY <1>1 DEF Writes
<1> QED BY <1>1, <1>2 DEF Results, Recorded, ResultIsPast, DoneIsReal, AcceptedIsPast,
        AcceptedNeverSucceeds, SuccessIsInstalled

\* The slot's own facts survive a step that neither publishes nor finishes a
\* stage, unless it enters the publishing stage with a request accepted.
LEMMA SlotStep ==
    ASSUME TaskInv, KeepsSlot, job.cancel => job'.cancel, UNCHANGED <<res, done, accepted>>,
           job.running =>
              /\ own'.out = "ok" <=> own.out = "ok"
              /\ own'.pc = "publish" => own.pc = "publish" \/ (~job.pause /\ ~job.cancel)
              /\ Recoverable(job.kind) =>
                   /\ own'.pc \in {"gpu", "check", "stage", "run"} =>
                        done[job.task] >= own'.k - 1
                   /\ own'.pc = "wait" => done[job.task] = own'.k - 1
                   /\ own'.pc \in {"seal", "publish"} => done[job.task] = LastStage(job.kind)
    PROVE  SlotResult' /\ SlotAccepted'
<1>1. SlotResult /\ SlotAccepted BY DEF TaskInv, Results
<1>2. SlotResult' BY <1>1 DEF SlotResult, KeepsSlot
<1>3. SlotAccepted' BY <1>1 DEF SlotAccepted, KeepsSlot
<1> QED BY <1>2, <1>3

\* A move within the preparation or on the way out, or from one step of a stage
\* to the next, as SlotStep wants it.
LEMMA SlotMoves ==
    ASSUME TaskInv, KeepsSlot, job.cancel => job'.cancel, UNCHANGED <<res, done, accepted>>, own.pc # "idle",
           own'.k = own.k, own'.out = "ok" <=> own.out = "ok",
           \/ own'.pc \notin {"gpu", "check", "stage", "run", "wait", "seal", "publish"}
           \/ own'.pc = own.pc
           \/ own.pc \in {"gpu", "check", "stage"} /\ own'.pc \in {"check", "stage", "run"}
           \/ own.pc = "register" /\ own'.pc = "gpu"
           \/ own'.pc \in {"gpu", "run"} /\ ~Recoverable(job.kind)
           \/ own.pc = "seal" /\ own'.pc = "publish" /\ ~job.pause /\ ~job.cancel
    PROVE  SlotResult' /\ SlotAccepted'
<1>1. /\ job.running /\ job.task \in Tasks /\ Flow /\ Results /\ done[job.task] \in Nat /\ own.k \in Nat
  BY Ticket, Numbers DEF TaskInv
<1>2. Recoverable(job.kind) /\ own.pc = "register" => own.k = 1 BY <1>1 DEF Flow, StageFits
<1>3. /\ own'.pc = "publish" => own.pc = "publish" \/ (~job.pause /\ ~job.cancel)
      /\ Recoverable(job.kind) =>
           /\ own'.pc \in {"gpu", "check", "stage", "run"} => done[job.task] >= own'.k - 1
           /\ own'.pc = "wait" => done[job.task] = own'.k - 1
           /\ own'.pc \in {"seal", "publish"} => done[job.task] = LastStage(job.kind)
  BY <1>1, <1>2 DEF Results, SlotResult
<1> QED BY <1>3, SlotStep

\* Nobody owns the slot afterwards and nothing has succeeded.
LEMMA ResultsRest ==
    ASSUME TaskInv, ~job'.running, UNCHANGED <<res, done, accepted>>,
           \A t \in Tasks : /\ rec'[t].att = rec[t].att /\ rec'[t].kind = rec[t].kind
                            /\ rec'[t].state = "succeeded" => rec[t].state = "succeeded"
    PROVE  Results'
  BY DEF TaskInv, Results, ResultIsPast, DoneIsReal, SlotResult, AcceptedIsPast, SlotAccepted,
         AcceptedNeverSucceeds, SuccessIsInstalled

\* An execution that begins has a number none has had.
LEMMA ResultsBegin ==
    ASSUME TaskInv, NEW t \in Tasks, UNCHANGED <<res, done, accepted>>,
           \A u \in Tasks : u # t => rec'[u] = rec[u],
           \/ UNCHANGED rec
           \/ /\ rec'[t].state = "queued" /\ rec'[t].att > rec[t].att /\ rec'[t].att \in Nat
              /\ rec[t].kind = "step" \/ rec'[t].kind = rec[t].kind,
           \/ UNCHANGED job /\ ~job.running
           \/ /\ rec'[t].att > rec[t].att /\ rec'[t].att \in Attempts
              /\ job'.task = t /\ job'.att = rec'[t].att /\ own'.out # "ok"
              /\ own'.pc \in {"prepare", "create", "finish"}
    PROVE  Results'
<1>1. Results /\ ~Recoverable("step") BY DEF TaskInv, Recoverable, Audio
<1>2. /\ \A u \in Tasks : res[u] \in Nat /\ done[u] \in Nat /\ rec[u].att \in Nat
      /\ \A k : LastStage(k) \in Nat
  BY Numbers DEF TaskInv
<1>3. accepted \subseteq Tasks \X Attempts /\ \A a \in Attempts : a \in Nat
  BY Typed DEF TaskInv, Rest, Attempts
<1>4. ResultIsPast' /\ AcceptedIsPast' BY <1>1, <1>2, <1>3 DEF Results, ResultIsPast, AcceptedIsPast
<1>5. DoneIsReal' BY <1>1, <1>2 DEF Results, DoneIsReal
<1>6. AcceptedNeverSucceeds' /\ SuccessIsInstalled'
  BY <1>1, <1>2 DEF Results, AcceptedNeverSucceeds, SuccessIsInstalled
<1>7. SlotResult' BY <1>1, <1>2 DEF Results, ResultIsPast, SlotResult
<1>8. SlotAccepted' BY <1>1, <1>2, <1>3 DEF Results, AcceptedIsPast, SlotAccepted
<1> QED BY <1>4, <1>5, <1>6, <1>7, <1>8 DEF Results

\* Going on to the next stage when the stage is done; the publishing stage is
\* entered so only by a step, which accepts no request.
LEMMA AdvanceSlot ==
    ASSUME TaskInv, JobStays, Advances, UNCHANGED <<res, done, accepted>>, own.pc \in {"run", "wait", "judge"},
           Recoverable(job.kind) => done[job.task] >= own.k
    PROVE  SlotResult' /\ SlotAccepted'
<1>1. /\ job.running /\ job.task \in Tasks /\ Flow /\ Results /\ Recs /\ done[job.task] \in Nat
      /\ own.k \in Nat /\ LastStage(job.kind) \in Nat
  BY Ticket, Numbers DEF TaskInv
<1>2. own.k <= LastStage(job.kind) /\ (job.kind = "step" => ~job.pause /\ ~job.cancel)
  BY <1>1 DEF Flow, StageFits, RequestsFit, Recoverable, Audio, Training
<1>3. Recoverable(job.kind) => done[job.task] <= LastStage(job.kind)
  BY <1>1 DEF Recs, SlotRecord, Results, DoneIsReal
<1>4. ~Recoverable("step") BY DEF Recoverable, Audio
<1>5. KeepsSlot /\ (job.cancel => job'.cancel) BY JobKeeps DEF JobStays, JobSets
<1> QED BY <1>1, <1>2, <1>3, <1>4, <1>5, SlotStep DEF Advances

\* Every step keeps results, markers and accepted requests consistent.
LEMMA ResultsNext == ASSUME TaskInv, Recs', [Next]_vars PROVE Results'
<1>0. /\ IndInv /\ Flow /\ Recs /\ Results /\ "running" # "succeeded" /\ "queued" # "succeeded"
      /\ "pause_requested" # "succeeded"
  BY DEF TaskInv
<1>1. /\ own.pc # "idle" => job.running /\ own.task = job.task /\ own.att = job.att /\ job.kind \in AllKinds
      /\ job.running => job.task \in Tasks /\ job.att = rec[job.task].att /\ job.att \in Nat
  BY <1>0, Ticket, Numbers DEF IndInv, Slot
<1>n. /\ \A t \in Tasks : res[t] \in Nat /\ done[t] \in Nat /\ rec[t].att \in Nat
      /\ own.k \in Nat \ {0} /\ LastStage("step") = 1 /\ \A k : LastStage(k) \in Nat \ {0}
  BY <1>0, Numbers, Ticket
\* a step of the given kind: the slot's facts and the records'
<1>s. ASSUME SlotResult', SlotAccepted', Recorded' PROVE Results' BY <1>s DEF Results, Recorded
<1> USE DEF Moves, Jumps, Fails, Unwinds
<1>2. CASE RetainParameters \/ NoMaterial \/ HandOff \/ CreateChannel \/ Register \/ TakeGpu \/ WaitGpu
           \/ CloseChannel \/ Retire \/ Settle \/ ProgressFault
  <2>1. /\ own'.k = own.k /\ KeepsSlot /\ (job.cancel => job'.cancel)
        /\ \/ own'.pc \notin {"gpu", "check", "stage", "run", "wait", "seal", "publish"}
           \/ own'.pc = own.pc
           \/ own.pc = "gpu" /\ own'.pc = "check"
           \/ own.pc = "register" /\ own'.pc = "gpu"
           \/ own'.pc = "run" /\ job.kind = "plain"
    BY <1>0, <1>2, RetainParametersGoes, NoMaterialGoes, HandOffGoes, CreateChannelGoes, RegisterGoes,
       TakeGpuGoes, WaitGpuGoes, CloseChannelGoes, RetireGoes, SettleGoes, ProgressFaultGoes, JobKeeps
       DEF JobStays, JobSets
  <2>2. own'.out # own.out => own.out # "ok" /\ own'.out # "ok"
    <3>1. own.pc \in {"prepare", "material", "handoff", "create", "register", "gpu"} => own.out = "none"
      BY <1>0, <1>1 DEF Flow, OutIsLate, Ended
    <3>2. own.pc = "settle" => own.out = "paused" BY <1>0, <1>1 DEF Flow, OutIsLate
    <3> QED BY <1>0, <1>2, <3>1, <3>2, RetainParametersGoes, NoMaterialGoes, HandOffGoes, CreateChannelGoes,
         RegisterGoes, TakeGpuGoes, WaitGpuGoes, CloseChannelGoes, RetireGoes, SettleGoes, ProgressFaultGoes
  <2>3. UNCHANGED <<rec, res, done, accepted>>
    BY <1>2 DEF RetainParameters, NoMaterial, HandOff, CreateChannel, Register, TakeGpu, WaitGpu,
       CloseChannel, Retire, Settle, ProgressFault, durable
  <2>5. own.pc # "idle"
    BY <1>2 DEF RetainParameters, NoMaterial, HandOff, CreateChannel, Register, TakeGpu, WaitGpu,
       CloseChannel, Retire, Settle, ProgressFault, AtPc
  <2>4. SlotResult' /\ SlotAccepted' BY <2>1, <2>2, <2>3, <2>5, SlotMoves DEF Recoverable, Audio
  <2> QED BY <1>0, <1>s, <2>3, <2>4, RecordedStep
<1>3. CASE PrepareAudio \/ PrepareTraining
  <2>1. /\ own'.k = own.k /\ KeepsSlot /\ (job.cancel => job'.cancel)
        /\ own'.pc \in {"create", "enqueue", "finish"} /\ own'.out \in {own.out, "error"}
        /\ own.pc \in {"prepare", "fix"} /\ (Recipe(job.task) \/ UNCHANGED rec)
    BY <1>0, <1>3, PrepareAudioGoes, PrepareTrainingGoes, JobKeeps DEF JobStays, JobSets
  <2>2. own.out = "none" /\ own.pc # "idle" /\ own'.out # "ok" BY <1>0, <1>1, <2>1 DEF Flow, OutIsLate, Ended
  <2>3. UNCHANGED <<res, done, accepted>> BY <1>3 DEF PrepareAudio, PrepareTraining
  <2>4. SlotResult' /\ SlotAccepted' BY <2>1, <2>2, <2>3, SlotMoves
  <2>5. \A t \in Tasks : /\ rec'[t].att = rec[t].att /\ rec'[t].kind = rec[t].kind
                         /\ rec'[t].state = rec[t].state
    BY <2>1 DEF Recipe
  <2>6. Recorded' BY <1>0, <2>3, <2>5 DEF Results, Recorded, ResultIsPast, DoneIsReal, AcceptedIsPast,
        AcceptedNeverSucceeds, SuccessIsInstalled
  <2> QED BY <1>s, <2>4, <2>6
<1>4. CASE CommitMaterial \/ SetQueued \/ StartStep
  <2>1. /\ own'.k = own.k /\ KeepsSlot /\ (job.cancel => job'.cancel)
        /\ own'.out \in {own.out, "error", "cancelled"}
        /\ own.pc \in {"prepare", "material", "enqueue"}
        /\ \/ own'.pc \in {"handoff", "create", "finish"}
           \/ own'.pc = "gpu" /\ own.pc = "enqueue" /\ job.kind # "full"
           \/ own'.pc = "run" /\ job.kind = "step"
        /\ UNCHANGED rec \/ Writes(job.task, "running") \/ Writes(job.task, "queued")
             \/ Writes(job.task, "pause_requested")
    BY <1>0, <1>4, CommitMaterialGoes, SetQueuedGoes, StartStepGoes, JobKeeps DEF Enters, JobStays, JobSets, QueuedState
  <2>2. own.out = "none" /\ own'.out # "ok" /\ own.pc # "idle" /\ (own.pc = "enqueue" => job.kind \in Training)
    BY <1>0, <1>1, <2>1 DEF Flow, OutIsLate, PcFitsKind, Ended
  <2>3. UNCHANGED <<res, done, accepted>> BY <1>4 DEF CommitMaterial, SetQueued, StartStep
  <2>4. SlotResult' /\ SlotAccepted' BY <2>1, <2>2, <2>3, SlotMoves DEF Recoverable, Audio, Training
  <2>5. Recorded' BY <1>0, <1>1, <2>1, <2>3, RecordedStep
  <2> QED BY <1>s, <2>4, <2>5
<1>5. ASSUME NEW stage, NEW next, Boundary(stage, next), own.pc \in {"check", "stage"}, next \in {"stage", "run", "create"}
      PROVE  Results'
  <2>1. Bounds(stage, next) /\ UNCHANGED <<res, done, accepted>> BY <1>0, <1>5, BoundaryGoes DEF Boundary
  <2>2. /\ own'.k = own.k /\ KeepsSlot /\ (job.cancel => job'.cancel)
        /\ own'.out \in {own.out, "error", "cancelled", "paused"}
        /\ own'.pc \in {"stage", "run", "create", "close", "finish"}
        /\ UNCHANGED rec \/ Writes(job.task, "running")
    BY <1>5, <2>1, JobKeeps DEF Bounds, Enters, JobStays, JobSets
  <2>3. own.out = "none" /\ own'.out # "ok" /\ own.pc # "idle"
    BY <1>0, <1>1, <1>5, <2>2 DEF Flow, OutIsLate, Ended
  <2>4. SlotResult' /\ SlotAccepted' BY <1>5, <2>1, <2>2, <2>3, SlotMoves
  <2>5. Recorded' BY <1>0, <1>1, <1>5, <2>1, <2>2, RecordedStep
  <2> QED BY <1>s, <2>4, <2>5
<1>6. ASSUME Boundary("final", "publish"), own.pc = "seal" PROVE Results'
  <2>1. Bounds("final", "publish") /\ UNCHANGED <<res, done, accepted>>
    BY <1>0, <1>6, BoundaryGoes DEF Boundary
  <2>2. /\ own.out = "none" /\ job.running /\ job.kind # "step"
        /\ job.pause => Recoverable(job.kind)
        /\ job.cancel => job.kind \in Training
        /\ job.kind = "full" => job.recov
    BY <1>0, <1>1, <1>6 DEF Flow, OutIsLate, PcFitsKind, RequestsFit, Ended, Unready
  <2>3. /\ own'.k = own.k /\ KeepsSlot /\ (job.cancel => job'.cancel)
        /\ own'.out \in {own.out, "error", "cancelled", "paused"}
        /\ own'.pc \in {"publish", "close", "finish"}
        /\ UNCHANGED rec \/ Writes(job.task, "running")
    BY <1>6, <2>1, JobKeeps DEF Bounds, Enters, JobStays, JobSets
  <2>4. own'.pc = "publish" => ~job.pause /\ ~job.cancel
    BY <1>1, <1>6, <2>1, <2>2 DEF Bounds, StopAsked, Recoverable, Training, Audio, AllKinds
  <2>7. own'.out # "ok" /\ own.pc # "idle" BY <1>6, <2>2, <2>3
  <2>5. SlotResult' /\ SlotAccepted' BY <1>6, <2>1, <2>2, <2>3, <2>4, <2>7, SlotMoves
  <2>6. Recorded' BY <1>0, <1>1, <1>6, <2>1, <2>3, RecordedStep
  <2> QED BY <1>s, <2>5, <2>6
<1>7. ASSUME Aside \/ (\E d \in pend : Deliver(d) \/ Report(d)) \/ \E p \in procs : ChildExit(p) PROVE Results'
  <2>1. /\ KeepsSlot /\ (job.cancel => job'.cancel)
        /\ own'.pc = own.pc /\ own'.k = own.k /\ own'.out = own.out
    BY <1>0, <1>7, AsideGoes, DeliverGoes, ReportGoes, ChildExitGoes, JobKeeps DEF JobStays, JobSets
  <2>2. UNCHANGED <<rec, res, done, accepted>>
    BY <1>7 DEF Aside, SyncRequest, StepTail, vars, Deliver, Report, ChildExit, durable
  <2>3. CASE own.pc # "idle" BY <1>0, <1>s, <2>1, <2>2, <2>3, SlotMoves, RecordedStep
  <2>4. CASE own.pc = "idle"
    <3>1. ~job'.running BY <1>0, <2>1, <2>4 DEF IndInv, Slot, KeepsSlot
    <3> QED BY <2>2, <3>1, ResultsRest
  <2> QED BY <2>3, <2>4
<1>8. CASE ReuseStage
  <2>1. own.pc = "run" /\ JobStays /\ Advances /\ done[job.task] >= own.k BY <1>0, <1>1, <1>8, ReuseStageGoes
  <2>2. UNCHANGED <<rec, res, done, accepted>> BY <1>8 DEF ReuseStage, durable
  <2> QED BY <1>s, <2>1, <2>2, AdvanceSlot, RecordedStep
<1>9. CASE Reap
  <2>1. /\ own.pc = "wait" /\ JobStays /\ UNCHANGED <<rec, res, accepted>> /\ job.kind # "plain" /\ job.running
        /\ done \in [Tasks -> 0..MaxStage] /\ own.k \in 0..MaxStage
    BY <1>0, <1>1, <1>9, ReapGoes, Typed, Ticket DEF Reap, Rest, OwnerType
  <2>2. CASE Advances /\ done' = IF job.kind = "step" THEN done ELSE [done EXCEPT ![own.task] = own.k]
    <3>1. CASE job.kind = "step"
      BY <1>0, <1>s, <2>1, <2>2, <3>1, AdvanceSlot, RecordedStep DEF Recoverable, Audio
    <3>2. CASE job.kind # "step"
      <4>1. done'[job.task] = own.k /\ \A u \in Tasks : u # job.task => done'[u] = done[u]
        BY <1>1, <2>1, <2>2, <3>2
      <4>2. own.k <= LastStage(job.kind) /\ rec[job.task].kind = job.kind /\ Recoverable(job.kind)
            /\ rec[job.task].state # "succeeded"
        BY <1>0, <1>1, <2>1, <3>2 DEF Flow, StageFits, Recs, SlotRecord, Recoverable, AllKinds, Training,
           Active, ActiveStates
      <4>3. DoneIsReal' BY <1>0, <2>1, <4>1, <4>2 DEF Results, DoneIsReal
      <4>4. SuccessIsInstalled' BY <1>0, <1>1, <2>1, <4>1, <4>2 DEF Results, SuccessIsInstalled
      <4>5. ResultIsPast' /\ AcceptedIsPast' /\ AcceptedNeverSucceeds'
        BY <1>0, <2>1 DEF Results, ResultIsPast, AcceptedIsPast, AcceptedNeverSucceeds
      <4>6. own.out = "none" BY <1>0, <2>1 DEF Flow, OutIsLate, Ended
      <4>7. SlotResult'
        BY <1>0, <1>n, <2>1, <2>2, <3>2, <4>1, <4>2, <4>6 DEF Results, SlotResult, Advances, JobStays, JobSets
      <4>8. SlotAccepted'
        BY <1>0, <2>1, <2>2, <3>2, <4>6 DEF Results, SlotAccepted, Advances, JobStays, JobSets
      <4> QED BY <4>3, <4>4, <4>5, <4>7, <4>8 DEF Results
    <3> QED BY <3>1, <3>2
  <2>3. CASE UNCHANGED done /\ (Unwinds("error") \/ Unwinds("paused"))
    <3>1. own.out = "none" BY <1>0, <2>1 DEF Flow, OutIsLate, Ended
    <3>2. SlotResult' /\ SlotAccepted' BY <1>1, <2>1, <2>3, <3>1, JobKeeps, SlotMoves DEF JobStays, JobSets
    <3> QED BY <1>0, <1>s, <2>1, <2>3, <3>2, RecordedStep
  <2> QED BY <1>0, <1>9, <2>2, <2>3, ReapGoes
<1>10. CASE ReapPlain \/ Judge
  <2>1. /\ own.pc \in {"wait", "judge"} /\ JobStays /\ job.kind = "plain"
        /\ \/ Advances
           \/ Unwinds("error") /\ own.out = "none"
           \/ Unwinds("cancelled") /\ own.out = "none"
           \/ (ChannelOpen /\ Jumps("close")) \/ Unwinds(own.out)
    BY <1>0, <1>1, <1>10, ReapPlainGoes, JudgeGoes DEF Flow, PcFitsKind, OutIsLate, Ended
  <2>2. UNCHANGED <<rec, res, done, accepted>> BY <1>10 DEF ReapPlain, Judge, durable
  <2>3. CASE Advances BY <1>0, <1>s, <2>1, <2>2, <2>3, AdvanceSlot, RecordedStep DEF Recoverable, Audio
  <2>4. CASE ~Advances
    <3>1. SlotResult' /\ SlotAccepted' BY <2>1, <2>2, <2>4, JobKeeps, SlotMoves DEF JobStays, JobSets
    <3> QED BY <1>0, <1>s, <2>2, <3>1, RecordedStep
  <2> QED BY <2>3, <2>4
<1>11. CASE Launch
  <2>1. /\ own.pc = "run" /\ JobStays /\ UNCHANGED <<rec, res, done, accepted>>
        /\ Jumps("wait") \/ Unwinds("error")
    BY <1>0, <1>11, LaunchGoes DEF Launch, durable
  <2>2. own.out = "none" /\ (job.kind \in Audio \cup {"full"} => ~(done[job.task] >= own.k))
    BY <1>0, <1>1, <1>11, <2>1, LaunchGoes DEF Flow, OutIsLate, Ended, Completed
  <2>3. Recoverable(job.kind) => done[job.task] = own.k - 1
    BY <1>0, <1>1, <1>n, <2>1, <2>2 DEF Results, SlotResult, Recoverable
  <2>4. SlotResult' /\ SlotAccepted' BY <1>1, <2>1, <2>2, <2>3, JobKeeps, SlotStep DEF JobStays, JobSets
  <2> QED BY <1>0, <1>s, <2>1, <2>4, RecordedStep
<1>12. CASE Publish
  <2>1. /\ own.pc = "publish" /\ JobStays /\ UNCHANGED <<rec, done, accepted>> /\ job.running
        /\ res \in [Tasks -> 0..MaxAttempt] /\ own.out = "none" /\ job.att = rec[job.task].att
    BY <1>0, <1>1, <1>12, PublishGoes, Typed DEF Publish, Rest, Flow, OutIsLate, Ended
  <2>2. CASE res' = [res EXCEPT ![own.task] = own.att] /\ Unwinds("ok")
    <3>1. res'[job.task] = job.att /\ \A u \in Tasks : u # job.task => res'[u] = res[u] BY <1>1, <2>1, <2>2
    <3>2. rec[job.task].state # "succeeded" BY <1>0, <2>1 DEF Recs, SlotRecord, Active, ActiveStates
    <3>3. ResultIsPast' BY <1>0, <1>1, <1>n, <2>1, <3>1 DEF Results, ResultIsPast
    <3>4. SuccessIsInstalled' BY <1>0, <1>1, <2>1, <3>1, <3>2 DEF Results, SuccessIsInstalled
    <3>5. DoneIsReal' /\ AcceptedIsPast' /\ AcceptedNeverSucceeds'
      BY <1>0, <2>1 DEF Results, DoneIsReal, AcceptedIsPast, AcceptedNeverSucceeds
    <3>6. SlotResult' /\ SlotAccepted'
      BY <1>0, <2>1, <2>2, <3>1 DEF Results, SlotResult, SlotAccepted, JobStays, JobSets
    <3> QED BY <3>3, <3>4, <3>5, <3>6 DEF Results
  <2>3. CASE UNCHANGED res /\ Unwinds("error")
    <3>1. SlotResult' /\ SlotAccepted' BY <1>1, <2>1, <2>3, JobKeeps, SlotMoves DEF JobStays, JobSets
    <3> QED BY <1>0, <1>s, <2>1, <2>3, <3>1, RecordedStep
  <2> QED BY <1>0, <1>12, <2>2, <2>3, PublishGoes
<1>13. CASE GuardStorage
  <2>1. /\ own.pc \in {"gpu", "check", "stage", "seal", "wait"} /\ KeepsSlot /\ (job.cancel => job'.cancel)
        /\ own'.k = own.k /\ (own'.out # "ok" \/ own'.out = own.out)
        /\ own'.pc = own.pc \/ own'.pc \in {"close", "finish"}
        /\ Writes(job.task, "pause_requested")
    BY <1>0, <1>13, GuardStorageGoes, JobKeeps DEF JobSets
  <2>2. own.out = "none" /\ own.pc # "idle" BY <1>0, <1>1, <2>1 DEF Flow, OutIsLate, Ended
  <2>3. UNCHANGED <<res, done, accepted>> BY <1>13 DEF GuardStorage
  <2>4. SlotResult' /\ SlotAccepted' BY <2>1, <2>2, <2>3, SlotMoves
  <2> QED BY <1>0, <1>1, <1>s, <2>1, <2>2, <2>3, <2>4, RecordedStep
<1>14. CASE Pause \/ Cancel
  <2>0. /\ job.running /\ KeepsSlot /\ Jumps(own.pc) /\ (job'.pause \/ job'.cancel)
        /\ PauseAllowed \/ CancelAllowed
    BY <1>0, <1>14, PauseGoes, CancelGoes, JobKeeps DEF JobSets
  <2>1. /\ job.running /\ job.stage # "final" /\ (Recoverable(job.kind) \/ job.kind \in Training)
        /\ KeepsSlot /\ Jumps(own.pc) /\ (job'.pause \/ job'.cancel)
        /\ UNCHANGED rec \/ Writes(job.task, "pause_requested")
        /\ accepted' = accepted \cup {<<job.task, job.att>>} /\ UNCHANGED <<res, done>>
    <3>1. job.stage # "final" /\ (Recoverable(job.kind) \/ job.kind \in Training)
      BY <1>0, <2>0 DEF PauseAllowed, Pausable, CancelAllowed, Flow, RequestsFit, Recoverable
    <3>2. UNCHANGED rec \/ Writes(job.task, "pause_requested") BY <1>0, <1>14, PauseGoes DEF Cancel, durable
    <3>3. accepted' = accepted \cup {<<job.task, job.att>>} /\ UNCHANGED <<res, done>>
      BY <1>14 DEF Pause, Cancel, durable
    <3> QED BY <2>0, <3>1, <3>2, <3>3
  <2>2. own.pc # "publish" /\ own.out # "ok"
    BY <1>0, <2>1 DEF Flow, FinalIsSealed, Recoverable, Training, Audio
  <2>3. \A t \in Tasks : /\ rec'[t].att = rec[t].att /\ rec'[t].kind = rec[t].kind
                         /\ rec'[t].state = "succeeded" => rec[t].state = "succeeded"
    BY <1>1, <2>1 DEF Writes
  <2>4. rec'[job.task].state # "succeeded"
    BY <1>0, <1>1, <2>1, <2>3 DEF Recs, SlotRecord, Active, ActiveStates
  <2>5. ResultIsPast' /\ DoneIsReal' /\ SuccessIsInstalled'
    BY <1>0, <2>1, <2>3 DEF Results, ResultIsPast, DoneIsReal, SuccessIsInstalled
  <2>6. AcceptedIsPast' /\ AcceptedNeverSucceeds'
    BY <1>0, <1>1, <2>1, <2>3, <2>4 DEF Results, AcceptedIsPast, AcceptedNeverSucceeds
  <2>7. SlotResult' BY <1>0, <2>1 DEF Results, SlotResult, KeepsSlot
  <2>8. SlotAccepted' BY <2>1, <2>2 DEF SlotAccepted, KeepsSlot
  <2> QED BY <2>5, <2>6, <2>7, <2>8 DEF Results
<1>15. CASE FinishAudio \/ FinishTraining \/ FinishStep
  <2>1. PICK s \in SettledStates :
          /\ Writes(job.task, s) /\ ~job'.running /\ own.pc = "finish"
          /\ s = "succeeded" => own.out \notin {"error", "paused", "cancelled"}
                               \/ (job.kind \in Audio /\ own.out = "cancelled")
                               \/ (job.kind = "step" /\ own.out # "error")
    BY <1>0, <1>15, FinishGoes DEF Finishes
  <2>2. UNCHANGED <<done, res, accepted>> BY <1>15 DEF FinishAudio, FinishTraining, FinishStep
  <2>3. s = "succeeded" => own.out = "ok"
    BY <1>0, <1>1, <2>1, Ticket DEF Flow, OutIsLate, OwnerType, Recoverable, Audio, Training
  <2>4. /\ own.out = "ok" => /\ res[job.task] = job.att /\ <<job.task, job.att>> \notin accepted
                             /\ Recoverable(job.kind) => done[job.task] = LastStage(job.kind)
        /\ rec[job.task].kind = job.kind /\ rec[job.task].state \in ActiveStates
    BY <1>0, <1>1, <2>1 DEF Results, SlotResult, SlotAccepted, Recs, SlotRecord, Active
  <2>5. \A t \in Tasks : /\ rec'[t].att = rec[t].att /\ rec'[t].kind = rec[t].kind
                         /\ t # job.task => rec'[t] = rec[t]
    BY <1>1, <2>1 DEF Writes
  <2>6. rec'[job.task].state = "succeeded" => s = "succeeded" BY <2>1, <2>4 DEF Writes, ActiveStates
  <2>7. AcceptedNeverSucceeds' /\ SuccessIsInstalled' BY <1>0, <1>1, <2>1, <2>2, <2>3, <2>4, <2>5, <2>6
       DEF Results, AcceptedNeverSucceeds, SuccessIsInstalled, Recoverable
  <2>8. ResultIsPast' /\ DoneIsReal' /\ AcceptedIsPast'
    BY <1>0, <2>2, <2>5 DEF Results, ResultIsPast, DoneIsReal, AcceptedIsPast
  <2> QED BY <2>1, <2>7, <2>8 DEF Results, SlotResult, SlotAccepted
<1>16. ASSUME NEW t \in Tasks, NEW k \in Kinds, ReserveJob(t, k) PROVE Results'
  <2> DEFINE r == [NoRecord EXCEPT !.state = "queued", !.att = 1, !.kind = k]
  <2>1. /\ ~job.running /\ rec[t].state = "none" /\ \A u \in Tasks : u # t => rec'[u] = rec[u]
        /\ \/ UNCHANGED <<own, job>> /\ (UNCHANGED rec \/ rec'[t] = r)
           \/ Begins(t, 1, "prepare", "none", k, FALSE) /\ rec'[t] = r
    BY <1>0, <1>16, ReserveJobGoes
  <2>2. r.state = "queued" /\ r.att = 1 /\ rec[t].att = 0 /\ rec[t].kind = "step"
    BY <1>0, <2>1 DEF NoRecord, Recs, NoneIsBlank
  <2>3. UNCHANGED <<res, done, accepted>> /\ 1 \in Attempts
    BY <1>16, BoundsAssumption DEF ReserveJob, Attempts
  <2> HIDE DEF r
  <2> QED BY <2>1, <2>2, <2>3, ResultsBegin DEF Begins
<1>17. ASSUME NEW t \in Tasks, Resume(t) PROVE Results'
  <2>1. /\ ~job.running /\ rec[t].att < MaxAttempt /\ \A u \in Tasks : u # t => rec'[u] = rec[u]
        /\ \/ UNCHANGED <<own, job>> /\ (UNCHANGED rec \/ NextTry(t))
           \/ NextTry(t) /\ \E pc \in {"create", "finish"}, out \in {"none", "error"} :
                              Begins(t, NextAttempt(t), pc, out, rec[t].kind, rec[t].kind = "full")
    BY <1>0, <1>17, ResumeGoes
  <2>2. UNCHANGED <<res, done, accepted>> BY <1>17 DEF Resume
  <2>3. NextAttempt(t) > rec[t].att /\ NextAttempt(t) \in Nat /\ NextAttempt(t) \in Attempts
    BY <1>n, <2>1, BoundsAssumption DEF NextAttempt, Attempts
  <2>4. NextTry(t) => rec'[t].state = "queued" /\ rec'[t].att = NextAttempt(t) /\ rec'[t].kind = rec[t].kind
    BY DEF NextTry
  <2> QED BY <2>1, <2>2, <2>3, <2>4, ResultsBegin DEF Begins
<1>18. ASSUME NEW t \in Tasks, Cleanup(t) PROVE Results'
  <2>1. ~job'.running /\ UNCHANGED <<res, done, accepted>>
    BY <1>0, <1>18, CleanupGoes DEF JobStays, JobSets, Cleanup
  <2>2. \A u \in Tasks : rec'[u].state = rec[u].state /\ rec'[u].att = rec[u].att /\ rec'[u].kind = rec[u].kind
    BY <1>0, <1>18, CleanupGoes
  <2> QED BY <2>1, <2>2, ResultsRest
<1>19. CASE Crash BY <1>19, CrashGoes, ResultsRest
<1>20. CASE Restart
  <2>1. ~job'.running /\ UNCHANGED <<res, done, accepted>> BY <1>0, <1>20, RestartGoes DEF JobStays, JobSets
  <2>2. \A t \in Tasks : /\ rec'[t].att = rec[t].att /\ rec'[t].kind = rec[t].kind
                         /\ rec'[t].state = "succeeded" => rec[t].state = "succeeded"
    BY <1>20, RestartRecords
  <2> QED BY <2>1, <2>2, ResultsRest
<1> QED BY <1>2, <1>3, <1>4, <1>5, <1>6, <1>7, <1>8, <1>9, <1>10, <1>11, <1>12, <1>13, <1>14, <1>15, <1>16,
     <1>17, <1>18, <1>19, <1>20, EveryStep
----------------------------------------
(* Control channels. *)

\* The steps in which a recoverable execution has its channel.
Open == {"register", "gpu", "check", "stage", "run", "wait"}

\* Of a table of every task's attempts, only the entry of t's attempt a changes.
Puts(f, g, t, a, v) ==
    /\ g[t][a] = v
    /\ \A u \in Tasks, b \in Attempts : u # t \/ b # a => g[u][b] = f[u][b]

\* Writing one control file, or changing one source.
LEMMA ChannelPuts ==
    ASSUME IndInv, NEW t \in Tasks, NEW a \in Attempts, NEW v
    PROVE  /\ ctl' = [ctl EXCEPT ![t][a] = v] => Puts(ctl, ctl', t, a, v)
           /\ src' = [src EXCEPT ![t][a] = v] => Puts(src, src', t, a, v)
<1>1. ctl \in [Tasks -> [Attempts -> {"absent", "0", "1"}]] BY Typed DEF Rest, CtlType
<1>2. src \in [Tasks -> [Attempts -> {"none", "open", "bad", "closed", "closedbad"}]]
  BY Typed DEF Rest, SrcType
<1>3. ASSUME ctl' = [ctl EXCEPT ![t][a] = v] PROVE Puts(ctl, ctl', t, a, v) BY <1>1, <1>3 DEF Puts
<1>4. ASSUME src' = [src EXCEPT ![t][a] = v] PROVE Puts(src, src', t, a, v) BY <1>2, <1>4 DEF Puts
<1> QED BY <1>3, <1>4

\* A plain training's channel is open during its second stage only.
LEMMA OpenIsLate ==
    ASSUME TaskInv, own.pc \notin {"idle", "finish"}, job.kind = "plain", ChannelOpen
    PROVE  own.k >= 2
<1>1. /\ job.running /\ own.task = job.task /\ own.att = job.att /\ own.k \in Nat \ {0} /\ Flow /\ Channels
      /\ own \in OwnerType
  BY Ticket DEF TaskInv
<1>2. src[job.task][job.att] # "none" BY <1>1 DEF ChannelOpen
<1>3. ~BeforeChannel BY <1>1, <1>2 DEF Channels, SlotChannel
<1>4. own.pc \in {"register", "stage", "run", "wait", "close", "retire", "judge", "settle", "seal", "publish"}
  BY <1>1, <1>3 DEF BeforeChannel, OwnerType, PcValues
<1>5. own.pc \in {"register", "seal", "publish", "settle"} => own.k >= 2
  BY <1>1 DEF Flow, StageFits, PcFitsKind, LastStage, Training
<1>6. own.pc \in {"stage", "run", "wait"} => own.k >= 2 BY <1>1, <1>3 DEF BeforeChannel
<1>7. own.pc \in {"close", "retire", "judge"} => own.k >= 2 BY <1>1 DEF Channels, PlainIsLate
<1> QED BY <1>4, <1>5, <1>6, <1>7

\* The owner goes on without creating or closing a channel.
Onward ==
    /\ KeepsSlot
    /\ job.running => /\ BeforeChannel' => BeforeChannel
                      /\ Recoverable(job.kind) /\ own'.pc \in Open => own.pc \in Open
    /\ PlainIsLate'

\* All steps but the creation, closing and retiring of a channel.
LEMMA OnwardSteps ==
    ASSUME TaskInv,
           \/ PrepareAudio \/ RetainParameters \/ NoMaterial \/ CommitMaterial \/ HandOff
           \/ PrepareTraining \/ SetQueued \/ StartStep \/ Register \/ TakeGpu
           \/ WaitGpu \/ ReuseStage \/ Launch \/ Reap \/ ReapPlain \/ Judge \/ Settle \/ Publish
           \/ ProgressFault \/ Pause \/ Cancel \/ GuardStorage \/ Aside
           \/ \E stage, next : /\ Boundary(stage, next)
                               /\ \/ own.pc = "check" /\ next = "stage"
                                  \/ /\ own.pc = "stage" /\ next \in {"run", "create"}
                                     /\ next = "create" <=> job.kind = "plain" /\ own.k = 2
                                  \/ own.pc = "seal" /\ next = "publish"
           \/ \E d \in pend : Deliver(d) \/ Report(d)
           \/ \E p \in procs : ChildExit(p)
    PROVE  Onward
<1>0. IndInv /\ Flow /\ Channels /\ own.k \in Nat \ {0} BY Ticket DEF TaskInv
<1>1. own.pc # "idle" => job.running /\ job.kind \in AllKinds BY <1>0, Ticket
<1>2. own.pc \notin {"idle", "finish"} /\ job.kind = "plain" /\ ChannelOpen => own.k >= 2 BY OpenIsLate
<1>3. own.pc \in {"judge", "retire", "close"} /\ job.running /\ job.kind = "plain" => own.k >= 2
  BY <1>0 DEF Channels, PlainIsLate
<1>5. own.pc = "register" /\ job.running /\ job.kind = "plain" => own.k = 2 BY <1>0 DEF Flow, StageFits
<1>o. ASSUME KeepsSlot, own'.k = own.k, own'.pc = own.pc PROVE Onward
  BY <1>0, <1>o DEF Onward, KeepsSlot, BeforeChannel, Channels, PlainIsLate
<1>u. ASSUME KeepsSlot, own.pc # "idle", own.pc # "finish",
             \/ ChannelOpen /\ own'.pc = "close" /\ own'.k = own.k
             \/ own'.pc = "finish"
      PROVE Onward
  BY <1>2, <1>u DEF Onward, KeepsSlot, BeforeChannel, Open, PlainIsLate
<1>un. ASSUME JobStays, own.pc # "idle", own.pc # "finish", NEW out, Unwinds(out) PROVE Onward
  BY <1>u, <1>un, JobKeeps DEF Unwinds, Moves
<1>f. ASSUME KeepsSlot, own.pc \notin {"idle", "finish"}, own'.pc = "finish" PROVE Onward BY <1>u, <1>f
<1>6. CASE PrepareAudio
  <2>1. CASE Fails BY <1>0, <1>6, <1>f, <2>1, PrepareAudioGoes, JobKeeps DEF Fails, Moves
  <2>2. CASE Jumps("create") BY <1>0, <1>6, <2>2, PrepareAudioGoes, JobKeeps
       DEF Jumps, Moves, Onward, KeepsSlot, BeforeChannel, PlainIsLate, Open
  <2> QED BY <1>0, <1>6, <2>1, <2>2, PrepareAudioGoes
<1>7. CASE RetainParameters \/ NoMaterial \/ CommitMaterial \/ HandOff \/ PrepareTraining
  <2>1. /\ KeepsSlot /\ own.pc \in {"prepare", "material", "handoff", "fix"}
        /\ own'.pc \in {"material", "handoff", "fix", "enqueue", "finish"}
    BY <1>0, <1>7, RetainParametersGoes, NoMaterialGoes, CommitMaterialGoes, HandOffGoes, PrepareTrainingGoes,
       JobKeeps DEF Jumps, Moves, Fails
  <2> QED BY <2>1 DEF Onward, BeforeChannel, PlainIsLate, Open
<1>8. CASE SetQueued
  <2>1. /\ KeepsSlot /\ own.pc = "enqueue" /\ own'.k = own.k
        /\ own'.pc \in {"create", "finish"} \/ (own'.pc = "gpu" /\ job.kind # "full")
    BY <1>0, <1>8, SetQueuedGoes, JobKeeps DEF Jumps, Moves, Fails
  <2>2. job.running => job.kind \in Training BY <1>0, <2>1 DEF Flow, PcFitsKind
  <2> QED BY <2>1, <2>2 DEF Onward, BeforeChannel, PlainIsLate, Open, Recoverable, Audio, Training
<1>9. CASE StartStep
  BY <1>0, <1>9, StartStepGoes, JobKeeps DEF Jumps, Moves, Fails, Onward, BeforeChannel, PlainIsLate, Recoverable, KeepsSlot, Audio
<1>10. CASE Register
  <2>1. CASE Unwinds("cancelled") BY <1>0, <1>10, <1>un, <2>1, RegisterGoes
  <2>2. CASE ~Unwinds("cancelled")
    <3>1. /\ KeepsSlot /\ own.pc = "register" /\ own'.k = own.k
          /\ \/ own'.pc = "run" /\ job.kind = "plain"
             \/ own'.pc = "gpu" /\ job.kind # "plain"
      BY <1>0, <1>10, <2>2, RegisterGoes, JobKeeps DEF Jumps, Moves
    <3>2. own'.pc = "run" => own.k = 2 BY <1>1, <1>5, <3>1
    <3> QED BY <3>1, <3>2 DEF Onward, BeforeChannel, PlainIsLate, Open, KeepsSlot
  <2> QED BY <2>1, <2>2
<1>11. CASE TakeGpu
  BY <1>0, <1>11, TakeGpuGoes, JobKeeps DEF Jumps, Moves, Onward, BeforeChannel, PlainIsLate, Open, KeepsSlot
<1>12. CASE WaitGpu BY <1>0, <1>12, <1>un, WaitGpuGoes
<1>13. CASE ReuseStage
  <2>1. own.pc = "run" /\ JobStays /\ Advances /\ job.kind \in Audio \cup {"full"}
    BY <1>0, <1>13, ReuseStageGoes DEF ReuseStage, Completed
  <2>2. KeepsSlot /\ own'.pc \in {"stage", "publish", "seal"} /\ own.pc \in Open /\ job.kind # "plain"
    BY <2>1, JobKeeps DEF Advances, Open, Audio
  <2> QED BY <2>2 DEF Onward, BeforeChannel, PlainIsLate, KeepsSlot
<1>14. CASE Launch
  <2>1. CASE Unwinds("error") BY <1>0, <1>14, <1>un, <2>1, LaunchGoes
  <2>2. CASE ~Unwinds("error")
    BY <1>0, <1>14, <2>2, LaunchGoes, JobKeeps DEF Jumps, Moves, Onward, BeforeChannel, PlainIsLate, Open, KeepsSlot
  <2> QED BY <2>1, <2>2
<1>15. CASE Reap
  <2>1. CASE Advances
    BY <1>0, <1>15, <2>1, ReapGoes, JobKeeps DEF Advances, Onward, BeforeChannel, PlainIsLate, KeepsSlot, Open
  <2>2. CASE ~Advances BY <1>0, <1>15, <2>2, ReapGoes, <1>un
  <2> QED BY <2>1, <2>2
<1>16. CASE ReapPlain
  <2>1. CASE Unwinds("error") BY <1>0, <1>16, <1>un, <2>1, ReapPlainGoes
  <2>2. CASE Advances
    <3>1. own.pc = "wait" /\ job.kind = "plain" /\ KeepsSlot BY <1>0, <1>16, ReapPlainGoes, JobKeeps
    <3>2. /\ own'.pc \in {"stage", "seal"} /\ (own'.pc = "stage" => own'.k = own.k + 1)
      BY <2>2, <3>1 DEF Advances
    <3> QED BY <1>0, <3>1, <3>2 DEF Onward, BeforeChannel, PlainIsLate, KeepsSlot, Open
  <2>3. CASE ChannelOpen /\ Jumps("close")
    BY <1>0, <1>16, <1>u, <2>3, ReapPlainGoes, JobKeeps DEF Jumps, Moves
  <2> QED BY <1>0, <1>16, <2>1, <2>2, <2>3, ReapPlainGoes
<1>17. CASE Judge
  <2>1. own.pc = "judge" /\ JobStays /\ job.kind = "plain" /\ own.k >= 2
    BY <1>0, <1>1, <1>3, <1>17, JudgeGoes DEF Flow, PcFitsKind
  <2>2. ASSUME NEW out, Unwinds(out) PROVE Onward BY <1>un, <2>1, <2>2
  <2>3. CASE Advances
    BY <2>1, <2>3, <1>0, JobKeeps DEF Advances, Onward, BeforeChannel, PlainIsLate, KeepsSlot, Open, Recoverable, Audio
  <2> QED BY <1>0, <1>17, <2>2, <2>3, JudgeGoes
<1>18. CASE Settle BY <1>0, <1>18, <1>f, SettleGoes, JobKeeps DEF Moves
<1>19. CASE Publish BY <1>0, <1>19, <1>un, PublishGoes
<1>20. ASSUME ProgressFault \/ Pause \/ Cancel \/ Aside \/ (\E d \in pend : Deliver(d) \/ Report(d))
              \/ \E p \in procs : ChildExit(p) PROVE Onward
  <2>1. KeepsSlot /\ own'.pc = own.pc /\ own'.k = own.k
    BY <1>0, <1>20, AsideGoes, DeliverGoes, ReportGoes, ChildExitGoes, ProgressFaultGoes, PauseGoes, CancelGoes,
       JobKeeps DEF Jumps, Moves
  <2> QED BY <1>o, <2>1
<1>21. CASE GuardStorage
  <2>1. KeepsSlot /\ own.pc \in {"gpu", "check", "stage", "seal", "wait"} /\ (Jumps(own.pc) \/ Unwinds("error"))
    BY <1>0, <1>21, GuardStorageGoes, JobKeeps
  <2>2. CASE Jumps(own.pc) BY <1>o, <2>1, <2>2 DEF Jumps, Moves
  <2>3. CASE Unwinds("error") BY <1>u, <2>1, <2>3 DEF Unwinds, Moves
  <2> QED BY <2>1, <2>2, <2>3
<1>22. ASSUME NEW stage, NEW next, Boundary(stage, next),
              \/ own.pc = "check" /\ next = "stage"
              \/ /\ own.pc = "stage" /\ next \in {"run", "create"}
                 /\ next = "create" <=> job.kind = "plain" /\ own.k = 2
              \/ own.pc = "seal" /\ next = "publish"
       PROVE Onward
  <2>1. Bounds(stage, next) BY <1>0, <1>22, BoundaryGoes
  <2>2. \/ \E out : Unwinds(out)
        \/ Jumps(next)
    BY <2>1 DEF Bounds
  <2>3. KeepsSlot BY <2>1, JobKeeps DEF Bounds
  <2>4. ASSUME NEW out, Unwinds(out) PROVE Onward BY <1>u, <1>22, <2>3, <2>4 DEF Unwinds, Moves
  <2>5. CASE Jumps(next)
    <3>1. own'.pc = next /\ own'.k = own.k BY <2>5 DEF Jumps, Moves
    <3>2. own.pc = "check" /\ job.running => own.k = 1 BY <1>0 DEF Flow, StageFits
    <3> QED BY <1>0, <1>1, <1>22, <2>3, <3>1, <3>2
            DEF Onward, BeforeChannel, PlainIsLate, KeepsSlot, Open, Recoverable, Audio
  <2> QED BY <2>2, <2>4, <2>5
<1> QED BY <1>6, <1>7, <1>8, <1>9, <1>10, <1>11, <1>12, <1>13, <1>14, <1>15, <1>16, <1>17, <1>18, <1>19,
     <1>20, <1>21, <1>22
\* A step that leaves every channel alone.
LEMMA ChannelsStep ==
    ASSUME TaskInv, Onward, UNCHANGED <<ctl, src>>, accepted \subseteq accepted',
           \A t \in Tasks : rec'[t].att = rec[t].att,
           \A d \in pend' : \/ d \in pend
                            \/ <<d.task, d.att>> \in accepted' /\ d.st = "deliver"
                            \/ <<d.task, d.att>> \in accepted' /\ src[d.task][d.att] \in {"bad", "closedbad"},
           job'.cerr => job.cerr \/ (job.task \in Tasks /\ src[job.task][job.att] \in {"bad", "closedbad"})
    PROVE  Channels'
<1>1. Channels /\ KeepsSlot /\ PlainIsLate' BY DEF TaskInv, Onward
<1>2. ErrorHasTask' /\ ErrorIsOwn' BY <1>1 DEF Channels, ErrorHasTask, ErrorIsOwn, KeepsSlot
<1>3. ChannelsArePast' BY <1>1 DEF Channels, ChannelsArePast
<1>4. SlotChannel' BY <1>1 DEF Channels, SlotChannel, Onward, KeepsSlot, Open
<1>5. HandlersAreOwn' BY <1>1 DEF Channels, HandlersAreOwn
<1>6. NoLateSignal' BY <1>1 DEF Channels, NoLateSignal, KeepsSlot
<1> QED BY <1>1, <1>2, <1>3, <1>4, <1>5, <1>6 DEF Channels

\* An execution that begins has no channel yet.
LEMMA ChannelsBegin ==
    ASSUME TaskInv, NEW t \in Tasks, UNCHANGED <<ctl, src, pend, accepted>>,
           \A u \in Tasks : rec'[u].att >= rec[u].att /\ rec'[u].att \in Nat,
           \/ UNCHANGED job /\ UNCHANGED own /\ ~job.running
           \/ /\ rec'[t].att > rec[t].att /\ rec'[t].att \in Attempts
              /\ job'.task = t /\ job'.att = rec'[t].att /\ ~job'.cerr
              /\ own'.pc \in {"prepare", "create", "finish"}
    PROVE  Channels'
<1>1. Channels /\ (\A u \in Tasks : rec[u].att \in Nat) /\ (\A a \in Attempts : a \in Nat)
  BY Numbers DEF TaskInv, Attempts
<1>2. ChannelsArePast' BY <1>1 DEF Channels, ChannelsArePast
<1>3. HandlersAreOwn' BY <1>1 DEF Channels, HandlersAreOwn
<1>4. CASE UNCHANGED job /\ UNCHANGED own /\ ~job.running BY <1>1, <1>2, <1>3, <1>4
     DEF Channels, PlainIsLate, ErrorHasTask, ErrorIsOwn, SlotChannel, NoLateSignal
<1>5. CASE /\ rec'[t].att > rec[t].att /\ rec'[t].att \in Attempts
           /\ job'.task = t /\ job'.att = rec'[t].att /\ ~job'.cerr
           /\ own'.pc \in {"prepare", "create", "finish"}
  <2>1. ctl[t][job'.att] = "absent" /\ src[t][job'.att] = "none" BY <1>1, <1>5 DEF Channels, ChannelsArePast
  <2>2. SlotChannel' /\ NoLateSignal' BY <1>5, <2>1 DEF SlotChannel, NoLateSignal
  <2>3. PlainIsLate' /\ ErrorHasTask' /\ ErrorIsOwn' BY <1>5 DEF PlainIsLate, ErrorHasTask, ErrorIsOwn
  <2> QED BY <1>2, <1>3, <2>2, <2>3 DEF Channels
<1> QED BY <1>4, <1>5

\* Nobody owns the slot afterwards, and no channel has changed.
LEMMA ChannelsRest ==
    ASSUME TaskInv, ~job'.running, UNCHANGED ctl, UNCHANGED src, UNCHANGED <<pend, accepted>>,
           job'.cerr = job.cerr, job'.task = job.task, job'.att = job.att,
           \A t \in Tasks : rec'[t].att = rec[t].att
    PROVE  Channels'
  BY DEF TaskInv, Channels, PlainIsLate, ErrorHasTask, ErrorIsOwn, ChannelsArePast, SlotChannel,
         HandlersAreOwn, NoLateSignal

\* Every step keeps the channels those of their own executions.
LEMMA ChannelsNext == ASSUME TaskInv, [Next]_vars PROVE Channels'
<1>0. /\ IndInv /\ Flow /\ Channels BY DEF TaskInv
<1>1. /\ own.pc # "idle" => job.running /\ own.task = job.task /\ own.att = job.att /\ job.kind \in AllKinds
                            /\ job.att \in Attempts /\ rec[job.task].att = job.att
      /\ job.running => job.task \in Tasks /\ own.pc # "idle"
  BY <1>0, Ticket DEF IndInv, Slot
<1>n. \A t \in Tasks : rec[t].att \in Nat BY <1>0, Numbers
<1>2. CASE \/ PrepareAudio \/ RetainParameters \/ NoMaterial \/ CommitMaterial \/ HandOff
           \/ PrepareTraining \/ SetQueued \/ StartStep \/ Register \/ TakeGpu
           \/ WaitGpu \/ ReuseStage \/ Launch \/ Reap \/ ReapPlain \/ Judge \/ Settle \/ Publish
           \/ ProgressFault
  <2>1. job'.cerr = job.cerr
    BY <1>0, <1>2, PrepareAudioGoes, RetainParametersGoes, NoMaterialGoes, CommitMaterialGoes, HandOffGoes,
       PrepareTrainingGoes, SetQueuedGoes, StartStepGoes, RegisterGoes, TakeGpuGoes, WaitGpuGoes,
       ReuseStageGoes, LaunchGoes, ReapGoes, ReapPlainGoes, JudgeGoes, SettleGoes, PublishGoes,
       ProgressFaultGoes DEF JobStays, JobSets, Enters
  <2>2. UNCHANGED <<ctl, src>> /\ UNCHANGED <<pend, accepted>>
    BY <1>2 DEF PrepareAudio, RetainParameters, NoMaterial, CommitMaterial, HandOff, PrepareTraining, SetQueued,
       StartStep, Register, TakeGpu, WaitGpu, ReuseStage, Launch, Reap, ReapPlain, Judge, Settle, Publish,
       ProgressFault, durable
  <2>3. \/ UNCHANGED rec \/ Recipe(job.task) \/ \E s : Writes(job.task, s)
    <3>1. CASE PrepareAudio \/ CommitMaterial \/ PrepareTraining \/ SetQueued \/ StartStep
      BY <1>0, <3>1, PrepareAudioGoes, CommitMaterialGoes, PrepareTrainingGoes, SetQueuedGoes, StartStepGoes
    <3>2. CASE \/ RetainParameters \/ NoMaterial \/ HandOff \/ Register \/ TakeGpu \/ WaitGpu \/ ReuseStage
               \/ Launch \/ Reap \/ ReapPlain \/ Judge \/ Settle \/ Publish \/ ProgressFault
      BY <3>2 DEF RetainParameters, NoMaterial, HandOff, Register, TakeGpu, WaitGpu, ReuseStage, Launch, Reap,
         ReapPlain, Judge, Settle, Publish, ProgressFault, durable
    <3> QED BY <1>2, <3>1, <3>2
  <2>4. \A t \in Tasks : rec'[t].att = rec[t].att BY <2>3 DEF Recipe, Writes
  <2>5. Onward BY <1>2, OnwardSteps
  <2> QED BY <2>1, <2>2, <2>4, <2>5, ChannelsStep
<1>3. ASSUME NEW stage, NEW next, Boundary(stage, next),
             \/ own.pc = "check" /\ next = "stage"
             \/ /\ own.pc = "stage" /\ next \in {"run", "create"}
                /\ next = "create" <=> job.kind = "plain" /\ own.k = 2
             \/ own.pc = "seal" /\ next = "publish"
      PROVE Channels'
  <2>1. Onward BY <1>3, OnwardSteps
  <2>2. Bounds(stage, next) BY <1>0, <1>3, BoundaryGoes
  <2>3. job'.cerr = job.cerr /\ (UNCHANGED rec \/ Writes(job.task, "running"))
    BY <2>2 DEF Bounds, JobStays, JobSets, Enters
  <2>4. \A t \in Tasks : rec'[t].att = rec[t].att BY <2>3 DEF Writes
  <2>5. UNCHANGED <<ctl, src>> /\ UNCHANGED <<pend, accepted>> BY <1>3 DEF Boundary
  <2> QED BY <2>1, <2>3, <2>4, <2>5, ChannelsStep
<1>4. ASSUME Aside \/ \E p \in procs : ChildExit(p) PROVE Channels'
  <2>1. Onward BY <1>4, OnwardSteps
  <2>2. job'.cerr = job.cerr BY <1>0, <1>4, AsideGoes, ChildExitGoes DEF JobStays, JobSets
  <2>3. UNCHANGED <<ctl, src>> /\ UNCHANGED <<pend, accepted>> /\ UNCHANGED rec
    BY <1>4 DEF Aside, SyncRequest, StepTail, ChildExit, vars, memory, durable
  <2> QED BY <2>1, <2>2, <2>3, ChannelsStep
<1>5. CASE Pause \/ Cancel
  <2>1. Onward /\ job.running BY <1>0, <1>5, OnwardSteps, PauseGoes, CancelGoes
  <2>2. job'.cerr = job.cerr /\ (UNCHANGED rec \/ Writes(job.task, "pause_requested"))
    BY <1>0, <1>5, PauseGoes, CancelGoes DEF JobSets, Cancel, durable
  <2>3. \A t \in Tasks : rec'[t].att = rec[t].att BY <2>2 DEF Writes
  <2>4. UNCHANGED <<ctl, src>> /\ accepted' = accepted \cup {<<job.task, job.att>>}
    BY <1>5 DEF Pause, Cancel, durable
  <2>5. pend' \in {Request("pause"), Request("cancel")} BY <1>5 DEF Pause, Cancel
  <2>6. \A d \in pend' : d \in pend \/ (d.task = job.task /\ d.att = job.att /\ d.st = "deliver")
    BY <2>5 DEF Request
  <2> QED BY <2>1, <2>2, <2>3, <2>4, <2>6, ChannelsStep
<1>6. ASSUME NEW d \in pend, Report(d) PROVE Channels'
  <2>1. Onward BY <1>6, OnwardSteps
  <2>2. UNCHANGED <<ctl, src>> /\ UNCHANGED <<rec, accepted>> /\ pend' \subseteq pend /\ d.st = "report"
    BY <1>6 DEF Report, durable
  <2>3. d \in PendType BY <1>0, Typed DEF Rest
  <2>4. d.task \in Tasks /\ src[d.task][d.att] \in {"bad", "closedbad"}
    BY <1>0, <2>2, <2>3 DEF Channels, HandlersAreOwn, PendType
  <2>5. job'.cerr => job.cerr \/ SameExecution(d) BY <1>0, <1>6, ReportGoes DEF JobStays, JobSets
  <2>6. job'.cerr => job.cerr \/ (job.task \in Tasks /\ src[job.task][job.att] \in {"bad", "closedbad"})
    BY <2>4, <2>5 DEF SameExecution
  <2> QED BY <2>1, <2>2, <2>6, ChannelsStep
<1>7. CASE CreateChannel
  <2>1. own.pc = "create" /\ JobStays /\ KeepsSlot /\ UNCHANGED <<rec, accepted>> /\ UNCHANGED pend
    BY <1>0, <1>7, CreateChannelGoes, JobKeeps DEF CreateChannel
  <2>2. ctl[job.task][job.att] = "absent" /\ src[job.task][job.att] = "none"
    BY <1>0, <1>1, <2>1 DEF Channels, SlotChannel, BeforeChannel
  <2>3. CASE Unwinds("error") /\ UNCHANGED <<ctl, src>>
    <3>1. own'.pc = "finish" BY <1>1, <2>1, <2>2, <2>3 DEF Unwinds, ChannelOpen, Moves
    <3>2. Onward BY <2>1, <3>1 DEF Onward, BeforeChannel, Open, PlainIsLate
    <3>3. job'.cerr = job.cerr BY <2>1 DEF JobStays, JobSets
    <3> QED BY <2>1, <2>3, <3>2, <3>3, ChannelsStep
  <2>4. CASE /\ Jumps("register")
             /\ ctl' = [ctl EXCEPT ![own.task][own.att] = "0"]
             /\ src' = [src EXCEPT ![own.task][own.att] = "open"]
    <3>1. Puts(ctl, ctl', job.task, job.att, "0") /\ Puts(src, src', job.task, job.att, "open")
      BY <1>0, <1>1, <2>1, <2>4, ChannelPuts
    <3>2. job.running /\ job.task \in Tasks /\ job.att \in Attempts /\ own'.pc = "register" /\ own'.k = own.k
          /\ job'.cerr = job.cerr
      BY <1>1, <2>1, <2>4 DEF Jumps, Moves, JobStays, JobSets
    <3>3. ChannelsArePast' BY <1>0, <1>1, <1>n, <2>1, <3>1, <3>2 DEF Channels, ChannelsArePast, Puts
    <3>4. SlotChannel' BY <2>1, <3>1, <3>2 DEF SlotChannel, BeforeChannel, KeepsSlot, Puts
    <3>5. NoLateSignal' BY <2>1, <3>1, <3>2 DEF NoLateSignal, KeepsSlot, Puts
    <3>6. PlainIsLate' BY <3>2 DEF PlainIsLate
    <3>7. ~job.cerr BY <1>0, <2>2 DEF Channels, ErrorIsOwn
    <3>8. ErrorHasTask' /\ ErrorIsOwn' BY <2>1, <3>2, <3>7 DEF ErrorHasTask, ErrorIsOwn
    <3>9. \A d \in pend : d.st = "report" => ~(d.task = job.task /\ d.att = job.att)
      BY <1>0, <2>2 DEF Channels, HandlersAreOwn
    <3>10. \A d \in pend : d.task \in Tasks /\ d.att \in Attempts BY <1>0, Typed DEF Rest, PendType
    <3>11. HandlersAreOwn' BY <1>0, <2>1, <3>1, <3>9, <3>10 DEF Channels, HandlersAreOwn, Puts
    <3> QED BY <3>3, <3>4, <3>5, <3>6, <3>8, <3>11 DEF Channels
  <2> QED BY <1>0, <1>7, <2>3, <2>4, CreateChannelGoes
<1>8. CASE CloseChannel
  <2>1. own.pc = "close" /\ JobStays /\ KeepsSlot /\ Jumps("retire") BY <1>0, <1>8, CloseChannelGoes, JobKeeps
  <2>2. UNCHANGED ctl /\ UNCHANGED <<rec, accepted>> /\ UNCHANGED pend BY <1>8 DEF CloseChannel, durable
  <2>3. PICK s \in {"closedbad", "closed"} :
          /\ src' = [src EXCEPT ![own.task][own.att] = s]
          /\ s = "closed" => src[own.task][own.att] = "open"
    BY <1>8 DEF CloseChannel
  <2>4. Puts(src, src', job.task, job.att, s) /\ (s = "closed" => src[job.task][job.att] = "open")
    BY <1>0, <1>1, <2>1, <2>3, ChannelPuts
  <2>5. job.running /\ job.task \in Tasks /\ job.att \in Attempts /\ own'.pc = "retire" /\ own'.k = own.k
        /\ job'.cerr = job.cerr
    BY <1>1, <2>1 DEF Jumps, Moves, JobStays, JobSets
  <2>6. ChannelsArePast' BY <1>0, <1>1, <1>n, <2>1, <2>2, <2>4, <2>5 DEF Channels, ChannelsArePast, Puts
  <2>7. SlotChannel' /\ NoLateSignal' /\ PlainIsLate'
    BY <1>0, <2>1, <2>2, <2>5 DEF Channels, SlotChannel, NoLateSignal, PlainIsLate, BeforeChannel, KeepsSlot
  <2>8. ErrorHasTask' /\ ErrorIsOwn'
    BY <1>0, <2>1, <2>4, <2>5 DEF Channels, ErrorHasTask, ErrorIsOwn, KeepsSlot, Puts
  <2>9. \A d \in pend : d.task \in Tasks /\ d.att \in Attempts BY <1>0, Typed DEF Rest, PendType
  <2>10. HandlersAreOwn' BY <1>0, <2>2, <2>4, <2>9 DEF Channels, HandlersAreOwn, Puts
  <2> QED BY <2>6, <2>7, <2>8, <2>10 DEF Channels
<1>9. CASE Retire
  <2>1. /\ own.pc = "retire" /\ KeepsSlot
        /\ job'.cerr <=> job.cerr \/ src[own.task][own.att] = "closedbad"
        /\ own'.pc \in {"judge", "settle", "finish"} /\ own'.k = own.k
    BY <1>0, <1>9, RetireGoes, JobKeeps DEF JobSets, Jumps, Moves
  <2>2. UNCHANGED <<ctl, src>> /\ UNCHANGED <<rec, accepted, pend>> BY <1>9 DEF Retire, durable
  <2>3. Onward BY <1>0, <2>1 DEF Channels, PlainIsLate, Onward, BeforeChannel, Open, KeepsSlot
  <2> QED BY <1>1, <2>1, <2>2, <2>3, ChannelsStep
<1>10. ASSUME NEW d \in pend, Deliver(d) PROVE Channels'
  <2>1. JobStays /\ KeepsSlot /\ Onward /\ UNCHANGED <<rec, accepted>>
    BY <1>0, <1>10, DeliverGoes, JobKeeps, OnwardSteps DEF Deliver
  <2> DEFINE t == d.task
             a == d.att
             e == [d EXCEPT !.st = "report"]
  <2>2. t \in Tasks /\ a \in Attempts /\ <<t, a>> \in accepted /\ d.st = "deliver" /\ d \in PendType
    BY <1>0, <1>10, Typed DEF Rest, PendType, Channels, HandlersAreOwn, Deliver
  <2>3. e.task = t /\ e.att = a /\ e.st = "report" BY <2>2 DEF PendType
  <2>4. \/ /\ src[t][a] = "open" /\ ctl' = [ctl EXCEPT ![t][a] = "1"]
           /\ pend' \subseteq pend /\ UNCHANGED src
        \/ /\ src[t][a] = "open" /\ UNCHANGED ctl
           /\ src' = [src EXCEPT ![t][a] = "bad"] /\ pend' \subseteq pend \cup {e}
        \/ /\ UNCHANGED <<ctl, src>>
           /\ pend' \subseteq pend \cup (IF src[t][a] \in {"bad", "closedbad"} THEN {e} ELSE {})
    BY <1>10 DEF Deliver, Target
  <2> HIDE DEF e
  <2>5. /\ job'.cerr = job.cerr /\ PlainIsLate' BY <2>1 DEF JobStays, JobSets, Onward
  <2>6. CASE /\ UNCHANGED <<ctl, src>>
             /\ pend' \subseteq pend \cup (IF src[t][a] \in {"bad", "closedbad"} THEN {e} ELSE {})
    BY <2>1, <2>2, <2>3, <2>5, <2>6, ChannelsStep
  <2>10. a <= rec[t].att BY <1>n, <2>2 DEF TaskInv, Results, AcceptedIsPast
  <2>7. CASE /\ src[t][a] = "open" /\ ctl' = [ctl EXCEPT ![t][a] = "1"]
             /\ pend' \subseteq pend /\ UNCHANGED src
    <3>1. Puts(ctl, ctl', t, a, "1") BY <1>0, <2>2, <2>7, ChannelPuts
    <3>2. ChannelsArePast' BY <1>0, <2>1, <2>2, <2>7, <2>10, <3>1 DEF Channels, ChannelsArePast, Puts
    <3>3. job.running => job.task \in Tasks /\ job.att \in Attempts BY <1>1
    <3>4. SlotChannel'
      <4>1. job.running /\ BeforeChannel => ~(job.task = t /\ job.att = a)
        BY <1>0, <2>7 DEF Channels, SlotChannel
      <4> QED BY <1>0, <2>1, <2>7, <3>1, <3>3, <4>1 DEF Channels, SlotChannel, Onward, KeepsSlot, Open, Puts
    <3>5. NoLateSignal' BY <1>0, <2>1, <2>2, <3>1, <3>3 DEF Channels, NoLateSignal, KeepsSlot, Puts
    <3>6. HandlersAreOwn' BY <1>0, <2>1, <2>7 DEF Channels, HandlersAreOwn
    <3>7. ErrorHasTask' /\ ErrorIsOwn'
      BY <1>0, <2>1, <2>5, <2>7 DEF Channels, ErrorHasTask, ErrorIsOwn, KeepsSlot
    <3> QED BY <2>5, <3>2, <3>4, <3>5, <3>6, <3>7 DEF Channels
  <2>8. CASE /\ src[t][a] = "open" /\ UNCHANGED ctl
             /\ src' = [src EXCEPT ![t][a] = "bad"] /\ pend' \subseteq pend \cup {e}
    <3>1. Puts(src, src', t, a, "bad") BY <1>0, <2>2, <2>8, ChannelPuts
    <3>2. ChannelsArePast' BY <1>0, <2>1, <2>2, <2>8, <2>10, <3>1 DEF Channels, ChannelsArePast, Puts
    <3>3. job.running => job.task \in Tasks /\ job.att \in Attempts BY <1>1
    <3>4. SlotChannel'
      <4>1. job.running /\ BeforeChannel => ~(job.task = t /\ job.att = a)
        BY <1>0, <2>8 DEF Channels, SlotChannel
      <4> QED BY <1>0, <2>1, <2>8, <3>1, <3>3, <4>1 DEF Channels, SlotChannel, Onward, KeepsSlot, Open, Puts
    <3>5. NoLateSignal' BY <1>0, <2>1, <2>8, <3>3 DEF Channels, NoLateSignal, KeepsSlot
    <3>6. \A h \in pend : h.task \in Tasks /\ h.att \in Attempts BY <1>0, Typed DEF Rest, PendType
    <3>8. \A h \in pend : <<h.task, h.att>> \in accepted /\ (h.st = "report" => src'[h.task][h.att] \in {"bad", "closedbad"})
      BY <1>0, <3>1, <3>6 DEF Channels, HandlersAreOwn, Puts
    <3>9. HandlersAreOwn' BY <2>1, <2>2, <2>3, <2>8, <3>1, <3>8 DEF HandlersAreOwn, Puts
    <3>10. job.cerr => job.task \in Tasks /\ job.att \in Attempts
      BY <1>0, Ticket DEF Channels, ErrorHasTask, JobType
    <3>7. ErrorHasTask' /\ ErrorIsOwn'
      BY <1>0, <2>1, <2>5, <3>1, <3>10 DEF Channels, ErrorHasTask, ErrorIsOwn, KeepsSlot, Puts
    <3> QED BY <2>5, <3>2, <3>4, <3>5, <3>9, <3>7 DEF Channels
  <2> QED BY <2>4, <2>6, <2>7, <2>8
<1>11. CASE GuardStorage
  <2>1. /\ own.pc \in {"gpu", "check", "stage", "seal", "wait"} /\ PauseAllowed /\ KeepsSlot /\ job'.pause
        /\ Writes(job.task, "pause_requested") /\ Onward
    BY <1>0, <1>11, GuardStorageGoes, JobKeeps, OnwardSteps DEF JobSets
  <2>2. UNCHANGED <<pend, accepted>> BY <1>11 DEF GuardStorage
  <2>3. job.running /\ job.task \in Tasks /\ job.att \in Attempts /\ own.task = job.task /\ own.att = job.att
        /\ rec[job.task].att = job.att /\ job.att \in Nat
    BY <1>1, <1>n, <2>1
  <2>4. \A t \in Tasks : rec'[t].att = rec[t].att BY <2>1 DEF Writes
  <2>5. Recoverable(job.kind) BY <1>0, <2>1, <2>3 DEF PauseAllowed, Pausable, Flow, RequestsFit, Recoverable
  <2>6. ~BeforeChannel BY <2>1, <2>5 DEF BeforeChannel, Recoverable, Audio
  <2>7. ~BeforeChannel' /\ PlainIsLate' /\ NoLateSignal' BY <2>1, <2>3, <2>6 DEF Onward, NoLateSignal
  <2>8. CASE job'.cerr = job.cerr /\ UNCHANGED <<ctl, src>> BY <2>1, <2>2, <2>4, <2>8, ChannelsStep
  <2>9. CASE /\ job'.cerr = job.cerr /\ UNCHANGED src
             /\ ctl' = [ctl EXCEPT ![own.task][own.att] = "1"]
    <3>1. Puts(ctl, ctl', job.task, job.att, "1") BY <1>0, <2>3, <2>9, ChannelPuts
    <3>2. ChannelsArePast' BY <1>0, <2>3, <2>4, <2>9, <3>1 DEF Channels, ChannelsArePast, Puts
    <3>3. SlotChannel' BY <2>1, <2>7, <3>1 DEF SlotChannel, KeepsSlot, Puts
    <3>4. HandlersAreOwn' /\ ErrorHasTask' /\ ErrorIsOwn'
      BY <1>0, <2>1, <2>2, <2>9 DEF Channels, HandlersAreOwn, ErrorHasTask, ErrorIsOwn, KeepsSlot
    <3> QED BY <2>7, <3>2, <3>3, <3>4 DEF Channels
  <2>10. CASE UNCHANGED ctl /\ src' = [src EXCEPT ![own.task][own.att] = "bad"]
              /\ (src[own.task][own.att] = "bad" \/ ctl[own.task][own.att] = "0")
    <3>1. Puts(src, src', job.task, job.att, "bad") BY <1>0, <2>3, <2>10, ChannelPuts
    <3>2. ChannelsArePast' BY <1>0, <2>3, <2>4, <2>10, <3>1 DEF Channels, ChannelsArePast, Puts
    <3>3. SlotChannel' BY <1>0, <2>1, <2>3, <2>7, <2>10 DEF Channels, SlotChannel, KeepsSlot, Onward, Open
    <3>4. \A d \in pend : d.task \in Tasks /\ d.att \in Attempts BY <1>0, Typed DEF Rest, PendType
    <3>5. HandlersAreOwn' BY <1>0, <2>2, <3>1, <3>4 DEF Channels, HandlersAreOwn, Puts
    <3>6. ErrorHasTask' /\ ErrorIsOwn' BY <2>1, <2>3, <3>1 DEF ErrorHasTask, ErrorIsOwn, KeepsSlot, Puts
    <3> QED BY <2>7, <3>2, <3>3, <3>5, <3>6 DEF Channels
  <2> QED BY <1>0, <1>11, <2>8, <2>9, <2>10, GuardStorageGoes DEF JobSets
<1>12. CASE FinishAudio \/ FinishTraining \/ FinishStep
  <2>1. /\ ~job'.running /\ job'.cerr = job.cerr /\ job'.task = job.task /\ job'.att = job.att
        /\ \E s : Writes(job.task, s)
    BY <1>0, <1>12, FinishGoes DEF Finishes
  <2>2. UNCHANGED ctl /\ UNCHANGED src /\ UNCHANGED <<pend, accepted>>
    BY <1>12 DEF FinishAudio, FinishTraining, FinishStep
  <2>3. \A t \in Tasks : rec'[t].att = rec[t].att BY <2>1 DEF Writes
  <2> QED BY <2>1, <2>2, <2>3, ChannelsRest
<1>13. ASSUME NEW t \in Tasks, NEW k \in Kinds, ReserveJob(t, k) PROVE Channels'
  <2> DEFINE r == [NoRecord EXCEPT !.state = "queued", !.att = 1, !.kind = k]
  <2>1. /\ ~job.running /\ rec[t].state = "none" /\ \A u \in Tasks : u # t => rec'[u] = rec[u]
        /\ \/ UNCHANGED <<own, job>> /\ (UNCHANGED rec \/ rec'[t] = r)
           \/ Begins(t, 1, "prepare", "none", k, FALSE) /\ rec'[t] = r
    BY <1>0, <1>13, ReserveJobGoes
  <2>2. r.att = 1 /\ rec[t].att = 0 BY <2>1 DEF NoRecord, TaskInv, Recs, NoneIsBlank
  <2>3. UNCHANGED <<ctl, src, pend, accepted>> /\ 1 \in Attempts
    BY <1>13, BoundsAssumption DEF ReserveJob, Attempts
  <2> HIDE DEF r
  <2> QED BY <1>n, <2>1, <2>2, <2>3, ChannelsBegin DEF Begins
<1>14. ASSUME NEW t \in Tasks, Resume(t) PROVE Channels'
  <2>1. /\ ~job.running /\ rec[t].att < MaxAttempt /\ \A u \in Tasks : u # t => rec'[u] = rec[u]
        /\ \/ UNCHANGED <<own, job>> /\ (UNCHANGED rec \/ NextTry(t))
           \/ NextTry(t) /\ \E pc \in {"create", "finish"}, out \in {"none", "error"} :
                              Begins(t, NextAttempt(t), pc, out, rec[t].kind, rec[t].kind = "full")
    BY <1>0, <1>14, ResumeGoes
  <2>2. UNCHANGED <<ctl, src, pend, accepted>> BY <1>14 DEF Resume
  <2>3. NextAttempt(t) > rec[t].att /\ NextAttempt(t) \in Nat /\ NextAttempt(t) \in Attempts
    BY <1>n, <2>1, BoundsAssumption DEF NextAttempt, Attempts
  <2>4. NextTry(t) => rec'[t].att = NextAttempt(t) BY DEF NextTry
  <2> QED BY <1>n, <2>1, <2>2, <2>3, <2>4, ChannelsBegin DEF Begins
<1>15. ASSUME NEW t \in Tasks, Cleanup(t) PROVE Channels'
  <2>1. ~job'.running /\ job'.cerr = job.cerr /\ job'.task = job.task /\ job'.att = job.att
    BY <1>0, <1>15, CleanupGoes DEF JobStays, JobSets
  <2>2. UNCHANGED ctl /\ UNCHANGED src /\ UNCHANGED <<pend, accepted>> BY <1>15 DEF Cleanup
  <2>3. \A u \in Tasks : rec'[u].att = rec[u].att BY <1>0, <1>15, CleanupGoes
  <2> QED BY <2>1, <2>2, <2>3, ChannelsRest
<1>16. CASE Crash
  <2>1. ~job'.running /\ ~job'.cerr /\ pend' = {} /\ src' = NoSources /\ UNCHANGED <<rec, ctl, accepted>>
    BY <1>16, CrashGoes
  <2>2. \A t \in Tasks, a \in Attempts : src'[t][a] = "none" BY <2>1 DEF NoSources
  <2> QED BY <1>0, <2>1, <2>2 DEF Channels, PlainIsLate, ErrorHasTask, ErrorIsOwn, ChannelsArePast, SlotChannel,
         HandlersAreOwn, NoLateSignal
<1>17. CASE Restart
  <2>1. /\ ~job'.running /\ job'.cerr = job.cerr /\ job'.task = job.task /\ job'.att = job.att
        /\ UNCHANGED src /\ UNCHANGED <<pend, accepted>>
    BY <1>0, <1>17, RestartGoes DEF JobStays, JobSets
  <2>2. \A t \in Tasks : rec'[t].att = rec[t].att BY <1>17, RestartRecords
  <2>3. CASE UNCHANGED ctl BY <2>1, <2>2, <2>3, ChannelsRest
  <2>4. CASE ~UNCHANGED ctl
    <3>1. PICK t \in Tasks : SignalInterrupted(t)
      BY <1>17, <2>4 DEF Restart, Start, MarkInterrupted, MarkingDone, Ready, durable
    <3>2. ctl[t][rec[t].att] # "absent" /\ ctl' = [ctl EXCEPT ![t][rec[t].att] = "1"]
      BY <2>4, <3>1 DEF SignalInterrupted
    <3>3. ctl \in [Tasks -> [Attempts -> {"absent", "0", "1"}]] BY <1>0, Typed DEF Rest, CtlType
    <3>4. \A u \in Tasks, b \in Attempts : ctl'[u][b] # "absent" => ctl[u][b] # "absent" BY <3>2, <3>3
    <3>5. ChannelsArePast' BY <1>0, <2>1, <2>2, <3>4 DEF Channels, ChannelsArePast
    <3> QED BY <1>0, <2>1, <3>5 DEF Channels, PlainIsLate, ErrorHasTask, ErrorIsOwn, SlotChannel,
         HandlersAreOwn, NoLateSignal
  <2> QED BY <2>3, <2>4
<1> QED BY <1>2, <1>3, <1>4, <1>5, <1>6, <1>7, <1>8, <1>9, <1>10, <1>11, <1>12, <1>13, <1>14, <1>15, <1>16,
     <1>17, EveryStep
----------------------------------------
(* Children. *)

\* A record only moves on, and only a restart makes it interrupted.
Grows(t) ==
    /\ rec'[t].att >= rec[t].att
    /\ rec'[t].kind = rec[t].kind \/ rec[t].att = 0
    /\ rec[t].recov => rec'[t].recov
    /\ rec'[t].state = "interrupted" =>
         rec[t].state = "interrupted" /\ rec'[t].att = rec[t].att /\ (rec'[t].noted <=> rec[t].noted)
\* A control file that exists stays, and a set one stays set.
Stays(f, g) ==
    \A t \in Tasks, a \in Attempts : /\ f[t][a] # "absent" => g[t][a] # "absent"
                                     /\ f[t][a] = "1" => g[t][a] = "1"
NoChild == [task |-> NoTask, att |-> 0]

\* Saves of active or settled states let a record grow.
LEMMA WritesGrow ==
    ASSUME IndInv
    PROVE  /\ \A t \in Tasks : rec[t].att >= rec[t].att
           /\ \A s : (UNCHANGED rec \/ Recipe(job.task) \/ (s # "interrupted" /\ Writes(job.task, s)))
                => \A t \in Tasks : Grows(t)
           /\ UNCHANGED ctl => Stays(ctl, ctl')
           /\ \A t \in Tasks, a \in Attempts :
                \/ ctl' = [ctl EXCEPT ![t][a] = "1"]
                \/ ctl[t][a] = "absent" /\ ctl' = [ctl EXCEPT ![t][a] = "0"]
                => Stays(ctl, ctl')
<1>1. \A t \in Tasks : rec[t].att >= rec[t].att BY Numbers
<1>2. ASSUME NEW s, UNCHANGED rec \/ Recipe(job.task) \/ (s # "interrupted" /\ Writes(job.task, s)),
             NEW t \in Tasks
      PROVE  Grows(t)
  <2>1. /\ rec'[t].att = rec[t].att /\ rec'[t].kind = rec[t].kind /\ (rec[t].recov => rec'[t].recov)
        /\ rec'[t].state = "interrupted" => rec[t].state = "interrupted"
        /\ rec'[t].noted <=> rec[t].noted
    BY <1>2 DEF Recipe, Writes
  <2> QED BY <1>1, <2>1 DEF Grows
<1>3. UNCHANGED ctl => Stays(ctl, ctl') BY DEF Stays
<1>4. ASSUME NEW t \in Tasks, NEW a \in Attempts,
             \/ ctl' = [ctl EXCEPT ![t][a] = "1"]
             \/ ctl[t][a] = "absent" /\ ctl' = [ctl EXCEPT ![t][a] = "0"]
      PROVE  Stays(ctl, ctl')
  BY <1>4, ChannelPuts DEF Puts, Stays
<1> QED BY <1>1, <1>2, <1>3, <1>4

\* A step that starts no child of a task, and lets the records grow.
LEMMA ChildrenStep ==
    ASSUME TaskInv, IndInv', UNCHANGED phase, UNCHANGED todo, phase = "up" \/ UNCHANGED rec,
           procs' \subseteq procs \cup {NoChild},
           \A t \in Tasks : Grows(t), Stays(ctl, ctl')
    PROVE  Children'
<1>1. Children /\ procs \subseteq ChildType /\ \A t \in Tasks : rec[t].att \in Nat /\ rec'[t].att >= rec[t].att
  BY Typed, Numbers DEF TaskInv, Rest, Grows
<1>5. rec' \in [Tasks -> RecordType] BY DEF IndInv, TypeOK
<1>2. TodoIsLeft' BY <1>1 DEF Children, TodoIsLeft
<1>3. ASSUME NEW p \in procs', p.task # NoTask
      PROVE  /\ p.att \in Attempts /\ p.att <= rec'[p.task].att
             /\ Recoverable(rec'[p.task].kind) => rec'[p.task].recov /\ ctl'[p.task][p.att] # "absent"
             /\ phase' \in {"signalling", "up"} /\ Left(p)' /\ rec'[p.task].kind \in {"audio", "full"} =>
                  (phase' = "signalling" /\ p.task \in todo') \/ ctl'[p.task][p.att] = "1" \/ rec'[p.task].noted
  <2>1. p \in procs /\ p.task \in Tasks BY <1>1, <1>3 DEF NoChild, ChildType
  <2>2. /\ p.att \in Attempts /\ p.att <= rec[p.task].att
        /\ Recoverable(rec[p.task].kind) => rec[p.task].recov /\ ctl[p.task][p.att] # "absent"
        /\ phase \in {"signalling", "up"} /\ Left(p) /\ rec[p.task].kind \in {"audio", "full"} =>
             (phase = "signalling" /\ p.task \in todo) \/ ctl[p.task][p.att] = "1" \/ rec[p.task].noted
    BY <1>1, <1>3, <2>1 DEF Children, ChildrenAreTold
  <2>3. p.att \in Nat /\ p.att > 0 BY <2>2, BoundsAssumption DEF Attempts
  <2>4. rec[p.task].att \in Nat /\ rec'[p.task].att >= rec[p.task].att /\ Grows(p.task) BY <1>1, <2>1
  <2>5. rec'[p.task].att \in Int BY <1>5, <2>1 DEF RecordType
  <2>6. p.att <= rec'[p.task].att /\ rec[p.task].att # 0 BY <2>2, <2>3, <2>4, <2>5
  <2>7. rec'[p.task].kind = rec[p.task].kind BY <2>4, <2>6 DEF Grows
  <2>9. p.task \in Tasks /\ p.att \in Attempts BY <2>1, <2>2
  <2>8. /\ ctl[p.task][p.att] # "absent" => ctl'[p.task][p.att] # "absent"
        /\ ctl[p.task][p.att] = "1" => ctl'[p.task][p.att] = "1"
    BY <2>9 DEF Stays
  <2> QED BY <2>1, <2>2, <2>4, <2>6, <2>7, <2>8 DEF Left, Grows
<1>4. ChildrenAreTold' BY <1>3 DEF ChildrenAreTold
<1> QED BY <1>2, <1>4 DEF Children

\* Every step keeps what is known about live children.
LEMMA ChildrenNext == ASSUME TaskInv, IndInv', [Next]_vars PROVE Children'
<1>0. IndInv /\ Flow /\ Recs /\ Results /\ Channels /\ Children BY DEF TaskInv
<1>1. own.pc # "idle" => phase = "up" /\ job.running /\ own.task = job.task /\ own.att = job.att
                         /\ job.task \in Tasks /\ job.att \in Attempts /\ rec[job.task].att = job.att
  BY <1>0, Ticket DEF IndInv, Slot
<1>2. CASE \/ PrepareAudio \/ CommitMaterial \/ PrepareTraining \/ SetQueued \/ StartStep
  <2>1. own.pc # "idle" /\ \E s : UNCHANGED rec \/ Recipe(job.task) \/ (s # "interrupted" /\ Writes(job.task, s))
    <3>1. CASE PrepareAudio \/ PrepareTraining BY <1>0, <3>1, PrepareAudioGoes, PrepareTrainingGoes
    <3>2. CASE CommitMaterial \/ StartStep BY <1>0, <3>2, CommitMaterialGoes, StartStepGoes
    <3>3. CASE SetQueued BY <1>0, <3>3, SetQueuedGoes DEF QueuedState
    <3> QED BY <1>2, <3>1, <3>2, <3>3
  <2>2. UNCHANGED phase /\ UNCHANGED todo /\ UNCHANGED procs /\ UNCHANGED ctl
    BY <1>2 DEF PrepareAudio, CommitMaterial, PrepareTraining, SetQueued, StartStep
  <2> QED BY <1>0, <1>1, <2>1, <2>2, WritesGrow, ChildrenStep
<1>3. CASE \/ RetainParameters \/ NoMaterial \/ HandOff \/ Register \/ TakeGpu \/ WaitGpu \/ ReuseStage
           \/ Reap \/ ReapPlain \/ CloseChannel \/ Retire \/ Judge \/ Settle \/ Publish \/ ProgressFault \/ Cancel
  <2>1. UNCHANGED phase /\ UNCHANGED todo /\ UNCHANGED procs /\ UNCHANGED ctl /\ UNCHANGED rec
    BY <1>3 DEF RetainParameters, NoMaterial, HandOff, Register, TakeGpu, WaitGpu, ReuseStage, Reap,
       ReapPlain, CloseChannel, Retire, Judge, Settle, Publish, ProgressFault, Cancel, durable
  <2> QED BY <1>0, <2>1, WritesGrow, ChildrenStep
<1>4. ASSUME NEW stage, NEW next, Boundary(stage, next), own.pc # "idle" PROVE Children'
  <2>1. UNCHANGED rec \/ Writes(job.task, "running") BY <1>0, <1>4, BoundaryGoes DEF Bounds
  <2>2. UNCHANGED phase /\ UNCHANGED todo /\ UNCHANGED procs /\ UNCHANGED ctl BY <1>4 DEF Boundary
  <2>3. "running" # "interrupted" OBVIOUS
  <2> QED BY <1>0, <1>1, <1>4, <2>1, <2>2, <2>3, WritesGrow, ChildrenStep
<1>5. CASE CreateChannel
  <2>1. own.pc = "create" /\ UNCHANGED phase /\ UNCHANGED todo /\ UNCHANGED procs /\ UNCHANGED rec
    BY <1>5 DEF CreateChannel, AtPc
  <2>2. \/ ctl[own.task][own.att] = "absent" /\ ctl' = [ctl EXCEPT ![own.task][own.att] = "0"]
        \/ UNCHANGED ctl
    BY <1>5 DEF CreateChannel
  <2>3. Stays(ctl, ctl') BY <1>0, <1>1, <2>1, <2>2, WritesGrow
  <2> QED BY <1>0, <2>1, <2>3, WritesGrow, ChildrenStep
<1>6. CASE GuardStorage
  <2>1. own.pc # "idle" /\ Writes(job.task, "pause_requested")
        /\ (UNCHANGED ctl \/ ctl' = [ctl EXCEPT ![own.task][own.att] = "1"])
    BY <1>0, <1>6, GuardStorageGoes
  <2>2. UNCHANGED phase /\ UNCHANGED todo /\ UNCHANGED procs BY <1>6 DEF GuardStorage
  <2>3. "pause_requested" # "interrupted" OBVIOUS
  <2>4. Stays(ctl, ctl') BY <1>0, <1>1, <2>1, WritesGrow
  <2> QED BY <1>0, <1>1, <2>1, <2>2, <2>3, <2>4, WritesGrow, ChildrenStep
<1>7. CASE Pause
  <2>1. phase = "up" /\ UNCHANGED phase /\ UNCHANGED todo /\ UNCHANGED procs /\ UNCHANGED ctl
    BY <1>7 DEF Pause
  <2>2. Writes(job.task, "pause_requested") /\ "pause_requested" # "interrupted" BY <1>0, <1>7, PauseGoes
  <2> QED BY <1>0, <2>1, <2>2, WritesGrow, ChildrenStep
<1>8. ASSUME NEW d \in pend, Deliver(d) PROVE Children'
  <2>1. UNCHANGED phase /\ UNCHANGED todo /\ UNCHANGED procs /\ UNCHANGED rec
        /\ (UNCHANGED ctl \/ ctl' = [ctl EXCEPT ![d.task][d.att] = "1"])
    BY <1>8 DEF Deliver, Target
  <2>2. d.task \in Tasks /\ d.att \in Attempts BY <1>0, Typed DEF Rest, PendType
  <2>3. Stays(ctl, ctl') BY <1>0, <2>1, <2>2, WritesGrow
  <2> QED BY <1>0, <2>1, <2>3, WritesGrow, ChildrenStep
<1>9. ASSUME Aside \/ (\E d \in pend : Report(d)) \/ \E p \in procs : ChildExit(p) PROVE Children'
  BY <1>9, <1>0, WritesGrow, ChildrenStep DEF Aside, SyncRequest, StepTail, ChildExit, Report, vars, memory, durable, NoChild
<1>10. CASE FinishAudio \/ FinishTraining \/ FinishStep
  <2>1. own.pc # "idle" /\ \E s : s # "interrupted" /\ Writes(job.task, s)
    BY <1>0, <1>10, FinishGoes DEF Finishes
  <2>2. UNCHANGED phase /\ UNCHANGED todo /\ UNCHANGED procs /\ UNCHANGED ctl
    BY <1>10 DEF FinishAudio, FinishTraining, FinishStep
  <2> QED BY <1>0, <1>1, <2>1, <2>2, WritesGrow, ChildrenStep
<1>11. ASSUME NEW t \in Tasks, NEW k \in Kinds, ReserveJob(t, k) PROVE Children'
  <2> DEFINE r == [NoRecord EXCEPT !.state = "queued", !.att = 1, !.kind = k]
  <2>1. /\ rec[t].state = "none" /\ \A u \in Tasks : u # t => rec'[u] = rec[u]
        /\ rec'[t] = rec[t] \/ rec'[t] = r
    BY <1>0, <1>11, ReserveJobGoes
  <2>2. r.att = 1 /\ rec[t].att = 0 /\ r.state = "queued" /\ ~rec[t].recov
    BY <1>0, <2>1 DEF NoRecord, Recs, NoneIsBlank
  <2>3. phase = "up" /\ UNCHANGED phase /\ UNCHANGED todo /\ UNCHANGED procs /\ UNCHANGED ctl
    BY <1>11 DEF ReserveJob
  <2> HIDE DEF r
  <2>4. \A u \in Tasks : Grows(u) BY <1>0, <2>1, <2>2, WritesGrow DEF Grows
  <2> QED BY <1>0, <2>3, <2>4, WritesGrow, ChildrenStep
<1>12. ASSUME NEW t \in Tasks, Resume(t) PROVE Children'
  <2>1. /\ \A u \in Tasks : u # t => rec'[u] = rec[u]
        /\ UNCHANGED rec \/ NextTry(t)
    BY <1>0, <1>12, ResumeGoes
  <2>2. phase = "up" /\ UNCHANGED phase /\ UNCHANGED todo /\ UNCHANGED procs /\ UNCHANGED ctl
    BY <1>12 DEF Resume
  <2>3. rec[t].att \in Nat BY <1>0, Numbers
  <2>4. \A u \in Tasks : Grows(u) BY <1>0, <2>1, <2>3, WritesGrow DEF Grows, NextTry, NextAttempt
  <2> QED BY <1>0, <2>2, <2>4, WritesGrow, ChildrenStep
<1>13. ASSUME NEW t \in Tasks, Cleanup(t) PROVE Children'
  <2>1. \A u \in Tasks : /\ rec'[u].state = rec[u].state /\ rec'[u].att = rec[u].att
                         /\ rec'[u].kind = rec[u].kind /\ rec'[u].recov = rec[u].recov
                         /\ rec'[u].noted = rec[u].noted
    BY <1>0, <1>13, CleanupGoes
  <2>2. phase = "up" /\ UNCHANGED phase /\ UNCHANGED todo /\ UNCHANGED procs /\ UNCHANGED ctl
    BY <1>13 DEF Cleanup
  <2>3. \A u \in Tasks : Grows(u) BY <1>0, <2>1, WritesGrow DEF Grows
  <2> QED BY <1>0, <2>2, <2>3, WritesGrow, ChildrenStep
<1>14. CASE Launch
  <2>1. own.pc = "run" /\ UNCHANGED phase /\ UNCHANGED todo /\ UNCHANGED rec /\ UNCHANGED ctl
    BY <1>14 DEF Launch, AtPc, durable
  <2>2. CASE UNCHANGED procs BY <1>0, <2>1, <2>2, WritesGrow, ChildrenStep
  <2>3. CASE procs' = {MyChild}
    <3>1. MyChild.task = job.task /\ MyChild.att = job.att BY <1>1, <2>1 DEF MyChild
    <3>2. rec[job.task].kind = job.kind /\ Active(job.task)
          /\ (Recoverable(job.kind) => rec[job.task].recov /\ ctl[job.task][job.att] # "absent")
      BY <1>0, <1>1, <2>1 DEF Recs, SlotRecord, Channels, SlotChannel, Unready
    <3>3. job.att <= rec[job.task].att BY <1>0, <1>1, <2>1, Numbers
    <3>4. rec[job.task].state # "interrupted" BY <3>2 DEF Active, ActiveStates
    <3>5. ChildrenAreTold' BY <1>1, <2>1, <2>3, <3>1, <3>2, <3>3, <3>4 DEF ChildrenAreTold, Left
    <3>6. TodoIsLeft' BY <1>0, <2>1 DEF Children, TodoIsLeft
    <3> QED BY <3>5, <3>6 DEF Children
  <2> QED BY <1>0, <1>14, <2>2, <2>3, LaunchGoes
<1>15. CASE Crash
  <2>1. UNCHANGED <<rec, ctl, procs>> /\ phase' = "down" /\ todo' = {} BY <1>15, CrashGoes
  <2> QED BY <1>0, <2>1 DEF Children, ChildrenAreTold, TodoIsLeft
<1>16. CASE Restart
  <2>1. procs \subseteq ChildType /\ UNCHANGED procs BY <1>0, <1>16, RestartGoes, Typed DEF Rest
  <2>2. CASE Start \/ Ready
    <3>1. UNCHANGED todo /\ UNCHANGED rec /\ UNCHANGED ctl
          /\ \/ phase = "down" /\ phase' = "marking"
             \/ phase = "signalling" /\ todo = {} /\ phase' = "up"
      BY <2>2 DEF Start, Ready, durable
    <3>2. TodoIsLeft' BY <1>0, <3>1 DEF Children, TodoIsLeft
    <3>3. ChildrenAreTold' BY <1>0, <2>1, <3>1 DEF Children, ChildrenAreTold, Left
    <3> QED BY <3>2, <3>3 DEF Children
  <2>3. CASE MarkingDone
    <3>1. phase = "marking" /\ phase' = "signalling" /\ todo' = SignalTargets /\ UNCHANGED rec /\ UNCHANGED ctl
      BY <2>3 DEF MarkingDone, durable
    <3>2. TodoIsLeft' BY <3>1 DEF TodoIsLeft, SignalTargets
    <3>3. \A p \in procs : p.task # NoTask /\ Left(p) /\ rec[p.task].kind \in {"audio", "full"} => p.task \in SignalTargets
      BY <1>0, <2>1 DEF Children, ChildrenAreTold, Left, SignalTargets, Recoverable, Audio, ChildType
    <3>4. ChildrenAreTold' BY <1>0, <2>1, <3>1, <3>3 DEF Children, ChildrenAreTold, Left
    <3> QED BY <3>2, <3>4 DEF Children
  <2>4. ASSUME NEW t \in Tasks, MarkInterrupted(t) PROVE Children'
    <3>1. /\ phase = "marking" /\ \A u \in Tasks : rec'[u].att = rec[u].att /\ rec'[u].kind = rec[u].kind
                                                   /\ rec'[u].recov = rec[u].recov
      BY <1>0, <2>4, MarkGoes
    <3>2. UNCHANGED phase /\ UNCHANGED todo /\ UNCHANGED ctl BY <2>4 DEF MarkInterrupted
    <3>3. TodoIsLeft' BY <1>0, <3>1, <3>2 DEF Children, TodoIsLeft
    <3>4. \A p \in procs : p.task # NoTask => p.task \in Tasks BY <2>1 DEF ChildType
    <3>5. ChildrenAreTold' BY <1>0, <2>1, <3>1, <3>2, <3>4 DEF Children, ChildrenAreTold
    <3> QED BY <3>3, <3>5 DEF Children
  <2>5. ASSUME NEW t \in Tasks, SignalInterrupted(t) PROVE Children'
    <3> DEFINE a == rec[t].att
    <3>1. /\ phase = "signalling" /\ UNCHANGED phase /\ t \in todo /\ todo' = todo \ {t}
          /\ \/ ctl[t][a] = "absent" /\ UNCHANGED <<ctl, rec>>
             \/ ctl[t][a] # "absent" /\ ctl' = [ctl EXCEPT ![t][a] = "1"] /\ UNCHANGED rec
             \/ /\ ctl[t][a] # "absent" /\ UNCHANGED ctl /\ rec'[t].noted
                /\ \A u \in Tasks : u # t => rec'[u] = rec[u]
                /\ rec'[t].state = rec[t].state /\ rec'[t].att = rec[t].att /\ rec'[t].kind = rec[t].kind
                /\ rec'[t].recov = rec[t].recov
      BY <1>0, <2>5, SignalGoes
    <3>2. TodoIsLeft'
      <4>1. todo \subseteq Tasks BY <1>0, Typed DEF Rest
      <4>2. \A u \in todo' : rec'[u].state = rec[u].state /\ u \in todo BY <3>1, <4>1
      <4> QED BY <1>0, <3>1, <4>2 DEF Children, TodoIsLeft
    <3>3. \A p \in procs : p.task # NoTask =>
             /\ p.task \in Tasks
             /\ p.att \in Attempts /\ p.att <= rec[p.task].att
             /\ Recoverable(rec[p.task].kind) => rec[p.task].recov /\ ctl[p.task][p.att] # "absent"
             /\ Left(p) /\ rec[p.task].kind \in {"audio", "full"} =>
                  p.task \in todo \/ ctl[p.task][p.att] = "1" \/ rec[p.task].noted
      BY <1>0, <2>1, <3>1 DEF Children, ChildrenAreTold, ChildType
    <3>4. CASE ctl[t][a] = "absent" /\ UNCHANGED <<ctl, rec>>
      BY <3>3, <3>4, <2>1, <3>1, <3>2 DEF Left, Children, ChildrenAreTold, Recoverable, Audio
    <3>5. CASE ctl[t][a] # "absent" /\ ctl' = [ctl EXCEPT ![t][a] = "1"] /\ UNCHANGED rec
      <4>0. ctl \in [Tasks -> [Attempts -> {"absent", "0", "1"}]] BY <1>0, Typed DEF Rest, CtlType
      <4>1. Stays(ctl, ctl') BY <3>5, <4>0 DEF Stays
      <4>2. \A b \in Attempts : b = a => ctl'[t][b] = "1" BY <3>5, <4>0
      <4>3. \A p \in procs : p.task = t /\ p.task # NoTask /\ Left(p) => ctl'[p.task][p.att] = "1"
        BY <3>3, <4>2 DEF Left
      <4>4. \A p \in procs : p.task # NoTask =>
              /\ ctl[p.task][p.att] # "absent" => ctl'[p.task][p.att] # "absent"
              /\ ctl[p.task][p.att] = "1" => ctl'[p.task][p.att] = "1"
        <5>1. \A p \in procs : p.task # NoTask => p.task \in Tasks /\ p.att \in Attempts BY <3>3
        <5> QED BY <4>1, <5>1 DEF Stays
      <4> QED BY <2>1, <3>1, <3>2, <3>3, <3>5, <4>3, <4>4 DEF Children, ChildrenAreTold, Left
    <3>6. CASE /\ UNCHANGED ctl /\ rec'[t].noted
               /\ \A u \in Tasks : u # t => rec'[u] = rec[u]
               /\ rec'[t].state = rec[t].state /\ rec'[t].att = rec[t].att /\ rec'[t].kind = rec[t].kind
               /\ rec'[t].recov = rec[t].recov
      BY <2>1, <3>1, <3>2, <3>3, <3>6 DEF Children, ChildrenAreTold, Left
    <3> QED BY <3>1, <3>4, <3>5, <3>6
  <2> QED BY <1>16, <2>2, <2>3, <2>4, <2>5 DEF Restart
<1> QED BY <1>2, <1>3, <1>4, <1>5, <1>6, <1>7, <1>8, <1>9, <1>10, <1>11, <1>12, <1>13, <1>14, <1>15, <1>16,
     EveryStep
----------------------------------------
(* The theorems. *)

\* The invariant holds before the service first starts.
LEMMA InitTaskInv == ASSUME Init PROVE TaskInv
<1>1. IndInv BY InitIndInv
<1>2. /\ ~job.running /\ ~job.cerr /\ todo = {} /\ procs = {} /\ pend = {} /\ accepted = {}
      /\ \A t \in Tasks : rec[t] = NoRecord /\ res[t] = 0 /\ done[t] = 0
      /\ \A t \in Tasks, a \in Attempts : ctl[t][a] = "absent" /\ src[t][a] = "none"
  BY DEF Init, NoJob, NoSources
<1>3. NoRecord.state = "none" /\ ~NoRecord.recov /\ NoRecord.att = 0 /\ NoRecord.kind = "step" BY DEF NoRecord
<1>4. Flow BY <1>2 DEF Flow
<1>5. Recs BY <1>2, <1>3 DEF Recs, NoneIsBlank, RecipeFits, SlotRecord, RecoverableKeepsCopies
<1>6. ~Recoverable("step") BY DEF Recoverable, Audio
<1>7. Results
  BY <1>2, <1>3, <1>6 DEF Results, ResultIsPast, DoneIsReal, SlotResult, AcceptedIsPast, SlotAccepted,
     AcceptedNeverSucceeds, SuccessIsInstalled
<1>8. Channels
  BY <1>2 DEF Channels, PlainIsLate, ErrorHasTask, ChannelsArePast, SlotChannel, HandlersAreOwn, ErrorIsOwn,
     NoLateSignal
<1>9. Children BY <1>2 DEF Children, ChildrenAreTold, TodoIsLeft
<1> QED BY <1>1, <1>4, <1>5, <1>7, <1>8, <1>9 DEF TaskInv

\* Every step of the service, its children or a crash preserves it.
LEMMA TaskInvNext == ASSUME TaskInv, [Next]_vars PROVE TaskInv'
<1>1. IndInv' BY NextIndInv DEF TaskInv
<1>2. Recs' BY RecsNext
<1> QED BY <1>1, <1>2, FlowNext, ResultsNext, ChannelsNext, ChildrenNext DEF TaskInv

\* The slot, the records, the results, the control channels and the children of
\* every task agree in every reachable state.
THEOREM TaskInvHolds == Spec => []TaskInv
<1>1. Init => TaskInv BY InitTaskInv
<1>2. TaskInv /\ [Next]_vars => TaskInv' BY TaskInvNext
<1> QED BY <1>1, <1>2, PTL DEF Spec

\* A pause or cancellation that a handler accepted is never followed by the
\* success of that attempt: the boundary into the final stage, under job_.mu,
\* sees every request that was accepted before it (audio_boundary,
\* training_checkpoint), and none is accepted after it.
THEOREM StopIsFinal == Spec => []AcceptedNeverSucceeds
<1>1. TaskInv => AcceptedNeverSucceeds BY DEF TaskInv, Results
<1> QED BY <1>1, TaskInvHolds, PTL

\* What a record says is on the disk is there: the result and the markers of a
\* success, and the input copies of whatever may still be resumed, also after
\* failed saves and crashes (finish_audio_task, cleanup_task).
THEOREM RecordsAreTrue == Spec => []RecordsHaveFiles
<1>1. TaskInv => RecordsHaveFiles BY DEF TaskInv, Recs, Results, RecordsHaveFiles
<1> QED BY <1>1, TaskInvHolds, PTL

\* A control file, a delivery and an I/O error belong to one execution: no
\* attempt finds its file in use, and no handler that comes back late charges or
\* stops another execution (execute_task, control_task).
THEOREM ControlCorrect == Spec => []ControlIsOwn
<1>1. ASSUME TaskInv PROVE AttemptIsFresh
  BY <1>1, Working DEF TaskInv, Channels, SlotChannel, BeforeChannel, AttemptIsFresh
<1>2. TaskInv => ErrorIsOwn /\ NoLateSignal BY DEF TaskInv, Channels
<1>3. TaskInv => ControlIsOwn BY <1>1, <1>2 DEF ControlIsOwn
<1> QED BY <1>3, TaskInvHolds, PTL

\* The service is up again only after every child an earlier service left
\* behind, of a task that can be resumed, was told to stop
\* (recover_interrupted, stop_interrupted_execution).
THEOREM OrphansAreTold == Spec => []OrphansAreSignalled
<1>1. TaskInv => OrphansAreSignalled BY DEF TaskInv, Children, ChildrenAreTold, OrphansAreSignalled, Orphan
<1> QED BY <1>1, TaskInvHolds, PTL

----------------------------------------
(* Nothing that was recorded is undone. *)

PauseStays(t) == rec[t].state = "pause_requested" /\ rec'[t].state # "pause_requested"
                   => rec'[t].state \in SettledStates

\* No progress of an execution overwrites its recorded request to pause.
LEMMA PauseSticksNext == ASSUME TaskInv, [Next]_vars, NEW t \in Tasks PROVE PauseStays(t)
<1>0. /\ IndInv /\ Flow /\ Recs
      /\ rec[job.task].state = "pause_requested" /\ job.running => job.pause
      /\ own.pc # "idle" => job.running /\ job.kind \in AllKinds
  BY Ticket DEF TaskInv, Recs, SlotRecord
<1>w. ASSUME NEW s, Writes(job.task, s),
             \/ s \in SettledStates \cup {"pause_requested"}
             \/ job.running /\ ~job.pause
      PROVE PauseStays(t)
  BY <1>0, <1>w DEF Writes, PauseStays
<1>u. ASSUME rec'[t].state = rec[t].state PROVE PauseStays(t) BY <1>u DEF PauseStays
<1>1. CASE PrepareAudio \/ PrepareTraining
  <2>2. Recipe(job.task) \/ UNCHANGED rec BY <1>0, <1>1, PrepareAudioGoes, PrepareTrainingGoes
  <2>1. rec'[t].state = rec[t].state BY <2>2 DEF Recipe
  <2> QED BY <1>u, <2>1
<1>2. CASE CommitMaterial \/ StartStep
  <2>1. own.pc \in {"material", "prepare"} /\ (UNCHANGED rec \/ Writes(job.task, "running"))
        /\ (own.pc = "prepare" => job.kind = "step")
    BY <1>0, <1>2, CommitMaterialGoes, StartStepGoes
  <2>2. own.pc = "material" => job.kind \in Training /\ ~job.recov
    BY <1>0, <2>1 DEF Flow, PcFitsKind, RequestsFit
  <2>3. job.running /\ ~job.pause BY <1>0, <2>1, <2>2 DEF Flow, RequestsFit, Recoverable, Audio, Training
  <2> QED BY <1>u, <1>w, <2>1, <2>3
<1>3. CASE SetQueued BY <1>0, <1>3, <1>w, SetQueuedGoes DEF QueuedState
<1>4. ASSUME NEW stage, NEW next, Boundary(stage, next), own.pc # "idle" PROVE PauseStays(t)
  <2>1. UNCHANGED rec \/ (Writes(job.task, "running") /\ (job.kind # "plain" => ~job.pause))
    BY <1>0, <1>4, BoundaryGoes DEF Bounds, StopAsked
  <2>2. job.kind = "plain" => ~job.pause BY <1>0, <1>4 DEF Flow, RequestsFit, Recoverable, Audio
  <2> QED BY <1>0, <1>4, <1>u, <1>w, <2>1, <2>2
<1>5. CASE \/ RetainParameters \/ NoMaterial \/ HandOff \/ CreateChannel \/ Register \/ TakeGpu \/ WaitGpu
           \/ ReuseStage \/ Launch \/ Reap \/ ReapPlain \/ CloseChannel \/ Retire \/ Judge \/ Settle \/ Publish
           \/ ProgressFault \/ Cancel \/ Crash \/ Aside \/ (\E d \in pend : Deliver(d) \/ Report(d))
           \/ \E p \in procs : ChildExit(p)
  <2>1. UNCHANGED rec
    BY <1>5 DEF RetainParameters, NoMaterial, HandOff, CreateChannel, Register, TakeGpu, WaitGpu, ReuseStage,
       Launch, Reap, ReapPlain, CloseChannel, Retire, Judge, Settle, Publish, ProgressFault, Cancel, Crash, Aside,
       SyncRequest, StepTail, Deliver, Report, ChildExit, vars, durable
  <2> QED BY <1>u, <2>1, SMTT(30)
<1>6. CASE Pause \/ GuardStorage BY <1>0, <1>6, <1>w, PauseGoes, GuardStorageGoes
<1>7. CASE FinishAudio \/ FinishTraining \/ FinishStep BY <1>0, <1>7, <1>w, FinishGoes DEF Finishes
<1>8. ASSUME NEW u \in Tasks, NEW k \in Kinds, ReserveJob(u, k) PROVE PauseStays(t)
  <2>1. rec[u].state = "none" /\ \A v \in Tasks : v # u => rec'[v] = rec[v] BY <1>0, <1>8, ReserveJobGoes
  <2> QED BY <2>1 DEF PauseStays
<1>9. ASSUME NEW u \in Tasks, Resume(u) PROVE PauseStays(t)
  BY <1>0, <1>9, ResumeGoes DEF Resumable, PauseStays
<1>10. ASSUME NEW u \in Tasks, Cleanup(u) PROVE PauseStays(t) BY <1>0, <1>10, <1>u, CleanupGoes
<1>11. CASE Restart BY <1>11, RestartRecords DEF PauseStays, SettledStates
<1> QED BY <1>1, <1>2, <1>3, <1>4, <1>5, <1>6, <1>7, <1>8, <1>9, <1>10, <1>11, EveryStep

StagesGoOn ==
    /\ \A t \in Tasks : done'[t] >= done[t]
    /\ \A p \in procs' \ procs : p.task # NoTask /\ job.kind \in Audio \cup {"full"}
          => done[p.task] = own.k - 1

\* Markers only appear, and a child is launched for an unmarked stage only.
LEMMA StagesGoOnNext == ASSUME TaskInv, [Next]_vars PROVE StagesGoOn
<1>0. /\ IndInv /\ Flow /\ Results
      /\ own.pc # "idle" => job.running /\ job.task \in Tasks /\ own.task = job.task /\ own.k \in Nat \ {0}
      /\ \A t \in Tasks : done[t] \in Nat
  BY Ticket, Numbers DEF TaskInv
<1>u. ASSUME UNCHANGED done, procs' \subseteq procs \cup {NoChild} PROVE StagesGoOn
  BY <1>0, <1>u DEF StagesGoOn, NoChild
<1>1. CASE Launch
  <2>1. own.pc = "run" /\ ~Completed /\ (procs' = {MyChild} \/ UNCHANGED procs) /\ UNCHANGED done
    BY <1>0, <1>1, LaunchGoes DEF Launch, durable
  <2>2. job.kind \in Audio \cup {"full"} => done[job.task] = own.k - 1
    BY <1>0, <2>1 DEF Results, SlotResult, Recoverable, Completed
  <2>3. MyChild.task = job.task BY <1>0, <2>1 DEF MyChild
  <2> QED BY <1>0, <2>1, <2>2, <2>3 DEF StagesGoOn
<1>2. CASE Reap
  <2>1. UNCHANGED procs /\ own.pc = "wait" BY <1>0, <1>2, ReapGoes DEF Reap
  <2>2. UNCHANGED done \/ (job.kind # "step" /\ done' = [done EXCEPT ![job.task] = own.k])
    BY <1>0, <1>2, <2>1, ReapGoes
  <2>3. CASE job.kind # "step" /\ done' = [done EXCEPT ![job.task] = own.k]
    <3>1. done[job.task] = own.k - 1
      <4>1. Recoverable(job.kind)
        BY <1>0, <1>2, <2>1, <2>3, ReapGoes, Ticket DEF Recoverable, AllKinds, Training
      <4> QED BY <1>0, <2>1, <4>1 DEF Results, SlotResult
    <3>2. done \in [Tasks -> 0..MaxStage] BY <1>0, Typed DEF Rest
    <3>3. \A t \in Tasks : done'[t] >= done[t] BY <1>0, <2>1, <2>3, <3>1, <3>2
    <3> QED BY <2>1, <3>3 DEF StagesGoOn
  <2> QED BY <1>u, <2>1, <2>2, <2>3
<1>3. ASSUME NEW stage, NEW next, Boundary(stage, next) PROVE StagesGoOn BY <1>3, <1>u DEF Boundary
<1>4. CASE \/ PrepareAudio \/ RetainParameters \/ NoMaterial \/ CommitMaterial \/ HandOff \/ PrepareTraining
           \/ SetQueued \/ StartStep \/ CreateChannel \/ Register \/ TakeGpu \/ WaitGpu \/ ReuseStage
           \/ ReapPlain \/ CloseChannel \/ Retire \/ Judge \/ Settle \/ Publish \/ ProgressFault \/ Pause \/ Cancel
           \/ GuardStorage \/ FinishAudio \/ FinishTraining \/ FinishStep \/ Crash
  <2>1. UNCHANGED done /\ UNCHANGED procs
    BY <1>4 DEF PrepareAudio, RetainParameters, NoMaterial, CommitMaterial, HandOff, PrepareTraining, SetQueued,
       StartStep, CreateChannel, Register, TakeGpu, WaitGpu, ReuseStage, ReapPlain, CloseChannel, Retire, Judge,
       Settle, Publish, ProgressFault, Pause, Cancel, GuardStorage, FinishAudio, FinishTraining, FinishStep, Crash,
       durable
  <2> QED BY <1>u, <2>1
<1>5. ASSUME \/ Aside \/ (\E d \in pend : Deliver(d) \/ Report(d)) \/ \E p \in procs : ChildExit(p)
             \/ \E t \in Tasks : (\E k \in Kinds : ReserveJob(t, k)) \/ Resume(t) \/ Cleanup(t)
      PROVE StagesGoOn
  <2>1. UNCHANGED done /\ procs' \subseteq procs \cup {NoChild}
    BY <1>5 DEF Aside, SyncRequest, StepTail, Deliver, Report, ChildExit, ReserveJob, Resume, Cleanup, vars,
       durable, NoChild
  <2> QED BY <1>u, <2>1, SMTT(30)
<1>6. CASE Restart BY <1>0, <1>6, <1>u, RestartGoes
<1> QED BY <1>1, <1>2, <1>3, <1>4, <1>5, <1>6, EveryStep

\* A recorded request to pause gives way to a settled state only, and a stage
\* with a completion marker is not run again, in any attempt (set_stage,
\* audio_boundary, the markers of task_artifacts).
THEOREM RecordedStays == Spec => NothingIsUndone
<1>1. TaskInv /\ [Next]_vars =>
        [\A t \in Tasks : rec[t].state = "pause_requested" /\ rec'[t].state # "pause_requested"
            => rec'[t].state \in SettledStates]_vars
  BY PauseSticksNext DEF PauseStays
<1>2. TaskInv /\ [Next]_vars =>
        [/\ \A t \in Tasks : done'[t] >= done[t]
         /\ \A p \in procs' \ procs : p.task # NoTask /\ job.kind \in Audio \cup {"full"}
               => done[p.task] = own.k - 1]_vars
  BY StagesGoOnNext DEF StagesGoOn
<1> QED BY <1>1, <1>2, TaskInvHolds, PTL DEF Spec, NothingIsUndone, PauseSticks, NoStageIsRepeated
----------------------------------------
(* The lifecycle implements TaskContract. *)

\* What a record's state shows of the task's life.
LEMMA Lives ==
    /\ \A t \in Tasks : LifeOf(rec[t]) = "active" <=> Active(t)
    /\ \A r : r.state \in ActiveStates => LifeOf(r) = "active"
    /\ \A r : r.state \in {"paused", "interrupted", "failed", "cancelled"} => LifeOf(r) = "stopped"
    /\ \A r : r.state = "none" => LifeOf(r) = "none"
    /\ \A r : r.state = "succeeded" => LifeOf(r) = "succeeded"
    /\ \A r, s : r.state = s.state => LifeOf(r) = LifeOf(s)
  BY DEF LifeOf, Active, ActiveStates

Life == [t \in Tasks |-> LifeOf(rec[t])]
Attempt == [t \in Tasks |-> rec[t].att]

\* No record changes what it shows.
LEMMA ShowsNothing ==
    ASSUME \A t \in Tasks : LifeOf(rec'[t]) = LifeOf(rec[t]) /\ rec'[t].att = rec[t].att
    PROVE  UNCHANGED Life /\ UNCHANGED Attempt
  BY DEF Life, Attempt

\* One record changes.
LEMMA ShowsOne ==
    ASSUME NEW t \in Tasks, \A u \in Tasks : u # t => rec'[u] = rec[u]
    PROVE  /\ Life' = [Life EXCEPT ![t] = LifeOf(rec'[t])]
           /\ Attempt' = [Attempt EXCEPT ![t] = rec'[t].att]
  BY DEF Life, Attempt

\* The refinement mapping, by name.
LEMMA Mapped ==
    /\ Contract!vars = <<Life, Attempt, res, accepted>>
    /\ \A t \in Tasks : Life[t] = LifeOf(rec[t]) /\ Attempt[t] = rec[t].att
  BY DEF Contract!vars, Life, Attempt

Shows == [Contract!Next]_(Contract!vars)

\* A step that shows a client nothing is a stutter of the contract.
LEMMA Silent ==
    ASSUME UNCHANGED <<res, accepted>>,
           \A t \in Tasks : LifeOf(rec'[t]) = LifeOf(rec[t]) /\ rec'[t].att = rec[t].att
    PROVE  Shows
  BY ShowsNothing DEF Shows, Contract!vars, Life, Attempt

\* The record of t moves to another life, within the same attempt.
LEMMA Settles ==
    ASSUME TaskInv, NEW t \in Tasks, UNCHANGED <<res, accepted>>, Active(t),
           \A u \in Tasks : u # t => rec'[u] = rec[u],
           rec'[t].att = rec[t].att,
           \/ rec'[t].state = "succeeded" /\ res[t] = rec[t].att
           \/ rec'[t].state \in {"paused", "interrupted", "failed", "cancelled"}
    PROVE  Shows
<1>1. Life[t] = "active" /\ Attempt' = Attempt /\ Attempt[t] = rec[t].att
  BY Lives, ShowsOne, Mapped DEF Attempt
<1>2. Life' = [Life EXCEPT ![t] = LifeOf(rec'[t])] BY ShowsOne
<1>3. CASE rec'[t].state = "succeeded" /\ res[t] = rec[t].att
  <2>1. LifeOf(rec'[t]) = "succeeded" BY <1>3, Lives
  <2>2. Contract!Succeed(t) BY <1>1, <1>2, <1>3, <2>1 DEF Contract!Succeed, Life, Attempt
  <2> QED BY <2>2 DEF Shows, Contract!Next
<1>4. CASE rec'[t].state \in {"paused", "interrupted", "failed", "cancelled"}
  <2>1. LifeOf(rec'[t]) = "stopped" BY <1>4, Lives
  <2>2. Contract!Stop(t) BY <1>1, <1>2, <2>1 DEF Contract!Stop, Life, Attempt
  <2> QED BY <2>2 DEF Shows, Contract!Next
<1> QED BY <1>3, <1>4

\* A new attempt of t, saved while nothing is active, begins it.
LEMMA Begun ==
    ASSUME TaskInv, NEW t \in Tasks, UNCHANGED <<res, accepted>>,
           phase = "up", ~latch, ~job.running, ~Active(t), rec[t].state # "succeeded",
           \A u \in Tasks : u # t => rec'[u] = rec[u],
           rec'[t].state = "queued", rec'[t].att = rec[t].att + 1
    PROVE  Shows
<1>1. \A u \in Tasks : Life[u] # "active" BY Lives, Mapped DEF TaskInv, IndInv, ActiveOne
<1>2. Life[t] \in {"none", "stopped"}
  <2>1. rec[t].state \in RecordStates BY Ticket DEF TaskInv, RecordType
  <2> QED BY <2>1, Lives, Mapped DEF Active, RecordStates, SettledStates
<1>3. LifeOf(rec'[t]) = "active" BY Lives DEF ActiveStates
<1>4. Life' = [Life EXCEPT ![t] = "active"] /\ Attempt' = [Attempt EXCEPT ![t] = rec'[t].att]
  BY <1>3, ShowsOne
<1>5. Attempt' = [Attempt EXCEPT ![t] = Attempt[t] + 1] BY <1>4, Mapped
<1>6. Contract!Begin(t) BY <1>1, <1>2, <1>4, <1>5 DEF Contract!Begin, Contract!NoneActive, Life, Attempt
<1> QED BY <1>6 DEF Shows, Contract!Next

\* Every step of the lifecycle is a step of the contract or a stutter.
LEMMA ContractNext == ASSUME TaskInv, TaskInv', [Next]_vars PROVE Shows
<1>0. /\ IndInv /\ Flow /\ Recs /\ Results /\ "running" \in ActiveStates
      /\ "queued" \in ActiveStates /\ "pause_requested" \in ActiveStates
  BY DEF TaskInv, ActiveStates
<1>1. /\ own.pc # "idle" => job.running /\ own.task = job.task /\ own.att = job.att
      /\ job.running => job.task \in Tasks /\ job.att = rec[job.task].att /\ Active(job.task)
  BY <1>0, Ticket DEF IndInv, Slot, Recs, SlotRecord
<1>s. ASSUME UNCHANGED <<res, accepted>>,
             \/ UNCHANGED rec \/ Recipe(job.task)
             \/ job.running /\ \E s \in ActiveStates : Writes(job.task, s)
      PROVE Shows
  <2>1. \A t \in Tasks : rec'[t].att = rec[t].att
                         /\ (rec'[t].state = rec[t].state \/ (rec'[t].state \in ActiveStates /\ Active(t)))
    BY <1>1, <1>s DEF Recipe, Writes
  <2>2. \A t \in Tasks : LifeOf(rec'[t]) = LifeOf(rec[t]) BY <2>1, Lives
  <2> QED BY <1>s, <2>1, <2>2, Silent
<1>2. CASE PrepareAudio \/ PrepareTraining
  BY <1>0, <1>2, PrepareAudioGoes, PrepareTrainingGoes, <1>s DEF PrepareAudio, PrepareTraining
<1>3. CASE CommitMaterial \/ SetQueued \/ StartStep
  <2>1. own.pc # "idle" /\ (UNCHANGED rec \/ \E s \in ActiveStates : Writes(job.task, s))
    BY <1>0, <1>3, CommitMaterialGoes, SetQueuedGoes, StartStepGoes DEF QueuedState
  <2>2. UNCHANGED <<res, accepted>> BY <1>3 DEF CommitMaterial, SetQueued, StartStep
  <2> QED BY <1>1, <1>s, <2>1, <2>2
<1>4. ASSUME NEW stage, NEW next, Boundary(stage, next), own.pc # "idle" PROVE Shows
  <2>1. UNCHANGED rec \/ Writes(job.task, "running") BY <1>0, <1>4, BoundaryGoes DEF Bounds
  <2>2. UNCHANGED <<res, accepted>> BY <1>4 DEF Boundary
  <2> QED BY <1>0, <1>1, <1>4, <1>s, <2>1, <2>2
<1>5. CASE \/ RetainParameters \/ NoMaterial \/ HandOff \/ CreateChannel \/ Register \/ TakeGpu \/ WaitGpu
           \/ ReuseStage \/ Launch \/ Reap \/ ReapPlain \/ CloseChannel \/ Retire \/ Judge \/ Settle
           \/ ProgressFault \/ Aside \/ (\E d \in pend : Deliver(d) \/ Report(d))
           \/ \E p \in procs : ChildExit(p)
  <2>1. UNCHANGED <<res, accepted>> /\ UNCHANGED rec
    BY <1>5 DEF RetainParameters, NoMaterial, HandOff, CreateChannel, Register, TakeGpu, WaitGpu, ReuseStage,
       Launch, Reap, ReapPlain, CloseChannel, Retire, Judge, Settle, ProgressFault, Aside,
       SyncRequest, StepTail, Deliver, Report, ChildExit, vars, durable
  <2> QED BY <1>s, <2>1
<1>6. CASE GuardStorage
  <2>1. own.pc # "idle" /\ Writes(job.task, "pause_requested") BY <1>0, <1>6, GuardStorageGoes
  <2>2. UNCHANGED <<res, accepted>> BY <1>6 DEF GuardStorage
  <2> QED BY <1>0, <1>1, <1>s, <2>1, <2>2
<1>7. CASE Pause \/ Cancel
  <2>0. /\ job.running /\ (PauseAllowed \/ CancelAllowed)
        /\ UNCHANGED rec \/ Writes(job.task, "pause_requested")
    BY <1>0, <1>7, PauseGoes, CancelGoes DEF Cancel, durable
  <2>1. job.stage # "final" /\ job.kind # "step"
    BY <1>0, <2>0 DEF PauseAllowed, Pausable, CancelAllowed, Flow, RequestsFit, Recoverable, Audio, Training
  <2>2. own.out # "ok" BY <1>0, <2>0, <2>1 DEF Flow, FinalIsSealed
  <2>3. res[job.task] # rec[job.task].att BY <1>0, <1>1, <2>0, <2>2 DEF Results, SlotResult
  <2>4. accepted' = accepted \cup {<<job.task, job.att>>} /\ UNCHANGED res BY <1>7 DEF Pause, Cancel, durable
  <2>5. \A t \in Tasks : rec'[t].att = rec[t].att
                         /\ (rec'[t].state = rec[t].state \/ (rec'[t].state \in ActiveStates /\ Active(t)))
    BY <1>0, <1>1, <2>0 DEF Writes
  <2>6. \A t \in Tasks : LifeOf(rec'[t]) = LifeOf(rec[t]) BY <2>5, Lives
  <2>7. UNCHANGED Life /\ UNCHANGED Attempt BY <2>5, <2>6, ShowsNothing
  <2>8. Life[job.task] = "active" /\ Attempt[job.task] = rec[job.task].att BY <1>1, <2>0, Lives, Mapped
  <2>9. Contract!AskToStop(job.task)
    BY <1>1, <2>0, <2>3, <2>4, <2>7, <2>8 DEF Contract!AskToStop, Life, Attempt
  <2> QED BY <1>1, <2>0, <2>9 DEF Shows, Contract!Next
<1>8. CASE Publish
  <2>1. own.pc = "publish" /\ UNCHANGED <<rec, accepted>>
        /\ (UNCHANGED res \/ res' = [res EXCEPT ![own.task] = own.att])
    BY <1>0, <1>8, PublishGoes DEF Publish
  <2>2. CASE UNCHANGED res BY <1>s, <2>1, <2>2
  <2>3. CASE res' = [res EXCEPT ![own.task] = own.att]
    <3>1. <<job.task, job.att>> \notin accepted BY <1>0, <1>1, <2>1 DEF Results, SlotAccepted
    <3>2. UNCHANGED Life /\ UNCHANGED Attempt BY <2>1, ShowsNothing
    <3>3. Life[job.task] = "active" /\ Attempt[job.task] = rec[job.task].att BY <1>1, <2>1, Lives, Mapped
    <3>4. Contract!Install(job.task) BY <1>1, <2>1, <2>3, <3>1, <3>2, <3>3 DEF Contract!Install, Life, Attempt
    <3> QED BY <1>1, <2>1, <3>4 DEF Shows, Contract!Next
  <2> QED BY <2>1, <2>2, <2>3
<1>9. CASE FinishAudio \/ FinishTraining \/ FinishStep
  <2>1. own.pc = "finish" /\ \E s \in SettledStates : Writes(job.task, s)
    BY <1>0, <1>9, FinishGoes DEF Finishes
  <2>2. UNCHANGED <<res, accepted>> BY <1>9 DEF FinishAudio, FinishTraining, FinishStep
  <2>3. CASE rec'[job.task].state = rec[job.task].state
    <3>1. \A t \in Tasks : rec'[t].att = rec[t].att /\ rec'[t].state = rec[t].state BY <2>1, <2>3 DEF Writes
    <3> QED BY <2>2, <3>1, Lives, Silent
  <2>4. CASE rec'[job.task].state # rec[job.task].state
    <3>1. /\ rec'[job.task].state \in SettledStates /\ rec'[job.task].att = rec[job.task].att
          /\ \A u \in Tasks : u # job.task => rec'[u] = rec[u]
      BY <2>1, <2>4 DEF Writes
    <3>2. rec'[job.task].state = "succeeded" => res[job.task] = rec[job.task].att
      BY <1>1, <2>1, <2>2, <3>1 DEF TaskInv, Results, SuccessIsInstalled
    <3> QED BY <1>1, <2>1, <2>2, <3>1, <3>2, Settles DEF SettledStates
  <2> QED BY <2>3, <2>4
<1>10. ASSUME NEW t \in Tasks, NEW k \in Kinds, ReserveJob(t, k) PROVE Shows
  <2> DEFINE r == [NoRecord EXCEPT !.state = "queued", !.att = 1, !.kind = k]
  <2>1. /\ rec[t].state = "none" /\ \A u \in Tasks : u # t => rec'[u] = rec[u]
        /\ UNCHANGED rec \/ rec'[t] = r
    BY <1>0, <1>10, ReserveJobGoes
  <2>2. r.att = 1 /\ rec[t].att = 0 /\ r.state = "queued" BY <1>0, <2>1 DEF NoRecord, Recs, NoneIsBlank
  <2>3. UNCHANGED <<res, accepted>> /\ phase = "up" /\ ~latch /\ ~job.running BY <1>10 DEF ReserveJob
  <2> HIDE DEF r
  <2>4. CASE UNCHANGED rec BY <1>s, <2>3, <2>4
  <2>5. CASE rec'[t] = r
    <3>1. rec'[t].state = "queued" /\ rec'[t].att = rec[t].att + 1 BY <2>2, <2>5
    <3> QED BY <2>1, <2>3, <3>1, Begun DEF Active, ActiveStates
  <2> QED BY <2>1, <2>4, <2>5
<1>11. ASSUME NEW t \in Tasks, Resume(t) PROVE Shows
  <2>1. /\ Resumable(t) /\ \A u \in Tasks : u # t => rec'[u] = rec[u]
        /\ UNCHANGED rec \/ NextTry(t)
    BY <1>0, <1>11, ResumeGoes
  <2>2. UNCHANGED <<res, accepted>> /\ phase = "up" /\ ~latch /\ ~job.running BY <1>11 DEF Resume
  <2>3. CASE UNCHANGED rec BY <1>s, <2>2, <2>3
  <2>4. CASE NextTry(t) BY <2>1, <2>2, <2>4, Begun DEF NextTry, NextAttempt, Resumable, Active, ActiveStates
  <2> QED BY <2>1, <2>3, <2>4
<1>12. ASSUME NEW t \in Tasks, Cleanup(t) PROVE Shows
  <2>1. \A u \in Tasks : rec'[u].state = rec[u].state /\ rec'[u].att = rec[u].att BY <1>0, <1>12, CleanupGoes
  <2>2. UNCHANGED <<res, accepted>> BY <1>12 DEF Cleanup
  <2> QED BY <2>1, <2>2, Lives, Silent
<1>13. CASE Crash BY <1>13, <1>s, CrashGoes
<1>14. CASE Restart
  <2>1. UNCHANGED <<res, accepted>> BY <1>0, <1>14, RestartGoes
  <2>2. CASE Start \/ MarkingDone \/ Ready BY <1>s, <2>1, <2>2 DEF Start, MarkingDone, Ready, durable
  <2>3. ASSUME NEW t \in Tasks, MarkInterrupted(t) PROVE Shows
    BY <1>0, <2>1, <2>3, MarkGoes, Settles DEF Active
  <2>4. ASSUME NEW t \in Tasks, SignalInterrupted(t) PROVE Shows
    BY <1>0, <2>4, SignalGoes, <2>1, Lives, Silent
  <2> QED BY <1>14, <2>2, <2>3, <2>4 DEF Restart
<1> QED BY <1>2, <1>3, <1>4, <1>5, <1>6, <1>7, <1>8, <1>9, <1>10, <1>11, <1>12, <1>13, <1>14, EveryStep

\* The lifecycle implements TaskContract: initial states map to initial states,
\* and every step to a step of the contract or to a stutter.
THEOREM ContractKept == Spec => KeepsContract
<1>1. ASSUME Init PROVE Contract!Init
  <2>1. \A t \in Tasks : rec[t].state = "none" /\ rec[t].att = 0 BY <1>1 DEF Init, NoRecord
  <2>2. \A t \in Tasks : LifeOf(rec[t]) = "none" BY <2>1, Lives
  <2> QED BY <1>1, <2>1, <2>2 DEF Init, Contract!Init
<1>2. TaskInv /\ TaskInv' /\ [Next]_vars => [Contract!Next]_(Contract!vars) BY ContractNext DEF Shows
<1> QED BY <1>1, <1>2, TaskInvHolds, PTL DEF Spec, KeepsContract, Contract!Spec
=============================================================================
