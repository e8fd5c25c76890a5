--------------------------- MODULE JointTraining ---------------------------
(***************************************************************************)
(* vc_train --gan-profile joint-full: the resumable full training of       *)
(* app_support/joint_full_training.cpp over one checkpoint directory.      *)
(*                                                                         *)
(* One action is one step on the file system or one training step.  A run  *)
(* may die before any step, any step may throw and end the run, the        *)
(* control file may ask it to stop, and runs may meet in the directory.    *)
(* The Web service starts a run by the rule of execute_training_task;      *)
(* runs are also started by hand, with any option that names this          *)
(* directory.  What floating point computes is abstracted to what it is    *)
(* computed from: a network is the sequence of its updates, a random       *)
(* generator the number of draws it has made since it was seeded, and a    *)
(* learning rate the number of decays.                                     *)
(*                                                                         *)
(* Operators marked FAULT are wrong on purpose: no action uses them, and   *)
(* the project's mutants put them in place of the operator they precede.   *)
(***************************************************************************)
EXTENDS Integers, FiniteSets, FiniteSetsExt, Sequences, Functions

CONSTANTS
    Procs,          \* training processes
    NoProc,         \* nobody holds the flock
    Recipes,        \* identities of a dataset and recipe
    Clips,          \* number of clips
    Epochs,         \* number of epochs of the recipe
    SaveEvery,      \* epochs between two checkpoints (5 in the code)
    CandEvery,      \* epochs between two candidates (50 in the code)
    LastCand,       \* the last epoch with a candidate (200 in the code)
    Shuffle(_, _),  \* the order that std::shuffle makes of an order at a draw
    MaxRuns         \* bound: runs of the program

None == "none"
Marker == -1  \* identity.txt among the names of files; a checkpoint is its step

Total == Epochs * Clips
\* The permutations of the clips.
Orders == {o \in [1..Clips -> 1..Clips] : Range(o) = 1..Clips}

\* A shuffle permutes, also the permutation it is given: std::shuffle.  A training
\* makes two draws per step at most, one for the crop and one for the shuffle.
ASSUME TrainingAssumption ==
    /\ NoProc \notin Procs /\ None \notin Recipes
    /\ {Clips, Epochs, SaveEvery, CandEvery, LastCand} \subseteq Nat \ {0} /\ MaxRuns \in Nat
    /\ \A o \in Orders, n \in 0..(2 * Total) : Shuffle(o, n) \in Orders

----------------------------------------
(* RunState and JointTrainer in memory, and the checkpoint file.           *)

Epoch(s) == s.step \div Clips
Slot(s) == s.step % Clips
Finished(s) == s.step = Total
LearningRate(s) == Epoch(s)

BeginState(r) ==
    [identity |-> r, step |-> 0, order |-> Shuffle([i \in 1..Clips |-> i], 0), random |-> 1]
InitTrainer(r) == [model |-> r, steps |-> 0, lr |-> 0, rng |-> 0, net |-> << >>]
Fresh(r) == [state |-> BeginState(r), trainer |-> InitTrainer(r)]

CropDrawn(s) == [s EXCEPT !.random = @ + 1]
AdvanceState(s) ==
    LET t == [s EXCEPT !.step = @ + 1]
    IN IF Slot(t) = 0 /\ ~Finished(t)
       THEN [t EXCEPT !.order = Shuffle(@, t.random), !.random = @ + 1]
       ELSE t

TrainOnce(m) ==
    LET update == [clip |-> m.state.order[Slot(m.state) + 1], crop |-> m.state.random,
                   lr |-> m.trainer.lr, noise |-> m.trainer.rng]
        s == AdvanceState(CropDrawn(m.state))
    IN [state |-> s,
        trainer |-> [m.trainer EXCEPT !.steps = @ + 1, !.rng = @ + 2, !.lr = LearningRate(s),
                                      !.net = Append(@, update)]]

\* The text of RunState::serialize, the metadata and the tensors of one file.
SavedFile(m) ==
    [text |-> <<m.state.identity, m.state.step, m.state.order, m.state.random>>,
     meta |-> <<m.trainer.model, m.trainer.steps, m.trainer.lr, m.trainer.rng>>,
     tensors |-> m.trainer.net]
\* FAULT: the crop generator is seeded anew instead of read back.
LoadReseeded(f) ==
    [state |-> [identity |-> f.text[1], step |-> f.text[2], order |-> f.text[3], random |-> 1],
     trainer |-> [model |-> f.meta[1], steps |-> f.meta[2], lr |-> f.meta[3], rng |-> f.meta[4],
                  net |-> f.tensors]]
LoadedFile(f) ==
    [state |-> [identity |-> f.text[1], step |-> f.text[2], order |-> f.text[3],
                random |-> f.text[4]],
     trainer |-> [model |-> f.meta[1], steps |-> f.meta[2], lr |-> f.meta[3], rng |-> f.meta[4],
                  net |-> f.tensors]]
ResumeMatches(m, r) ==
    /\ m.state.identity = r /\ m.state.step = m.trainer.steps
    /\ LearningRate(m.state) = m.trainer.lr

----------------------------------------
VARIABLES
    dir,    \* the checkpoint directory exists
    ident,  \* the recipe in identity.txt, or None
    tmps,   \* temporary files: <<what they become, number of the run that made them>>
    ckpt,   \* step -> the checkpoint file of that name
    cands,  \* epoch -> the network of the candidate file of that name
    out,    \* the network of the model that --out names, {} without one
    lock,   \* the holder of the directory's flock
    run,    \* the runs
    mem,    \* the state and the trainer of a run
    stop,   \* the run's control file reads 1 or is unreadable
    runs    \* number of runs so far

vars == <<dir, ident, tmps, ckpt, cands, out, lock, run, mem, stop, runs>>
disk == <<dir, ident, tmps, ckpt, cands, out>>

Ended == {"idle", "stopped", "refused"}
NoRun == [pc |-> "idle", auto |-> FALSE, recipe |-> None, how |-> "fresh", from |-> 0, no |-> 0,
          start |-> 0, after |-> "loop", late |-> 0, met |-> FALSE]
Saved == DOMAIN ckpt
\* A rename onto a name: the file of that name is replaced.
Put(files, name, file) ==
    [x \in DOMAIN files \cup {name} |-> IF x = name THEN file ELSE files[x]]
Nothing == [s \in {} |-> None]

Init ==
    /\ dir = FALSE /\ ident = None /\ tmps = {} /\ ckpt = Nothing /\ cands = Nothing /\ out = {}
    /\ lock = NoProc /\ runs = 0
    /\ run = [p \in Procs |-> NoRun] /\ mem = [p \in Procs |-> Nothing]
    /\ stop = [p \in Procs |-> FALSE]

Live(p) == run[p].pc \notin Ended
At(p, pc) == run[p].pc = pc
Go(p, pc) == run' = [run EXCEPT ![p].pc = pc]
\* The process ends: its descriptors, and with them the flock, are closed.
\* Only of a refusal is more than the fact remembered.
End(p, how) ==
    /\ run' = [run EXCEPT ![p] = [NoRun EXCEPT !.pc = how, !.auto = how = "refused" /\ run[p].auto,
                 !.recipe = IF how = "refused" THEN run[p].recipe ELSE None,
                 !.met = how = "refused" /\ run[p].met]]
    /\ lock' = IF lock = p THEN NoProc ELSE lock
    /\ mem' = [mem EXCEPT ![p] = Nothing] /\ stop' = [stop EXCEPT ![p] = FALSE]
    /\ UNCHANGED runs
Keep == UNCHANGED <<lock, stop, runs>>

----------------------------------------
(* Starting a run.                                                         *)

Start(p, auto, r, how, from) ==
    /\ runs < MaxRuns /\ ~Live(p)
    /\ runs' = runs + 1 /\ UNCHANGED stop
    /\ LET met == \E q \in Procs : Live(q)
       IN run' = [q \in Procs |->
                    IF q = p THEN [NoRun EXCEPT !.pc = "lock", !.auto = auto, !.recipe = r,
                                     !.how = how, !.from = from, !.no = runs + 1, !.met = met]
                    ELSE IF Live(q) THEN [run[q] EXCEPT !.met = TRUE] ELSE run[q]]
    /\ UNCHANGED <<disk, lock, mem>>

\* FAULT: the first complete checkpoint instead of the last.
EarliestFull == Min(Saved)
LatestFull == Max(Saved)

\* The service has one task at a time, and the task one recipe.
LaunchByService(p, r) ==
    /\ \A q \in Procs : run[q].auto => ~Live(q)
    /\ IF Saved # {} THEN Start(p, TRUE, r, "resume", LatestFull)
       ELSE Start(p, TRUE, r, IF dir THEN "initial" ELSE "fresh", 0)

LaunchByHand(p, r) ==
    \/ \E how \in {"fresh", "initial"} : Start(p, FALSE, r, how, 0)
    \/ \E s \in Saved : Start(p, FALSE, r, "resume", s)

\* The control file is set to 1 or breaks: from now on poll() gives kCancelled
\* or kError, which differ in the exit status only.
AskToStop(p) ==
    /\ Live(p) /\ ~stop[p] /\ stop' = [stop EXCEPT ![p] = TRUE]
    /\ UNCHANGED <<disk, lock, run, mem, runs>>

----------------------------------------
(* Before the first training step.                                         *)

\* FAULT: the answer of flock is not looked at.
EnterAnyway(p) ==
    /\ At(p, "lock") /\ dir' = TRUE /\ UNCHANGED <<ident, tmps, ckpt, cands, out>>
    /\ lock' = p /\ Go(p, "inspect") /\ UNCHANGED <<mem, stop, runs>>
AcquireLock(p) ==
    /\ At(p, "lock") /\ dir' = TRUE /\ UNCHANGED <<ident, tmps, ckpt, cands, out>>
    /\ IF lock = NoProc
       THEN lock' = p /\ Go(p, "inspect") /\ UNCHANGED <<mem, stop, runs>>
       ELSE End(p, "refused")

TmpFor == {t[1] : t \in tmps}
\* FAULT: no temporary file at all without an identity.
NeedsIdentity ==
    /\ Saved = {} /\ DOMAIN cands = {} /\ TmpFor \subseteq {Marker, 0}
    /\ tmps # {} => ident # None
\* What InitialDirectory accepts.  A death leaves at most one temporary file
\* and the next accepted run removes it, so its count limits are not reached.
InitialDirectory ==
    /\ Saved = {} /\ DOMAIN cands = {} /\ TmpFor \subseteq {Marker, 0}
    /\ 0 \in TmpFor => ident # None
EmptyDirectory == Saved = {} /\ DOMAIN cands = {} /\ tmps = {} /\ ident = None

Inspect(p) ==
    /\ At(p, "inspect") /\ UNCHANGED disk
    /\ IF \/ run[p].how = "resume"
          \/ run[p].how = "initial" /\ InitialDirectory
          \/ run[p].how = "fresh" /\ EmptyDirectory
       THEN Go(p, "prepare") /\ UNCHANGED mem /\ Keep
       ELSE End(p, "refused")

\* Hashing and feature extraction: they leave no trace in this directory.
Prepare(p) ==
    /\ At(p, "prepare") /\ UNCHANGED disk
    /\ IF ~stop[p] THEN Go(p, "recover") /\ UNCHANGED mem /\ Keep ELSE End(p, "stopped")

Recover(p) ==
    /\ At(p, "recover") /\ UNCHANGED <<dir, ident, ckpt, cands, out>>
    /\ IF run[p].how # "initial" THEN Go(p, "identify") /\ UNCHANGED <<tmps, mem>> /\ Keep
       ELSE IF InitialDirectory /\ ident \in {None, run[p].recipe}
       THEN tmps' = {} /\ Go(p, "identify") /\ UNCHANGED mem /\ Keep
       ELSE End(p, "refused") /\ UNCHANGED tmps

Identify(p) ==
    /\ At(p, "identify") /\ UNCHANGED disk
    /\ IF ident \notin {None, run[p].recipe} THEN End(p, "refused")
       ELSE IF stop[p] THEN End(p, "stopped")
       ELSE Go(p, "restore") /\ UNCHANGED mem /\ Keep

Restore(p) ==
    LET r == run[p].recipe
        m == IF run[p].how = "resume" THEN LoadedFile(ckpt[run[p].from]) ELSE Fresh(r)
    IN /\ At(p, "restore") /\ UNCHANGED disk
       /\ IF run[p].how = "resume" /\ (run[p].from \notin Saved \/ ~ResumeMatches(m, r))
          THEN End(p, "refused")
          ELSE /\ run' = [run EXCEPT ![p].pc = "mark", ![p].start = m.state.step]
               /\ mem' = [mem EXCEPT ![p] = m] /\ Keep

\* identity.txt, through a temporary file of its own.
Mark(p) ==
    /\ At(p, "mark") /\ tmps' = tmps \cup {<<Marker, run[p].no>>} /\ Go(p, "marked")
    /\ UNCHANGED <<dir, ident, ckpt, cands, out, mem>> /\ Keep
CommitMark(p) ==
    /\ At(p, "marked") /\ tmps' = tmps \ {<<Marker, run[p].no>>} /\ ident' = run[p].recipe
    /\ Go(p, IF run[p].how = "resume" THEN "loop" ELSE "save")
    /\ UNCHANGED <<dir, ckpt, cands, out, mem>> /\ Keep

----------------------------------------
(* save_state, save_candidate and the training loop.                       *)

State(p) == mem[p].state

SaveState(p) ==
    /\ At(p, "save") /\ tmps' = tmps \cup {<<State(p).step, run[p].no>>} /\ Go(p, "commit")
    /\ UNCHANGED <<dir, ident, ckpt, cands, out, mem>> /\ Keep
CommitState(p) ==
    /\ At(p, "commit") /\ tmps' = tmps \ {<<State(p).step, run[p].no>>}
    /\ ckpt' = Put(ckpt, State(p).step, SavedFile(mem[p]))
    /\ Go(p, "prune") /\ UNCHANGED <<dir, ident, cands, out, mem>> /\ Keep

\* FAULT: the sort is the other way round.
ExcessNewest == IF Cardinality(Saved) > 2 THEN {Max(Saved)} ELSE {}
\* The next file of the loop that removes all but the two greatest names.
Excess == IF Cardinality(Saved) > 2 THEN {Min(Saved)} ELSE {}

Prune(p) ==
    /\ At(p, "prune")
    /\ ckpt' = Restrict(ckpt, Saved \ Excess)
    /\ UNCHANGED <<dir, ident, tmps, cands, out>>
    /\ IF Excess # {} THEN UNCHANGED <<run, mem>> /\ Keep
       ELSE IF run[p].after = "stopped" THEN End(p, "stopped")
       ELSE Go(p, run[p].after) /\ UNCHANGED mem /\ Keep

SaveThen(p, after) == run' = [run EXCEPT ![p].pc = "save", ![p].after = after]

\* FAULT: the control file is read once per epoch.
PollEachEpoch(p) ==
    /\ At(p, "loop") /\ UNCHANGED <<disk, mem>> /\ Keep
    /\ IF stop[p] /\ Slot(State(p)) = 0 THEN SaveThen(p, "stopped")
       ELSE IF Finished(State(p)) THEN Go(p, IF run[p].start = Total THEN "last" ELSE "export")
       ELSE Go(p, "step")
\* The poll at the head of the loop, and the one behind it before the export.
Poll(p) ==
    /\ At(p, "loop") /\ UNCHANGED <<disk, mem>> /\ Keep
    /\ IF stop[p] THEN SaveThen(p, "stopped")
       ELSE IF Finished(State(p)) THEN Go(p, IF run[p].start = Total THEN "last" ELSE "export")
       ELSE Go(p, "step")

TrainStep(p) ==
    LET m == TrainOnce(mem[p])
        s == m.state
    IN /\ At(p, "step") /\ UNCHANGED disk /\ Keep
       /\ mem' = [mem EXCEPT ![p] = m]
       /\ run' = [run EXCEPT ![p].late = IF stop[p] THEN @ + 1 ELSE 0,
            ![p].after = "cand",
            ![p].pc = IF Slot(s) # 0 THEN "loop"
                      ELSE IF Epoch(s) % SaveEvery = 0 \/ Finished(s) THEN "save" ELSE "cand"]

\* After the loop only for a run that found the training complete.
SaveCandidate(p) ==
    LET e == Epoch(State(p))
    IN /\ run[p].pc \in {"cand", "last"}
       /\ cands' = IF Slot(State(p)) = 0 /\ e \in 1..LastCand /\ e % CandEvery = 0
                   THEN Put(cands, e, mem[p].trainer.net) ELSE cands
       /\ Go(p, IF At(p, "last") THEN "export" ELSE "loop")
       /\ UNCHANGED <<dir, ident, tmps, ckpt, out, mem>> /\ Keep

Export(p) ==
    /\ At(p, "export") /\ out' = {mem[p].trainer.net}
    /\ UNCHANGED <<dir, ident, tmps, ckpt, cands>> /\ End(p, "idle")

----------------------------------------
(* A step throws: ~CheckpointFile unlinks the temporary file of this run.  *)
Fail(p) ==
    /\ Live(p) /\ tmps' = {t \in tmps : t[2] # run[p].no} /\ End(p, "idle")
    /\ UNCHANGED <<dir, ident, ckpt, cands, out>>
\* The process is killed.
Die(p) == Live(p) /\ End(p, "idle") /\ UNCHANGED disk

Step(p) ==
    \/ AcquireLock(p) \/ Inspect(p) \/ Prepare(p) \/ Recover(p) \/ Identify(p) \/ Restore(p)
    \/ Mark(p) \/ CommitMark(p) \/ SaveState(p) \/ CommitState(p) \/ Prune(p)
    \/ Poll(p) \/ TrainStep(p) \/ SaveCandidate(p) \/ Export(p)

Next ==
    \E p \in Procs :
        \/ \E r \in Recipes : LaunchByService(p, r) \/ LaunchByHand(p, r)
        \/ AskToStop(p) \/ Step(p) \/ Fail(p) \/ Die(p)

Spec == Init /\ [][Next]_vars

----------------------------------------
(* Properties.                                                             *)

States == [identity : Recipes, step : 0..Total, order : [1..Clips -> 1..Clips], random : Nat]

\* The types of the variables; an order is a permutation, as RunState::validate
\* requires, and a run beyond its first steps holds the flock.
TypeOK ==
    /\ dir \in BOOLEAN /\ ident \in Recipes \cup {None} /\ runs \in 0..MaxRuns
    /\ tmps \subseteq ({Marker} \cup 0..Total) \X (1..MaxRuns)
    /\ Saved \subseteq 0..Total /\ DOMAIN cands \subseteq 1..Epochs
    /\ lock \in Procs \cup {NoProc}
    /\ \A p \in Procs :
         /\ stop[p] \in BOOLEAN
         /\ Live(p) /\ ~At(p, "lock") => lock = p
         /\ mem[p] # Nothing => State(p) \in States /\ Range(State(p).order) = 1..Clips

\* A training that is never interrupted: its state after each number of steps.
Uninterrupted(r) ==
    LET f[n \in 0..Total] == IF n = 0 THEN Fresh(r) ELSE TrainOnce(f[n - 1])
    IN [n \in 0..Total |-> f[n]]
Ideal == [r \in Recipes |-> Uninterrupted(r)]

\* However often a run was stopped, killed, failed, met by another or started
\* with another recipe, every checkpoint, candidate and model comes from the
\* updates (clip, crop, learning rate, noise) that the uninterrupted training
\* of the directory's recipe had made at that step, and so does what a run
\* holds in memory (save_checkpoint, load_checkpoint, RunState::advance).
ResumeIsExact ==
    /\ TypeOK
    /\ \A s \in Saved : ident # None /\ ckpt[s] = SavedFile(Ideal[ident][s])
    /\ \A e \in DOMAIN cands : cands[e] = Ideal[ident][e * Clips].trainer.net
    /\ out \subseteq {Ideal[r][Total].trainer.net : r \in {ident} \cap Recipes}
    /\ \A p \in Procs : mem[p] # Nothing => mem[p] = Ideal[run[p].recipe][State(p).step]

\* Rolling the checkpoints never loses the furthest progress, in whatever
\* order runs resume from older checkpoints and prune (save_state).
ProgressIsKept == [][Saved # {} => Saved' # {} /\ Max(Saved') >= Max(Saved)]_vars

\* A run that the service starts, with nobody else in the directory, finds it
\* fit to go on from, wherever earlier runs died or failed, unless it belongs
\* to another recipe (latest_full_checkpoint, InitialDirectory).
ServiceCanResume ==
    \A p \in Procs :
        run[p].auto /\ At(p, "refused") /\ ~run[p].met
            => ident \notin {None, run[p].recipe}

\* When a run of the service stops on request in the loop, the checkpoint of
\* the step it stopped at is there and is the one the next run will resume
\* from (save_on_stop, save_state).
StopKeepsStep ==
    [][\A p \in Procs :
        At(p, "prune") /\ run'[p].pc = "stopped" /\ run[p].auto /\ ~run[p].met
            => Saved' # {} /\ Max(Saved') = State(p).step]_vars

\* A run makes at most one training step after it is asked to stop: the loop
\* reads the control file before every step (TrainingCancelReader::poll).
StopIsPrompt == \A p \in Procs : run[p].late <= 1

\* A request to stop costs one step at most and loses none.
StopIsHonoured == []StopIsPrompt /\ StopKeepsStep

\* A completed training has left every candidate of its schedule: docs/CLI.md
\* says that epochs 50, 100, 150 and 200 are saved (save_candidate).
CandidatesAreSaved ==
    out # {} => \A e \in 1..Epochs : e % CandEvery = 0 /\ e <= LastCand => e \in DOMAIN cands
=============================================================================
