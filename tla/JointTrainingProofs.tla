------------------------ MODULE JointTrainingProofs ------------------------
(***************************************************************************)
(* Resuming a joint training is exact, for any number of runs in one       *)
(* directory, any dataset, any length of the recipe and any shuffles.      *)
(*                                                                         *)
(* The argument has two halves.  One is about data: the training that is   *)
(* never interrupted, Ideal, is a recursive function, so what its states   *)
(* look like is an induction over the step.  The induction theorems of the *)
(* library take a predicate; here a set is shown to be all of Nat by its   *)
(* least counterexample, which needs no predicate.                         *)
(*                                                                         *)
(* The other half is the inductive invariant JointInv: flock leaves one    *)
(* run at work; what that run holds in memory is Ideal at its step; the    *)
(* files are Ideal at the steps in their names, all of the recipe in       *)
(* identity.txt; a directory without a checkpoint is one that --initial    *)
(* accepts; and a run of the service that meets no other run knows which   *)
(* checkpoint is the furthest.                                             *)
(***************************************************************************)
EXTENDS JointTraining, FiniteSetTheorems, WellFoundedInduction, TLAPS

----------------------------------------
(* Naturals: least and greatest members, and induction. *)
\* Every set of naturals has a least member.
LEMMA Least == ASSUME NEW T \in SUBSET Nat, T # {} PROVE \E m \in T : \A k \in T : m <= k
<1> DEFINE R == {ss \in Nat \X Nat : ss[1] < ss[2]}
<1>1. IsWellFoundedOn(R, Nat) BY NatLessThanWellFounded DEF OpToRel
<1> HIDE DEF R
<1>2. \E x \in T : \A y \in T : ~(<<y, x>> \in R) BY <1>1, WFMin
<1>3. \A x, y \in Nat : ~(<<y, x>> \in R) => x <= y BY DEF R
<1> QED BY <1>2, <1>3

\* Induction, for a set instead of a predicate.
LEMMA Induction == ASSUME NEW S \in SUBSET Nat, 0 \in S, \A n \in S : n + 1 \in S PROVE S = Nat
<1> SUFFICES ASSUME Nat \ S # {} PROVE FALSE OBVIOUS
<1>1. PICK m \in Nat \ S : \A k \in Nat \ S : m <= k BY Least
<1>2. m # 0 /\ m - 1 \in Nat /\ m - 1 < m BY <1>1
<1>3. m - 1 \in S BY <1>1, <1>2
<1> QED BY <1>1, <1>2, <1>3

\* A bounded set of naturals has a greatest member.
LEMMA Greatest ==
    ASSUME NEW n \in Nat, NEW T \in SUBSET (0..n), T # {}
    PROVE  \E m \in T : \A k \in T : k <= m
<1> DEFINE D == {n - k : k \in T}
<1>0. PICK t \in T : TRUE OBVIOUS
<1>1. D \in SUBSET Nat /\ D # {}
  <2>1. \A k \in T : n - k \in Nat OBVIOUS
  <2>2. n - t \in D OBVIOUS
  <2> QED BY <2>1, <2>2
<1>2. PICK d \in D : \A e \in D : d <= e BY <1>1, Least
<1>3. PICK m \in T : d = n - m BY <1>2
<1>4. \A k \in T : n - m <= n - k BY <1>2, <1>3
<1>5. \A k \in T : k <= m BY <1>4
<1> QED BY <1>5

\* So Max and Min of a set of steps are members and bounds of it.
LEMMA MaxFacts ==
    ASSUME NEW n \in Nat, NEW T \in SUBSET (0..n), T # {}
    PROVE  Max(T) \in T /\ \A k \in T : k <= Max(T)
<1>1. \E m \in T : \A k \in T : m >= k BY Greatest
<1> QED BY <1>1 DEF Max

LEMMA MinFacts ==
    ASSUME NEW n \in Nat, NEW T \in SUBSET (0..n), T # {}
    PROVE  Min(T) \in T /\ \A k \in T : Min(T) <= k
<1>1. \E m \in T : \A k \in T : m <= k BY Least
<1> QED BY <1>1 DEF Min

----------------------------------------
(* The training that is never interrupted. *)

\* The recursion of Uninterrupted has a solution, however long it is.
LEMMA TrainingExists ==
    ASSUME NEW a, NEW k \in Nat
    PROVE  \E g : g = [n \in 0..k |-> IF n = 0 THEN a ELSE TrainOnce(g[n - 1])]
<1> DEFINE S == {j \in Nat : \E g : g = [n \in 0..j |-> IF n = 0 THEN a ELSE TrainOnce(g[n - 1])]}
<1>1. 0 \in S
  <2>1. [n \in 0..0 |-> a] = [n \in 0..0 |-> IF n = 0 THEN a ELSE TrainOnce([m \in 0..0 |-> a][n - 1])]
    OBVIOUS
  <2> QED BY <2>1
<1>2. ASSUME NEW j \in S PROVE j + 1 \in S
  <2>1. PICK g : g = [n \in 0..j |-> IF n = 0 THEN a ELSE TrainOnce(g[n - 1])] BY <1>2
  <2>0. j \in Nat BY <1>2
  <2> DEFINE h == [n \in 0..(j + 1) |-> IF n <= j THEN g[n] ELSE TrainOnce(g[j])]
             e == [n \in 0..(j + 1) |-> IF n = 0 THEN a ELSE TrainOnce(h[n - 1])]
  <2>2. \A n \in 0..(j + 1) : h[n] = IF n = 0 THEN a ELSE TrainOnce(h[n - 1])
    <3> SUFFICES ASSUME NEW n \in 0..(j + 1) PROVE h[n] = IF n = 0 THEN a ELSE TrainOnce(h[n - 1]) OBVIOUS
    <3>1. CASE n = 0 BY <2>0, <2>1, <3>1
    <3>2. CASE n \in 1..j
      <4>1. g[n] = TrainOnce(g[n - 1]) BY <2>0, <2>1, <3>2
      <4>2. h[n] = g[n] /\ h[n - 1] = g[n - 1] /\ n # 0 BY <2>0, <3>2
      <4> QED BY <4>1, <4>2
    <3>3. CASE n = j + 1
      <4>1. h[n] = TrainOnce(g[j]) /\ h[j] = g[j] /\ n - 1 = j /\ n # 0 BY <2>0, <3>3
      <4> HIDE DEF h
      <4> QED BY <4>1
    <3> QED BY <2>0, <3>1, <3>2, <3>3
  <2>3. h = e
    <3>1. \A n \in 0..(j + 1) : h[n] = e[n] BY <2>2
    <3> QED BY <3>1
  <2> HIDE DEF h
  <2> QED BY <2>0, <2>3
<1> HIDE DEF S
<1>3. S = Nat
  <2>1. S \in SUBSET Nat BY DEF S
  <2> QED BY <1>1, <1>2, <2>1, Induction
<1> QED BY <1>3 DEF S

\* The uninterrupted training, step by step.
LEMMA IdealSteps ==
    ASSUME NEW r \in Recipes
    PROVE  /\ Ideal[r] = [n \in 0..Total |-> Ideal[r][n]]
           /\ Ideal[r][0] = Fresh(r)
           /\ \A n \in 0..Total : n # 0 => Ideal[r][n] = TrainOnce(Ideal[r][n - 1])
<1>1. Total \in Nat BY TrainingAssumption DEF Total
<1> DEFINE F(g) == [n \in 0..Total |-> IF n = 0 THEN Fresh(r) ELSE TrainOnce(g[n - 1])]
           f == CHOOSE g : g = F(g)
<1>2. f = F(f)
  <2>1. \E g : g = F(g) BY <1>1, TrainingExists
  <2> QED BY <2>1
<1>3. Ideal[r] = [n \in 0..Total |-> f[n]] BY DEF Ideal, Uninterrupted
<1> HIDE DEF f
<1>4. 0 \in 0..Total /\ f[0] = Fresh(r) BY <1>1, <1>2
<1>5. \A n \in 0..Total : n # 0 => f[n] = TrainOnce(f[n - 1]) /\ n - 1 \in 0..Total BY <1>1, <1>2
<1> QED BY <1>3, <1>4, <1>5

\* RunState, JointTrainer and both together, by their parts.
St(r, n, o, x) == [identity |-> r, step |-> n, order |-> o, random |-> x]
Tr(r, n, g, w) == [model |-> r, steps |-> n, lr |-> n \div Clips, rng |-> g, net |-> w]
Mem(r, n, o, x, g, w) == [state |-> St(r, n, o, x), trainer |-> Tr(r, n, g, w)]

\* The kinds of the constants.
LEMMA Numbers == /\ Clips \in Nat \ {0} /\ Epochs \in Nat \ {0} /\ Total \in Nat /\ MaxRuns \in Nat
                 /\ LastCand \in Nat /\ CandEvery \in Nat
  BY TrainingAssumption DEF Total

\* Epoch and slot of a step.
LEMMA DivMod ==
    ASSUME NEW n \in Nat
    PROVE  /\ n \div Clips \in Nat /\ n % Clips \in 0..(Clips - 1)
           /\ n = (n \div Clips) * Clips + (n % Clips)
  BY Numbers

\* What a crop and RunState::advance do to the parts of a state.
LEMMA CropDrawnOf ==
    ASSUME NEW r, NEW n, NEW o, NEW x \in Nat
    PROVE  CropDrawn(St(r, n, o, x)) = St(r, n, o, x + 1)
  BY DEF CropDrawn, St

LEMMA AdvanceOf ==
    ASSUME NEW r, NEW n \in Nat, NEW o, NEW x \in Nat
    PROVE  \/ AdvanceState(St(r, n, o, x)) = St(r, n + 1, o, x)
           \/ AdvanceState(St(r, n, o, x)) = St(r, n + 1, Shuffle(o, x), x + 1)
<1> DEFINE t == [St(r, n, o, x) EXCEPT !.step = @ + 1]
           u == [t EXCEPT !.order = Shuffle(@, t.random), !.random = @ + 1]
<1>1. t = St(r, n + 1, o, x) BY DEF St
<1>2. AdvanceState(St(r, n, o, x)) = IF Slot(t) = 0 /\ ~Finished(t) THEN u ELSE t BY DEF AdvanceState
<1>3. u = St(r, n + 1, Shuffle(o, x), x + 1)
  <2> DEFINE v == St(r, n + 1, o, x)
  <2>1. u = [v EXCEPT !.order = Shuffle(@, v.random), !.random = @ + 1] BY <1>1
  <2> HIDE DEF t, u
  <2> QED BY <2>1 DEF St
<1> HIDE DEF t, u
<1> QED BY <1>1, <1>2, <1>3

\* One training step from a state of the right form gives one of the right form.
LEMMA TrainOnceOf ==
    ASSUME NEW r, NEW n \in Nat, n < Total, NEW o \in Orders, NEW x \in 0..(2 * n + 1), NEW g \in Nat, NEW w
    PROVE  \E o2 \in Orders, x2 \in 0..(2 * (n + 1) + 1) : \E w2 :
               TrainOnce(Mem(r, n, o, x, g, w)) = Mem(r, n + 1, o2, x2, g + 2, w2)
<1> DEFINE m == Mem(r, n, o, x, g, w)
           update == [clip |-> m.state.order[Slot(m.state) + 1], crop |-> m.state.random,
                      lr |-> m.trainer.lr, noise |-> m.trainer.rng]
           s == AdvanceState(CropDrawn(m.state))
<1>1. m.state = St(r, n, o, x) /\ m.trainer = Tr(r, n, g, w) BY DEF Mem
<1>2. PICK o2 \in Orders, x2 \in 0..(2 * (n + 1) + 1) : s = St(r, n + 1, o2, x2)
  <2>1. s = St(r, n + 1, o, x + 1) \/ s = St(r, n + 1, Shuffle(o, x + 1), x + 1 + 1)
    BY <1>1, CropDrawnOf, AdvanceOf
  <2>2. Shuffle(o, x + 1) \in Orders BY TrainingAssumption, Numbers
  <2> HIDE DEF s
  <2> QED BY <2>1, <2>2
<1>3. TrainOnce(m) = [state |-> s,
        trainer |-> [m.trainer EXCEPT !.steps = @ + 1, !.rng = @ + 2, !.lr = LearningRate(s),
                                      !.net = Append(@, update)]]
  BY DEF TrainOnce
<1> HIDE DEF m, update, s
<1>4. LearningRate(s) = (n + 1) \div Clips BY <1>2 DEF LearningRate, Epoch, St
<1> DEFINE tr == [m.trainer EXCEPT !.steps = @ + 1, !.rng = @ + 2, !.lr = LearningRate(s),
                                   !.net = Append(@, update)]
<1>5. tr = Tr(r, n + 1, g + 2, Append(w, update))
  <2>1. PICK l : l = LearningRate(s) OBVIOUS
  <2>2. tr = [Tr(r, n, g, w) EXCEPT !.steps = @ + 1, !.rng = @ + 2, !.lr = l, !.net = Append(@, update)]
    BY <1>1, <2>1
  <2> HIDE DEF tr
  <2> QED BY <1>4, <2>1, <2>2 DEF Tr
<1> HIDE DEF tr
<1>6. TrainOnce(m) = Mem(r, n + 1, o2, x2, g + 2, Append(w, update)) BY <1>2, <1>3, <1>5 DEF Mem, tr
<1> QED BY <1>6 DEF m

\* By induction every state of the uninterrupted training has that form: its
\* order is a permutation and its step, learning rate and model are its own.
LEMMA IdealForm ==
    ASSUME NEW r \in Recipes, NEW n \in 0..Total
    PROVE  \E o \in Orders, x \in 0..(2 * n + 1), g \in Nat : \E w : Ideal[r][n] = Mem(r, n, o, x, g, w)
<1> DEFINE Good(k) == \E o \in Orders, x \in 0..(2 * k + 1), g \in Nat :
                         \E w : Ideal[r][k] = Mem(r, k, o, x, g, w)
           S == {k \in Nat : k <= Total => Good(k)}
<1>1. 0 \in S
  <2> DEFINE id == [i \in 1..Clips |-> i]
             o == Shuffle(id, 0)
  <2>1. id \in Orders
    <3>1. Range(id) = 1..Clips BY DEF Range
    <3> QED BY <3>1 DEF Orders
  <2>2. 0 \in 0..(2 * Total) BY Numbers
  <2> HIDE DEF id
  <2>3. o \in Orders BY <2>1, <2>2, TrainingAssumption
  <2>4. 0 \div Clips = 0 BY Numbers
  <2>5. Ideal[r][0] = Mem(r, 0, o, 1, 0, << >>)
    <3>1. Ideal[r][0] = [state |-> BeginState(r), trainer |-> InitTrainer(r)] BY IdealSteps DEF Fresh
    <3>2. BeginState(r) = St(r, 0, o, 1) BY DEF BeginState, St, id
    <3>3. InitTrainer(r) = Tr(r, 0, 0, << >>) BY <2>4 DEF InitTrainer, Tr
    <3> QED BY <3>1, <3>2, <3>3 DEF Mem
  <2> HIDE DEF o
  <2>6. Good(0) BY <2>3, <2>5
  <2> QED BY <2>6
<1>2. ASSUME NEW k \in S PROVE k + 1 \in S
  <2> SUFFICES ASSUME k + 1 <= Total PROVE Good(k + 1) BY <1>2
  <2>0. k \in Nat /\ (k <= Total => Good(k)) BY <1>2
  <2>1. k < Total /\ k + 1 \in 0..Total /\ k + 1 # 0 /\ (k + 1) - 1 = k BY <2>0, Numbers
  <2>2. PICK o, x, g, w : /\ o \in Orders /\ x \in 0..(2 * k + 1) /\ g \in Nat
                        /\ Ideal[r][k] = Mem(r, k, o, x, g, w)
    <3>1. Good(k) BY <2>0, <2>1, Numbers
    <3> QED BY <3>1
  <2>3. Ideal[r][k + 1] = TrainOnce(Mem(r, k, o, x, g, w))
    <3>1. Ideal[r][k + 1] = TrainOnce(Ideal[r][(k + 1) - 1]) BY <2>1, IdealSteps
    <3> QED BY <2>1, <2>2, <3>1
  <2>4. PICK o2, x2, w2 :
           /\ o2 \in Orders /\ x2 \in 0..(2 * (k + 1) + 1)
           /\ TrainOnce(Mem(r, k, o, x, g, w)) = Mem(r, k + 1, o2, x2, g + 2, w2)
    BY <2>0, <2>1, <2>2, TrainOnceOf
  <2>5. g + 2 \in Nat BY <2>2
  <2> QED BY <2>3, <2>4, <2>5
<1> HIDE DEF S
<1>3. S = Nat
  <2>1. S \in SUBSET Nat BY DEF S
  <2> QED BY <1>1, <1>2, <2>1, Induction
<1>4. n \in Nat /\ n <= Total BY Numbers
<1>5. Good(n) BY <1>3, <1>4 DEF S
<1> QED BY <1>5

\* What the steps use of it.
LEMMA IdealFacts ==
    ASSUME NEW r \in Recipes, NEW n \in 0..Total
    PROVE  /\ Ideal[r][n].state \in States /\ Range(Ideal[r][n].state.order) = 1..Clips
           /\ Ideal[r][n].state.step = n /\ Ideal[r][n].state.identity = r
           /\ LoadedFile(SavedFile(Ideal[r][n])) = Ideal[r][n]
           /\ ResumeMatches(Ideal[r][n], r)
           /\ Ideal[r][n] # Nothing
<1>1. PICK o, x, g, w : /\ o \in Orders /\ x \in 0..(2 * n + 1) /\ g \in Nat
                        /\ Ideal[r][n] = Mem(r, n, o, x, g, w)
  BY IdealForm
<1>2. /\ n \in Nat /\ Mem(r, n, o, x, g, w).state = St(r, n, o, x)
      /\ Mem(r, n, o, x, g, w).trainer = Tr(r, n, g, w)
  BY Numbers DEF Mem
<1>3. St(r, n, o, x) \in States /\ Range(o) = 1..Clips /\ St(r, n, o, x).order = o
  <2>1. o \in Orders /\ x \in Nat /\ n \in 0..Total BY <1>1, <1>2
  <2> QED BY <2>1 DEF St, States, Orders
<1>4. LoadedFile(SavedFile(Mem(r, n, o, x, g, w))) = Mem(r, n, o, x, g, w)
  BY DEF LoadedFile, SavedFile, Mem, St, Tr
<1>5. ResumeMatches(Mem(r, n, o, x, g, w), r) BY DEF ResumeMatches, LearningRate, Epoch, Mem, St, Tr
<1>6. Mem(r, n, o, x, g, w) # Nothing
  <2>1. DOMAIN Mem(r, n, o, x, g, w) = {"state", "trainer"} /\ DOMAIN Nothing = {} BY DEF Mem, Nothing
  <2> QED BY <2>1
<1>7. St(r, n, o, x).step = n /\ St(r, n, o, x).identity = r BY DEF St
<1> QED BY <1>1, <1>2, <1>3, <1>4, <1>5, <1>6, <1>7

----------------------------------------
(* The invariant. *)

Pcs == Ended \cup {"lock", "inspect", "prepare", "recover", "identify", "restore", "mark", "marked",
                   "save", "commit", "prune", "loop", "step", "cand", "last", "export"}
RunType ==
    [pc : Pcs, auto : BOOLEAN, recipe : Recipes \cup {None}, how : {"fresh", "initial", "resume"},
     from : 0..Total, no : 0..MaxRuns, start : 0..Total, after : {"loop", "cand", "stopped"},
     late : 0..1, met : BOOLEAN]

Entering == {"lock", "inspect", "prepare", "recover", "identify", "restore"}
Marking == {"mark", "marked"}
Saving == {"save", "commit"}
Looping == {"prune", "loop", "step", "cand", "last", "export"}
Loaded == Marking \cup Saving \cup Looping
Working(p) == Live(p) /\ ~At(p, "lock")

\* The variables of a run.
ProcInv(p) ==
    /\ run[p] \in RunType /\ stop[p] \in BOOLEAN
    /\ Live(p) => run[p].recipe \in Recipes /\ run[p].no \in 1..MaxRuns
    /\ run[p].late = 1 => stop[p] /\ ~At(p, "step") /\ run[p].pc \in Saving \cup Looping

\* flock leaves one run at work, and there is a directory to hold it in.
LockInv ==
    /\ lock \in Procs \cup {NoProc} /\ (lock # NoProc => Working(lock))
    /\ \A p \in Procs : Working(p) => lock = p /\ dir

\* What a run holds in memory is the uninterrupted training at its step.
MemInv(p) ==
    /\ run[p].pc \notin Loaded => mem[p] = Nothing
    /\ run[p].pc \in Loaded =>
         State(p).step \in 0..Total /\ mem[p] = Ideal[run[p].recipe][State(p).step]
    /\ At(p, "step") => State(p).step < Total
    /\ run[p].pc \in {"last", "export"} => State(p).step = Total

\* How far the directory is prepared for the run at work in it.
MarkInv(p) ==
    /\ run[p].pc \in {"restore"} \cup Marking => ident \in {None, run[p].recipe}
    /\ run[p].pc \in Saving \cup Looping => ident = run[p].recipe
    /\ run[p].pc \in Looping => Saved # {}
    /\ run[p].pc \in Marking =>
         IF run[p].how = "resume" THEN Saved # {} ELSE State(p).step = 0
    /\ run[p].pc \in Saving /\ Saved = {} => State(p).step = 0

\* The files.
DiskInv ==
    /\ dir \in BOOLEAN /\ ident \in Recipes \cup {None} /\ runs \in 0..MaxRuns
    /\ tmps \subseteq ({Marker} \cup 0..Total) \X (1..MaxRuns)
    /\ Saved \subseteq 0..Total /\ DOMAIN cands \subseteq 1..Epochs
    /\ Saved = {} => InitialDirectory
    /\ ~dir => EmptyDirectory
    /\ \A s \in Saved : ident # None /\ ckpt[s] = SavedFile(Ideal[ident][s])
    /\ \A e \in DOMAIN cands :
         e * Clips \in 0..Total /\ cands[e] = Ideal[ident][e * Clips].trainer.net
    /\ out \subseteq {Ideal[r][Total].trainer.net : r \in {ident} \cap Recipes}

\* A run of the service that meets no other knows what it will find.
AloneInv(p) ==
    /\ Live(p) /\ ~run[p].met => \A q \in Procs : Live(q) => q = p
    /\ run[p].auto /\ ~run[p].met =>
         /\ run[p].pc \in {"lock", "inspect"} /\ run[p].how = "fresh" => EmptyDirectory
         /\ run[p].pc \in Entering \cup Marking /\ run[p].how # "resume" => Saved = {}
         /\ run[p].pc \in Entering /\ run[p].how = "resume" =>
              run[p].from \in Saved /\ \A s \in Saved : s <= run[p].from
         /\ run[p].pc \in Loaded => \A s \in Saved : s <= State(p).step
         /\ At(p, "prune") => State(p).step \in Saved
         /\ At(p, "refused") => ident \notin {None, run[p].recipe}

Shapes == DOMAIN run = Procs /\ DOMAIN mem = Procs /\ DOMAIN stop = Procs

JointInv ==
    /\ Shapes /\ DiskInv /\ LockInv
    /\ \A p \in Procs : ProcInv(p) /\ MemInv(p) /\ MarkInv(p) /\ AloneInv(p)

----------------------------------------
(* What an action of one run leaves to the others. *)

OwnInv(p) == ProcInv(p) /\ MemInv(p) /\ MarkInv(p) /\ AloneInv(p)

\* The other runs' variables are not touched.
Frame(p) ==
    \A q \in Procs : q # p => run'[q] = run[q] /\ mem'[q] = mem[q] /\ stop'[q] = stop[q]

\* The groups of program counters.
LEMMA PcSets ==
    /\ Ended = {"idle", "stopped", "refused"}
    /\ Saving \cup Looping \cup Marking = Loaded
    /\ Saving = {"save", "commit"} /\ Marking = {"mark", "marked"}
    /\ Looping = {"prune", "loop", "step", "cand", "last", "export"}
    /\ Entering = {"lock", "inspect", "prepare", "recover", "identify", "restore"}
  BY DEF Ended, Saving, Looping, Marking, Loaded, Entering

\* Two runs are never at work together.
LEMMA OneAtWork ==
    ASSUME JointInv, NEW p \in Procs, NEW q \in Procs, Working(p), Working(q)
    PROVE  p = q
  BY DEF JointInv, LockInv

\* A step that leaves the files alone disturbs no other run.
LEMMA OthersKeepQuiet ==
    ASSUME JointInv, NEW p \in Procs, Live(p), Frame(p), UNCHANGED <<ident, ckpt, cands>>
    PROVE  \A q \in Procs : q # p => OwnInv(q)'
<1> SUFFICES ASSUME NEW q \in Procs, q # p PROVE OwnInv(q)' OBVIOUS
<1>1. run'[q] = run[q] /\ mem'[q] = mem[q] /\ stop'[q] = stop[q] /\ Saved' = Saved BY DEF Frame, Saved
<1>2. ProcInv(q) /\ MemInv(q) /\ MarkInv(q) /\ AloneInv(q) BY DEF JointInv
<1>3. ProcInv(q)' /\ MemInv(q)' BY <1>1, <1>2 DEF ProcInv, MemInv, Live, At, State
<1>4. MarkInv(q)' BY <1>1, <1>2 DEF MarkInv, State
<1>5. (Live(q) /\ ~run[q].met) => FALSE BY <1>2 DEF AloneInv
<1>6. CASE Live(q)
  <2>1. AloneInv(q)' BY <1>1, <1>5, <1>6 DEF AloneInv
  <2> QED BY <1>3, <1>4, <2>1 DEF OwnInv
<1>7. CASE ~Live(q)
  <2>1. AloneInv(q)' BY <1>1, <1>2, <1>7, PcSets DEF AloneInv, Live, At
  <2> QED BY <1>3, <1>4, <2>1 DEF OwnInv
<1> QED BY <1>6, <1>7

\* A step of the run at work disturbs no other run: an identity stays.
LEMMA OthersKeep ==
    ASSUME JointInv, NEW p \in Procs, Working(p), Frame(p), ident # None => ident' = ident
    PROVE  \A q \in Procs : q # p => OwnInv(q)'
<1> SUFFICES ASSUME NEW q \in Procs, q # p PROVE OwnInv(q)' OBVIOUS
<1>1. run'[q] = run[q] /\ mem'[q] = mem[q] /\ stop'[q] = stop[q] BY DEF Frame
<1>2. ProcInv(q) /\ MemInv(q) /\ MarkInv(q) /\ AloneInv(q) BY DEF JointInv
<1>3. ~Working(q) BY OneAtWork
<1>4. run[q].pc \in Ended \cup {"lock"} BY <1>3 DEF Working, Live, At
<1>5. run[q].pc \notin Loaded /\ run[q].pc # "restore" BY <1>4, PcSets
<1>6. ProcInv(q)' /\ MemInv(q)' BY <1>1, <1>2, <1>5, PcSets DEF ProcInv, MemInv, Live, At
<1>7. MarkInv(q)' BY <1>1, <1>5, PcSets DEF MarkInv
<1>8. (Live(q) /\ ~run[q].met) => FALSE BY <1>2 DEF AloneInv, Working
<1>9. AloneInv(q)' BY <1>1, <1>2, <1>4, <1>5, <1>8, PcSets DEF AloneInv, Live, At, Ended
<1> QED BY <1>6, <1>7, <1>9 DEF OwnInv

\* The run that acts and the others.
LEMMA Combine ==
    ASSUME NEW p \in Procs, Shapes', DiskInv', LockInv', OwnInv(p)', \A q \in Procs : q # p => OwnInv(q)'
    PROVE  JointInv'
  BY DEF JointInv, OwnInv

\* The lock stays with a run that goes on.
LEMMA LockStays ==
    ASSUME JointInv, NEW p \in Procs, Working(p), Frame(p), UNCHANGED <<dir, lock>>, Working(p)'
    PROVE  LockInv'
<1>1. \A q \in Procs : q # p => (Working(q)' <=> Working(q)) BY DEF Frame, Working, Live, At
<1>2. lock = p /\ dir /\ LockInv BY DEF JointInv, LockInv
<1> QED BY <1>1, <1>2 DEF LockInv

\* A run that goes on to another step.
LEMMA GoFacts ==
    ASSUME JointInv, NEW p \in Procs, NEW x \in Pcs, Go(p, x), UNCHANGED stop, DOMAIN mem' = DOMAIN mem,
           \A q \in Procs : q # p => mem'[q] = mem[q]
    PROVE  /\ Shapes' /\ Frame(p)
           /\ run'[p] \in RunType /\ run'[p].pc = x
           /\ run'[p].auto = run[p].auto /\ run'[p].recipe = run[p].recipe /\ run'[p].how = run[p].how
           /\ run'[p].from = run[p].from /\ run'[p].no = run[p].no /\ run'[p].start = run[p].start
           /\ run'[p].after = run[p].after /\ run'[p].late = run[p].late /\ run'[p].met = run[p].met
<1>1. PICK r : r = run[p] OBVIOUS
<1>2. r \in RunType /\ Shapes BY <1>1 DEF JointInv, ProcInv
<1>3. run' = [run EXCEPT ![p] = [r EXCEPT !.pc = x]] BY <1>1 DEF Go
<1>4. run'[p] = [r EXCEPT !.pc = x] /\ \A q \in Procs : q # p => run'[q] = run[q] BY <1>2, <1>3 DEF Shapes
<1>5. DOMAIN run' = Procs BY <1>2, <1>3 DEF Shapes
<1> DEFINE u == [r EXCEPT !.pc = x]
<1>6. u \in RunType /\ u.pc = x /\ u.auto = r.auto /\ u.recipe = r.recipe /\ u.how = r.how /\ u.from = r.from
      /\ u.no = r.no /\ u.start = r.start /\ u.after = r.after /\ u.late = r.late /\ u.met = r.met
  BY <1>2 DEF RunType
<1> HIDE DEF u
<1>7. Shapes' /\ Frame(p) BY <1>2, <1>4, <1>5 DEF Shapes, Frame
<1> QED BY <1>1, <1>4, <1>6, <1>7 DEF u

\* A run that is not there.
LEMMA NoRunType == NoRun \in RunType /\ NoRun.late = 0
<1> DEFINE no == FALSE
<1>1. no \in BOOLEAN OBVIOUS
<1>2. NoRun = [pc |-> "idle", auto |-> no, recipe |-> None, how |-> "fresh", from |-> 0, no |-> 0,
               start |-> 0, after |-> "loop", late |-> 0, met |-> no]
  BY DEF NoRun
<1> HIDE DEF no
<1> QED BY <1>1, <1>2, Numbers DEF RunType, Pcs, Ended

\* A run that ends: what it leaves is a refusal at most.
LEMMA EndKeeps ==
    ASSUME JointInv, NEW p \in Procs, NEW how \in Ended, Live(p), End(p, how), dir => dir', DiskInv',
           how = "refused" /\ run[p].auto /\ ~run[p].met => ident' \notin {None, run[p].recipe}
    PROVE  Shapes' /\ Frame(p) /\ LockInv' /\ OwnInv(p)'
<1>1. PICK r : r = run[p] OBVIOUS
<1>2. r \in RunType /\ Shapes /\ LockInv BY <1>1 DEF JointInv, ProcInv
<1> DEFINE no == FALSE
           ra == how = "refused" /\ r.auto
           rm == how = "refused" /\ r.met
           rr == IF how = "refused" THEN r.recipe ELSE None
           u == [NoRun EXCEPT !.pc = how, !.auto = ra, !.recipe = rr, !.met = rm]
<1>3. run' = [run EXCEPT ![p] = u] BY <1>1 DEF End
<1>4. ra \in BOOLEAN /\ rm \in BOOLEAN /\ rr \in Recipes \cup {None} BY <1>2 DEF RunType
<1>5. (how = "refused" /\ ra /\ ~rm) => (run[p].auto /\ ~run[p].met /\ rr = run[p].recipe) BY <1>1
<1> HIDE DEF ra, rm, rr
<1>6. u \in RunType /\ u.pc = how /\ u.auto = ra /\ u.recipe = rr /\ u.met = rm /\ u.late = 0
  <2>1. NoRun \in RunType /\ NoRun.late = 0 BY NoRunType
  <2>2. PICK n : n = NoRun OBVIOUS
  <2>3. u = [n EXCEPT !.pc = how, !.auto = ra, !.recipe = rr, !.met = rm] BY <2>2
  <2>4. how \in Pcs BY DEF Pcs
  <2> HIDE DEF u
  <2> QED BY <1>4, <2>1, <2>2, <2>3, <2>4, ZenonT(60) DEF RunType
<1> HIDE DEF u
<1>7. run'[p] = u /\ (\A q \in Procs : q # p => run'[q] = run[q]) /\ DOMAIN run' = Procs
  BY <1>2, <1>3 DEF Shapes
<1>8. /\ mem'[p] = Nothing /\ (\A q \in Procs : q # p => mem'[q] = mem[q]) /\ DOMAIN mem' = Procs
      /\ stop'[p] = no /\ (\A q \in Procs : q # p => stop'[q] = stop[q]) /\ DOMAIN stop' = Procs
  BY <1>2 DEF Shapes, End
<1>9. Shapes' /\ Frame(p) BY <1>7, <1>8 DEF Shapes, Frame
<1>10. ~Live(p)' /\ run'[p].pc = how /\ how \notin Loaded /\ how \notin Entering
  BY <1>6, <1>7, PcSets DEF Live, At
<1>11. LockInv'
  <2>1. \A q \in Procs : q # p => (Working(q)' <=> Working(q)) BY <1>7 DEF Working, Live, At
  <2>2. ~Working(p)' BY <1>10 DEF Working
  <2>3. lock' = IF lock = p THEN NoProc ELSE lock BY DEF End
  <2>5. \A q \in Procs : Working(q)' => lock' = q /\ dir' BY <1>2, <2>1, <2>2, <2>3 DEF LockInv
  <2>6. lock' \in Procs \cup {NoProc} /\ (lock' # NoProc => lock' \in Procs /\ lock' # p /\ lock' = lock)
    BY <1>2, <2>3 DEF LockInv
  <2>7. lock' # NoProc => Working(lock)' BY <1>2, <2>1, <2>6 DEF LockInv
  <2> QED BY <2>5, <2>6, <2>7 DEF LockInv
<1>12. ProcInv(p)' /\ MemInv(p)' /\ MarkInv(p)'
  <2>1. how # "step" /\ how \notin {"last", "export", "restore"} /\ how \notin Saving \cup Looping
        /\ how \notin Marking /\ how \notin Looping /\ how \notin Saving
    BY PcSets
  <2>2. ProcInv(p)'
    <3>1. stop'[p] \in BOOLEAN BY <1>8
    <3>2. run'[p] \in RunType /\ run'[p].late = 0 BY <1>6, <1>7
    <3> QED BY <1>10, <3>1, <3>2 DEF ProcInv
  <2>3. MemInv(p)' BY <1>8, <1>10, <2>1 DEF MemInv, At
  <2>4. MarkInv(p)' BY <1>10, <2>1 DEF MarkInv
  <2> QED BY <2>2, <2>3, <2>4
<1>13. AloneInv(p)'
  <2>1. how \notin {"lock", "inspect"} /\ how \notin Entering \cup Marking /\ how # "prune" BY PcSets
  <2> QED BY <1>5, <1>6, <1>7, <1>10, <2>1 DEF AloneInv, At
<1> QED BY <1>9, <1>11, <1>12, <1>13 DEF OwnInv

\* The files are as they were.
LEMMA DiskQuiet == ASSUME DiskInv, UNCHANGED disk, runs' \in 0..MaxRuns PROVE DiskInv'
  BY DEF DiskInv, disk, Saved, InitialDirectory, EmptyDirectory, TmpFor

\* A run that ends without a trace.
LEMMA QuietEnd ==
    ASSUME JointInv, NEW p \in Procs, NEW how \in Ended, Live(p), End(p, how), DiskInv', dir => dir',
           UNCHANGED <<ident, ckpt, cands>>,
           how = "refused" /\ run[p].auto /\ ~run[p].met => ident \notin {None, run[p].recipe}
    PROVE  JointInv'
<1>1. Shapes' /\ Frame(p) /\ LockInv' /\ OwnInv(p)' BY EndKeeps
<1>2. \A q \in Procs : q # p => OwnInv(q)' BY <1>1, OthersKeepQuiet
<1> QED BY <1>1, <1>2, Combine

\* The run at work ends.
LEMMA WorkEnd ==
    ASSUME JointInv, NEW p \in Procs, NEW how \in {"idle", "stopped"}, Working(p), End(p, how), DiskInv',
           UNCHANGED <<dir, ident>>
    PROVE  JointInv'
<1>0. how \in Ended /\ how # "refused" /\ Live(p) BY DEF Ended, Working
<1>1. Shapes' /\ Frame(p) /\ LockInv' /\ OwnInv(p)' BY <1>0, EndKeeps
<1>2. \A q \in Procs : q # p => OwnInv(q)' BY <1>1, OthersKeep
<1> QED BY <1>1, <1>2, Combine

\* The run at work goes on.
LEMMA WorkGoesOn ==
    ASSUME JointInv, NEW p \in Procs, Working(p), Working(p)', Shapes', Frame(p), UNCHANGED <<dir, lock>>,
           ident # None => ident' = ident, DiskInv', OwnInv(p)'
    PROVE  JointInv'
<1>1. LockInv' BY LockStays
<1>2. \A q \in Procs : q # p => OwnInv(q)' BY OthersKeep
<1> QED BY <1>1, <1>2, Combine

----------------------------------------
(* The actions. *)

\* An empty directory and no run.
LEMMA InitJoint == ASSUME Init PROVE JointInv
<1>1. Saved = {} /\ DOMAIN cands = {} /\ tmps = {} /\ ident = None /\ out = {} BY DEF Init, Nothing, Saved
<1>2. DiskInv
  <2>1. TmpFor = {} /\ InitialDirectory /\ EmptyDirectory BY <1>1 DEF TmpFor, InitialDirectory, EmptyDirectory
  <2>2. dir \in BOOLEAN BY DEF Init
  <2>3. runs \in 0..MaxRuns BY Numbers DEF Init
  <2> QED BY <1>1, <2>1, <2>2, <2>3 DEF DiskInv
<1>3. \A p \in Procs : run[p] = NoRun /\ mem[p] = Nothing /\ stop[p] = FALSE BY DEF Init
<1>4. NoRun.pc = "idle" /\ NoRun \in RunType /\ NoRun.late = 0 BY NoRunType DEF NoRun
<1>5. Shapes /\ LockInv BY <1>3, <1>4, TrainingAssumption DEF Init, Shapes, LockInv, Working, Live, At, Ended
<1>6. ASSUME NEW p \in Procs PROVE ProcInv(p) /\ MemInv(p) /\ MarkInv(p) /\ AloneInv(p)
  <2>1. ProcInv(p)
    <3>1. ~Live(p) BY <1>3, <1>4 DEF Live, Ended
    <3>2. stop[p] \in BOOLEAN BY <1>3
    <3> QED BY <1>3, <1>4, <3>1, <3>2 DEF ProcInv
  <2>2. MemInv(p) BY <1>3, <1>4, PcSets DEF MemInv, At
  <2>3. MarkInv(p) BY <1>3, <1>4, PcSets DEF MarkInv
  <2>4. AloneInv(p) BY <1>3, <1>4, PcSets DEF AloneInv, Live, At
  <2> QED BY <2>1, <2>2, <2>3, <2>4
<1> QED BY <1>2, <1>5, <1>6 DEF JointInv

\* A run starts: a fresh one, or one that was told where to resume.
LEMMA StartKeeps ==
    ASSUME JointInv, NEW p \in Procs, NEW auto \in BOOLEAN, NEW r \in Recipes,
           NEW how \in {"fresh", "initial", "resume"}, NEW from \in 0..Total, Start(p, auto, r, how, from),
           auto => /\ how = "fresh" => EmptyDirectory
                   /\ how # "resume" => Saved = {}
                   /\ how = "resume" => from \in Saved /\ \A s \in Saved : s <= from
    PROVE  JointInv'
<1> DEFINE met == \E q \in Procs : Live(q)
           u == [NoRun EXCEPT !.pc = "lock", !.auto = auto, !.recipe = r, !.how = how, !.from = from,
                              !.no = runs + 1, !.met = met]
           v(q) == [run[q] EXCEPT !.met = TRUE]
<1>1. /\ run' = [q \in Procs |-> IF q = p THEN u ELSE IF Live(q) THEN v(q) ELSE run[q]]
      /\ runs < MaxRuns /\ ~Live(p) /\ runs' = runs + 1 /\ UNCHANGED <<stop, disk, lock, mem>>
  BY DEF Start
<1>2. DiskInv /\ LockInv /\ Shapes /\ runs' \in 0..MaxRuns /\ runs + 1 \in 1..MaxRuns
  <2>1. DiskInv /\ LockInv /\ Shapes BY DEF JointInv
  <2>2. runs \in 0..MaxRuns BY <2>1 DEF DiskInv
  <2>3. runs < MaxRuns /\ runs' = runs + 1 BY <1>1
  <2>4. runs + 1 \in 0..MaxRuns /\ runs + 1 \in 1..MaxRuns BY <2>2, <2>3, Numbers
  <2> QED BY <2>1, <2>3, <2>4
<1>3. u \in RunType /\ u.pc = "lock" /\ u.auto = auto /\ u.recipe = r /\ u.how = how /\ u.from = from
      /\ u.no \in 1..MaxRuns /\ u.late = 0 /\ u.met = met
  <2>1. met \in BOOLEAN OBVIOUS
  <2> HIDE DEF met
  <2>2. PICK n, no : n = NoRun /\ no = runs + 1 OBVIOUS
  <2>3. u = [n EXCEPT !.pc = "lock", !.auto = auto, !.recipe = r, !.how = how, !.from = from,
                      !.no = no, !.met = met]
    BY <2>2
  <2>4. no \in 0..MaxRuns /\ no \in 1..MaxRuns BY <1>2, <2>2, Numbers
  <2>5. n \in RunType /\ n.late = 0 BY <2>2, NoRunType
  <2> DEFINE lk == "lock"
  <2>6. lk \in Pcs /\ u = [n EXCEPT !.pc = lk, !.auto = auto, !.recipe = r, !.how = how, !.from = from,
                      !.no = no, !.met = met]
    BY <2>3 DEF Pcs
  <2>7. lk = "lock" /\ r \in Recipes \cup {None} OBVIOUS
  <2> HIDE DEF u, lk
  <2>8. u \in RunType /\ u.pc = lk /\ u.auto = auto /\ u.recipe = r /\ u.how = how /\ u.from = from
        /\ u.no = no /\ u.late = n.late /\ u.met = met
    BY <2>1, <2>4, <2>5, <2>6, <2>7, ZenonT(60) DEF RunType
  <2> QED BY <2>4, <2>5, <2>7, <2>8
<1> HIDE DEF met, u
<1>4. \A q \in Procs : Live(q) =>
        /\ v(q) \in RunType /\ v(q).met /\ v(q).pc = run[q].pc /\ v(q).recipe = run[q].recipe
        /\ v(q).how = run[q].how /\ v(q).no = run[q].no /\ v(q).late = run[q].late
  <2> SUFFICES ASSUME NEW q \in Procs
               PROVE  /\ v(q) \in RunType /\ v(q).met /\ v(q).pc = run[q].pc /\ v(q).recipe = run[q].recipe
                      /\ v(q).how = run[q].how /\ v(q).no = run[q].no /\ v(q).late = run[q].late
    OBVIOUS
  <2> DEFINE yes == TRUE
  <2>1. PICK o : o = run[q] /\ o \in RunType BY DEF JointInv, ProcInv
  <2>2. v(q) = [o EXCEPT !.met = yes] /\ yes \in BOOLEAN /\ yes BY <2>1
  <2> HIDE DEF yes, v
  <2>3. v(q).met = yes BY <2>1, <2>2 DEF RunType
  <2> QED BY <2>1, <2>2, <2>3 DEF RunType
<1> HIDE DEF v
<1>5. run'[p] = u /\ \A q \in Procs : q # p => run'[q] = IF Live(q) THEN v(q) ELSE run[q] BY <1>1
<1>6. Live(p)' /\ ~Working(p)' /\ ~Working(p)
      /\ \A q \in Procs : q # p => (Live(q)' <=> Live(q)) /\ (Working(q)' <=> Working(q))
  BY <1>1, <1>3, <1>4, <1>5 DEF Live, Working, At, Ended
<1>7. DiskInv' /\ Shapes' /\ Saved' = Saved /\ EmptyDirectory' = EmptyDirectory
  <2>1. DiskInv' /\ Saved' = Saved /\ EmptyDirectory' = EmptyDirectory
    BY <1>1, <1>2, DiskQuiet DEF disk, Saved, EmptyDirectory
  <2> QED BY <1>1, <1>2, <2>1 DEF Shapes
<1>8. LockInv'
  <2>1. UNCHANGED <<lock, dir>> BY <1>1 DEF disk
  <2> QED BY <1>2, <1>6, <2>1 DEF LockInv
<1>9. OwnInv(p)'
  <2>0. mem'[p] = Nothing /\ stop'[p] \in BOOLEAN
    <3>1. run[p].pc \notin Loaded BY <1>1, PcSets DEF Live
    <3> QED BY <1>1, <3>1 DEF JointInv, MemInv, ProcInv
  <2>1. ProcInv(p)' BY <1>3, <1>5, <2>0, PcSets DEF ProcInv
  <2>2. MemInv(p)' BY <1>3, <1>5, <2>0, PcSets DEF MemInv, At
  <2>3. MarkInv(p)' BY <1>3, <1>5, PcSets DEF MarkInv
  <2>4. (Live(p)' /\ ~run'[p].met) => \A q \in Procs : Live(q)' => q = p BY <1>3, <1>5, <1>6 DEF met
  <2>5. AloneInv(p)' BY <1>3, <1>5, <1>7, <2>4, PcSets DEF AloneInv, At
  <2> QED BY <2>1, <2>2, <2>3, <2>5 DEF OwnInv
<1>10. ASSUME NEW q \in Procs, q # p PROVE OwnInv(q)'
  <2>0. ProcInv(q) /\ MemInv(q) /\ MarkInv(q) /\ AloneInv(q) BY DEF JointInv
  <2>1. UNCHANGED ident /\ mem'[q] = mem[q] /\ stop'[q] = stop[q] BY <1>1 DEF disk
  <2>2. CASE Live(q)
    <3>1. run'[q] = v(q) BY <1>5, <1>10, <2>2
    <3>2. ProcInv(q)' BY <1>4, <2>0, <2>1, <2>2, <3>1 DEF ProcInv, Live, At
    <3>3. MemInv(q)' BY <1>4, <2>0, <2>1, <2>2, <3>1 DEF MemInv, Live, At, State
    <3>4. MarkInv(q)' BY <1>4, <1>7, <2>0, <2>1, <2>2, <3>1 DEF MarkInv, State
    <3>5. AloneInv(q)' BY <1>4, <2>2, <3>1 DEF AloneInv
    <3> QED BY <3>2, <3>3, <3>4, <3>5 DEF OwnInv
  <2>3. CASE ~Live(q)
    <3>1. run'[q] = run[q] BY <1>5, <1>10, <2>3
    <3>2. ProcInv(q)' /\ MemInv(q)' /\ MarkInv(q)'
      BY <1>7, <2>0, <2>1, <3>1 DEF ProcInv, MemInv, MarkInv, Live, At, State
    <3>3. AloneInv(q)' BY <1>7, <2>0, <2>1, <2>3, <3>1 DEF AloneInv, Live, At, State
    <3> QED BY <3>2, <3>3 DEF OwnInv
  <2> QED BY <2>2, <2>3
<1> QED BY <1>7, <1>8, <1>9, <1>10, Combine

\* The service looks into the directory before it starts a run; a user need not.
LEMMA LaunchKeeps ==
    ASSUME JointInv, NEW p \in Procs, NEW r \in Recipes, LaunchByService(p, r) \/ LaunchByHand(p, r)
    PROVE  JointInv'
<1>1. Saved \subseteq 0..Total /\ (Saved = {} => InitialDirectory) /\ (~dir => EmptyDirectory) /\ 0 \in 0..Total
  BY Numbers DEF JointInv, DiskInv
<1> DEFINE yes == TRUE
           no == FALSE
<1>b. yes \in BOOLEAN /\ no \in BOOLEAN /\ yes /\ ~no OBVIOUS
<1>2. CASE LaunchByHand(p, r)
  <2>1. \/ \E how \in {"fresh", "initial"} : Start(p, no, r, how, 0)
        \/ \E s \in Saved : Start(p, no, r, "resume", s)
    BY <1>2 DEF LaunchByHand
  <2> HIDE DEF no, yes
  <2>2. ASSUME NEW how \in {"fresh", "initial"}, Start(p, no, r, how, 0) PROVE JointInv'
    BY <1>1, <1>b, <2>2, StartKeeps
  <2>3. ASSUME NEW s \in Saved, Start(p, no, r, "resume", s) PROVE JointInv' BY <1>1, <1>b, <2>3, StartKeeps
  <2> QED BY <2>1, <2>2, <2>3
<1>3. CASE LaunchByService(p, r)
  <2>1. IF Saved # {} THEN Start(p, yes, r, "resume", LatestFull)
        ELSE Start(p, yes, r, IF dir THEN "initial" ELSE "fresh", 0)
    BY <1>3 DEF LaunchByService
  <2> HIDE DEF no, yes
  <2>2. CASE Saved # {}
    <3>1. LatestFull \in Saved /\ \A s \in Saved : s <= LatestFull
      BY <1>1, <2>2, Numbers, MaxFacts DEF LatestFull
    <3> HIDE DEF LatestFull
    <3>2. Start(p, yes, r, "resume", LatestFull) /\ LatestFull \in 0..Total BY <1>1, <2>1, <2>2, <3>1
    <3> QED BY <1>b, <3>1, <3>2, StartKeeps
  <2>3. CASE Saved = {}
    <3>1. PICK how \in {"fresh", "initial"} : how = (IF dir THEN "initial" ELSE "fresh") OBVIOUS
    <3>2. Start(p, yes, r, how, 0) /\ (how = "fresh" => EmptyDirectory) BY <1>1, <2>1, <2>3, <3>1
    <3> QED BY <1>1, <1>b, <2>3, <3>1, <3>2, StartKeeps
  <2> QED BY <2>2, <2>3
<1> QED BY <1>2, <1>3

\* The control file asks a run to stop.
LEMMA AskKeeps == ASSUME JointInv, NEW p \in Procs, AskToStop(p) PROVE JointInv'
<1> DEFINE yes == TRUE
<1>1. stop' = [stop EXCEPT ![p] = yes] /\ yes \in BOOLEAN /\ yes /\ Live(p)
      /\ UNCHANGED <<disk, lock, run, mem, runs>>
  BY DEF AskToStop
<1> HIDE DEF yes
<1>2. stop'[p] = yes /\ (\A q \in Procs : q # p => stop'[q] = stop[q]) /\ DOMAIN stop' = Procs
  BY <1>1 DEF JointInv, Shapes
<1>3. Shapes' /\ Frame(p) /\ LockInv' /\ DiskInv'
  <2>1. DiskInv' BY <1>1, DiskQuiet DEF JointInv, DiskInv
  <2>2. Shapes' /\ Frame(p) BY <1>1, <1>2 DEF JointInv, Shapes, Frame
  <2>3. LockInv' BY <1>1 DEF JointInv, LockInv, Working, Live, At, disk
  <2> QED BY <2>1, <2>2, <2>3
<1>4. ProcInv(p)' BY <1>1, <1>2 DEF JointInv, ProcInv, Live, At
<1>5. MemInv(p)' /\ MarkInv(p)' /\ AloneInv(p)'
  BY <1>1 DEF JointInv, MemInv, MarkInv, AloneInv, Live, At, State, disk, Saved, EmptyDirectory
<1>6. \A q \in Procs : q # p => OwnInv(q)' BY <1>1, <1>3, OthersKeepQuiet DEF disk
<1> QED BY <1>3, <1>4, <1>5, <1>6, Combine DEF OwnInv

\* A run before its first training step goes on to the next one.
LEMMA EntryGoes ==
    ASSUME JointInv, NEW p \in Procs, NEW x \in {"prepare", "recover", "identify", "restore"}, Go(p, x), Keep,
           UNCHANGED <<mem, dir, ident, ckpt, cands, out>>, DiskInv', Working(p), run[p].pc \in Entering,
           x = "restore" => ident \in {None, run[p].recipe}
    PROVE  JointInv'
<1>0. x \in Pcs /\ x \in Entering /\ x \notin Loaded /\ x \notin {"lock", "inspect", "step", "last", "export"}
      /\ x \notin Ended /\ run[p].pc \notin Loaded
  BY PcSets DEF Pcs
<1>1. /\ Shapes' /\ Frame(p) /\ run'[p] \in RunType /\ run'[p].pc = x
      /\ run'[p].auto = run[p].auto /\ run'[p].recipe = run[p].recipe /\ run'[p].how = run[p].how
      /\ run'[p].from = run[p].from /\ run'[p].no = run[p].no
      /\ run'[p].late = run[p].late /\ run'[p].met = run[p].met
  BY <1>0, GoFacts DEF Keep
<1>2. ProcInv(p) /\ MemInv(p) /\ AloneInv(p) /\ Live(p) BY DEF JointInv, Working
<1>3. Working(p)' /\ Saved' = Saved BY <1>0, <1>1 DEF Working, Live, At, Saved
<1>4. ProcInv(p)'
  <2>1. run[p].late # 1 /\ stop'[p] = stop[p] BY <1>0, <1>2, PcSets DEF ProcInv, Keep
  <2> QED BY <1>1, <1>2, <2>1 DEF ProcInv, Live
<1>5. MemInv(p)' BY <1>0, <1>1, <1>2 DEF MemInv, At
<1>6. MarkInv(p)' BY <1>0, <1>1, PcSets DEF MarkInv
<1>7. (Live(p)' /\ ~run'[p].met) => \A q \in Procs : Live(q)' => q = p
  BY <1>1, <1>2 DEF AloneInv, Frame, Live, At
<1>8. AloneInv(p)' BY <1>0, <1>1, <1>2, <1>3, <1>7, PcSets DEF AloneInv, At
<1> QED BY <1>1, <1>3, <1>4, <1>5, <1>6, <1>8, WorkGoesOn DEF OwnInv, Keep

\* The directory is created and locked, or a run at work keeps this one out.
LEMMA AcquireLockKeeps == ASSUME JointInv, NEW p \in Procs, AcquireLock(p) PROVE JointInv'
<1>1. At(p, "lock") /\ Live(p) /\ ~Working(p) /\ UNCHANGED <<ident, tmps, ckpt, cands, out>>
  BY DEF AcquireLock, At, Live, Working, Ended
<1>2. DiskInv /\ LockInv /\ AloneInv(p) /\ ProcInv(p) /\ MemInv(p) BY DEF JointInv
<1>3. dir' BY DEF AcquireLock
<1>4. DiskInv'
  <2>1. runs' = runs BY DEF AcquireLock, End
  <2>2. Saved' = Saved /\ InitialDirectory' = InitialDirectory BY <1>1 DEF Saved, InitialDirectory, TmpFor
  <2>3. dir' \in BOOLEAN BY DEF AcquireLock
  <2> QED BY <1>1, <1>2, <1>3, <2>1, <2>2, <2>3 DEF DiskInv
<1>5. CASE lock = NoProc
  <2>1. lock' = p /\ Go(p, "inspect") /\ UNCHANGED <<mem, stop, runs>> BY <1>5 DEF AcquireLock
  <2>2. /\ Shapes' /\ Frame(p) /\ run'[p] \in RunType /\ run'[p].pc = "inspect"
        /\ run'[p].auto = run[p].auto /\ run'[p].recipe = run[p].recipe /\ run'[p].how = run[p].how
        /\ run'[p].from = run[p].from /\ run'[p].no = run[p].no
        /\ run'[p].late = run[p].late /\ run'[p].met = run[p].met
    <3>1. "inspect" \in Pcs BY DEF Pcs
    <3> QED BY <2>1, <3>1, GoFacts
  <2>3. \A q \in Procs : ~Working(q) BY <1>2, <1>5, TrainingAssumption DEF LockInv
  <2>4. Working(p)' /\ \A q \in Procs : q # p => ~Working(q)'
    BY <2>2, <2>3 DEF Working, Live, At, Ended, Frame
  <2>5. LockInv' BY <1>3, <2>1, <2>4 DEF LockInv
  <2>6. ProcInv(p)'
    <3>1. run[p].late # 1 /\ stop'[p] = stop[p] BY <1>1, <1>2, <2>1, PcSets DEF ProcInv, At
    <3> QED BY <1>1, <1>2, <2>2, <3>1 DEF ProcInv
  <2>7. MemInv(p)' /\ MarkInv(p)' BY <1>1, <1>2, <2>1, <2>2, PcSets DEF MemInv, MarkInv, At
  <2>8. AloneInv(p)'
    <3>1. (Live(p)' /\ ~run'[p].met) => \A q \in Procs : Live(q)' => q = p
      BY <1>1, <1>2, <2>2 DEF AloneInv, Frame, Live, At
    <3>2. Saved' = Saved /\ EmptyDirectory' = EmptyDirectory BY <1>1 DEF Saved, EmptyDirectory
    <3> QED BY <1>1, <1>2, <2>2, <3>1, <3>2, PcSets DEF AloneInv, At
  <2>9. \A q \in Procs : q # p => OwnInv(q)' BY <1>1, <2>2, OthersKeepQuiet
  <2> QED BY <1>4, <2>2, <2>5, <2>6, <2>7, <2>8, <2>9, Combine DEF OwnInv
<1>6. CASE lock # NoProc
  <2>1. End(p, "refused") /\ "refused" \in Ended BY <1>6 DEF AcquireLock, Ended
  <2>2. run[p].met
    <3>1. lock \in Procs /\ Working(lock) BY <1>2, <1>6 DEF LockInv
    <3>2. lock # p /\ Live(lock) BY <1>1, <3>1 DEF Working
    <3> QED BY <1>1, <1>2, <3>1, <3>2 DEF AloneInv
  <2> QED BY <1>1, <1>3, <1>4, <2>1, <2>2, QuietEnd
<1> QED BY <1>5, <1>6

\* The steps that only look at the directory keep its invariant.
LEMMA LookKeepsDisk == ASSUME JointInv, UNCHANGED disk, UNCHANGED runs PROVE DiskInv'
  BY DiskQuiet DEF JointInv, DiskInv

\* The directory is accepted for a fresh or an initial run, or refused.
LEMMA InspectKeeps == ASSUME JointInv, NEW p \in Procs, Inspect(p) PROVE JointInv'
<1>1. At(p, "inspect") /\ Working(p) /\ Live(p) /\ UNCHANGED disk BY DEF Inspect, At, Working, Live, Ended
<1>2. UNCHANGED runs BY DEF Inspect, Keep, End
<1>3. DiskInv' BY <1>1, <1>2, LookKeepsDisk
<1>4. CASE Go(p, "prepare") /\ UNCHANGED mem /\ Keep BY <1>1, <1>3, <1>4, EntryGoes, PcSets DEF disk, At
<1>5. CASE /\ ~(run[p].how = "initial" /\ InitialDirectory) /\ run[p].how # "resume"
           /\ ~(run[p].how = "fresh" /\ EmptyDirectory) /\ End(p, "refused")
  <2>1. run[p].auto => run[p].met
    <3>1. run[p].how \in {"fresh", "initial", "resume"} /\ AloneInv(p) /\ DiskInv
      BY DEF JointInv, ProcInv, RunType
    <3> QED BY <1>1, <1>5, <3>1, PcSets DEF AloneInv, At, DiskInv
  <2>2. "refused" \in Ended BY DEF Ended
  <2> QED BY <1>1, <1>3, <1>5, <2>1, <2>2, QuietEnd DEF disk
<1> QED BY <1>4, <1>5 DEF Inspect

\* Hashing and feature extraction, which a request to stop ends.
LEMMA PrepareKeeps == ASSUME JointInv, NEW p \in Procs, Prepare(p) PROVE JointInv'
<1>1. At(p, "prepare") /\ Working(p) /\ UNCHANGED disk BY DEF Prepare, At, Working, Live, Ended
<1>2. UNCHANGED runs BY DEF Prepare, Keep, End
<1>3. DiskInv' BY <1>1, <1>2, LookKeepsDisk
<1>4. CASE Go(p, "recover") /\ UNCHANGED mem /\ Keep BY <1>1, <1>3, <1>4, EntryGoes, PcSets DEF disk, At
<1>5. CASE End(p, "stopped") BY <1>1, <1>3, <1>5, WorkEnd DEF disk
<1> QED BY <1>4, <1>5 DEF Prepare

\* An initial run removes what an earlier one left behind.
LEMMA RecoverKeeps == ASSUME JointInv, NEW p \in Procs, Recover(p) PROVE JointInv'
<1>1. At(p, "recover") /\ Working(p) /\ Live(p) /\ UNCHANGED <<dir, ident, ckpt, cands, out>>
  BY DEF Recover, At, Working, Live, Ended
<1>2. UNCHANGED runs BY DEF Recover, Keep, End
<1>3. DiskInv /\ AloneInv(p) BY DEF JointInv
<1>4. CASE UNCHANGED tmps /\ Go(p, "identify") /\ UNCHANGED mem /\ Keep
  <2>1. DiskInv' BY <1>1, <1>2, <1>4, LookKeepsDisk DEF disk
  <2> QED BY <1>1, <1>4, <2>1, EntryGoes, PcSets DEF At
<1>5. CASE tmps' = {} /\ Go(p, "identify") /\ UNCHANGED mem /\ Keep
  <2>1. DiskInv'
    <3>1. Saved' = Saved /\ TmpFor' = {} BY <1>1, <1>5 DEF Saved, TmpFor
    <3>2. InitialDirectory => InitialDirectory' BY <1>1, <3>1 DEF InitialDirectory
    <3>3. EmptyDirectory => EmptyDirectory' BY <1>1, <1>5, <3>1 DEF EmptyDirectory
    <3> QED BY <1>1, <1>2, <1>3, <1>5, <3>1, <3>2, <3>3 DEF DiskInv
  <2> QED BY <1>1, <1>5, <2>1, EntryGoes, PcSets DEF At
<1>6. CASE /\ run[p].how = "initial" /\ ~(InitialDirectory /\ ident \in {None, run[p].recipe})
           /\ End(p, "refused") /\ UNCHANGED tmps
  <2>1. DiskInv' BY <1>1, <1>2, <1>6, LookKeepsDisk DEF disk
  <2>2. run[p].auto /\ ~run[p].met => ident \notin {None, run[p].recipe}
    <3>1. run[p].auto /\ ~run[p].met => Saved = {} BY <1>1, <1>3, <1>6, PcSets DEF AloneInv, At
    <3> QED BY <1>3, <1>6, <3>1 DEF DiskInv
  <2>3. "refused" \in Ended BY DEF Ended
  <2> QED BY <1>1, <1>6, <2>1, <2>2, <2>3, QuietEnd
<1> QED BY <1>4, <1>5, <1>6 DEF Recover

\* A directory of another recipe is refused.
LEMMA IdentifyKeeps == ASSUME JointInv, NEW p \in Procs, Identify(p) PROVE JointInv'
<1>1. At(p, "identify") /\ Working(p) /\ Live(p) /\ UNCHANGED disk BY DEF Identify, At, Working, Live, Ended
<1>2. UNCHANGED runs BY DEF Identify, Keep, End
<1>3. DiskInv' BY <1>1, <1>2, LookKeepsDisk
<1>4. CASE ident \in {None, run[p].recipe} /\ Go(p, "restore") /\ UNCHANGED mem /\ Keep
  BY <1>1, <1>3, <1>4, EntryGoes, PcSets DEF disk, At
<1>5. CASE End(p, "stopped") BY <1>1, <1>3, <1>5, WorkEnd DEF disk
<1>6. CASE ident \notin {None, run[p].recipe} /\ End(p, "refused")
  BY <1>1, <1>3, <1>6, QuietEnd DEF disk, Ended
<1> QED BY <1>4, <1>5, <1>6 DEF Identify

\* A run that has its state goes on.
Onward(p, x) ==
    /\ Shapes' /\ Frame(p) /\ run'[p] \in RunType /\ run'[p].pc = x
    /\ run'[p].auto = run[p].auto /\ run'[p].recipe = run[p].recipe /\ run'[p].how = run[p].how
    /\ run'[p].no = run[p].no /\ run'[p].met = run[p].met /\ stop'[p] = stop[p]

\* A step of a run with a trainer in memory.
LEMMA LoadedStep ==
    ASSUME JointInv, NEW p \in Procs, Working(p), NEW x \in Loaded, Onward(p, x), UNCHANGED <<dir, lock>>,
           ident # None => ident' = ident, DiskInv', MemInv(p)', MarkInv(p)',
           run'[p].late = 1 => stop[p] /\ x # "step" /\ x \in Saving \cup Looping,
           run[p].auto /\ ~run[p].met =>
               /\ x \in Marking /\ run[p].how # "resume" => Saved' = {}
               /\ \A s \in Saved' : s <= mem'[p].state.step
               /\ x = "prune" => mem'[p].state.step \in Saved'
    PROVE  JointInv'
<1>0. x \notin Entering /\ x \notin Ended /\ x \notin {"lock", "inspect", "refused"} BY PcSets
<1>1. ProcInv(p) /\ AloneInv(p) /\ Live(p) BY DEF JointInv, Working
<1>2. Working(p)' BY <1>0 DEF Onward, Working, Live, At
<1>3. ProcInv(p)' BY <1>1 DEF Onward, ProcInv, At
<1>4. (Live(p)' /\ ~run'[p].met) => \A q \in Procs : Live(q)' => q = p
  BY <1>1 DEF AloneInv, Onward, Frame, Live, At
<1>5. AloneInv(p)' BY <1>0, <1>4 DEF AloneInv, Onward, At, State
<1> QED BY <1>2, <1>3, <1>5, WorkGoesOn DEF OwnInv, Onward

\* The checkpoint is loaded: it is the state that the uninterrupted training
\* had at its step, so it matches the recipe.
LEMMA RestoreKeeps == ASSUME JointInv, NEW p \in Procs, Restore(p) PROVE JointInv'
<1>1. At(p, "restore") /\ Working(p) /\ Live(p) /\ UNCHANGED disk BY DEF Restore, At, Working, Live, Ended
<1>2. UNCHANGED runs BY DEF Restore, Keep, End
<1>3. DiskInv' /\ DiskInv /\ AloneInv(p) /\ MarkInv(p) /\ ProcInv(p) BY <1>1, <1>2, LookKeepsDisk DEF JointInv
<1>4. PICK r \in Recipes : r = run[p].recipe BY <1>1, <1>3 DEF ProcInv
<1> DEFINE m == IF run[p].how = "resume" THEN LoadedFile(ckpt[run[p].from]) ELSE Fresh(r)
           n == IF run[p].how = "resume" THEN run[p].from ELSE 0
           fits == run[p].how = "resume" => run[p].from \in Saved
<1>5. fits => n \in 0..Total /\ m = Ideal[r][n] /\ (run[p].how = "resume" => Saved # {})
  <2> SUFFICES ASSUME fits PROVE n \in 0..Total /\ m = Ideal[r][n] /\ (run[p].how = "resume" => Saved # {})
    OBVIOUS
  <2>1. CASE run[p].how = "resume"
    <3>1. run[p].from \in Saved /\ Saved \subseteq 0..Total BY <1>3, <2>1 DEF DiskInv
    <3>2. ident # None /\ ckpt[run[p].from] = SavedFile(Ideal[ident][run[p].from]) BY <1>3, <3>1 DEF DiskInv
    <3>3. ident = r BY <1>1, <1>3, <1>4, <3>2 DEF MarkInv, At
    <3>4. LoadedFile(SavedFile(Ideal[r][run[p].from])) = Ideal[r][run[p].from] BY <3>1, IdealFacts
    <3> QED BY <2>1, <3>1, <3>2, <3>3, <3>4
  <2>2. CASE run[p].how # "resume"
    <3>1. n = 0 /\ m = Fresh(r) BY <2>2
    <3>2. 0 \in 0..Total BY Numbers
    <3>3. Ideal[r][0] = Fresh(r) BY IdealSteps
    <3> HIDE DEF n, m
    <3> QED BY <2>2, <3>1, <3>2, <3>3
  <2> QED BY <2>1, <2>2
<1>6. fits => m.state.step = n /\ ResumeMatches(m, r) BY <1>5, IdealFacts
<1>7. \/ /\ run[p].how = "resume" /\ (run[p].from \notin Saved \/ ~ResumeMatches(m, r))
         /\ End(p, "refused")
      \/ /\ fits
         /\ run' = [run EXCEPT ![p].pc = "mark", ![p].start = m.state.step]
         /\ mem' = [mem EXCEPT ![p] = m] /\ Keep
  BY <1>4 DEF Restore
<1> HIDE DEF m
<1>8. CASE /\ run[p].how = "resume" /\ (run[p].from \notin Saved \/ ~ResumeMatches(m, r))
           /\ End(p, "refused")
  <2>1. ~fits BY <1>6, <1>8
  <2>2. run[p].auto => run[p].met BY <1>1, <1>3, <1>8, <2>1, PcSets DEF AloneInv, At
  <2>3. "refused" \in Ended BY DEF Ended
  <2> QED BY <1>1, <1>3, <1>8, <2>2, <2>3, QuietEnd DEF disk
<1>9. CASE /\ fits
           /\ run' = [run EXCEPT ![p].pc = "mark", ![p].start = m.state.step]
           /\ mem' = [mem EXCEPT ![p] = m] /\ Keep
  <2>0. n \in 0..Total /\ m = Ideal[r][n] /\ m.state.step = n /\ (run[p].how = "resume" => Saved # {})
    BY <1>5, <1>6, <1>9
  <2>1. PICK o, k : o = run[p] /\ k = n OBVIOUS
  <2>2. run' = [run EXCEPT ![p] = [o EXCEPT !.pc = "mark", !.start = k]] BY <1>9, <2>0, <2>1
  <2> DEFINE u == [o EXCEPT !.pc = "mark", !.start = k]
  <2>3. u \in RunType /\ u.pc = "mark" /\ u.auto = o.auto /\ u.recipe = o.recipe /\ u.how = o.how
        /\ u.no = o.no /\ u.late = o.late /\ u.met = o.met
    <3>1. o \in RunType /\ k \in 0..Total /\ "mark" \in Pcs BY <1>3, <2>0, <2>1 DEF ProcInv, Pcs
    <3> QED BY <3>1 DEF RunType
  <2> HIDE DEF u
  <2>4. run'[p] = u /\ (\A q \in Procs : q # p => run'[q] = run[q]) /\ DOMAIN run' = Procs
    BY <2>2 DEF u, JointInv, Shapes
  <2>5. mem'[p] = m /\ (\A q \in Procs : q # p => mem'[q] = mem[q]) /\ DOMAIN mem' = Procs
    BY <1>9 DEF JointInv, Shapes
  <2>6. Onward(p, "mark") BY <1>9, <2>1, <2>3, <2>4, <2>5 DEF Onward, Shapes, Frame, JointInv, Keep
  <2>7. Saved' = Saved /\ UNCHANGED <<dir, ident, lock>> BY <1>1, <1>9, SMTT(30) DEF Saved, disk, Keep
  <2>8. MemInv(p)' BY <1>4, <2>0, <2>1, <2>3, <2>4, <2>5, PcSets DEF MemInv, At, State
  <2>9. MarkInv(p)'
    <3>1. ident \in {None, r} BY <1>1, <1>3, <1>4 DEF MarkInv, At
    <3> QED BY <1>4, <2>0, <2>1, <2>3, <2>4, <2>5, <2>7, <3>1, PcSets DEF MarkInv, State
  <2>10. run'[p].late # 1 BY <1>1, <1>3, <2>1, <2>3, <2>4, PcSets DEF ProcInv, At
  <2>11. run[p].auto /\ ~run[p].met =>
               /\ run[p].how # "resume" => Saved' = {}
               /\ \A s \in Saved' : s <= mem'[p].state.step
    BY <1>1, <1>3, <2>0, <2>5, <2>7, PcSets DEF AloneInv, At
  <2>12. "mark" \in Loaded BY PcSets
  <2> QED BY <1>1, <1>3, <2>6, <2>7, <2>8, <2>9, <2>10, <2>11, <2>12, LoadedStep
<1> QED BY <1>7, <1>8, <1>9

\* Going on without a change of the state.
LEMMA GoOnward ==
    ASSUME JointInv, NEW p \in Procs, run[p].pc \in Loaded, NEW x \in Loaded, Go(p, x), Keep, UNCHANGED mem,
           x = "step" => State(p).step < Total, x \in {"last", "export"} => State(p).step = Total
    PROVE  Onward(p, x) /\ MemInv(p)' /\ run'[p].late = run[p].late
<1>1. x \in Pcs BY PcSets DEF Pcs
<1>2. /\ Shapes' /\ Frame(p) /\ run'[p] \in RunType /\ run'[p].pc = x
      /\ run'[p].auto = run[p].auto /\ run'[p].recipe = run[p].recipe /\ run'[p].how = run[p].how
      /\ run'[p].no = run[p].no /\ run'[p].met = run[p].met /\ run'[p].late = run[p].late
  BY <1>1, GoFacts DEF Keep
<1>3. MemInv(p) BY DEF JointInv
<1>4. MemInv(p)' BY <1>2, <1>3 DEF MemInv, At, State
<1> QED BY <1>2, <1>4 DEF Onward, Keep

\* What the invariant says of the run at work.
LEMMA LoadedFacts ==
    ASSUME JointInv, NEW p \in Procs, run[p].pc \in Loaded
    PROVE  /\ Working(p) /\ Live(p) /\ dir /\ lock = p
           /\ ProcInv(p) /\ MemInv(p) /\ MarkInv(p) /\ AloneInv(p) /\ DiskInv
           /\ run[p].recipe \in Recipes /\ run[p].no \in 1..MaxRuns /\ run[p].how \in {"fresh", "initial", "resume"}
           /\ State(p).step \in 0..Total /\ mem[p] = Ideal[run[p].recipe][State(p).step]
<1>1. Working(p) /\ Live(p) BY PcSets DEF Working, Live, At
<1> QED BY <1>1 DEF JointInv, LockInv, ProcInv, MemInv, RunType

\* A temporary file more, or some less.
LEMMA TmpsChange ==
    ASSUME DiskInv, dir, UNCHANGED <<dir, ident, ckpt, cands, out, runs>>,
           NEW k \in {Marker} \cup 0..Total, NEW no \in 1..MaxRuns, tmps' \subseteq tmps \cup {<<k, no>>},
           Saved = {} => k = Marker \/ (k = 0 /\ ident # None)
    PROVE  DiskInv'
<1>1. Saved' = Saved /\ DOMAIN cands' = DOMAIN cands BY DEF Saved
<1>2. TmpFor' \subseteq TmpFor \cup {k} BY DEF TmpFor
<1>3. Saved = {} => InitialDirectory'
  <2>1. 0 # Marker BY DEF Marker
  <2> QED BY <1>1, <1>2, <2>1 DEF DiskInv, InitialDirectory
<1>4. tmps' \subseteq ({Marker} \cup 0..Total) \X (1..MaxRuns) BY DEF DiskInv
<1> QED BY <1>1, <1>3, <1>4 DEF DiskInv

\* The temporary identity.txt.
LEMMA MarkKeeps == ASSUME JointInv, NEW p \in Procs, Mark(p) PROVE JointInv'
<1>1. /\ At(p, "mark") /\ tmps' = tmps \cup {<<Marker, run[p].no>>} /\ Go(p, "marked")
      /\ UNCHANGED <<dir, ident, ckpt, cands, out, mem>> /\ Keep
  BY DEF Mark
<1>2. run[p].pc \in Loaded /\ "marked" \in Loaded BY <1>1, PcSets DEF At
<1>3. Onward(p, "marked") /\ MemInv(p)' /\ run'[p].late = run[p].late BY <1>1, <1>2, GoOnward
<1>4. Working(p) /\ DiskInv /\ dir /\ MarkInv(p) /\ AloneInv(p) /\ ProcInv(p) /\ run[p].no \in 1..MaxRuns
  BY <1>2, LoadedFacts
<1>5. DiskInv'
  <2>1. Marker \in {Marker} \cup 0..Total /\ tmps' \subseteq tmps \cup {<<Marker, run[p].no>>} BY <1>1
  <2>2. UNCHANGED <<dir, ident, ckpt, cands, out, runs>> BY <1>1 DEF Keep
  <2>3. PICK k, no : k = Marker /\ no = run[p].no OBVIOUS
  <2>4. k \in {Marker} \cup 0..Total /\ no \in 1..MaxRuns /\ tmps' \subseteq tmps \cup {<<k, no>>}
    BY <1>4, <2>1, <2>3
  <2> QED BY <1>4, <2>2, <2>3, <2>4, TmpsChange
<1>6. Saved' = Saved /\ State(p)' = State(p) BY <1>1 DEF Saved, State
<1>7. MarkInv(p)' BY <1>1, <1>3, <1>4, <1>6, PcSets DEF MarkInv, Onward, At
<1>8. run'[p].late # 1 BY <1>1, <1>3, <1>4, PcSets DEF ProcInv, At
<1>9. run[p].auto /\ ~run[p].met =>
               /\ run[p].how # "resume" => Saved' = {}
               /\ \A s \in Saved' : s <= mem'[p].state.step
  BY <1>1, <1>4, <1>6, PcSets DEF AloneInv, At, State
<1> QED BY <1>1, <1>2, <1>3, <1>4, <1>5, <1>7, <1>8, <1>9, LoadedStep DEF Keep

\* identity.txt in its place.
LEMMA CommitMarkKeeps == ASSUME JointInv, NEW p \in Procs, CommitMark(p) PROVE JointInv'
<1>1. /\ At(p, "marked") /\ tmps' = tmps \ {<<Marker, run[p].no>>} /\ ident' = run[p].recipe
      /\ UNCHANGED <<dir, ckpt, cands, out, mem>> /\ Keep
  BY DEF CommitMark
<1>2. PICK x \in {"loop", "save"} : x = (IF run[p].how = "resume" THEN "loop" ELSE "save") /\ Go(p, x)
  BY DEF CommitMark
<1>3. run[p].pc \in Loaded /\ x \in Loaded BY <1>1, PcSets DEF At
<1>4. Onward(p, x) /\ MemInv(p)' /\ run'[p].late = run[p].late BY <1>1, <1>2, <1>3, GoOnward
<1>5. Working(p) /\ DiskInv /\ dir /\ MarkInv(p) /\ AloneInv(p) /\ ProcInv(p) /\ run[p].no \in 1..MaxRuns
      /\ run[p].recipe \in Recipes
  BY <1>3, LoadedFacts
<1>6. ident \in {None, run[p].recipe} BY <1>1, <1>5, PcSets DEF MarkInv, At
<1>7. Saved' = Saved /\ State(p)' = State(p) BY <1>1 DEF Saved, State
<1>8. DiskInv'
  <2>1. Saved # {} => ident' = ident BY <1>1, <1>5, <1>6 DEF DiskInv
  <2>2. TmpFor' \subseteq TmpFor BY <1>1 DEF TmpFor
  <2>3. ident' # None /\ ident' \in Recipes BY <1>1, <1>5, TrainingAssumption
  <2>4. Saved = {} => InitialDirectory' BY <1>1, <1>5, <1>7, <2>2, <2>3 DEF DiskInv, InitialDirectory
  <2>5. \A e \in DOMAIN cands : Saved # {} BY <1>5 DEF DiskInv, InitialDirectory
  <2>6. ident = None => out = {} BY <1>5, TrainingAssumption DEF DiskInv
  <2>7. out' \subseteq {Ideal[r][Total].trainer.net : r \in {ident'} \cap Recipes}
    BY <1>1, <1>5, <1>6, <2>6 DEF DiskInv
  <2>8. \A s \in Saved' : ident' # None /\ ckpt'[s] = SavedFile(Ideal[ident'][s])
    BY <1>1, <1>5, <1>7, <2>1 DEF DiskInv
  <2>9. \A e \in DOMAIN cands' :
         e * Clips \in 0..Total /\ cands'[e] = Ideal[ident'][e * Clips].trainer.net
    BY <1>1, <1>5, <2>1, <2>5 DEF DiskInv
  <2>10. tmps' \subseteq ({Marker} \cup 0..Total) \X (1..MaxRuns) BY <1>1, <1>5 DEF DiskInv
  <2> QED BY <1>1, <1>5, <1>7, <2>3, <2>4, <2>7, <2>8, <2>9, <2>10 DEF DiskInv, Keep
<1>9. MarkInv(p)'
  <2>1. run[p].how = "resume" => Saved # {} BY <1>1, <1>5, PcSets DEF MarkInv, At
  <2>2. run[p].how # "resume" => State(p).step = 0 BY <1>1, <1>5, PcSets DEF MarkInv, At
  <2> QED BY <1>1, <1>2, <1>4, <1>7, <2>1, <2>2, PcSets DEF MarkInv, Onward
<1>10. run'[p].late # 1 BY <1>1, <1>4, <1>5, PcSets DEF ProcInv, At
<1>11. run[p].auto /\ ~run[p].met => \A s \in Saved' : s <= mem'[p].state.step
  BY <1>1, <1>3, <1>5, <1>7 DEF AloneInv, State
<1>12. x \notin Marking /\ x # "prune" /\ (ident # None => ident' = ident) BY <1>1, <1>6, PcSets
<1> QED BY <1>1, <1>3, <1>4, <1>5, <1>8, <1>9, <1>10, <1>11, <1>12, LoadedStep DEF Keep

\* The temporary checkpoint: before the first checkpoint it can only be of step 0.
LEMMA SaveStateKeeps == ASSUME JointInv, NEW p \in Procs, SaveState(p) PROVE JointInv'
<1>1. /\ At(p, "save") /\ tmps' = tmps \cup {<<State(p).step, run[p].no>>} /\ Go(p, "commit")
      /\ UNCHANGED <<dir, ident, ckpt, cands, out, mem>> /\ Keep
  BY DEF SaveState
<1>2. run[p].pc \in Loaded /\ "commit" \in Loaded BY <1>1, PcSets DEF At
<1>3. Onward(p, "commit") /\ MemInv(p)' /\ run'[p].late = run[p].late BY <1>1, <1>2, GoOnward
<1>4. Working(p) /\ DiskInv /\ dir /\ MarkInv(p) /\ AloneInv(p) /\ ProcInv(p) /\ run[p].no \in 1..MaxRuns
      /\ State(p).step \in 0..Total /\ run[p].recipe \in Recipes
  BY <1>2, LoadedFacts
<1>5. ident = run[p].recipe /\ (Saved = {} => State(p).step = 0) BY <1>1, <1>4, PcSets DEF MarkInv, At
<1>6. DiskInv'
  <2>1. ident # None BY <1>4, <1>5, TrainingAssumption
  <2> QED BY <1>1, <1>4, <1>5, <2>1, TmpsChange DEF Keep
<1>7. Saved' = Saved /\ State(p)' = State(p) BY <1>1 DEF Saved, State
<1>8. MarkInv(p)' BY <1>1, <1>3, <1>5, <1>7, PcSets DEF MarkInv, Onward
<1>9. run'[p].late = 1 => stop[p] /\ "commit" \in Saving BY <1>1, <1>3, <1>4, PcSets DEF ProcInv, At
<1>10. run[p].auto /\ ~run[p].met => \A s \in Saved' : s <= mem'[p].state.step
  BY <1>1, <1>2, <1>4, <1>7 DEF AloneInv, State
<1>11. "commit" \notin Marking BY PcSets
<1> QED BY <1>1, <1>2, <1>3, <1>4, <1>6, <1>8, <1>9, <1>10, <1>11, LoadedStep DEF Keep

\* The checkpoint in its place.
LEMMA CommitStateKeeps == ASSUME JointInv, NEW p \in Procs, CommitState(p) PROVE JointInv'
<1>1. /\ At(p, "commit") /\ tmps' = tmps \ {<<State(p).step, run[p].no>>}
      /\ ckpt' = Put(ckpt, State(p).step, SavedFile(mem[p]))
      /\ Go(p, "prune") /\ UNCHANGED <<dir, ident, cands, out, mem>> /\ Keep
  BY DEF CommitState
<1>2. run[p].pc \in Loaded /\ "prune" \in Loaded BY <1>1, PcSets DEF At
<1>3. Onward(p, "prune") /\ MemInv(p)' /\ run'[p].late = run[p].late BY <1>1, <1>2, GoOnward
<1>4. Working(p) /\ DiskInv /\ dir /\ MarkInv(p) /\ AloneInv(p) /\ ProcInv(p)
      /\ State(p).step \in 0..Total /\ mem[p] = Ideal[run[p].recipe][State(p).step] /\ run[p].recipe \in Recipes
  BY <1>2, LoadedFacts
<1>5. ident = run[p].recipe /\ ident # None BY <1>1, <1>4, PcSets, TrainingAssumption DEF MarkInv, At
<1>6. PICK n : n = State(p).step OBVIOUS
<1>7. Saved' = Saved \cup {n} /\ ckpt'[n] = SavedFile(mem[p]) /\ \A s \in Saved : s # n => ckpt'[s] = ckpt[s]
  <2>1. PICK f : f = SavedFile(mem[p]) OBVIOUS
  <2>2. ckpt' = Put(ckpt, n, f) BY <1>1, <1>6, <2>1
  <2> QED BY <2>1, <2>2 DEF Put, Saved
<1>8. DiskInv'
  <2>1. \A s \in Saved' : ident' # None /\ ckpt'[s] = SavedFile(Ideal[ident'][s])
    BY <1>1, <1>4, <1>5, <1>6, <1>7 DEF DiskInv
  <2>2. Saved' \subseteq 0..Total /\ Saved' # {} BY <1>4, <1>6, <1>7 DEF DiskInv
  <2>3. tmps' \subseteq ({Marker} \cup 0..Total) \X (1..MaxRuns) BY <1>1, <1>4 DEF DiskInv
  <2> QED BY <1>1, <1>4, <2>1, <2>2, <2>3 DEF DiskInv, Keep
<1>9. MarkInv(p)' BY <1>1, <1>3, <1>5, <1>7, PcSets DEF MarkInv, Onward
<1>10. run'[p].late = 1 => stop[p] /\ "prune" \in Looping BY <1>1, <1>3, <1>4, PcSets DEF ProcInv, At
<1>11. run[p].auto /\ ~run[p].met => \A s \in Saved' : s <= mem'[p].state.step
  <2>1. mem'[p].state.step = n /\ n \in Nat BY <1>1, <1>4, <1>6, Numbers DEF State
  <2> QED BY <1>2, <1>4, <1>6, <1>7, <2>1 DEF AloneInv
<1>12. mem'[p].state.step \in Saved' BY <1>1, <1>6, <1>7 DEF State
<1>13. "prune" \notin Marking BY PcSets
<1> QED BY <1>1, <1>2, <1>3, <1>4, <1>8, <1>9, <1>10, <1>11, <1>12, <1>13, LoadedStep DEF Keep

\* Pruning removes one file at a time, and never the last.
LEMMA PruneFacts ==
    ASSUME DiskInv, Saved # {}, ckpt' = Restrict(ckpt, Saved \ Excess)
    PROVE  /\ Saved' = Saved \ Excess /\ \A s \in Saved' : ckpt'[s] = ckpt[s]
           /\ \E s \in Saved' : \A t \in Saved : t <= s
<1>1. Saved \in SUBSET (0..Total) /\ IsFiniteSet(Saved)
  <2>1. Saved \subseteq 0..Total BY DEF DiskInv
  <2>2. IsFiniteSet(0..Total) BY Numbers, FS_Interval
  <2> QED BY <2>1, <2>2, FS_Subset
<1>2. Saved' = Saved \ Excess /\ \A s \in Saved' : ckpt'[s] = ckpt[s] BY DEF Saved, Restrict
<1>3. PICK m \in Saved : \A t \in Saved : t <= m BY <1>1, Numbers, Greatest
<1>4. m \notin Excess
  <2> SUFFICES ASSUME m \in Excess PROVE FALSE OBVIOUS
  <2>1. Cardinality(Saved) > 2 /\ m = Min(Saved) BY DEF Excess
  <2>2. \A t \in Saved : m <= t BY <1>1, <2>1, Numbers, MinFacts
  <2>3. \A t \in Saved : t = m
    <3> SUFFICES ASSUME NEW t \in Saved PROVE t = m OBVIOUS
    <3>1. t \in Nat /\ m \in Nat /\ t <= m /\ m <= t BY <1>1, <1>3, <2>2, Numbers
    <3> QED BY <3>1
  <2>4. Saved = {m} BY <1>3, <2>3
  <2>5. Cardinality(Saved) = 1 BY <2>4, FS_Singleton
  <2> QED BY <2>1, <2>5
<1> QED BY <1>2, <1>3, <1>4

\* What pruning does to the invariant of the files.
LEMMA PruneDisk ==
    ASSUME DiskInv, Saved # {}, ckpt' = Restrict(ckpt, Saved \ Excess), UNCHANGED <<dir, ident, tmps, cands, out, runs>>
    PROVE  DiskInv' /\ Saved' # {}
<1>1. Saved' \subseteq Saved /\ Saved' # {} /\ \A s \in Saved' : ckpt'[s] = ckpt[s] BY PruneFacts
<1>2. \A s \in Saved' : ident' # None /\ ckpt'[s] = SavedFile(Ideal[ident'][s]) BY <1>1 DEF DiskInv
<1>3. ~dir' => EmptyDirectory' BY DEF DiskInv, EmptyDirectory
<1> QED BY <1>1, <1>2, <1>3 DEF DiskInv

\* Old checkpoints are removed, and the run goes on or stops.
LEMMA PruneKeeps == ASSUME JointInv, NEW p \in Procs, Prune(p) PROVE JointInv'
<1>1. At(p, "prune") /\ ckpt' = Restrict(ckpt, Saved \ Excess) /\ UNCHANGED <<dir, ident, tmps, cands, out, runs>>
  BY DEF Prune, Keep, End
<1>2. run[p].pc \in Loaded BY <1>1, PcSets DEF At
<1>3. Working(p) /\ DiskInv /\ dir /\ MarkInv(p) /\ AloneInv(p) /\ ProcInv(p) /\ MemInv(p)
      /\ State(p).step \in 0..Total /\ run[p].recipe \in Recipes
  BY <1>2, LoadedFacts
<1>4. ident = run[p].recipe /\ Saved # {} BY <1>1, <1>3, PcSets DEF MarkInv, At
<1>5. DiskInv' /\ Saved' # {} /\ Saved' \subseteq Saved BY <1>1, <1>3, <1>4, PruneDisk, PruneFacts
<1>6. run[p].auto /\ ~run[p].met => (\A s \in Saved' : s <= State(p).step) /\ State(p).step \in Saved'
  <2> SUFFICES ASSUME run[p].auto /\ ~run[p].met
               PROVE (\A s \in Saved' : s <= State(p).step) /\ State(p).step \in Saved'
    OBVIOUS
  <2>1. (\A s \in Saved : s <= State(p).step) /\ State(p).step \in Saved BY <1>1, <1>2, <1>3 DEF AloneInv, At
  <2>2. PICK m \in Saved' : \A t \in Saved : t <= m BY <1>1, <1>3, <1>4, PruneFacts
  <2>3. m \in Nat /\ State(p).step \in Nat /\ m <= State(p).step /\ State(p).step <= m
    BY <1>3, <1>5, <2>1, <2>2, Numbers DEF DiskInv
  <2>4. m = State(p).step BY <2>3
  <2> QED BY <1>5, <2>1, <2>2, <2>4
<1>7. CASE UNCHANGED <<run, mem>> /\ Keep
  <2>1. Onward(p, "prune") /\ run'[p].late = run[p].late
    BY <1>1, <1>3, <1>7 DEF Onward, Shapes, Frame, ProcInv, JointInv, At, Keep
  <2>2. MemInv(p)' /\ State(p)' = State(p) BY <1>3, <1>7 DEF MemInv, At, State
  <2>3. MarkInv(p)' BY <1>1, <1>4, <1>5, <1>7, PcSets DEF MarkInv, At
  <2>4. run'[p].late = 1 => stop[p] /\ "prune" \in Looping BY <1>1, <1>3, <2>1, PcSets DEF ProcInv, At
  <2>5. run[p].auto /\ ~run[p].met => (\A s \in Saved' : s <= mem'[p].state.step) /\ mem'[p].state.step \in Saved'
    BY <1>6, <1>7 DEF State
  <2>6. "prune" \in Loaded /\ "prune" \notin Marking BY PcSets
  <2> QED BY <1>1, <1>3, <1>5, <1>7, <2>1, <2>2, <2>3, <2>4, <2>5, <2>6, LoadedStep DEF Keep
<1>8. CASE End(p, "stopped") BY <1>1, <1>3, <1>5, <1>8, WorkEnd
<1>9. CASE run[p].after # "stopped" /\ Go(p, run[p].after) /\ UNCHANGED mem /\ Keep
  <2>1. PICK x \in {"loop", "cand"} : x = run[p].after BY <1>3, <1>9 DEF ProcInv, RunType
  <2>2. x \in Loaded /\ x \in Looping /\ x \notin Marking /\ x \notin {"step", "last", "export", "prune"} /\ x \notin Saving
    BY PcSets
  <2>3. Onward(p, x) /\ MemInv(p)' /\ run'[p].late = run[p].late BY <1>2, <1>9, <2>1, <2>2, GoOnward
  <2>4. MarkInv(p)' BY <1>1, <1>4, <1>5, <2>2, <2>3, PcSets DEF MarkInv, Onward
  <2>5. run'[p].late = 1 => stop[p] BY <1>3, <2>3 DEF ProcInv
  <2>6. run[p].auto /\ ~run[p].met => \A s \in Saved' : s <= mem'[p].state.step BY <1>6, <1>9 DEF State
  <2> QED BY <1>1, <1>3, <1>5, <1>9, <2>2, <2>3, <2>4, <2>5, <2>6, LoadedStep DEF Keep
<1> QED BY <1>7, <1>8, <1>9 DEF Prune

\* The control file is read: the run saves and stops, trains on, or exports.
LEMMA PollKeeps == ASSUME JointInv, NEW p \in Procs, Poll(p) PROVE JointInv'
<1>1. At(p, "loop") /\ UNCHANGED <<disk, mem>> /\ Keep /\ UNCHANGED <<dir, ident, lock, stop>>
  BY DEF Poll, disk, Keep
<1>2. run[p].pc \in Loaded BY <1>1, PcSets DEF At
<1>3. Working(p) /\ DiskInv /\ dir /\ MarkInv(p) /\ AloneInv(p) /\ ProcInv(p) /\ MemInv(p)
      /\ State(p).step \in 0..Total /\ run[p].recipe \in Recipes
  BY <1>2, LoadedFacts
<1>4. ident = run[p].recipe /\ Saved # {} BY <1>1, <1>3, PcSets DEF MarkInv, At
<1>5. DiskInv' /\ Saved' = Saved /\ State(p)' = State(p) BY <1>1, LookKeepsDisk DEF Keep, disk, Saved, State
<1>6. run[p].auto /\ ~run[p].met => \A s \in Saved' : s <= mem'[p].state.step
  BY <1>1, <1>2, <1>3, <1>5 DEF AloneInv, State
<1>7. CASE stop[p] /\ SaveThen(p, "stopped")
  <2>1. PICK o : o = run[p] OBVIOUS
  <2> DEFINE u == [o EXCEPT !.pc = "save", !.after = "stopped"]
  <2>2. run' = [run EXCEPT ![p] = u] BY <1>7, <2>1 DEF SaveThen
  <2>3. u \in RunType /\ u.pc = "save" /\ u.auto = o.auto /\ u.recipe = o.recipe /\ u.how = o.how
        /\ u.no = o.no /\ u.late = o.late /\ u.met = o.met
    <3>1. o \in RunType /\ "save" \in Pcs BY <1>3, <2>1 DEF ProcInv, Pcs
    <3> QED BY <3>1 DEF RunType
  <2> HIDE DEF u
  <2>4. run'[p] = u /\ (\A q \in Procs : q # p => run'[q] = run[q]) /\ DOMAIN run' = Procs
    BY <2>2 DEF JointInv, Shapes
  <2>5. Onward(p, "save") BY <1>1, <2>1, <2>3, <2>4 DEF Onward, Shapes, Frame, JointInv
  <2>6. MemInv(p)' /\ MarkInv(p)'
    <3>1. MemInv(p)' BY <1>1, <1>2, <1>3, <2>1, <2>3, <2>4, PcSets DEF MemInv, At, State
    <3>2. MarkInv(p)' BY <1>1, <1>4, <1>5, <2>1, <2>3, <2>4, PcSets DEF MarkInv
    <3> QED BY <3>1, <3>2
  <2>7. "save" \in Loaded /\ "save" \in Saving /\ "save" \notin Marking BY PcSets
  <2> QED BY <1>1, <1>3, <1>5, <1>6, <1>7, <2>5, <2>6, <2>7, LoadedStep
<1>8. CASE ~stop[p]
  <2>1. PICK x \in {"last", "export", "step"} :
            Go(p, x) /\ (IF x = "step" THEN State(p).step # Total ELSE State(p).step = Total)
    BY <1>8 DEF Poll, Finished
  <2>2. x = "step" => State(p).step < Total BY <1>3, <2>1, Numbers
  <2>3. x \in Loaded /\ x \in Looping /\ x \notin Marking /\ x # "prune" /\ x \notin Saving BY PcSets
  <2>4. Onward(p, x) /\ MemInv(p)' /\ run'[p].late = run[p].late BY <1>1, <1>2, <2>1, <2>2, <2>3, GoOnward
  <2>5. MarkInv(p)' BY <1>1, <1>4, <1>5, <2>3, <2>4, PcSets DEF MarkInv, Onward
  <2>6. run'[p].late # 1 BY <1>3, <1>8, <2>4 DEF ProcInv
  <2> QED BY <1>1, <1>3, <1>5, <1>6, <2>3, <2>4, <2>5, <2>6, LoadedStep
<1> QED BY <1>7, <1>8 DEF Poll

\* One training step is one step of the uninterrupted training.
LEMMA TrainStepKeeps == ASSUME JointInv, NEW p \in Procs, TrainStep(p) PROVE JointInv'
<1>1. At(p, "step") /\ UNCHANGED disk /\ Keep /\ UNCHANGED <<dir, ident, lock, stop>>
  BY DEF TrainStep, disk, Keep
<1>2. run[p].pc \in Loaded BY <1>1, PcSets DEF At
<1>3. Working(p) /\ DiskInv /\ dir /\ MarkInv(p) /\ AloneInv(p) /\ ProcInv(p) /\ MemInv(p)
      /\ State(p).step \in 0..Total /\ run[p].recipe \in Recipes /\ mem[p] = Ideal[run[p].recipe][State(p).step]
  BY <1>2, LoadedFacts
<1>4. ident = run[p].recipe /\ Saved # {} BY <1>1, <1>3, PcSets DEF MarkInv, At
<1>5. DiskInv' /\ Saved' = Saved BY <1>1, LookKeepsDisk DEF Keep, disk, Saved
<1> DEFINE m == TrainOnce(mem[p])
<1>6. PICK n, r : n = State(p).step /\ r = run[p].recipe OBVIOUS
<1>7. n + 1 \in 0..Total /\ n \in Nat /\ n + 1 # 0 /\ (n + 1) - 1 = n
  BY <1>1, <1>3, <1>6, Numbers DEF MemInv, At
<1>8. m = Ideal[r][n + 1] /\ m.state.step = n + 1
  <2>1. Ideal[r][n + 1] = TrainOnce(Ideal[r][(n + 1) - 1]) BY <1>3, <1>6, <1>7, IdealSteps
  <2>2. m = Ideal[r][n + 1] BY <1>3, <1>6, <1>7, <2>1
  <2> QED BY <1>3, <1>6, <1>7, <2>2, IdealFacts
<1>9. run[p].late = 0 /\ run[p] \in RunType BY <1>1, <1>3 DEF ProcInv, RunType, At
<1>10. PICK o, l, x : /\ o = run[p] /\ l = (IF stop[p] THEN o.late + 1 ELSE 0)
                      /\ x = (IF Slot(m.state) # 0 THEN "loop"
                              ELSE IF Epoch(m.state) % SaveEvery = 0 \/ Finished(m.state) THEN "save" ELSE "cand")
  OBVIOUS
<1>11. run' = [run EXCEPT ![p] = [o EXCEPT !.late = l, !.after = "cand", !.pc = x]] /\ mem' = [mem EXCEPT ![p] = m]
  BY <1>10 DEF TrainStep
<1>12. l \in 0..1 /\ (l = 1 => stop[p]) BY <1>9, <1>10
<1>13. x \in {"loop", "save", "cand"} BY <1>10
<1> HIDE DEF m
<1> DEFINE u == [o EXCEPT !.late = l, !.after = "cand", !.pc = x]
<1>14. u \in RunType /\ u.pc = x /\ u.auto = o.auto /\ u.recipe = o.recipe /\ u.how = o.how
       /\ u.no = o.no /\ u.late = l /\ u.met = o.met
  <2>1. o \in RunType /\ x \in Pcs BY <1>9, <1>10, <1>13 DEF Pcs
  <2> QED BY <1>12, <2>1 DEF RunType
<1> HIDE DEF u
<1>15. run'[p] = u /\ (\A q \in Procs : q # p => run'[q] = run[q]) /\ DOMAIN run' = Procs
  BY <1>11 DEF u, JointInv, Shapes
<1>16. mem'[p] = m /\ (\A q \in Procs : q # p => mem'[q] = mem[q]) /\ DOMAIN mem' = Procs
  BY <1>11 DEF JointInv, Shapes
<1>17. Onward(p, x) BY <1>1, <1>10, <1>14, <1>15, <1>16 DEF Onward, Shapes, Frame, JointInv
<1>18. x \in Loaded /\ x \notin Marking /\ x \in Saving \cup Looping /\ x \notin {"step", "last", "export", "prune", "restore"}
  BY <1>13, PcSets, SMTT(30)
<1>19. MemInv(p)' BY <1>6, <1>7, <1>8, <1>10, <1>14, <1>15, <1>16, <1>18 DEF MemInv, At, State
<1>20. MarkInv(p)' BY <1>1, <1>4, <1>5, <1>10, <1>14, <1>15, <1>18 DEF MarkInv
<1>21. run[p].auto /\ ~run[p].met => \A s \in Saved' : s <= mem'[p].state.step
  <2>1. run[p].auto /\ ~run[p].met => \A s \in Saved : s <= n BY <1>2, <1>3, <1>6 DEF AloneInv
  <2>2. \A s \in Saved : s \in Nat BY <1>3, Numbers DEF DiskInv
  <2> QED BY <1>5, <1>7, <1>8, <1>16, <2>1, <2>2
<1>22. run'[p].late = 1 => stop[p] /\ x # "step" BY <1>12, <1>14, <1>15, <1>18
<1> QED BY <1>1, <1>3, <1>5, <1>17, <1>18, <1>19, <1>20, <1>21, <1>22, LoadedStep

\* At the end of an epoch its number gives the step back.
LEMMA EpochGivesStep ==
    ASSUME NEW n \in 0..Total, n % Clips = 0
    PROVE  n \div Clips \in Nat /\ (n \div Clips) * Clips = n /\ n \div Clips <= Epochs
<1>1. n \in Nat /\ n \div Clips \in Nat /\ n = (n \div Clips) * Clips + (n % Clips) BY DivMod, Numbers
<1> DEFINE e == n \div Clips
<1>2. e \in Nat /\ e * Clips = n BY <1>1, Numbers
<1> HIDE DEF e
<1>3. e <= Epochs
  <2> SUFFICES ASSUME ~(e <= Epochs) PROVE FALSE OBVIOUS
  <2>1. PICK d \in Nat : e = Epochs + 1 + d
    <3>1. e - (Epochs + 1) \in Nat /\ e = Epochs + 1 + (e - (Epochs + 1)) BY <1>2, Numbers
    <3> QED BY <3>1
  <2>2. e * Clips = Epochs * Clips + Clips + d * Clips BY <2>1, Numbers
  <2>3. d * Clips \in Nat /\ n <= Epochs * Clips /\ Clips > 0 /\ Epochs * Clips \in Nat
    BY <2>1, Numbers DEF Total
  <2> QED BY <1>1, <1>2, <2>2, <2>3, Numbers
<1> QED BY <1>2, <1>3 DEF e

\* A candidate is saved at the epochs of its schedule only.
LEMMA SaveCandidateKeeps == ASSUME JointInv, NEW p \in Procs, SaveCandidate(p) PROVE JointInv'
<1>1. run[p].pc \in {"cand", "last"} /\ UNCHANGED <<dir, ident, tmps, ckpt, out, mem>> /\ Keep
      /\ UNCHANGED <<lock, stop, runs>>
  BY DEF SaveCandidate, Keep
<1>2. run[p].pc \in Loaded BY <1>1, PcSets
<1>3. Working(p) /\ DiskInv /\ dir /\ MarkInv(p) /\ AloneInv(p) /\ ProcInv(p) /\ MemInv(p)
      /\ State(p).step \in 0..Total /\ run[p].recipe \in Recipes /\ mem[p] = Ideal[run[p].recipe][State(p).step]
  BY <1>2, LoadedFacts
<1>4. ident = run[p].recipe /\ Saved # {} BY <1>1, <1>3, PcSets DEF MarkInv
<1>5. Saved' = Saved /\ State(p)' = State(p) BY <1>1 DEF Saved, State
<1>6. PICK n, e, w : n = State(p).step /\ e = Epoch(State(p)) /\ w = mem[p].trainer.net OBVIOUS
<1>7. DiskInv'
  <2>1. CASE UNCHANGED cands
    <3>1. UNCHANGED <<disk, runs>> BY <1>1, <2>1 DEF disk
    <3> QED BY <3>1, LookKeepsDisk
  <2>2. CASE Slot(State(p)) = 0 /\ e \in 1..LastCand /\ cands' = Put(cands, e, w)
    <3>1. e = n \div Clips /\ n % Clips = 0 BY <1>6, <2>2 DEF Epoch, Slot
    <3>2. e \in 1..Epochs /\ e * Clips = n
      <4>1. n \in 0..Total BY <1>3, <1>6
      <4>2. e \in Nat /\ e * Clips = n /\ e <= Epochs BY <3>1, <4>1, EpochGivesStep
      <4>3. e >= 1 BY <2>2, Numbers
      <4> QED BY <4>2, <4>3, Numbers
    <3>3. DOMAIN cands' = DOMAIN cands \cup {e} /\ cands'[e] = w
          /\ \A k \in DOMAIN cands : k # e => cands'[k] = cands[k]
      BY <2>2 DEF Put
    <3>4. \A k \in DOMAIN cands' :
            k * Clips \in 0..Total /\ cands'[k] = Ideal[ident'][k * Clips].trainer.net
      <4>1. e * Clips \in 0..Total /\ w = Ideal[ident'][e * Clips].trainer.net BY <1>1, <1>3, <1>4, <1>6, <3>2
      <4> QED BY <1>1, <1>3, <3>3, <4>1 DEF DiskInv
    <3>5. DOMAIN cands' \subseteq 1..Epochs BY <1>3, <3>2, <3>3 DEF DiskInv
    <3> QED BY <1>1, <1>3, <1>4, <1>5, <3>4, <3>5 DEF DiskInv
  <2> QED BY <1>6, <2>1, <2>2 DEF SaveCandidate
<1>8. PICK x \in {"loop", "export"} : Go(p, x) /\ (x = "export" => At(p, "last")) BY DEF SaveCandidate
<1>9. x \in Loaded /\ x \in Looping /\ x \notin Marking /\ x \notin Saving /\ x \notin {"prune", "step", "last"}
  BY PcSets
<1>10. x = "export" => State(p).step = Total BY <1>3, <1>8 DEF MemInv, At
<1>11. Onward(p, x) /\ MemInv(p)' /\ run'[p].late = run[p].late BY <1>1, <1>2, <1>8, <1>9, <1>10, GoOnward
<1>12. MarkInv(p)' BY <1>1, <1>4, <1>5, <1>9, <1>11, PcSets DEF MarkInv, Onward
<1>13. run'[p].late = 1 => stop[p] BY <1>3, <1>11 DEF ProcInv
<1>14. run[p].auto /\ ~run[p].met => \A s \in Saved' : s <= mem'[p].state.step
  BY <1>1, <1>2, <1>3, <1>5 DEF AloneInv, State
<1> QED BY <1>1, <1>3, <1>7, <1>9, <1>11, <1>12, <1>13, <1>14, LoadedStep

\* The model of a completed training.
LEMMA ExportKeeps == ASSUME JointInv, NEW p \in Procs, Export(p) PROVE JointInv'
<1>1. At(p, "export") /\ out' = {mem[p].trainer.net} /\ UNCHANGED <<dir, ident, tmps, ckpt, cands, runs>>
      /\ End(p, "idle")
  BY DEF Export, End
<1>2. run[p].pc \in Loaded BY <1>1, PcSets DEF At
<1>3. Working(p) /\ DiskInv /\ MarkInv(p) /\ MemInv(p) /\ run[p].recipe \in Recipes
      /\ mem[p] = Ideal[run[p].recipe][State(p).step]
  BY <1>2, LoadedFacts
<1>4. ident = run[p].recipe /\ State(p).step = Total BY <1>1, <1>3, PcSets, SMTT(30) DEF MarkInv, MemInv, At
<1>5. DiskInv'
  <2>1. Saved' = Saved /\ InitialDirectory' = InitialDirectory /\ EmptyDirectory' = EmptyDirectory
    BY <1>1 DEF Saved, InitialDirectory, EmptyDirectory, TmpFor
  <2>2. out' \subseteq {Ideal[r][Total].trainer.net : r \in {ident'} \cap Recipes}
    <3>1. ident' \in {ident'} \cap Recipes /\ mem[p].trainer.net = Ideal[ident'][Total].trainer.net
      BY <1>1, <1>3, <1>4
    <3> QED BY <1>1, <3>1
  <2> QED BY <1>1, <1>3, <2>1, <2>2 DEF DiskInv
<1> QED BY <1>1, <1>3, <1>5, WorkEnd

\* A run that throws or is killed.
LEMMA BreakKeeps == ASSUME JointInv, NEW p \in Procs, Fail(p) \/ Die(p) PROVE JointInv'
<1>1. Live(p) /\ tmps' \subseteq tmps /\ End(p, "idle") /\ UNCHANGED <<dir, ident, ckpt, cands, out, runs>>
  BY DEF Fail, Die, disk, End
<1>2. DiskInv'
  <2>1. DiskInv BY DEF JointInv
  <2>2. Saved' = Saved /\ TmpFor' \subseteq TmpFor BY <1>1 DEF Saved, TmpFor
  <2>3. (InitialDirectory => InitialDirectory') /\ (EmptyDirectory => EmptyDirectory')
    BY <1>1, <2>2 DEF InitialDirectory, EmptyDirectory
  <2> QED BY <1>1, <2>1, <2>2, <2>3 DEF DiskInv
<1> QED BY <1>1, <1>2, QuietEnd DEF Ended

\* A step that changes nothing.
LEMMA StutterKeeps == ASSUME JointInv, UNCHANGED vars PROVE JointInv'
<1>1. DiskInv' /\ Shapes' /\ LockInv'
  BY DiskQuiet DEF JointInv, vars, disk, Shapes, LockInv, Working, Live, At, DiskInv
<1>2. \A p \in Procs : ProcInv(p)' /\ MemInv(p)' /\ MarkInv(p)' /\ AloneInv(p)'
  BY DEF JointInv, vars, ProcInv, MemInv, MarkInv, AloneInv, Live, At, State, Saved, EmptyDirectory
<1> QED BY <1>1, <1>2 DEF JointInv

\* Every step.
LEMMA NextKeeps == ASSUME JointInv, [Next]_vars PROVE JointInv'
<1>1. ASSUME NEW p \in Procs, Step(p) PROVE JointInv'
  BY <1>1, AcquireLockKeeps, InspectKeeps, PrepareKeeps, RecoverKeeps, IdentifyKeeps, RestoreKeeps, MarkKeeps,
     CommitMarkKeeps, SaveStateKeeps, CommitStateKeeps, PruneKeeps, PollKeeps, TrainStepKeeps, SaveCandidateKeeps,
     ExportKeeps DEF Step
<1> QED BY <1>1, LaunchKeeps, AskKeeps, BreakKeeps, StutterKeeps DEF Next

\* The invariant holds, whoever starts runs in the directory and whenever they
\* are stopped, fail or are killed (joint_full_training.cpp).
THEOREM JointInvariant == Spec => []JointInv
<1> QED BY InitJoint, NextKeeps, PTL DEF Spec

----------------------------------------
(* What follows. *)

\* Resuming is exact: every checkpoint, candidate and model, and what a run
\* holds in memory, is what the uninterrupted training of the directory's recipe
\* had at that step, for any interleaving of stops, failures, deaths and
\* restarts of any number of runs (save_checkpoint, load_checkpoint,
\* RunState::advance).
THEOREM TrainingResumes == Spec => []ResumeIsExact
<1>1. ASSUME JointInv PROVE ResumeIsExact
  <2>1. DiskInv /\ LockInv BY <1>1 DEF JointInv
  <2>2. ASSUME NEW p \in Procs
        PROVE  /\ stop[p] \in BOOLEAN /\ (Live(p) /\ ~At(p, "lock") => lock = p)
               /\ mem[p] # Nothing =>
                    /\ State(p) \in States /\ Range(State(p).order) = 1..Clips
                    /\ mem[p] = Ideal[run[p].recipe][State(p).step]
    <3>1. ProcInv(p) /\ MemInv(p) BY <1>1 DEF JointInv
    <3>2. stop[p] \in BOOLEAN /\ (Live(p) /\ ~At(p, "lock") => lock = p)
      BY <2>1, <3>1 DEF ProcInv, LockInv, Working
    <3>3. CASE mem[p] # Nothing
      <4>1. run[p].pc \in Loaded BY <3>1, <3>3 DEF MemInv
      <4>2. State(p).step \in 0..Total /\ mem[p] = Ideal[run[p].recipe][State(p).step] /\ run[p].recipe \in Recipes
        BY <1>1, <4>1, LoadedFacts
      <4>3. Ideal[run[p].recipe][State(p).step].state \in States
            /\ Range(Ideal[run[p].recipe][State(p).step].state.order) = 1..Clips
        BY <4>2, IdealFacts
      <4> QED BY <3>2, <4>2, <4>3 DEF State
    <3> QED BY <3>2, <3>3
  <2>3. TypeOK BY <2>1, <2>2 DEF TypeOK, DiskInv, LockInv
  <2> QED BY <2>1, <2>2, <2>3 DEF ResumeIsExact, DiskInv
<1> QED BY <1>1, JointInvariant, PTL

\* A run that the service starts by its own rule, with nobody else in the
\* directory, is refused only for the recipe of another task: no death leaves a
\* directory from which neither --resume nor --initial goes on
\* (latest_full_checkpoint, InitialDirectory).
THEOREM ServiceResumes == Spec => []ServiceCanResume
<1>1. JointInv => ServiceCanResume BY DEF JointInv, ServiceCanResume, AloneInv
<1> QED BY <1>1, JointInvariant, PTL

\* Steps that leave the set of checkpoints alone.
LEMMA SavedChanges ==
    ASSUME Next
    PROVE  \/ Saved' = Saved
           \/ \E p \in Procs : CommitState(p)
           \/ \E p \in Procs : Prune(p)
<1>1. UNCHANGED ckpt => Saved' = Saved BY SMTT(30) DEF Saved
<1>2. \/ UNCHANGED ckpt
      \/ \E p \in Procs : CommitState(p)
      \/ \E p \in Procs : Prune(p)
  BY ZenonT(60) DEF Next, Step, LaunchByService, LaunchByHand, Start, AskToStop, AcquireLock, Inspect, Prepare, Recover,
         Identify, Restore, Mark, CommitMark, SaveState, Poll, TrainStep, SaveCandidate, Export, Fail, Die, disk
<1> QED BY <1>1, <1>2

\* No step of any run loses the furthest checkpoint, also when a run resumed
\* from an older one and prunes (save_state).
THEOREM ProgressKept == Spec => ProgressIsKept
<1>1. ASSUME JointInv, JointInv', [Next]_vars
      PROVE  [Saved # {} => Saved' # {} /\ Max(Saved') >= Max(Saved)]_vars
  <2> SUFFICES ASSUME Next, Saved # {} PROVE Saved' # {} /\ Max(Saved') >= Max(Saved) BY <1>1
  <2>1. Saved \in SUBSET (0..Total) /\ Saved' \in SUBSET (0..Total) BY <1>1 DEF JointInv, DiskInv
  <2>2. \E s \in Saved' : \A t \in Saved : t <= s
    <3>1. Max(Saved) \in Saved /\ \A t \in Saved : t <= Max(Saved) BY <2>1, Numbers, MaxFacts
    <3>2. CASE Saved' = Saved BY <3>1, <3>2
    <3>3. ASSUME NEW p \in Procs, CommitState(p) PROVE Saved \subseteq Saved'
      BY <3>3 DEF CommitState, Put, Saved
    <3>4. ASSUME NEW p \in Procs, Prune(p) PROVE \E s \in Saved' : \A t \in Saved : t <= s
      BY <1>1, <3>4, PruneFacts DEF Prune, JointInv
    <3> QED BY <3>1, <3>2, <3>3, <3>4, SavedChanges
  <2>3. Saved' # {} BY <2>2
  <2>4. Max(Saved) \in Saved /\ Max(Saved') \in Saved' /\ \A s \in Saved' : s <= Max(Saved')
    BY <2>1, <2>3, Numbers, MaxFacts
  <2>5. PICK s \in Saved' : \A t \in Saved : t <= s BY <2>2
  <2>6. Max(Saved) <= s /\ s <= Max(Saved') BY <2>4, <2>5
  <2>7. Max(Saved) \in Nat /\ Max(Saved') \in Nat /\ s \in Nat
    <3>1. \A t \in 0..Total : t \in Nat BY Numbers
    <3>2. Max(Saved) \in 0..Total /\ Max(Saved') \in 0..Total /\ s \in 0..Total BY <2>1, <2>4, <2>5
    <3> QED BY <3>1, <3>2
  <2> QED BY <2>3, <2>6, <2>7
<1> QED BY <1>1, JointInvariant, PTL DEF Spec, ProgressIsKept

\* Only its own step ends a run as stopped.
LEMMA StoppedByPrune ==
    ASSUME JointInv, Next, NEW p \in Procs, At(p, "prune"), run'[p].pc = "stopped"
    PROVE  Prune(p) /\ Saved' = Saved
<1>0. Shapes /\ Live(p) BY DEF JointInv, At, Live, Ended
<1>1. ASSUME NEW q \in Procs, q # p,
             \/ \E r \in Recipes : LaunchByService(q, r) \/ LaunchByHand(q, r)
             \/ AskToStop(q) \/ Step(q) \/ Fail(q) \/ Die(q)
      PROVE  FALSE
  <2>1. CASE \E r \in Recipes : LaunchByService(q, r) \/ LaunchByHand(q, r)
    <3>1. run' = [o \in Procs |-> IF o = q THEN run'[q]
                                  ELSE IF Live(o) THEN [run[o] EXCEPT !.met = TRUE] ELSE run[o]]
      BY <2>1 DEF LaunchByService, LaunchByHand, Start
    <3>2. PICK yes : run'[p] = [run[p] EXCEPT !.met = yes] BY <1>0, <1>1, <3>1
    <3>3. run'[p].pc = run[p].pc BY <3>2 DEF JointInv, ProcInv, RunType
    <3> QED BY <3>3 DEF At
  <2>2. CASE ~\E r \in Recipes : LaunchByService(q, r) \/ LaunchByHand(q, r)
    <3>1. run'[p] = run[p]
      BY <1>0, <1>1, <2>2 DEF Shapes, Step, AskToStop, AcquireLock, Inspect, Prepare, Recover, Identify,
         Restore, Mark,
         CommitMark, SaveState, CommitState, Prune, Poll, SaveThen, TrainStep, SaveCandidate, Export, Fail, Die, Go, End
    <3> QED BY <3>1 DEF At
  <2> QED BY <2>1, <2>2
<1>2. ASSUME NEW r \in Recipes, LaunchByService(p, r) \/ LaunchByHand(p, r) PROVE FALSE
  BY <1>0, <1>2 DEF LaunchByService, LaunchByHand, Start
<1>3. ~AskToStop(p) BY DEF AskToStop, At
<1>4. ~Fail(p) /\ ~Die(p)
  <2>1. ASSUME End(p, "idle") PROVE run'[p].pc = "idle"
    <3>1. PICK a, r, m : run' = [run EXCEPT ![p] = [NoRun EXCEPT !.pc = "idle", !.auto = a, !.recipe = r, !.met = m]]
      BY <2>1 DEF End
    <3>2. [NoRun EXCEPT !.pc = "idle", !.auto = a, !.recipe = r, !.met = m].pc = "idle" BY DEF NoRun
    <3> QED BY <1>0, <3>1, <3>2 DEF Shapes
  <2> QED BY <2>1 DEF Fail, Die
<1>5. Prune(p)
  <2>1. Step(p) BY <1>1, <1>2, <1>3, <1>4 DEF Next
  <2> QED BY <2>1 DEF Step, At, AcquireLock, Inspect, Prepare, Recover, Identify, Restore, Mark, CommitMark,
     SaveState,
       CommitState, Poll, TrainStep, SaveCandidate, Export
<1>6. Excess = {}
  <2>1. CASE Excess # {} BY <1>5, <2>1 DEF Prune, At
  <2> QED BY <2>1
<1>7. DOMAIN ckpt' = Saved \ Excess BY <1>5 DEF Prune, Restrict
<1> QED BY <1>5, <1>6, <1>7 DEF Saved

\* A request to stop costs at most one training step, and the checkpoint of the
\* step it stopped at is there and the furthest, the one the service resumes from
\* (TrainingCancelReader::poll, save_on_stop).
THEOREM StopHonoured == Spec => StopIsHonoured
<1>1. JointInv => StopIsPrompt
  <2> SUFFICES ASSUME JointInv, NEW p \in Procs PROVE run[p].late <= 1 BY DEF StopIsPrompt
  <2>1. run[p].late \in 0..1 BY DEF JointInv, ProcInv, RunType
  <2> QED BY <2>1
<1>2. ASSUME JointInv, [Next]_vars
      PROVE  [\A p \in Procs : At(p, "prune") /\ run'[p].pc = "stopped" /\ run[p].auto /\ ~run[p].met
                 => Saved' # {} /\ Max(Saved') = State(p).step]_vars
  <2> SUFFICES ASSUME Next, NEW p \in Procs, At(p, "prune"), run'[p].pc = "stopped", run[p].auto, ~run[p].met
               PROVE  Saved' # {} /\ Max(Saved') = State(p).step
    BY <1>2
  <2>1. Saved' = Saved BY <1>2, StoppedByPrune
  <2>2. run[p].pc \in Loaded BY PcSets DEF At
  <2>3. State(p).step \in Saved /\ \A s \in Saved : s <= State(p).step BY <1>2, <2>2 DEF JointInv, AloneInv
  <2>4. Saved \in SUBSET (0..Total) BY <1>2 DEF JointInv, DiskInv
  <2>5. Max(Saved) \in Saved /\ \A s \in Saved : s <= Max(Saved) BY <2>3, <2>4, Numbers, MaxFacts
  <2>6. Max(Saved) \in Nat /\ State(p).step \in Nat /\ Max(Saved) <= State(p).step /\ State(p).step <= Max(Saved)
    <3>1. \A t \in 0..Total : t \in Nat BY Numbers
    <3>2. Max(Saved) \in 0..Total /\ State(p).step \in 0..Total BY <2>3, <2>4, <2>5
    <3> QED BY <2>3, <2>5, <3>1, <3>2
  <2>7. Max(Saved) = State(p).step BY <2>6
  <2> QED BY <2>1, <2>3, <2>7
<1> QED BY <1>1, <1>2, JointInvariant, PTL DEF Spec, StopIsHonoured, StopKeepsStep
=============================================================================
