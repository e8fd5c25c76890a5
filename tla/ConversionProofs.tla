-------------------------- MODULE ConversionProofs --------------------------
(***************************************************************************)
(* The parts of a conversion: the checkpoints of its operations            *)
(* (BlockCheckpoint), its files (AudioFiles), the snapshots of index and   *)
(* weights (Snapshots), which other processes share, and the conversion of *)
(* a clip (BoundedConversion).  Each has a part of its own: the invariant, *)
(* one lemma for each action, the theorem.  The modules share no variable; *)
(* the numbers and the cuts of a clip are those of StreamedAudioProofs.    *)
(*                                                                         *)
(* Checkpoints: a run that holds a store's lock knows what the store says  *)
(* of itself, and a run that never met another knows all of the directory. *)
(* Files: what an object remembers is what its file holds, for as long as  *)
(* the stamp is the same.  Snapshots: if no write brings earlier bytes     *)
(* back, a portion that equals the copy's has not changed since, so it is  *)
(* that of the moment when the copy was complete.                          *)
(* The conversion: its planner, which looks at a target only when the core *)
(* before it is done, stands at a cut of the one pass over all targets     *)
(* that the older conversion makes (NextCoreIs).                           *)
(***************************************************************************)
EXTENDS BlockCheckpoint, AudioFiles, Snapshots, BoundedConversion, StreamedAudioProofs

----------------------------------------
(* The checkpoints: the invariant. *)

Entering == {"scan", "identity", "name", "opened"}
Loop == {"boundary", "load", "save", "publish", "sync"}
IsLive(r) == r.pc \notin Ended
\* The locks a run has while it is there.
Owns(r, s) ==
    /\ IsLive(r)
    /\ IF s = "owner" THEN r.at = "stage" \/ r.pc \in Entering ELSE r.at = "stage" /\ r.pc \in Entering \cup Loop

\* What a run knows of itself.
RunFits(r, paused) ==
    /\ IsLive(r) => r.recipe \in Recipes
    /\ r.used \subseteq {r.recipe}
    /\ r.pc \in Loop => r.at = "stage"
    /\ r.pc \in {"root", "look"} => r.at = "owner" /\ ~r.create
    /\ r.at = "owner" \/ r.pc \in {"open", "lock", "scan", "identity", "name"} => r.count = 0
    /\ r.count <= Limit /\ (r.pc \in {"publish", "sync"} => r.count < Limit)
    /\ r.k # 0 /\ (r.pc \in {"load", "save"} => r.k \in Keys)
    /\ r.late <= 1
    /\ r.late = 1 => r.pc \in Ended \/ (r.pc \in {"save", "publish", "sync", "boundary"} /\ paused)
    /\ r.pc = "stranded" => r.met
RunsFit == \A p \in Procs : RunFits(run[p], pause[p])
LocksFit == \A p \in Procs, s \in Stores : lock[s] = p <=> Owns(run[p], s)

\* What the holder of a store's lock knows of it.
Named(r) ==
    /\ r.pc \in {"lock"} \cup Entering => dir[r.at].there
    /\ r.pc = "opened" => dir[r.at].ident = r.recipe
    /\ IsLive(r) /\ r.at = "stage" => dir["owner"].ident = r.recipe
    /\ r.pc \in Loop => dir["stage"].ident = r.recipe
    /\ r.pc \in {"identity", "name"} => dir[r.at].ident = None /\ (r.at = "stage" => Saved = {} /\ btmp = {})
    /\ r.at = "stage" /\ r.pc \in {"opened"} \cup Loop =>
         Cardinality(Saved) <= r.count + (IF r.pc = "sync" THEN 1 ELSE 0)
NamesFit == \A p \in Procs : Named(run[p])

\* A run that never met another knows what the directory holds.
NoMark(s) == dir[s].ident = None /\ ~dir[s].tmp
Knows(r) ==
    /\ r.pc = "look" => dir["owner"].ident = None
    /\ r.pc \in {"open", "lock", "scan"} /\ r.create =>
         IF r.at = "owner" THEN NoMark("owner") ELSE NoMark("stage") /\ Saved = {} /\ btmp = {}
Alone(p) == \A q \in Procs \ {p} : ~IsLive(run[q])
AloneFits == \A p \in Procs : IsLive(run[p]) /\ ~run[p].met => Alone(p) /\ Knows(run[p])

\* What every run leaves behind.
DiskFits ==
    /\ \A s \in Stores : dir[s].ident # None => ~dir[s].tmp
    /\ \A s \in Stores : dir[s].ident # None \/ dir[s].tmp => dir[s].there
    /\ Saved # {} \/ btmp # {} => dir["stage"].ident # None
    /\ \A k \in Keys : blk[k] # None => blk[k] = dir["stage"].ident
    /\ dir["stage"].there => dir["owner"].ident # None

BlocksInv == TypeOK /\ RunsFit /\ LocksFit /\ NamesFit /\ AloneFits /\ DiskFits

LEMMA KeysAreFinite ==
    /\ IsFiniteSet(Keys) /\ Keys \subseteq Nat
    /\ \A r \in Recipes : Need[r] \in Nat \ {0} /\ 1..Need[r] \subseteq Keys
<1> DEFINE Most(n) == n \in {Need[r] : r \in Recipes} /\ \A r \in Recipes : Need[r] <= n
           n == CHOOSE m : Most(m)
<1>1. \E m : Most(m) BY CheckpointAssumption
<1>2. Most(n) BY <1>1
<1>3. (CHOOSE m \in {Need[r] : r \in Recipes} : \A r \in Recipes : Need[r] <= m) = n OBVIOUS
<1>4. n \in Nat /\ \A r \in Recipes : Need[r] \in Nat \ {0} /\ Need[r] <= n BY <1>2, CheckpointAssumption
<1>5. Keys = 1..n BY <1>3, Zenon DEF Keys
<1> HIDE DEF n
<1>6. IsFiniteSet(1..n) BY <1>4, FS_Interval
<1> QED BY <1>4, <1>5, <1>6

LEMMA SavedIsFinite == ASSUME NEW s \in SUBSET Keys PROVE IsFiniteSet(s) /\ Cardinality(s) \in Nat
  BY KeysAreFinite, FS_Subset, FS_CardinalityType

LEMMA NoRunFits ==
    /\ NoRun \in RunType /\ NoRun.pc = "idle" /\ NoRun.used = {} /\ NoRun.late = 0 /\ NoRun.count = 0 /\ NoRun.met = FALSE
    /\ NoRun.at = "owner" /\ NoRun.create = FALSE /\ NoRun.k = 1
<1> DEFINE no == FALSE
           x == [pc |-> "idle", recipe |-> None, resume |-> no, at |-> "owner", create |-> no,
                 k |-> 1, count |-> 0, used |-> {}, late |-> 0, met |-> no]
<1>1. no \in BOOLEAN /\ NoRun = x BY DEF NoRun
<1> HIDE DEF no
<1>2. /\ x \in RunType /\ x.pc = "idle" /\ x.used = {} /\ x.late = 0 /\ x.count = 0 /\ x.met = no
      /\ x.at = "owner" /\ x.create = no /\ x.k = 1
  BY <1>1 DEF RunType, Ended, Stores
<1> HIDE DEF x
<1>3. no = FALSE BY DEF no
<1> QED BY <1>1, <1>2, <1>3

LEMMA BlocksInit == Init => BlocksInv
<1> SUFFICES ASSUME Init PROVE BlocksInv OBVIOUS
<1>1. /\ root = FALSE /\ btmp = {} /\ runs = 0
      /\ \A s \in Stores : dir[s].there = FALSE /\ dir[s].ident = None /\ dir[s].tmp = FALSE
      /\ \A k \in Keys : blk[k] = None
      /\ \A s \in Stores : lock[s] = NoProc
      /\ \A p \in Procs : run[p] = NoRun /\ pause[p] = FALSE
  BY DEF Init
<1>2. Saved = {} /\ Cardinality(Saved) = 0 BY <1>1, FS_EmptySet DEF Saved
<1>3. TypeOK
  <2>1. dir \in [Stores -> [there : BOOLEAN, ident : Recipes \cup {None}, tmp : BOOLEAN]] BY DEF Init
  <2>2. blk \in [Keys -> Recipes \cup {None}] /\ lock \in [Stores -> Procs \cup {NoProc}] /\ pause \in [Procs -> BOOLEAN]
    BY DEF Init
  <2>3. run \in [Procs -> RunType] BY NoRunFits DEF Init
  <2>4. root \in BOOLEAN /\ btmp \subseteq Keys BY <1>1
  <2>5. runs \in 0..MaxRuns /\ Cardinality(Saved) <= Limit
    <3>1. MaxRuns \in Nat /\ Limit \in Nat /\ runs = 0 BY <1>1, CheckpointAssumption
    <3> QED BY <1>2, <3>1
  <2> QED BY <2>1, <2>2, <2>3, <2>4, <2>5 DEF TypeOK
<1>4. RunsFit BY <1>1, NoRunFits, CheckpointAssumption DEF RunsFit, RunFits, IsLive, Ended, Loop
<1>5. LocksFit BY <1>1, NoRunFits, CheckpointAssumption DEF LocksFit, Owns, IsLive, Ended
<1>6. NamesFit BY <1>1, NoRunFits DEF NamesFit, Named, Owns, IsLive, Ended, Loop, Entering
<1>7. AloneFits BY <1>1, NoRunFits DEF AloneFits, IsLive, Ended
<1>8. DiskFits BY <1>1, <1>2 DEF DiskFits, Stores
<1> QED BY <1>3, <1>4, <1>5, <1>6, <1>7, <1>8 DEF BlocksInv

----------------------------------------
(* The checkpoints: one run goes on. *)

LEMMA RunSet ==
    ASSUME TypeOK, NEW p \in Procs, NEW x \in RunType, run' = [run EXCEPT ![p] = x]
    PROVE  run' \in [Procs -> RunType] /\ run'[p] = x /\ \A q \in Procs : q # p => run'[q] = run[q]
  BY DEF TypeOK

\* A step of a live run that may change what it holds the lock of.
LEMMA BlocksStep ==
    ASSUME BlocksInv, NEW p \in Procs, IsLive(run[p]), NEW x \in RunType, run' = [run EXCEPT ![p] = x], x.met = run[p].met,
           RunFits(x, pause[p]), Named(x)', IsLive(x) /\ ~x.met => Knows(x)', DiskFits',
           lock' \in [Stores -> Procs \cup {NoProc}], \A s \in Stores : lock'[s] = p <=> Owns(x, s),
           \A s \in Stores : lock'[s] # p /\ lock[s] # p => lock'[s] = lock[s],
           \A s \in Stores : lock[s] # p => lock'[s] \in {lock[s], p} /\ (lock'[s] = p => lock[s] = NoProc),
           \A s \in Stores : lock[s] = p => lock'[s] \in {p, NoProc},
           root' \in BOOLEAN, dir' \in [Stores -> [there : BOOLEAN, ident : Recipes \cup {None}, tmp : BOOLEAN]],
           \A s \in Stores : lock[s] # p => dir'[s].ident = dir[s].ident,
           \A s \in Stores : dir[s].there => dir'[s].there,
           lock["stage"] # p => blk' = blk /\ btmp' = btmp,
           blk' \in [Keys -> Recipes \cup {None}], btmp' \subseteq Keys, Cardinality(Saved)' <= Limit,
           pause' = pause, runs' = runs
    PROVE  BlocksInv'
<1>0. TypeOK /\ RunsFit /\ LocksFit /\ NamesFit /\ AloneFits BY DEF BlocksInv
<1>1. run' \in [Procs -> RunType] /\ run'[p] = x /\ \A q \in Procs : q # p => run'[q] = run[q] BY <1>0, RunSet
<1>2. TypeOK' BY <1>0, <1>1 DEF TypeOK
<1>3. RunsFit' BY <1>0, <1>1 DEF RunsFit
<1>4. LocksFit'
  <2> SUFFICES ASSUME NEW q \in Procs, NEW s \in Stores PROVE (lock[s] = q <=> Owns(run[q], s))'
    BY DEF LocksFit
  <2>1. CASE q = p BY <1>1, <2>1 DEF Owns
  <2>2. CASE q # p
    <3>1. lock'[s] = q <=> lock[s] = q BY <2>2, CheckpointAssumption
    <3>2. lock[s] = q <=> Owns(run[q], s) BY <1>0 DEF LocksFit
    <3> QED BY <1>1, <2>2, <3>1, <3>2 DEF Owns
  <2> QED BY <2>1, <2>2
<1>5. NamesFit'
  <2> SUFFICES ASSUME NEW q \in Procs, q # p PROVE Named(run[q])'
    <3>1. Named(run[p])' BY <1>1 DEF Named, Owns
    <3> QED BY <3>1 DEF NamesFit
  <2>0. PICK r : r = run[q] OBVIOUS
  <2>1. r \in RunType /\ Named(r) /\ RunFits(r, pause[q]) /\ run'[q] = r /\ \A s \in Stores : lock[s] = q <=> Owns(r, s)
    BY <1>0, <1>1, <2>0 DEF TypeOK, NamesFit, RunsFit, LocksFit
  <2>2. \A s \in Stores : Owns(r, s) => dir'[s].ident = dir[s].ident BY <2>1
  <2>3. Owns(r, "stage") => Saved' = Saved /\ btmp' = btmp /\ Cardinality(Saved)' = Cardinality(Saved)
    <3>1. Owns(r, "stage") => lock["stage"] # p BY <2>1 DEF Stores
    <3> QED BY <3>1, ZenonT(60) DEF Saved
  <2>4. /\ IsLive(r) /\ r.at = "stage" => Owns(r, "owner")
        /\ r.pc \in Loop => Owns(r, "stage")
        /\ r.pc \in {"identity", "name", "opened"} => Owns(r, r.at)
        /\ r.at = "stage" /\ r.pc \in {"opened"} \cup Loop => Owns(r, "stage")
        /\ r.at \in Stores
    BY <2>1 DEF Owns, IsLive, Ended, Loop, Entering, RunFits, RunType, Stores
  <2>5. Named(r)' BY <2>1, <2>2, <2>3, <2>4 DEF Named, Stores
  <2> QED BY <2>1, <2>5 DEF Named, Owns
<1>6. AloneFits'
  <2> SUFFICES ASSUME NEW q \in Procs, IsLive(run[q])', ~run'[q].met PROVE (Alone(q) /\ Knows(run[q]))'
    BY DEF AloneFits
  <2>1. CASE q = p
    <3>1. ~run[p].met /\ Alone(p) BY <1>0, <1>1, <2>1 DEF AloneFits
    <3>2. Alone(p)' BY <1>1, <3>1 DEF Alone, IsLive
    <3> QED BY <1>1, <2>1, <3>2 DEF IsLive, Knows
  <2>2. CASE q # p
    <3>1. Alone(q) BY <1>0, <1>1, <2>2 DEF AloneFits, IsLive
    <3> QED BY <2>2, <3>1 DEF Alone
  <2> QED BY <2>1, <2>2
<1> QED BY <1>2, <1>3, <1>4, <1>5, <1>6 DEF BlocksInv

\* What is known of a run before its step.
LEMMA RunAt ==
    ASSUME BlocksInv, NEW p \in Procs, NEW r, r = run[p]
    PROVE  /\ TypeOK /\ DiskFits /\ r \in RunType /\ RunFits(r, pause[p]) /\ Named(r)
           /\ \A s \in Stores : lock[s] = p <=> Owns(r, s)
           /\ IsLive(r) /\ ~r.met => Alone(p) /\ Knows(r)
  BY DEF BlocksInv, RunsFit, LocksFit, NamesFit, AloneFits, TypeOK

\* A step that leaves the disk and the locks alone.
LEMMA RunGoes ==
    ASSUME BlocksInv, NEW p \in Procs, IsLive(run[p]), NEW x \in RunType, run' = [run EXCEPT ![p] = x], x.met = run[p].met,
           RunFits(x, pause[p]), Named(x), IsLive(x) /\ ~x.met => Knows(x),
           \A s \in Stores : Owns(x, s) <=> Owns(run[p], s), UNCHANGED <<disk, lock, pause, runs>>
    PROVE  BlocksInv'
<1>1. /\ root' = root /\ dir' = dir /\ blk' = blk /\ btmp' = btmp /\ lock' = lock /\ pause' = pause /\ runs' = runs
  BY DEF disk
<1>2. Named(x)' /\ (IsLive(x) /\ ~x.met => Knows(x)') /\ DiskFits' /\ Cardinality(Saved)' <= Limit
  BY <1>1 DEF Named, Knows, NoMark, DiskFits, Saved, BlocksInv, TypeOK
<1>3. \A s \in Stores : lock'[s] = p <=> Owns(x, s) BY <1>1 DEF BlocksInv, LocksFit
<1>4. /\ lock' \in [Stores -> Procs \cup {NoProc}] /\ root' \in BOOLEAN
      /\ dir' \in [Stores -> [there : BOOLEAN, ident : Recipes \cup {None}, tmp : BOOLEAN]]
      /\ blk' \in [Keys -> Recipes \cup {None}] /\ btmp' \subseteq Keys
      /\ \A s \in Stores : lock[s] \in Procs \cup {NoProc}
  BY <1>1 DEF BlocksInv, TypeOK
<1>5. \A s \in Stores : lock[s] # p => lock'[s] \in {lock[s], p} /\ (lock'[s] = p => lock[s] = NoProc) BY <1>1
<1>6. \A s \in Stores : lock[s] = p => lock'[s] \in {p, NoProc} BY <1>1
<1>7. \A s \in Stores : lock'[s] # p /\ lock[s] # p => lock'[s] = lock[s] BY <1>1
<1>8. /\ \A s \in Stores : lock[s] # p => dir'[s].ident = dir[s].ident
      /\ \A s \in Stores : dir[s].there => dir'[s].there
  BY <1>1
<1> QED BY <1>1, <1>2, <1>3, <1>4, <1>5, <1>6, <1>7, <1>8, BlocksStep

\* A run ends and lets its locks go; a pending file may be removed.
LEMMA RunEnds ==
    ASSUME BlocksInv, NEW p \in Procs, IsLive(run[p]), NEW pc \in Ended, End(p, pc), pc = "stranded" => run[p].met,
           dir' \in [Stores -> [there : BOOLEAN, ident : Recipes \cup {None}, tmp : BOOLEAN]],
           \A s \in Stores : dir'[s].ident = dir[s].ident /\ dir'[s].there = dir[s].there /\ (dir'[s].tmp => dir[s].tmp),
           btmp' \subseteq btmp, lock["stage"] # p => btmp' = btmp, UNCHANGED <<root, blk, pause, runs>>
    PROVE  BlocksInv'
<1>0. PICK r : r = run[p] OBVIOUS
<1>1. /\ TypeOK /\ DiskFits /\ r \in RunType /\ RunFits(r, pause[p]) /\ IsLive(r) /\ \A s \in Stores : lock[s] = p <=> Owns(r, s)
  BY <1>0, RunAt
<1> DEFINE x == [r EXCEPT !.pc = pc]
<1>2. x \in RunType /\ x.pc = pc /\ x.met = r.met /\ x.recipe = r.recipe /\ x.used = r.used /\ x.at = r.at /\ x.create = r.create
      /\ x.count = r.count /\ x.late = r.late /\ x.k = r.k
  BY <1>1 DEF RunType
<1>3. run' = [run EXCEPT ![p] = x] BY <1>0 DEF End, Go
<1> HIDE DEF x
<1>4. ~IsLive(x) /\ pc \notin Loop \cup {"root", "look", "open", "lock", "scan", "identity", "name", "opened"}
  BY <1>2 DEF IsLive, Ended, Loop
<1>5. RunFits(x, pause[p])
  <2>1. r.count <= Limit /\ r.late <= 1 /\ r.used \subseteq {r.recipe} /\ (r.at = "owner" => r.count = 0) /\ r.k # 0
    BY <1>1 DEF RunFits
  <2>2. pc = "stranded" => x.met BY <1>0, <1>2
  <2>3. pc \notin {"publish", "sync", "load", "save"} BY DEF Ended
  <2> QED BY <1>2, <1>4, <2>1, <2>2, <2>3 DEF RunFits
<1>6. Named(x)' BY <1>2, <1>4 DEF Named, Owns, Entering
<1>7. \A s \in Stores : lock'[s] = IF lock[s] = p THEN NoProc ELSE lock[s] BY DEF End
<1>8. /\ lock' \in [Stores -> Procs \cup {NoProc}]
      /\ \A s \in Stores : lock'[s] = p <=> Owns(x, s)
      /\ \A s \in Stores : lock'[s] # p /\ lock[s] # p => lock'[s] = lock[s]
      /\ \A s \in Stores : lock[s] # p => lock'[s] \in {lock[s], p} /\ (lock'[s] = p => lock[s] = NoProc)
      /\ \A s \in Stores : lock[s] = p => lock'[s] \in {p, NoProc}
  <2>1. lock' \in [Stores -> Procs \cup {NoProc}] BY <1>1 DEF End, TypeOK
  <2>2. \A s \in Stores : ~Owns(x, s) /\ lock'[s] # p BY <1>4, <1>7, CheckpointAssumption DEF Owns
  <2> QED BY <1>7, <2>1, <2>2
<1>9. Saved' = Saved /\ Cardinality(Saved)' <= Limit BY <1>1 DEF Saved, TypeOK
<1>10. DiskFits' BY <1>1, <1>9 DEF DiskFits, Stores
<1>11. root' \in BOOLEAN /\ blk' \in [Keys -> Recipes \cup {None}] /\ btmp' \subseteq Keys
       /\ blk' = blk /\ pause' = pause /\ runs' = runs /\ x.met = run[p].met
  BY <1>0, <1>1, <1>2 DEF TypeOK
<1> QED BY <1>2, <1>3, <1>4, <1>5, <1>6, <1>8, <1>9, <1>10, <1>11, BlocksStep

\* The same without a pending file.
LEMMA RunStops ==
    ASSUME BlocksInv, NEW p \in Procs, IsLive(run[p]), NEW pc \in Ended, End(p, pc), pc = "stranded" => run[p].met,
           UNCHANGED <<disk, pause, runs>>
    PROVE  BlocksInv'
<1>1. root' = root /\ dir' = dir /\ blk' = blk /\ btmp' = btmp /\ pause' = pause /\ runs' = runs BY DEF disk
<1>2. dir' \in [Stores -> [there : BOOLEAN, ident : Recipes \cup {None}, tmp : BOOLEAN]]
  BY <1>1 DEF BlocksInv, TypeOK
<1> QED BY <1>1, <1>2, RunEnds

----------------------------------------
(* The checkpoints: the steps. *)

\* A run's record with another place.
LEMMA RecordAt ==
    ASSUME NEW r \in RunType, NEW pc \in {"look", "open", "lock", "scan", "identity", "name", "opened",
                                          "boundary", "load", "save", "publish", "sync"}
    PROVE  LET x == [r EXCEPT !.pc = pc]
           IN  /\ x \in RunType /\ x.pc = pc /\ x.recipe = r.recipe /\ x.resume = r.resume /\ x.at = r.at
               /\ x.create = r.create /\ x.k = r.k /\ x.count = r.count /\ x.used = r.used /\ x.late = r.late /\ x.met = r.met
  BY DEF RunType

LEMMA RootStep == ASSUME BlocksInv, NEW p \in Procs, OpenRoot(p) PROVE BlocksInv'
<1>0. PICK r : r = run[p] OBVIOUS
<1>1. TypeOK /\ DiskFits /\ r \in RunType /\ RunFits(r, pause[p]) /\ Named(r) /\ IsLive(r) /\ r.pc = "root"
  BY <1>0, RunAt DEF OpenRoot, At, IsLive, Ended
<1>2. pause' = pause /\ runs' = runs /\ UNCHANGED disk BY DEF OpenRoot
<1>3. CASE run[p].resume /\ ~root BY <1>0, <1>1, <1>2, <1>3, RunStops DEF OpenRoot, Ended
<1>4. CASE ~(run[p].resume /\ ~root)
  <2>1. PICK pc \in {"look", "open"} : Go(p, pc) /\ (pc = "look" => dir["owner"].ident = None) /\ lock' = lock
    BY <1>4 DEF OpenRoot
  <2> DEFINE x == [r EXCEPT !.pc = pc]
  <2>2. /\ x \in RunType /\ x.pc = pc /\ x.recipe = r.recipe /\ x.resume = r.resume /\ x.at = r.at
        /\ x.create = r.create /\ x.k = r.k /\ x.count = r.count /\ x.used = r.used /\ x.late = r.late /\ x.met = r.met
    BY <1>1, <2>1 DEF RunType
  <2>3. run' = [run EXCEPT ![p] = x] BY <1>0, <2>1 DEF Go
  <2> HIDE DEF x
  <2>4. RunFits(x, pause[p]) BY <1>1, <2>1, <2>2 DEF RunFits, IsLive, Ended, Loop
  <2>5. Named(x) /\ Knows(x) BY <1>1, <2>1, <2>2 DEF RunFits, Named, Knows, Owns, Loop, Entering
  <2>6. \A s \in Stores : Owns(x, s) <=> Owns(run[p], s)
    BY <1>0, <1>1, <2>1, <2>2 DEF RunFits, Owns, IsLive, Ended, Loop, Entering
  <2> QED BY <1>0, <1>1, <1>2, <2>1, <2>2, <2>3, <2>4, <2>5, <2>6, RunGoes
<1> QED BY <1>3, <1>4

LEMMA LookStep == ASSUME BlocksInv, NEW p \in Procs, LookBeside(p) PROVE BlocksInv'
<1>0. PICK r : r = run[p] OBVIOUS
<1>1. /\ TypeOK /\ DiskFits /\ r \in RunType /\ RunFits(r, pause[p]) /\ Named(r) /\ IsLive(r) /\ r.pc = "look"
      /\ ~r.met => Knows(r)
  BY <1>0, RunAt DEF LookBeside, At, IsLive, Ended
<1>2. pause' = pause /\ runs' = runs /\ UNCHANGED disk BY DEF LookBeside
<1>3. CASE dir["stage"].there
  <2>1. run[p].met BY <1>0, <1>1, <1>3 DEF Knows, DiskFits
  <2> QED BY <1>0, <1>1, <1>2, <1>3, <2>1, RunStops DEF LookBeside, Ended
<1>4. CASE ~dir["stage"].there
  <2> DEFINE new == ~dir["owner"].there
             x == [r EXCEPT !.pc = "open", !.create = new]
  <2>1. new \in BOOLEAN OBVIOUS
  <2>2. run' = [run EXCEPT ![p] = x] /\ lock' = lock BY <1>0, <1>4, Zenon DEF LookBeside
  <2>3. new => NoMark("owner") BY <1>1 DEF DiskFits, NoMark, Stores
  <2> HIDE DEF new
  <2>4. /\ x \in RunType /\ x.pc = "open" /\ x.recipe = r.recipe /\ x.resume = r.resume /\ x.at = r.at
        /\ x.create = new /\ x.k = r.k /\ x.count = r.count /\ x.used = r.used /\ x.late = r.late /\ x.met = r.met
    BY <1>1, <2>1 DEF RunType
  <2> HIDE DEF x
  <2>5. RunFits(x, pause[p]) BY <1>1, <2>4 DEF RunFits, IsLive, Ended, Loop
  <2>6. Named(x) /\ Knows(x) BY <1>1, <2>3, <2>4 DEF RunFits, Named, Knows, Owns, Loop, Entering
  <2>7. \A s \in Stores : Owns(x, s) <=> Owns(run[p], s)
    BY <1>0, <1>1, <2>4 DEF RunFits, Owns, IsLive, Ended, Loop, Entering
  <2> QED BY <1>0, <1>1, <1>2, <2>2, <2>4, <2>5, <2>6, <2>7, RunGoes
<1> QED BY <1>3, <1>4

LEMMA DirectoryStep == ASSUME BlocksInv, NEW p \in Procs, OpenDirectory(p) PROVE BlocksInv'
<1>0. PICK r : r = run[p] OBVIOUS
<1>1. /\ TypeOK /\ DiskFits /\ r \in RunType /\ RunFits(r, pause[p]) /\ Named(r) /\ IsLive(r) /\ r.pc = "open"
      /\ ~r.met => Knows(r)
      /\ \A s \in Stores : lock[s] = p <=> Owns(r, s)
      /\ r.at \in Stores
  BY <1>0, RunAt DEF OpenDirectory, At, IsLive, Ended, RunType
<1>2. blk' = blk /\ btmp' = btmp /\ pause' = pause /\ runs' = runs BY DEF OpenDirectory
<1>3. \/ root' = TRUE /\ dir' = dir /\ lock' = lock /\ run' = run
      \/ /\ Go(p, "lock") /\ lock' = lock /\ root' = root
         /\ dir' = [dir EXCEPT ![r.at].there = TRUE] \/ (dir' = dir /\ dir[r.at].there)
      \/ End(p, "failed") /\ dir' = dir /\ root' = root
  BY <1>0 DEF OpenDirectory
\* What stays as it is.
<1>4. /\ lock \in [Stores -> Procs \cup {NoProc}] /\ blk' \in [Keys -> Recipes \cup {None}] /\ btmp' \subseteq Keys
      /\ Saved' = Saved /\ Cardinality(Saved)' <= Limit /\ root \in BOOLEAN
      /\ dir \in [Stores -> [there : BOOLEAN, ident : Recipes \cup {None}, tmp : BOOLEAN]]
  BY <1>1, <1>2 DEF TypeOK, Saved
<1>5. CASE root' = TRUE /\ dir' = dir /\ lock' = lock /\ run' = run
  <2>1. run' = [run EXCEPT ![p] = r] BY <1>0, <1>1, <1>5 DEF TypeOK
  <2>2. root' \in BOOLEAN BY <1>5
  <2>3. Named(r)' /\ DiskFits' /\ (IsLive(r) /\ ~r.met => Knows(r)')
    BY <1>1, <1>2, <1>4, <1>5 DEF Named, DiskFits, Knows, NoMark
  <2>4. /\ \A s \in Stores : lock[s] # p => lock'[s] \in {lock[s], p} /\ (lock'[s] = p => lock[s] = NoProc)
        /\ \A s \in Stores : lock[s] = p => lock'[s] \in {p, NoProc}
        /\ \A s \in Stores : lock'[s] # p /\ lock[s] # p => lock'[s] = lock[s]
        /\ \A s \in Stores : lock'[s] = p <=> Owns(r, s)
        /\ \A s \in Stores : lock[s] # p => dir'[s].ident = dir[s].ident
        /\ \A s \in Stores : dir[s].there => dir'[s].there
    BY <1>1, <1>5
  <2>5. lock' \in [Stores -> Procs \cup {NoProc}] /\ dir' \in [Stores -> [there : BOOLEAN, ident : Recipes \cup {None}, tmp : BOOLEAN]]
    BY <1>4, <1>5
  <2> QED BY <1>0, <1>1, <1>2, <1>4, <2>1, <2>2, <2>3, <2>4, <2>5, BlocksStep
<1>6. CASE /\ Go(p, "lock") /\ lock' = lock /\ root' = root
           /\ dir' = [dir EXCEPT ![r.at].there = TRUE] \/ (dir' = dir /\ dir[r.at].there)
  <2> DEFINE x == [r EXCEPT !.pc = "lock"]
  <2>1. /\ x \in RunType /\ x.pc = "lock" /\ x.recipe = r.recipe /\ x.resume = r.resume /\ x.at = r.at
        /\ x.create = r.create /\ x.k = r.k /\ x.count = r.count /\ x.used = r.used /\ x.late = r.late /\ x.met = r.met
    BY <1>1, RecordAt
  <2>2. run' = [run EXCEPT ![p] = x] BY <1>0, <1>6 DEF Go
  <2> HIDE DEF x
  <2>3. /\ dir' \in [Stores -> [there : BOOLEAN, ident : Recipes \cup {None}, tmp : BOOLEAN]]
        /\ \A s \in Stores : dir'[s].ident = dir[s].ident /\ dir'[s].tmp = dir[s].tmp
        /\ \A s \in Stores : dir'[s].there <=> dir[s].there \/ s = r.at
    <3> DEFINE yes == TRUE
    <3>1. yes \in BOOLEAN /\ yes = TRUE OBVIOUS
    <3> HIDE DEF yes
    <3>2. CASE dir' = [dir EXCEPT ![r.at].there = yes]
      <4> DEFINE d == [dir[r.at] EXCEPT !.there = yes]
      <4>1. d \in [there : BOOLEAN, ident : Recipes \cup {None}, tmp : BOOLEAN] /\ d.there = yes /\ d.ident = dir[r.at].ident /\ d.tmp = dir[r.at].tmp
        BY <1>1, <1>4, <3>1
      <4>2. dir' = [dir EXCEPT ![r.at] = d] BY <3>2
      <4> HIDE DEF d
      <4> QED BY <1>1, <1>4, <3>1, <4>1, <4>2
    <3>3. CASE dir' = dir /\ dir[r.at].there BY <1>4, <3>3
    <3> QED BY <1>6, <3>1, <3>2, <3>3
  <2>4. RunFits(x, pause[p]) BY <1>1, <2>1 DEF RunFits, IsLive, Ended, Loop
  <2>5. Named(x)' BY <1>1, <1>4, <2>1, <2>3 DEF RunFits, Named, Owns, Loop, Entering, Stores, IsLive
  <2>6. IsLive(x) /\ ~x.met => Knows(x)' BY <1>1, <1>2, <1>4, <2>1, <2>3 DEF Knows, NoMark, Stores
  <2>7. DiskFits'
    <3>1. r.at = "stage" => dir["owner"].ident # None BY <1>1, CheckpointAssumption DEF Named, RunFits
    <3> QED BY <1>1, <1>2, <1>4, <2>3, <3>1 DEF DiskFits, Stores
  <2>8. \A s \in Stores : Owns(x, s) <=> Owns(r, s)
    BY <1>1, <2>1 DEF RunFits, Owns, IsLive, Ended, Loop, Entering
  <2>9. /\ \A s \in Stores : lock[s] # p => lock'[s] \in {lock[s], p} /\ (lock'[s] = p => lock[s] = NoProc)
        /\ \A s \in Stores : lock[s] = p => lock'[s] \in {p, NoProc}
        /\ \A s \in Stores : lock'[s] # p /\ lock[s] # p => lock'[s] = lock[s]
        /\ \A s \in Stores : lock'[s] = p <=> Owns(x, s)
        /\ lock' \in [Stores -> Procs \cup {NoProc}] /\ root' \in BOOLEAN
    BY <1>1, <1>4, <1>6, <2>8
  <2>10. /\ \A s \in Stores : lock[s] # p => dir'[s].ident = dir[s].ident
         /\ \A s \in Stores : dir[s].there => dir'[s].there
         /\ IsLive(run[p]) /\ x.met = run[p].met
    BY <1>0, <1>1, <2>1, <2>3
  <2> QED BY <1>2, <1>4, <2>1, <2>2, <2>3, <2>4, <2>5, <2>6, <2>7, <2>9, <2>10, BlocksStep
<1>7. CASE End(p, "failed") /\ dir' = dir /\ root' = root
  <2>1. UNCHANGED <<disk, pause, runs>> /\ "failed" \in Ended BY <1>2, <1>7 DEF disk, Ended
  <2> QED BY <1>0, <1>1, <1>7, <2>1, RunStops
<1> QED BY <1>3, <1>5, <1>6, <1>7

LEMMA TakeLockStep == ASSUME BlocksInv, NEW p \in Procs, TakeLock(p) PROVE BlocksInv'
<1>0. PICK r : r = run[p] OBVIOUS
<1>1. /\ TypeOK /\ DiskFits /\ r \in RunType /\ RunFits(r, pause[p]) /\ Named(r) /\ IsLive(r) /\ r.pc = "lock"
      /\ ~r.met => Knows(r)
      /\ \A s \in Stores : lock[s] = p <=> Owns(r, s)
      /\ r.at \in Stores
  BY <1>0, RunAt DEF TakeLock, At, IsLive, Ended, RunType
<1>2. blk' = blk /\ btmp' = btmp /\ pause' = pause /\ runs' = runs /\ dir' = dir /\ root' = root /\ UNCHANGED disk
  BY DEF TakeLock, disk
<1>3. CASE ~FlockFree(r.at) BY <1>0, <1>1, <1>2, <1>3, RunStops DEF TakeLock, Ended
<1>4. CASE FlockFree(r.at)
  <2> DEFINE x == [r EXCEPT !.pc = "scan"]
  <2>1. /\ x \in RunType /\ x.pc = "scan" /\ x.recipe = r.recipe /\ x.resume = r.resume /\ x.at = r.at
        /\ x.create = r.create /\ x.k = r.k /\ x.count = r.count /\ x.used = r.used /\ x.late = r.late /\ x.met = r.met
    BY <1>1, RecordAt
  <2>2. run' = [run EXCEPT ![p] = x] /\ lock' = [lock EXCEPT ![r.at] = p] /\ lock[r.at] = NoProc
    BY <1>0, <1>4 DEF TakeLock, Go, FlockFree
  <2> HIDE DEF x
  <2>3. RunFits(x, pause[p]) BY <1>1, <2>1 DEF RunFits, IsLive, Ended, Loop
  <2>5. Named(x) BY <1>1, <2>1 DEF RunFits, Named, Owns, Loop, Entering, IsLive
  <2>6. ~x.met => Knows(x) BY <1>1, <2>1 DEF Knows
  <2>7. Named(x)' /\ (IsLive(x) /\ ~x.met => Knows(x)') BY <1>2, <2>5, <2>6 DEF Named, Knows, NoMark, Saved
  <2>8. lock' \in [Stores -> Procs \cup {NoProc}] /\ lock'[r.at] = p /\ \A s \in Stores : s # r.at => lock'[s] = lock[s]
    BY <1>1, <2>2 DEF TypeOK
  <2>9. \A s \in Stores : lock'[s] = p <=> Owns(x, s)
    <3>1. Owns(x, r.at) BY <1>1, <2>1 DEF Owns, IsLive, Entering, Ended, Stores
    <3>2. \A s \in Stores : s # r.at => (Owns(x, s) <=> Owns(r, s))
      BY <1>1, <2>1 DEF Owns, IsLive, Entering, Ended, Stores, Loop
    <3> QED BY <1>1, <2>8, <3>1, <3>2
  <2>10. /\ \A s \in Stores : lock[s] # p => lock'[s] \in {lock[s], p} /\ (lock'[s] = p => lock[s] = NoProc)
         /\ \A s \in Stores : lock[s] = p => lock'[s] \in {p, NoProc}
         /\ \A s \in Stores : lock'[s] # p /\ lock[s] # p => lock'[s] = lock[s]
    BY <2>2, <2>8
  <2>11. /\ root' \in BOOLEAN /\ dir' \in [Stores -> [there : BOOLEAN, ident : Recipes \cup {None}, tmp : BOOLEAN]]
         /\ blk' \in [Keys -> Recipes \cup {None}] /\ btmp' \subseteq Keys /\ Cardinality(Saved)' <= Limit
         /\ DiskFits'
    BY <1>1, <1>2 DEF TypeOK, Saved, DiskFits
  <2>12. /\ \A s \in Stores : lock[s] # p => dir'[s].ident = dir[s].ident
         /\ \A s \in Stores : dir[s].there => dir'[s].there
         /\ IsLive(run[p]) /\ x.met = run[p].met
    BY <1>0, <1>1, <1>2, <2>1
  <2> QED BY <1>2, <2>1, <2>2, <2>3, <2>7, <2>8, <2>9, <2>10, <2>11, <2>12, BlocksStep
<1> QED BY <1>3, <1>4

\* A step within a store whose lock the run holds.
LEMMA HolderStep ==
    ASSUME BlocksInv, NEW p \in Procs, IsLive(run[p]), NEW x \in RunType, run' = [run EXCEPT ![p] = x], x.met = run[p].met,
           RunFits(x, pause[p]), Named(x)', IsLive(x) /\ ~x.met => Knows(x)', DiskFits',
           \A s \in Stores : Owns(x, s) <=> Owns(run[p], s),
           dir' \in [Stores -> [there : BOOLEAN, ident : Recipes \cup {None}, tmp : BOOLEAN]],
           \A s \in Stores : ~Owns(run[p], s) => dir'[s].ident = dir[s].ident,
           \A s \in Stores : dir[s].there => dir'[s].there,
           ~Owns(run[p], "stage") => blk' = blk /\ btmp' = btmp,
           blk' \in [Keys -> Recipes \cup {None}], btmp' \subseteq Keys, Cardinality(Saved)' <= Limit,
           UNCHANGED <<root, lock, pause, runs>>
    PROVE  BlocksInv'
<1>1. /\ lock' \in [Stores -> Procs \cup {NoProc}] /\ root' \in BOOLEAN
      /\ \A s \in Stores : lock[s] = p <=> Owns(run[p], s)
  BY DEF BlocksInv, TypeOK, LocksFit
<1>2. /\ \A s \in Stores : lock'[s] = p <=> Owns(x, s)
      /\ \A s \in Stores : lock[s] # p => lock'[s] \in {lock[s], p} /\ (lock'[s] = p => lock[s] = NoProc)
      /\ \A s \in Stores : lock[s] = p => lock'[s] \in {p, NoProc}
      /\ \A s \in Stores : lock'[s] # p /\ lock[s] # p => lock'[s] = lock[s]
      /\ \A s \in Stores : lock[s] # p => dir'[s].ident = dir[s].ident
      /\ lock["stage"] # p => blk' = blk /\ btmp' = btmp
  BY <1>1 DEF Stores
<1> QED BY <1>1, <1>2, BlocksStep

LEMMA IdentityStagedStep == ASSUME BlocksInv, NEW p \in Procs, StageIdentity(p) PROVE BlocksInv'
<1>0. PICK r : r = run[p] OBVIOUS
<1>1. /\ TypeOK /\ DiskFits /\ r \in RunType /\ RunFits(r, pause[p]) /\ Named(r) /\ IsLive(r) /\ r.pc = "identity"
      /\ \A s \in Stores : lock[s] = p <=> Owns(r, s)
      /\ r.at \in Stores
  BY <1>0, RunAt DEF StageIdentity, At, IsLive, Ended, RunType
<1> DEFINE yes == TRUE
           d == [dir[r.at] EXCEPT !.tmp = yes]
           x == [r EXCEPT !.pc = "name"]
<1>2. dir' = [dir EXCEPT ![r.at].tmp = yes] /\ run' = [run EXCEPT ![p] = x] /\ UNCHANGED <<root, blk, btmp, lock, pause, runs>>
  BY <1>0 DEF StageIdentity, Go
<1>3. yes \in BOOLEAN OBVIOUS
<1> HIDE DEF yes
<1>4. /\ dir \in [Stores -> [there : BOOLEAN, ident : Recipes \cup {None}, tmp : BOOLEAN]]
      /\ d \in [there : BOOLEAN, ident : Recipes \cup {None}, tmp : BOOLEAN]
      /\ d.there = dir[r.at].there /\ d.ident = dir[r.at].ident
  BY <1>1, <1>3 DEF TypeOK
<1>5. dir' = [dir EXCEPT ![r.at] = d] BY <1>2
<1> HIDE DEF d
<1>6. /\ dir' \in [Stores -> [there : BOOLEAN, ident : Recipes \cup {None}, tmp : BOOLEAN]]
      /\ \A s \in Stores : dir'[s].ident = dir[s].ident /\ dir'[s].there = dir[s].there
      /\ \A s \in Stores : s # r.at => dir'[s] = dir[s]
  BY <1>1, <1>4, <1>5
<1>7. /\ x \in RunType /\ x.pc = "name" /\ x.recipe = r.recipe /\ x.resume = r.resume /\ x.at = r.at
      /\ x.create = r.create /\ x.k = r.k /\ x.count = r.count /\ x.used = r.used /\ x.late = r.late /\ x.met = r.met
  BY <1>1, RecordAt
<1> HIDE DEF x
<1>8. RunFits(x, pause[p]) BY <1>1, <1>7 DEF RunFits, IsLive, Ended, Loop
<1>9. Saved' = Saved /\ blk' = blk /\ btmp' = btmp BY <1>2 DEF Saved
<1>10. Named(x)' BY <1>1, <1>6, <1>7, <1>9 DEF Named, Owns, Loop, Entering, IsLive, Stores
<1>11. Knows(x)' BY <1>7 DEF Knows
<1>12. DiskFits'
  <2>1. dir[r.at].ident = None /\ dir[r.at].there BY <1>1 DEF Named, Entering
  <2> QED BY <1>1, <1>6, <1>9, <2>1 DEF DiskFits, Stores
<1>13. \A s \in Stores : Owns(x, s) <=> Owns(r, s) BY <1>1, <1>7 DEF Owns, IsLive, Ended, Loop, Entering
<1>14. blk' \in [Keys -> Recipes \cup {None}] /\ btmp' \subseteq Keys /\ Cardinality(Saved)' <= Limit
  BY <1>1, <1>9 DEF TypeOK
<1>15. /\ \A s \in Stores : ~Owns(r, s) => dir'[s].ident = dir[s].ident
       /\ \A s \in Stores : dir[s].there => dir'[s].there
       /\ UNCHANGED <<root, lock, pause, runs>>
  BY <1>2, <1>6
<1> QED BY <1>0, <1>1, <1>2, <1>6, <1>7, <1>8, <1>9, <1>10, <1>11, <1>12, <1>13, <1>14, <1>15, HolderStep

LEMMA IdentityPublishedStep == ASSUME BlocksInv, NEW p \in Procs, PublishIdentity(p) PROVE BlocksInv'
<1>0. PICK r : r = run[p] OBVIOUS
<1>1. /\ TypeOK /\ DiskFits /\ r \in RunType /\ RunFits(r, pause[p]) /\ Named(r) /\ IsLive(r) /\ r.pc = "name"
      /\ \A s \in Stores : lock[s] = p <=> Owns(r, s)
      /\ r.at \in Stores /\ r.recipe \in Recipes
  BY <1>0, RunAt DEF PublishIdentity, At, IsLive, Ended, RunType, RunFits
<1> DEFINE no == FALSE
           d == [dir[r.at] EXCEPT !.tmp = no, !.ident = r.recipe]
           x == [r EXCEPT !.pc = "opened"]
<1>2. run' = [run EXCEPT ![p] = x] /\ UNCHANGED <<root, blk, btmp, lock, pause, runs>>
  BY <1>0 DEF PublishIdentity, Go
<1>3. dir' = [dir EXCEPT ![r.at].tmp = no, ![r.at].ident = r.recipe] BY <1>0 DEF PublishIdentity, Identity
<1>4. no \in BOOLEAN /\ ~no OBVIOUS
<1>5. dir' = [dir EXCEPT ![r.at] = d] BY <1>3, Zenon
<1> HIDE DEF no
<1>6. /\ dir \in [Stores -> [there : BOOLEAN, ident : Recipes \cup {None}, tmp : BOOLEAN]]
      /\ d \in [there : BOOLEAN, ident : Recipes \cup {None}, tmp : BOOLEAN]
      /\ d.there = dir[r.at].there /\ d.ident = r.recipe /\ d.tmp = no
  BY <1>1, <1>4, ZenonT(60) DEF TypeOK
<1> HIDE DEF d
<1>7. /\ dir' \in [Stores -> [there : BOOLEAN, ident : Recipes \cup {None}, tmp : BOOLEAN]]
      /\ \A s \in Stores : dir'[s].there = dir[s].there
      /\ \A s \in Stores : s # r.at => dir'[s] = dir[s]
      /\ dir'[r.at].ident = r.recipe /\ ~dir'[r.at].tmp
  BY <1>1, <1>4, <1>5, <1>6
<1>8. /\ x \in RunType /\ x.pc = "opened" /\ x.recipe = r.recipe /\ x.resume = r.resume /\ x.at = r.at
      /\ x.create = r.create /\ x.k = r.k /\ x.count = r.count /\ x.used = r.used /\ x.late = r.late /\ x.met = r.met
  BY <1>1, RecordAt
<1> HIDE DEF x
<1>9. RunFits(x, pause[p]) BY <1>1, <1>8 DEF RunFits, IsLive, Ended, Loop
<1>10. Saved' = Saved /\ blk' = blk /\ btmp' = btmp BY <1>2 DEF Saved
<1>11. r.recipe # None /\ dir[r.at].there /\ (r.at = "stage" => Saved = {} /\ btmp = {} /\ dir["owner"].ident = r.recipe)
  BY <1>1, CheckpointAssumption DEF Named, Entering
<1>12. Named(x)'
  <2>1. r.at = "stage" => Cardinality(Saved)' = 0 /\ r.count = 0
    BY <1>1, <1>10, <1>11, FS_EmptySet DEF RunFits
  <2>2. r.at = "stage" => dir'["owner"].ident = r.recipe BY <1>7, <1>11 DEF Stores
  <2>3. dir'[r.at].there BY <1>1, <1>7, <1>11
  <2>4. r.at = "stage" => Cardinality(Saved)' <= x.count + (IF x.pc = "sync" THEN 1 ELSE 0) BY <1>8, <2>1
  <2> QED BY <1>7, <1>8, <2>2, <2>3, <2>4 DEF Named, Loop
<1>13. Knows(x)' BY <1>8 DEF Knows
<1>14. DiskFits' BY <1>1, <1>7, <1>10, <1>11 DEF DiskFits, Stores, Saved
<1>15. \A s \in Stores : Owns(x, s) <=> Owns(r, s) BY <1>1, <1>8 DEF Owns, IsLive, Ended, Loop, Entering
<1>16. blk' \in [Keys -> Recipes \cup {None}] /\ btmp' \subseteq Keys /\ Cardinality(Saved)' <= Limit
  BY <1>1, <1>10 DEF TypeOK
<1>17. \A s \in Stores : ~Owns(r, s) => dir'[s].ident = dir[s].ident
  <2>1. Owns(r, r.at) BY <1>1 DEF Owns, Stores, Entering
  <2> QED BY <1>7, <2>1
<1> QED BY <1>0, <1>1, <1>2, <1>7, <1>8, <1>9, <1>10, <1>12, <1>13, <1>14, <1>15, <1>16, <1>17, HolderStep

LEMMA OpenedStep == ASSUME BlocksInv, NEW p \in Procs, Opened(p) PROVE BlocksInv'
<1>0. PICK r : r = run[p] OBVIOUS
<1>1. /\ TypeOK /\ DiskFits /\ r \in RunType /\ RunFits(r, pause[p]) /\ Named(r) /\ IsLive(r) /\ r.pc = "opened"
      /\ r.at \in Stores /\ r.recipe \in Recipes
  BY <1>0, RunAt DEF Opened, At, IsLive, Ended, RunType, RunFits
<1>2. UNCHANGED <<disk, pause, runs>> BY DEF Opened
<1>3. CASE r.at = "stage"
  <2> DEFINE x == [r EXCEPT !.pc = "boundary"]
  <2>1. /\ x \in RunType /\ x.pc = "boundary" /\ x.recipe = r.recipe /\ x.resume = r.resume /\ x.at = r.at
        /\ x.create = r.create /\ x.k = r.k /\ x.count = r.count /\ x.used = r.used /\ x.late = r.late /\ x.met = r.met
    BY <1>1, RecordAt
  <2>2. run' = [run EXCEPT ![p] = x] /\ lock' = lock BY <1>0, <1>3 DEF Opened, Go
  <2> HIDE DEF x
  <2>3. RunFits(x, pause[p]) BY <1>1, <1>3, <2>1 DEF RunFits, IsLive, Ended, Loop
  <2>4. Named(x) /\ Knows(x) BY <1>1, <1>3, <2>1 DEF Named, Knows, Loop, Entering, IsLive
  <2>5. \A s \in Stores : Owns(x, s) <=> Owns(r, s)
    BY <1>1, <1>3, <2>1 DEF Owns, IsLive, Ended, Loop, Entering
  <2> QED BY <1>0, <1>1, <1>2, <2>1, <2>2, <2>3, <2>4, <2>5, RunGoes
<1>4. CASE r.at # "stage" /\ PauseSeen(p)
  <2>1. End(p, "paused") /\ "paused" \in Ended BY <1>0, <1>4 DEF Opened, Ended
  <2> QED BY <1>0, <1>1, <1>2, <2>1, RunStops
<1>5. CASE r.at # "stage" /\ ~PauseSeen(p)
  <2> DEFINE new == StageIsNew
             x == [r EXCEPT !.at = "stage", !.pc = "open", !.create = new]
  <2>1. run' = [run EXCEPT ![p] = x] /\ lock' = lock BY <1>0, <1>5, Zenon DEF Opened
  <2>2. new \in BOOLEAN /\ (new => NoMark("stage") /\ Saved = {} /\ btmp = {})
    BY <1>1 DEF StageIsNew, DiskFits, NoMark, Stores
  <2> HIDE DEF new
  <2>3. /\ x \in RunType /\ x.pc = "open" /\ x.recipe = r.recipe /\ x.resume = r.resume /\ x.at = "stage"
        /\ x.create = new /\ x.k = r.k /\ x.count = r.count /\ x.used = r.used /\ x.late = r.late /\ x.met = r.met
    BY <1>1, <2>2 DEF RunType, Stores
  <2> HIDE DEF x
  <2>4. r.at = "owner" /\ dir["owner"].ident = r.recipe BY <1>1, <1>5 DEF Named, Stores
  <2>5. RunFits(x, pause[p]) BY <1>1, <2>3, <2>4 DEF RunFits, IsLive, Ended, Loop
  <2>6. Named(x) /\ Knows(x) BY <1>1, <2>2, <2>3, <2>4 DEF Named, Knows, Loop, Entering
  <2>7. \A s \in Stores : Owns(x, s) <=> Owns(r, s)
    BY <1>1, <2>3, <2>4 DEF Owns, IsLive, Ended, Loop, Entering
  <2> QED BY <1>0, <1>1, <1>2, <2>1, <2>3, <2>5, <2>6, <2>7, RunGoes
<1> QED BY <1>3, <1>4, <1>5

LEMMA ScanStep == ASSUME BlocksInv, NEW p \in Procs, Scan(p) PROVE BlocksInv'
<1>0. PICK r : r = run[p] OBVIOUS
<1>1. /\ TypeOK /\ DiskFits /\ r \in RunType /\ RunFits(r, pause[p]) /\ Named(r) /\ IsLive(r) /\ r.pc = "scan"
      /\ ~r.met => Knows(r)
      /\ \A s \in Stores : lock[s] = p <=> Owns(r, s)
      /\ r.at \in Stores /\ r.recipe \in Recipes
  BY <1>0, RunAt DEF Scan, At, IsLive, Ended, RunType, RunFits
<1>2. UNCHANGED <<root, blk, pause, runs>> /\ Saved' = Saved /\ Cardinality(Saved)' <= Limit
  BY <1>1 DEF Scan, TypeOK, Saved
<1>3. \/ Creates(p) /\ Empty(r.at) /\ Go(p, "identity") /\ UNCHANGED <<dir, btmp, lock>>
      \/ Creates(p) /\ ~Empty(r.at) /\ End(p, IF r.resume \/ r.at = "stage" THEN "stranded" ELSE "refused") /\ UNCHANGED <<dir, btmp>>
      \/ End(p, "refused") /\ UNCHANGED <<dir, btmp>>
      \/ dir[r.at].ident = None /\ Files(r.at) # {} /\ End(p, "stranded") /\ UNCHANGED <<dir, btmp>>
      \/ /\ dir[r.at].ident = None /\ Files(r.at) = {} /\ dir' = [dir EXCEPT ![r.at].tmp = FALSE]
         /\ Go(p, "identity") /\ UNCHANGED <<btmp, lock>>
      \/ /\ dir[r.at].ident # None /\ (dir[r.at].tmp \/ (r.at = "stage" /\ Cardinality(Saved) > Limit))
         /\ End(p, "stranded") /\ UNCHANGED <<dir, btmp>>
      \/ /\ dir[r.at].ident = r.recipe
         /\ run' = [run EXCEPT ![p].pc = "opened", ![p].count = IF r.at = "stage" THEN Cardinality(Saved) ELSE 0]
         /\ (r.at = "owner" \/ Cardinality(Saved) <= Limit)
         /\ btmp' = (IF r.at = "stage" THEN {} ELSE btmp) /\ UNCHANGED <<dir, lock>>
  BY <1>0 DEF Scan, Identity
\* What a run that turns back leaves.
<1>4. ASSUME NEW pc \in Ended, End(p, pc), UNCHANGED <<dir, btmp>>, pc = "stranded" => r.met PROVE BlocksInv'
  <2>1. UNCHANGED <<disk, pause, runs>> BY <1>2, <1>4 DEF disk
  <2> QED BY <1>0, <1>1, <1>4, <2>1, RunStops
\* A step to the identity of an empty store.
<1>5. ASSUME Go(p, "identity"), lock' = lock, btmp' = btmp, dir[r.at].ident = None, Files(r.at) = {},
             dir' \in [Stores -> [there : BOOLEAN, ident : Recipes \cup {None}, tmp : BOOLEAN]],
             \A s \in Stores : dir'[s].ident = dir[s].ident /\ dir'[s].there = dir[s].there /\ (dir'[s].tmp => dir[s].tmp)
      PROVE  BlocksInv'
  <2> DEFINE x == [r EXCEPT !.pc = "identity"]
  <2>1. /\ x \in RunType /\ x.pc = "identity" /\ x.recipe = r.recipe /\ x.resume = r.resume /\ x.at = r.at
        /\ x.create = r.create /\ x.k = r.k /\ x.count = r.count /\ x.used = r.used /\ x.late = r.late /\ x.met = r.met
    BY <1>1, RecordAt
  <2>2. run' = [run EXCEPT ![p] = x] BY <1>0, <1>5 DEF Go
  <2> HIDE DEF x
  <2>3. RunFits(x, pause[p]) BY <1>1, <2>1 DEF RunFits, IsLive, Ended, Loop
  <2>4. Named(x)'
    <3>1. r.at = "stage" => Saved = {} /\ btmp = {} BY <1>5 DEF Files
    <3> QED BY <1>1, <1>2, <1>5, <2>1, <3>1 DEF Named, Entering, Loop, Stores, IsLive
  <2>5. Knows(x)' BY <2>1 DEF Knows
  <2>6. DiskFits' BY <1>1, <1>2, <1>5 DEF DiskFits, Stores
  <2>7. \A s \in Stores : Owns(x, s) <=> Owns(r, s) BY <1>1, <2>1 DEF Owns, IsLive, Ended, Loop, Entering
  <2>8. blk' \in [Keys -> Recipes \cup {None}] /\ btmp' \subseteq Keys /\ blk' = blk /\ UNCHANGED <<root, lock, pause, runs>>
    BY <1>1, <1>2, <1>5 DEF TypeOK
  <2>9. (\A s \in Stores : ~Owns(r, s) => dir'[s].ident = dir[s].ident) /\ (\A s \in Stores : dir[s].there => dir'[s].there)
    BY <1>5
  <2> QED BY <1>0, <1>1, <1>2, <1>5, <2>1, <2>2, <2>3, <2>4, <2>5, <2>6, <2>7, <2>8, <2>9, HolderStep, ZenonT(60)
<1>6. CASE Creates(p) /\ Empty(r.at) /\ Go(p, "identity") /\ UNCHANGED <<dir, btmp, lock>>
  <2>1. dir' \in [Stores -> [there : BOOLEAN, ident : Recipes \cup {None}, tmp : BOOLEAN]]
    BY <1>1, <1>6 DEF TypeOK
  <2> QED BY <1>5, <1>6, <2>1 DEF Empty
<1>7. CASE Creates(p) /\ ~Empty(r.at) /\ End(p, IF r.resume \/ r.at = "stage" THEN "stranded" ELSE "refused") /\ UNCHANGED <<dir, btmp>>
  <2>1. PICK pc \in Ended : pc = IF r.resume \/ r.at = "stage" THEN "stranded" ELSE "refused" BY DEF Ended
  <2>2. ASSUME pc = "stranded", ~r.met PROVE FALSE
    <3>1. r.create BY <1>0, <1>7, <2>1, <2>2 DEF Creates
    <3>2. Empty(r.at) BY <1>1, <2>2, <3>1 DEF Knows, Empty, NoMark, Files, Stores
    <3> QED BY <1>7, <3>2
  <2> QED BY <1>4, <1>7, <2>1, <2>2
<1>8. CASE End(p, "refused") /\ UNCHANGED <<dir, btmp>> BY <1>4, <1>8 DEF Ended
<1>9. CASE dir[r.at].ident = None /\ Files(r.at) # {} /\ End(p, "stranded") /\ UNCHANGED <<dir, btmp>>
  BY <1>1, <1>9 DEF DiskFits, Files
<1>10. CASE /\ dir[r.at].ident = None /\ Files(r.at) = {} /\ dir' = [dir EXCEPT ![r.at].tmp = FALSE]
            /\ Go(p, "identity") /\ UNCHANGED <<btmp, lock>>
  <2> DEFINE no == FALSE
             d == [dir[r.at] EXCEPT !.tmp = no]
  <2>1. no \in BOOLEAN /\ ~no OBVIOUS
  <2>2. dir' = [dir EXCEPT ![r.at] = d] BY <1>10
  <2> HIDE DEF no
  <2>3. /\ dir \in [Stores -> [there : BOOLEAN, ident : Recipes \cup {None}, tmp : BOOLEAN]]
        /\ d \in [there : BOOLEAN, ident : Recipes \cup {None}, tmp : BOOLEAN]
        /\ d.there = dir[r.at].there /\ d.ident = dir[r.at].ident /\ d.tmp = no
    BY <1>1, <2>1 DEF TypeOK
  <2> HIDE DEF d
  <2>4. /\ dir' \in [Stores -> [there : BOOLEAN, ident : Recipes \cup {None}, tmp : BOOLEAN]]
        /\ \A s \in Stores : dir'[s].ident = dir[s].ident /\ dir'[s].there = dir[s].there /\ (dir'[s].tmp => dir[s].tmp)
    BY <1>1, <2>1, <2>2, <2>3
  <2> QED BY <1>5, <1>10, <2>4
<1>11. CASE /\ dir[r.at].ident # None /\ (dir[r.at].tmp \/ (r.at = "stage" /\ Cardinality(Saved) > Limit))
            /\ End(p, "stranded") /\ UNCHANGED <<dir, btmp>>
  <2>1. Cardinality(Saved) \in Nat /\ Limit \in Nat BY SavedIsFinite, CheckpointAssumption DEF Saved
  <2> QED BY <1>1, <1>11, <2>1 DEF DiskFits, TypeOK
<1>12. CASE /\ dir[r.at].ident = r.recipe
            /\ run' = [run EXCEPT ![p].pc = "opened", ![p].count = IF r.at = "stage" THEN Cardinality(Saved) ELSE 0]
            /\ (r.at = "owner" \/ Cardinality(Saved) <= Limit)
            /\ btmp' = (IF r.at = "stage" THEN {} ELSE btmp) /\ UNCHANGED <<dir, lock>>
  <2>0. PICK n : n = IF r.at = "stage" THEN Cardinality(Saved) ELSE 0 OBVIOUS
  <2> DEFINE x == [r EXCEPT !.pc = "opened", !.count = n]
  <2>1. n \in Nat /\ n <= Limit /\ (r.at = "owner" => n = 0) /\ (r.at = "stage" => n = Cardinality(Saved))
    BY <1>1, <1>12, <2>0, SavedIsFinite, CheckpointAssumption DEF Saved, Stores
  <2>2. run' = [run EXCEPT ![p] = x] BY <1>0, <1>12, <2>0, Zenon
  <2>3. /\ x \in RunType /\ x.pc = "opened" /\ x.recipe = r.recipe /\ x.resume = r.resume /\ x.at = r.at
        /\ x.create = r.create /\ x.k = r.k /\ x.count = n /\ x.used = r.used /\ x.late = r.late /\ x.met = r.met
    BY <1>1, <2>1 DEF RunType
  <2> HIDE DEF x
  <2>4. RunFits(x, pause[p]) BY <1>1, <2>1, <2>3 DEF RunFits, IsLive, Ended, Loop
  <2>5. Named(x)'
    <3>1. r.at = "stage" => Cardinality(Saved)' <= x.count + (IF x.pc = "sync" THEN 1 ELSE 0)
      BY <1>2, <2>1, <2>3
    <3>2. dir' = dir /\ dir[r.at].there BY <1>1, <1>12 DEF Named, Entering
    <3> QED BY <1>1, <1>12, <2>3, <3>1, <3>2 DEF Named, Entering, Loop, Stores, IsLive
  <2>6. Knows(x)' BY <2>3 DEF Knows
  <2>7. DiskFits' BY <1>1, <1>2, <1>12 DEF DiskFits, Stores
  <2>8. \A s \in Stores : Owns(x, s) <=> Owns(r, s) BY <1>1, <2>3 DEF Owns, IsLive, Ended, Loop, Entering
  <2>9. /\ blk' \in [Keys -> Recipes \cup {None}] /\ btmp' \subseteq Keys /\ blk' = blk /\ UNCHANGED <<root, lock, pause, runs>>
        /\ dir' \in [Stores -> [there : BOOLEAN, ident : Recipes \cup {None}, tmp : BOOLEAN]]
        /\ ~Owns(r, "stage") => btmp' = btmp
    BY <1>1, <1>2, <1>12 DEF TypeOK, Owns, Entering, Stores
  <2>10. (\A s \in Stores : ~Owns(r, s) => dir'[s].ident = dir[s].ident) /\ (\A s \in Stores : dir[s].there => dir'[s].there)
    BY <1>12
  <2> QED BY <1>0, <1>1, <1>2, <2>2, <2>3, <2>4, <2>5, <2>6, <2>7, <2>8, <2>9, <2>10, HolderStep
<1> QED BY <1>3, <1>6, <1>7, <1>8, <1>9, <1>10, <1>11, <1>12

\* What is known of a run in the stage's loop.
LEMMA LoopAt ==
    ASSUME BlocksInv, NEW p \in Procs, NEW r, r = run[p], r.pc \in Loop
    PROVE  /\ TypeOK /\ DiskFits /\ r \in RunType /\ RunFits(r, pause[p]) /\ Named(r) /\ IsLive(r) /\ IsLive(run[p])
           /\ r.at = "stage" /\ r.recipe \in Recipes /\ r.recipe # None /\ dir["stage"].ident = r.recipe /\ dir["owner"].ident = r.recipe
           /\ Owns(r, "stage") /\ Owns(r, "owner") /\ r.k \in Nat /\ r.count \in Nat /\ r.late \in Nat /\ pause[p] \in BOOLEAN
<1>1. TypeOK /\ DiskFits /\ r \in RunType /\ RunFits(r, pause[p]) /\ Named(r) /\ IsLive(r) /\ r.at = "stage" /\ r.recipe \in Recipes
  BY RunAt DEF Loop, IsLive, Ended, RunFits
<1> QED BY <1>1, CheckpointAssumption DEF Named, Owns, RunType, TypeOK

\* A step of the loop that leaves the disk alone.
LEMMA LoopGoes ==
    ASSUME BlocksInv, NEW p \in Procs, NEW r, r = run[p], r.pc \in Loop,
           NEW x \in RunType, run' = [run EXCEPT ![p] = x], x.pc \in Loop, x.at = r.at, x.recipe = r.recipe, x.met = r.met,
           RunFits(x, pause[p]), x.count = r.count, x.pc # "sync", r.pc # "sync", UNCHANGED <<disk, lock, pause, runs>>
    PROVE  BlocksInv'
<1>1. IsLive(x) BY DEF IsLive, Ended, Loop
<1>2. Named(r) /\ r.at = "stage" /\ IsLive(r) BY LoopAt
<1>3. Named(x) /\ Knows(x) BY <1>1, <1>2 DEF Named, Knows, Loop, Entering, IsLive
<1>4. \A s \in Stores : Owns(x, s) <=> Owns(r, s) BY <1>1, <1>2 DEF Owns
<1> QED BY <1>2, <1>3, <1>4, RunGoes

LEMMA BoundaryStep == ASSUME BlocksInv, NEW p \in Procs, Boundary(p) PROVE BlocksInv'
<1>0. PICK r : r = run[p] OBVIOUS
<1>1. /\ RunFits(r, pause[p]) /\ r \in RunType /\ IsLive(run[p]) /\ r.pc = "boundary" /\ r.pc \in Loop
      /\ r.at = "stage" /\ r.late \in Nat /\ r.k \in Nat /\ r.recipe \in Recipes
  BY <1>0, LoopAt DEF Boundary, At, Loop
<1>2. UNCHANGED <<disk, pause, runs>> BY DEF Boundary
<1>3. CASE PauseSeen(p) \/ r.k > Need[r.recipe]
  <2>1. PICK pc \in {"paused", "done"} : End(p, pc) BY <1>0, <1>3 DEF Boundary
  <2> QED BY <1>1, <1>2, <2>1, RunStops DEF Ended
<1>4. CASE ~PauseSeen(p) /\ ~(r.k > Need[r.recipe])
  <2> DEFINE x == [r EXCEPT !.pc = "load"]
  <2>1. /\ x \in RunType /\ x.pc = "load" /\ x.recipe = r.recipe /\ x.resume = r.resume /\ x.at = r.at
        /\ x.create = r.create /\ x.k = r.k /\ x.count = r.count /\ x.used = r.used /\ x.late = r.late /\ x.met = r.met
    BY <1>1, RecordAt
  <2>2. run' = [run EXCEPT ![p] = x] /\ lock' = lock /\ ~pause[p] BY <1>0, <1>4 DEF Boundary, Go, PauseSeen
  <2> HIDE DEF x
  <2>3. r.k \in Keys BY <1>1, <1>4, KeysAreFinite DEF RunFits
  <2>4. RunFits(x, pause[p]) BY <1>1, <2>1, <2>2, <2>3 DEF RunFits, IsLive, Ended, Loop
  <2> QED BY <1>0, <1>1, <1>2, <2>1, <2>2, <2>4, LoopGoes DEF Loop
<1> QED BY <1>3, <1>4

LEMMA LoadStep == ASSUME BlocksInv, NEW p \in Procs, Load(p) PROVE BlocksInv'
<1>0. PICK r : r = run[p] OBVIOUS
<1>1. /\ RunFits(r, pause[p]) /\ r \in RunType /\ IsLive(run[p]) /\ r.pc = "load" /\ r.pc \in Loop
      /\ r.at = "stage" /\ r.late \in Nat /\ r.k \in Nat /\ pause[p] \in BOOLEAN
  BY <1>0, LoopAt DEF Load, At, Loop
<1>2. UNCHANGED <<disk, pause, runs>> BY DEF Load
<1>3. r.late = 0 /\ r.used \subseteq {r.recipe} /\ r.used \subseteq Recipes /\ r.recipe \in Recipes
  BY <1>0, <1>1, LoopAt DEF RunFits, Ended, RunType
<1>4. CASE blk[r.k] = None
  <2>0. PICK n : n = r.late + (IF pause[p] THEN 1 ELSE 0) OBVIOUS
  <2> DEFINE x == [r EXCEPT !.pc = "save", !.late = n]
  <2>1. run' = [run EXCEPT ![p] = x] /\ lock' = lock
    <3>1. run' = [run EXCEPT ![p].pc = "save", ![p].late = @ + (IF pause[p] THEN 1 ELSE 0)] /\ lock' = lock
      BY <1>0, <1>4 DEF Load
    <3>2. run' = [run EXCEPT ![p].pc = "save", ![p].late = n] BY <1>0, <2>0, <3>1
    <3> QED BY <1>0, <3>1, <3>2, Zenon
  <2>2. n \in Nat /\ n <= 1 /\ (n = 1 => pause[p]) BY <1>1, <1>3, <2>0
  <2>3. /\ x \in RunType /\ x.pc = "save" /\ x.recipe = r.recipe /\ x.resume = r.resume /\ x.at = r.at
        /\ x.create = r.create /\ x.k = r.k /\ x.count = r.count /\ x.used = r.used /\ x.late = n /\ x.met = r.met
    BY <1>1, <2>2 DEF RunType
  <2> HIDE DEF x
  <2>4. RunFits(x, pause[p]) BY <1>1, <2>2, <2>3 DEF RunFits, IsLive, Ended, Loop
  <2> QED BY <1>0, <1>1, <1>2, <2>1, <2>3, <2>4, LoopGoes DEF Loop
<1>5. CASE blk[r.k] # None /\ Identity(blk[r.k]) # Identity(r.recipe)
  <2>1. End(p, "failed") /\ "failed" \in Ended BY <1>0, <1>5 DEF Load, Ended
  <2> QED BY <1>1, <1>2, <2>1, RunStops
<1>6. CASE blk[r.k] # None /\ Identity(blk[r.k]) = Identity(r.recipe)
  <2> DEFINE n == r.k + 1
             u == r.used \cup {r.recipe}
             x == [r EXCEPT !.pc = "boundary", !.k = n, !.used = u]
  <2>1. run' = [run EXCEPT ![p] = x] /\ lock' = lock
    <3>1. /\ run' = [run EXCEPT ![p].pc = "boundary", ![p].k = r.k + 1, ![p].used = @ \cup {blk[r.k]}] /\ lock' = lock
          /\ blk[r.k] = r.recipe
      BY <1>0, <1>6 DEF Load, Identity
    <3>2. run' = [run EXCEPT ![p].pc = "boundary", ![p].k = n, ![p].used = u] BY <1>0, <3>1
    <3> QED BY <1>0, <3>1, <3>2, ZenonT(60)
  <2>2. n \in Nat \ {0} /\ u \subseteq {r.recipe} /\ u \in SUBSET Recipes BY <1>1, <1>3
  <2> HIDE DEF n, u
  <2>3. /\ x \in RunType /\ x.pc = "boundary" /\ x.recipe = r.recipe /\ x.resume = r.resume /\ x.at = r.at
        /\ x.create = r.create /\ x.k = n /\ x.count = r.count /\ x.used = u /\ x.late = r.late /\ x.met = r.met
    BY <1>1, <2>2 DEF RunType
  <2> HIDE DEF x
  <2>4. RunFits(x, pause[p]) BY <1>1, <1>3, <2>2, <2>3 DEF RunFits, IsLive, Ended, Loop
  <2> QED BY <1>0, <1>1, <1>2, <2>1, <2>3, <2>4, LoopGoes DEF Loop
<1> QED BY <1>4, <1>5, <1>6

LEMMA SaveBlockStep == ASSUME BlocksInv, NEW p \in Procs, SaveBlock(p) PROVE BlocksInv'
<1>0. PICK r : r = run[p] OBVIOUS
<1>1. /\ TypeOK /\ DiskFits /\ RunFits(r, pause[p]) /\ Named(r) /\ r \in RunType /\ IsLive(run[p]) /\ r.pc = "save" /\ r.pc \in Loop
      /\ r.at = "stage" /\ r.late \in Nat /\ r.k \in Nat /\ pause[p] \in BOOLEAN /\ Owns(r, "stage") /\ Owns(r, "owner")
      /\ r.count \in Nat /\ r.recipe # None /\ dir["stage"].ident = r.recipe /\ dir["owner"].ident = r.recipe
  BY <1>0, LoopAt DEF SaveBlock, At, Loop
<1>2. UNCHANGED <<root, dir, blk, pause, runs>> BY DEF SaveBlock
<1>3. r.used \subseteq {r.recipe} /\ r.used \subseteq Recipes /\ r.recipe \in Recipes
  BY <1>0, <1>1, LoopAt DEF RunFits, RunType
<1>4. \/ /\ blk[r.k] = r.recipe /\ run' = [run EXCEPT ![p].pc = "boundary", ![p].k = r.k + 1, ![p].used = @ \cup {blk[r.k]}]
         /\ UNCHANGED <<btmp, lock>>
      \/ End(p, "failed") /\ btmp' = btmp
      \/ /\ blk[r.k] = None /\ HasRoom(p) /\ r.k \notin btmp /\ btmp' = btmp \cup {r.k} /\ Go(p, "publish") /\ lock' = lock
  BY <1>0 DEF SaveBlock
<1>5. CASE /\ blk[r.k] = r.recipe /\ run' = [run EXCEPT ![p].pc = "boundary", ![p].k = r.k + 1, ![p].used = @ \cup {blk[r.k]}]
           /\ UNCHANGED <<btmp, lock>>
  <2> DEFINE n == r.k + 1
             u == r.used \cup {r.recipe}
             x == [r EXCEPT !.pc = "boundary", !.k = n, !.used = u]
  <2>1. run' = [run EXCEPT ![p] = x] /\ lock' = lock
    <3>1. run' = [run EXCEPT ![p].pc = "boundary", ![p].k = n, ![p].used = u] BY <1>0, <1>5
    <3> QED BY <1>0, <1>5, <3>1, ZenonT(60)
  <2>2. n \in Nat \ {0} /\ u \subseteq {r.recipe} /\ u \in SUBSET Recipes BY <1>1, <1>3
  <2> HIDE DEF n, u
  <2>3. /\ x \in RunType /\ x.pc = "boundary" /\ x.recipe = r.recipe /\ x.resume = r.resume /\ x.at = r.at
        /\ x.create = r.create /\ x.k = n /\ x.count = r.count /\ x.used = u /\ x.late = r.late /\ x.met = r.met
    BY <1>1, <2>2 DEF RunType
  <2> HIDE DEF x
  <2>4. RunFits(x, pause[p]) BY <1>1, <1>3, <2>2, <2>3 DEF RunFits, IsLive, Ended, Loop
  <2>5. UNCHANGED <<disk, lock, pause, runs>> BY <1>2, <1>5 DEF disk
  <2> QED BY <1>0, <1>1, <2>1, <2>3, <2>4, <2>5, LoopGoes DEF Loop
<1>6. CASE End(p, "failed") /\ btmp' = btmp
  <2>1. "failed" \in Ended /\ UNCHANGED <<disk, pause, runs>> BY <1>2, <1>6 DEF disk, Ended
  <2> QED BY <1>1, <1>6, <2>1, RunStops
<1>7. CASE /\ blk[r.k] = None /\ HasRoom(p) /\ r.k \notin btmp /\ btmp' = btmp \cup {r.k} /\ Go(p, "publish") /\ lock' = lock
  <2> DEFINE x == [r EXCEPT !.pc = "publish"]
  <2>1. /\ x \in RunType /\ x.pc = "publish" /\ x.recipe = r.recipe /\ x.resume = r.resume /\ x.at = r.at
        /\ x.create = r.create /\ x.k = r.k /\ x.count = r.count /\ x.used = r.used /\ x.late = r.late /\ x.met = r.met
    BY <1>1, RecordAt
  <2>2. run' = [run EXCEPT ![p] = x] /\ r.count < Limit BY <1>0, <1>7 DEF Go, HasRoom
  <2> HIDE DEF x
  <2>3. RunFits(x, pause[p]) BY <1>1, <2>1, <2>2 DEF RunFits, IsLive, Ended, Loop
  <2>4. Saved' = Saved /\ Cardinality(Saved)' = Cardinality(Saved) /\ dir' = dir /\ blk' = blk
    BY <1>2 DEF Saved
  <2>5. Named(x)' BY <1>1, <2>1, <2>4 DEF Named, Loop, Entering, IsLive
  <2>6. Knows(x)' BY <2>1 DEF Knows
  <2>7. DiskFits' BY <1>1, <2>4 DEF DiskFits
  <2>8. \A s \in Stores : Owns(x, s) <=> Owns(r, s) BY <1>1, <2>1 DEF Owns, IsLive, Ended, Loop, Entering
  <2>9. /\ blk' \in [Keys -> Recipes \cup {None}] /\ btmp' \subseteq Keys /\ UNCHANGED <<root, lock, pause, runs>>
        /\ dir' \in [Stores -> [there : BOOLEAN, ident : Recipes \cup {None}, tmp : BOOLEAN]]
        /\ Cardinality(Saved)' <= Limit
    <3>1. r.k \in Keys BY <1>1 DEF RunFits
    <3> QED BY <1>1, <1>2, <1>7, <2>4, <3>1 DEF TypeOK
  <2>10. (\A s \in Stores : ~Owns(r, s) => dir'[s].ident = dir[s].ident) /\ (\A s \in Stores : dir[s].there => dir'[s].there)
    BY <1>2
  <2> QED BY <1>0, <1>1, <1>2, <2>1, <2>2, <2>3, <2>5, <2>6, <2>7, <2>8, <2>9, <2>10, HolderStep
<1> QED BY <1>4, <1>5, <1>6, <1>7

LEMMA PublishBlockStep == ASSUME BlocksInv, NEW p \in Procs, PublishBlock(p) PROVE BlocksInv'
<1>0. PICK r : r = run[p] OBVIOUS
<1>1. /\ TypeOK /\ DiskFits /\ RunFits(r, pause[p]) /\ Named(r) /\ r \in RunType /\ IsLive(run[p]) /\ r.pc = "publish" /\ r.pc \in Loop
      /\ r.at = "stage" /\ Owns(r, "stage") /\ Owns(r, "owner") /\ r.recipe \in Recipes
      /\ r.count \in Nat /\ r.recipe # None /\ dir["stage"].ident = r.recipe /\ dir["owner"].ident = r.recipe
  BY <1>0, LoopAt DEF PublishBlock, At, Loop
<1> DEFINE x == [r EXCEPT !.pc = "sync"]
<1>2. /\ UNCHANGED <<root, dir, lock, pause, runs>> /\ r.k \in btmp /\ blk' = [blk EXCEPT ![r.k] = r.recipe]
      /\ btmp' = btmp \ {r.k} /\ run' = [run EXCEPT ![p] = x]
  BY <1>0 DEF PublishBlock, Go
<1>3. /\ x \in RunType /\ x.pc = "sync" /\ x.recipe = r.recipe /\ x.resume = r.resume /\ x.at = r.at
      /\ x.create = r.create /\ x.k = r.k /\ x.count = r.count /\ x.used = r.used /\ x.late = r.late /\ x.met = r.met
  BY <1>1, RecordAt
<1> HIDE DEF x
<1>4. RunFits(x, pause[p]) BY <1>1, <1>3 DEF RunFits, IsLive, Ended, Loop
<1>5. r.k \in Keys /\ Saved' = Saved \cup {r.k} /\ blk' \in [Keys -> Recipes \cup {None}] /\ btmp' \subseteq Keys
      /\ \A k \in Keys : blk'[k] = IF k = r.k THEN r.recipe ELSE blk[k]
  BY <1>1, <1>2 DEF TypeOK, Saved
<1>6. Cardinality(Saved \cup {r.k}) = IF r.k \in Saved THEN Cardinality(Saved) ELSE Cardinality(Saved) + 1
  BY SavedIsFinite, FS_AddElement DEF Saved
<1>7. Cardinality(Saved) \in Nat /\ Cardinality(Saved) <= r.count /\ r.count < Limit /\ Limit \in Nat
  <2>1. Cardinality(Saved) \in Nat /\ Limit \in Nat /\ r.count < Limit
    BY <1>1, SavedIsFinite, CheckpointAssumption DEF Saved, RunFits
  <2>2. Cardinality(Saved) <= r.count + 0 BY <1>1 DEF Named
  <2> QED BY <1>1, <2>1, <2>2
<1>8. Cardinality(Saved)' <= r.count + 1 /\ Cardinality(Saved)' <= Limit
  <2>1. Cardinality(Saved)' = Cardinality(Saved \cup {r.k}) BY <1>5
  <2> QED BY <1>1, <1>6, <1>7, <2>1
<1>9. Named(x)' BY <1>1, <1>2, <1>3, <1>8 DEF Named, Loop, Entering, IsLive
<1>10. Knows(x)' BY <1>3 DEF Knows
<1>11. DiskFits' BY <1>1, <1>2, <1>5 DEF DiskFits
<1>12. \A s \in Stores : Owns(x, s) <=> Owns(r, s) BY <1>1, <1>3 DEF Owns, IsLive, Ended, Loop, Entering
<1>13. /\ dir' \in [Stores -> [there : BOOLEAN, ident : Recipes \cup {None}, tmp : BOOLEAN]]
       /\ (\A s \in Stores : ~Owns(r, s) => dir'[s].ident = dir[s].ident) /\ (\A s \in Stores : dir[s].there => dir'[s].there)
       /\ UNCHANGED <<root, lock, pause, runs>>
  BY <1>1, <1>2 DEF TypeOK
<1> QED BY <1>0, <1>1, <1>2, <1>3, <1>4, <1>5, <1>8, <1>9, <1>10, <1>11, <1>12, <1>13, HolderStep

LEMMA SyncBlockStep == ASSUME BlocksInv, NEW p \in Procs, SyncBlock(p) PROVE BlocksInv'
<1>0. PICK r : r = run[p] OBVIOUS
<1>1. /\ RunFits(r, pause[p]) /\ Named(r) /\ r \in RunType /\ IsLive(r) /\ IsLive(run[p]) /\ r.pc = "sync" /\ r.pc \in Loop
      /\ r.at = "stage" /\ Owns(r, "stage") /\ Owns(r, "owner") /\ r.recipe \in Recipes
      /\ r.count \in Nat /\ r.k \in Nat /\ r.used \subseteq {r.recipe} /\ r.used \subseteq Recipes /\ r.count < Limit /\ Limit \in Nat
  BY <1>0, LoopAt, CheckpointAssumption, ZenonT(60) DEF SyncBlock, At, Loop, RunFits, RunType
<1> DEFINE n == r.k + 1
           c == r.count + 1
           u == r.used \cup {r.recipe}
           x == [r EXCEPT !.pc = "boundary", !.k = n, !.count = c, !.used = u]
<1>2. UNCHANGED <<disk, lock, pause, runs>> /\ run' = [run EXCEPT ![p] = x]
  <2>1. run' = [run EXCEPT ![p].pc = "boundary", ![p].k = n, ![p].count = c, ![p].used = u]
    BY <1>0 DEF SyncBlock
  <2> QED BY <1>0, <2>1, ZenonT(60) DEF SyncBlock
<1>3. n \in Nat \ {0} /\ c \in Nat /\ c <= Limit /\ u \subseteq {r.recipe} /\ u \in SUBSET Recipes /\ c = r.count + 1
  BY <1>1
<1> HIDE DEF n, c, u
<1>4. /\ x \in RunType /\ x.pc = "boundary" /\ x.recipe = r.recipe /\ x.resume = r.resume /\ x.at = r.at
      /\ x.create = r.create /\ x.k = n /\ x.count = c /\ x.used = u /\ x.late = r.late /\ x.met = r.met
  BY <1>1, <1>3 DEF RunType
<1> HIDE DEF x
<1>5. RunFits(x, pause[p]) BY <1>1, <1>3, <1>4 DEF RunFits, IsLive, Ended, Loop
<1>6. Named(x) /\ Knows(x)
  <2>1. Cardinality(Saved) <= r.count + 1 BY <1>1 DEF Named
  <2>2. Cardinality(Saved) <= x.count + (IF x.pc = "sync" THEN 1 ELSE 0) BY <1>3, <1>4, <2>1
  <2> QED BY <1>1, <1>4, <2>2 DEF Named, Knows, Loop, Entering, IsLive
<1>7. \A s \in Stores : Owns(x, s) <=> Owns(r, s) BY <1>1, <1>4 DEF Owns, IsLive, Ended, Loop, Entering
<1> QED BY <1>0, <1>1, <1>2, <1>4, <1>5, <1>6, <1>7, RunGoes

LEMMA FailStep == ASSUME BlocksInv, NEW p \in Procs, Fail(p) PROVE BlocksInv'
<1>0. PICK r : r = run[p] OBVIOUS
<1>1. /\ TypeOK /\ DiskFits /\ r \in RunType /\ RunFits(r, pause[p]) /\ IsLive(r) /\ IsLive(run[p])
      /\ \A s \in Stores : lock[s] = p <=> Owns(r, s)
      /\ dir \in [Stores -> [there : BOOLEAN, ident : Recipes \cup {None}, tmp : BOOLEAN]]
  BY <1>0, RunAt DEF Fail, Live, IsLive, TypeOK
<1>2. End(p, "failed") /\ "failed" \in Ended /\ UNCHANGED <<root, blk, pause, runs>> BY DEF Fail, Ended
<1>3. \/ dir' = dir /\ btmp' = btmp
      \/ dir' = [dir EXCEPT ![r.at].tmp = FALSE] /\ btmp' = btmp
      \/ r.pc = "publish" /\ btmp' = btmp \ {r.k} /\ dir' = dir
  BY <1>0 DEF Fail, At
<1>4. /\ dir' \in [Stores -> [there : BOOLEAN, ident : Recipes \cup {None}, tmp : BOOLEAN]]
      /\ \A s \in Stores : dir'[s].ident = dir[s].ident /\ dir'[s].there = dir[s].there /\ (dir'[s].tmp => dir[s].tmp)
  <2>1. CASE dir' = dir BY <1>1, <2>1
  <2>2. CASE dir' = [dir EXCEPT ![r.at].tmp = FALSE]
    <3> DEFINE no == FALSE
               d == [dir[r.at] EXCEPT !.tmp = no]
    <3>1. no \in BOOLEAN /\ ~no /\ r.at \in Stores BY <1>1 DEF RunType
    <3>2. dir' = [dir EXCEPT ![r.at] = d] BY <2>2
    <3> HIDE DEF no
    <3>3. /\ d \in [there : BOOLEAN, ident : Recipes \cup {None}, tmp : BOOLEAN]
          /\ d.there = dir[r.at].there /\ d.ident = dir[r.at].ident /\ d.tmp = no
      BY <1>1, <3>1
    <3> HIDE DEF d
    <3> QED BY <1>1, <3>1, <3>2, <3>3
  <2> QED BY <1>3, <2>1, <2>2
<1>5. btmp' \subseteq btmp /\ (lock["stage"] # p => btmp' = btmp)
  <2>1. r.pc = "publish" => Owns(r, "stage") BY <1>1 DEF RunFits, Owns, Loop
  <2> QED BY <1>1, <1>3, <2>1 DEF Stores
<1> QED BY <1>1, <1>2, <1>4, <1>5, RunEnds

\* A new run, of which the others take notice.
LEMMA StartStep ==
    ASSUME BlocksInv, NEW p \in Procs, NEW r \in Recipes, NEW resume \in BOOLEAN, Start(p, r, resume)
    PROVE  BlocksInv'
<1>0. PICK meets \in BOOLEAN : meets = \E q \in Procs \ {p} : Live(q) OBVIOUS
<1> DEFINE x == [NoRun EXCEPT !.pc = "root", !.recipe = r, !.resume = resume, !.met = meets]
           y(q) == [run[q] EXCEPT !.met = TRUE]
<1>1. /\ ~IsLive(run[p]) /\ runs < MaxRuns /\ runs' = runs + 1 /\ pause' = [pause EXCEPT ![p] = FALSE]
      /\ run' = [q \in Procs |-> IF q = p THEN x ELSE IF Live(q) THEN y(q) ELSE run[q]]
      /\ UNCHANGED <<disk, lock>>
  BY <1>0 DEF Start, Live, IsLive
<1>2. TypeOK /\ RunsFit /\ LocksFit /\ NamesFit /\ AloneFits /\ DiskFits BY DEF BlocksInv
<1>3. /\ x \in RunType /\ x.pc = "root" /\ x.recipe = r /\ x.used = {} /\ x.late = 0 /\ x.count = 0 /\ x.met = meets
      /\ x.at = "owner" /\ ~x.create /\ x.k = 1
  BY <1>0, NoRunFits DEF RunType
<1> HIDE DEF x
<1>4. ASSUME NEW q \in Procs PROVE
        /\ y(q) \in RunType /\ y(q).met
        /\ y(q).pc = run[q].pc /\ y(q).recipe = run[q].recipe /\ y(q).resume = run[q].resume /\ y(q).at = run[q].at
        /\ y(q).create = run[q].create /\ y(q).k = run[q].k /\ y(q).count = run[q].count /\ y(q).used = run[q].used
        /\ y(q).late = run[q].late
  <2>0. PICK r0 : r0 = run[q] OBVIOUS
  <2> DEFINE yes == TRUE
             z == [r0 EXCEPT !.met = yes]
  <2>1. yes \in BOOLEAN /\ yes /\ r0 \in RunType BY <1>2, <2>0 DEF TypeOK
  <2>2. y(q) = z BY <2>0
  <2> HIDE DEF yes
  <2>3. /\ z \in RunType /\ z.met = yes /\ z.pc = r0.pc /\ z.recipe = r0.recipe /\ z.resume = r0.resume /\ z.at = r0.at
        /\ z.create = r0.create /\ z.k = r0.k /\ z.count = r0.count /\ z.used = r0.used /\ z.late = r0.late
    BY <2>1 DEF RunType
  <2> HIDE DEF z, y
  <2> QED BY <2>0, <2>1, <2>2, <2>3
<1> HIDE DEF y
<1>5. /\ run'[p] = x /\ \A q \in Procs : q # p => run'[q] = IF IsLive(run[q]) THEN y(q) ELSE run[q]
      /\ run' \in [Procs -> RunType]
  BY <1>1, <1>2, <1>3, <1>4 DEF TypeOK, Live, IsLive
<1>6. ASSUME NEW q \in Procs, q # p
      PROVE  /\ run'[q].pc = run[q].pc /\ run'[q].recipe = run[q].recipe /\ run'[q].resume = run[q].resume /\ run'[q].at = run[q].at
             /\ run'[q].create = run[q].create /\ run'[q].k = run[q].k /\ run'[q].count = run[q].count /\ run'[q].used = run[q].used
             /\ run'[q].late = run[q].late /\ (run[q].met => run'[q].met) /\ (IsLive(run[q]) => run'[q].met)
             /\ pause'[q] = pause[q]
  BY <1>1, <1>2, <1>4, <1>5, <1>6 DEF TypeOK
<1>7. root' = root /\ dir' = dir /\ blk' = blk /\ btmp' = btmp /\ lock' = lock /\ Saved' = Saved /\ Cardinality(Saved)' = Cardinality(Saved)
  BY <1>1 DEF disk, Saved
<1>8. TypeOK'
  <2>1. pause' \in [Procs -> BOOLEAN] /\ runs' \in 0..MaxRuns BY <1>1, <1>2, CheckpointAssumption DEF TypeOK
  <2> QED BY <1>2, <1>5, <1>7, <2>1 DEF TypeOK
<1>9. RunsFit'
  <2>1. RunFits(x, pause'[p]) BY <1>3, CheckpointAssumption DEF RunFits, IsLive, Ended, Loop
  <2>2. ASSUME NEW q \in Procs, q # p PROVE RunFits(run'[q], pause'[q])
    <3>1. RunFits(run[q], pause[q]) BY <1>2 DEF RunsFit
    <3> QED BY <1>6, <2>2, <3>1 DEF RunFits, IsLive
  <2> QED BY <1>5, <2>1, <2>2 DEF RunsFit
<1>10. LocksFit'
  <2> SUFFICES ASSUME NEW q \in Procs, NEW s \in Stores PROVE lock[s] = q <=> Owns(run'[q], s)
    BY <1>7 DEF LocksFit, Owns
  <2>1. lock[s] = q <=> Owns(run[q], s) BY <1>2 DEF LocksFit
  <2>2. CASE q = p BY <1>1, <1>3, <1>5, <2>1, <2>2 DEF Owns, Entering, Loop
  <2>3. CASE q # p BY <1>6, <2>1, <2>3 DEF Owns, IsLive
  <2> QED BY <2>2, <2>3
<1>11. NamesFit'
  <2> SUFFICES ASSUME NEW q \in Procs PROVE Named(run[q])' BY DEF NamesFit
  <2>1. CASE q = p BY <1>3, <1>5, <2>1 DEF Named, Entering, Loop
  <2>2. CASE q # p
    <3>1. Named(run[q]) BY <1>2 DEF NamesFit
    <3> QED BY <1>6, <1>7, <2>2, <3>1 DEF Named, IsLive
  <2> QED BY <2>1, <2>2
<1>12. AloneFits'
  <2> SUFFICES ASSUME NEW q \in Procs, IsLive(run[q])', ~run'[q].met PROVE (Alone(q) /\ Knows(run[q]))'
    BY DEF AloneFits
  <2>1. q = p BY <1>6 DEF IsLive
  <2>2. \A o \in Procs \ {p} : ~IsLive(run[o]) BY <1>0, <1>3, <1>5, <2>1 DEF Live, IsLive
  <2>3. Alone(p)' BY <1>6, <2>2 DEF Alone, IsLive
  <2> QED BY <1>3, <1>5, <2>1, <2>3 DEF Knows
<1>13. DiskFits' BY <1>2, <1>7 DEF DiskFits
<1> QED BY <1>8, <1>9, <1>10, <1>11, <1>12, <1>13 DEF BlocksInv

LEMMA PauseStep == ASSUME BlocksInv, NEW p \in Procs, RequestPause(p) PROVE BlocksInv'
<1> DEFINE yes == TRUE
<1>1. /\ pause' = [pause EXCEPT ![p] = yes] /\ run' = run /\ root' = root /\ dir' = dir /\ blk' = blk /\ btmp' = btmp
      /\ lock' = lock /\ runs' = runs /\ yes \in BOOLEAN /\ yes
  BY DEF RequestPause, disk
<1> HIDE DEF yes
<1>2. TypeOK /\ RunsFit /\ LocksFit /\ NamesFit /\ AloneFits /\ DiskFits BY DEF BlocksInv
<1>3. pause' \in [Procs -> BOOLEAN] /\ \A q \in Procs : pause'[q] = pause[q] \/ pause'[q]
  BY <1>1, <1>2 DEF TypeOK
<1>4. RunsFit'
  <2> SUFFICES ASSUME NEW q \in Procs PROVE RunFits(run[q], pause'[q]) BY <1>1 DEF RunsFit
  <2>1. RunFits(run[q], pause[q]) /\ (pause[q] => pause'[q]) BY <1>2, <1>3 DEF RunsFit
  <2> QED BY <2>1 DEF RunFits
<1>5. TypeOK' /\ Saved' = Saved BY <1>1, <1>2, <1>3 DEF TypeOK, Saved
<1>6. LocksFit' /\ NamesFit' /\ AloneFits' /\ DiskFits'
  BY <1>1, <1>2, <1>5 DEF LocksFit, NamesFit, Named, AloneFits, Alone, Knows, NoMark, DiskFits
<1> QED BY <1>4, <1>5, <1>6 DEF BlocksInv

LEMMA BlocksNext == BlocksInv /\ [Next]_vars => BlocksInv'
<1> SUFFICES ASSUME BlocksInv, [Next]_vars PROVE BlocksInv' OBVIOUS
<1>1. CASE UNCHANGED vars
  <2>1. /\ root' = root /\ dir' = dir /\ blk' = blk /\ btmp' = btmp /\ lock' = lock /\ run' = run /\ pause' = pause /\ runs' = runs
    BY <1>1 DEF vars
  <2>2. Saved' = Saved BY <2>1 DEF Saved
  <2> QED BY <2>1, <2>2 DEF BlocksInv, TypeOK, RunsFit, LocksFit, NamesFit, Named, AloneFits, Alone, Knows, NoMark, DiskFits
<1>2. ASSUME NEW p \in Procs, Step(p) PROVE BlocksInv'
  BY <1>2, StartStep, PauseStep, RootStep, LookStep, DirectoryStep, TakeLockStep, ScanStep, IdentityStagedStep,
     IdentityPublishedStep, OpenedStep, BoundaryStep, LoadStep, SaveBlockStep, PublishBlockStep, SyncBlockStep, FailStep DEF Step
<1> QED BY <1>1, <1>2 DEF Next

\* What a run knows, of itself and through its locks, and what every run leaves
\* on the disk for the next one.
THEOREM BlocksInvariant == Spec => []BlocksInv
  BY BlocksInit, BlocksNext, PTL DEF Spec

\* However many processes resume, start and fail in one checkpoint directory, a
\* run uses no block of another recipe, and the stores that it works in are its
\* own, locked and named by it.
THEOREM BlocksStayOwn == Spec => []BlocksAreOwn
<1>1. BlocksInv => BlocksAreOwn
  <2> SUFFICES ASSUME BlocksInv PROVE LoadedIsOwn /\ InUseIsNamed BY DEF BlocksAreOwn
  <2>1. LoadedIsOwn BY DEF BlocksInv, RunsFit, RunFits, LoadedIsOwn
  <2>2. ASSUME NEW p \in Procs, run[p].pc \in Loop PROVE \A s \in Stores : lock[s] = p /\ dir[s].ident = run[p].recipe
    <3>1. PICK r : r = run[p] OBVIOUS
    <3>2. /\ Owns(r, "stage") /\ Owns(r, "owner") /\ dir["stage"].ident = r.recipe /\ dir["owner"].ident = r.recipe
      BY <2>2, <3>1, LoopAt
    <3> QED BY <3>1, <3>2 DEF BlocksInv, LocksFit, Stores
  <2> QED BY <2>1, <2>2 DEF InUseIsNamed, At, Loop, Identity
<1> QED BY <1>1, BlocksInvariant, PTL

\* A run that is asked to pause begins one more block at most, the directory
\* stays within its limits, and no run that had it for itself is turned away
\* because of what earlier ones left.
THEOREM OperationsResume == Spec => []StopsAndResumes
<1>1. BlocksInv => StopsAndResumes
  BY DEF BlocksInv, RunsFit, RunFits, StopsAndResumes, PauseIsPrompt, NeverStranded, At
<1> QED BY <1>1, BlocksInvariant, PTL

----------------------------------------
(* AudioFiles: the invariant. *)

Cell == Nat \cup {"sample", "sizes", "zero sizes"}
Reads == use \in {"read", "spool"}
FilesType ==
    /\ use \in {"read", "spool", "stream", "whole"}
    /\ file \in [cells : Seq(Cell), stamp : Nat] /\ calls \in Nat /\ foreign \in Nat
    /\ opened \in [open : BOOLEAN, failed : BOOLEAN, stamp : Int, cells : Seq(Cell)]
    /\ answered \in [ok : BOOLEAN, first : Nat \ {0}, got : Seq(Cell)]
    /\ partial \in BOOLEAN /\ durable \in BOOLEAN

\* What the object remembers of a file, it remembers of this one, for as long
\* as the stamp is the same.
OpenedFits ==
    /\ Reads /\ opened.open => opened.stamp <= file.stamp /\ (Same => opened.cells = file.cells)
    /\ use = "spool" /\ ~opened.open /\ ~opened.failed => file.cells = <<>> /\ ~answered.ok

OpenCall == [op : {"open"}, stamp : Nat, cells : Seq(Cell)]
ReadCall == [op : {"read"}, next : Nat, last : Nat, first : Nat \ {0}, got : Seq(Cell)]
AppendCall == [op : {"append"}, count : {1, 2}]
FetchCall == [op : {"fetch"}, first : Nat \ {0}, last : Nat]
FetchedCall == [op : {"fetched"}, first : Nat \ {0}, got : Seq(Cell)]
WriteCall == [op : {"write", "sync", "rename"}]

\* Of a call in progress: what it has read is what was opened, if the stamp is
\* still the same, and what it has written is what it says.
OpeningFits == call.stamp <= file.stamp /\ (call.stamp = file.stamp => call.cells = file.cells)
ReadingFits ==
    /\ call.first <= call.next /\ call.next <= call.last + 1 /\ call.last <= Len(opened.cells)
    /\ Same => call.got = SubSeq(opened.cells, call.first, call.next - 1)
FetchedFits == Same => call.got = SubSeq(opened.cells, call.first, call.first + Len(call.got) - 1)
WritingFits ==
    /\ call.op = "write" => Len(file.cells) \in 1..(Expected + 1) /\ (use = "whole" => file.cells[1] = Header(TRUE))
    /\ call.op \in {"sync", "rename"} => Complete(file.cells)
    /\ call.op = "rename" => durable
CallFits ==
    \/ call = NoFile
    \/ use = "read" /\ call \in OpenCall /\ OpeningFits
    \/ use = "read" /\ call \in ReadCall /\ opened.open /\ ReadingFits
    \/ use = "spool" /\ call \in AppendCall /\ opened.open /\ Same
    \/ use = "spool" /\ call \in FetchCall /\ opened.open /\ call.last <= Len(opened.cells) /\ call.first <= call.last + 1
    \/ use = "spool" /\ call \in FetchedCall /\ opened.open /\ FetchedFits
    \/ ~Reads /\ call \in WriteCall /\ WritingFits
WriterRests ==
    ~Reads =>
        /\ answered.got = <<>> /\ (answered.ok /\ calls <= MaxCalls => destination # Old)
        /\ call = NoFile => ~partial

FilesInv == FilesType /\ OpenedFits /\ CallFits /\ WriterRests /\ ReadsAreTrue /\ WavIsOldOrWhole

OpenedType == [open : BOOLEAN, failed : BOOLEAN, stamp : Int, cells : Seq(Cell)]
AnswerType == [ok : BOOLEAN, first : Nat \ {0}, got : Seq(Cell)]

LEMMA ClosedIs == Closed \in OpenedType /\ ~Closed.open /\ ~Closed.failed /\ Closed.cells = <<>>
<1>1. FALSE \in BOOLEAN /\ -1 \in Int /\ <<>> \in Seq(Cell) OBVIOUS
<1> QED BY <1>1 DEF Closed, OpenedType

\* A closed object that begins, with the stamp of its file.
LEMMA BeginsWith ==
    ASSUME NEW n \in Int
    PROVE  LET x == [Closed EXCEPT !.open = TRUE, !.stamp = n]
           IN  x \in OpenedType /\ x.open /\ ~x.failed /\ x.cells = <<>> /\ x.stamp = n
<1> DEFINE yes == TRUE
           x == [Closed EXCEPT !.open = yes, !.stamp = n]
<1>1. [Closed EXCEPT !.open = TRUE, !.stamp = n] = x /\ yes \in BOOLEAN /\ yes OBVIOUS
<1> HIDE DEF yes
<1>2. PICK c : c = Closed OBVIOUS
<1>3. c \in OpenedType /\ ~c.failed /\ c.cells = <<>> /\ x = [c EXCEPT !.open = yes, !.stamp = n]
  BY <1>2, ClosedIs
<1> HIDE DEF x
<1>4. x \in OpenedType /\ x.open = yes /\ x.failed = c.failed /\ x.cells = c.cells /\ x.stamp = n
  BY <1>1, <1>3 DEF OpenedType
<1> QED BY <1>1, <1>3, <1>4

LEMMA FailsWith ==
    ASSUME NEW o \in OpenedType
    PROVE  CallFails(o) \in OpenedType /\ ~CallFails(o).open /\ CallFails(o).failed /\ CallFails(o).cells = o.cells
<1> DEFINE yes == TRUE
           no == FALSE
           x == [o EXCEPT !.open = no, !.failed = yes]
<1>1. CallFails(o) = x /\ yes \in BOOLEAN /\ yes /\ no \in BOOLEAN /\ ~no BY DEF CallFails
<1> HIDE DEF yes, no
<1>2. x \in OpenedType /\ x.open = no /\ x.failed = yes /\ x.cells = o.cells BY <1>1 DEF OpenedType
<1> HIDE DEF x
<1> QED BY <1>1, <1>2

LEMMA ReadNothing ==
    ASSUME NEW s, NEW m \in Nat \ {0} PROVE <<>> = SubSeq(s, m, m + Len(<<>>) - 1)
<1>1. Len(<<>>) = 0 /\ m + 0 - 1 \in Int /\ m + 0 - 1 < m /\ m \in Int OBVIOUS
<1> QED BY <1>1, SubSeqEmpty

\* A call that returns no frames.
LEMMA Returns ==
    ASSUME NEW ok \in BOOLEAN, Return(ok)
    PROVE  /\ call' = NoFile /\ CallFits' /\ ReadsAreTrue'
           /\ answered' \in AnswerType /\ answered'.ok = ok /\ answered'.got = <<>>
<1> DEFINE x == [ok |-> ok, first |-> 1, got |-> <<>>]
<1>1. <<>> \in Seq(Cell) /\ 1 \in Nat \ {0} OBVIOUS
<1>2. answered' = x /\ call' = NoFile BY DEF Return, Nothing
<1>3. x \in AnswerType /\ x.ok = ok /\ x.got = <<>> /\ x.first = 1 BY <1>1 DEF AnswerType
<1> HIDE DEF x
<1>4. ReadsAreTrue' BY <1>1, <1>2, <1>3, ReadNothing DEF ReadsAreTrue
<1>5. CallFits' BY <1>2 DEF CallFits
<1> QED BY <1>2, <1>3, <1>4, <1>5

LEMMA NothingIs == Nothing \in AnswerType /\ ~Nothing.ok /\ Nothing.got = <<>>
<1>1. <<>> \in Seq(Cell) /\ 1 \in Nat \ {0} /\ FALSE \in BOOLEAN OBVIOUS
<1> QED BY <1>1 DEF Nothing, AnswerType

\* Which call it is tells what holds of it.
LEMMA CallIs ==
    ASSUME CallFits
    PROVE  /\ call.op = "open" => use = "read" /\ call \in OpenCall /\ OpeningFits
           /\ call.op = "read" => use = "read" /\ call \in ReadCall /\ opened.open /\ ReadingFits
           /\ call.op = "append" => use = "spool" /\ call \in AppendCall /\ opened.open /\ Same
           /\ call.op = "fetch" => /\ use = "spool" /\ call \in FetchCall /\ opened.open
                                   /\ call.last <= Len(opened.cells) /\ call.first <= call.last + 1
           /\ call.op = "fetched" => use = "spool" /\ call \in FetchedCall /\ opened.open /\ FetchedFits
           /\ call.op \in {"write", "sync", "rename"} => ~Reads /\ call \in WriteCall /\ WritingFits
<1>1. NoFile.op = "none" BY DEF NoFile
<1>2. /\ call \in OpenCall => call.op = "open"
      /\ call \in ReadCall => call.op = "read"
      /\ call \in AppendCall => call.op = "append"
      /\ call \in FetchCall => call.op = "fetch"
      /\ call \in FetchedCall => call.op = "fetched"
      /\ call \in WriteCall => call.op \in {"write", "sync", "rename"}
  BY DEF OpenCall, ReadCall, AppendCall, FetchCall, FetchedCall, WriteCall
<1> QED BY <1>1, <1>2 DEF CallFits

\* A step of a reader or a spool leaves the targets alone.
LEMMA ReaderStep ==
    ASSUME FilesInv, Reads, use' = use, destination' = destination, onDisk' = onDisk,
           FilesType', OpenedFits', CallFits', ReadsAreTrue'
    PROVE  FilesInv'
BY DEF FilesInv, Reads, WriterRests, WavIsOldOrWhole, Complete

LEMMA WriterStep ==
    ASSUME FilesInv, ~Reads, use' = use, FilesType', CallFits', WriterRests', WavIsOldOrWhole'
    PROVE  FilesInv'
<1>1. ~Reads' /\ answered' \in AnswerType /\ answered'.got = <<>>
  BY DEF Reads, WriterRests, FilesType, AnswerType
<1>2. OpenedFits' BY <1>1 DEF OpenedFits, Reads
<1>3. ReadsAreTrue' BY <1>1, ReadNothing DEF ReadsAreTrue, AnswerType
<1> QED BY <1>2, <1>3 DEF FilesInv

LEMMA FilesInitInv == FilesInit => FilesInv
<1> SUFFICES ASSUME FilesInit PROVE FilesInv OBVIOUS
<1>1. /\ use \in {"read", "spool", "stream", "whole"} /\ opened = Closed /\ call = NoFile /\ answered = Nothing
      /\ partial = FALSE /\ durable = FALSE /\ destination = Old /\ onDisk = {Old} /\ calls = 0 /\ foreign = 0
      /\ file.cells = IF use = "read" THEN [i \in 1..InputFrames |-> 0] ELSE <<>>
  BY DEF FilesInit
<1>2. [i \in 1..InputFrames |-> 0] \in Seq(Cell) /\ <<>> \in Seq(Cell) /\ 0 \in Nat
  BY AudioFilesAssumption DEF Cell
<1>3. file \in [cells : Seq(Cell), stamp : Nat] BY <1>2 DEF FilesInit
<1>4. FilesType BY <1>1, <1>3, ClosedIs, NothingIs DEF FilesType, OpenedType, AnswerType
<1>5. OpenedFits BY <1>1, ClosedIs, NothingIs DEF OpenedFits
<1>6. CallFits /\ WavIsOldOrWhole BY <1>1 DEF CallFits, WavIsOldOrWhole
<1>7. WriterRests /\ ReadsAreTrue BY <1>1, NothingIs DEF WriterRests, ReadsAreTrue
<1> QED BY <1>4, <1>5, <1>6, <1>7 DEF FilesInv

FileType == [cells : Seq(Cell), stamp : Nat]
Still == UNCHANGED <<use, file, content, foreign>> /\ calls' \in Nat

LEMMA CallStep ==
    ASSUME FilesInv, Reads, Still, opened' \in OpenedType, answered' \in AnswerType, OpenedFits', CallFits', ReadsAreTrue'
    PROVE  FilesInv'
<1>1. /\ use' = use /\ file' = file /\ partial' = partial /\ durable' = durable /\ destination' = destination
      /\ onDisk' = onDisk /\ foreign' = foreign /\ calls' \in Nat
  BY DEF Still, content
<1>2. FilesType' BY <1>1 DEF FilesInv, FilesType, OpenedType, AnswerType
<1> QED BY <1>1, <1>2, ReaderStep

\* The four ways in which a step of a call leaves the object.
LEMMA ReaderGivesUp == ASSUME FilesInv, use = "read", Still, opened' = Closed, Return(FALSE) PROVE FilesInv'
<1>1. OpenedFits' BY ClosedIs DEF OpenedFits, Still
<1> QED BY <1>1, ClosedIs, Returns, CallStep DEF Reads

LEMMA SpoolGivesUp == ASSUME FilesInv, use = "spool", Still, opened' = CallFails(opened), Return(FALSE) PROVE FilesInv'
<1>1. opened \in OpenedType BY DEF FilesInv, FilesType, OpenedType
<1>2. opened' \in OpenedType /\ ~opened'.open /\ opened'.failed BY <1>1, FailsWith
<1>3. OpenedFits' BY <1>2 DEF OpenedFits
<1> QED BY <1>2, <1>3, Returns, CallStep DEF Reads

LEMMA ReaderRefuses == ASSUME FilesInv, use = "read", Still, opened' = opened, Return(FALSE) PROVE FilesInv'
<1>1. OpenedFits' /\ opened' \in OpenedType
  BY DEF FilesInv, FilesType, OpenedType, OpenedFits, Still, Reads, Same
<1> QED BY <1>1, Returns, CallStep DEF Reads

LEMMA CallGoesOn == ASSUME FilesInv, Reads, Still, UNCHANGED <<opened, answered>>, CallFits' PROVE FilesInv'
<1>1. OpenedFits' /\ opened' \in OpenedType /\ answered' \in AnswerType /\ ReadsAreTrue'
  BY DEF FilesInv, FilesType, OpenedType, AnswerType, OpenedFits, ReadsAreTrue, Still, Reads, Same
<1> QED BY <1>1, CallStep

\* A call that gives frames: they are those of the object.
LEMMA CallGives ==
    ASSUME FilesInv, Reads, Still, opened.open, UNCHANGED opened,
           NEW first \in Nat \ {0}, NEW got \in Seq(Cell), Give(first, got),
           got = SubSeq(opened.cells, first, first + Len(got) - 1)
    PROVE  FilesInv'
<1> DEFINE x == [ok |-> TRUE, first |-> first, got |-> got]
<1>1. x \in AnswerType /\ x.first = first /\ x.got = got
  <2> DEFINE yes == TRUE
             y == [ok |-> yes, first |-> first, got |-> got]
  <2>1. yes \in BOOLEAN /\ x = y OBVIOUS
  <2> HIDE DEF yes
  <2>2. y \in AnswerType /\ y.first = first /\ y.got = got BY <2>1 DEF AnswerType
  <2> HIDE DEF x, y
  <2> QED BY <2>1, <2>2
<1>2. answered' = x /\ call' = NoFile BY DEF Give
<1> HIDE DEF x
<1>3. ReadsAreTrue' /\ CallFits' BY <1>1, <1>2 DEF ReadsAreTrue, CallFits
<1>4. OpenedFits' /\ opened' \in OpenedType
  BY DEF FilesInv, FilesType, OpenedType, OpenedFits, Still, Reads, Same
<1> QED BY <1>1, <1>2, <1>3, <1>4, CallStep

LEMMA TypeFacts ==
    ASSUME FilesInv
    PROVE  /\ use \in {"read", "spool", "stream", "whole"} /\ calls \in Nat /\ calls + 1 \in Nat /\ file \in FileType
           /\ opened \in OpenedType /\ answered \in AnswerType /\ CallFits
BY DEF FilesInv, FilesType, FileType, OpenedType, AnswerType

LEMMA OpenBeginStep == ASSUME FilesInv, OpenBegin PROVE FilesInv'
<1>1. /\ Still /\ use = "read" /\ opened' = Closed /\ answered' = Nothing /\ file \in FileType
      /\ call' = [op |-> "open", stamp |-> file.stamp, cells |-> file.cells]
  BY TypeFacts DEF OpenBegin, Begin, Still
<1>2. PICK n, c : n = file.stamp /\ c = file.cells OBVIOUS
<1> DEFINE x == [op |-> "open", stamp |-> n, cells |-> c]
<1>3. x \in OpenCall /\ x.stamp = n /\ x.cells = c /\ n \in Nat BY <1>1, <1>2 DEF FileType, OpenCall
<1>4. call' = x /\ file'.stamp = n /\ file'.cells = c /\ use' = "read" BY <1>1, <1>2 DEF Still
<1> HIDE DEF x
<1>5. CallFits' BY <1>3, <1>4 DEF CallFits, OpeningFits
<1>6. OpenedFits' /\ ReadsAreTrue' BY <1>1, <1>4, ClosedIs, NothingIs DEF OpenedFits, ReadsAreTrue
<1> QED BY <1>1, <1>5, <1>6, ClosedIs, NothingIs, CallStep DEF Reads

LEMMA OpenEndStep == ASSUME FilesInv, OpenEnd PROVE FilesInv'
<1>0. PICK c : c = call OBVIOUS
<1>1. /\ Still /\ use = "read" /\ c \in OpenCall /\ c.stamp <= file.stamp /\ (c.stamp = file.stamp => c.cells = file.cells)
  BY <1>0, TypeFacts, CallIs DEF OpenEnd, Still, OpeningFits
<1>2. CASE c.stamp = file.stamp
  <2>1. Return(TRUE) /\ opened' = [open |-> TRUE, failed |-> FALSE, stamp |-> c.stamp, cells |-> c.cells]
    <3>1. (call.stamp = file.stamp) = TRUE BY <1>0, <1>2
    <3> QED BY <1>0, <1>2, <3>1 DEF OpenEnd, Return
  <2> DEFINE yes == TRUE
             no == FALSE
             x == [open |-> yes, failed |-> no, stamp |-> c.stamp, cells |-> c.cells]
  <2>2. opened' = x /\ yes \in BOOLEAN /\ no \in BOOLEAN BY <2>1
  <2> HIDE DEF yes, no
  <2>3. x \in OpenedType /\ x.stamp = c.stamp /\ x.cells = c.cells BY <1>1, <2>2 DEF OpenedType, OpenCall
  <2> HIDE DEF x
  <2>4. OpenedFits'
    <3>1. file' = file /\ use' = "read" BY <1>1 DEF Still
    <3> QED BY <1>1, <1>2, <2>2, <2>3, <3>1 DEF OpenedFits, Same
  <2> QED BY <1>1, <2>1, <2>2, <2>3, <2>4, Returns, CallStep DEF Reads
<1>3. CASE c.stamp # file.stamp
  <2>1. (call.stamp = file.stamp) = FALSE BY <1>0, <1>3
  <2>2. Return(FALSE) /\ opened' = Closed BY <1>0, <1>3, <2>1 DEF OpenEnd, Return
  <2> QED BY <1>1, <2>2, ReaderGivesUp
<1> QED BY <1>2, <1>3

LEMMA ReadBeginStep == ASSUME FilesInv, ReadBegin PROVE FilesInv'
<1>1. use = "read" /\ opened.open /\ Still /\ opened \in OpenedType BY TypeFacts DEF ReadBegin, Still, Begin
<1>2. PICK first \in 1..(Len(opened.cells) + 1), count \in 0..Len(opened.cells) :
        IF ~Same THEN opened' = Closed /\ Return(FALSE)
        ELSE /\ UNCHANGED opened
             /\ IF first + count - 1 > Len(opened.cells) THEN Return(FALSE)
                ELSE /\ call' = [op |-> "read", next |-> first, last |-> first + count - 1, first |-> first, got |-> <<>>]
                     /\ UNCHANGED answered
  BY DEF ReadBegin, Begin
<1>3. CASE ~Same BY <1>1, <1>2, <1>3, ReaderGivesUp
<1>4. CASE Same /\ first + count - 1 > Len(opened.cells) BY <1>1, <1>2, <1>4, ReaderRefuses
<1>5. CASE Same /\ ~(first + count - 1 > Len(opened.cells))
  <2>1. PICK l : l = first + count - 1 OBVIOUS
  <2> DEFINE x == [op |-> "read", next |-> first, last |-> l, first |-> first, got |-> <<>>]
  <2>2. Len(opened.cells) \in Nat BY <1>1 DEF OpenedType
  <2>3. /\ l \in Nat /\ first \in Nat \ {0} /\ first \in Nat /\ l <= Len(opened.cells) /\ first <= l + 1 /\ first \in Int /\ first - 1 \in Int
        /\ first - 1 < first /\ first <= first
    BY <1>5, <2>1, <2>2
  <2>4. <<>> \in Seq(Cell) /\ <<>> = SubSeq(opened.cells, first, first - 1) BY <2>3, SubSeqEmpty
  <2>5. x \in ReadCall /\ x.next = first /\ x.first = first /\ x.last = l /\ x.got = <<>>
    BY <2>3, <2>4 DEF ReadCall
  <2>6. call' = x /\ opened' = opened /\ answered' = answered /\ use' = "read"
    BY <1>1, <1>2, <1>5, <2>1 DEF Still
  <2> HIDE DEF x
  <2>7. CallFits' BY <1>1, <2>3, <2>4, <2>5, <2>6 DEF CallFits, ReadingFits
  <2> QED BY <1>1, <2>6, <2>7, CallGoesOn DEF Reads
<1> QED BY <1>3, <1>4, <1>5

\* The portions that were read of a file that is still the same follow each
\* other without a gap.
LEMMA ReadPortionStep == ASSUME FilesInv, ReadPortion PROVE FilesInv'
<1>0. PICK c, s, t : c = call /\ s = opened.cells /\ t = file.cells OBVIOUS
<1>1. /\ Still /\ use = "read" /\ c \in ReadCall /\ opened.open /\ opened \in OpenedType /\ s \in Seq(Cell) /\ t \in Seq(Cell)
      /\ c.first <= c.next /\ c.next <= c.last + 1 /\ c.last <= Len(s) /\ c.next <= c.last
      /\ Same => c.got = SubSeq(s, c.first, c.next - 1)
      /\ Same => s = t
  <2>1. /\ Still /\ use = "read" /\ c \in ReadCall /\ opened.open /\ opened \in OpenedType /\ file \in FileType /\ ReadingFits
        /\ c.next <= c.last
    BY <1>0, TypeFacts, CallIs DEF ReadPortion, Still
  <2>2. Same => s = t BY <1>0, <2>1 DEF FilesInv, OpenedFits, Reads
  <2> QED BY <1>0, <2>1, <2>2 DEF ReadingFits, OpenedType, FileType
<1>2. PICK l : l = IF c.next + Portion - 1 < c.last THEN c.next + Portion - 1 ELSE c.last OBVIOUS
<1>3. /\ c.first \in Nat \ {0} /\ c.next \in Nat \ {0} /\ c.last \in Nat /\ l \in Nat /\ c.next <= l /\ l <= c.last /\ c.got \in Seq(Cell)
      /\ Len(s) \in Nat /\ Len(t) \in Nat
  <2>1. c.first \in Nat \ {0} /\ c.next \in Nat /\ c.last \in Nat /\ c.got \in Seq(Cell) BY <1>1 DEF ReadCall
  <2> QED BY <1>1, <1>2, <2>1, AudioFilesAssumption, SMTT(30)
<1>4. CASE l > Len(t)
  <2>1. opened' = Closed /\ Return(FALSE) BY <1>0, <1>2, <1>4 DEF ReadPortion
  <2> QED BY <1>1, <2>1, ReaderGivesUp
<1>5. CASE ~(l > Len(t))
  <2>1. PICK n, g : n = l + 1 /\ g = c.got \o SubSeq(t, c.next, l) OBVIOUS
  <2> DEFINE x == [c EXCEPT !.next = n, !.got = g]
  <2>2. SubSeq(t, c.next, l) \in Seq(Cell)
    <3>1. \A i \in c.next..l : t[i] \in Cell BY <1>1, <1>3, <1>5
    <3> QED BY <1>3, <3>1, SubSeqProperties
  <2>3. n \in Nat /\ g \in Seq(Cell) /\ n - 1 = l /\ c.first <= n /\ n <= c.last + 1
    BY <1>1, <1>3, <2>1, <2>2, SMTT(30)
  <2>4. x \in ReadCall /\ x.first = c.first /\ x.next = n /\ x.last = c.last /\ x.got = g
    BY <1>1, <2>3 DEF ReadCall
  <2>5. call' = x BY <1>0, <1>2, <1>5, <2>1 DEF ReadPortion
  <2>6. opened' = opened /\ answered' = answered /\ use' = "read" /\ file' = file
    BY <1>0, <1>1, <1>2, <1>5 DEF ReadPortion, Still
  <2> HIDE DEF x
  <2>7. Same => g = SubSeq(s, c.first, l)
    <3> SUFFICES ASSUME Same PROVE g = SubSeq(s, c.first, l) OBVIOUS
    <3>1. g = SubSeq(s, c.first, c.next - 1) \o SubSeq(s, c.next, l) BY <1>1, <2>1
    <3>2. PICK k : k = c.next - 1 OBVIOUS
    <3>3. k + 1 = c.next /\ c.first \in 1..(Len(s) + 1) /\ k \in (c.first - 1)..Len(s) /\ l \in k..Len(s)
      BY <1>1, <1>3, <3>2, SMTT(30)
    <3>4. SubSeq(s, c.first, k) \o SubSeq(s, k + 1, l) = SubSeq(s, c.first, l)
      BY <1>1, <3>3, ConcatAdjacentSubSeq
    <3> QED BY <3>1, <3>2, <3>3, <3>4
  <2>8. CallFits'
    <3>1. ReadingFits' BY <1>0, <1>1, <2>3, <2>4, <2>5, <2>6, <2>7 DEF ReadingFits, Same
    <3> QED BY <1>1, <2>4, <2>5, <2>6, <3>1 DEF CallFits
  <2> QED BY <1>1, <2>6, <2>8, CallGoesOn DEF Reads
<1> QED BY <1>4, <1>5

LEMMA ReadEndStep == ASSUME FilesInv, ReadEnd PROVE FilesInv'
<1>0. PICK c, s : c = call /\ s = opened.cells OBVIOUS
<1>1. /\ Still /\ use = "read" /\ c \in ReadCall /\ opened.open /\ s \in Seq(Cell)
      /\ c.first <= c.next /\ c.next <= c.last + 1 /\ c.last <= Len(s) /\ c.next > c.last
      /\ Same => c.got = SubSeq(s, c.first, c.next - 1)
  <2>1. /\ Still /\ use = "read" /\ c \in ReadCall /\ opened.open /\ opened \in OpenedType /\ ReadingFits
        /\ c.next > c.last
    BY <1>0, TypeFacts, CallIs DEF ReadEnd, Still
  <2> QED BY <1>0, <2>1 DEF ReadingFits, OpenedType
<1>2. CASE ~Same BY <1>1, <1>2, ReaderGivesUp DEF ReadEnd, VerifyUnchanged, Same
<1>3. CASE Same
  <2>1. Give(c.first, c.got) /\ UNCHANGED opened BY <1>0, <1>3 DEF ReadEnd, VerifyUnchanged, Same
  <2>2. /\ c.first \in Nat \ {0} /\ c.next \in Nat /\ c.last \in Nat /\ c.got \in Seq(Cell) /\ Len(s) \in Nat
    BY <1>1 DEF ReadCall
  <2>3. c.got = SubSeq(s, c.first, c.last) /\ c.next - 1 = c.last /\ c.first <= c.last + 1
    BY <1>1, <1>3, <2>2, SMTT(30)
  <2>4. Len(c.got) = c.last - c.first + 1
    <3>1. \A i \in c.first..c.last : s[i] \in Cell BY <1>1, <2>2
    <3>2. Len(SubSeq(s, c.first, c.last)) = IF c.first <= c.last THEN c.last - c.first + 1 ELSE 0
      BY <2>2, <3>1, SubSeqProperties
    <3> QED BY <2>2, <2>3, <3>2
  <2>5. c.last = c.first + Len(c.got) - 1 BY <2>2, <2>4
  <2> QED BY <1>0, <1>1, <2>1, <2>2, <2>3, <2>5, CallGives DEF Reads
<1> QED BY <1>2, <1>3

LEMMA CreateStep == ASSUME FilesInv, Create PROVE FilesInv'
<1>1. /\ use = "spool" /\ ~opened.open /\ ~opened.failed /\ call' = call /\ call = NoFile /\ answered' = answered /\ file' = file
      /\ partial' = TRUE /\ durable' = durable /\ destination' = destination /\ onDisk' = onDisk /\ foreign' = foreign
      /\ use' = use /\ calls' = calls + 1 /\ opened' = [Closed EXCEPT !.open = TRUE, !.stamp = file.stamp]
  BY DEF Create
<1>2. FilesType /\ file.stamp \in Int /\ file.stamp <= file.stamp /\ file.cells = <<>> /\ ~answered.ok
  BY <1>1 DEF FilesInv, FilesType, OpenedFits
<1>3. opened' \in OpenedType /\ opened'.open /\ opened'.cells = <<>> /\ opened'.stamp = file.stamp
  BY <1>1, <1>2, BeginsWith
<1>4. FilesType' BY <1>1, <1>2, <1>3 DEF FilesType, OpenedType
<1>5. OpenedFits' /\ CallFits' /\ ReadsAreTrue' BY <1>1, <1>2, <1>3 DEF OpenedFits, CallFits, ReadsAreTrue
<1> QED BY <1>1, <1>4, <1>5, ReaderStep DEF Reads

LEMMA AppendBeginStep == ASSUME FilesInv, AppendBegin PROVE FilesInv'
<1>1. Still /\ use = "spool" /\ opened.open BY TypeFacts DEF AppendBegin, Begin, Still
<1>2. PICK count \in 1..2 :
        IF Same THEN call' = [op |-> "append", count |-> count] /\ UNCHANGED <<opened, answered>>
        ELSE Return(FALSE) /\ opened' = CallFails(opened)
  BY DEF AppendBegin, Begin
<1>3. CASE Same
  <2>1. call' \in AppendCall /\ opened' = opened /\ answered' = answered /\ file' = file /\ use' = "spool"
    BY <1>1, <1>2, <1>3 DEF AppendCall, Still
  <2>2. CallFits' BY <1>1, <1>3, <2>1 DEF CallFits, Same
  <2> QED BY <1>1, <2>1, <2>2, CallGoesOn DEF Reads
<1>4. CASE ~Same BY <1>1, <1>2, <1>4, SpoolGivesUp
<1> QED BY <1>3, <1>4

\* What an append adds, the spool remembers, or it has failed for good.
LEMMA AppendWriteStep == ASSUME FilesInv, AppendWrite PROVE FilesInv'
<1>0. PICK o, c : o = opened /\ c = opened.cells OBVIOUS
<1>1. /\ use = "spool" /\ opened.open /\ o \in OpenedType /\ c \in Seq(Cell) /\ file \in FileType /\ c = file.cells /\ calls \in Nat
      /\ use' = use /\ partial' = partial /\ durable' = durable /\ destination' = destination /\ onDisk' = onDisk
      /\ foreign' = foreign /\ calls' = calls /\ call \in AppendCall
  <2>1. use = "spool" /\ opened.open /\ Same /\ call \in AppendCall BY TypeFacts, CallIs DEF AppendWrite
  <2> QED BY <1>0, <2>1, TypeFacts DEF AppendWrite, content, OpenedType, FilesInv, OpenedFits, Reads
<1>2. PICK written \in 0..call.count :
        LET new == [i \in 1..written |-> 10 * calls + i]
        IN /\ file' = [cells |-> SubSeq(file.cells, 1, Len(c)) \o new, stamp |-> file.stamp + 1]
           /\ IF written = call.count
              THEN Return(TRUE) /\ opened' = [o EXCEPT !.cells = @ \o new, !.stamp = file'.stamp]
              ELSE Return(FALSE) /\ opened' = CallFails(opened)
  BY <1>0 DEF AppendWrite
<1>3. PICK new : new = [i \in 1..written |-> 10 * calls + i] OBVIOUS
<1>4. new \in Seq(Cell)
  <2>1. written \in Nat BY <1>1, <1>2 DEF AppendCall
  <2>2. \A i \in 1..written : 10 * calls + i \in Nat BY <1>1, <2>1
  <2>3. new \in [1..written -> Cell] BY <1>3, <2>2 DEF Cell
  <2> QED BY <2>1, <2>3
<1>5. PICK d, n : d = c \o new /\ n = file.stamp + 1 OBVIOUS
<1>6. d \in Seq(Cell) /\ n \in Nat /\ file' = [cells |-> d, stamp |-> n]
  <2>1. SubSeq(file.cells, 1, Len(c)) = c BY <1>1, SubSeqFull
  <2>2. d \in Seq(Cell) BY <1>1, <1>4, <1>5
  <2>3. n \in Nat BY <1>1, <1>5 DEF FileType
  <2>4. file' = [cells |-> SubSeq(file.cells, 1, Len(c)) \o new, stamp |-> file.stamp + 1] BY <1>2, <1>3
  <2>5. SubSeq(file.cells, 1, Len(c)) \o new = d BY <1>5, <2>1
  <2> QED BY <1>5, <2>2, <2>3, <2>4, <2>5
<1>7. file' \in FileType /\ file'.stamp = n /\ file'.cells = d BY <1>6 DEF FileType
<1>8. opened' \in OpenedType /\ OpenedFits' /\ CallFits' /\ ReadsAreTrue' /\ answered' \in AnswerType
  <2>1. CASE written = call.count
    <3> DEFINE x == [o EXCEPT !.cells = d, !.stamp = n]
    <3>1. Return(TRUE) /\ opened' = [o EXCEPT !.cells = @ \o new, !.stamp = file'.stamp] BY <1>2, <1>3, <2>1
    <3>2. opened' = x
      <4>1. opened' = [o EXCEPT !.cells = c \o new, !.stamp = file'.stamp] BY <1>0, <3>1
      <4>2. c \o new = d /\ file'.stamp = n BY <1>5, <1>7
      <4>3. opened' = [o EXCEPT !.cells = d, !.stamp = n] BY <4>1, <4>2
      <4> QED BY <4>3
    <3>3. x \in OpenedType /\ x.cells = d /\ x.stamp = n /\ x.open = o.open
      <4>1. o \in OpenedType /\ d \in Seq(Cell) /\ n \in Int BY <1>1, <1>6
      <4> QED BY <4>1 DEF OpenedType
    <3> HIDE DEF x
    <3>4. OpenedFits' BY <1>0, <1>1, <1>6, <1>7, <3>2, <3>3 DEF OpenedFits, Same
    <3> QED BY <3>1, <3>2, <3>3, <3>4, Returns
  <2>2. CASE written # call.count
    <3>1. Return(FALSE) /\ opened' = CallFails(opened) BY <1>2, <2>2
    <3>2. opened' \in OpenedType /\ ~opened'.open /\ opened'.failed BY <1>0, <1>1, <3>1, FailsWith
    <3> QED BY <3>1, <3>2, Returns DEF OpenedFits
  <2> QED BY <2>1, <2>2
<1>9. FilesType' BY <1>1, <1>7, <1>8 DEF FilesInv, FilesType, FileType, OpenedType, AnswerType
<1> QED BY <1>1, <1>8, <1>9, ReaderStep DEF Reads

LEMMA SpoolReadStep == ASSUME FilesInv, SpoolRead PROVE FilesInv'
<1>1. Still /\ use = "spool" /\ opened.open /\ opened \in OpenedType BY TypeFacts DEF SpoolRead, Begin, Still
<1>2. PICK first \in 1..(Len(opened.cells) + 1), count \in 0..Len(opened.cells) :
        /\ first + count - 1 <= Len(opened.cells)
        /\ IF Same THEN /\ call' = [op |-> "fetch", first |-> first, last |-> first + count - 1]
                        /\ UNCHANGED <<opened, answered>>
           ELSE Return(FALSE) /\ opened' = CallFails(opened)
  BY DEF SpoolRead, Begin
<1>3. CASE Same
  <2>1. PICK l : l = first + count - 1 OBVIOUS
  <2>2. Len(opened.cells) \in Nat BY <1>1 DEF OpenedType
  <2>3. l \in Nat /\ first \in Nat \ {0} /\ l <= Len(opened.cells) /\ first <= l + 1 BY <1>2, <2>1, <2>2
  <2> DEFINE x == [op |-> "fetch", first |-> first, last |-> l]
  <2>4. x \in FetchCall /\ x.first = first /\ x.last = l BY <2>3 DEF FetchCall
  <2>5. call' = x /\ opened' = opened /\ answered' = answered /\ use' = "spool"
    BY <1>1, <1>2, <1>3, <2>1 DEF Still
  <2> HIDE DEF x
  <2>6. CallFits' BY <1>1, <2>3, <2>4, <2>5 DEF CallFits
  <2> QED BY <1>1, <2>5, <2>6, CallGoesOn DEF Reads
<1>4. CASE ~Same BY <1>1, <1>2, <1>4, SpoolGivesUp
<1> QED BY <1>3, <1>4

LEMMA SpoolFetchStep == ASSUME FilesInv, SpoolFetch PROVE FilesInv'
<1>0. PICK c, s, t : c = call /\ s = opened.cells /\ t = file.cells OBVIOUS
<1>1. /\ Still /\ use = "spool" /\ c \in FetchCall /\ opened.open /\ s \in Seq(Cell) /\ t \in Seq(Cell)
      /\ c.last <= Len(s) /\ c.first <= c.last + 1 /\ (Same => s = t)
  <2>1. /\ Still /\ use = "spool" /\ c \in FetchCall /\ opened.open /\ opened \in OpenedType /\ file \in FileType
        /\ c.last <= Len(s) /\ c.first <= c.last + 1
    BY <1>0, TypeFacts, CallIs DEF SpoolFetch, Still
  <2>2. Same => s = t BY <1>0, <2>1 DEF FilesInv, OpenedFits, Reads
  <2> QED BY <1>0, <2>1, <2>2 DEF OpenedType, FileType
<1>2. CASE c.last > Len(t) BY <1>0, <1>1, <1>2, SpoolGivesUp DEF SpoolFetch
<1>3. CASE ~(c.last > Len(t))
  <2>1. PICK g : g = SubSeq(t, c.first, c.last) OBVIOUS
  <2>2. c.first \in Nat \ {0} /\ c.last \in Nat /\ Len(s) \in Nat /\ Len(t) \in Nat /\ c.first \in Int /\ c.last \in Int
    BY <1>1 DEF FetchCall
  <2>3. \A i \in c.first..c.last : t[i] \in Cell BY <1>1, <1>3, <2>2
  <2>4. g \in Seq(Cell) /\ Len(g) = IF c.first <= c.last THEN c.last - c.first + 1 ELSE 0
    BY <2>1, <2>2, <2>3, SubSeqProperties
  <2>5. c.last = c.first + Len(g) - 1 BY <1>1, <2>2, <2>4, SMTT(30)
  <2>6. Same => g = SubSeq(s, c.first, c.first + Len(g) - 1) BY <1>1, <2>1, <2>5
  <2> DEFINE x == [op |-> "fetched", first |-> c.first, got |-> g]
  <2>7. x \in FetchedCall /\ x.first = c.first /\ x.got = g BY <2>2, <2>4 DEF FetchedCall
  <2>8. call' = x /\ opened' = opened /\ answered' = answered /\ file' = file /\ use' = "spool"
    BY <1>0, <1>1, <1>3, <2>1 DEF SpoolFetch, Still
  <2> HIDE DEF x
  <2>9. CallFits'
    <3>1. FetchedFits' BY <1>0, <2>6, <2>7, <2>8 DEF FetchedFits, Same
    <3> QED BY <1>1, <2>7, <2>8, <3>1 DEF CallFits
  <2> QED BY <1>1, <2>8, <2>9, CallGoesOn DEF Reads
<1> QED BY <1>2, <1>3

LEMMA SpoolReadEndStep == ASSUME FilesInv, SpoolReadEnd PROVE FilesInv'
<1>0. PICK c : c = call OBVIOUS
<1>1. Still /\ use = "spool" /\ c \in FetchedCall /\ opened.open /\ (Same => c.got = SubSeq(opened.cells, c.first, c.first + Len(c.got) - 1))
  BY <1>0, TypeFacts, CallIs DEF SpoolReadEnd, Still, FetchedFits
<1>2. c.first \in Nat \ {0} /\ c.got \in Seq(Cell) BY <1>1 DEF FetchedCall
<1>3. CASE Same BY <1>0, <1>1, <1>2, <1>3, CallGives DEF SpoolReadEnd, Reads
<1>4. CASE ~Same BY <1>1, <1>4, SpoolGivesUp DEF SpoolReadEnd
<1> QED BY <1>3, <1>4

\* A write of another process changes the stamp: nothing that was read before it
\* is taken for what the file now holds.
LEMMA ForeignWriteStep == ASSUME FilesInv, ForeignWrite PROVE FilesInv'
<1>0. PICK t, n : t = file.cells /\ n = file.stamp + 1 OBVIOUS
<1>1. /\ FilesType /\ OpenedFits /\ CallFits /\ ReadsAreTrue /\ t \in Seq(Cell) /\ file.stamp \in Nat /\ n \in Nat /\ foreign \in Nat
      /\ foreign' = foreign + 1 /\ use' = use /\ opened' = opened /\ call' = call /\ answered' = answered /\ calls' = calls
      /\ partial' = partial /\ durable' = durable /\ destination' = destination /\ onDisk' = onDisk
      /\ use = "read" \/ (use = "spool" /\ call.op # "append")
      /\ opened.open \/ use = "read"
  BY <1>0 DEF ForeignWrite, FilesInv, FilesType, content
<1>2. PICK cells : /\ cells \in {[t EXCEPT ![i] = foreign'] : i \in DOMAIN t} \cup {Append(t, foreign')}
                                \cup {SubSeq(t, 1, k) : k \in 0..(Len(t) - 1)}
                   /\ file' = [cells |-> cells, stamp |-> n]
  BY <1>0 DEF ForeignWrite
<1>3. foreign' \in Cell /\ Len(t) \in Nat
  <2>1. foreign + 1 \in Nat /\ Len(t) \in Nat BY <1>1
  <2> QED BY <1>1, <2>1 DEF Cell
<1>4. cells \in Seq(Cell)
  <2>1. CASE cells = Append(t, foreign') BY <1>1, <1>3, <2>1
  <2>2. CASE \E i \in DOMAIN t : cells = [t EXCEPT ![i] = foreign'] BY <1>1, <1>3, <2>2
  <2>3. CASE \E k \in 0..(Len(t) - 1) : cells = SubSeq(t, 1, k)
    <3>1. PICK k \in 0..(Len(t) - 1) : cells = SubSeq(t, 1, k) BY <2>3
    <3>2. k \in Int /\ \A i \in 1..k : t[i] \in Cell BY <1>1, <1>3
    <3> QED BY <3>1, <3>2, SubSeqProperties
  <2> QED BY <1>2, <2>1, <2>2, <2>3
<1>5. file' \in FileType /\ file'.stamp = n /\ file'.cells = cells BY <1>1, <1>2, <1>4 DEF FileType
<1>6. opened.open => opened.stamp \in Int /\ opened.stamp < n
  <2>1. opened.stamp \in Int /\ (opened.open => opened.stamp <= file.stamp)
    BY <1>1 DEF FilesType, OpenedFits, Reads
  <2> QED BY <1>0, <1>1, <2>1
<1>7. OpenedFits' BY <1>1, <1>5, <1>6 DEF OpenedFits, Same, Reads
<1>8. CallFits'
  <2>1. call.op = "append" => ~(use = "read") /\ ~(use = "spool") BY <1>1, CallIs
  <2>2. opened.open => ~Same' BY <1>1, <1>5, <1>6 DEF Same
  <2>3. CASE call = NoFile BY <1>1, <2>3 DEF CallFits
  <2>4. CASE use = "read" /\ call \in OpenCall /\ OpeningFits
    <3>1. call.stamp \in Nat /\ call.stamp < n BY <1>0, <1>1, <2>4 DEF OpenCall, OpeningFits
    <3>2. OpeningFits' BY <1>1, <1>5, <3>1 DEF OpeningFits
    <3> QED BY <1>1, <2>4, <3>2 DEF CallFits
  <2>5. CASE use = "read" /\ call \in ReadCall /\ opened.open /\ ReadingFits
    <3>1. ReadingFits' BY <1>1, <2>2, <2>5 DEF ReadingFits
    <3> QED BY <1>1, <2>5, <3>1 DEF CallFits
  <2>6. CASE use = "spool" /\ call \in FetchCall /\ opened.open /\ call.last <= Len(opened.cells) /\ call.first <= call.last + 1
    BY <1>1, <2>6 DEF CallFits
  <2>7. CASE use = "spool" /\ call \in FetchedCall /\ opened.open /\ FetchedFits
    <3>1. FetchedFits' BY <1>1, <2>2, <2>7 DEF FetchedFits
    <3> QED BY <1>1, <2>7, <3>1 DEF CallFits
  <2>8. ~(use = "spool" /\ call \in AppendCall) BY <1>1, <2>1 DEF AppendCall
  <2> QED BY <1>1, <2>3, <2>4, <2>5, <2>6, <2>7, <2>8 DEF CallFits, Reads
<1>9. FilesType' /\ ReadsAreTrue' BY <1>1, <1>3, <1>5 DEF FilesType, FileType, ReadsAreTrue
<1> QED BY <1>1, <1>7, <1>8, <1>9, ReaderStep DEF Reads

\* Of a writer: its types, its call, and what the targets are.
LEMMA WriterFacts ==
    ASSUME FilesInv, ~Reads
    PROVE  /\ FilesType /\ file \in FileType /\ file.cells \in Seq(Cell) /\ file.stamp \in Nat /\ file.stamp + 1 \in Nat
           /\ answered.got = <<>> /\ (answered.ok /\ calls <= MaxCalls => destination # Old) /\ WavIsOldOrWhole
BY DEF FilesInv, FilesType, FileType, WriterRests

LEMMA HeaderIsCell == ASSUME NEW b \in BOOLEAN PROVE Header(b) \in Cell
BY DEF Header, Cell

LEMMA AbortStep == ASSUME FilesInv, ~Reads, Abort, UNCHANGED <<use, calls, foreign>> PROVE FilesInv'
<1>1. /\ partial' = FALSE /\ opened' = Closed /\ Return(FALSE) /\ file' = file /\ durable' = durable
      /\ destination' = destination /\ onDisk' = onDisk /\ use' = use /\ calls' = calls /\ foreign' = foreign
  BY DEF Abort, RemoveStaging
<1>2. FilesType /\ WavIsOldOrWhole BY WriterFacts
<1>3. answered' \in AnswerType /\ ~answered'.ok /\ answered'.got = <<>> /\ CallFits' BY <1>1, Returns
<1>4. FilesType' BY <1>1, <1>2, <1>3, ClosedIs DEF FilesType, OpenedType, AnswerType
<1>5. WriterRests' /\ WavIsOldOrWhole' BY <1>1, <1>2, <1>3 DEF WriterRests, WavIsOldOrWhole, Complete
<1> QED BY <1>1, <1>3, <1>4, <1>5, WriterStep

\* A call of a writer that goes on.
LEMMA WriteGoesOn ==
    ASSUME FilesInv, ~Reads, UNCHANGED <<use, answered, destination, onDisk, foreign>>, calls' \in Nat, calls <= calls',
           opened' \in OpenedType, file' \in FileType, partial' \in BOOLEAN, durable' \in BOOLEAN,
           call' \in WriteCall, WritingFits'
    PROVE  FilesInv'
<1>1. FilesType /\ WavIsOldOrWhole /\ answered.got = <<>> /\ (answered.ok /\ calls <= MaxCalls => destination # Old)
  BY WriterFacts
<1>2. FilesType' BY <1>1 DEF FilesType, FileType, OpenedType
<1>3. call' # NoFile BY DEF WriteCall, NoFile
<1>4. CallFits' BY DEF CallFits, Reads
<1>5. calls' <= MaxCalls => calls <= MaxCalls BY <1>1, AudioFilesAssumption DEF FilesType
<1>6. WriterRests' /\ WavIsOldOrWhole' BY <1>1, <1>3, <1>5 DEF WriterRests, WavIsOldOrWhole, Complete
<1> QED BY <1>2, <1>4, <1>6, WriterStep

LEMMA WriterOpenStep == ASSUME FilesInv, WriterOpen PROVE FilesInv'
<1>1. /\ use \in {"stream", "whole"} /\ ~Reads /\ call' = [op |-> "write"] /\ calls' = calls + 1 /\ use' = use
      /\ opened' = [Closed EXCEPT !.open = TRUE, !.stamp = 1] /\ partial' = TRUE /\ durable' = FALSE
      /\ file' = [cells |-> <<Header(use = "whole")>>, stamp |-> 1]
      /\ UNCHANGED <<use, answered, destination, onDisk, foreign>>
  BY DEF WriterOpen, Begin, Reads
<1>2. calls \in Nat BY TypeFacts
<1>3. PICK h, one : h = Header(use = "whole") /\ one = 1 OBVIOUS
<1>4. h \in Cell /\ one \in Nat /\ (use = "whole" => h = Header(TRUE)) BY <1>3, HeaderIsCell DEF Header
<1>5. file' = [cells |-> <<h>>, stamp |-> one] BY <1>1, <1>3
<1>6. <<h>> \in Seq(Cell) /\ Len(<<h>>) = 1 /\ <<h>>[1] = h BY <1>4
<1>7. file' \in FileType /\ file'.cells = <<h>> BY <1>4, <1>5, <1>6 DEF FileType
<1>8. opened' \in OpenedType
  <2>1. one \in Int /\ opened' = [Closed EXCEPT !.open = TRUE, !.stamp = one] BY <1>1, <1>3
  <2> QED BY <2>1, BeginsWith
<1>9. call' \in WriteCall /\ call'.op = "write" BY <1>1 DEF WriteCall
<1>10. WritingFits'
  <2>1. Len(file'.cells) \in 1..(Expected + 1) BY <1>6, <1>7, AudioFilesAssumption
  <2> QED BY <1>1, <1>4, <1>6, <1>7, <1>9, <2>1 DEF WritingFits, Header
<1>11. calls' \in Nat /\ calls <= calls' BY <1>1, <1>2
<1> QED BY <1>1, <1>7, <1>8, <1>9, <1>10, <1>11, WriteGoesOn

LEMMA WriterAppendStep == ASSUME FilesInv, WriterAppend PROVE FilesInv'
<1>0. PICK o, c, n : o = opened /\ c = file.cells /\ n = file.stamp + 1 OBVIOUS
<1>1. ~Reads /\ call \in WriteCall /\ WritingFits /\ call.op = "write" /\ UNCHANGED <<use, calls, foreign>> /\ Len(c) <= Expected
  BY <1>0, TypeFacts, CallIs DEF WriterAppend
<1>2. CASE Abort BY <1>1, <1>2, AbortStep
<1>3. CASE /\ file' = [cells |-> Append(file.cells, "sample"), stamp |-> file.stamp + 1]
           /\ opened' = [opened EXCEPT !.stamp = file'.stamp]
           /\ UNCHANGED <<call, answered, partial, durable, destination, onDisk>>
  <2>1. FilesType /\ c \in Seq(Cell) /\ n \in Nat /\ o \in OpenedType /\ calls \in Nat
    BY <1>0, <1>1, WriterFacts, TypeFacts
  <2>2. PICK d : d = Append(c, "sample") OBVIOUS
  <2>3. "sample" \in Cell /\ Len(c) \in 1..(Expected + 1) /\ (use = "whole" => c[1] = Header(TRUE)) /\ Expected \in Nat
    BY <1>0, <1>1, AudioFilesAssumption DEF WritingFits, Cell
  <2>4. d \in Seq(Cell) /\ Len(d) = Len(c) + 1 /\ d[1] = c[1] BY <2>1, <2>2, <2>3
  <2>5. Len(d) \in 1..(Expected + 1) BY <1>1, <2>3, <2>4
  <2>6. file' = [cells |-> d, stamp |-> n] BY <1>0, <1>3, <2>2
  <2>7. file' \in FileType /\ file'.cells = d /\ file'.stamp = n BY <2>1, <2>4, <2>6 DEF FileType
  <2>8. opened' \in OpenedType
    <3>1. opened' = [o EXCEPT !.stamp = n] /\ n \in Int BY <1>0, <1>3, <2>1, <2>7
    <3> QED BY <2>1, <3>1 DEF OpenedType
  <2>9. WritingFits' BY <1>1, <1>3, <2>3, <2>4, <2>5, <2>7 DEF WritingFits
  <2>10. calls' \in Nat /\ calls <= calls' /\ call' \in WriteCall /\ partial' \in BOOLEAN /\ durable' \in BOOLEAN
    BY <1>1, <1>3, <2>1 DEF FilesType
  <2> QED BY <1>1, <1>3, <2>7, <2>8, <2>9, <2>10, WriteGoesOn
<1> QED BY <1>2, <1>3 DEF WriterAppend

LEMMA CommitHeaderStep == ASSUME FilesInv, CommitHeader PROVE FilesInv'
<1>0. PICK c, n, h : c = file.cells /\ n = file.stamp + 1 /\ h = Header(TRUE) OBVIOUS
<1>1. ~Reads /\ call \in WriteCall /\ WritingFits /\ call.op = "write" /\ UNCHANGED <<use, calls, foreign>>
  BY TypeFacts, CallIs DEF CommitHeader
<1>2. CASE Len(file.cells) # Expected + 1 BY <1>1, <1>2, AbortStep DEF CommitHeader
<1>3. CASE Len(file.cells) = Expected + 1
  <2>1. /\ call' = [op |-> "sync"] /\ file' = [cells |-> [c EXCEPT ![1] = h], stamp |-> n]
        /\ UNCHANGED <<opened, answered, partial, durable, destination, onDisk>>
    BY <1>0, <1>3 DEF CommitHeader
  <2>2. FilesType /\ c \in Seq(Cell) /\ n \in Nat /\ opened \in OpenedType /\ calls \in Nat /\ Len(c) = Expected + 1
    BY <1>0, <1>1, <1>3, WriterFacts, TypeFacts
  <2>3. PICK d : d = [c EXCEPT ![1] = h] OBVIOUS
  <2>4. h \in Cell /\ 1 \in 1..Len(c)
    <3>1. h \in Cell BY <1>0 DEF Header, Cell
    <3> QED BY <2>2, <3>1, AudioFilesAssumption
  <2>5. d \in Seq(Cell) /\ Len(d) = Expected + 1 /\ d[1] = h BY <2>2, <2>3, <2>4
  <2>6. file' \in FileType /\ file'.cells = d BY <2>1, <2>2, <2>3, <2>5 DEF FileType
  <2>7. call' \in WriteCall /\ call'.op = "sync" BY <2>1 DEF WriteCall
  <2>8. WritingFits' BY <1>0, <2>5, <2>6, <2>7 DEF WritingFits, Complete
  <2>9. calls' \in Nat /\ calls <= calls' /\ opened' \in OpenedType /\ partial' \in BOOLEAN /\ durable' \in BOOLEAN
    BY <1>1, <2>1, <2>2 DEF FilesType
  <2> QED BY <1>1, <2>1, <2>6, <2>7, <2>8, <2>9, WriteGoesOn
<1> QED BY <1>2, <1>3

LEMMA CommitSyncStep == ASSUME FilesInv, CommitSync PROVE FilesInv'
<1>1. ~Reads /\ call \in WriteCall /\ WritingFits /\ call.op = "sync" /\ UNCHANGED <<use, calls, foreign>>
  BY TypeFacts, CallIs DEF CommitSync
<1>2. CASE Abort BY <1>1, <1>2, AbortStep
<1>3. CASE SyncFile /\ call' = [op |-> "rename"] /\ UNCHANGED <<file, opened, answered, partial, destination, onDisk>>
  <2>1. FilesType /\ opened \in OpenedType /\ file \in FileType /\ calls \in Nat
    BY <1>1, WriterFacts, TypeFacts
  <2>2. call' \in WriteCall /\ call'.op = "rename" /\ file' = file /\ durable' = TRUE
    BY <1>3 DEF WriteCall, SyncFile
  <2>3. WritingFits' BY <1>1, <2>2 DEF WritingFits, Complete
  <2>4. /\ calls' \in Nat /\ calls <= calls' /\ opened' \in OpenedType /\ file' \in FileType
        /\ partial' \in BOOLEAN /\ durable' \in BOOLEAN
    BY <1>1, <1>3, <2>1, <2>2 DEF FilesType
  <2> QED BY <1>1, <1>3, <2>2, <2>3, <2>4, WriteGoesOn
<1> QED BY <1>2, <1>3 DEF CommitSync

\* What is renamed is complete and on the disk.
LEMMA CommitRenameStep == ASSUME FilesInv, CommitRename PROVE FilesInv'
<1>1. ~Reads /\ call \in WriteCall /\ WritingFits /\ call.op = "rename" /\ UNCHANGED <<use, calls, foreign>>
  BY TypeFacts, CallIs DEF CommitRename
<1>2. CASE Abort BY <1>1, <1>2, AbortStep
<1>3. CASE /\ partial' = FALSE /\ opened' = Closed /\ destination' = file.cells /\ Return(TRUE)
           /\ \E synced \in BOOLEAN :
                 onDisk' = {IF durable THEN file.cells ELSE <<>>} \cup (IF synced /\ use = "stream" THEN {} ELSE onDisk)
           /\ UNCHANGED <<file, durable>>
  <2>1. FilesType /\ WavIsOldOrWhole /\ durable /\ Complete(file.cells) BY <1>1, WriterFacts DEF WritingFits
  <2>3. onDisk' \subseteq {file.cells} \cup onDisk BY <1>3, <2>1
  <2>4. answered' \in AnswerType /\ answered'.got = <<>> /\ CallFits' BY <1>3, Returns
  <2>5. WavIsOldOrWhole' BY <1>3, <2>1, <2>3 DEF WavIsOldOrWhole, Complete
  <2>6. file.cells # Old
    <3>1. "sizes" # "old" /\ Old[1] = "old" /\ file.cells[1] = "sizes" BY <2>1 DEF Complete, Header, Old
    <3> QED BY <3>1
  <2>7. WriterRests' BY <1>3, <2>4, <2>6 DEF WriterRests
  <2>8. FilesType' BY <1>1, <1>3, <2>1, <2>4, ClosedIs DEF FilesType, OpenedType, AnswerType
  <2> QED BY <1>1, <2>4, <2>5, <2>7, <2>8, WriterStep
<1> QED BY <1>2, <1>3 DEF CommitRename

LEMMA PowerLossStep == ASSUME FilesInv, PowerLoss PROVE FilesInv'
<1>1. /\ ~Reads /\ calls' = MaxCalls + 1 /\ (\E after \in onDisk : destination' = after /\ onDisk' = {after})
      /\ call' = NoFile /\ opened' = Closed /\ answered' = Nothing /\ partial' = FALSE
      /\ use' = use /\ file' = file /\ durable' = durable /\ foreign' = foreign
  BY DEF PowerLoss, Reads
<1>2. FilesType /\ WavIsOldOrWhole BY <1>1, WriterFacts
<1>3. FilesType'
  <2>1. calls' \in Nat BY <1>1, AudioFilesAssumption
  <2> QED BY <1>1, <1>2, <2>1, ClosedIs, NothingIs DEF FilesType, OpenedType, AnswerType
<1>4. CallFits' /\ WriterRests' /\ WavIsOldOrWhole'
  BY <1>1, <1>2, NothingIs DEF CallFits, WriterRests, WavIsOldOrWhole, Complete
<1> QED BY <1>1, <1>3, <1>4, WriterStep

LEMMA FilesStillHold == FilesInv /\ UNCHANGED filesVars => FilesInv'
<1> SUFFICES ASSUME FilesInv, UNCHANGED filesVars PROVE FilesInv' OBVIOUS
<1>1. /\ use' = use /\ file' = file /\ opened' = opened /\ call' = call /\ answered' = answered /\ partial' = partial
      /\ durable' = durable /\ destination' = destination /\ onDisk' = onDisk /\ calls' = calls /\ foreign' = foreign
  BY DEF filesVars
<1>2. FilesType' /\ OpenedFits' /\ WriterRests' /\ ReadsAreTrue' /\ WavIsOldOrWhole'
  BY <1>1 DEF FilesInv, FilesType, OpenedFits, WriterRests, ReadsAreTrue, WavIsOldOrWhole, Complete, Reads, Same
<1>3. CallFits'
  BY <1>1, ZenonT(60) DEF FilesInv, CallFits, OpeningFits, ReadingFits, FetchedFits, WritingFits, Complete, Reads, Same
<1> QED BY <1>2, <1>3 DEF FilesInv

LEMMA FilesStep == FilesInv /\ [FilesNext]_filesVars => FilesInv'
<1> SUFFICES ASSUME FilesInv, [FilesNext]_filesVars PROVE FilesInv' OBVIOUS
<1>1. CASE UNCHANGED filesVars BY <1>1, FilesStillHold
<1>2. CASE ReadSome
  BY <1>2, OpenBeginStep, OpenEndStep, ReadBeginStep, ReadPortionStep, ReadEndStep DEF ReadSome
<1>3. CASE Spool
  BY <1>3, CreateStep, AppendBeginStep, AppendWriteStep, SpoolReadStep, SpoolFetchStep, SpoolReadEndStep DEF Spool
<1>4. CASE Write
  BY <1>4, WriterOpenStep, WriterAppendStep, CommitHeaderStep, CommitSyncStep, CommitRenameStep DEF Write
<1>5. CASE ForeignWrite \/ PowerLoss BY <1>5, ForeignWriteStep, PowerLossStep
<1> QED BY <1>1, <1>2, <1>3, <1>4, <1>5 DEF FilesNext

\* Frames that were read are those that were opened or appended, whoever writes
\* the file meanwhile, and a target is the old file or a complete one wherever
\* the power fails; a call that has ended leaves no staging file.
THEOREM FilesHold == FilesSpec => []FilesAreTrue
<1>1. FilesInv => FilesAreTrue
  <2> SUFFICES ASSUME FilesInv PROVE FilesAreTrue OBVIOUS
  <2>1. ReadsAreTrue /\ WavIsOldOrWhole BY DEF FilesInv
  <2>2. NothingIsLeft BY DEF FilesInv, WriterRests, NothingIsLeft, Reads
  <2> QED BY <2>1, <2>2 DEF FilesAreTrue
<1> QED BY <1>1, FilesInitInv, FilesStep, PTL DEF FilesSpec

----------------------------------------
(* Snapshots: the invariant. *)

Cells == [1..Portions -> Nat]
LoaderType ==
    [at : {"start", "header", "copy", "compare", "check", "map", "ended"}, copy : Seq(Nat), seen : Int, head : Nat, next : 1..Portions]
SnapType ==
    /\ task \in {"index", "weights", "search"}
    /\ bytes \in [cells : Cells, stamp : Nat] /\ named \in BOOLEAN /\ was \subseteq Cells /\ writes \in Nat
    /\ bytes.cells \in was /\ unshown \in BOOLEAN /\ undone \in BOOLEAN /\ st \in LoaderType
    /\ found \subseteq 0..(Queries - 1) /\ failed \in BOOLEAN /\ worker \in [0..(Workers - 1) -> Nat]
    /\ answer \in {"none", "empty", "result"}

\* What portion i has held.
Had(i, v) == \E u \in was : u[i] = v
\* Of a loader r beside a file of cells c and stamp n.
CopyFits(r) ==
    /\ r.at \in {"start", "header"} => r.copy = <<>> /\ r.next = 1
    /\ r.at = "copy" => Len(r.copy) = r.next - 1
    /\ r.at \in {"compare", "check", "map"} => Len(r.copy) = Portions
    /\ \A i \in 1..Len(r.copy) : i \in 1..Portions /\ Had(i, r.copy[i])
    /\ task = "index" /\ r.at \in {"copy", "compare", "check", "map"} => Had(1, r.head)
    /\ task # "index" => r.at \notin {"header", "compare"}
\* If the times show every write and have not changed, header and copy are the file's.
TimesTell(r, c, n) ==
    ~unshown =>
        /\ r.at \in {"header", "copy", "compare", "check"} => r.seen <= n
        /\ r.at \in {"copy", "compare", "check"} /\ r.seen = n =>
             /\ \A i \in 1..Len(r.copy) : r.copy[i] = c[i]
             /\ task = "index" => r.head = c[1]
        /\ r.at = "map" => r.copy \in was /\ (task = "index" => r.head = r.copy[1])
\* If no write undid another, the copy is what the file held when the first pass
\* ended: so far as it was compared, and where it would still pass.
IndexCopy(r, c) ==
    task = "index" /\ ~undone =>
        /\ r.at = "compare" => \E u \in was : \A i \in 1..Portions : i < r.next \/ r.copy[i] = c[i] => r.copy[i] = u[i]
        /\ r.at \in {"check", "map"} => r.copy \in was
LoadFits(r, c, n) == CopyFits(r) /\ TimesTell(r, c, n) /\ IndexCopy(r, c)

\* A query has its neighbours, or a thread comes to it.
Comes(q) == \E w \in 0..(Workers - 1), k \in Nat : q = worker[w] + k * Workers
NoneIsLeftOut == \A q \in 0..(Queries - 1) : failed \/ q \in found \/ Comes(q)

SnapInv ==
    /\ SnapType /\ LoadFits(st, bytes.cells, bytes.stamp) /\ LoadedAtOneMoment
    /\ NoneIsLeftOut /\ SearchIsWhole
    /\ answer = "result" => ~failed /\ Joined

LEMMA SnapInitInv == SInit => SnapInv
<1> SUFFICES ASSUME SInit PROVE SnapInv OBVIOUS
<1>1. /\ task \in {"index", "weights", "search"} /\ bytes.cells = Zero /\ bytes.stamp = 0 /\ named = TRUE /\ was = {Zero} /\ unshown = FALSE
      /\ undone = FALSE /\ writes = 0 /\ st.at = "start" /\ st.copy = <<>> /\ st.next = 1 /\ st.seen = -1 /\ loaded = <<>> /\ found = {}
      /\ failed = FALSE /\ answer = "none" /\ worker = [w \in 0..(Workers - 1) |-> w]
  BY DEF SInit
<1>2. Zero \in Cells /\ \A i \in 1..Portions : Zero[i] = 0 BY DEF Zero, Cells
<1>3. SnapType
  <2>1. bytes \in [cells : Cells, stamp : Nat] BY <1>2 DEF SInit
  <2>2. st \in LoaderType
    <3>1. 1 \in 1..Portions /\ -1 \in Int /\ 0 \in Nat /\ <<>> \in Seq(Nat) BY SnapshotsAssumption
    <3> QED BY <3>1 DEF SInit, LoaderType
  <2>3. worker \in [0..(Workers - 1) -> Nat] BY <1>1
  <2> QED BY <1>1, <1>2, <2>1, <2>2, <2>3 DEF SnapType
<1>4. LoadFits(st, bytes.cells, bytes.stamp) /\ LoadedAtOneMoment /\ SearchIsWhole
  <2>1. 1..Len(<<>>) = {} OBVIOUS
  <2> QED BY <1>1, <2>1 DEF LoadFits, CopyFits, TimesTell, IndexCopy, LoadedAtOneMoment, SearchIsWhole
<1>5. NoneIsLeftOut
  <2> SUFFICES ASSUME NEW q \in 0..(Queries - 1) PROVE Comes(q) BY DEF NoneIsLeftOut
  <2>1. /\ q % Workers \in 0..(Workers - 1) /\ q \div Workers \in Nat /\ q = (q % Workers) + (q \div Workers) * Workers
    BY SnapshotsAssumption
  <2>2. worker[q % Workers] = q % Workers BY <1>1, <2>1
  <2> QED BY <2>1, <2>2 DEF Comes
<1> QED BY <1>1, <1>3, <1>4, <1>5 DEF SnapInv

\* A step of the loader, to x, leaves the file and the search alone.
LEMMA LoaderStep ==
    ASSUME SnapInv, UNCHANGED <<task, bytes, named, history, writes, searching>>, NEW x \in LoaderType, st' = x,
           LoadFits(x, bytes.cells, bytes.stamp), LoadedAtOneMoment'
    PROVE  SnapInv'
<1>1. SnapType /\ NoneIsLeftOut /\ SearchIsWhole /\ (answer = "result" => ~failed /\ Joined) BY DEF SnapInv
<1>2. /\ task' = task /\ bytes' = bytes /\ named' = named /\ was' = was /\ unshown' = unshown /\ undone' = undone
      /\ writes' = writes /\ found' = found /\ failed' = failed /\ worker' = worker /\ answer' = answer
  BY DEF searching, history
<1>3. SnapType' BY <1>1, <1>2 DEF SnapType
<1>4. NoneIsLeftOut' /\ SearchIsWhole' BY <1>1, <1>2 DEF NoneIsLeftOut, Comes, SearchIsWhole
<1>5. answer' = "result" => ~failed' /\ Joined' BY <1>1, <1>2 DEF Joined, Busy
<1>6. LoadFits(st, bytes.cells, bytes.stamp)' BY <1>2 DEF LoadFits, CopyFits, Had, TimesTell, IndexCopy
<1> QED BY <1>3, <1>4, <1>5, <1>6 DEF SnapInv

\* A step that leaves what was loaded, and the histories.
LEMMA LoadedStays == ASSUME SnapInv, UNCHANGED <<task, history, loaded>> PROVE LoadedAtOneMoment'
BY DEF SnapInv, history, LoadedAtOneMoment

\* The loader and the file, by names of their own.
LEMMA LoaderIs ==
    ASSUME SnapInv
    PROVE  \E r \in LoaderType, c \in Cells, n \in Nat :
             /\ r = st /\ c = bytes.cells /\ n = bytes.stamp /\ LoadFits(r, c, n)
             /\ c \in was /\ was \subseteq Cells /\ task \in {"index", "weights", "search"}
BY DEF SnapInv, SnapType

LEMMA RefuseStep ==
    ASSUME SnapInv, Refuse, UNCHANGED <<task, bytes, named, history, writes, searching>> PROVE SnapInv'
<1>0. PICK r \in LoaderType, c \in Cells, n \in Nat : r = st /\ c = bytes.cells /\ n = bytes.stamp /\ LoadFits(r, c, n)
  BY LoaderIs
<1> DEFINE x == [r EXCEPT !.at = "ended"]
<1>2. x \in LoaderType /\ x.at = "ended" /\ x.copy = r.copy BY DEF LoaderType
<1>3. st' = x /\ loaded' = <<>> BY <1>0 DEF Refuse
<1> HIDE DEF x
<1>4. LoadFits(x, c, n) BY <1>0, <1>2 DEF LoadFits, CopyFits, TimesTell, IndexCopy
<1>5. LoadedAtOneMoment' BY <1>3 DEF LoadedAtOneMoment
<1> QED BY <1>0, <1>2, <1>3, <1>4, <1>5, LoaderStep

LEMMA OpenStep == ASSUME SnapInv, Open PROVE SnapInv'
<1>1. UNCHANGED <<task, bytes, named, history, writes, searching>> /\ st.at = "start" /\ task # "search"
  BY DEF Open
<1>2. CASE Refuse BY <1>1, <1>2, RefuseStep
<1>3. CASE st' = [st EXCEPT !.at = IF task = "index" THEN "header" ELSE "copy", !.seen = bytes.stamp] /\ loaded' = <<>>
  <2>0. PICK r \in LoaderType, c \in Cells, n \in Nat : r = st /\ c = bytes.cells /\ n = bytes.stamp /\ LoadFits(r, c, n)
    BY LoaderIs
  <2>1. PICK a : a = IF task = "index" THEN "header" ELSE "copy" OBVIOUS
  <2> DEFINE x == [r EXCEPT !.at = a, !.seen = n]
  <2>2. r.copy = <<>> /\ r.next = 1 BY <1>1, <2>0 DEF LoadFits, CopyFits
  <2>9. a \in {"header", "copy"} /\ n \in Int BY <2>0, <2>1
  <2>3. x \in LoaderType /\ x.at = a /\ x.copy = <<>> /\ x.seen = n /\ x.next = 1 BY <2>2, <2>9 DEF LoaderType
  <2>4. st' = x BY <1>3, <2>0, <2>1
  <2> HIDE DEF x
  <2>5. Len(<<>>) = 0 /\ 1..0 = {} /\ 1 - 1 = 0 OBVIOUS
  <2>6. LoadFits(x, c, n)
    <3>1. CopyFits(x) BY <2>1, <2>3, <2>5 DEF CopyFits
    <3>2. TimesTell(x, c, n) BY <2>1, <2>3, <2>5 DEF TimesTell
    <3>3. IndexCopy(x, c) BY <2>1, <2>3 DEF IndexCopy
    <3> QED BY <3>1, <3>2, <3>3 DEF LoadFits
  <2>7. LoadedAtOneMoment' BY <1>3 DEF LoadedAtOneMoment
  <2> QED BY <1>1, <2>0, <2>3, <2>4, <2>6, <2>7, LoaderStep
<1> QED BY <1>2, <1>3 DEF Open

LEMMA HeaderStep == ASSUME SnapInv, ReadHeader PROVE SnapInv'
<1>1. UNCHANGED <<task, bytes, named, history, writes, searching>> /\ st.at = "header" BY DEF ReadHeader
<1>2. CASE Refuse BY <1>1, <1>2, RefuseStep
<1>3. CASE st' = [st EXCEPT !.at = "copy", !.head = bytes.cells[1]] /\ UNCHANGED loaded
  <2>0. PICK r \in LoaderType, c \in Cells, n \in Nat :
          r = st /\ c = bytes.cells /\ n = bytes.stamp /\ LoadFits(r, c, n) /\ c \in was
    BY LoaderIs
  <2>1. PICK h : h = c[1] OBVIOUS
  <2> DEFINE x == [r EXCEPT !.at = "copy", !.head = h]
  <2>2. r.copy = <<>> /\ r.next = 1 /\ h \in Nat /\ Had(1, h)
    <3>1. 1 \in 1..Portions BY SnapshotsAssumption
    <3> QED BY <1>1, <2>0, <2>1, <3>1 DEF LoadFits, CopyFits, Cells, Had
  <2>3. x \in LoaderType /\ x.at = "copy" /\ x.copy = <<>> /\ x.seen = r.seen /\ x.next = 1 /\ x.head = h
    BY <2>2 DEF LoaderType
  <2>4. st' = x BY <1>3, <2>0, <2>1
  <2> HIDE DEF x
  <2>5. Len(<<>>) = 0 /\ 1..0 = {} /\ 1 - 1 = 0 OBVIOUS
  <2>6. LoadFits(x, c, n)
    <3>1. CopyFits(x) BY <2>2, <2>3, <2>5 DEF CopyFits
    <3>2. TimesTell(x, c, n) BY <1>1, <2>0, <2>1, <2>3, <2>5 DEF LoadFits, TimesTell
    <3>3. IndexCopy(x, c) BY <2>3 DEF IndexCopy
    <3> QED BY <3>1, <3>2, <3>3 DEF LoadFits
  <2> QED BY <1>1, <1>3, <2>0, <2>3, <2>4, <2>6, LoaderStep, LoadedStays
<1> QED BY <1>2, <1>3 DEF ReadHeader

LEMMA CloneStep == ASSUME SnapInv, Clone PROVE SnapInv'
<1>0. PICK r \in LoaderType, c \in Cells, n \in Nat :
        r = st /\ c = bytes.cells /\ n = bytes.stamp /\ LoadFits(r, c, n) /\ c \in was
  BY LoaderIs
<1>1. UNCHANGED <<task, bytes, named, history, writes, searching>> /\ loaded' = loaded /\ task = "index" /\ r.at = "copy"
  BY <1>0 DEF Clone
<1>2. c \in Seq(Nat) /\ Len(c) = Portions /\ \A i \in 1..Len(c) : i \in 1..Portions /\ Had(i, c[i])
  BY <1>0, SnapshotsAssumption, SMTT(30) DEF Cells, Had
<1> DEFINE x == [r EXCEPT !.at = "check", !.copy = c]
<1>3. x \in LoaderType /\ x.at = "check" /\ x.copy = c /\ x.head = r.head /\ x.seen = r.seen
  BY <1>2 DEF LoaderType
<1>4. st' = x BY <1>0 DEF Clone
<1> HIDE DEF x
<1>5. LoadFits(x, c, n)
  <2>1. CopyFits(x) BY <1>0, <1>1, <1>2, <1>3 DEF LoadFits, CopyFits
  <2>2. TimesTell(x, c, n) BY <1>0, <1>1, <1>3 DEF LoadFits, TimesTell
  <2>3. IndexCopy(x, c) BY <1>0, <1>3 DEF IndexCopy
  <2> QED BY <2>1, <2>2, <2>3 DEF LoadFits
<1> QED BY <1>0, <1>1, <1>3, <1>4, <1>5, LoaderStep, LoadedStays

\* One portion more.  The last one ends the first pass.
LEMMA CopyStep == ASSUME SnapInv, CopyPortion PROVE SnapInv'
<1>1. UNCHANGED <<task, bytes, named, history, writes, searching>> /\ st.at = "copy" BY DEF CopyPortion
<1>2. CASE Refuse BY <1>1, <1>2, RefuseStep
<1>3. CASE /\ st' = IF st.next < Portions
                    THEN [st EXCEPT !.copy = Append(@, bytes.cells[st.next]), !.next = @ + 1]
                    ELSE [st EXCEPT !.copy = Append(@, bytes.cells[st.next]), !.next = 1,
                                    !.at = IF task = "index" THEN "compare" ELSE "check"]
           /\ UNCHANGED loaded
  <2>0. PICK r \in LoaderType, c \in Cells, n \in Nat :
          /\ r = st /\ c = bytes.cells /\ n = bytes.stamp /\ LoadFits(r, c, n) /\ c \in was
          /\ task \in {"index", "weights", "search"}
    BY LoaderIs
  <2>1. r.at = "copy" /\ r.next \in 1..Portions /\ r.next \in Nat /\ r.copy \in Seq(Nat) /\ c[r.next] \in Nat /\ Len(r.copy) = r.next - 1
    <3>1. r.at = "copy" /\ r.next \in 1..Portions /\ r.copy \in Seq(Nat) /\ c \in [1..Portions -> Nat]
      BY <1>1, <2>0 DEF LoaderType, Cells
    <3>2. Len(r.copy) = r.next - 1 BY <2>0, <3>1 DEF LoadFits, CopyFits
    <3> QED BY <3>1, <3>2, SnapshotsAssumption
  <2>2. PICK cp, m : cp = Append(r.copy, c[r.next]) /\ m = IF r.next < Portions THEN r.next + 1 ELSE 1 OBVIOUS
  <2>3. PICK a : a = IF r.next < Portions THEN "copy" ELSE IF task = "index" THEN "compare" ELSE "check"
    OBVIOUS
  <2>4. /\ cp \in Seq(Nat) /\ Len(cp) = r.next /\ cp[r.next] = c[r.next]
        /\ \A i \in 1..Len(cp) : i = r.next \/ (i \in 1..Len(r.copy) /\ cp[i] = r.copy[i])
    BY <2>1, <2>2
  <2>5. m \in 1..Portions /\ (a = "copy" => r.next = m - 1) /\ (a # "copy" => r.next = Portions /\ m = 1)
    BY <2>1, <2>2, <2>3, SnapshotsAssumption
  <2> DEFINE x == [r EXCEPT !.copy = cp, !.next = m, !.at = a]
  <2>6. x \in LoaderType /\ x.at = a /\ x.copy = cp /\ x.next = m /\ x.head = r.head /\ x.seen = r.seen
    BY <2>3, <2>4, <2>5 DEF LoaderType
  <2>7. st' = x
    <3>1. CASE r.next < Portions
      <4>1. st' = [r EXCEPT !.copy = cp, !.next = m] BY <1>3, <2>0, <2>2, <3>1
      <4>2. x = [r EXCEPT !.copy = cp, !.next = m] BY <2>1, <2>3, <3>1 DEF LoaderType
      <4> QED BY <4>1, <4>2
    <3>2. CASE ~(r.next < Portions) BY <1>3, <2>0, <2>2, <2>3, <3>2
    <3> QED BY <3>1, <3>2
  <2> HIDE DEF x
  <2>8. a \in {"copy", "compare", "check"} /\ (a = "compare" => task = "index") /\ (task = "index" => a # "check")
    BY <2>3
  <2>9. LoadFits(x, c, n)
    <3>1. CopyFits(x)
      <4>1. \A i \in 1..Len(cp) : i \in 1..Portions /\ Had(i, cp[i])
        <5> TAKE i \in 1..Len(cp)
        <5>1. CASE i = r.next
          <6>1. Had(i, c[i]) BY <2>0 DEF Had
          <6> QED BY <2>1, <2>4, <5>1, <6>1
        <5>2. CASE i \in 1..Len(r.copy) /\ cp[i] = r.copy[i]
          <6>1. i \in 1..Portions /\ Had(i, r.copy[i]) BY <2>0, <5>2 DEF LoadFits, CopyFits
          <6> QED BY <5>2, <6>1
        <5> QED BY <2>4, <5>1, <5>2
      <4> QED BY <2>0, <2>1, <2>4, <2>5, <2>6, <2>8, <4>1 DEF LoadFits, CopyFits
    <3>2. TimesTell(x, c, n) BY <2>0, <2>1, <2>4, <2>6, <2>8 DEF LoadFits, TimesTell
    <3>3. IndexCopy(x, c)
      <4>1. a = "compare" => \A i \in 1..Portions : ~(i < m) BY <2>5
      <4> QED BY <2>0, <2>6, <2>8, <4>1 DEF IndexCopy
    <3> QED BY <3>1, <3>2, <3>3 DEF LoadFits
  <2> QED BY <1>1, <1>3, <2>0, <2>6, <2>7, <2>9, LoaderStep, LoadedStays
<1> QED BY <1>2, <1>3 DEF CopyPortion

LEMMA CompareStep == ASSUME SnapInv, ComparePortion PROVE SnapInv'
<1>1. UNCHANGED <<task, bytes, named, history, writes, searching>> /\ st.at = "compare" BY DEF ComparePortion
<1>2. CASE ~SamePortion(st.next) BY <1>1, <1>2, RefuseStep DEF ComparePortion
<1>3. CASE SamePortion(st.next)
  <2>0. PICK r \in LoaderType, c \in Cells, n \in Nat :
          /\ r = st /\ c = bytes.cells /\ n = bytes.stamp /\ LoadFits(r, c, n) /\ was \subseteq Cells
    BY LoaderIs
  <2>1. /\ r.at = "compare" /\ r.copy[r.next] = c[r.next] /\ loaded' = loaded /\ r.next \in 1..Portions /\ r.copy \in Seq(Nat)
        /\ Len(r.copy) = Portions /\ task = "index"
    BY <1>1, <1>3, <2>0 DEF ComparePortion, SamePortion, LoaderType, LoadFits, CopyFits
  <2>2. PICK m, a : m = (IF r.next < Portions THEN r.next + 1 ELSE r.next) /\ a = IF r.next < Portions THEN "compare" ELSE "check"
    OBVIOUS
  <2>3. /\ m \in 1..Portions /\ \A i \in 1..Portions : i < m => i < r.next \/ i = r.next
        /\ a = "check" => \A i \in 1..Portions : i < r.next \/ i = r.next
    BY <2>1, <2>2, SnapshotsAssumption
  <2> DEFINE x == [r EXCEPT !.next = m, !.at = a]
  <2>4. x \in LoaderType /\ x.at = a /\ x.copy = r.copy /\ x.next = m /\ x.head = r.head /\ x.seen = r.seen
    BY <2>2, <2>3 DEF LoaderType
  <2>5. st' = x
    <3>1. CASE r.next < Portions
      <4>1. st' = [r EXCEPT !.next = m] BY <1>3, <2>0, <2>2, <3>1 DEF ComparePortion
      <4>2. x = [r EXCEPT !.next = m] BY <2>1, <2>2, <3>1 DEF LoaderType
      <4> QED BY <4>1, <4>2
    <3>2. CASE ~(r.next < Portions)
      <4>1. st' = [r EXCEPT !.at = a] BY <1>3, <2>0, <2>2, <3>2 DEF ComparePortion
      <4>2. x = [r EXCEPT !.at = a] BY <2>1, <2>2, <3>2 DEF LoaderType
      <4> QED BY <4>1, <4>2
    <3> QED BY <3>1, <3>2
  <2> HIDE DEF x
  <2>6. CopyFits(x) /\ TimesTell(x, c, n) BY <2>0, <2>1, <2>2, <2>4 DEF LoadFits, CopyFits, TimesTell
  <2>7. IndexCopy(x, c)
    <3> SUFFICES ASSUME ~undone
                 PROVE  /\ a = "compare" => \E u \in was : \A i \in 1..Portions : i < m \/ r.copy[i] = c[i] => r.copy[i] = u[i]
                        /\ a = "check" => r.copy \in was
      BY <2>2, <2>4 DEF IndexCopy
    <3>1. PICK u \in was : \A i \in 1..Portions : i < r.next \/ r.copy[i] = c[i] => r.copy[i] = u[i]
      BY <2>0, <2>1 DEF LoadFits, IndexCopy
    <3>2. a = "compare" => \A i \in 1..Portions : i < m \/ r.copy[i] = c[i] => r.copy[i] = u[i]
      BY <2>1, <2>3, <3>1
    <3>3. ASSUME a = "check" PROVE r.copy = u
      <4>1. \A i \in 1..Portions : r.copy[i] = u[i] BY <2>1, <2>3, <3>1, <3>3
      <4>2. r.copy \in [1..Portions -> Nat] BY <2>1, LenProperties
      <4>3. u \in [1..Portions -> Nat] BY <2>0, <3>1 DEF Cells
      <4>4. r.copy = [i \in 1..Portions |-> r.copy[i]] /\ u = [i \in 1..Portions |-> u[i]] BY <4>2, <4>3
      <4> QED BY <4>1, <4>4
    <3> QED BY <3>2, <3>3
  <2> QED BY <1>1, <2>0, <2>1, <2>4, <2>5, <2>6, <2>7, LoaderStep, LoadedStays DEF LoadFits
<1> QED BY <1>2, <1>3

LEMMA CheckStep == ASSUME SnapInv, Check PROVE SnapInv'
<1>1. UNCHANGED <<task, bytes, named, history, writes, searching>> /\ st.at = "check" BY DEF Check
<1>2. CASE ~(st.seen = bytes.stamp /\ StillNamed) BY <1>1, <1>2, RefuseStep DEF Check
<1>3. CASE st.seen = bytes.stamp /\ StillNamed
  <2>0. PICK r \in LoaderType, c \in Cells, n \in Nat :
          /\ r = st /\ c = bytes.cells /\ n = bytes.stamp /\ LoadFits(r, c, n) /\ c \in was
    BY LoaderIs
  <2> DEFINE x == [r EXCEPT !.at = "map"]
  <2>1. /\ r.at = "check" /\ r.seen = n /\ loaded' = loaded /\ r.copy \in Seq(Nat) /\ Len(r.copy) = Portions
    BY <1>1, <1>3, <2>0 DEF Check, LoaderType, LoadFits, CopyFits
  <2>2. x \in LoaderType /\ x.at = "map" /\ x.copy = r.copy /\ x.head = r.head /\ x.next = r.next
    BY DEF LoaderType
  <2>3. st' = x BY <1>3, <2>0 DEF Check
  <2> HIDE DEF x
  <2>4. ~unshown => r.copy = c /\ (task = "index" => r.head = c[1])
    <3> SUFFICES ASSUME ~unshown PROVE r.copy = c /\ (task = "index" => r.head = c[1]) OBVIOUS
    <3>1. (\A i \in 1..Portions : r.copy[i] = c[i]) /\ (task = "index" => r.head = c[1])
      BY <2>0, <2>1 DEF LoadFits, TimesTell
    <3>2. DOMAIN r.copy = 1..Portions BY <2>1
    <3>3. r.copy = [i \in DOMAIN r.copy |-> r.copy[i]] /\ c = [i \in 1..Portions |-> c[i]] BY <2>1 DEF Cells
    <3> QED BY <3>1, <3>2, <3>3
  <2>5. LoadFits(x, c, n)
    <3>1. CopyFits(x) BY <2>0, <2>1, <2>2 DEF LoadFits, CopyFits
    <3>2. TimesTell(x, c, n) BY <2>0, <2>2, <2>4 DEF TimesTell
    <3>3. IndexCopy(x, c) BY <2>0, <2>1, <2>2 DEF LoadFits, IndexCopy
    <3> QED BY <3>1, <3>2, <3>3 DEF LoadFits
  <2> QED BY <1>1, <2>0, <2>1, <2>2, <2>3, <2>5, LoaderStep, LoadedStays
<1> QED BY <1>2, <1>3

LEMMA MapStep == ASSUME SnapInv, Map PROVE SnapInv'
<1>1. UNCHANGED <<task, bytes, named, history, writes, searching>> /\ st.at = "map" BY DEF Map
<1>2. CASE Refuse BY <1>1, <1>2, RefuseStep
<1>3. CASE loaded' = Kept /\ st' = [st EXCEPT !.at = "ended"]
  <2>0. PICK r \in LoaderType, c \in Cells, n \in Nat :
          /\ r = st /\ c = bytes.cells /\ n = bytes.stamp /\ LoadFits(r, c, n) /\ was \subseteq Cells
    BY LoaderIs
  <2> DEFINE x == [r EXCEPT !.at = "ended"]
  <2>1. /\ r.at = "map" /\ loaded' = IF task = "index" THEN [r.copy EXCEPT ![1] = r.head] ELSE r.copy
        /\ r.copy \in Seq(Nat) /\ Len(r.copy) = Portions /\ 1 \in 1..Portions /\ (task = "index" => Had(1, r.head))
    BY <1>1, <1>3, <2>0, SnapshotsAssumption DEF Kept, LoaderType, LoadFits, CopyFits
  <2>2. x \in LoaderType /\ x.at = "ended" /\ x.copy = r.copy BY DEF LoaderType
  <2>3. st' = x BY <1>3, <2>0
  <2> HIDE DEF x
  <2>4. LoadFits(x, c, n) BY <2>0, <2>2 DEF LoadFits, CopyFits, TimesTell, IndexCopy
  <2>5. LoadedAtOneMoment'
    <3>1. was' = was /\ task' = task /\ unshown' = unshown /\ undone' = undone BY <1>1 DEF history
    <3>2. PICK l : l = loaded' OBVIOUS
    <3>3. task = "index" => l[1] = r.head BY <2>1, <3>2
    <3>4. ~unshown => l \in was
      <4> SUFFICES ASSUME ~unshown PROVE l \in was OBVIOUS
      <4>1. r.copy \in was /\ (task = "index" => r.head = r.copy[1]) BY <2>0, <2>1 DEF LoadFits, TimesTell
      <4>2. [r.copy EXCEPT ![1] = r.copy[1]] = r.copy BY <2>1, SMTT(30)
      <4> QED BY <2>1, <3>2, <4>1, <4>2
    <3>5. task = "index" => \E u \in was : u[1] = l[1] BY <2>1, <3>3 DEF Had
    <3>6. task = "index" /\ ~undone => \E u \in was : l = [u EXCEPT ![1] = l[1]]
      <4> SUFFICES ASSUME task = "index", ~undone PROVE \E u \in was : l = [u EXCEPT ![1] = l[1]] OBVIOUS
      <4>1. r.copy \in was BY <2>0, <2>1 DEF LoadFits, IndexCopy
      <4>2. l = [r.copy EXCEPT ![1] = l[1]] BY <2>1, <3>2, <3>3
      <4> QED BY <4>1, <4>2
    <3> QED BY <3>1, <3>2, <3>4, <3>5, <3>6 DEF LoadedAtOneMoment
  <2> QED BY <1>1, <2>0, <2>2, <2>3, <2>4, <2>5, LoaderStep
<1> QED BY <1>2, <1>3 DEF Map

\* A write shows in the times or is remembered as one that does not; a portion
\* that becomes what the copy has of it was brought back, or had not changed.
LEMMA StoreStep == ASSUME SnapInv, ForeignStore PROVE SnapInv'
<1>0. PICK r \in LoaderType, c \in Cells, n \in Nat :
        /\ r = st /\ c = bytes.cells /\ n = bytes.stamp /\ LoadFits(r, c, n) /\ c \in was /\ was \subseteq Cells
  BY LoaderIs
<1>1. PICK d \in [1..Portions -> Contents], shown \in BOOLEAN :
        /\ bytes' = [cells |-> d, stamp |-> IF shown THEN bytes.stamp + 1 ELSE bytes.stamp]
        /\ was' = was \cup {d} /\ unshown' = (unshown \/ ~shown)
        /\ undone' = (undone \/ \E i \in 1..Portions, u \in was : d[i] # bytes.cells[i] /\ d[i] = u[i])
  BY DEF ForeignStore
<1>2. /\ writes' = writes + 1 /\ task' = task /\ named' = named /\ st' = st /\ loaded' = loaded
      /\ found' = found /\ failed' = failed /\ worker' = worker /\ answer' = answer
      /\ SnapType /\ LoadedAtOneMoment /\ r.at \notin {"start", "ended"}
  BY <1>0 DEF ForeignStore, searching, SnapInv
<1>3. PICK m : m = bytes'.stamp OBVIOUS
<1>4. d \in Cells /\ bytes'.cells = d /\ m \in Nat /\ m = IF shown THEN n + 1 ELSE n
  <2>1. d \in [1..Portions -> Nat] BY <1>1, SnapshotsAssumption
  <2>2. bytes'.cells = d /\ m = IF shown THEN n + 1 ELSE n BY <1>0, <1>1, <1>3
  <2> QED BY <1>0, <2>1, <2>2 DEF Cells
<1>5. SnapType' BY <1>0, <1>1, <1>2, <1>3, <1>4 DEF SnapType
<1>6. \A i, v : Had(i, v) => Had(i, v)' BY <1>1 DEF Had
<1>7. CopyFits(r)' BY <1>0, <1>2, <1>6 DEF LoadFits, CopyFits
<1>8. TimesTell(st, bytes.cells, bytes.stamp)'
  <2>1. ASSUME ~unshown' PROVE ~unshown /\ m = n + 1 BY <1>1, <1>4, <2>1
  <2>2. r.seen \in Int BY DEF LoaderType
  <2> QED BY <1>0, <1>1, <1>2, <1>3, <1>4, <2>1, <2>2 DEF LoadFits, TimesTell
<1>9. IndexCopy(st, bytes.cells)'
  <2> SUFFICES ASSUME task = "index", ~undone'
               PROVE  /\ r.at = "compare" => \E u \in was' : \A i \in 1..Portions : i < r.next \/ r.copy[i] = d[i] => r.copy[i] = u[i]
                      /\ r.at \in {"check", "map"} => r.copy \in was'
    BY <1>0, <1>2, <1>4 DEF IndexCopy
  <2>1. ~undone /\ \A i \in 1..Portions, u \in was : d[i] = u[i] => d[i] = c[i] BY <1>0, <1>1
  <2>2. r.at \in {"check", "map"} => r.copy \in was BY <1>0, <2>1 DEF LoadFits, IndexCopy
  <2>3. ASSUME r.at = "compare"
        PROVE  \E u \in was' : \A i \in 1..Portions : i < r.next \/ r.copy[i] = d[i] => r.copy[i] = u[i]
    <3>1. PICK u \in was : \A i \in 1..Portions : i < r.next \/ r.copy[i] = c[i] => r.copy[i] = u[i]
      BY <1>0, <2>1, <2>3 DEF LoadFits, IndexCopy
    <3>2. ASSUME NEW i \in 1..Portions, r.copy[i] = d[i] PROVE r.copy[i] = c[i]
      <4>1. Had(i, r.copy[i]) BY <1>0, <2>3 DEF LoadFits, CopyFits
      <4> QED BY <2>1, <3>2, <4>1 DEF Had
    <3> QED BY <1>1, <3>1, <3>2
  <2> QED BY <1>1, <2>2, <2>3
<1>10. LoadedAtOneMoment' BY <1>1, <1>2 DEF LoadedAtOneMoment
<1>11. NoneIsLeftOut' /\ SearchIsWhole' /\ (answer' = "result" => ~failed' /\ Joined')
  BY <1>2 DEF SnapInv, NoneIsLeftOut, Comes, SearchIsWhole, Joined, Busy
<1>12. CopyFits(st)' BY <1>0, <1>2, <1>7
<1> QED BY <1>5, <1>8, <1>9, <1>10, <1>11, <1>12 DEF SnapInv, LoadFits

LEMMA ReplaceStep == ASSUME SnapInv, ForeignReplace PROVE SnapInv'
<1>1. /\ named' = FALSE /\ task' = task /\ bytes' = bytes /\ was' = was /\ unshown' = unshown /\ undone' = undone
      /\ st' = st /\ loaded' = loaded /\ writes' = writes
      /\ found' = found /\ failed' = failed /\ worker' = worker /\ answer' = answer
  BY DEF ForeignReplace, searching, history
<1>2. SnapType' /\ LoadFits(st, bytes.cells, bytes.stamp)' /\ LoadedAtOneMoment'
  BY <1>1, ZenonT(60) DEF SnapInv, SnapType, LoadFits, CopyFits, Had, TimesTell, IndexCopy, LoadedAtOneMoment
<1>3. NoneIsLeftOut' /\ SearchIsWhole' /\ (answer' = "result" => ~failed' /\ Joined')
  BY <1>1 DEF SnapInv, NoneIsLeftOut, Comes, SearchIsWhole, Joined, Busy
<1> QED BY <1>2, <1>3 DEF SnapInv

\* A step of the search leaves the file and its loader alone.
LEMMA SearchKeeps == ASSUME SnapInv, UNCHANGED <<task, loading>>
    PROVE LoadFits(st, bytes.cells, bytes.stamp)' /\ LoadedAtOneMoment'
BY DEF SnapInv, loading, LoadFits, CopyFits, Had, TimesTell, IndexCopy, LoadedAtOneMoment

\* A thread takes its next query, or gives up; then the flag says so.
LEMMA SearchStep == ASSUME SnapInv, NEW w \in DOMAIN worker, SearchOne(w) PROVE SnapInv'
<1>1. /\ SnapType /\ NoneIsLeftOut /\ answer = "none" /\ answer' = "none" /\ w \in 0..(Workers - 1)
      /\ task' = task /\ bytes' = bytes /\ named' = named /\ was' = was /\ unshown' = unshown /\ undone' = undone /\ st' = st /\ loaded' = loaded /\ writes' = writes
      /\ worker[w] < Queries
  BY DEF SearchOne, SnapInv, SnapType, loading, Busy
<1>2. LoadFits(st, bytes.cells, bytes.stamp)' /\ LoadedAtOneMoment' BY SearchKeeps DEF SearchOne
<1>3. PICK n : n = worker[w] OBVIOUS
<1>4. /\ n \in 0..(Queries - 1) /\ n + Workers \in Nat /\ Queries \in Nat /\ worker \in [0..(Workers - 1) -> Nat]
      /\ found \subseteq 0..(Queries - 1) /\ failed \in BOOLEAN
  BY <1>1, <1>3, SnapshotsAssumption, SMTT(30) DEF SnapType
<1>5. \/ worker' = [worker EXCEPT ![w] = Queries] /\ found' = found /\ failed /\ failed' = failed
      \/ worker' = [worker EXCEPT ![w] = n + Workers] /\ found' = found \cup {n} /\ failed' = failed
      \/ worker' = [worker EXCEPT ![w] = Queries] /\ found' = found /\ failed' = TRUE
  BY <1>3 DEF SearchOne
<1>6. worker' \in [0..(Workers - 1) -> Nat] /\ found' \subseteq 0..(Queries - 1) /\ failed' \in BOOLEAN
  BY <1>1, <1>4, <1>5
<1>7. SnapType' BY <1>1, <1>6 DEF SnapType
<1>8. NoneIsLeftOut'
  <2> SUFFICES ASSUME NEW q \in 0..(Queries - 1), ~failed' PROVE q \in found' \/ Comes(q)'
    BY DEF NoneIsLeftOut
  <2>1. worker' = [worker EXCEPT ![w] = n + Workers] /\ found' = found \cup {n} /\ ~failed BY <1>4, <1>5
  <2>2. CASE q \in found BY <2>1, <2>2
  <2>3. CASE q \notin found
    <3>1. PICK v \in 0..(Workers - 1), k \in Nat : q = worker[v] + k * Workers
      BY <1>1, <2>1, <2>3 DEF NoneIsLeftOut, Comes
    <3>2. CASE v # w
      <4>1. worker'[v] = worker[v] BY <1>4, <2>1, <3>2
      <4> QED BY <3>1, <4>1 DEF Comes
    <3>3. CASE v = w /\ k = 0 BY <1>3, <1>4, <3>1, <3>3, SnapshotsAssumption, <2>1
    <3>4. CASE v = w /\ k # 0
      <4>1. PICK j \in Nat : k = j + 1
        <5>1. k - 1 \in Nat /\ k = (k - 1) + 1 BY <3>4
        <5> QED BY <5>1
      <4>2. (j + 1) * Workers = j * Workers + Workers /\ j * Workers \in Nat BY SnapshotsAssumption
      <4>3. worker'[w] = n + Workers BY <1>1, <1>4, <2>1
      <4>4. q = worker'[w] + j * Workers BY <1>3, <1>4, <3>1, <3>4, <4>1, <4>2, <4>3, SnapshotsAssumption
      <4> QED BY <1>1, <4>4 DEF Comes
    <3> QED BY <3>2, <3>3, <3>4
  <2> QED BY <2>2, <2>3
<1> QED BY <1>1, <1>2, <1>7, <1>8 DEF SnapInv, SearchIsWhole

\* When every thread is past the last query, none is left to come.
LEMMA PublishStep == ASSUME SnapInv, Publish PROVE SnapInv'
<1>1. /\ SnapType /\ NoneIsLeftOut /\ Joined /\ answer' = IF failed THEN "empty" ELSE "result"
      /\ task' = task /\ bytes' = bytes /\ named' = named /\ was' = was /\ unshown' = unshown /\ undone' = undone /\ st' = st /\ loaded' = loaded /\ writes' = writes
      /\ found' = found /\ failed' = failed /\ worker' = worker
  BY DEF Publish, SnapInv, loading
<1>2. LoadFits(st, bytes.cells, bytes.stamp)' /\ LoadedAtOneMoment' BY SearchKeeps DEF Publish
<1>3. SnapType' BY <1>1 DEF SnapType
<1>4. NoneIsLeftOut' /\ Joined' BY <1>1 DEF NoneIsLeftOut, Comes, Joined, Busy
<1>5. ASSUME ~failed, NEW q \in 0..(Queries - 1) PROVE q \in found
  <2> SUFFICES ASSUME q \notin found PROVE FALSE OBVIOUS
  <2>1. PICK v \in 0..(Workers - 1), k \in Nat : q = worker[v] + k * Workers
    BY <1>1, <1>5 DEF NoneIsLeftOut, Comes
  <2>2. worker[v] \in Nat /\ ~(worker[v] < Queries) BY <1>1 DEF SnapType, Joined, Busy
  <2>3. k * Workers \in Nat BY SnapshotsAssumption
  <2> QED BY <2>1, <2>2, <2>3, SnapshotsAssumption
<1>6. SearchIsWhole' BY <1>1, <1>5 DEF SearchIsWhole, SnapType
<1>7. answer' = "result" => ~failed' /\ Joined' BY <1>1, <1>4
<1> QED BY <1>2, <1>3, <1>4, <1>6, <1>7 DEF SnapInv

LEMMA SnapStillHolds == SnapInv /\ UNCHANGED svars => SnapInv'
<1> SUFFICES ASSUME SnapInv, UNCHANGED svars PROVE SnapInv' OBVIOUS
<1>1. /\ task' = task /\ bytes' = bytes /\ named' = named /\ was' = was /\ unshown' = unshown /\ undone' = undone /\ st' = st /\ loaded' = loaded /\ writes' = writes
      /\ found' = found /\ failed' = failed /\ worker' = worker /\ answer' = answer
  BY DEF svars
<1>2. SnapType' /\ LoadFits(st, bytes.cells, bytes.stamp)' /\ LoadedAtOneMoment'
  BY <1>1 DEF SnapInv, SnapType, LoadFits, CopyFits, Had, TimesTell, IndexCopy, LoadedAtOneMoment
<1>3. NoneIsLeftOut' /\ SearchIsWhole' /\ (answer' = "result" => ~failed' /\ Joined')
  BY <1>1 DEF SnapInv, NoneIsLeftOut, Comes, SearchIsWhole, Joined, Busy
<1> QED BY <1>2, <1>3 DEF SnapInv

LEMMA SnapStep == SnapInv /\ [SNext]_svars => SnapInv'
<1> SUFFICES ASSUME SnapInv, [SNext]_svars PROVE SnapInv' OBVIOUS
<1>1. CASE UNCHANGED svars BY <1>1, SnapStillHolds
<1>2. CASE ForeignStore \/ ForeignReplace \/ Open \/ ReadHeader \/ Clone \/ CopyPortion
  BY <1>2, StoreStep, ReplaceStep, OpenStep, HeaderStep, CloneStep, CopyStep
<1>3. CASE ComparePortion \/ Check \/ Map \/ Publish BY <1>3, CompareStep, CheckStep, MapStep, PublishStep
<1>4. CASE \E w \in DOMAIN worker : SearchOne(w) BY <1>4, SearchStep
<1> QED BY <1>1, <1>2, <1>3, <1>4 DEF SNext

\* Whatever others write while the index or the weights are loaded, what the
\* loader keeps is what the file held at one moment if the times show the writes;
\* else the index has a header that the file had and the data of one moment,
\* unless a write undid another (CudaFlatIndex::load); and a search that answers
\* has the neighbours of every query, in whatever order its threads went.
THEOREM SnapshotsHold == SSpec => []SnapshotsAreWhole
<1>1. SnapInv => SnapshotsAreWhole BY DEF SnapInv, SnapshotsAreWhole
<1> QED BY <1>1, SnapInitInv, SnapStep, PTL DEF SSpec

----------------------------------------
(* The conversion: the invariant. *)

\* The cuts of the older conversion, up to each target and as a whole; and the
\* cores between cuts.
AllCuts == CutsByTarget(clip.n, clip.energy, Plan.chunk, Plan.query)
Whole == LongCuts(clip.n, clip.energy, Plan.chunk, Plan.query)
LastTarget == (clip.n - 1) \div Plan.chunk
Pairs(b) == [i \in 1..(Len(b) - 1) |-> <<b[i], b[i + 1]>>]

\* What has been checked where the conversion is.
Before == {"snapshot", "highpass", "f0"}
StageFits ==
    /\ source \in {"same", "changed"}
    /\ stage \in {"f0", "synthesis", "output", "commit"} => Plan.valid
    /\ stage \in {"highpass", "f0", "synthesis", "output", "commit"} => source = "same"
\* The spools.
SpoolsFit ==
    /\ frames \in Seq(Nat) /\ \A i \in DOMAIN frames : frames[i] = i - 1
    /\ planner.previous \in Nat /\ out = ToOutput(planner.previous)
    /\ stage \in Before => planner.previous = 0 /\ cores = <<>>
    /\ stage = "synthesis" => Len(frames) = TotalFrames
\* The planner stands at a cut of the older conversion, before a target that
\* conversion has not passed, or at the end of the clip.
AtCut == \E k \in 0..LastTarget :
    /\ planner.previous = Last(AllCuts[k]) /\ planner.target = (k + 1) * Plan.chunk /\ cores = Pairs(AllCuts[k])
AtEnd == planner.previous = clip.n /\ cores = Pairs(Whole)
CutsFit ==
    /\ cores \in Seq(Nat \X Nat)
    /\ stage = "synthesis" => AtCut \/ AtEnd
    /\ stage \in {"output", "commit"} => AtEnd
\* The models, the blocks and the target.
SegmentFits == segment \in Int /\ segment <= ContentMax
BlocksFit == DOMAIN spent \subseteq saved /\ NothingTwice
TargetFits == SuccessIsReplaced /\ TargetIsWhole /\ (outcome = "success" => stage = "ended")

ConversionInv ==
    clip \in Clips /\ StageFits /\ SpoolsFit /\ CutsFit /\ SegmentFits /\ BlocksFit /\ TargetFits

----------------------------------------
(* What a plan that is accepted means. *)

LEMMA Ratios == Context \in Nat /\ Up \in Nat \ {0} /\ Down \in Nat \ {0} /\ MaxStops \in Nat
  BY ConversionAssumption

LEMMA ClipSizes ==
    ASSUME NEW c \in Clips
    PROVE  /\ c.n \in Nat /\ c.chunk \in Nat /\ c.query \in Nat /\ c.pad \in Nat
           /\ \A f \in 0..(Frames(c.n) - 1) : c.energy[f] \in Nat
  BY ConversionAssumption

LEMMA PlanIs ==
    ASSUME clip \in Clips, Plan.valid
    PROVE  /\ Fits(clip.n, clip.energy, Plan.chunk, Plan.query)
           /\ Plan.pad \in Nat /\ Virtual \in Nat /\ Plan.hardCore \in Int /\ Plan.hardSegment \in Int
           /\ Plan.chunk + 2 * Plan.query <= Plan.hardCore
           /\ Plan.hardCore + 2 * Plan.pad + Hop <= Plan.hardSegment /\ Plan.hardSegment <= ContentMax
<1> DEFINE n == clip.n
           chunk == Max({clip.chunk, Hop})
           query == Max({clip.query, Hop})
           wide == Max({clip.pad, Hop})
           pad == Min({wide, n - 1})
           effective == Min({chunk, ContentMax - Overhead(query, pad)})
<1>1. /\ Plan.chunk = effective /\ Plan.query = query /\ Plan.pad = pad /\ Plan.hardCore = effective + 2 * query
      /\ Plan.hardSegment = effective + Overhead(query, pad)
      /\ Plan.valid = (/\ n >= 2 /\ Overhead(query, pad) < ContentMax /\ effective >= Hop
                       /\ effective + Overhead(query, pad) <= ContentMax)
  BY DEF Plan, ChunkPlan
<1>2. /\ n \in Nat /\ clip.chunk \in Nat /\ clip.query \in Nat /\ clip.pad \in Nat
      /\ Hop \in Nat \ {0} /\ ContentMax \in Nat
  BY ClipSizes, Sizes, Ratios
<1>3. n >= 2 /\ effective >= Hop /\ effective + Overhead(query, pad) <= ContentMax BY <1>1
<1>4. chunk \in Nat /\ query \in Nat /\ query >= Hop /\ wide \in Nat BY <1>2, MaxOfTwo
<1> HIDE DEF chunk, query, wide
<1>5. pad \in Nat BY <1>2, <1>3, <1>4, MinOfTwo
<1> HIDE DEF pad
<1>6. Overhead(query, pad) = 2 * query + 2 * pad + Hop /\ Overhead(query, pad) \in Int
  BY <1>2, <1>4, <1>5 DEF Overhead
<1>7. effective \in Int BY <1>2, <1>4, <1>6, MinOfTwo
<1> HIDE DEF effective
<1>8. Virtual \in Nat BY <1>1, <1>2, <1>5 DEF Virtual
<1>9. Fits(clip.n, clip.energy, Plan.chunk, Plan.query)
  <2>1. \A f \in 0..(Frames(clip.n) - 1) : clip.energy[f] \in Nat BY ClipSizes
  <2> QED BY <1>1, <1>2, <1>3, <1>4, <1>7, <2>1 DEF Fits
<1> QED BY <1>1, <1>2, <1>3, <1>4, <1>5, <1>6, <1>7, <1>8, <1>9

LEMMA OutputIs == ASSUME NEW s \in Nat PROVE ToOutput(s) \in Int
<1>1. s * Up \in Int /\ Down \in Nat \ {0} BY Sizes, Ratios
<1> QED BY <1>1, Divide DEF ToOutput

\* The cores between cuts, when one more is made.
LEMMA PairsAppend ==
    ASSUME NEW b \in Seq(Nat), Len(b) >= 1, NEW x \in Nat
    PROVE  Pairs(Append(b, x)) = Append(Pairs(b), <<Last(b), x>>) /\ Pairs(b) \in Seq(Nat \X Nat)
<1>1. Pairs(b) \in Seq(Nat \X Nat) /\ Len(Pairs(b)) = Len(b) - 1
  <2>1. \A i \in 1..(Len(b) - 1) : b[i] \in Nat /\ b[i + 1] \in Nat OBVIOUS
  <2> QED BY <2>1 DEF Pairs
<1>2. Len(Append(b, x)) = Len(b) + 1 OBVIOUS
<1>3. Len(Append(Pairs(b), <<Last(b), x>>)) = Len(b) /\ Append(Pairs(b), <<Last(b), x>>) \in Seq(Nat \X Nat)
  <2>1. <<Last(b), x>> \in Nat \X Nat BY DEF Last
  <2> QED BY <1>1, <2>1
<1>4. ASSUME NEW i \in 1..Len(b)
      PROVE  Append(Pairs(b), <<Last(b), x>>)[i] = <<Append(b, x)[i], Append(b, x)[i + 1]>>
  <2>1. CASE i < Len(b)
    <3>1. Append(Pairs(b), <<Last(b), x>>)[i] = Pairs(b)[i] BY <1>1, <2>1
    <3>2. Pairs(b)[i] = <<b[i], b[i + 1]>> BY <2>1, SMTT(30) DEF Pairs
    <3>3. Append(b, x)[i] = b[i] /\ Append(b, x)[i + 1] = b[i + 1] BY <2>1
    <3> QED BY <3>1, <3>2, <3>3
  <2>2. CASE i = Len(b)
    <3>1. Append(Pairs(b), <<Last(b), x>>)[i] = <<Last(b), x>> BY <1>1, <2>2
    <3>2. Append(b, x)[i] = Last(b) /\ Append(b, x)[i + 1] = x BY <2>2 DEF Last
    <3> QED BY <3>1, <3>2
  <2>3. i < Len(b) \/ i = Len(b) OBVIOUS
  <2> QED BY <2>1, <2>2, <2>3
<1>5. Pairs(Append(b, x)) = [i \in 1..Len(b) |-> <<Append(b, x)[i], Append(b, x)[i + 1]>>] BY <1>2 DEF Pairs
<1>6. DOMAIN Append(Pairs(b), <<Last(b), x>>) = 1..Len(b) BY <1>3
<1>7. Append(Pairs(b), <<Last(b), x>>) = [i \in 1..Len(b) |-> Append(Pairs(b), <<Last(b), x>>)[i]]
  BY <1>3, <1>6
<1> QED BY <1>1, <1>4, <1>5, <1>7

\* The conversion never changes its clip, nor what follows from it.
LEMMA ClipStays ==
    ASSUME UNCHANGED clip
    PROVE  Plan' = Plan /\ Virtual' = Virtual /\ TotalFrames' = TotalFrames /\ AllCuts' = AllCuts /\ Whole' = Whole
           /\ LastTarget' = LastTarget
<1>1. Plan' = Plan BY DEF Plan
<1>2. Virtual' = Virtual BY <1>1 DEF Virtual
<1> QED BY <1>1, <1>2 DEF TotalFrames, AllCuts, Whole, LastTarget
----------------------------------------
(* Steps that leave the spools and the cores alone. *)

LEMMA PlaceStays ==
    ASSUME UNCHANGED <<clip, progress>> PROVE (AtCut' <=> AtCut) /\ (AtEnd' <=> AtEnd)
<1>1. planner' = planner /\ cores' = cores /\ clip' = clip BY DEF progress
<1>2. AllCuts' = AllCuts /\ Whole' = Whole /\ LastTarget' = LastTarget /\ Plan' = Plan BY <1>1, ClipStays
<1> QED BY <1>1, <1>2 DEF AtCut, AtEnd

LEMMA ProgressStays ==
    ASSUME UNCHANGED <<clip, progress>>, SpoolsFit, CutsFit, SegmentFits,
           stage' \in Before => stage \in Before,
           stage' = "synthesis" => stage = "synthesis",
           stage' \in {"output", "commit"} => stage \in {"output", "commit"} \/ AtEnd
    PROVE  SpoolsFit' /\ CutsFit' /\ SegmentFits'
<1>1. clip' = clip /\ frames' = frames /\ planner' = planner /\ out' = out /\ cores' = cores /\ segment' = segment
  BY DEF progress
<1>2. TotalFrames' = TotalFrames BY <1>1, ClipStays
<1>3. SpoolsFit' BY <1>1, <1>2 DEF SpoolsFit, Before, ToOutput
<1>4. CutsFit' BY <1>1, PlaceStays DEF CutsFit
<1>5. SegmentFits' BY <1>1 DEF SegmentFits
<1> QED BY <1>3, <1>4, <1>5

LEMMA BlocksStay == ASSUME UNCHANGED <<saved, spent>>, BlocksFit PROVE BlocksFit'
  BY DEF BlocksFit, NothingTwice

\* As long as nothing is renamed, the target stays as it was.
LEMMA TargetStays ==
    ASSUME UNCHANGED <<clip, target>>, TargetFits,
           (outcome' = outcome /\ stage' = stage) \/ (stage # "ended" /\ outcome' # "success")
           \/ (outcome # "success" /\ outcome' # "success")
    PROVE  TargetFits'
<1>1. Whole' = Whole BY ClipStays
<1>2. (outcome' = "success") = (target' # <<>>) /\ (outcome' = "success" => stage' = "ended")
  BY DEF TargetFits, SuccessIsReplaced
<1>3. TargetIsWhole' BY <1>1 DEF TargetFits, TargetIsWhole, Whole
<1> QED BY <1>2, <1>3 DEF TargetFits, SuccessIsReplaced

LEMMA QuietStep ==
    ASSUME ConversionInv,
           InitPipeline \/ SourceChanges \/ Snapshot \/ WriteOutput \/ FailRun \/ Pause \/ Die \/ Resume
    PROVE  ConversionInv'
<1> USE DEF ConversionInv, InitPipeline, SourceChanges, Snapshot, WriteOutput, FailRun, Pause, Die, Resume,
        EndRun, Working
<1>1. UNCHANGED <<clip, progress, target, saved, spent>> BY Zenon
<1>2. clip' \in Clips BY <1>1
<1>3. StageFits'
  <2>1. stage' \in {"f0", "synthesis", "output", "commit"} => stage \in {"f0", "synthesis", "output", "commit"}
    OBVIOUS
  <2>2. stage' \in {"highpass", "f0", "synthesis", "output", "commit"} => source' = "same"
    <3>1. /\ source \in {"same", "changed"}
          /\ (stage \in {"highpass", "f0", "synthesis", "output", "commit"} => source = "same")
      BY DEF StageFits
    <3> HIDE DEF ConversionInv
    <3> QED BY <3>1
  <2>3. source' \in {"same", "changed"} BY DEF StageFits
  <2>4. Plan' = Plan BY <1>1, ClipStays
  <2> QED BY <2>1, <2>2, <2>3, <2>4 DEF StageFits
<1>4. stage' \in Before => stage \in Before BY DEF Before
<1>5. stage' = "synthesis" => stage = "synthesis" OBVIOUS
<1>6. stage' \in {"output", "commit"} => stage \in {"output", "commit"} OBVIOUS
<1>7. SpoolsFit' /\ CutsFit' /\ SegmentFits' BY <1>1, <1>4, <1>5, <1>6, ProgressStays
<1>8. BlocksFit' BY <1>1, BlocksStay
<1>9. (outcome' = outcome /\ stage' = stage) \/ (stage # "ended" /\ outcome' # "success")
      \/ (outcome # "success" /\ outcome' # "success")
  BY DEF TargetFits
<1>10. TargetFits' BY <1>1, <1>9, TargetStays
<1> QED BY <1>2, <1>3, <1>7, <1>8, <1>10

LEMMA HighpassStep == ASSUME ConversionInv, Highpass PROVE ConversionInv'
<1> USE DEF ConversionInv, Highpass, EndRun
<1>1. UNCHANGED <<clip, source, progress, target, saved, spent>> BY Zenon
<1>2. StageFits'
  <2>1. Plan' = Plan BY <1>1, ClipStays
  <2> QED BY <1>1, <2>1 DEF StageFits
<1>3. SpoolsFit' /\ CutsFit' /\ SegmentFits' BY <1>1, ProgressStays DEF Before
<1>4. BlocksFit' BY <1>1, BlocksStay
<1>5. TargetFits'
  <2>1. outcome # "success" /\ outcome' # "success" BY DEF TargetFits
  <2> QED BY <1>1, <2>1, TargetStays
<1> QED BY <1>1, <1>2, <1>3, <1>4, <1>5

LEMMA SynthesisDoneStep == ASSUME ConversionInv, SynthesisDone PROVE ConversionInv'
<1> USE DEF ConversionInv, SynthesisDone, EndRun
<1>1. UNCHANGED <<clip, source, progress, target, saved, spent>> BY Zenon
<1>2. StageFits'
  <2>1. Plan' = Plan BY <1>1, ClipStays
  <2> QED BY <1>1, <2>1 DEF StageFits
<1>3. AtEnd
  <2> SUFFICES ASSUME AtCut PROVE FALSE BY DEF CutsFit
  <2>1. Plan.valid BY DEF StageFits
  <2>2. PICK k \in 0..LastTarget : planner.previous = Last(AllCuts[k]) BY DEF AtCut
  <2>3. Fits(clip.n, clip.energy, Plan.chunk, Plan.query) BY <2>1, PlanIs
  <2>4. CutsLie(clip.n, Plan.chunk, Plan.query, k, AllCuts[k]) BY <2>3, CutsForm DEF AllCuts, LastTarget
  <2>5. planner.previous \in 0..(clip.n - 1) /\ clip.n \in Nat BY <2>2, <2>4, ClipSizes DEF CutsLie
  <2> QED BY <2>5
<1>4. SpoolsFit' /\ CutsFit' /\ SegmentFits' BY <1>1, <1>3, ProgressStays DEF Before
<1>5. BlocksFit' BY <1>1, BlocksStay
<1>6. TargetFits'
  <2>1. outcome # "success" /\ outcome' # "success" BY DEF TargetFits
  <2> QED BY <1>1, <2>1, TargetStays
<1> QED BY <1>1, <1>2, <1>4, <1>5, <1>6
----------------------------------------
(* Steps that work on the spools. *)

LEMMA StartRunStep == ASSUME ConversionInv, StartRun PROVE ConversionInv'
<1> USE DEF ConversionInv
<1>1. CASE clip.n < 2
  <2>1. /\ UNCHANGED <<clip, progress, target, saved, spent>> /\ stage = "idle"
        /\ source' = "same" /\ stage' = "ended" /\ outcome' = "failed"
    BY <1>1 DEF StartRun, EndRun
  <2>2. StageFits' BY <2>1 DEF StageFits
  <2>3. SpoolsFit' /\ CutsFit' /\ SegmentFits' BY <2>1, ProgressStays DEF Before
  <2>4. BlocksFit' /\ TargetFits' BY <2>1, BlocksStay, TargetStays DEF TargetFits
  <2> QED BY <2>1, <2>2, <2>3, <2>4
<1>2. CASE ~(clip.n < 2)
  <2>1. /\ UNCHANGED <<clip, target, saved, spent>> /\ source' = "same" /\ stage' = "snapshot" /\ outcome' = "none"
        /\ stage = "idle"
        /\ frames' = <<>> /\ planner' = [previous |-> 0, target |-> 0] /\ out' = 0 /\ cores' = <<>> /\ segment' = 0
    BY <1>2 DEF StartRun
  <2>2. StageFits' BY <2>1 DEF StageFits
  <2>3. SpoolsFit'
    <3>1. ToOutput(0) = 0
      <4>1. 0 * Up = 0 /\ 0 \div Down = 0 BY Sizes, Ratios
      <4> QED BY <4>1 DEF ToOutput
    <3>2. <<>> \in Seq(Nat) /\ DOMAIN <<>> = {} OBVIOUS
    <3>3. frames' \in Seq(Nat) /\ \A i \in DOMAIN frames' : frames'[i] = i - 1 BY <2>1, <3>2
    <3>4. planner'.previous = 0 /\ out' = ToOutput(0) BY <2>1, <3>1
    <3> QED BY <2>1, <3>3, <3>4 DEF SpoolsFit, ToOutput
  <2>4. CutsFit' /\ SegmentFits' BY <2>1, Sizes, Ratios DEF CutsFit, SegmentFits
  <2>5. BlocksFit' /\ TargetFits' BY <2>1, BlocksStay, TargetStays DEF TargetFits
  <2> QED BY <2>1, <2>2, <2>3, <2>4, <2>5
<1> QED BY <1>1, <1>2

\* Saving a block that was not saved.
LEMMA BlockSaved == ASSUME BlocksFit, NEW b, LoadOrCompute(b) PROVE BlocksFit'
<1>1. CASE b \in saved BY <1>1, BlocksStay DEF LoadOrCompute
<1>2. CASE b \notin saved
  <2>1. saved' = saved \cup {b} /\ b \notin DOMAIN spent /\ DOMAIN spent \subseteq saved
    BY <1>2 DEF LoadOrCompute, BlocksFit
  <2>2. spent' = [k \in DOMAIN spent \cup {b} |-> (IF k \in DOMAIN spent THEN spent[k] ELSE 0)
                                               + (IF k = b THEN 1 ELSE 0)]
    BY <1>2 DEF LoadOrCompute, Spend
  <2>3. ASSUME NEW k \in DOMAIN spent \cup {b} PROVE spent'[k] = 1
    <3>1. CASE k = b BY <2>1, <2>2, <3>1
    <3>2. CASE k # b
      <4>1. k \in DOMAIN spent /\ spent[k] = 1 BY <3>2 DEF BlocksFit, NothingTwice
      <4> QED BY <2>2, <3>2, <4>1
    <3> QED BY <3>1, <3>2
  <2>4. DOMAIN spent' = DOMAIN spent \cup {b} BY <2>2
  <2> QED BY <2>1, <2>3, <2>4 DEF BlocksFit, NothingTwice
<1> QED BY <1>1, <1>2

\* A window of the pitch extractor begins where the frames end.
LEMMA WindowIs ==
    ASSUME NEW total \in Nat, NEW first \in Nat, first < total \div Hop + 1,
           NEW p, p = PlanF0Window(total, first, Context)
    PROVE  /\ p.count \in Nat /\ first + p.count <= total \div Hop + 1
           /\ p.start \div Hop \in Int /\ p.crop = first - p.start \div Hop
<1> DEFINE fs == total \div Hop + 1
           count == Min({F0Core \div Hop, fs - first})
           start == IF first * Hop > Context THEN first * Hop - Context ELSE 0
<1>1. p.count = count /\ p.start = start /\ p.crop = first - start \div Hop BY DEF PlanF0Window
<1>2. Hop \in Nat \ {0} /\ Context \in Nat /\ F0Core \in Nat /\ fs \in Int BY Sizes, Ratios, Divide
<1>3. F0Core \div Hop \in Int /\ 0 <= F0Core \div Hop
  <2>1. 0 * Hop <= F0Core BY <1>2
  <2>2. F0Core \div Hop \in Int BY <1>2, Divide
  <2> QED BY <1>2, <2>1, <2>2, QuotientAbove
<1> HIDE DEF fs
<1>4. first < fs BY DEF fs
<1>5. count \in Nat /\ first + count <= fs BY <1>2, <1>3, <1>4, MinOfTwo
<1>6. start \in Int BY <1>2
<1> HIDE DEF start, count
<1>7. start \div Hop \in Int BY <1>2, <1>6, Divide
<1> QED BY <1>1, <1>5, <1>7 DEF fs

LEMMA F0WindowStep == ASSUME ConversionInv, F0Window PROVE ConversionInv'
<1> USE DEF ConversionInv
<1> DEFINE p == PlanF0Window(Virtual, Len(frames), Context)
<1>1. /\ stage = "f0" /\ Len(frames) < TotalFrames
      /\ UNCHANGED <<clip, source, planner, out, cores, segment, target>>
  BY DEF F0Window
<1>2. Plan.valid /\ outcome # "success" BY <1>1 DEF StageFits, TargetFits
<1>3. CASE ~p.valid
  <2>1. stage' = "ended" /\ outcome' = "failed" /\ UNCHANGED <<frames, saved, spent>>
    BY <1>3 DEF F0Window, EndRun
  <2>2. UNCHANGED <<clip, progress>> BY <1>1, <2>1 DEF progress
  <2>3. StageFits' BY <1>1, <2>1 DEF StageFits
  <2>4. SpoolsFit' /\ CutsFit' /\ SegmentFits' BY <2>1, <2>2, ProgressStays DEF Before
  <2>5. BlocksFit' /\ TargetFits' BY <1>1, <1>2, <2>1, BlocksStay, TargetStays
  <2> QED BY <1>1, <2>3, <2>4, <2>5
<1>4. CASE p.valid
  <2>1. /\ frames' = frames \o Crop(p) /\ LoadOrCompute(Stretch("f0", p.first, p.count))
        /\ UNCHANGED <<stage, outcome, staging>>
    BY <1>4 DEF F0Window
  <2>2. Len(frames) \in Nat /\ frames \in Seq(Nat) /\ Virtual \in Nat BY <1>2, PlanIs DEF SpoolsFit
  <2>3. /\ p.count \in Nat /\ p.start \div Hop \in Int /\ p.crop = Len(frames) - p.start \div Hop
    BY <1>1, <2>2, WindowIs DEF TotalFrames
  <2> HIDE DEF p
  <2>4. Crop(p) = [j \in 1..p.count |-> Len(frames) + j - 1] BY <2>2, <2>3 DEF Crop
  <2>5. Crop(p) \in Seq(Nat) /\ Len(Crop(p)) = p.count
    <3>1. \A j \in 1..p.count : Len(frames) + j - 1 \in Nat BY <2>2, <2>3
    <3> QED BY <2>3, <2>4, <3>1
  <2>6. frames' \in Seq(Nat) /\ DOMAIN frames' = 1..(Len(frames) + p.count) BY <2>1, <2>2, <2>5
  <2>7. ASSUME NEW i \in DOMAIN frames' PROVE frames'[i] = i - 1
    <3>1. CASE i <= Len(frames)
      <4>1. i \in DOMAIN frames /\ frames'[i] = frames[i] BY <2>1, <2>2, <2>5, <2>6, <3>1
      <4> QED BY <4>1 DEF SpoolsFit
    <3>2. CASE i > Len(frames)
      <4>1. i - Len(frames) \in 1..p.count /\ frames'[i] = Crop(p)[i - Len(frames)]
        BY <2>1, <2>2, <2>3, <2>5, <2>6, <3>2, SMTT(30)
      <4>2. Crop(p)[i - Len(frames)] = Len(frames) + (i - Len(frames)) - 1 BY <2>4, <4>1
      <4> QED BY <2>2, <2>6, <4>1, <4>2
    <3> QED BY <2>2, <2>6, <3>1, <3>2
  <2>8. SpoolsFit' BY <1>1, <2>1, <2>6, <2>7 DEF SpoolsFit, Before, ToOutput
  <2>9. StageFits'
    <3>1. Plan' = Plan BY <1>1, ClipStays
    <3> QED BY <1>1, <2>1, <3>1 DEF StageFits
  <2>10. CutsFit' /\ SegmentFits' BY <1>1, <2>1 DEF CutsFit, SegmentFits
  <2>11. BlocksFit' /\ TargetFits' BY <1>1, <2>1, BlockSaved, TargetStays
  <2> QED BY <1>1, <2>8, <2>9, <2>10, <2>11
<1> QED BY <1>3, <1>4

LEMMA CurveStep == ASSUME ConversionInv, Curve PROVE ConversionInv'
<1> USE DEF ConversionInv
<1>1. /\ stage = "f0" /\ UNCHANGED <<clip, source, frames, out, cores, segment, target, saved, spent>>
  BY DEF Curve
<1>2. Plan.valid /\ outcome # "success" /\ cores = <<>> /\ planner.previous = 0
  BY <1>1 DEF StageFits, TargetFits, SpoolsFit, Before
<1>3. CASE Len(frames) # TotalFrames
  <2>1. stage' = "ended" /\ outcome' = "failed" /\ UNCHANGED planner BY <1>3 DEF Curve, EndRun
  <2>2. UNCHANGED <<clip, progress>> BY <1>1, <2>1 DEF progress
  <2>3. StageFits' BY <1>1, <2>1 DEF StageFits
  <2>4. SpoolsFit' /\ CutsFit' /\ SegmentFits' BY <2>1, <2>2, ProgressStays DEF Before
  <2>5. BlocksFit' /\ TargetFits' BY <1>1, <1>2, <2>1, BlocksStay, TargetStays
  <2> QED BY <1>1, <2>3, <2>4, <2>5
<1>4. CASE Len(frames) = TotalFrames
  <2>1. stage' = "synthesis" /\ planner' = [previous |-> 0, target |-> Plan.chunk] /\ UNCHANGED <<outcome, staging>>
    BY <1>4 DEF Curve
  <2>2. Plan' = Plan /\ TotalFrames' = TotalFrames /\ AllCuts' = AllCuts /\ LastTarget' = LastTarget
    BY <1>1, ClipStays
  <2>3. Fits(clip.n, clip.energy, Plan.chunk, Plan.query) BY <1>2, PlanIs
  <2>4. SpoolsFit' BY <1>1, <1>2, <1>4, <2>1, <2>2 DEF SpoolsFit, Before, ToOutput
  <2>5. AtCut'
    <3>1. AllCuts[0] = <<0>> /\ 0 \in 0..LastTarget BY <2>3, CutsSteps, TargetsLie DEF AllCuts, LastTarget
    <3>2. Last(<<0>>) = 0 /\ Pairs(<<0>>) = <<>> BY DEF Last, Pairs
    <3>3. (0 + 1) * Plan.chunk = Plan.chunk BY <2>3 DEF Fits
    <3>4. planner'.previous = Last(AllCuts[0]) /\ planner'.target = (0 + 1) * Plan.chunk /\ cores' = Pairs(AllCuts[0])
      BY <1>1, <1>2, <2>1, <3>1, <3>2, <3>3
    <3> QED BY <2>2, <3>1, <3>4 DEF AtCut
  <2>6. CutsFit' /\ SegmentFits' BY <1>1, <2>1, <2>5 DEF CutsFit, SegmentFits
  <2>7. StageFits' BY <1>1, <1>2, <2>1, <2>2 DEF StageFits
  <2>8. BlocksFit' /\ TargetFits' BY <1>1, <1>2, <2>1, BlocksStay, TargetStays
  <2> QED BY <1>1, <2>4, <2>6, <2>7, <2>8
<1> QED BY <1>3, <1>4
\* The next core is the one the older conversion cuts.
LEMMA NextCoreFits ==
    ASSUME ConversionInv, stage = "synthesis", planner.previous < clip.n,
           NEW core, core = NextSegment.core
    PROVE  /\ core.end \in (planner.previous + 1)..clip.n
           /\ Append(cores, <<planner.previous, core.end>>) \in Seq(Nat \X Nat)
           /\ \/ core.end = clip.n /\ Append(cores, <<planner.previous, core.end>>) = Pairs(Whole)
              \/ \E m \in 0..LastTarget :
                   /\ core.end = Last(AllCuts[m]) /\ core.target = (m + 1) * Plan.chunk
                   /\ Append(cores, <<planner.previous, core.end>>) = Pairs(AllCuts[m])
           /\ Plan.query % Hop = 0 /\ Plan.chunk % Hop = 0 => ~core.fails
<1> USE DEF ConversionInv
<1> DEFINE n == clip.n
           c == Plan.chunk
           q == Plan.query
           end == core.end
<1>1. Plan.valid BY DEF StageFits
<1>2. Fits(n, clip.energy, c, q) /\ Plan.hardCore \in Int /\ c + 2 * q <= Plan.hardCore BY <1>1, PlanIs
<1>3. n \in Nat /\ planner.previous \in Nat BY ClipSizes DEF SpoolsFit
<1>4. PICK k \in 0..LastTarget :
        planner.previous = Last(AllCuts[k]) /\ planner.target = (k + 1) * c /\ cores = Pairs(AllCuts[k])
  <2>1. ~AtEnd BY <1>3 DEF AtEnd
  <2>2. AtCut BY <2>1 DEF CutsFit
  <2> QED BY <2>2 DEF AtCut
<1> DEFINE b == AllCuts[k]
<1>5. core = NextCore(n, clip.energy, c, q, Plan.hardCore, Last(b), (k + 1) * c) BY <1>4 DEF NextSegment
<1>6. LastTarget \in Nat /\ LastTarget = (n - 1) \div c /\ AllCuts = CutsByTarget(n, clip.energy, c, q)
  BY <1>2, TargetsLie DEF LastTarget, AllCuts
<1>7. b \in Seq(Nat) /\ Len(b) >= 1 BY <1>2, <1>4, <1>6, CutsForm DEF CutsLie
<1>8. /\ end \in (Last(b) + 1)..n
      /\ \/ end = n /\ AllCuts[LastTarget] = b
         \/ \E m \in (k + 1)..LastTarget : core.target = (m + 1) * c /\ AllCuts[m] = Append(b, end)
      /\ c % Hop = 0 /\ q % Hop = 0 => ~core.fails
  <2> DEFINE cuts == CutsByTarget(n, clip.energy, c, q)
             K == (n - 1) \div c
             e == clip.energy
             hard == Plan.hardCore
  <2>1. k \in 0..K /\ b = cuts[k] /\ AllCuts = cuts /\ LastTarget = K BY <1>4, <1>6
  <2>2. /\ core = NextCore(n, e, c, q, hard, Last(b), (k + 1) * c)
        /\ Fits(n, e, c, q) /\ hard \in Int /\ c + 2 * q <= hard
    BY <1>2, <1>5
  <2> HIDE DEF n, c, q, b, e, hard, ConversionInv
  <2>3. k \in 0..((n - 1) \div c) /\ b = CutsByTarget(n, e, c, q)[k] BY <2>1 DEF e
  <2>4. CoreIsCut(n, e, c, q, hard, k, b, core) BY <2>2, <2>3, NextCoreIs
  <2> QED BY <2>1, <2>2, <2>4 DEF CoreIsCut, cuts, K, e
<1> HIDE DEF b, end
<1>9. end \in Nat BY <1>3, <1>4, <1>8 DEF b
<1>10. Pairs(Append(b, end)) = Append(cores, <<planner.previous, end>>) /\ cores \in Seq(Nat \X Nat)
  BY <1>4, <1>7, <1>9, PairsAppend DEF b
<1>11. Append(cores, <<planner.previous, end>>) \in Seq(Nat \X Nat) BY <1>3, <1>9, <1>10
<1>12. Last(Append(b, end)) = end BY <1>7, <1>9 DEF Last
<1>13. CASE end = n /\ AllCuts[LastTarget] = b
  <2>1. Whole = Append(b, end) BY <1>6, <1>13 DEF Whole, LongCuts
  <2> QED BY <1>4, <1>8, <1>10, <1>11, <1>13, <2>1 DEF b, end
<1>14. ASSUME NEW m \in (k + 1)..LastTarget, core.target = (m + 1) * c, AllCuts[m] = Append(b, end)
       PROVE  \E mm \in 0..LastTarget :
                   /\ core.end = Last(AllCuts[mm]) /\ core.target = (mm + 1) * Plan.chunk
                   /\ Append(cores, <<planner.previous, core.end>>) = Pairs(AllCuts[mm])
  <2>1. m \in 0..LastTarget BY <1>4, <1>6
  <2>2. end = Last(AllCuts[m]) /\ Append(cores, <<planner.previous, end>>) = Pairs(AllCuts[m])
    BY <1>10, <1>12, <1>14
  <2> QED BY <1>14, <2>1, <2>2 DEF end
<1> QED BY <1>4, <1>8, <1>11, <1>13, <1>14 DEF b, end

\* A segment holds no more than its core, the context and a hop.
LEMMA NextSegmentFits ==
    ASSUME ConversionInv, stage = "synthesis", planner.previous < clip.n, ~NextSegment.core.fails
    PROVE  NextSegment.last - planner.previous \in Int /\ NextSegment.last - planner.previous <= Plan.hardSegment
<1> USE DEF ConversionInv
<1> DEFINE core == NextSegment.core
<1>1. Plan.valid BY DEF StageFits
<1>2. /\ Virtual \in Nat /\ Plan.pad \in Nat /\ Plan.hardCore \in Int /\ Plan.hardSegment \in Int
      /\ Plan.hardCore + 2 * Plan.pad + Hop <= Plan.hardSegment /\ Hop \in Nat
  BY <1>1, PlanIs, Sizes, Ratios
<1>3. core.end \in (planner.previous + 1)..clip.n /\ clip.n \in Nat /\ planner.previous \in Nat
  BY NextCoreFits, ClipSizes DEF SpoolsFit
<1>4. NextSegment.last = Min({Virtual, core.end + 2 * Plan.pad + Hop}) BY DEF NextSegment
<1>5. core.end - planner.previous <= Plan.hardCore
  <2>1. ~(core.end - planner.previous > Plan.hardCore) BY DEF NextSegment, NextCore
  <2> HIDE DEF core
  <2> QED BY <1>2, <1>3, <2>1
<1> HIDE DEF core
<1>6. NextSegment.last \in Int /\ NextSegment.last <= core.end + 2 * Plan.pad + Hop
  BY <1>2, <1>3, <1>4, MinOfTwo
<1> QED BY <1>2, <1>3, <1>5, <1>6

LEMMA CoreStep == ASSUME ConversionInv, Core PROVE ConversionInv'
<1> USE DEF ConversionInv
<1> DEFINE core == NextSegment.core
           start == planner.previous
           block == Stretch("synth", start, ToOutput(core.end) - ToOutput(start))
<1>1. stage = "synthesis" /\ start < clip.n /\ UNCHANGED <<clip, source, frames, target>> BY DEF Core
<1>2. Plan.valid /\ outcome # "success" /\ Plan' = Plan /\ TotalFrames' = TotalFrames /\ AllCuts' = AllCuts
      /\ Whole' = Whole /\ LastTarget' = LastTarget
  BY <1>1, ClipStays DEF StageFits, TargetFits
<1>3. CASE EndRun("failed") /\ UNCHANGED <<planner, out, cores, segment, saved, spent>>
  <2>1. stage' = "ended" /\ outcome' = "failed" /\ UNCHANGED <<clip, progress>>
    BY <1>1, <1>3 DEF EndRun, progress
  <2>2. StageFits' BY <1>1, <2>1 DEF StageFits
  <2>3. SpoolsFit' /\ CutsFit' /\ SegmentFits' BY <2>1, ProgressStays DEF Before
  <2>4. BlocksFit' /\ TargetFits' BY <1>1, <1>2, <1>3, <2>1, BlocksStay, TargetStays
  <2> QED BY <1>1, <2>2, <2>3, <2>4
<1>4. CASE /\ ~core.fails /\ out = ToOutput(start)
           /\ planner' = [previous |-> core.end, target |-> core.target]
           /\ cores' = Append(cores, <<start, core.end>>)
           /\ LoadOrCompute(block)
           /\ IF block \in saved THEN out' = out + block.count /\ UNCHANGED segment
              ELSE segment' = NextSegment.last - start
                   /\ \E piece \in {block.count - 1, block.count, block.count + 1} :
                          out' = out + CoreSamples(start, core.end, piece)
           /\ UNCHANGED <<stage, outcome, staging>>
  <2>1. /\ core.end \in (planner.previous + 1)..clip.n
        /\ cores' \in Seq(Nat \X Nat)
        /\ \/ core.end = clip.n /\ cores' = Pairs(Whole)
           \/ \E m \in 0..LastTarget :
                core.end = Last(AllCuts[m]) /\ core.target = (m + 1) * Plan.chunk /\ cores' = Pairs(AllCuts[m])
    BY <1>1, <1>4, NextCoreFits
  <2>2. start \in Nat /\ core.end \in Nat /\ ToOutput(start) \in Int /\ ToOutput(core.end) \in Int
    <3>1. start \in Nat /\ core.end \in Nat BY <2>1, ClipSizes DEF SpoolsFit
    <3> QED BY <3>1, OutputIs
  <2>3. block.count = ToOutput(core.end) - ToOutput(start) BY DEF Stretch
  <2>4. out' = ToOutput(core.end)
    <3>1. CASE block \in saved
      <4>1. out' = out + block.count BY <1>4, <3>1
      <4> HIDE DEF block, core, start
      <4> QED BY <1>4, <2>2, <2>3, <4>1
    <3>2. CASE block \notin saved
      <4>1. PICK piece \in {block.count - 1, block.count, block.count + 1} :
               out' = out + CoreSamples(start, core.end, piece)
        BY <1>4, <3>2
      <4> HIDE DEF block, core, start
      <4>2. Min({ToOutput(core.end) - ToOutput(start), piece}) \in Int BY <2>2, <2>3, MinOfTwo
      <4>3. CoreSamples(start, core.end, piece) = ToOutput(core.end) - ToOutput(start)
        BY <2>2, <4>2 DEF CoreSamples
      <4> QED BY <1>4, <2>2, <4>1, <4>3
    <3> QED BY <3>1, <3>2
  <2>5. SegmentFits'
    <3>1. NextSegment.last - start \in Int /\ NextSegment.last - start <= ContentMax
      <4>1. NextSegment.last - start \in Int /\ NextSegment.last - start <= Plan.hardSegment
        BY <1>1, <1>4, NextSegmentFits
      <4>2. Plan.hardSegment \in Int /\ Plan.hardSegment <= ContentMax /\ ContentMax \in Int
        BY <1>2, PlanIs, Sizes, Ratios
      <4> QED BY <4>1, <4>2
    <3>2. segment' = segment \/ segment' = NextSegment.last - start BY <1>4
    <3> QED BY <3>1, <3>2 DEF SegmentFits
  <2>6. SpoolsFit'
    <3>1. planner'.previous = core.end BY <1>4
    <3>2. stage' = "synthesis" BY <1>1, <1>4
    <3> HIDE DEF core, start
    <3> QED BY <1>1, <1>2, <2>2, <2>4, <3>1, <3>2 DEF SpoolsFit, Before, ToOutput
  <2>7. CutsFit'
    <3>1. planner'.previous = core.end /\ planner'.target = core.target /\ stage' = "synthesis" BY <1>1, <1>4
    <3> HIDE DEF core, start
    <3>2. AtCut' \/ AtEnd' BY <1>1, <1>2, <2>1, <3>1 DEF AtCut, AtEnd
    <3> QED BY <2>1, <3>1, <3>2 DEF CutsFit
  <2>8. StageFits' BY <1>1, <1>2, <1>4 DEF StageFits
  <2>9. BlocksFit' BY <1>4, BlockSaved
  <2>10. TargetFits' BY <1>1, <1>2, <1>4, TargetStays
  <2> QED BY <1>1, <2>5, <2>6, <2>7, <2>8, <2>9, <2>10
<1>5. \/ EndRun("failed") /\ UNCHANGED <<planner, out, cores, segment, saved, spent>>
      \/ /\ ~core.fails /\ out = ToOutput(start)
         /\ planner' = [previous |-> core.end, target |-> core.target]
         /\ cores' = Append(cores, <<start, core.end>>)
         /\ LoadOrCompute(block)
         /\ IF block \in saved THEN out' = out + block.count /\ UNCHANGED segment
            ELSE segment' = NextSegment.last - start
                 /\ \E piece \in {block.count - 1, block.count, block.count + 1} :
                        out' = out + CoreSamples(start, core.end, piece)
         /\ UNCHANGED <<stage, outcome, staging>>
  BY Zenon DEF Core
<1> QED BY <1>3, <1>4, <1>5

\* What is renamed onto the target is the whole clip.
LEMMA CommitStep == ASSUME ConversionInv, Commit PROVE ConversionInv'
<1> USE DEF ConversionInv
<1>1. stage = "commit" /\ stage' = "ended" /\ UNCHANGED <<clip, source, progress, saved, spent>>
  BY DEF Commit, EndRun
<1>2. Plan.valid /\ outcome # "success" /\ AtEnd BY <1>1 DEF StageFits, TargetFits, CutsFit
<1>3. (outcome' = "success" /\ target' = cores) \/ (outcome' = "failed" /\ UNCHANGED target)
  BY DEF Commit, EndRun, Report
<1>4. StageFits' BY <1>1 DEF StageFits
<1>5. SpoolsFit' /\ CutsFit' /\ SegmentFits' /\ BlocksFit' BY <1>1, ProgressStays, BlocksStay DEF Before
<1>6. TargetFits'
  <2>1. CASE outcome' = "failed" /\ UNCHANGED target BY <1>1, <1>2, <2>1, TargetStays
  <2>2. CASE outcome' = "success" /\ target' = cores
    <3>1. target' = Pairs(Whole) /\ Whole' = Whole BY <1>1, <1>2, <2>2, ClipStays DEF AtEnd
    <3>2. Whole \in Seq(Nat) /\ Len(Whole) >= 2
      <4>1. Fits(clip.n, clip.energy, Plan.chunk, Plan.query) /\ clip.n \in Nat BY <1>2, PlanIs, ClipSizes
      <4>2. LastTarget \in Nat BY <4>1, TargetsLie DEF LastTarget
      <4>3. CutsLie(clip.n, Plan.chunk, Plan.query, LastTarget, AllCuts[LastTarget])
        BY <4>1, <4>2, CutsForm DEF LastTarget, AllCuts
      <4>4. AllCuts[LastTarget] \in Seq(Nat) /\ Len(AllCuts[LastTarget]) >= 1 BY <4>3 DEF CutsLie
      <4>5. Whole = Append(AllCuts[LastTarget], clip.n) BY DEF Whole, LongCuts, AllCuts, LastTarget
      <4> QED BY <4>1, <4>4, <4>5
    <3>3. Len(Pairs(Whole)) = Len(Whole) - 1
      <4>1. Len(Whole) - 1 \in Nat BY <3>2
      <4> HIDE DEF Whole
      <4> QED BY <4>1 DEF Pairs
    <3>4. target' # <<>>
      <4>1. Len(target') >= 1 BY <3>1, <3>2, <3>3
      <4> QED BY <4>1
    <3>5. TargetIsWhole' BY <3>1 DEF TargetIsWhole, Whole, Pairs
    <3> QED BY <1>1, <2>2, <3>4, <3>5 DEF TargetFits, SuccessIsReplaced
  <2> QED BY <1>3, <2>1, <2>2
<1> QED BY <1>1, <1>4, <1>5, <1>6
\* Every step keeps the invariant.
LEMMA ConversionStep == ASSUME ConversionInv, [ConversionNext]_conversionVars PROVE ConversionInv'
<1>1. CASE UNCHANGED conversionVars
  <2>1. UNCHANGED <<clip, progress, target, saved, spent, source, stage, outcome>>
    BY <1>1 DEF conversionVars, progress
  <2>2. StageFits' BY <2>1, ClipStays DEF ConversionInv, StageFits
  <2>3. SpoolsFit' /\ CutsFit' /\ SegmentFits' BY <2>1, ProgressStays DEF ConversionInv
  <2>4. BlocksFit' /\ TargetFits' BY <2>1, BlocksStay, TargetStays DEF ConversionInv
  <2> QED BY <2>1, <2>2, <2>3, <2>4 DEF ConversionInv
<1>2. CASE ConversionNext
  BY <1>1, <1>2, QuietStep, StartRunStep, HighpassStep, F0WindowStep, CurveStep, CoreStep, SynthesisDoneStep,
     CommitStep DEF ConversionNext, StepRun, Over
<1> QED BY <1>1, <1>2

\* What the invariant says.
LEMMA ConversionSafe ==
    ASSUME ConversionInv
    PROVE  /\ TargetIsWhole /\ SuccessIsReplaced /\ OutputIsOfOneInput
           /\ SpoolsAreAligned /\ SegmentsFit /\ NothingTwice
<1>1. TargetIsWhole /\ SuccessIsReplaced /\ OutputIsOfOneInput /\ SpoolsAreAligned /\ NothingTwice
  BY DEF ConversionInv, TargetFits, StageFits, SpoolsFit, BlocksFit, OutputIsOfOneInput, SpoolsAreAligned
<1>2. ASSUME stage = "synthesis", planner.previous < clip.n, Plan.query % Hop = 0, Plan.chunk % Hop = 0
      PROVE  ~NextSegment.core.fails /\ NextSegment.last - planner.previous <= Plan.hardSegment
  BY <1>2, NextCoreFits, NextSegmentFits
<1>3. segment <= ContentMax BY DEF ConversionInv, SegmentFits
<1> QED BY <1>1, <1>2, <1>3 DEF SegmentsFit

\* Only Core makes a core, of frames that are all within the reach it is given.
LEMMA SeedStep ==
    ASSUME ConversionInv, [ConversionNext]_conversionVars, cores' # cores, Len(cores') > Len(cores)
    PROVE  SegmentFrames(planner.previous, NextSegment.last) \subseteq SeedFrames(Last(cores')[1], Last(cores')[2])
<1>1. cores \in Seq(Nat \X Nat) BY DEF ConversionInv, CutsFit
<1>2. Core
  <2>1. cores' # <<>> BY <1>1
  <2> QED BY <2>1 DEF ConversionNext, conversionVars, StepRun, InitPipeline, StartRun, Snapshot, Highpass, F0Window,
            Curve, SynthesisDone, WriteOutput, Commit, SourceChanges, FailRun, Pause, Die, Resume, Over, progress
<1> DEFINE core == NextSegment.core
<1>3. cores' = Append(cores, <<planner.previous, core.end>>) /\ stage = "synthesis" BY <1>2 DEF Core
<1>4. Last(cores') = <<planner.previous, core.end>> BY <1>1, <1>3 DEF Last
<1>5. Len(frames) = TotalFrames BY <1>3 DEF ConversionInv, SpoolsFit
<1>6. NextSegment.last = Min({Virtual, core.end + 2 * Plan.pad + Hop}) BY DEF NextSegment
<1> HIDE DEF core
<1>7. SegmentFrames(planner.previous, NextSegment.last) = SeedFrames(planner.previous, core.end)
  BY <1>5, <1>6 DEF SegmentFrames, SeedFrames
<1> QED BY <1>4, <1>7

\* At the beginning there is nothing.
LEMMA ConversionBegins == ASSUME ConversionInit PROVE ConversionInv
<1> USE DEF ConversionInit
<1>1. ToOutput(0) = 0
  <2>1. 0 * Up = 0 /\ 0 \div Down = 0 BY Sizes, Ratios
  <2> QED BY <2>1 DEF ToOutput
<1>2. SpoolsFit
  <2>1. planner.previous = 0 /\ frames = <<>> /\ out = 0 OBVIOUS
  <2> QED BY <1>1, <2>1 DEF SpoolsFit, Before
<1>3. StageFits /\ CutsFit /\ SegmentFits BY Sizes, Ratios DEF StageFits, CutsFit, SegmentFits
<1>4. BlocksFit /\ TargetFits BY DEF BlocksFit, NothingTwice, TargetFits, SuccessIsReplaced, TargetIsWhole
<1> QED BY <1>2, <1>3, <1>4 DEF ConversionInv

\* The file at the target is the whole clip, cut where the older conversion cuts
\* it, from one input, whatever paused or died on the way; frames and samples
\* lie where they belong, no block is computed twice, no segment is too long,
\* and an edit's preview is given every core that it reaches (convert_file_bounded).
THEOREM WholeConversion == ConversionSpec => ConversionIsWhole
<1>1. ConversionInit => ConversionInv BY ConversionBegins
<1>2. ConversionInv /\ [ConversionNext]_conversionVars => ConversionInv' BY ConversionStep
<1>3. ConversionInv => /\ TargetIsWhole /\ SuccessIsReplaced /\ OutputIsOfOneInput
                       /\ SpoolsAreAligned /\ SegmentsFit /\ NothingTwice
  BY ConversionSafe
<1>4. ConversionInv /\ [ConversionNext]_conversionVars =>
        [cores' # cores /\ Len(cores') > Len(cores) =>
           SegmentFrames(planner.previous, NextSegment.last)
              \subseteq SeedFrames(Last(cores')[1], Last(cores')[2])]_conversionVars
  BY SeedStep
<1> QED BY <1>1, <1>2, <1>3, <1>4, PTL DEF ConversionSpec, ConversionIsWhole, SeedReachesAll
=============================================================================
