-------------------------- MODULE BlockCheckpoint --------------------------
(***************************************************************************)
(* The recoverable CLI operation: OperationCheckpointSession opens the     *)
(* store "owner" and then the store "stage" below one checkpoint root, and *)
(* the stage's loop loads or computes and saves one block after the other  *)
(* (src/io/block_checkpoint.cpp, app_support/operation_checkpoint.h).      *)
(*                                                                         *)
(* One action is one step on the file system.  A run may die before any    *)
(* step, any step may fail and end the run, two runs may meet in the same  *)
(* directory, and a later run may have another recipe.  A run is resumed   *)
(* with --resume or started anew, whatever it finds.                       *)
(*                                                                         *)
(* Operators marked FAULT are wrong on purpose: no action uses them, and   *)
(* the project's mutants put them in place of the operator they precede.   *)
(***************************************************************************)
EXTENDS Integers, FiniteSets

CONSTANTS
    Procs,    \* CLI processes
    NoProc,   \* nobody holds the lock
    Recipes,  \* input, model, parameter and program versions
    Need,     \* the number of blocks an operation with this recipe has
    Limit,    \* Limits::blocks
    MaxRuns   \* bound: runs of the CLI

None == "none"
Stores == {"owner", "stage"}

ASSUME CheckpointAssumption ==
    /\ NoProc \notin Procs /\ None \notin Recipes
    /\ Need \in [Recipes -> Nat \ {0}] /\ Limit \in Nat \ {0} /\ MaxRuns \in Nat
    /\ \E r \in Recipes : \A q \in Recipes : Need[q] <= Need[r]

Keys == 1..(CHOOSE n \in {Need[r] : r \in Recipes} : \A r \in Recipes : Need[r] <= n)

VARIABLES
    root,   \* the checkpoint root exists
    dir,    \* per store: its directory exists, its identity file and identity.pending
    blk,    \* the recipe whose result each block file holds, or None
    btmp,   \* the blocks with a .block.pending file
    lock,   \* the holder of each store's flock
    run,    \* the runs
    pause,  \* the run's pause file says 1
    runs    \* number of runs so far

vars == <<root, dir, blk, btmp, lock, run, pause, runs>>
disk == <<root, dir, blk, btmp>>

Ended == {"idle", "done", "paused", "failed", "busy", "refused", "stranded"}
NoRun == [pc |-> "idle", recipe |-> None, resume |-> FALSE, at |-> "owner", create |-> FALSE,
          k |-> 1, count |-> 0, used |-> {}, late |-> 0, met |-> FALSE]

Init ==
    /\ root = FALSE
    /\ dir = [s \in Stores |-> [there |-> FALSE, ident |-> None, tmp |-> FALSE]]
    /\ blk = [k \in Keys |-> None] /\ btmp = {}
    /\ lock = [s \in Stores |-> NoProc]
    /\ run = [p \in Procs |-> NoRun] /\ pause = [p \in Procs |-> FALSE] /\ runs = 0

Live(p) == run[p].pc \notin Ended
At(p, pc) == run[p].pc = pc
Go(p, pc) == run' = [run EXCEPT ![p].pc = pc]

\* The run ends: its descriptors, and with them its locks, go.
End(p, pc) == Go(p, pc) /\ lock' = [s \in Stores |-> IF lock[s] = p THEN NoProc ELSE lock[s]]

----------------------------------------
\* FAULT
NoIdentity(r) == CHOOSE x \in Recipes : TRUE
\* OperationIdentity: the digest of the program, the recipe and every input.
Identity(r) == r

\* A new run; it may meet others in the directory.
Start(p, r, resume) ==
    /\ ~Live(p) /\ runs < MaxRuns /\ runs' = runs + 1
    /\ LET meets == \E q \in Procs \ {p} : Live(q)
       IN run' = [q \in Procs |->
            IF q = p THEN [NoRun EXCEPT !.pc = "root", !.recipe = r, !.resume = resume, !.met = meets]
            ELSE IF Live(q) THEN [run[q] EXCEPT !.met = TRUE] ELSE run[q]]
    /\ pause' = [pause EXCEPT ![p] = FALSE]
    /\ UNCHANGED <<disk, lock>>

RequestPause(p) ==
    /\ Live(p) /\ ~pause[p] /\ pause' = [pause EXCEPT ![p] = TRUE]
    /\ UNCHANGED <<disk, lock, run, runs>>

\* The session's constructor: a resume needs the root, and an owner without an
\* identity is only opened again when there is nothing beside it.
OpenRoot(p) ==
    /\ At(p, "root")
    /\ IF run[p].resume /\ ~root THEN End(p, "refused")
       ELSE /\ UNCHANGED lock
            /\ Go(p, IF run[p].resume /\ dir["owner"].ident = None THEN "look" ELSE "open")
    /\ UNCHANGED <<disk, pause, runs>>

LookBeside(p) ==
    /\ At(p, "look")
    /\ IF dir["stage"].there THEN End(p, "stranded")
       ELSE run' = [run EXCEPT ![p].pc = "open", ![p].create = ~dir["owner"].there] /\ UNCHANGED lock
    /\ UNCHANGED <<disk, pause, runs>>

Creates(p) == run[p].create \/ (run[p].at = "owner" /\ ~run[p].resume)

----------------------------------------
(* BlockCheckpoint::Impl: directory, lock, identity, scan.                 *)

\* create_directories makes the root before the store.
OpenDirectory(p) ==
    LET s == run[p].at
    IN /\ At(p, "open")
       /\ \/ Creates(p) /\ ~root /\ root' = TRUE /\ UNCHANGED <<dir, lock, run>>
          \/ Creates(p) /\ root /\ Go(p, "lock") /\ dir' = [dir EXCEPT ![s].there = TRUE]
             /\ UNCHANGED <<root, lock>>
          \/ ~Creates(p) /\ dir[s].there /\ Go(p, "lock") /\ UNCHANGED <<root, dir, lock>>
          \/ ~Creates(p) /\ ~dir[s].there /\ End(p, "failed") /\ UNCHANGED <<root, dir>>
       /\ UNCHANGED <<blk, btmp, pause, runs>>

\* FAULT
NoFlock(s) == TRUE
FlockFree(s) == lock[s] = NoProc

TakeLock(p) ==
    LET s == run[p].at
    IN /\ At(p, "lock")
       /\ IF FlockFree(s) THEN lock' = [lock EXCEPT ![s] = p] /\ Go(p, "scan") ELSE End(p, "busy")
       /\ UNCHANGED <<disk, pause, runs>>

Saved == {k \in Keys : blk[k] # None}
Files(s) == IF s = "stage" THEN Saved \cup btmp ELSE {}
Empty(s) == dir[s].ident = None /\ ~dir[s].tmp /\ Files(s) = {}

\* A directory that was left behind is good if it is empty, has no more than
\* an unfinished identity, or has the run's identity and at most Limit blocks.
Scan(p) ==
    LET s == run[p].at
        Foreign == dir[s].ident # None /\ dir[s].ident # Identity(run[p].recipe)
    IN /\ At(p, "scan")
       /\ \/ Creates(p) /\ Empty(s) /\ Go(p, "identity") /\ UNCHANGED <<dir, btmp, lock>>
          \/ Creates(p) /\ ~Empty(s)
             /\ End(p, IF run[p].resume \/ s = "stage" THEN "stranded" ELSE "refused")
             /\ UNCHANGED <<dir, btmp>>
          \/ ~Creates(p) /\ Foreign /\ End(p, "refused") /\ UNCHANGED <<dir, btmp>>
          \/ ~Creates(p) /\ dir[s].ident = None /\ Files(s) # {}
             /\ End(p, "stranded") /\ UNCHANGED <<dir, btmp>>
          \/ ~Creates(p) /\ dir[s].ident = None /\ Files(s) = {}
             /\ dir' = [dir EXCEPT ![s].tmp = FALSE] /\ Go(p, "identity") /\ UNCHANGED <<btmp, lock>>
          \/ ~Creates(p) /\ ~Foreign /\ dir[s].ident # None
             /\ (dir[s].tmp \/ (s = "stage" /\ Cardinality(Saved) > Limit))
             /\ End(p, "stranded") /\ UNCHANGED <<dir, btmp>>
          \/ ~Creates(p) /\ ~Foreign /\ dir[s].ident # None
             /\ ~dir[s].tmp /\ (s = "owner" \/ Cardinality(Saved) <= Limit)
             /\ run' = [run EXCEPT ![p].pc = "opened",
                                   ![p].count = IF s = "stage" THEN Cardinality(Saved) ELSE 0]
             /\ btmp' = (IF s = "stage" THEN {} ELSE btmp) /\ UNCHANGED <<dir, lock>>
       /\ UNCHANGED <<root, blk, pause, runs>>

\* publish("identity"): an exclusive pending file, then the rename.
StageIdentity(p) ==
    LET s == run[p].at
    IN /\ At(p, "identity") /\ ~dir[s].tmp
       /\ dir' = [dir EXCEPT ![s].tmp = TRUE] /\ Go(p, "name")
       /\ UNCHANGED <<root, blk, btmp, lock, pause, runs>>

PublishIdentity(p) ==
    LET s == run[p].at
    IN /\ At(p, "name") /\ dir[s].tmp
       /\ dir' = [dir EXCEPT ![s].tmp = FALSE, ![s].ident = Identity(run[p].recipe)]
       /\ Go(p, "opened")
       /\ UNCHANGED <<root, blk, btmp, lock, pause, runs>>

\* FAULT
IgnorePause(p) == FALSE
\* boundary(): the pause file is read at a safe point.
PauseSeen(p) == pause[p]

\* FAULT
AlwaysNew == TRUE
StageIsNew == ~dir["stage"].there

\* After the owner comes a boundary and then the stage, resumed if it exists.
Opened(p) ==
    /\ At(p, "opened")
    /\ IF run[p].at = "stage" THEN Go(p, "boundary") /\ UNCHANGED lock
       ELSE IF PauseSeen(p) THEN End(p, "paused")
       ELSE /\ run' = [run EXCEPT ![p].at = "stage", ![p].pc = "open",
                                  ![p].create = StageIsNew]
            /\ UNCHANGED lock
    /\ UNCHANGED <<disk, pause, runs>>

----------------------------------------
(* The stage's loop: load or compute and save, a boundary around each.     *)

Boundary(p) ==
    /\ At(p, "boundary")
    /\ IF PauseSeen(p) THEN End(p, "paused")
       ELSE IF run[p].k > Need[run[p].recipe] THEN End(p, "done")
       ELSE Go(p, "load") /\ UNCHANGED lock
    /\ UNCHANGED <<disk, pause, runs>>

\* A block whose header has another identity is an error, never a miss.
Load(p) ==
    LET k == run[p].k  r == run[p].recipe
    IN /\ At(p, "load")
       /\ IF blk[k] = None
          THEN run' = [run EXCEPT ![p].pc = "save", ![p].late = @ + (IF pause[p] THEN 1 ELSE 0)] /\ UNCHANGED lock
          ELSE IF Identity(blk[k]) # Identity(r) THEN End(p, "failed")
          ELSE /\ run' = [run EXCEPT ![p].pc = "boundary", ![p].k = k + 1, ![p].used = @ \cup {blk[k]}]
               /\ UNCHANGED lock
       /\ UNCHANGED <<disk, pause, runs>>

\* FAULT
RoomForOneMore(p) == run[p].count <= Limit
HasRoom(p) == run[p].count < Limit

\* save: what exists is compared, and a new block needs room and a pending file.
SaveBlock(p) ==
    LET k == run[p].k
    IN /\ At(p, "save")
       /\ \/ blk[k] # None /\ Identity(blk[k]) = Identity(run[p].recipe) /\ blk[k] = run[p].recipe
             /\ run' = [run EXCEPT ![p].pc = "boundary", ![p].k = k + 1, ![p].used = @ \cup {blk[k]}]
             /\ UNCHANGED <<btmp, lock>>
          \/ blk[k] # None /\ blk[k] # run[p].recipe /\ End(p, "failed") /\ UNCHANGED btmp
          \/ blk[k] = None /\ ~HasRoom(p) /\ End(p, "failed") /\ UNCHANGED btmp
          \/ blk[k] = None /\ HasRoom(p) /\ k \notin btmp
             /\ btmp' = btmp \cup {k} /\ Go(p, "publish") /\ UNCHANGED lock
       /\ UNCHANGED <<root, dir, blk, pause, runs>>

PublishBlock(p) ==
    LET k == run[p].k
    IN /\ At(p, "publish") /\ k \in btmp
       /\ blk' = [blk EXCEPT ![k] = run[p].recipe] /\ btmp' = btmp \ {k}
       /\ Go(p, "sync")
       /\ UNCHANGED <<root, dir, lock, pause, runs>>

SyncBlock(p) ==
    /\ At(p, "sync")
    /\ run' = [run EXCEPT ![p].pc = "boundary", ![p].k = @ + 1, ![p].count = @ + 1,
                          ![p].used = @ \cup {run[p].recipe}]
    /\ UNCHANGED <<disk, lock, pause, runs>>

\* A step fails: publish removes its pending file, if it can, and the run ends.
Fail(p) ==
    /\ Live(p) /\ End(p, "failed")
    /\ \/ UNCHANGED <<dir, btmp>>
       \/ At(p, "name") /\ dir' = [dir EXCEPT ![run[p].at].tmp = FALSE] /\ UNCHANGED btmp
       \/ At(p, "publish") /\ btmp' = btmp \ {run[p].k} /\ UNCHANGED dir
    /\ UNCHANGED <<root, blk, pause, runs>>

Step(p) ==
    \/ \E r \in Recipes, resume \in BOOLEAN : Start(p, r, resume)
    \/ RequestPause(p) \/ OpenRoot(p) \/ LookBeside(p) \/ OpenDirectory(p) \/ TakeLock(p)
    \/ Scan(p) \/ StageIdentity(p) \/ PublishIdentity(p) \/ Opened(p) \/ Boundary(p)
    \/ Load(p) \/ SaveBlock(p) \/ PublishBlock(p) \/ SyncBlock(p) \/ Fail(p)

Next == \E p \in Procs : Step(p)

Spec == Init /\ [][Next]_vars

----------------------------------------
RunType == [pc : Ended \cup {"root", "look", "open", "lock", "scan", "identity", "name", "opened",
                             "boundary", "load", "save", "publish", "sync"},
            recipe : Recipes \cup {None}, resume : BOOLEAN, at : Stores, create : BOOLEAN,
            k : Nat, count : Nat, used : SUBSET Recipes, late : Nat, met : BOOLEAN]

\* Every variable has its type, and the blocks on disk stay within the limit
\* that a later resume accepts, though the counter is the run's own.
TypeOK ==
    /\ root \in BOOLEAN
    /\ dir \in [Stores -> [there : BOOLEAN, ident : Recipes \cup {None}, tmp : BOOLEAN]]
    /\ blk \in [Keys -> Recipes \cup {None}] /\ btmp \subseteq Keys
    /\ lock \in [Stores -> Procs \cup {NoProc}]
    /\ run \in [Procs -> RunType] /\ pause \in [Procs -> BOOLEAN] /\ runs \in 0..MaxRuns
    /\ Cardinality(Saved) <= Limit

\* "Mismatched blocks throw and must never be recomputed silently": whatever
\* runs came before, an operation only ever uses results of its own recipe.
LoadedIsOwn == \A p \in Procs : run[p].used \subseteq {run[p].recipe}

\* Wherever a run dies or fails, what it leaves behind can be opened: a later
\* run that has the directory for itself is never turned away because of it.
NeverStranded == \A p \in Procs : At(p, "stranded") => run[p].met

\* At most one more block is begun after the pause file was set.
PauseIsPrompt == \A p \in Procs : run[p].late <= 1

\* A store in use has its identity, and it is its user's: no run comes to work
\* on blocks without it, and none loses it to a run that initialises again.
InUseIsNamed ==
    \A p \in Procs : At(p, "boundary") \/ At(p, "load") \/ At(p, "save") \/ At(p, "publish") \/ At(p, "sync")
        => \A s \in Stores : lock[s] = p /\ dir[s].ident = Identity(run[p].recipe)

\* However runs of several recipes meet, die and resume, each uses and extends
\* the blocks of its own recipe only (BlockCheckpoint, OperationCheckpointSession).
BlocksAreOwn == LoadedIsOwn /\ InUseIsNamed

\* An operation can be stopped at any time and gone on with: the pause is
\* prompt, and what is left is within the limits and open to the next run.
StopsAndResumes == TypeOK /\ PauseIsPrompt /\ NeverStranded
=============================================================================
