----------------------------- MODULE TaskStore -----------------------------
(***************************************************************************)
(* The record store of task_store.cpp: compare-and-swap saves of one file  *)
(* per task, staged, renamed and synced under a mutex, by one service      *)
(* process at a time (flock on .owner.lock).  A record's content is the    *)
(* set of updates it contains.  Every system call of a save may fail, the  *)
(* process may die and the power may go between any two of them.           *)
(*                                                                         *)
(* Operators marked FAULT are wrong on purpose: no action uses them, and   *)
(* the project's mutants put them in place of the operator they precede.   *)
(***************************************************************************)
EXTENDS Integers, FiniteSets

CONSTANTS
    TaskIds,    \* task ids
    Procs,      \* service processes
    Threads,    \* their threads
    Home,       \* the process of each thread
    NoThread,   \* a value that is not a thread
    MaxUpdates, \* bound on the saves explored
    Capacity,   \* capacity_: limit of records whose files are retained
    HardLimit,  \* limit of all records (4096)
    MaxRevision \* largest revision (UINT64_MAX)

ASSUME StoreAssumption ==
    /\ Home \in [Threads -> Procs] /\ NoThread \notin Threads
    /\ MaxUpdates \in Nat /\ Capacity \in Nat \ {0} /\ HardLimit \in Nat \ {0}
    /\ MaxRevision \in Nat /\ IsFiniteSet(TaskIds)

VARIABLES
    rec,    \* the record that each task's file shows
    cand,   \* the versions of it that a power loss may leave
    dirs,   \* the task directories whose entry in the root is on disk
    phase,  \* closed, recover or up, for each process
    lock,   \* mutex_ of each process
    th,     \* the threads: where they are, what they read and what they write
    count,  \* number of saves begun
    acked   \* history: the updates whose save returned true

storeVars == <<rec, cand, dirs, phase, lock, th, count, acked>>

NoRec == [rev |-> 0, ups |-> {}, kept |-> FALSE, active |-> FALSE]
Idle == [pc |-> "idle", id |-> NoThread, base |-> NoRec, new |-> NoRec]

StoreInit ==
    /\ rec = [i \in TaskIds |-> NoRec] /\ cand = [i \in TaskIds |-> {NoRec}] /\ dirs = {}
    /\ phase = [p \in Procs |-> "closed"] /\ lock = [p \in Procs |-> NoThread]
    /\ th = [t \in Threads |-> Idle]
    /\ count = 0 /\ acked = [i \in TaskIds |-> {}]

----------------------------------------
(* The process: constructor, recovery, death.                              *)

\* FAULT
NoFlock == TRUE
\* flock(LOCK_EX | LOCK_NB) succeeds only if no live process has the file.
FlockFree == \A q \in Procs : phase[q] = "closed"

Open(p) ==
    /\ phase[p] = "closed" /\ FlockFree
    /\ phase' = [phase EXCEPT ![p] = "recover"]
    /\ UNCHANGED <<rec, cand, dirs, lock, th, count, acked>>

\* FAULT
NoOverflowCheck(r) == TRUE
\* A revision is never increased past its width: the write throws instead.
RevisionRoom(r) == r.rev < MaxRevision

\* recover_interrupted rewrites one active record, or throws before or after
\* its rename; the service does not start after a throw.
Interrupted(r) == [r EXCEPT !.rev = @ + 1, !.active = FALSE]

RecoverOne(p, i) ==
    /\ phase[p] = "recover" /\ rec[i].active
    /\ \/ /\ RevisionRoom(rec[i])
          /\ rec' = [rec EXCEPT ![i] = Interrupted(rec[i])]
          /\ cand' = [cand EXCEPT ![i] = {Interrupted(rec[i])}]
          /\ UNCHANGED phase
       \/ /\ RevisionRoom(rec[i])
          /\ rec' = [rec EXCEPT ![i] = Interrupted(rec[i])]
          /\ cand' = [cand EXCEPT ![i] = @ \cup {Interrupted(rec[i])}]
          /\ phase' = [phase EXCEPT ![p] = "closed"]
       \/ phase' = [phase EXCEPT ![p] = "closed"] /\ UNCHANGED <<rec, cand>>
    /\ UNCHANGED <<dirs, lock, th, count, acked>>

StartServing(p) ==
    /\ phase[p] = "recover" /\ \A i \in TaskIds : ~rec[i].active
    /\ phase' = [phase EXCEPT ![p] = "up"]
    /\ UNCHANGED <<rec, cand, dirs, lock, th, count, acked>>

ServiceDies(p) ==
    /\ phase[p] # "closed"
    /\ phase' = [phase EXCEPT ![p] = "closed"]
    /\ lock' = [lock EXCEPT ![p] = NoThread]
    /\ th' = [t \in Threads |-> IF Home[t] = p THEN Idle ELSE th[t]]
    /\ UNCHANGED <<rec, cand, dirs, count, acked>>

\* What a record may be after the power comes back.
Survivors(i) == cand[i] \cup (IF i \in dirs THEN {} ELSE {NoRec})

PowerLoss ==
    /\ phase' = [p \in Procs |-> "closed"] /\ lock' = [p \in Procs |-> NoThread]
    /\ th' = [t \in Threads |-> Idle]
    /\ rec' \in [TaskIds -> UNION {Survivors(i) : i \in TaskIds}]
    /\ \A i \in TaskIds : rec'[i] \in Survivors(i)
    /\ cand' = [i \in TaskIds |-> {rec'[i]}]
    /\ UNCHANGED <<dirs, count, acked>>

----------------------------------------
(* get and save.                                                           *)

Serving(t) == phase[Home[t]] = "up"
Move(t, pc) == th' = [th EXCEPT ![t].pc = pc]
Return(t) == th' = [th EXCEPT ![t] = Idle] /\ lock' = [lock EXCEPT ![Home[t]] = NoThread]

\* A caller reads a record, or starts a new one.
Get(t, i) ==
    /\ Serving(t) /\ th[t].pc = "idle" /\ lock[Home[t]] = NoThread
    /\ rec[i] # NoRec
    /\ th' = [th EXCEPT ![t] = [pc |-> "have", id |-> i, base |-> rec[i], new |-> NoRec]]
    /\ UNCHANGED <<rec, cand, dirs, phase, lock, count, acked>>

Create(t, i) ==
    /\ Serving(t) /\ th[t].pc = "idle"
    /\ th' = [th EXCEPT ![t] = [pc |-> "have", id |-> i, base |-> NoRec, new |-> NoRec]]
    /\ UNCHANGED <<rec, cand, dirs, phase, lock, count, acked>>

Retained == {i \in TaskIds : rec[i] # NoRec /\ rec[i].kept}
\* FAULT
FullAtOneMore == Cardinality(Retained) > Capacity
Full == Cardinality({i \in TaskIds : rec[i] # NoRec}) >= HardLimit \/ Cardinality(Retained) >= Capacity

\* FAULT
AnyRevision(t) == TRUE
\* The stored revision is the one the caller has.
SameRevision(t) == rec[th[t].id].rev = th[t].base.rev

\* FAULT
SameNumber(r, tag, kept, active) ==
    [rev |-> r.rev, ups |-> r.ups \cup {tag}, kept |-> kept, active |-> active]
\* The update: a new tag, possibly a pruned record, active or settled.
Updated(r, tag, kept, active) ==
    [rev |-> r.rev + 1, ups |-> r.ups \cup {tag}, kept |-> kept, active |-> active]

\* Only a settled task is pruned, and pruning is never undone (validate).
CanBe(r, kept, active) ==
    IF kept THEN r = NoRec \/ r.kept ELSE r # NoRec /\ ~active

Save(t, kept, active) ==
    /\ Serving(t) /\ th[t].pc = "have" /\ lock[Home[t]] = NoThread
    /\ IF SameRevision(t) /\ (th[t].base # NoRec \/ ~Full) /\ RevisionRoom(th[t].base)
       THEN /\ count < MaxUpdates /\ count' = count + 1
            /\ CanBe(th[t].base, kept, active)
            /\ lock' = [lock EXCEPT ![Home[t]] = t]
            /\ th' = [th EXCEPT ![t].pc = "stage",
                                ![t].new = Updated(th[t].base, count + 1, kept, active)]
       ELSE th' = [th EXCEPT ![t] = Idle] /\ UNCHANGED <<count, lock>>
    /\ UNCHANGED <<rec, cand, dirs, phase, acked>>

\* FAULT
NoRootSync(i) == UNCHANGED dirs
\* sync_directory(root_): the task directory itself is on disk.
RootSync(i) == dirs' = dirs \cup {i}

\* The directory and a complete, synced temporary file; or a throw.
Stage(t) ==
    /\ th[t].pc = "stage"
    /\ \/ RootSync(th[t].id) /\ Move(t, "rename") /\ UNCHANGED lock
       \/ Return(t) /\ UNCHANGED dirs
    /\ UNCHANGED <<rec, cand, phase, count, acked>>

Rename(t) ==
    /\ th[t].pc = "rename"
    /\ \/ /\ rec' = [rec EXCEPT ![th[t].id] = th[t].new]
          /\ cand' = [cand EXCEPT ![th[t].id] = @ \cup {th[t].new}]
          /\ Move(t, "sync") /\ UNCHANGED lock
       \/ Return(t) /\ UNCHANGED <<rec, cand>>
    /\ UNCHANGED <<dirs, phase, count, acked>>

\* FAULT
NoDirectorySync(i, r) == UNCHANGED cand
\* sync_directory(dir): only the renamed record can be on disk now.
DirectorySync(i, r) == cand' = [cand EXCEPT ![i] = {r}]

\* The last sync; when it fails save throws although the rename is done.
SyncDir(t) ==
    /\ th[t].pc = "sync" /\ Return(t)
    /\ \/ /\ DirectorySync(th[t].id, th[t].new)
          /\ acked' = [acked EXCEPT ![th[t].id] = @ \cup (th[t].new.ups \ th[t].base.ups)]
       \/ UNCHANGED <<cand, acked>>
    /\ UNCHANGED <<rec, dirs, phase, count>>

----------------------------------------
StoreNext ==
    \/ \E p \in Procs : Open(p) \/ StartServing(p) \/ ServiceDies(p) \/ (\E i \in TaskIds : RecoverOne(p, i))
    \/ PowerLoss
    \/ \E t \in Threads :
        \/ \E i \in TaskIds : Get(t, i) \/ Create(t, i)
        \/ \E kept, active \in BOOLEAN : Save(t, kept, active)
        \/ Stage(t) \/ Rename(t) \/ SyncDir(t)

StoreSpec == StoreInit /\ [][StoreNext]_storeVars

----------------------------------------
RecType == [rev : 0..MaxRevision, ups : SUBSET (1..MaxUpdates), kept : BOOLEAN, active : BOOLEAN]
ThreadType == [pc : {"idle", "have", "stage", "rename", "sync"}, id : TaskIds \cup {NoThread},
               base : RecType, new : RecType]

\* Every variable has its type.
StoreType ==
    /\ rec \in [TaskIds -> RecType] /\ cand \in [TaskIds -> SUBSET RecType]
    /\ dirs \subseteq TaskIds
    /\ phase \in [Procs -> {"closed", "recover", "up"}]
    /\ lock \in [Procs -> Threads \cup {NoThread}]
    /\ th \in [Threads -> ThreadType]
    /\ count \in 0..MaxUpdates /\ acked \in [TaskIds -> SUBSET (1..MaxUpdates)]

\* An update whose save returned true is in the record that every later read
\* returns and in every version that a power loss can leave: stale savers, a
\* second service, failed syncs, crashes and power losses never lose it.
AckedIsKept ==
    \A i \in TaskIds : /\ acked[i] \subseteq rec[i].ups
                   /\ \A r \in Survivors(i) : acked[i] \subseteq r.ups

\* The revision names the content: what a thread read has the stored revision
\* only if it is the stored record, so the compare-and-swap is never fooled by a
\* failed, repeated or recovered write.
RevisionNamesContent ==
    \A t \in Threads :
        th[t].pc # "idle" /\ rec[th[t].id].rev = th[t].base.rev => rec[th[t].id] = th[t].base

\* No save admits a record beyond the capacity, although the capacity is read
\* several system calls before the new record shows.
AdmissionIsBounded ==
    [][ PowerLoss \/ Cardinality(Retained') <= Cardinality(Retained)
        \/ Cardinality(Retained') <= Capacity ]_storeVars

\* Both limits of the store hold: the number of records, and the revision, which
\* never wraps to the one that means that there is no record (save).
LimitsHold == []StoreType /\ AdmissionIsBounded
=============================================================================
