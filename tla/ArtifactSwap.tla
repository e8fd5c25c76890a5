---------------------------- MODULE ArtifactSwap ----------------------------
(***************************************************************************)
(* The file transactions of workflow_support.cpp that replace a voice's    *)
(* artifacts as one group: replace_material_dirs (raw, work, step marker), *)
(* replace_step_artifacts (work, step marker) and                          *)
(* replace_training_artifacts (clips, model, index).  One action is one    *)
(* file operation; each may fail, an exception may leave the function      *)
(* anywhere, and the process may die between any two operations.           *)
(*                                                                         *)
(* Operators marked FAULT are wrong on purpose: no action uses them, and   *)
(* the project's mutants put them in place of the operator they precede.   *)
(***************************************************************************)
EXTENDS Integers

CONSTANTS
    N,        \* number of live paths in the group, in the order they are moved
    Staged,   \* the paths that get a new version; the others are retired
    Dirs,     \* the paths that are directories
    Reverse,  \* TRUE: the rollback visits the paths from the last to the first
    Marker    \* TRUE: an irregular step marker is refused before anything moves

Paths == 1..N

ASSUME SwapAssumption ==
    /\ N \in Nat \ {0} /\ Staged \subseteq Paths /\ Dirs \subseteq Paths
    /\ Reverse \in BOOLEAN /\ Marker \in BOOLEAN

VARIABLES
    live,       \* what each live path holds: none, old, new, or a torn new version
    bak,        \* what the backup directory holds for it: none or old
    pc,         \* check, backup, install, remove, restore, end
    pos,        \* the path (or, rolling back, the position) the loop is at
    moved,      \* Artifact::moved
    installed,  \* Artifact::installed
    clean,      \* rollback_ok
    ret,        \* none, true, false, threw, died
    had         \* history: the paths that existed before

vars == <<live, bak, pc, pos, moved, installed, clean, ret, had>>

Init ==
    /\ had \in SUBSET Paths
    /\ live = [i \in Paths |-> IF i \in had THEN "old" ELSE "none"]
    /\ bak = [i \in Paths |-> "none"]
    /\ pc = "check" /\ pos = 1
    /\ moved = {} /\ installed = {} /\ clean = TRUE /\ ret = "none"

\* The marker's own check, and the empty backup directory (TempDir), which may
\* not be made.
Begin ==
    /\ pc = "check"
    /\ \/ pc' = "backup" /\ UNCHANGED ret
       \/ Marker /\ pc' = "end" /\ ret' = "false"
       \/ pc' = "end" /\ ret' = "threw"
    /\ UNCHANGED <<live, bak, pos, moved, installed, clean, had>>

\* The loop's next position, or the next loop.
Advance(next) == IF pos < N THEN pc' = pc /\ pos' = pos + 1 ELSE pc' = next /\ pos' = 1
RollBack == pc' = "remove" /\ pos' = 1

\* Move the old version away; a path that does not exist is skipped.
Backup ==
    /\ pc = "backup"
    /\ \/ /\ live[pos] = "none"
          /\ Advance("install") /\ UNCHANGED <<live, bak, moved>>
       \/ /\ live[pos] = "old"
          /\ live' = [live EXCEPT ![pos] = "none"]
          /\ bak' = [bak EXCEPT ![pos] = "old"]
          /\ moved' = moved \cup {pos}
          /\ Advance("install")
       \/ RollBack /\ UNCHANGED <<live, bak, moved>>
    /\ UNCHANGED <<installed, clean, ret, had>>

\* Move the staged version in.
Install ==
    /\ pc = "install"
    /\ \/ /\ pos \in Staged
          /\ live' = [live EXCEPT ![pos] = "new"]
          /\ installed' = installed \cup {pos}
          /\ Advance("commit")
       \/ pos \notin Staged /\ Advance("commit") /\ UNCHANGED <<live, installed>>
       \/ pos \in Staged /\ RollBack /\ UNCHANGED <<live, installed>>
    /\ UNCHANGED <<bak, moved, clean, ret, had>>

\* TempDir's destructor removes the backup directory once cleanup is allowed;
\* BackupRetentionGuard keeps it otherwise.
\* FAULT
DropBackup(allowed) == bak' = [i \in Paths |-> "none"]
Retention(allowed) == bak' = IF allowed THEN [i \in Paths |-> "none"] ELSE bak

Commit ==
    /\ pc = "commit"
    /\ pc' = "end" /\ ret' = "true"
    /\ Retention(TRUE)
    /\ UNCHANGED <<live, pos, moved, installed, clean, had>>

\* The path that the rollback visits at a position.
Visit(p) == IF Reverse THEN N + 1 - p ELSE p

\* FAULT
KeepInstalled(p) == UNCHANGED <<live, clean>>
\* remove_all of a new version: done, not done, or done in part.
TakeBack(p) ==
    IF p \in installed
    THEN \/ live' = [live EXCEPT ![p] = "none"] /\ UNCHANGED clean
         \/ /\ live' \in {live} \cup (IF p \in Dirs THEN {[live EXCEPT ![p] = "torn"]} ELSE {})
            /\ clean' = FALSE
    ELSE UNCHANGED <<live, clean>>

Remove ==
    /\ pc = "remove"
    /\ TakeBack(Visit(pos))
    /\ Advance("restore")
    /\ UNCHANGED <<bak, moved, installed, ret, had>>

\* rename(2) replaces a file but not a directory that has entries.
Replaceable(p) == live[p] = "none" \/ p \notin Dirs

PutBack(p) ==
    IF p \in moved
    THEN \/ /\ Replaceable(p)
            /\ live' = [live EXCEPT ![p] = "old"]
            /\ bak' = [bak EXCEPT ![p] = "none"]
            /\ UNCHANGED clean
         \/ clean' = FALSE /\ UNCHANGED <<live, bak>>
    ELSE UNCHANGED <<live, bak, clean>>

Restore ==
    /\ pc = "restore"
    /\ PutBack(Visit(pos))
    /\ Advance("rolled")
    /\ UNCHANGED <<moved, installed, ret, had>>

\* Even the text of the error may throw here, after cleanup has been allowed.
EndRollback ==
    /\ pc = "rolled"
    /\ pc' = "end" /\ ret' \in {"false", "threw"}
    /\ Retention(clean)
    /\ UNCHANGED <<live, pos, moved, installed, clean, had>>

\* An exception: the guard was armed before the first move.
Throw ==
    /\ pc \notin {"check", "end"}
    /\ pc' = "end" /\ ret' = "threw"
    /\ Retention(FALSE)
    /\ UNCHANGED <<live, pos, moved, installed, clean, had>>

\* The process dies; no destructor runs.
Die ==
    /\ pc # "end"
    /\ pc' = "end" /\ ret' = "died"
    /\ UNCHANGED <<live, bak, pos, moved, installed, clean, had>>

Next == Begin \/ Backup \/ Install \/ Commit \/ Remove \/ Restore \/ EndRollback \/ Throw \/ Die

Spec == Init /\ [][Next]_vars

----------------------------------------
Contents == {"none", "old", "new", "torn"}

\* Every variable has its type.
TypeOK ==
    /\ live \in [Paths -> Contents]
    /\ bak \in [Paths -> {"none", "old"}]
    /\ pc \in {"check", "backup", "install", "commit", "remove", "restore", "rolled", "end"}
    /\ pos \in Paths
    /\ moved \subseteq Paths /\ installed \subseteq Paths
    /\ clean \in BOOLEAN /\ ret \in {"none", "true", "false", "threw", "died"}
    /\ had \subseteq Paths

\* Until the group is committed every old artifact is intact, in its live place
\* or in the backup: no failed rename, failed removal, failed restore, exception
\* or death of the process in any order loses one.
OldIsKept == ret # "true" => \A i \in had : live[i] = "old" \/ bak[i] = "old"

\* A transaction that answers true shows the new group and nothing of the old
\* one; one that answers false after a clean rollback shows the old group.
AllOrNothing ==
    /\ ret = "true" => \A i \in Paths : live[i] = IF i \in Staged THEN "new" ELSE "none"
    /\ ret = "false" /\ clean =>
         \A i \in Paths : live[i] = IF i \in had THEN "old" ELSE "none"
=============================================================================
