----------------------------- MODULE Snapshots -----------------------------
(***************************************************************************)
(* Files that are read whole while others may write them: the retrieval    *)
(* index (CudaFlatIndex::load), which takes its shape from the header,     *)
(* copies the file and compares the copy, and the weights                  *)
(* (SafetensorsLoader::load_snapshot), which trust the times of the file;  *)
(* and the search of the index by several threads.  A file is a sequence   *)
(* of portions, the first one its header; its identity is a stamp.  A      *)
(* write in the same tick of the clock as the one before leaves the stamp. *)
(* One behaviour does one of the three.                                    *)
(*                                                                         *)
(* Operators marked FAULT are wrong on purpose: no action uses them, and   *)
(* the project's mutants put them in place of the operator they precede.   *)
(***************************************************************************)
EXTENDS Integers, Sequences, FiniteSets

CONSTANTS
    Portions,   \* portions of the file (kReadChunkBytes)
    Contents,   \* what a portion may hold, 0 at first
    MaxWrites,  \* writes by others that are tried
    Queries,    \* queries of a search
    Workers     \* threads of a search

ASSUME SnapshotsAssumption ==
    Portions \in Nat \ {0} /\ 0 \in Contents /\ Contents \subseteq Nat /\ MaxWrites \in Nat /\ Queries \in Nat /\ Workers \in Nat \ {0}

VARIABLES
    task,       \* "index", "weights" or "search"
    bytes,       \* the open file: portions and stamp
    named,      \* the path still names the open file
    was,        \* history: what the open file has held so far
    unshown,    \* history: a write during the load left the stamp
    undone,     \* history: a write brought a portion back to what it had held
    st,         \* the loader: where it is, its copy, the stamp and the header it saw first
    loaded,     \* what the object holds, <<>> for nothing
    writes,
    found,      \* per query: its neighbours are in the result
    failed,     \* the flag that the threads of a search share
    worker,     \* where each thread is: its next query, or past the last
    answer      \* of the search: "none", "empty" or "result"

svars == <<task, bytes, named, was, unshown, undone, st, loaded, writes, found, failed, worker, answer>>
loading == <<bytes, named, was, unshown, undone, st, loaded, writes>>
history == <<was, unshown, undone>>
searching == <<found, failed, worker, answer>>
Zero == [i \in 1..Portions |-> 0]

SInit ==
    /\ task \in {"index", "weights", "search"}
    /\ bytes = [cells |-> Zero, stamp |-> 0] /\ named = TRUE /\ was = {Zero} /\ writes = 0
    /\ unshown = FALSE /\ undone = FALSE
    /\ st = [at |-> "start", copy |-> <<>>, seen |-> -1, head |-> 0, next |-> 1] /\ loaded = <<>>
    /\ found = {} /\ failed = FALSE /\ worker = [w \in 0..(Workers - 1) |-> w] /\ answer = "none"

\* Another process overwrites portions in place during the load, with new
\* bytes or with earlier ones; the times may or may not show it.
ForeignStore ==
    /\ task # "search" /\ st.at \notin {"start", "ended"} /\ writes < MaxWrites /\ writes' = writes + 1
    /\ \E cells \in [1..Portions -> Contents] \ {bytes.cells}, shown \in BOOLEAN :
        /\ bytes' = [cells |-> cells, stamp |-> IF shown THEN bytes.stamp + 1 ELSE bytes.stamp]
        /\ was' = was \cup {cells}
        /\ unshown' = (unshown \/ ~shown)
        /\ undone' = (undone \/ \E i \in 1..Portions, u \in was : cells[i] # bytes.cells[i] /\ cells[i] = u[i])
    /\ UNCHANGED <<task, named, st, loaded, searching>>
\* Another process installs a new file at the path.
ForeignReplace ==
    /\ task # "search" /\ named /\ named' = FALSE /\ st.at # "start"
    /\ UNCHANGED <<task, bytes, history, st, loaded, writes, searching>>

Refuse == st' = [st EXCEPT !.at = "ended"] /\ loaded' = <<>>

\* load: release, open and fstat.
Open ==
    /\ task # "search" /\ st.at = "start"
    /\ \/ /\ st' = [st EXCEPT !.at = IF task = "index" THEN "header" ELSE "copy", !.seen = bytes.stamp]
          /\ loaded' = <<>>
       \/ Refuse
    /\ UNCHANGED <<task, bytes, named, history, writes, searching>>
\* The shape that the index will have, which must give the size of the file.
ReadHeader ==
    /\ st.at = "header"
    /\ \/ st' = [st EXCEPT !.at = "copy", !.head = bytes.cells[1]] /\ UNCHANGED loaded
       \/ Refuse
    /\ UNCHANGED <<task, bytes, named, history, writes, searching>>

\* FICLONE takes the file at one moment; then nothing is compared.
Clone ==
    /\ task = "index" /\ st.at = "copy" /\ st.next = 1
    /\ st' = [st EXCEPT !.at = "check", !.copy = bytes.cells]
    /\ UNCHANGED <<task, bytes, named, history, loaded, writes, searching>>
CopyPortion ==
    /\ st.at = "copy"
    /\ \/ /\ st' = IF st.next < Portions
                   THEN [st EXCEPT !.copy = Append(@, bytes.cells[st.next]), !.next = @ + 1]
                   ELSE [st EXCEPT !.copy = Append(@, bytes.cells[st.next]), !.next = 1,
                                   !.at = IF task = "index" THEN "compare" ELSE "check"]
          /\ UNCHANGED loaded
       \/ Refuse
    /\ UNCHANGED <<task, bytes, named, history, writes, searching>>
\* FAULT: the copy is not compared with the file.
SamePortionAssumed(i) == TRUE
SamePortion(i) == st.copy[i] = bytes.cells[i]
\* same_file_contents reads the file a second time.
ComparePortion ==
    /\ st.at = "compare"
    /\ IF ~SamePortion(st.next) THEN Refuse
       ELSE /\ st' = IF st.next < Portions THEN [st EXCEPT !.next = @ + 1] ELSE [st EXCEPT !.at = "check"]
            /\ UNCHANGED loaded
    /\ UNCHANGED <<task, bytes, named, history, writes, searching>>
\* The index is compared with what the path names, too.
StillNamed == named \/ task # "index"
Check ==
    /\ st.at = "check"
    /\ IF st.seen = bytes.stamp /\ StillNamed
       THEN st' = [st EXCEPT !.at = "map"] /\ UNCHANGED loaded
       ELSE Refuse
    /\ UNCHANGED <<task, bytes, named, history, writes, searching>>
\* The object has the data of the copy; the index keeps the shape it read first.
Kept == IF task = "index" THEN [st.copy EXCEPT ![1] = st.head] ELSE st.copy
\* The mapping, and the values of the copy, which must be finite.
Map ==
    /\ st.at = "map" /\ (Refuse \/ (loaded' = Kept /\ st' = [st EXCEPT !.at = "ended"]))
    /\ UNCHANGED <<task, bytes, named, history, writes, searching>>

----------------------------------------
(* search: thread w takes the queries w, w + Workers, ...                  *)

Busy(w) == worker[w] < Queries
SearchOne(w) ==
    /\ task = "search" /\ answer = "none" /\ Busy(w) /\ UNCHANGED <<task, loading, answer>>
    /\ IF failed THEN worker' = [worker EXCEPT ![w] = Queries] /\ UNCHANGED <<found, failed>>
       ELSE \/ /\ found' = found \cup {worker[w]} /\ UNCHANGED failed
               /\ worker' = [worker EXCEPT ![w] = @ + Workers]
            \/ \* An allocation fails in the thread.
               failed' = TRUE /\ worker' = [worker EXCEPT ![w] = Queries] /\ UNCHANGED found
\* FAULT: the calling thread does not wait for the others.
JoinedMine == ~Busy(0)
Joined == \A w \in DOMAIN worker : ~Busy(w)
Publish ==
    /\ task = "search" /\ answer = "none" /\ Joined
    /\ answer' = IF failed THEN "empty" ELSE "result"
    /\ UNCHANGED <<task, loading, found, failed, worker>>

SNext ==
    \/ ForeignStore \/ ForeignReplace \/ Open \/ ReadHeader \/ Clone \/ CopyPortion \/ ComparePortion \/ Check \/ Map
    \/ (\E w \in DOMAIN worker : SearchOne(w)) \/ Publish

SSpec == SInit /\ [][SNext]_svars

----------------------------------------
\* What was loaded is what the file held at one moment, its header included,
\* however writes and portions interleave, if the times showed every write.  If
\* they did not, the index has still the data of one moment, unless a write
\* brought earlier bytes back, and a header that the file has had; it may be
\* older than the data, as only the copy is compared with the file.
LoadedAtOneMoment ==
    loaded # <<>> =>
        /\ ~unshown => loaded \in was
        /\ task = "index" => \E u \in was : u[1] = loaded[1]
        /\ task = "index" /\ ~undone => \E u \in was : loaded = [u EXCEPT ![1] = loaded[1]]

\* A search publishes the neighbours of every query, or nothing.
SearchIsWhole == answer = "result" => found = 0..(Queries - 1)

\* Neither a writer beside the loader nor a thread that fails beside the others
\* leaves a part in place of the whole.
SnapshotsAreWhole == LoadedAtOneMoment /\ SearchIsWhole
=============================================================================
