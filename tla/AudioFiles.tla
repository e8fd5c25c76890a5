----------------------------- MODULE AudioFiles -----------------------------
(***************************************************************************)
(* The three files of a bounded conversion (src/io/bounded_audio_io.cpp):  *)
(* WavChunkReader reads an input that another process may rewrite at any   *)
(* time, RawSampleSpoolStorage keeps samples in a temporary file, and      *)
(* AtomicWavStreamWriter (or write_wav and its StagedFile in audio_io.cpp) *)
(* writes beside the target and renames.  A file is a sequence of cells;   *)
(* its identity (inode, size, times) is a stamp that every write changes.  *)
(* One behaviour uses one of the three.                                    *)
(*                                                                         *)
(* Operators marked FAULT are wrong on purpose: no action uses them, and   *)
(* the project's mutants put them in place of the operator they precede.   *)
(***************************************************************************)
EXTENDS Integers, Sequences, SequencesExt

CONSTANTS
    InputFrames,    \* frames of the input when it is opened
    Portion,        \* frames of one pread (kDecodeBufferBytes)
    Expected,       \* samples the writer is opened for
    MaxForeign,     \* writes by other processes that are tried
    MaxCalls        \* calls that are tried

ASSUME AudioFilesAssumption ==
    InputFrames \in Nat /\ Portion \in Nat \ {0} /\ Expected \in Nat /\ MaxForeign \in Nat /\ MaxCalls \in Nat

Old == <<"old">>

VARIABLES
    use,        \* "read", "spool", "stream" or "whole": the class in use
    file,       \* the open file: cells and stamp
    opened,     \* what the object remembers: cells (ghost), stamp, is it open
    call,       \* the call in progress
    answered,     \* what the last call returned
    partial,    \* a staging or spool file has a name in the directory
    durable,    \* the staging file's cells are on the disk
    destination,     \* the target: Old, or the cells of the file renamed onto it
    onDisk,     \* the targets that a loss of power may leave
    calls, foreign

filesVars == <<use, file, opened, call, answered, partial, durable, destination, onDisk, calls, foreign>>
NoFile == [op |-> "none"]
Nothing == [ok |-> FALSE, first |-> 1, got |-> <<>>]
Closed == [open |-> FALSE, failed |-> FALSE, stamp |-> -1, cells |-> <<>>]
Header(final) == IF final THEN "sizes" ELSE "zero sizes"

FilesInit ==
    /\ use \in {"read", "spool", "stream", "whole"}
    /\ file = [cells |-> IF use = "read" THEN [i \in 1..InputFrames |-> 0] ELSE <<>>, stamp |-> 0]
    /\ opened = Closed /\ call = NoFile /\ answered = Nothing
    /\ partial = FALSE /\ durable = FALSE /\ destination = Old /\ onDisk = {Old} /\ calls = 0 /\ foreign = 0

Same == opened.stamp = file.stamp
Begin(c) == call = NoFile /\ calls < MaxCalls /\ calls' = calls + 1 /\ call' = c
Give(first, got) == call' = NoFile /\ answered' = [ok |-> TRUE, first |-> first, got |-> got]
Return(ok) == call' = NoFile /\ answered' = [Nothing EXCEPT !.ok = ok]
content == <<partial, durable, destination, onDisk>>

----------------------------------------
(* The input and its reader.                                               *)

\* Another process overwrites a cell, appends to the input or cuts it off.
ForeignWrite ==
    /\ foreign < MaxForeign /\ foreign' = foreign + 1
    /\ use = "read" \/ (use = "spool" /\ call.op # "append")
    /\ opened.open \/ use = "read"
    /\ \E cells \in {[file.cells EXCEPT ![i] = foreign'] : i \in DOMAIN file.cells}
                    \cup {Append(file.cells, foreign')}
                    \cup {SubSeq(file.cells, 1, k) : k \in 0..(Len(file.cells) - 1)} :
            file' = [cells |-> cells, stamp |-> file.stamp + 1]
    /\ UNCHANGED <<use, opened, call, answered, content, calls>>

\* open: the identity, the chunks, the identity again.
OpenBegin ==
    /\ use = "read" /\ Begin([op |-> "open", stamp |-> file.stamp, cells |-> file.cells])
    /\ opened' = Closed /\ answered' = Nothing /\ UNCHANGED <<use, file, content, foreign>>
OpenEnd ==
    /\ call.op = "open" /\ Return(call.stamp = file.stamp)
    /\ opened' = IF call.stamp = file.stamp
                 THEN [open |-> TRUE, failed |-> FALSE, stamp |-> call.stamp, cells |-> call.cells]
                 ELSE Closed
    /\ UNCHANGED <<use, file, content, calls, foreign>>

\* read_mono_frames: the identity before, the preads, the identity after.
ReadBegin ==
    /\ use = "read" /\ opened.open
    /\ \E first \in 1..(Len(opened.cells) + 1), count \in 0..Len(opened.cells) :
        IF ~Same THEN /\ call = NoFile /\ calls < MaxCalls /\ calls' = calls + 1 /\ opened' = Closed
                      /\ Return(FALSE)
        ELSE /\ UNCHANGED opened
             /\ IF first + count - 1 > Len(opened.cells)
                THEN call = NoFile /\ calls < MaxCalls /\ calls' = calls + 1 /\ Return(FALSE)
                ELSE Begin([op |-> "read", next |-> first, last |-> first + count - 1, first |-> first,
                            got |-> <<>>]) /\ UNCHANGED answered
    /\ UNCHANGED <<use, file, content, foreign>>
ReadPortion ==
    LET last == IF call.next + Portion - 1 < call.last THEN call.next + Portion - 1 ELSE call.last
    IN /\ call.op = "read" /\ call.next <= call.last
       /\ IF last > Len(file.cells) THEN opened' = Closed /\ Return(FALSE)
          ELSE /\ call' = [call EXCEPT !.next = last + 1, !.got = @ \o SubSeq(file.cells, call.next, last)]
               /\ UNCHANGED <<opened, answered>>
       /\ UNCHANGED <<use, file, content, calls, foreign>>
\* FAULT: what was read is returned as it is.
UnchangedSince(now) == TRUE
\* verify_unchanged: the file is still the one that was opened.
VerifyUnchanged(now) == opened.stamp = now
ReadEnd ==
    /\ call.op = "read" /\ call.next > call.last
    /\ IF VerifyUnchanged(file.stamp) THEN Give(call.first, call.got) /\ UNCHANGED opened
       ELSE Return(FALSE) /\ opened' = Closed
    /\ UNCHANGED <<use, file, content, calls, foreign>>

----------------------------------------
(* The spool.                                                              *)

Create ==
    /\ use = "spool" /\ calls < MaxCalls /\ call = NoFile /\ ~opened.open /\ ~opened.failed
    /\ calls' = calls + 1 /\ opened' = [Closed EXCEPT !.open = TRUE, !.stamp = file.stamp]
    /\ partial' = TRUE
    /\ UNCHANGED <<use, file, call, answered, durable, destination, onDisk, foreign>>

\* An error is remembered: nothing is read or appended afterwards.
CallFails(o) == [o EXCEPT !.open = FALSE, !.failed = TRUE]

\* append_storage: the identity, the pwrite, the size.
AppendBegin ==
    /\ use = "spool" /\ opened.open
    /\ \E count \in 1..2 :
        IF Same THEN /\ Begin([op |-> "append", count |-> count])
                     /\ UNCHANGED <<opened, answered>>
        ELSE /\ call = NoFile /\ calls < MaxCalls /\ calls' = calls + 1 /\ Return(FALSE)
             /\ opened' = CallFails(opened)
    /\ UNCHANGED <<use, file, content, foreign>>
\* The disk takes some of the samples, or all of them.
AppendWrite ==
    /\ call.op = "append"
    /\ \E done \in 0..call.count :
        LET new == [i \in 1..done |-> 10 * calls + i]
            at == Len(opened.cells)
        IN /\ file' = [cells |-> SubSeq(file.cells, 1, at) \o new, stamp |-> file.stamp + 1]
           /\ IF done = call.count
              THEN /\ Return(TRUE)
                   /\ opened' = [opened EXCEPT !.cells = @ \o new, !.stamp = file'.stamp]
              ELSE Return(FALSE) /\ opened' = CallFails(opened)
    /\ UNCHANGED <<use, content, calls, foreign>>

\* read_storage is the same three steps with the spool's own error.
SpoolRead ==
    /\ use = "spool" /\ opened.open
    /\ \E first \in 1..(Len(opened.cells) + 1), count \in 0..Len(opened.cells) :
        /\ first + count - 1 <= Len(opened.cells)
        /\ IF Same THEN /\ Begin([op |-> "fetch", first |-> first, last |-> first + count - 1])
                        /\ UNCHANGED <<opened, answered>>
           ELSE /\ call = NoFile /\ calls < MaxCalls /\ calls' = calls + 1 /\ Return(FALSE)
                /\ opened' = CallFails(opened)
    /\ UNCHANGED <<use, file, content, foreign>>
SpoolFetch ==
    /\ call.op = "fetch"
    /\ IF call.last > Len(file.cells) THEN Return(FALSE) /\ opened' = CallFails(opened)
       ELSE /\ call' = [op |-> "fetched", first |-> call.first, got |-> SubSeq(file.cells, call.first, call.last)]
            /\ UNCHANGED <<opened, answered>>
    /\ UNCHANGED <<use, file, content, calls, foreign>>
SpoolReadEnd ==
    /\ call.op = "fetched"
    /\ IF Same THEN Give(call.first, call.got) /\ UNCHANGED opened
       ELSE Return(FALSE) /\ opened' = CallFails(opened)
    /\ UNCHANGED <<use, file, content, calls, foreign>>

----------------------------------------
(* The writers.  "stream" writes a header of zeros, appends, and puts the  *)
(* sizes in at the commit; "whole" writes header and samples in one go.    *)

Complete(cells) == Len(cells) = Expected + 1 /\ cells[1] = Header(TRUE)

\* FAULT: the staging file stays behind.
LeaveStaging == UNCHANGED partial
\* ~State and ~StagedFile remove the staging file if it is still theirs.
RemoveStaging == partial' = FALSE
Abort ==
    /\ RemoveStaging /\ opened' = Closed /\ Return(FALSE)
    /\ UNCHANGED <<file, durable, destination, onDisk>>

WriterOpen ==
    /\ use \in {"stream", "whole"} /\ ~opened.open /\ Begin([op |-> "write"])
    /\ opened' = [Closed EXCEPT !.open = TRUE, !.stamp = 1]
    /\ file' = [cells |-> <<Header(use = "whole")>>, stamp |-> 1] /\ partial' = TRUE /\ durable' = FALSE
    /\ UNCHANGED <<use, answered, destination, onDisk, foreign>>

\* append_impl refuses a sample that is not finite or more than expected.
WriterAppend ==
    /\ call.op = "write" /\ Len(file.cells) <= Expected
    /\ \/ /\ file' = [cells |-> Append(file.cells, "sample"), stamp |-> file.stamp + 1]
          /\ opened' = [opened EXCEPT !.stamp = file'.stamp]
          /\ UNCHANGED <<call, answered, partial, durable, destination, onDisk>>
       \/ Abort
    /\ UNCHANGED <<use, calls, foreign>>

\* commit: the count, the sizes, then the disk.
CommitHeader ==
    /\ call.op = "write" /\ UNCHANGED <<use, calls, foreign>>
    /\ IF Len(file.cells) # Expected + 1 THEN use = "stream" /\ Abort
       ELSE /\ call' = [op |-> "sync"]
            /\ file' = [cells |-> [file.cells EXCEPT ![1] = Header(TRUE)], stamp |-> file.stamp + 1]
            /\ UNCHANGED <<opened, answered, partial, durable, destination, onDisk>>
\* FAULT: the file is renamed before it is on the disk.
SyncLater == UNCHANGED durable
SyncFile == durable' = TRUE
CommitSync ==
    /\ call.op = "sync" /\ UNCHANGED <<use, calls, foreign>>
    /\ \/ SyncFile /\ call' = [op |-> "rename"] /\ UNCHANGED <<file, opened, answered, partial, destination, onDisk>>
       \/ Abort
\* Nobody can undo the rename: what the directory sync says is not reported.
CommitRename ==
    /\ call.op = "rename" /\ UNCHANGED <<use, calls, foreign>>
    /\ \/ /\ partial' = FALSE /\ opened' = Closed /\ destination' = file.cells /\ Return(TRUE)
          /\ \E synced \in BOOLEAN :
                onDisk' = {IF durable THEN file.cells ELSE <<>>}
                          \cup (IF synced /\ use = "stream" THEN {} ELSE onDisk)
          /\ UNCHANGED <<file, durable>>
       \/ Abort

\* After the power is back the rename has happened or not; cells that were not
\* synced are gone.
PowerLoss ==
    /\ use \in {"stream", "whole"} /\ calls' = MaxCalls + 1 /\ calls <= MaxCalls
    /\ \E after \in onDisk : destination' = after /\ onDisk' = {after}
    /\ call' = NoFile /\ opened' = Closed /\ answered' = Nothing /\ partial' = FALSE
    /\ UNCHANGED <<use, file, durable, foreign>>

ReadSome == OpenBegin \/ OpenEnd \/ ReadBegin \/ ReadPortion \/ ReadEnd
Spool == Create \/ AppendBegin \/ AppendWrite \/ SpoolRead \/ SpoolFetch \/ SpoolReadEnd
Write == WriterOpen \/ WriterAppend \/ CommitHeader \/ CommitSync \/ CommitRename
FilesNext == ReadSome \/ Spool \/ Write \/ ForeignWrite \/ PowerLoss
FilesSpec == FilesInit /\ [][FilesNext]_filesVars

----------------------------------------
\* Frames that a reader or a spool has returned are those of the file that was
\* opened and of the samples that were appended, in their places, whoever
\* rewrites the file between and during the reads, and after an append that
\* stopped in the middle; otherwise nothing is returned.
ReadsAreTrue ==
    answered.ok => answered.got = SubSeq(opened.cells, answered.first, answered.first + Len(answered.got) - 1)

\* The target is the old file or a complete one, also after a loss of power: the
\* rename comes after the sync of the samples and of the sizes.
WavIsOldOrWhole == \A t \in {destination} \cup onDisk : t # Old => Complete(t)

\* A call that has ended leaves no staging file, and says that the target was
\* replaced exactly when it was.
NothingIsLeft ==
    use \in {"stream", "whole"} /\ call = NoFile /\ calls <= MaxCalls =>
        ~partial /\ (answered.ok => destination # Old)

\* What is read is the file that was opened, and what is written is whole or
\* not there, whatever others write and wherever the power fails.
FilesAreTrue == ReadsAreTrue /\ WavIsOldOrWhole /\ NothingIsLeft
=============================================================================
