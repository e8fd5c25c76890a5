----------------------------- MODULE MCDurable ------------------------------
(***************************************************************************)
(* What the service keeps on disk, in four instances that one run          *)
(* explores: the material of a voice and its readers (part "voice"), the   *)
(* stages of audio tasks (part "tasks"), a batch of recordings (part       *)
(* "upload"), and two calls that run children, with the death of the       *)
(* service (part "children").                                              *)
(***************************************************************************)
EXTENDS VoiceMaterial, AudioTasks, ProcessRunner, Uploads

VARIABLE part \* the instance

DurableInit ==
    /\ part \in {"voice", "tasks", "upload", "children"}
    /\ Init
    /\ TasksInit /\ (part = "tasks" \/ release = "now")
    /\ UploadsInit /\ (part = "upload" \/ (batch = <<>> /\ ~stereo /\ ~working))
    /\ RunnerInit /\ (part = "children" \/ leased = {})
DurableNext ==
    /\ UNCHANGED part
    /\ \/ part = "voice" /\ Next /\ UNCHANGED <<taskVars, uploadVars, runnerVars>>
       \/ part = "tasks" /\ TasksNext /\ UNCHANGED <<vars, uploadVars, runnerVars>>
       \/ part = "upload" /\ UploadsNext /\ UNCHANGED <<vars, taskVars, runnerVars>>
       \/ part = "children" /\ RunnerNext /\ UNCHANGED <<vars, taskVars, uploadVars>>
       \* An answered upload and calls that have returned are over.
       \/ part \in {"upload", "children"} /\ UNCHANGED <<vars, taskVars, uploadVars, runnerVars>>
DurableSpec == DurableInit /\ [][DurableNext]_<<part, vars, taskVars, uploadVars, runnerVars>>

----------------------------------------
\* What a child leaves is taken for what it is: one GPU worker at a time, a
\* success that is whole, and recordings that are complete.
ChildrenAreTrue == LeaseFollowsChild /\ ReturnIsClean /\ SuccessIsWhole /\ UploadsAreWhole
----------------------------------------
R(kind, song, mix, clean, edits) ==
    [kind |-> kind, song |-> song, mix |-> mix, clean |-> clean, edits |-> edits]
MCRecipes == {R("convert", TRUE, TRUE, FALSE, "plain"), R("convert", TRUE, FALSE, FALSE, "plain"),
              R("convert", TRUE, FALSE, FALSE, "edited"), R("convert", FALSE, FALSE, FALSE, "plain"),
              R("preview", TRUE, FALSE, FALSE, "edited"),
              R("preview", FALSE, FALSE, FALSE, "wide"), R("preprocess", TRUE, FALSE, FALSE, "plain")}
=============================================================================
