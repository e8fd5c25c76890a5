---------------------------- MODULE ProcessRunner ---------------------------
(***************************************************************************)
(* PosixProcessRunner::run (tools/web/workflow_support.cpp): a call opens  *)
(* the log, takes the lease of the GPU if it needs one, makes a pipe,      *)
(* spawns a child, reads the child's lines to the end, waits for it and    *)
(* returns.  Calls run on different threads and descriptors belong to the  *)
(* whole service, so a child could inherit those of another call.  One     *)
(* action is one system call.  A file is closed by the last process that   *)
(* has it, a lease is a flock and ends with its last descriptor.  Children *)
(* write as much as the pipe holds, end when they like, or never.  The     *)
(* service may die and start again; its children then go on.               *)
(*                                                                         *)
(* Abstracted: lines are counted, the filter lets every line through, a    *)
(* spawn is one step up to the exec, and a helper a child starts counts as *)
(* the child.                                                              *)
(* Operators marked FAULT are wrong on purpose: no action uses them, and   *)
(* the project's mutants put them in place of the operator they precede.   *)
(***************************************************************************)
EXTENDS Integers

CONSTANTS
    Calls,     \* calls of run
    Service,   \* the service, as a holder of descriptors
    MaxLines,  \* lines a child writes at most
    PipeRoom,  \* lines a pipe holds
    MaxDeaths  \* how often the service dies

ASSUME RunnerAssumption ==
    /\ Service \notin Calls
    /\ MaxLines \in Nat /\ PipeRoom \in Nat \ {0} /\ MaxDeaths \in Nat

VARIABLES
    leased,  \* the calls with a resource_lock: the CLIs that use the GPU
    call,    \* the calls: where they are, what they have read and what they return
    child,   \* their children
    output,  \* their output_pipe: lines in it, the read end, the holders of the write end
    lease,   \* the holders of the descriptor each call has locked
    deaths

runnerVars == <<leased, call, child, output, lease, deaths>>

NewCall == [pc |-> "idle", got |-> 0, thrown |-> FALSE, io |-> FALSE, end |-> "none"]
NoPipe == [lines |-> 0, reader |-> FALSE, writers |-> {}]

RunnerInit ==
    /\ leased \in SUBSET Calls
    /\ call = [r \in Calls |-> NewCall]
    /\ child = [r \in Calls |-> [is |-> "none", wrote |-> 0, status |-> "none"]]
    /\ output = [r \in Calls |-> NoPipe] /\ lease = [r \in Calls |-> {}] /\ deaths = 0

CallAt(r, pc) == call[r].pc = pc
CallTo(r, pc) == call' = [call EXCEPT ![r].pc = pc]
\* A launch that failed: every descriptor of the call is closed.
LaunchFails(r, end) ==
    /\ call' = [call EXCEPT ![r].pc = "done", ![r].end = end]
    /\ output' = [output EXCEPT ![r] = NoPipe] /\ lease' = [lease EXCEPT ![r] = {}]

----------------------------------------
(* Launching.                                                              *)

OpenLog(r) ==
    /\ CallAt(r, "idle") /\ UNCHANGED <<leased, child, deaths>>
    /\ \/ CallTo(r, IF r \in leased THEN "lock" ELSE "pipe") /\ UNCHANGED <<output, lease>>
       \/ LaunchFails(r, "launch")

\* Open and flock with LOCK_NB: EBUSY while anyone holds another descriptor of it.
Lock(r) ==
    /\ CallAt(r, "lock") /\ UNCHANGED <<leased, child, deaths>>
    /\ \/ /\ \A s \in Calls : lease[s] = {}
          /\ CallTo(r, "pipe") /\ lease' = [lease EXCEPT ![r] = {Service}] /\ UNCHANGED output
       \/ LaunchFails(r, "launch")

MakePipe(r) ==
    /\ CallAt(r, "pipe") /\ UNCHANGED <<leased, child, deaths>>
    /\ \/ /\ output' = [output EXCEPT ![r] = [lines |-> 0, reader |-> TRUE, writers |-> {Service}]]
          /\ CallTo(r, "spawn") /\ UNCHANGED lease
       \/ LaunchFails(r, "launch")

\* FAULT: descriptors without O_CLOEXEC.
HandedAll(r) ==
    [pipes |-> {s \in Calls : Service \in output[s].writers}, leases |-> {s \in Calls : Service \in lease[s]}]
\* FAULT: the lease stays close-on-exec.
HandedNoLease(r) == [pipes |-> {r}, leases |-> {}]
\* What the file actions leave open in the child of r: its output, and its lease.
Handed(r) == [pipes |-> {r}, leases |-> {r} \cap leased]

Spawn(r) ==
    /\ CallAt(r, "spawn") /\ UNCHANGED <<leased, deaths>>
    /\ \/ /\ child' = [child EXCEPT ![r].is = "live"] /\ CallTo(r, "spawned")
          /\ output' = [s \in Calls |-> IF s \in Handed(r).pipes
                                        THEN [output[s] EXCEPT !.writers = @ \cup {r}] ELSE output[s]]
          /\ lease' = [s \in Calls |-> IF s \in Handed(r).leases THEN lease[s] \cup {r} ELSE lease[s]]
       \/ LaunchFails(r, "exec") /\ UNCHANGED child
CloseWriteEnd(r) ==
    /\ CallAt(r, "spawned") /\ CallTo(r, "read")
    /\ output' = [output EXCEPT ![r].writers = @ \ {Service}]
    /\ UNCHANGED <<leased, child, lease, deaths>>

----------------------------------------
(* The child.                                                              *)

ChildLives(r) == child[r].is = "live"
WriteLine(r) ==
    /\ ChildLives(r) /\ output[r].reader /\ output[r].lines < PipeRoom /\ child[r].wrote < MaxLines
    /\ output' = [output EXCEPT ![r].lines = @ + 1] /\ child' = [child EXCEPT ![r].wrote = @ + 1]
    /\ UNCHANGED <<leased, call, lease, deaths>>
\* The end of a process closes whatever it has inherited.
Dropped(holders, p) == [s \in Calls |-> holders[s] \ {p}]
Closes(p) ==
    /\ output' = [s \in Calls |-> [output[s] EXCEPT !.writers = @ \ {p}]]
    /\ lease' = Dropped(lease, p)
\* A child whose parent has died, or that the parent has killed, leaves no zombie.
ChildEnds(r) ==
    /\ ChildLives(r) /\ Closes(r) /\ UNCHANGED <<leased, call, deaths>>
    /\ \E status \in {"zero", "nonzero", "signal"} :
         child' = [child EXCEPT ![r].status = status, ![r].is = IF CallAt(r, "lost") THEN "gone" ELSE "zombie"]

----------------------------------------
(* Reading, waiting, returning.                                            *)

\* FAULT: a call whose log or observer has failed stops reading.
ReadsUntilFault(r) == ~call[r].io /\ ~call[r].thrown
\* A failing log or observer does not stop the reading.
Reads(r) == TRUE

\* got counts the lines the observer has seen, until it throws, and the log has
\* taken, until it fails.
ReadLine(r) ==
    /\ CallAt(r, "read") /\ output[r].lines > 0 /\ Reads(r)
    /\ output' = [output EXCEPT ![r].lines = @ - 1]
    /\ \E throws, fails \in BOOLEAN :
         call' = [call EXCEPT ![r].thrown = @ \/ throws, ![r].io = @ \/ fails,
                              ![r].got = IF call[r].thrown \/ throws \/ call[r].io \/ fails THEN @ ELSE @ + 1]
    /\ UNCHANGED <<leased, child, lease, deaths>>
\* The end of file: nothing in the pipe, and nobody who could write.
ReadEnds(r) ==
    /\ CallAt(r, "read") /\ Reads(r) /\ output[r].lines = 0 /\ output[r].writers = {}
    /\ CallTo(r, "wait") /\ output' = [output EXCEPT ![r] = NoPipe]
    /\ UNCHANGED <<leased, child, lease, deaths>>
ReadFails(r) ==
    /\ CallAt(r, "read") /\ call' = [call EXCEPT ![r].pc = "wait", ![r].io = TRUE]
    /\ output' = [output EXCEPT ![r].reader = FALSE, ![r].lines = 0]
    /\ UNCHANGED <<leased, child, lease, deaths>>

EndOf(status) ==
    CASE status = "zero" -> "success" [] status = "nonzero" -> "failure" [] status = "signal" -> "signaled"
Wait(r) ==
    /\ CallAt(r, "wait") /\ child[r].is = "zombie" /\ child' = [child EXCEPT ![r].is = "gone"]
    /\ call' = [call EXCEPT ![r].pc = "return", ![r].end = EndOf(child[r].status)]
    /\ UNCHANGED <<leased, output, lease, deaths>>
WaitFails(r) ==
    /\ CallAt(r, "wait") /\ call' = [call EXCEPT ![r].pc = "return", ![r].end = "wait"]
    /\ UNCHANGED <<leased, child, output, lease, deaths>>

\* FAULT: an observer that threw is forgotten.
FaultOfLog(r) == call[r].io
Fault(r) == call[r].io \/ call[r].thrown
\* FAULT: a child that could not be waited for is left alone.
LeftAlone(r) == UNCHANGED <<child, output>> /\ lease' = [lease EXCEPT ![r] = @ \ {Service}]
\* ChildProcessGuard kills and reaps a child that is not known to have ended.
Guard(r) ==
    IF call[r].end = "wait"
    THEN /\ child' = [child EXCEPT ![r].is = "gone",
                                   ![r].status = IF ChildLives(r) THEN "signal" ELSE @]
         /\ output' = [s \in Calls |-> [output[s] EXCEPT !.writers = @ \ {r}]]
         /\ lease' = [s \in Calls |-> lease[s] \ (IF s = r THEN {r, Service} ELSE {r})]
    ELSE UNCHANGED <<child, output>> /\ lease' = [lease EXCEPT ![r] = @ \ {Service}]
Return(r) ==
    /\ CallAt(r, "return") /\ Guard(r) /\ UNCHANGED <<leased, deaths>>
    /\ \E closes \in BOOLEAN : call' = [call EXCEPT ![r].pc = "done", ![r].io = Fault(r) \/ ~closes]

----------------------------------------
(* The death of the service, and the specification.                        *)

\* All its descriptors are closed; calls that had not returned are lost.
ServiceDies ==
    /\ deaths < MaxDeaths /\ deaths' = deaths + 1 /\ UNCHANGED leased
    /\ call' = [r \in Calls |-> IF call[r].pc \in {"idle", "done"} THEN call[r] ELSE [NewCall EXCEPT !.pc = "lost"]]
    /\ child' = [r \in Calls |-> IF child[r].is = "zombie" THEN [child[r] EXCEPT !.is = "gone"] ELSE child[r]]
    /\ output' = [r \in Calls |-> [lines |-> 0, reader |-> FALSE, writers |-> output[r].writers \ {Service}]]
    /\ lease' = Dropped(lease, Service)

Proceeds(r) ==
    \/ OpenLog(r) \/ Lock(r) \/ MakePipe(r) \/ Spawn(r) \/ CloseWriteEnd(r)
    \/ ReadLine(r) \/ ReadEnds(r) \/ Wait(r) \/ Return(r)
RunnerNext ==
    \/ ServiceDies
    \/ \E r \in Calls : Proceeds(r) \/ ReadFails(r) \/ WaitFails(r) \/ WriteLine(r) \/ ChildEnds(r)
\* The thread of a call goes on once it has begun.  Nothing is assumed of a
\* child, nor that a read or a wait fails.
RunnerFairness == \A r \in Calls : WF_runnerVars(~CallAt(r, "idle") /\ Proceeds(r))

----------------------------------------
(* Properties.                                                             *)

\* workflow_support.h:43: no GPU worker is spawned while another lives, be it
\* one that a dead service has left.
LeaseFollowsChild == \A r, s \in leased : r # s => ~(ChildLives(r) /\ ChildLives(s))
\* workflow_support.h:50: a call that returns, with whatever result, has drained
\* and reaped its child, and leaves no descriptor behind.
ReturnIsClean ==
    \A r \in Calls : CallAt(r, "done") =>
        /\ child[r].is \in {"none", "gone"} /\ lease[r] = {}
        /\ ~output[r].reader /\ output[r].writers = {}
\* ProcessResult::success: the child has ended with zero, and every line that
\* it wrote was seen by the observer and is in the log, in a call with no fault.
SuccessIsWhole ==
    \A r \in Calls : CallAt(r, "done") /\ call[r].end = "success" /\ ~call[r].io =>
        child[r].status = "zero" /\ call[r].got = child[r].wrote
\* A call whose child has ended returns, whatever the children of other calls do.
RunsReturn ==
    \A r \in Calls : call[r].pc \in {"spawned", "read", "wait", "return"} /\ ~ChildLives(r) ~> call[r].pc \in {"done", "lost"}
\* A child that waits for room in the pipe is not left waiting: not even by a
\* call whose log or observer has failed.
WritersGoOn ==
    \A r \in Calls :
        ChildLives(r) /\ output[r].reader /\ output[r].lines = PipeRoom
            ~> ~(ChildLives(r) /\ output[r].reader /\ output[r].lines = PipeRoom)
=============================================================================
