---------------------------- MODULE TaskContract ----------------------------
(***************************************************************************)
(* What the durable task lifecycle promises its clients, without threads,  *)
(* files or processes: a task is executed by numbered attempts, at most    *)
(* one task is active, an attempt either installs a result or accepts a    *)
(* request to stop, never both, and success is the last state.             *)
(***************************************************************************)
EXTENDS Naturals

CONSTANT Tasks

VARIABLES
    life,    \* none, active, stopped (resumable or not), succeeded
    attempt, \* number of the latest attempt
    result,  \* the attempt that installed the result, 0 for none
    asked    \* the attempts that were asked to stop

vars == <<life, attempt, result, asked>>

NoneActive == \A t \in Tasks : life[t] # "active"

Init ==
    /\ life = [t \in Tasks |-> "none"]
    /\ attempt = [t \in Tasks |-> 0]
    /\ result = [t \in Tasks |-> 0]
    /\ asked = {}

Begin(t) ==
    /\ NoneActive
    /\ life[t] \in {"none", "stopped"}
    /\ life' = [life EXCEPT ![t] = "active"]
    /\ attempt' = [attempt EXCEPT ![t] = @ + 1]
    /\ UNCHANGED <<result, asked>>

AskToStop(t) ==
    /\ life[t] = "active" /\ result[t] # attempt[t]
    /\ asked' = asked \cup {<<t, attempt[t]>>}
    /\ UNCHANGED <<life, attempt, result>>

Install(t) ==
    /\ life[t] = "active" /\ <<t, attempt[t]>> \notin asked
    /\ result' = [result EXCEPT ![t] = attempt[t]]
    /\ UNCHANGED <<life, attempt, asked>>

Succeed(t) ==
    /\ life[t] = "active" /\ result[t] = attempt[t]
    /\ life' = [life EXCEPT ![t] = "succeeded"]
    /\ UNCHANGED <<attempt, result, asked>>

Stop(t) ==
    /\ life[t] = "active"
    /\ life' = [life EXCEPT ![t] = "stopped"]
    /\ UNCHANGED <<attempt, result, asked>>

Next == \E t \in Tasks : Begin(t) \/ AskToStop(t) \/ Install(t) \/ Succeed(t) \/ Stop(t)

Spec == Init /\ [][Next]_vars
=============================================================================
