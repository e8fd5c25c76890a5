------------------------------ MODULE MCServing -----------------------------
(***************************************************************************)
(* What the service does for one request, in four small instances that     *)
(* one run explores: the swap of a voice's directories (part "swap"),      *)
(* connections and their memory (part "http"), a submission and its        *)
(* retries (part "page"), and two calls that run children, one with the    *)
(* lease of the GPU (part "children").                                     *)
(***************************************************************************)
EXTENDS ArtifactSwap, HttpTransport, Submissions, ProcessRunner

VARIABLE part \* the instance

ServingInit ==
    /\ part \in {"swap", "http", "page", "children"}
    /\ Init /\ (part = "swap" \/ had = {})
    /\ HttpInit
    /\ PageInit /\ (part = "page" \/ running = "none")
    /\ RunnerInit /\ leased = {CHOOSE r \in Calls : TRUE}
ServingNext ==
    /\ UNCHANGED part
    /\ \/ part = "swap" /\ Next /\ UNCHANGED <<httpVars, pageVars, runnerVars>>
       \/ part = "http" /\ HttpNext /\ UNCHANGED <<vars, pageVars, runnerVars>>
       \/ part = "page" /\ PageNext /\ UNCHANGED <<vars, httpVars, runnerVars>>
       \/ part = "children" /\ RunnerNext /\ UNCHANGED <<vars, httpVars, pageVars>>
ServingVars == <<part, vars, httpVars, pageVars, runnerVars>>
\* Each part is as fair as its component; a swap needs no fairness, and calls
\* that have not begun give none.
ServingFairness ==
    \/ part = "http" /\ HttpFairness
    \/ part = "page" /\ PageFairness
    \/ part \in {"swap", "children"} /\ RunnerFairness
ServingSpec == ServingInit /\ [][ServingNext]_ServingVars /\ ServingFairness

----------------------------------------
\* Whatever a client, the network or a child does, the service and the page go
\* on: connections end, hints are settled, calls whose child has ended return,
\* and a child that writes is read.
NothingHangs == ConnectionsEnd /\ HintsSettle /\ RunsReturn /\ WritersGoOn
=============================================================================
