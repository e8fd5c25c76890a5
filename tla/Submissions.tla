---------------------------- MODULE Submissions ----------------------------
(***************************************************************************)
(* How the page submits background work (webui/tasks.js): an identifier    *)
(* made in the browser, a hint of it in the browser's storage, the request *)
(* to the service, which may be lost on the way there or on the way back,  *)
(* the retry, and the poll that finds out what became of it.  The browser  *)
(* runs one piece of script at a time; every await is a step boundary.     *)
(*                                                                         *)
(* Operators marked FAULT are wrong on purpose: no action uses them, and   *)
(* the project's mutants put them in place of the operator they precede.   *)
(***************************************************************************)
EXTENDS Integers, FiniteSets

CONSTANTS
    Ids,        \* identifiers the browser makes, one for each submission
    MaxReloads  \* how often the page is reloaded

VARIABLES
    has,      \* the tasks the service has recorded
    running,   \* the task that runs there: one of Ids, of somebody else, or none
    late,     \* requests the page has given up and the service has yet to handle
    started,  \* how often each submission has been started
    pending, stored,  \* the hints: in the page, and in the browser's storage
    known,     \* tasks whose record the service has shown to the page
    told,     \* submissions the page has reported as rejected
    resent,   \* posted again while an earlier request was still under way
    busy,     \* the page's view of the service
    tx,       \* transmit: the one of submit, the one of retrySubmission
    rf,       \* refresh
    timer, reloads

pageVars == <<has, running, late, started, pending, stored, known, told, resent, busy, tx, rf, timer, reloads>>
service == <<has, running, started>>
page == <<pending, stored, known, told>>

None == "none"
Still == [pc |-> "idle", id |-> None, answer |-> None]
Resting == [pc |-> "idle", todo |-> {}, id |-> None, answer |-> None]
Senders == {"submit", "retry"}

PageInit ==
    /\ has = {} /\ running \in {None, "other"} /\ late = {} /\ started = [i \in Ids |-> 0]
    /\ pending = {} /\ stored = {} /\ known = {} /\ told = {} /\ resent = {}
    /\ busy = FALSE /\ tx = [s \in Senders |-> Still]
    /\ rf = [Resting EXCEPT !.pc = "list"] /\ timer = FALSE /\ reloads = 0

----------------------------------------
(* The service: reserve_job and start_audio_task.                          *)

\* FAULT: an identifier that was used before is taken for a new one.
TakenNever(id) == FALSE
\* TaskStore::save of a new record fails when there is one already.
Taken(id) == id \in has

\* Accepted; refused before anything is recorded; recorded and then failed.
Decide(id, answer) ==
    IF running # None \/ Taken(id) THEN answer = "conflict" /\ UNCHANGED service
    ELSE \/ /\ answer = "accepted" /\ has' = has \cup {id} /\ running' = id
            /\ started' = [started EXCEPT ![id] = @ + 1]
         \/ answer = "refused" /\ UNCHANGED service
         \/ answer = "error" /\ has' \in {has, has \cup {id}} /\ UNCHANGED <<running, started>>

Answers == {"accepted", "conflict", "refused", "error"}
Serve(s) ==
    /\ tx[s].pc = "posted" /\ tx[s].answer = None
    /\ \E answer \in Answers : Decide(tx[s].id, answer) /\ tx' = [tx EXCEPT ![s].answer = answer]
    /\ UNCHANGED <<late, page, resent, busy, rf, timer, reloads>>
\* Nobody waits for this answer any more.
ServeLate(id) ==
    /\ id \in late /\ late' = late \ {id} /\ \E answer \in Answers : Decide(id, answer)
    /\ UNCHANGED <<page, resent, busy, tx, rf, timer, reloads>>
Found(id) == IF id \in has THEN "found" ELSE "missing"
ServeLookup(s) ==
    /\ tx[s].pc \in {"verify", "check"} /\ tx[s].answer = None
    /\ tx' = [tx EXCEPT ![s].answer = Found(tx[s].id)]
    /\ UNCHANGED <<service, late, page, resent, busy, rf, timer, reloads>>
ServeRefresh ==
    /\ rf.pc \in {"list", "ask"} /\ rf.answer = None
    /\ rf' = [rf EXCEPT !.answer = IF rf.pc = "list" THEN (IF running = None THEN "free" ELSE "busy")
                                   ELSE Found(rf.id)]
    /\ UNCHANGED <<service, late, page, resent, busy, tx, timer, reloads>>
\* Other clients' work, and the end of a job.
OtherWork ==
    /\ running' = IF running = None THEN "other" ELSE None
    /\ UNCHANGED <<has, started, late, page, resent, busy, tx, rf, timer, reloads>>

----------------------------------------
(* submit, transmit and retrySubmission.                                   *)

Forget(ids) == pending' = pending \ ids /\ stored' = pending'
IsBusy == busy \/ pending # {}

\* The hints are saved before the request leaves.
Submit(id) ==
    /\ ~IsBusy /\ tx["submit"] = Still /\ id \notin known \cup told \cup resent \cup has \cup late
    /\ \A s \in Senders : tx[s].id # id
    /\ pending' = pending \cup {id} /\ stored' = pending' /\ busy' = TRUE
    /\ tx' = [tx EXCEPT !["submit"] = [pc |-> "posted", id |-> id, answer |-> None]]
    /\ UNCHANGED <<service, late, known, told, resent, rf, timer, reloads>>

\* The end of transmit: refresh, unless one is under way.
ThenRefresh ==
    IF rf.pc = "idle" THEN rf' = [Resting EXCEPT !.pc = "list"] /\ timer' = FALSE ELSE UNCHANGED <<rf, timer>>

\* FAULT: no answer is taken for a rejection.
RetiresAny(answer) == answer \in {"refused", "error", None}
\* Only a definite rejection retires the hint.
Retires(answer) == answer = "refused"

TransmitAnswered(s) ==
    LET id == tx[s].id
        answer == tx[s].answer
    IN /\ tx[s].pc = "posted" /\ answer # None
       /\ IF answer = "conflict"
          THEN tx' = [tx EXCEPT ![s] = [pc |-> "verify", id |-> id, answer |-> None]] /\ UNCHANGED <<page, rf, timer>>
          ELSE /\ tx' = [tx EXCEPT ![s] = Still] /\ ThenRefresh
               /\ IF answer = "accepted" \/ Retires(answer) THEN Forget({id}) ELSE UNCHANGED <<pending, stored>>
               /\ known' = IF answer = "accepted" THEN known \cup {id} ELSE known
               /\ told' = IF Retires(answer) THEN told \cup {id} ELSE told
       /\ UNCHANGED <<service, late, resent, busy, reloads>>
\* The request or its answer is lost, or the 15 seconds are over: the
\* service may have it, and handle it later.
TransmitLost(s) ==
    LET id == tx[s].id
    IN /\ tx[s].pc = "posted" /\ tx' = [tx EXCEPT ![s] = Still] /\ ThenRefresh
       /\ late' \in {late, IF tx[s].answer = None THEN late \cup {id} ELSE late}
       /\ IF Retires(None) THEN Forget({id}) /\ told' = told \cup {id} ELSE UNCHANGED <<pending, stored, told>>
       /\ UNCHANGED <<service, known, resent, busy, reloads>>
\* The lookup behind a conflict: is it this very submission that is there?
VerifyEnds(s) ==
    LET id == tx[s].id
    IN /\ tx[s].pc = "verify" /\ tx' = [tx EXCEPT ![s] = Still] /\ ThenRefresh
       /\ \/ tx[s].answer = "missing" /\ Forget({id}) /\ told' = told \cup {id}
          \/ UNCHANGED <<pending, stored, told>>
       /\ UNCHANGED <<service, late, known, resent, busy, reloads>>

\* The retry asks first, and sends again what is not there.
Retry ==
    /\ tx["retry"] = Still
    /\ \E id \in pending : tx' = [tx EXCEPT !["retry"] = [pc |-> "check", id |-> id, answer |-> None]]
    /\ UNCHANGED <<service, late, page, resent, busy, rf, timer, reloads>>
\* What is not there is posted again under the same identifier.
RetryChecked ==
    LET id == tx["retry"].id
    IN /\ tx["retry"].pc = "check"
       /\ \/ /\ tx["retry"].answer = "found" /\ tx' = [tx EXCEPT !["retry"] = Still]
             /\ Forget({id}) /\ known' = known \cup {id} /\ ThenRefresh
             /\ UNCHANGED <<told, resent>>
          \/ /\ tx["retry"].answer = "missing" /\ id \in pending
             /\ tx' = [tx EXCEPT !["retry"] = [pc |-> "posted", id |-> id, answer |-> None]]
             /\ resent' = IF id \in late \/ tx["submit"].id = id THEN resent \cup {id} ELSE resent
             /\ UNCHANGED <<page, rf, timer>>
          \/ tx' = [tx EXCEPT !["retry"] = Still] /\ UNCHANGED <<page, resent, rf, timer>>
       /\ UNCHANGED <<service, late, busy, reloads>>

----------------------------------------
(* refresh: the list, then every hint.                                     *)

RefreshBegins ==
    /\ rf.pc = "idle" /\ timer
    /\ rf' = [Resting EXCEPT !.pc = "list"] /\ timer' = FALSE
    /\ UNCHANGED <<service, late, page, resent, busy, tx, reloads>>
Asking(todo) ==
    IF todo = {} THEN Resting
    ELSE LET id == CHOOSE i \in todo : TRUE IN [pc |-> "ask", todo |-> todo \ {id}, id |-> id, answer |-> None]
ListArrives ==
    /\ rf.pc = "list" /\ rf.answer # None
    /\ busy' = (rf.answer = "busy") /\ rf' = Asking(pending) /\ timer' = (rf'.pc = "idle")
    /\ UNCHANGED <<service, late, page, resent, tx, reloads>>
HintArrives ==
    /\ rf.pc = "ask" /\ rf.answer # None
    /\ rf' = Asking(rf.todo) /\ timer' = (rf'.pc = "idle")
    /\ IF rf.answer = "found" THEN Forget({rf.id}) /\ known' = known \cup {rf.id} ELSE UNCHANGED <<pending, stored, known>>
    /\ UNCHANGED <<service, late, told, resent, busy, tx, reloads>>
\* FAULT: a failed poll is the last one.
RefreshFailsForGood == rf.pc # "idle" /\ rf' = Resting /\ UNCHANGED <<service, late, page, resent, busy, tx, timer, reloads>>
\* The answer is lost; the timer is set all the same.
RefreshFails == rf.pc # "idle" /\ rf' = Resting /\ timer' = TRUE /\ UNCHANGED <<service, late, page, resent, busy, tx, reloads>>

\* FAULT: the hints are kept in the page only.
RestoredNothing == {}
\* The hints of the browser's storage.
Restored == stored
\* The page is loaded again: only the storage survives.
Reload ==
    /\ reloads < MaxReloads /\ reloads' = reloads + 1
    /\ pending' = Restored /\ stored' = Restored /\ busy' = FALSE /\ timer' = FALSE
    /\ rf' = [Resting EXCEPT !.pc = "list"] /\ tx' = [s \in Senders |-> Still]
    /\ late' \in SUBSET (late \cup {tx[s].id : s \in {x \in Senders : tx[x].pc = "posted" /\ tx[x].answer = None}})
    /\ late \subseteq late'
    /\ UNCHANGED <<service, known, told, resent>>

Send == \E s \in Senders : Serve(s) \/ ServeLookup(s) \/ TransmitAnswered(s) \/ TransmitLost(s) \/ VerifyEnds(s)
Poll == RefreshBegins \/ ServeRefresh \/ ListArrives \/ HintArrives \/ RefreshFails
PageNext ==
    \/ \E id \in Ids : Submit(id) \/ ServeLate(id)
    \/ Send \/ Retry \/ RetryChecked \/ Poll \/ OtherWork \/ Reload

\* The timer fires, and the network does not fail for ever: of the requests
\* for the list, and of those for a hint, one after another gets its answer.
PageFairness ==
    /\ WF_pageVars(RefreshBegins)
    /\ SF_pageVars(rf.pc = "list" /\ ServeRefresh) /\ SF_pageVars(ListArrives)
    /\ SF_pageVars(rf.pc = "ask" /\ ServeRefresh) /\ SF_pageVars(HintArrives)
PageSpec == PageInit /\ [][PageNext]_pageVars /\ PageFairness

----------------------------------------
\* Whatever is lost, sent again or reloaded, a submission starts at most one
\* task (reserve_job's new record, the identifier the retry keeps).
NeverTwice == \A i \in Ids : started[i] <= 1

\* A lost response never means a failed job: a task the service has taken is
\* known to the page or its hint is still kept in the browser's storage.  The
\* exception is a submission that was sent again while its first request was
\* still under way, where the conflict of one may retire both.
HintKept == \A id \in has : id \in stored \cup known \cup resent

\* A submission is started once and never forgotten.
SubmittedOnce == NeverTwice /\ HintKept

\* A hint whose task exists does not stay for ever: the poll goes on after
\* every failure and finds it.
HintsSettle == \A id \in Ids : (id \in pending /\ id \in has) ~> (id \notin pending)
=============================================================================
