--------------------------- MODULE HttpTransport ---------------------------
(***************************************************************************)
(* vc_serve's HTTP transport (tools/web/http_transport.cpp): one accepting *)
(* thread, one detached thread per connection, a count of connections and  *)
(* a budget of request bodies in memory, both atomics that the threads     *)
(* share.  One action is one access to an atomic, one blocking call or the *)
(* end of a scope.  A client may stall, send a broken head, hang up in the *)
(* body or stop reading; a handler may answer or throw; a thread may fail  *)
(* to start; accept may fail and end the service.                          *)
(*                                                                         *)
(* Operators marked FAULT are wrong on purpose: no action uses them, and   *)
(* the project's mutants put them in place of the operator they precede.   *)
(***************************************************************************)
EXTENDS Integers, FiniteSets, FiniteSetsExt

CONSTANTS
    Conns,        \* connections a client can make
    NoConn,       \* no connection
    Lengths,      \* Content-Length values that clients announce
    MaxConns,     \* kMaxConnections
    MaxBody,      \* kMaxBodyBytes
    MaxInflight   \* kMaxInflightBodyBytes

ASSUME HttpAssumption ==
    /\ IsFiniteSet(Conns) /\ NoConn \notin Conns /\ Lengths \subseteq Nat
    /\ MaxConns \in Nat /\ MaxBody \in Nat /\ MaxInflight \in Nat

\* What a client sends, up to what read_request distinguishes: a head that is
\* whole, malformed, too long or never finished; a length that is a number,
\* absent or not one number; a method that needs a length; a path below /api/
\* and whether the bearer token is right.
Heads ==
    [head : {"whole", "malformed", "oversized", "stalled"},
     length : {"number", "absent", "invalid"}, bytes : Lengths,
     post : BOOLEAN, api : BOOLEAN, token : BOOLEAN]

VARIABLES
    up,        \* the process runs
    acceptor,  \* what the accepting thread does, and with which connection
    conn,      \* the connections
    counted,   \* HttpRuntimeState::active_connections
    inflight   \* HttpRuntimeState::inflight_body_bytes

httpVars == <<up, acceptor, conn, counted, inflight>>

Closed == [pc |-> "closed", length |-> 0, got |-> 0, held |-> 0, seen |-> 0,
           answer |-> "none", thrown |-> FALSE]

HttpInit ==
    /\ up = TRUE /\ acceptor = [pc |-> "accept", conn |-> NoConn]
    /\ conn = [c \in Conns |-> Closed] /\ counted = 0 /\ inflight = 0

IsAt(c, pc) == up /\ conn[c].pc = pc
Go(c, pc) == conn' = [conn EXCEPT ![c].pc = pc]
\* The verdict of read_request, and the scope in which it is answered.
Verdict(c, answer) == conn' = [conn EXCEPT ![c].pc = "answer", ![c].answer = answer]

----------------------------------------
(* The accepting thread.                                                   *)

Connect(c) ==
    /\ IsAt(c, "closed") /\ Go(c, "queued") /\ UNCHANGED <<up, acceptor, counted, inflight>>

\* FAULT: one connection too many.
AtLimitLate(previous) == previous > MaxConns
\* FAULT: one connection too few.
AtLimitEarly(previous) == previous + 1 >= MaxConns
AtLimit(previous) == previous >= MaxConns

\* The count goes up before the limit is looked at, and down again after it.
Accept(c) ==
    /\ IsAt(c, "queued") /\ acceptor.pc = "accept"
    /\ counted' = counted + 1
    /\ \/ AtLimit(counted) /\ acceptor' = [pc |-> "refuse", conn |-> c] /\ Go(c, "refused")
       \/ ~AtLimit(counted) /\ acceptor' = acceptor /\ Go(c, "header")
       \/ ~AtLimit(counted) /\ acceptor' = [pc |-> "unstarted", conn |-> c] /\ Go(c, "refused")
    /\ UNCHANGED <<up, inflight>>

\* The connection is closed: after a 503, or unanswered if no thread started.
Refuse ==
    /\ up /\ acceptor.pc \in {"refuse", "unstarted"} /\ counted' = counted - 1
    /\ acceptor' = [pc |-> "accept", conn |-> NoConn]
    /\ conn' = [conn EXCEPT ![acceptor.conn] = Closed] /\ UNCHANGED <<up, inflight>>

\* Any error of accept but EINTR ends serve, and with it the process.
AcceptFails ==
    /\ up /\ acceptor.pc = "accept" /\ up' = FALSE
    /\ conn' = [c \in Conns |-> Closed] /\ UNCHANGED <<acceptor, counted, inflight>>

----------------------------------------
(* read_request on a connection's thread.                                  *)

Authorized(r) == ~r.api \/ r.token
ContentLength(r) == IF r.length = "number" THEN r.bytes ELSE 0
\* The first test that fails decides, in the order of the code.
HeadVerdict(r) ==
    CASE r.head = "oversized" -> "413"
      [] r.head \in {"malformed", "stalled"} \/ r.length = "invalid" -> "400"
      [] ContentLength(r) > MaxBody -> "413"
      [] r.post /\ r.length = "absent" -> "400"
      [] ~Authorized(r) -> "401"
      [] OTHER -> "none"

\* A head that is not finished at the header deadline is a bad request.
ReadHeader(c) ==
    /\ IsAt(c, "header") /\ UNCHANGED <<up, acceptor, counted, inflight>>
    /\ \E r \in Heads :
         IF HeadVerdict(r) = "none"
         THEN conn' = [conn EXCEPT ![c].pc = "load", ![c].length = ContentLength(r)]
         ELSE Verdict(c, HeadVerdict(r))

LoadInflight(c) ==
    /\ IsAt(c, "load") /\ conn' = [conn EXCEPT ![c].pc = "reserve", ![c].seen = inflight]
    /\ UNCHANGED <<up, acceptor, counted, inflight>>

\* FAULT: the request alone is compared with the budget.
FitsAlone(seen, n) == seen <= MaxInflight /\ n <= MaxInflight
Fits(seen, n) == seen <= MaxInflight /\ n <= MaxInflight - seen

\* FAULT: the sum of a stale load is stored.
StoreStale(c) ==
    LET n == conn[c].length
    IN /\ IsAt(c, "reserve") /\ UNCHANGED <<up, acceptor, counted>>
       /\ IF ~Fits(conn[c].seen, n) THEN Verdict(c, "503") /\ UNCHANGED inflight
          ELSE /\ inflight' = conn[c].seen + n
               /\ conn' = [conn EXCEPT ![c].pc = "body", ![c].held = n]
\* One turn of the compare-and-swap loop; the weak form may fail without cause.
Reserve(c) ==
    LET n == conn[c].length
    IN /\ IsAt(c, "reserve") /\ UNCHANGED <<up, acceptor, counted>>
       /\ IF ~Fits(conn[c].seen, n) THEN Verdict(c, "503") /\ UNCHANGED inflight
          ELSE \/ /\ inflight = conn[c].seen /\ inflight' = inflight + n
                  /\ conn' = [conn EXCEPT ![c].pc = "body", ![c].held = n]
               \/ conn' = [conn EXCEPT ![c].seen = inflight] /\ UNCHANGED inflight

\* The body arrives piece by piece; more than the announced length is cut off.
ReceiveBody(c) ==
    /\ IsAt(c, "body") /\ conn[c].got < conn[c].length /\ conn' = [conn EXCEPT ![c].got = @ + 1]
    /\ UNCHANGED <<up, acceptor, counted, inflight>>

\* FAULT: the last piece is not waited for.
BodyAlmostDone(c) ==
    /\ IsAt(c, "body") /\ conn[c].got + 1 >= conn[c].length /\ Go(c, "handler")
    /\ UNCHANGED <<up, acceptor, counted, inflight>>
BodyDone(c) ==
    /\ IsAt(c, "body") /\ conn[c].got = conn[c].length /\ Go(c, "handler")
    /\ UNCHANGED <<up, acceptor, counted, inflight>>

\* FAULT: there is no deadline, and the client is trusted not to hang up.
BodyNeverFails(c) == FALSE /\ IsAt(c, "body")
\* The client hangs up, or the body deadline passes.
BodyFails(c) ==
    /\ IsAt(c, "body") /\ conn[c].got < conn[c].length /\ Verdict(c, "400")
    /\ UNCHANGED <<up, acceptor, counted, inflight>>

----------------------------------------
(* The handler, the answer and the two scopes that end.                    *)

HandlerReturns(c) ==
    /\ IsAt(c, "handler") /\ Verdict(c, "handler") /\ UNCHANGED <<up, acceptor, counted, inflight>>

\* The request leaves its scope before the exception is answered with a 500.
HandlerThrows(c) ==
    /\ IsAt(c, "handler")
    /\ conn' = [conn EXCEPT ![c].pc = "release", ![c].answer = "500", ![c].thrown = TRUE]
    /\ UNCHANGED <<up, acceptor, counted, inflight>>

\* send_all: all is sent, or the client is gone or does not read for 15 s.
Answer(c) ==
    /\ IsAt(c, "answer") /\ Go(c, IF conn[c].thrown THEN "close" ELSE "release")
    /\ UNCHANGED <<up, acceptor, counted, inflight>>

\* FAULT: the budget is given back only after a handler ran.
ReleaseServed(c) ==
    /\ IsAt(c, "release") /\ UNCHANGED <<up, acceptor, counted>>
    /\ inflight' = IF conn[c].answer \in {"handler", "500"} THEN inflight - conn[c].held
                   ELSE inflight
    /\ conn' = [conn EXCEPT ![c].held = 0, ![c].pc = IF conn[c].thrown THEN "answer" ELSE "close"]
\* ~Request.
Release(c) ==
    /\ IsAt(c, "release") /\ inflight' = inflight - conn[c].held
    /\ conn' = [conn EXCEPT ![c].held = 0, ![c].pc = IF conn[c].thrown THEN "answer" ELSE "close"]
    /\ UNCHANGED <<up, acceptor, counted>>

\* ~ConnectionGuard.
Close(c) ==
    /\ IsAt(c, "close") /\ conn' = [conn EXCEPT ![c] = Closed] /\ counted' = counted - 1
    /\ UNCHANGED <<up, acceptor, inflight>>

----------------------------------------
\* What a thread does by itself: everything but the arrival of a piece.
Work(c) ==
    \/ ReadHeader(c) \/ LoadInflight(c) \/ Reserve(c) \/ BodyDone(c) \/ BodyFails(c)
    \/ HandlerReturns(c) \/ HandlerThrows(c) \/ Answer(c) \/ Release(c) \/ Close(c)

HttpNext == AcceptFails \/ Refuse \/ \E c \in Conns : Connect(c) \/ Accept(c) \/ ReceiveBody(c) \/ Work(c)

\* Threads are scheduled and blocking calls have deadlines; nothing is assumed of
\* clients.  A compare-and-swap that could succeed again and again does once.
HttpFairness ==
    /\ WF_httpVars(Refuse)
    /\ \A c \in Conns : WF_httpVars(Accept(c)) /\ WF_httpVars(Work(c))
                        /\ SF_httpVars(Reserve(c) /\ conn'[c].pc # "reserve")

HttpSpec == HttpInit /\ [][HttpNext]_httpVars /\ HttpFairness

----------------------------------------
Workers == {c \in Conns : conn[c].pc \notin {"closed", "queued", "refused"}}

\* On every path through read_request, the handler and the exceptions, the
\* budget is exactly what the live requests hold and the count exactly the
\* live threads and the connection about to be refused: nothing leaks, so no
\* sequence of bad clients uses the service up (~Request, ~ConnectionGuard).
CountersAgree ==
    up => /\ inflight = MapThenSumSet(LAMBDA c : conn[c].held, Conns)
          /\ counted = Cardinality(Workers) + IF acceptor.pc = "accept" THEN 0 ELSE 1

\* Concurrent admissions never exceed the memory budget or the thread limit.
LoadIsBounded == inflight <= MaxInflight /\ Cardinality(Workers) <= MaxConns

\* A connection is refused only while every thread is taken: threads that end,
\* fail to start or are refused never leave the count too high (serve).
RefusedWhenFull ==
    [][acceptor.pc = "accept" /\ acceptor'.pc = "refuse" => Cardinality(Workers) = MaxConns]_httpVars

\* A handler sees only whole bodies, and they are paid for in the budget as
\* long as the handler uses them.
HandlerSeesWhole ==
    \A c \in Conns : conn[c].pc = "handler" =>
        conn[c].got = conn[c].length /\ conn[c].held = conn[c].length

\* The budget and the limit are exact: what is counted is what is live, no more
\* is admitted than allowed, nothing is refused that fits, and what a handler
\* reads is whole and paid for (serve, reserve_body, ~Request).
AdmissionIsExact == [](CountersAgree /\ LoadIsBounded /\ HandlerSeesWhole) /\ RefusedWhenFull

\* Every accepted connection ends and gives its thread back, whatever its
\* client does (the header and body deadlines and the send timeout).
ConnectionsEnd == \A c \in Conns : c \in Workers ~> c \notin Workers
=============================================================================
