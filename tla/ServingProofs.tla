---------------------------- MODULE ServingProofs ---------------------------
(***************************************************************************)
(* What the service does for one request and how it keeps the records of   *)
(* its tasks, for any number of connections, lengths and limits, any set   *)
(* of identifiers and any group of paths.                                  *)
(*                                                                         *)
(* The transport: what is counted is what is live.  The invariant HttpInv  *)
(* relates the two counters to where every thread is, and says of one      *)
(* connection what it holds there.  The sum over the connections, which    *)
(* the property takes with a fold, is the cardinality of a set of pairs,   *)
(* Units, so that a step of one connection changes it by that connection's *)
(* share.                                                                  *)
(*                                                                         *)
(* The page: a submission starts one task at most.  The invariant PageInv  *)
(* says who can still send a request for an identifier, and that a request *)
(* that was denied can no longer come to anything.                         *)
(*                                                                         *)
(* The swap: the group replacement is safe for any number of paths, any    *)
(* subset of them that exists, is staged or is a directory, and either     *)
(* order of the rollback.  IndInv says of each loop what it has done to    *)
(* the paths it has passed and left of the others.                         *)
(*                                                                         *)
(* The store: no acknowledged update of a record is lost, for any number   *)
(* of tasks, services and threads, any capacity and any sequence of failed *)
(* writes, deaths and power losses.  StoreInv says what a thread that read *)
(* a record may rely on, and that what a power loss may bring back has the *)
(* acknowledged updates.                                                   *)
(***************************************************************************)
EXTENDS ArtifactSwap, HttpTransport, Submissions, TaskStore, FiniteSetTheorems, TLAPS

----------------------------------------
(* The sum over the connections. *)

\* The bytes that f gives the connections of s, one pair for each.
Units(f, s) == {p \in s \X (1..MaxInflight) : p[2] <= f[p[1]]}
Weight(f) == Cardinality(Units(f, Conns))
Weights == [Conns -> 0..MaxInflight]

LEMMA UnitsAreFinite ==
    ASSUME NEW f, NEW s \in SUBSET Conns PROVE IsFiniteSet(Units(f, s)) /\ Cardinality(Units(f, s)) \in Nat
<1>1. IsFiniteSet(s) /\ IsFiniteSet(1..MaxInflight) BY HttpAssumption, FS_Subset, FS_Interval
<1>2. IsFiniteSet(s \X (1..MaxInflight)) BY <1>1, FS_Product
<1>3. IsFiniteSet(Units(f, s)) BY <1>2, FS_Subset DEF Units
<1> QED BY <1>3, FS_CardinalityType

\* One connection's share.
LEMMA UnitsOfOne ==
    ASSUME NEW f \in Weights, NEW s \in SUBSET Conns, NEW c \in s
    PROVE  Cardinality(Units(f, s)) = f[c] + Cardinality(Units(f, s \ {c}))
<1> DEFINE own == {p \in {c} \X (1..MaxInflight) : p[2] <= f[c]}
           pair == [i \in 1..f[c] |-> <<c, i>>]
<1>1. f[c] \in 0..MaxInflight /\ MaxInflight \in Nat BY HttpAssumption DEF Weights
<1>2. IsFiniteSet(1..f[c]) /\ Cardinality(1..f[c]) = f[c]
  <2> DEFINE n == f[c]
  <2>1. n \in Nat BY <1>1
  <2> HIDE DEF n
  <2>2. IsFiniteSet(1..n) /\ Cardinality(1..n) = IF 1 > n THEN 0 ELSE n - 1 + 1 BY <2>1, FS_Interval
  <2>3. Cardinality(1..n) = n BY <2>1, <2>2
  <2> QED BY <2>2, <2>3 DEF n
<1>3. pair \in Bijection(1..f[c], own)
  <2>1. pair \in [1..f[c] -> own] BY <1>1
  <2>2. \A i, j \in 1..f[c] : pair[i] = pair[j] => i = j OBVIOUS
  <2>3. \A p \in own : p[2] \in 1..f[c] /\ pair[p[2]] = p BY <1>1
  <2> HIDE DEF pair, own
  <2> QED BY <2>1, <2>2, <2>3 DEF Bijection, Injection, Surjection, IsInjective
<1>4. IsFiniteSet(own) /\ Cardinality(own) = f[c] BY <1>2, <1>3, FS_Bijection DEF ExistsBijection
<1> DEFINE all == Units(f, s)
           rest == Units(f, s \ {c})
<1>5. all = own \cup rest /\ own \cap rest = {} BY DEF Units
<1>6. IsFiniteSet(rest) /\ Cardinality(rest) \in Nat BY UnitsAreFinite
<1> HIDE DEF own, all, rest
<1>7. Cardinality(own \cup rest) = Cardinality(own) + Cardinality(rest) - Cardinality(own \cap rest)
  BY <1>4, <1>6, FS_Union
<1>8. Cardinality(all) = f[c] + Cardinality(rest)
  <2>1. Cardinality(own \cap rest) = 0 BY <1>5, FS_EmptySet
  <2>2. Cardinality(all) = Cardinality(own) + Cardinality(rest) - Cardinality(own \cap rest) BY <1>5, <1>7
  <2>3. f[c] \in Nat BY <1>1
  <2> QED BY <1>4, <1>6, <2>1, <2>2, <2>3
<1> QED BY <1>8 DEF all, rest

\* The sum the property takes is what the connections hold.
LEMMA SumIsWeight ==
    ASSUME NEW f \in Weights PROVE MapThenSumSet(LAMBDA c : f[c], Conns) = Weight(f)
<1> DEFINE Pick(s) == CHOOSE x \in s : TRUE
           Folds(g) == g = [s \in SUBSET Conns |-> IF s = {} THEN 0 ELSE LET x == Pick(s) IN f[x] + g[s \ {x}]]
           w == [s \in SUBSET Conns |-> Cardinality(Units(f, s))]
           iter == CHOOSE g : Folds(g)
<1>1. \A s \in SUBSET Conns : s # {} => Pick(s) \in s OBVIOUS
<1>2. Units(f, {}) = {} BY DEF Units
<1>3. w[{}] = 0 BY <1>2, FS_EmptySet
<1>4. ASSUME NEW s \in SUBSET Conns, s # {} PROVE w[s] = f[Pick(s)] + w[s \ {Pick(s)}]
  <2> DEFINE c == Pick(s)
  <2>1. c \in s BY <1>1, <1>4
  <2> HIDE DEF c
  <2>2. w[s] = f[c] + w[s \ {c}] BY <2>1, UnitsOfOne
  <2> QED BY <2>2 DEF c
<1>5. Folds(w)
  <2> HIDE DEF w
  <2>1. w = [s \in SUBSET Conns |-> w[s]] BY DEF w
  <2> HIDE DEF Pick
  <2> QED BY <1>3, <1>4, <2>1
<1>6. Folds(iter)
  <2> HIDE DEF w, Pick
  <2>1. \E g : Folds(g) BY <1>5
  <2> HIDE DEF Folds
  <2> QED BY <2>1
<1>7. iter[{}] = 0
  <2> HIDE DEF iter, Pick
  <2> QED BY <1>6
<1>8. ASSUME NEW s \in SUBSET Conns, s # {} PROVE iter[s] = f[Pick(s)] + iter[s \ {Pick(s)}]
  <2> HIDE DEF iter, Pick
  <2> QED BY <1>6, <1>8
<1> HIDE DEF w, Folds, Pick, iter
\* A smallest set on which they differ.
<1>9. ASSUME NEW s \in SUBSET Conns, iter[s] # w[s] PROVE FALSE
  <2> DEFINE Sizes == {n \in Nat : \E t \in SUBSET Conns : Cardinality(t) = n /\ iter[t] # w[t]}
  <2>1. \A t \in SUBSET Conns : IsFiniteSet(t) /\ Cardinality(t) \in Nat
    BY HttpAssumption, FS_Subset, FS_CardinalityType
  <2>2. Sizes \subseteq Nat /\ Sizes # {} BY <1>9, <2>1
  <2> HIDE DEF Sizes
  <2>3. PICK n \in Sizes : \A m \in Sizes : <<m, n>> \notin OpToRel(<, Nat)
    BY <2>2, NatLessThanWellFounded, WFMin
  <2>4. n \in Nat /\ \A m \in Sizes : m \in Nat /\ ~(m < n) BY <2>2, <2>3 DEF OpToRel
  <2>5. PICK t \in SUBSET Conns : Cardinality(t) = n /\ iter[t] # w[t] BY <2>3 DEF Sizes
  <2>6. t # {} BY <1>3, <1>7, <2>5
  <2> DEFINE c == Pick(t)
  <2>7. c \in t BY <1>1, <2>6 DEF Pick
  <2>8. iter[t] = f[c] + iter[t \ {c}] /\ w[t] = f[c] + w[t \ {c}] BY <1>4, <1>8, <2>6
  <2> HIDE DEF c
  <2>9. Cardinality(t \ {c}) = n - 1 /\ t \ {c} \in SUBSET Conns BY <2>1, <2>5, <2>7, FS_RemoveElement
  <2>10. Cardinality(t \ {c}) \in Nat BY <2>1, <2>9
  <2>11. Cardinality(t \ {c}) \in Sizes BY <2>5, <2>8, <2>9, <2>10 DEF Sizes
  <2> QED BY <2>4, <2>9, <2>11
<1>10. iter[Conns] = w[Conns] BY <1>9
<1>11. MapThenSumSet(LAMBDA c : f[c], Conns) = iter[Conns]
  BY DEF MapThenSumSet, MapThenFoldSet, iter, Folds, Pick
<1> QED BY <1>10, <1>11 DEF w, Weight
----------------------------------------
(* The transport: the invariant. *)

ConnType ==
    [pc : {"closed", "queued", "refused", "header", "load", "reserve", "body", "handler", "answer", "release", "close"},
     length : Nat, got : Nat, held : 0..MaxInflight, seen : 0..MaxInflight,
     answer : {"none", "400", "401", "413", "500", "503", "handler"}, thrown : BOOLEAN]
HttpType ==
    /\ up \in BOOLEAN /\ conn \in [Conns -> ConnType] /\ counted \in Int /\ inflight \in 0..MaxInflight
    /\ acceptor \in [pc : {"accept", "refuse", "unstarted"}, conn : Conns \cup {NoConn}]

Refusing == acceptor.pc # "accept"
Works(r) == r.pc \notin {"closed", "queued", "refused"}
\* What a connection holds, and when an exception was thrown, follows from
\* where its thread is.
Consistent(r) ==
    /\ r.held # 0 => r.pc \in {"body", "handler", "answer", "release"}
    /\ r.pc \in {"body", "handler"} => r.held = r.length /\ ~r.thrown
    /\ r.pc = "handler" => r.got = r.length
    /\ r.thrown => r.pc \in {"release", "answer", "close"} /\ (r.pc = "answer" => r.held = 0)
    /\ r.got # 0 => r.pc \in {"body", "handler", "answer", "release", "close"}
ConnsFit == \A c \in Conns : Consistent(conn[c])
AcceptorFits == Refusing => acceptor.conn \in Conns /\ (up => conn[acceptor.conn].pc = "refused")

Held == [c \in Conns |-> conn[c].held]
Counted == up => inflight = Weight(Held) /\ counted = Cardinality(Workers) + (IF Refusing THEN 1 ELSE 0)
HttpInv ==
    /\ HttpType /\ ConnsFit /\ AcceptorFits
    /\ Counted /\ Cardinality(Workers) <= MaxConns

LEMMA WorkersAreFinite == IsFiniteSet(Workers) /\ Cardinality(Workers) \in Nat
  BY HttpAssumption, FS_Subset, FS_CardinalityType DEF Workers

LEMMA ClosedFits == Closed \in ConnType /\ Consistent(Closed) /\ Closed.held = 0 /\ ~Works(Closed) /\ Closed.pc = "closed"
<1> DEFINE no == FALSE
<1>1. no \in BOOLEAN /\ ~no OBVIOUS
<1> HIDE DEF no
<1> DEFINE x == [pc |-> "closed", length |-> 0, got |-> 0, held |-> 0, seen |-> 0, answer |-> "none", thrown |-> no]
<1>2. x \in ConnType /\ x.pc = "closed" /\ x.held = 0 /\ x.thrown = no /\ x.length = 0 /\ x.got = 0
  BY <1>1, HttpAssumption DEF ConnType
<1>3. Closed = x BY DEF Closed, no
<1> HIDE DEF x
<1> QED BY <1>1, <1>2, <1>3 DEF Consistent, Works

LEMMA NobodyHolds ==
    ASSUME \A c \in Conns : conn[c] = Closed PROVE Weight(Held) = 0 /\ Workers = {} /\ Cardinality(Workers) = 0
<1>1. \A c \in Conns : Held[c] = 0 BY ClosedFits DEF Held
<1>2. Units(Held, Conns) = {} BY <1>1, HttpAssumption DEF Units
<1>3. Workers = {} BY ClosedFits DEF Workers, Works
<1> QED BY <1>2, <1>3, FS_EmptySet DEF Weight

LEMMA HttpInitInv == HttpInit => HttpInv
<1> SUFFICES ASSUME HttpInit PROVE HttpInv OBVIOUS
<1>1. \A c \in Conns : conn[c] = Closed BY DEF HttpInit
<1>2. up = TRUE /\ acceptor.pc = "accept" /\ acceptor.conn = NoConn /\ counted = 0 /\ inflight = 0
  BY DEF HttpInit
<1>3. HttpType
  <2>1. conn \in [Conns -> ConnType] BY ClosedFits DEF HttpInit
  <2>2. acceptor \in [pc : {"accept", "refuse", "unstarted"}, conn : Conns \cup {NoConn}] BY DEF HttpInit
  <2> QED BY <1>2, <2>1, <2>2, HttpAssumption DEF HttpType
<1>4. ConnsFit BY <1>1, ClosedFits DEF ConnsFit
<1> QED BY <1>1, <1>2, <1>3, <1>4, NobodyHolds, HttpAssumption DEF HttpInv, AcceptorFits, Refusing, Counted

----------------------------------------
(* One connection changes. *)

LEMMA HeldIsWeighed == HttpType => Held \in Weights
  BY DEF HttpType, ConnType, Held, Weights

LEMMA ConnSet ==
    ASSUME HttpType, NEW c \in Conns, NEW x \in ConnType, conn' = [conn EXCEPT ![c] = x]
    PROVE  conn' \in [Conns -> ConnType] /\ conn'[c] = x /\ \A b \in Conns : b # c => conn'[b] = conn[b]
  BY DEF HttpType

LEMMA WeightSet ==
    ASSUME HttpType, NEW c \in Conns, NEW x \in ConnType, conn' = [conn EXCEPT ![c] = x]
    PROVE  Weight(Held)' = Weight(Held) - conn[c].held + x.held /\ Weight(Held) \in Nat /\ Weight(Held)' \in Nat
<1> DEFINE old == Held
           new == Held'
<1>1. old \in Weights /\ old[c] = conn[c].held BY HeldIsWeighed DEF Held
<1>2. new \in Weights /\ new[c] = x.held /\ \A b \in Conns : b # c => new[b] = old[b]
  BY ConnSet, ZenonT(60) DEF Held, Weights, ConnType
<1> HIDE DEF old, new
<1>3. Units(new, Conns \ {c}) = Units(old, Conns \ {c}) BY <1>2 DEF Units
<1>4. Cardinality(Units(old, Conns)) = old[c] + Cardinality(Units(old, Conns \ {c})) BY <1>1, UnitsOfOne
<1>5. Cardinality(Units(new, Conns)) = new[c] + Cardinality(Units(new, Conns \ {c})) BY <1>2, UnitsOfOne
<1>6. /\ Cardinality(Units(old, Conns)) \in Nat /\ Cardinality(Units(new, Conns)) \in Nat
      /\ Cardinality(Units(new, Conns \ {c})) \in Nat
  BY UnitsAreFinite
<1>7. old[c] \in Nat /\ new[c] \in Nat BY <1>1, <1>2, HttpAssumption DEF Weights
<1>8. Weight(new) = Weight(old) - old[c] + new[c] /\ Weight(old) \in Nat /\ Weight(new) \in Nat
  BY <1>3, <1>4, <1>5, <1>6, <1>7 DEF Weight
<1>9. Weight(Held)' = Weight(new) BY DEF Weight, Units, new
<1> QED BY <1>1, <1>2, <1>8, <1>9 DEF old

LEMMA WorkersSet ==
    ASSUME HttpType, NEW c \in Conns, NEW x \in ConnType, conn' = [conn EXCEPT ![c] = x]
    PROVE  /\ Workers' = IF Works(x) THEN Workers \cup {c} ELSE Workers \ {c}
           /\ c \in Workers <=> Works(conn[c])
           /\ Cardinality(Workers)' = Cardinality(Workers) + (IF Works(x) THEN 1 ELSE 0) - (IF Works(conn[c]) THEN 1 ELSE 0)
<1>1. Workers' = IF Works(x) THEN Workers \cup {c} ELSE Workers \ {c} BY ConnSet DEF Workers, Works
<1>2. c \in Workers <=> Works(conn[c]) BY DEF Workers, Works
<1>3. Cardinality(Workers)' = Cardinality(Workers') OBVIOUS
<1>4. Cardinality(Workers \cup {c}) = IF c \in Workers THEN Cardinality(Workers) ELSE Cardinality(Workers) + 1
  BY WorkersAreFinite, FS_AddElement
<1>5. Cardinality(Workers \ {c}) = IF c \in Workers THEN Cardinality(Workers) - 1 ELSE Cardinality(Workers)
  BY WorkersAreFinite, FS_RemoveElement
<1> QED BY <1>1, <1>2, <1>3, <1>4, <1>5, WorkersAreFinite
----------------------------------------
(* The steps of the transport. *)

\* A step of one connection, whatever the counters do.
LEMMA ConnStep ==
    ASSUME HttpInv, up, up' = up, NEW c \in Conns, NEW x \in ConnType, Consistent(x), conn' = [conn EXCEPT ![c] = x],
           inflight' = inflight - conn[c].held + x.held,
           acceptor' \in [pc : {"accept", "refuse", "unstarted"}, conn : Conns \cup {NoConn}], AcceptorFits',
           counted' = counted + (IF Works(x) THEN 1 ELSE 0) - (IF Works(conn[c]) THEN 1 ELSE 0)
                      + (IF Refusing' THEN 1 ELSE 0) - (IF Refusing THEN 1 ELSE 0),
           inflight' <= MaxInflight, Cardinality(Workers)' <= MaxConns
    PROVE  HttpInv'
<1>0. HttpType BY DEF HttpInv
<1>1. conn' \in [Conns -> ConnType] /\ conn'[c] = x /\ \A b \in Conns : b # c => conn'[b] = conn[b]
  BY <1>0, ConnSet
<1>2. ConnsFit' BY <1>1 DEF HttpInv, ConnsFit
<1>3. Weight(Held)' = Weight(Held) - conn[c].held + x.held /\ Weight(Held) \in Nat /\ Weight(Held)' \in Nat
  BY <1>0, WeightSet
<1>4. Cardinality(Workers)' = Cardinality(Workers) + (IF Works(x) THEN 1 ELSE 0) - (IF Works(conn[c]) THEN 1 ELSE 0)
  BY <1>0, WorkersSet
<1>5. inflight = Weight(Held) /\ counted = Cardinality(Workers) + (IF Refusing THEN 1 ELSE 0)
  BY DEF HttpInv, Counted
<1>6. inflight' = Weight(Held)' /\ inflight' \in 0..MaxInflight BY <1>3, <1>5, HttpAssumption
<1>7. counted' = Cardinality(Workers)' + (IF Refusing' THEN 1 ELSE 0) /\ counted' \in Int
  BY <1>4, <1>5, WorkersAreFinite
<1>8. Counted' BY <1>6, <1>7 DEF Counted
<1>9. HttpType' BY <1>1, <1>6, <1>7, <1>0 DEF HttpType
<1> QED BY <1>2, <1>8, <1>9 DEF HttpInv

\* A thread that goes on and holds what it held.
LEMMA ThreadGoes ==
    ASSUME HttpInv, up, NEW c \in Conns, NEW x \in ConnType, Consistent(x), conn' = [conn EXCEPT ![c] = x],
           Works(conn[c]), Works(x), inflight' = inflight - conn[c].held + x.held, inflight' <= MaxInflight,
           UNCHANGED <<up, acceptor, counted>>
    PROVE  HttpInv'
<1>0. HttpType /\ up' = up /\ acceptor' = acceptor /\ counted' = counted BY DEF HttpInv
<1>1. conn' \in [Conns -> ConnType] /\ conn'[c] = x /\ \A b \in Conns : b # c => conn'[b] = conn[b]
  BY <1>0, ConnSet
<1>2. AcceptorFits' BY <1>0, <1>1 DEF HttpInv, AcceptorFits, Refusing, Works
<1>3. Refusing' = Refusing /\ acceptor' \in [pc : {"accept", "refuse", "unstarted"}, conn : Conns \cup {NoConn}]
  BY <1>0 DEF Refusing, HttpType
<1>4. Cardinality(Workers)' <= MaxConns
  <2>1. Cardinality(Workers)' = Cardinality(Workers) + (IF Works(x) THEN 1 ELSE 0) - (IF Works(conn[c]) THEN 1 ELSE 0)
    BY <1>0, WorkersSet
  <2> QED BY <2>1, WorkersAreFinite DEF HttpInv
<1>5. counted' = counted + (IF Works(x) THEN 1 ELSE 0) - (IF Works(conn[c]) THEN 1 ELSE 0)
                 + (IF Refusing' THEN 1 ELSE 0) - (IF Refusing THEN 1 ELSE 0)
  BY <1>0, <1>3 DEF HttpType
<1> QED BY <1>0, <1>2, <1>3, <1>4, <1>5, ConnStep

\* A thread that holds nothing else than before.
LEMMA ThreadKeeps ==
    ASSUME HttpInv, up, NEW c \in Conns, NEW x \in ConnType, Consistent(x), conn' = [conn EXCEPT ![c] = x],
           Works(conn[c]), Works(x), x.held = conn[c].held, UNCHANGED <<up, acceptor, counted, inflight>>
    PROVE  HttpInv'
<1>1. inflight \in 0..MaxInflight /\ conn[c].held \in Int BY HttpAssumption DEF HttpInv, HttpType, ConnType
<1>2. inflight' = inflight - conn[c].held + x.held /\ inflight' <= MaxInflight BY <1>1, HttpAssumption
<1> QED BY <1>2, ThreadGoes

LEMMA ConnectStep == ASSUME HttpInv, NEW c \in Conns, Connect(c) PROVE HttpInv'
<1> DEFINE x == [conn[c] EXCEPT !.pc = "queued"]
<1>0. HttpType /\ up /\ conn[c].pc = "closed" /\ conn[c] \in ConnType /\ Consistent(conn[c])
      /\ up' = up /\ acceptor' = acceptor /\ counted' = counted /\ inflight' = inflight
  BY DEF HttpInv, HttpType, ConnsFit, Connect, IsAt
<1>1. x \in ConnType /\ x.pc = "queued" /\ x.held = conn[c].held /\ x.thrown = conn[c].thrown
      /\ x.got = conn[c].got /\ x.length = conn[c].length
  BY <1>0 DEF ConnType
<1>2. conn' = [conn EXCEPT ![c] = x] BY DEF Connect, Go
<1> HIDE DEF x
<1>3. Consistent(x) /\ ~Works(x) /\ ~Works(conn[c]) BY <1>0, <1>1 DEF Consistent, Works
<1>4. conn' \in [Conns -> ConnType] /\ conn'[c] = x /\ \A b \in Conns : b # c => conn'[b] = conn[b]
  BY <1>0, <1>1, <1>2, ConnSet
<1>5. AcceptorFits' /\ Refusing' = Refusing BY <1>0, <1>1, <1>4 DEF HttpInv, AcceptorFits, Refusing
<1>6. Cardinality(Workers)' <= MaxConns
  <2>1. Cardinality(Workers)' = Cardinality(Workers) + (IF Works(x) THEN 1 ELSE 0) - (IF Works(conn[c]) THEN 1 ELSE 0)
    BY <1>0, <1>1, <1>2, WorkersSet
  <2> QED BY <1>3, <2>1, WorkersAreFinite DEF HttpInv
<1>7. inflight' = inflight - conn[c].held + x.held /\ inflight' <= MaxInflight
  BY <1>0, <1>1, HttpAssumption DEF HttpType, ConnType
<1>8. counted' = counted + (IF Works(x) THEN 1 ELSE 0) - (IF Works(conn[c]) THEN 1 ELSE 0)
                 + (IF Refusing' THEN 1 ELSE 0) - (IF Refusing THEN 1 ELSE 0)
  BY <1>0, <1>3, <1>5 DEF HttpType
<1>9. acceptor' \in [pc : {"accept", "refuse", "unstarted"}, conn : Conns \cup {NoConn}] BY <1>0 DEF HttpType
<1> QED BY <1>0, <1>1, <1>2, <1>3, <1>5, <1>6, <1>7, <1>8, <1>9, ConnStep

\* What the count says of the threads while a connection waits.
LEMMA LimitIsThreads ==
    ASSUME HttpInv, up, ~Refusing
    PROVE  counted = Cardinality(Workers) /\ (AtLimit(counted) <=> Cardinality(Workers) = MaxConns)
<1>1. counted = Cardinality(Workers) /\ Cardinality(Workers) <= MaxConns
  BY WorkersAreFinite DEF HttpInv, Counted
<1> QED BY <1>1, WorkersAreFinite, HttpAssumption DEF AtLimit

LEMMA AcceptStep == ASSUME HttpInv, NEW c \in Conns, Accept(c) PROVE HttpInv'
<1>0. HttpType /\ up /\ conn[c].pc = "queued" /\ conn[c] \in ConnType /\ Consistent(conn[c]) /\ ~Refusing
      /\ up' = up /\ counted' = counted + 1 /\ inflight' = inflight
  BY DEF HttpInv, HttpType, ConnsFit, Accept, IsAt, Refusing
<1>1. counted = Cardinality(Workers) /\ (AtLimit(counted) <=> Cardinality(Workers) = MaxConns)
  BY <1>0, LimitIsThreads
<1>2. PICK p \in {"header", "refused"} :
        /\ Go(c, p)
        /\ p = "header" => ~AtLimit(counted) /\ acceptor' = acceptor
        /\ p = "refused" => \E w \in {"refuse", "unstarted"} : acceptor' = [pc |-> w, conn |-> c]
  BY DEF Accept
<1> DEFINE x == [conn[c] EXCEPT !.pc = p]
<1>3. x \in ConnType /\ x.pc = p /\ x.held = conn[c].held /\ x.thrown = conn[c].thrown
      /\ x.got = conn[c].got /\ x.length = conn[c].length
  BY <1>0 DEF ConnType
<1>4. conn' = [conn EXCEPT ![c] = x] BY <1>2 DEF Go
<1> HIDE DEF x
<1>5. Consistent(x) /\ ~Works(conn[c]) /\ (Works(x) <=> p = "header") BY <1>0, <1>3 DEF Consistent, Works
<1>6. conn' \in [Conns -> ConnType] /\ conn'[c] = x BY <1>0, <1>3, <1>4, ConnSet
<1>7. /\ acceptor' \in [pc : {"accept", "refuse", "unstarted"}, conn : Conns \cup {NoConn}]
      /\ Refusing' <=> p = "refused"
      /\ AcceptorFits'
  <2>1. CASE p = "header"
    <3>1. acceptor' = acceptor BY <1>2, <2>1
    <3> QED BY <1>0, <2>1, <3>1 DEF HttpType, Refusing, AcceptorFits
  <2>2. CASE p = "refused"
    <3>1. PICK w \in {"refuse", "unstarted"} : acceptor' = [pc |-> w, conn |-> c] BY <1>2, <2>2
    <3>2. acceptor'.pc = w /\ acceptor'.conn = c BY <3>1
    <3>3. acceptor' \in [pc : {"accept", "refuse", "unstarted"}, conn : Conns \cup {NoConn}] BY <3>1
    <3> QED BY <1>3, <1>6, <2>2, <3>2, <3>3 DEF Refusing, AcceptorFits
  <2> QED BY <2>1, <2>2
<1>8. Cardinality(Workers)' = Cardinality(Workers) + (IF Works(x) THEN 1 ELSE 0) - (IF Works(conn[c]) THEN 1 ELSE 0)
  BY <1>0, <1>3, <1>4, WorkersSet
<1>9. Cardinality(Workers)' <= MaxConns
  BY <1>1, <1>2, <1>5, <1>8, WorkersAreFinite, HttpAssumption DEF HttpInv
<1>10. inflight' = inflight - conn[c].held + x.held /\ inflight' <= MaxInflight
  BY <1>0, <1>3, HttpAssumption DEF HttpType, ConnType
<1>11. counted' = counted + (IF Works(x) THEN 1 ELSE 0) - (IF Works(conn[c]) THEN 1 ELSE 0)
                  + (IF Refusing' THEN 1 ELSE 0) - (IF Refusing THEN 1 ELSE 0)
  BY <1>0, <1>5, <1>7 DEF HttpType
<1> QED BY <1>0, <1>3, <1>4, <1>5, <1>7, <1>9, <1>10, <1>11, ConnStep

LEMMA RefuseStep == ASSUME HttpInv, Refuse PROVE HttpInv'
<1> DEFINE c == acceptor.conn
<1>0. HttpType /\ up /\ Refusing /\ up' = up /\ counted' = counted - 1 /\ inflight' = inflight
      /\ acceptor' = [pc |-> "accept", conn |-> NoConn] /\ conn' = [conn EXCEPT ![c] = Closed]
  BY DEF HttpInv, Refuse, Refusing
<1>1. c \in Conns /\ conn[c].pc = "refused" /\ conn[c] \in ConnType /\ Consistent(conn[c])
  BY <1>0 DEF HttpInv, AcceptorFits, HttpType, ConnsFit
<1> HIDE DEF c
<1>2. conn[c].held = 0 /\ ~Works(conn[c]) BY <1>1 DEF Consistent, Works
<1>3. acceptor'.pc = "accept" /\ acceptor' \in [pc : {"accept", "refuse", "unstarted"}, conn : Conns \cup {NoConn}]
  BY <1>0
<1>4. AcceptorFits' /\ ~Refusing' BY <1>3 DEF AcceptorFits, Refusing
<1>5. Cardinality(Workers)' = Cardinality(Workers) + (IF Works(Closed) THEN 1 ELSE 0) - (IF Works(conn[c]) THEN 1 ELSE 0)
  BY <1>0, <1>1, WorkersSet, ClosedFits
<1>6. Cardinality(Workers)' <= MaxConns BY <1>2, <1>5, ClosedFits, WorkersAreFinite DEF HttpInv
<1>7. inflight' = inflight - conn[c].held + Closed.held /\ inflight' <= MaxInflight
  BY <1>0, <1>2, ClosedFits, HttpAssumption DEF HttpType
<1>8. counted' = counted + (IF Works(Closed) THEN 1 ELSE 0) - (IF Works(conn[c]) THEN 1 ELSE 0)
                 + (IF Refusing' THEN 1 ELSE 0) - (IF Refusing THEN 1 ELSE 0)
  BY <1>0, <1>2, <1>4, ClosedFits DEF HttpType
<1> QED BY <1>0, <1>1, <1>3, <1>4, <1>6, <1>7, <1>8, ClosedFits, ConnStep

LEMMA AcceptFailsStep == ASSUME HttpInv, AcceptFails PROVE HttpInv'
<1>0. HttpType /\ up' = FALSE /\ ~Refusing /\ conn' = [c \in Conns |-> Closed]
      /\ acceptor' = acceptor /\ counted' = counted /\ inflight' = inflight
  BY DEF HttpInv, AcceptFails, Refusing
<1>1. conn' \in [Conns -> ConnType] /\ \A c \in Conns : conn'[c] = Closed BY <1>0, ClosedFits
<1>2. Workers' = {} BY <1>1, ClosedFits DEF Workers, Works
<1>3. Cardinality(Workers)' = 0 BY <1>2, FS_EmptySet
<1>4. HttpType' BY <1>0, <1>1 DEF HttpType
<1>5. ConnsFit' BY <1>1, ClosedFits DEF ConnsFit
<1>6. AcceptorFits' /\ Counted' BY <1>0 DEF AcceptorFits, Refusing, Counted
<1> QED BY <1>3, <1>4, <1>5, <1>6, HttpAssumption DEF HttpInv

----------------------------------------
(* The steps of a connection's thread. *)

\* What is known of a thread before its step.
LEMMA ThreadAt ==
    ASSUME HttpInv, NEW c \in Conns, NEW p, IsAt(c, p)
    PROVE  /\ HttpType /\ up /\ conn[c].pc = p /\ conn[c] \in ConnType /\ Consistent(conn[c])
           /\ conn[c].length \in Nat /\ conn[c].got \in Nat /\ conn[c].held \in 0..MaxInflight
           /\ conn[c].seen \in 0..MaxInflight /\ inflight \in 0..MaxInflight /\ MaxInflight \in Nat
  BY HttpAssumption DEF HttpInv, HttpType, ConnsFit, IsAt, ConnType

\* An answer that ends a request, with what it holds.
LEMMA VerdictStep ==
    ASSUME HttpInv, NEW c \in Conns, NEW p \in {"header", "reserve", "body", "handler"}, IsAt(c, p),
           NEW a \in {"400", "401", "413", "503", "handler"}, Verdict(c, a), UNCHANGED <<up, acceptor, counted, inflight>>
    PROVE  HttpInv'
<1> DEFINE x == [conn[c] EXCEPT !.pc = "answer", !.answer = a]
<1>0. HttpType /\ up /\ conn[c].pc = p /\ conn[c] \in ConnType /\ Consistent(conn[c]) BY ThreadAt
<1>1. x \in ConnType /\ x.pc = "answer" /\ x.held = conn[c].held /\ x.thrown = conn[c].thrown
      /\ x.got = conn[c].got /\ x.length = conn[c].length
  BY <1>0 DEF ConnType
<1>2. conn' = [conn EXCEPT ![c] = x] BY Zenon DEF Verdict
<1> HIDE DEF x
<1>3. Consistent(x) /\ Works(x) /\ Works(conn[c]) BY <1>0, <1>1 DEF Consistent, Works
<1> QED BY <1>0, <1>1, <1>2, <1>3, ThreadKeeps

LEMMA VerdictIs ==
    ASSUME NEW r PROVE HeadVerdict(r) # "none" => HeadVerdict(r) \in {"400", "401", "413"}
  BY DEF HeadVerdict

LEMMA ReadHeaderStep == ASSUME HttpInv, NEW c \in Conns, ReadHeader(c) PROVE HttpInv'
<1>0. HttpType /\ up /\ conn[c].pc = "header" /\ conn[c] \in ConnType /\ Consistent(conn[c])
      /\ conn[c].got \in Nat /\ IsAt(c, "header") /\ UNCHANGED <<up, acceptor, counted, inflight>>
  BY ThreadAt DEF ReadHeader
<1>1. PICK r \in Heads :
        IF HeadVerdict(r) = "none"
        THEN conn' = [conn EXCEPT ![c].pc = "load", ![c].length = ContentLength(r)]
        ELSE Verdict(c, HeadVerdict(r))
  BY DEF ReadHeader
<1>2. CASE HeadVerdict(r) = "none"
  <2> DEFINE n == ContentLength(r)
             x == [conn[c] EXCEPT !.pc = "load", !.length = n]
  <2>1. n \in Nat BY HttpAssumption DEF ContentLength, Heads
  <2> HIDE DEF n
  <2>2. x \in ConnType /\ x.pc = "load" /\ x.held = conn[c].held /\ x.thrown = conn[c].thrown
        /\ x.got = conn[c].got /\ x.length = n
    BY <1>0, <2>1 DEF ConnType
  <2>3. conn' = [conn EXCEPT ![c] = x] BY <1>1, <1>2, Zenon DEF n
  <2> HIDE DEF x
  <2>4. conn[c].got = 0 BY <1>0 DEF Consistent
  <2>5. Consistent(x) /\ Works(x) /\ Works(conn[c]) BY <1>0, <2>1, <2>2, <2>4 DEF Consistent, Works
  <2> QED BY <1>0, <2>2, <2>3, <2>5, ThreadKeeps
<1>3. CASE HeadVerdict(r) # "none"
  <2>1. PICK a \in {"400", "401", "413", "503", "handler"} : a = HeadVerdict(r) BY <1>3, VerdictIs
  <2>2. Verdict(c, a) BY <1>1, <1>3, <2>1
  <2> QED BY <1>0, <2>2, VerdictStep
<1> QED BY <1>2, <1>3

LEMMA LoadInflightStep == ASSUME HttpInv, NEW c \in Conns, LoadInflight(c) PROVE HttpInv'
<1> DEFINE x == [conn[c] EXCEPT !.pc = "reserve", !.seen = inflight]
<1>0. HttpType /\ up /\ conn[c].pc = "load" /\ conn[c] \in ConnType /\ Consistent(conn[c])
      /\ inflight \in 0..MaxInflight /\ UNCHANGED <<up, acceptor, counted, inflight>>
  BY ThreadAt DEF LoadInflight
<1>1. x \in ConnType /\ x.pc = "reserve" /\ x.held = conn[c].held /\ x.thrown = conn[c].thrown
      /\ x.got = conn[c].got /\ x.length = conn[c].length
  BY <1>0 DEF ConnType
<1>2. conn' = [conn EXCEPT ![c] = x] BY Zenon DEF LoadInflight
<1> HIDE DEF x
<1>3. Consistent(x) /\ Works(x) /\ Works(conn[c]) BY <1>0, <1>1 DEF Consistent, Works
<1> QED BY <1>0, <1>1, <1>2, <1>3, ThreadKeeps

LEMMA ReserveStep == ASSUME HttpInv, NEW c \in Conns, Reserve(c) PROVE HttpInv'
<1> DEFINE n == conn[c].length
<1>0. HttpType /\ up /\ conn[c].pc = "reserve" /\ conn[c] \in ConnType /\ Consistent(conn[c])
      /\ n \in Nat /\ conn[c].seen \in 0..MaxInflight /\ inflight \in 0..MaxInflight /\ MaxInflight \in Nat
      /\ IsAt(c, "reserve") /\ UNCHANGED <<up, acceptor, counted>>
  BY ThreadAt DEF Reserve
<1>1. conn[c].held = 0 BY <1>0 DEF Consistent
<1>2. \/ Verdict(c, "503") /\ inflight' = inflight
      \/ /\ Fits(conn[c].seen, n) /\ inflight = conn[c].seen /\ inflight' = inflight + n
         /\ conn' = [conn EXCEPT ![c].pc = "body", ![c].held = n]
      \/ conn' = [conn EXCEPT ![c].seen = inflight] /\ inflight' = inflight
  BY DEF Reserve
<1>3. CASE Verdict(c, "503") /\ inflight' = inflight BY <1>0, <1>3, VerdictStep
<1>4. CASE /\ Fits(conn[c].seen, n) /\ inflight = conn[c].seen /\ inflight' = inflight + n
           /\ conn' = [conn EXCEPT ![c].pc = "body", ![c].held = n]
  <2> DEFINE x == [conn[c] EXCEPT !.pc = "body", !.held = n]
  <2>1. n \in 0..MaxInflight /\ inflight' <= MaxInflight BY <1>0, <1>4 DEF Fits
  <2> HIDE DEF n
  <2>2. x \in ConnType /\ x.pc = "body" /\ x.held = n /\ x.thrown = conn[c].thrown
        /\ x.got = conn[c].got /\ x.length = conn[c].length
    BY <1>0, <2>1 DEF ConnType
  <2>3. conn' = [conn EXCEPT ![c] = x] BY <1>4, Zenon
  <2>4. x.length = n BY <2>2 DEF n
  <2> HIDE DEF x
  <2>5. Consistent(x) /\ Works(x) /\ Works(conn[c]) BY <1>0, <2>2, <2>4 DEF Consistent, Works
  <2>6. inflight' = inflight - conn[c].held + x.held BY <1>0, <1>1, <1>4, <2>1, <2>2
  <2> QED BY <1>0, <2>1, <2>2, <2>3, <2>5, <2>6, ThreadGoes
<1>5. CASE conn' = [conn EXCEPT ![c].seen = inflight] /\ inflight' = inflight
  <2> DEFINE x == [conn[c] EXCEPT !.seen = inflight]
  <2> HIDE DEF n
  <2>1. x \in ConnType /\ x.pc = "reserve" /\ x.held = conn[c].held /\ x.thrown = conn[c].thrown
        /\ x.got = conn[c].got /\ x.length = conn[c].length
    BY <1>0 DEF ConnType
  <2>2. conn' = [conn EXCEPT ![c] = x] BY <1>5
  <2> HIDE DEF x
  <2>3. Consistent(x) /\ Works(x) /\ Works(conn[c]) BY <1>0, <2>1 DEF Consistent, Works
  <2>4. UNCHANGED <<up, acceptor, counted, inflight>> BY <1>0, <1>5
  <2> QED BY <1>0, <2>1, <2>2, <2>3, <2>4, ThreadKeeps
<1> QED BY <1>2, <1>3, <1>4, <1>5

LEMMA ReceiveBodyStep == ASSUME HttpInv, NEW c \in Conns, ReceiveBody(c) PROVE HttpInv'
<1> DEFINE x == [conn[c] EXCEPT !.got = @ + 1]
<1>0. HttpType /\ up /\ conn[c].pc = "body" /\ conn[c] \in ConnType /\ Consistent(conn[c])
      /\ conn[c].got \in Nat /\ conn[c].length \in Nat /\ conn[c].got < conn[c].length
      /\ UNCHANGED <<up, acceptor, counted, inflight>>
  BY ThreadAt DEF ReceiveBody
<1>1. x \in ConnType /\ x.pc = "body" /\ x.held = conn[c].held /\ x.thrown = conn[c].thrown
      /\ x.got = conn[c].got + 1 /\ x.length = conn[c].length
  BY <1>0 DEF ConnType
<1>2. conn' = [conn EXCEPT ![c] = x] BY DEF ReceiveBody
<1> HIDE DEF x
<1>3. Consistent(x) /\ Works(x) /\ Works(conn[c]) BY <1>0, <1>1 DEF Consistent, Works
<1> QED BY <1>0, <1>1, <1>2, <1>3, ThreadKeeps

LEMMA BodyDoneStep == ASSUME HttpInv, NEW c \in Conns, BodyDone(c) PROVE HttpInv'
<1> DEFINE x == [conn[c] EXCEPT !.pc = "handler"]
<1>0. HttpType /\ up /\ conn[c].pc = "body" /\ conn[c] \in ConnType /\ Consistent(conn[c])
      /\ conn[c].got = conn[c].length /\ UNCHANGED <<up, acceptor, counted, inflight>>
  BY ThreadAt DEF BodyDone
<1>1. x \in ConnType /\ x.pc = "handler" /\ x.held = conn[c].held /\ x.thrown = conn[c].thrown
      /\ x.got = conn[c].got /\ x.length = conn[c].length
  BY <1>0 DEF ConnType
<1>2. conn' = [conn EXCEPT ![c] = x] BY DEF BodyDone, Go
<1> HIDE DEF x
<1>3. Consistent(x) /\ Works(x) /\ Works(conn[c]) BY <1>0, <1>1 DEF Consistent, Works
<1> QED BY <1>0, <1>1, <1>2, <1>3, ThreadKeeps

LEMMA HandlerThrowsStep == ASSUME HttpInv, NEW c \in Conns, HandlerThrows(c) PROVE HttpInv'
<1> DEFINE yes == TRUE
           x == [conn[c] EXCEPT !.pc = "release", !.answer = "500", !.thrown = yes]
<1>0. HttpType /\ up /\ conn[c].pc = "handler" /\ conn[c] \in ConnType /\ Consistent(conn[c])
      /\ UNCHANGED <<up, acceptor, counted, inflight>>
  BY ThreadAt DEF HandlerThrows
<1>1. conn' = [conn EXCEPT ![c] = x] BY Zenon DEF HandlerThrows
<1>2. yes \in BOOLEAN OBVIOUS
<1> HIDE DEF yes
<1>3. x \in ConnType /\ x.pc = "release" /\ x.held = conn[c].held
      /\ x.got = conn[c].got /\ x.length = conn[c].length
  BY <1>0, <1>2 DEF ConnType
<1> HIDE DEF x
<1>4. Consistent(x) /\ Works(x) /\ Works(conn[c]) BY <1>0, <1>3 DEF Consistent, Works
<1> QED BY <1>0, <1>1, <1>3, <1>4, ThreadKeeps

LEMMA AnswerStep == ASSUME HttpInv, NEW c \in Conns, Answer(c) PROVE HttpInv'
<1> DEFINE p == IF conn[c].thrown THEN "close" ELSE "release"
           x == [conn[c] EXCEPT !.pc = p]
<1>0. HttpType /\ up /\ conn[c].pc = "answer" /\ conn[c] \in ConnType /\ Consistent(conn[c])
      /\ UNCHANGED <<up, acceptor, counted, inflight>>
  BY ThreadAt DEF Answer
<1>1. p \in {"close", "release"} /\ (p = "close" <=> conn[c].thrown) BY <1>0 DEF ConnType
<1>2. conn' = [conn EXCEPT ![c] = x] BY DEF Answer, Go
<1> HIDE DEF p
<1>3. x \in ConnType /\ x.pc = p /\ x.held = conn[c].held /\ x.thrown = conn[c].thrown
      /\ x.got = conn[c].got /\ x.length = conn[c].length
  BY <1>0, <1>1 DEF ConnType
<1> HIDE DEF x
<1>4. Consistent(x) /\ Works(x) /\ Works(conn[c]) BY <1>0, <1>1, <1>3 DEF Consistent, Works
<1> QED BY <1>0, <1>2, <1>3, <1>4, ThreadKeeps

LEMMA ReleaseStep == ASSUME HttpInv, NEW c \in Conns, Release(c) PROVE HttpInv'
<1> DEFINE p == IF conn[c].thrown THEN "answer" ELSE "close"
           no == 0
           x == [conn[c] EXCEPT !.held = no, !.pc = p]
<1>0. HttpType /\ up /\ conn[c].pc = "release" /\ conn[c] \in ConnType /\ Consistent(conn[c])
      /\ conn[c].held \in 0..MaxInflight /\ inflight \in 0..MaxInflight /\ MaxInflight \in Nat
      /\ inflight' = inflight - conn[c].held /\ UNCHANGED <<up, acceptor, counted>>
  BY ThreadAt DEF Release
<1>1. p \in {"answer", "close"} /\ no \in 0..MaxInflight BY <1>0
<1>2. conn' = [conn EXCEPT ![c] = x] BY Zenon DEF Release
<1> HIDE DEF p, no
<1>3. x \in ConnType /\ x.pc = p /\ x.held = no /\ x.thrown = conn[c].thrown
      /\ x.got = conn[c].got /\ x.length = conn[c].length
  BY <1>0, <1>1 DEF ConnType
<1> USE DEF no
<1> HIDE DEF x
<1>4. Consistent(x) /\ Works(x) /\ Works(conn[c]) BY <1>0, <1>1, <1>3 DEF Consistent, Works
<1>5. inflight' = inflight - conn[c].held + x.held /\ inflight' <= MaxInflight BY <1>0, <1>3
<1> QED BY <1>0, <1>2, <1>3, <1>4, <1>5, ThreadGoes

LEMMA CloseStep == ASSUME HttpInv, NEW c \in Conns, Close(c) PROVE HttpInv'
<1>0. HttpType /\ up /\ conn[c].pc = "close" /\ conn[c] \in ConnType /\ Consistent(conn[c])
      /\ conn[c].held \in 0..MaxInflight /\ inflight \in 0..MaxInflight /\ MaxInflight \in Nat
      /\ up' = up /\ acceptor' = acceptor /\ inflight' = inflight /\ counted' = counted - 1
      /\ conn' = [conn EXCEPT ![c] = Closed]
  BY ThreadAt DEF Close
<1>1. conn[c].held = 0 /\ Works(conn[c]) BY <1>0 DEF Consistent, Works
<1>2. conn' \in [Conns -> ConnType] /\ \A b \in Conns : b # c => conn'[b] = conn[b]
  BY <1>0, ClosedFits, ConnSet
<1>3. AcceptorFits' /\ Refusing' = Refusing BY <1>0, <1>2 DEF HttpInv, AcceptorFits, Refusing
<1>4. Cardinality(Workers)' = Cardinality(Workers) + (IF Works(Closed) THEN 1 ELSE 0) - (IF Works(conn[c]) THEN 1 ELSE 0)
  BY <1>0, ClosedFits, WorkersSet
<1>5. Cardinality(Workers)' <= MaxConns
  BY <1>1, <1>4, ClosedFits, WorkersAreFinite, HttpAssumption DEF HttpInv
<1>6. inflight' = inflight - conn[c].held + Closed.held /\ inflight' <= MaxInflight BY <1>0, <1>1, ClosedFits
<1>7. counted' = counted + (IF Works(Closed) THEN 1 ELSE 0) - (IF Works(conn[c]) THEN 1 ELSE 0)
                 + (IF Refusing' THEN 1 ELSE 0) - (IF Refusing THEN 1 ELSE 0)
  BY <1>0, <1>1, <1>3, ClosedFits DEF HttpType
<1>8. acceptor' \in [pc : {"accept", "refuse", "unstarted"}, conn : Conns \cup {NoConn}] BY <1>0 DEF HttpType
<1> QED BY <1>0, <1>3, <1>5, <1>6, <1>7, <1>8, ClosedFits, ConnStep

----------------------------------------
LEMMA HttpStep == HttpInv /\ [HttpNext]_httpVars => HttpInv'
<1> SUFFICES ASSUME HttpInv, [HttpNext]_httpVars PROVE HttpInv' OBVIOUS
<1>1. CASE UNCHANGED httpVars
  <2>1. up' = up /\ acceptor' = acceptor /\ conn' = conn /\ counted' = counted /\ inflight' = inflight
    BY <1>1 DEF httpVars
  <2>2. HttpType' /\ ConnsFit' /\ AcceptorFits' /\ Workers' = Workers /\ Held' = Held /\ Refusing' = Refusing
    BY <2>1 DEF HttpInv, HttpType, ConnsFit, AcceptorFits, Refusing, Workers, Held
  <2>3. Cardinality(Workers)' = Cardinality(Workers) /\ Weight(Held)' = Weight(Held) BY <2>2 DEF Weight, Units
  <2>4. Counted' BY <2>1, <2>2, <2>3 DEF HttpInv, Counted
  <2> QED BY <2>2, <2>3, <2>4 DEF HttpInv
<1>2. CASE AcceptFails BY <1>2, AcceptFailsStep
<1>3. CASE Refuse BY <1>3, RefuseStep
<1>4. ASSUME NEW c \in Conns, Connect(c) \/ Accept(c) \/ ReceiveBody(c) \/ Work(c) PROVE HttpInv'
  <2>1. CASE Connect(c) BY <2>1, ConnectStep
  <2>2. CASE Accept(c) BY <2>2, AcceptStep
  <2>3. CASE ReceiveBody(c) BY <2>3, ReceiveBodyStep
  <2>4. CASE ReadHeader(c) BY <2>4, ReadHeaderStep
  <2>5. CASE LoadInflight(c) BY <2>5, LoadInflightStep
  <2>6. CASE Reserve(c) BY <2>6, ReserveStep
  <2>7. CASE BodyDone(c) BY <2>7, BodyDoneStep
  <2>8. CASE BodyFails(c) BY <2>8, VerdictStep DEF BodyFails
  <2>9. CASE HandlerReturns(c) BY <2>9, VerdictStep DEF HandlerReturns
  <2>10. CASE HandlerThrows(c) BY <2>10, HandlerThrowsStep
  <2>11. CASE Answer(c) BY <2>11, AnswerStep
  <2>12. CASE Release(c) BY <2>12, ReleaseStep
  <2>13. CASE Close(c) BY <2>13, CloseStep
  <2> QED BY <1>4, <2>1, <2>2, <2>3, <2>4, <2>5, <2>6, <2>7, <2>8, <2>9, <2>10, <2>11, <2>12, <2>13 DEF Work
<1> QED BY <1>1, <1>2, <1>3, <1>4 DEF HttpNext

\* The invariant of the transport holds in every state.
THEOREM HttpInvariant == HttpSpec => []HttpInv
  BY HttpInitInv, HttpStep, PTL DEF HttpSpec

LEMMA InvIsExact == HttpInv => CountersAgree /\ LoadIsBounded /\ HandlerSeesWhole
<1> SUFFICES ASSUME HttpInv PROVE CountersAgree /\ LoadIsBounded /\ HandlerSeesWhole OBVIOUS
<1>0. HttpType BY DEF HttpInv
<1>1. MapThenSumSet(LAMBDA c : conn[c].held, Conns) = Weight(Held)
  <2>1. MapThenSumSet(LAMBDA c : Held[c], Conns) = Weight(Held) BY <1>0, HeldIsWeighed, SumIsWeight
  <2>2. MapThenSumSet(LAMBDA c : conn[c].held, Conns) = MapThenSumSet(LAMBDA c : Held[c], Conns)
    BY DEF Held, MapThenSumSet, MapThenFoldSet
  <2> QED BY <2>1, <2>2
<1>2. CountersAgree BY <1>1 DEF CountersAgree, HttpInv, Counted, Refusing
<1>3. LoadIsBounded BY HttpAssumption DEF LoadIsBounded, HttpInv, HttpType
<1>4. HandlerSeesWhole BY DEF HandlerSeesWhole, HttpInv, ConnsFit, Consistent
<1> QED BY <1>2, <1>3, <1>4

\* A connection is turned away only by Accept, which looks at the count.
LEMMA RefusingIsFull ==
    HttpInv /\ [HttpNext]_httpVars => (acceptor.pc = "accept" /\ acceptor'.pc = "refuse" => Cardinality(Workers) = MaxConns)
<1> SUFFICES ASSUME HttpInv, [HttpNext]_httpVars, acceptor.pc = "accept", acceptor'.pc = "refuse"
             PROVE  Cardinality(Workers) = MaxConns
  OBVIOUS
<1>1. acceptor' # acceptor BY SMTT(30)
<1>2. PICK c \in Conns : Accept(c)
  BY <1>1 DEF HttpNext, httpVars, AcceptFails, Refuse, Connect, ReceiveBody, Work, ReadHeader, LoadInflight,
     Reserve,
              BodyDone, BodyFails, HandlerReturns, HandlerThrows, Answer, Release, Close
<1>3. up /\ ~Refusing /\ AtLimit(counted) BY <1>1, <1>2 DEF Accept, IsAt, Refusing
<1> QED BY <1>3, LimitIsThreads

\* For any number of connections and any limits: what is counted is what is live,
\* memory and threads stay within their limits, a handler sees a whole body that
\* is paid for, and a connection is turned away only when every thread is taken
\* (serve, reserve_body, ~Request, ~ConnectionGuard).
THEOREM AdmissionsAreExact == HttpSpec => AdmissionIsExact
<1>1. HttpInv /\ [HttpNext]_httpVars => [acceptor.pc = "accept" /\ acceptor'.pc = "refuse" => Cardinality(Workers) = MaxConns]_httpVars
  BY RefusingIsFull
<1> QED BY <1>1, HttpInvariant, InvIsExact, PTL DEF HttpSpec, AdmissionIsExact, RefusedWhenFull

----------------------------------------
(* The page: the invariant. *)

Replies == Answers \cup {"found", "missing", None}
TxType == [pc : {"idle", "posted", "verify", "check"}, id : Ids \cup {None}, answer : Replies]
PageType ==
    /\ has \subseteq Ids /\ late \subseteq Ids /\ started \in [Ids -> Nat]
    /\ tx \in [Senders -> TxType] /\ pending \subseteq Ids /\ stored = pending
    /\ \A s \in Senders : tx[s].pc # "idle" => tx[s].id \in Ids

\* The request of a sender is with the service, or a lookup behind it.
Uses(s, id) == tx[s].pc \in {"posted", "verify"} /\ tx[s].id = id
Posted(s, id) == tx[s].pc = "posted" /\ tx[s].id = id
\* The answer says that the task is not there.
Denied(s) ==
    \/ tx[s].pc = "posted" /\ tx[s].answer = "refused"
    \/ tx[s].pc = "verify" /\ tx[s].answer = "missing"

StartedOnce == \A id \in Ids : started[id] <= 1 /\ (started[id] = 1 => id \in has)
\* Unless it was sent again, one request at a time carries an identifier.
OneRequest ==
    \A id \in Ids \ resent :
        /\ id \in late => \A s \in Senders : ~Uses(s, id)
        /\ \A r, s \in Senders : Uses(r, id) /\ Uses(s, id) => r = s
\* The hint is there as long as a request is.
HintOfRequest ==
    \A id \in Ids \ (resent \cup known) : (id \in late \/ \E s \in Senders : Posted(s, id)) => id \in pending
\* What was denied does not come to be.
DeniedIsNot == \A s \in Senders, id \in Ids \ resent : Uses(s, id) /\ Denied(s) => id \notin has

PageInv == PageType /\ StartedOnce /\ HintKept /\ OneRequest /\ HintOfRequest /\ DeniedIsNot

LEMMA PageInitInv == PageInit => PageInv
  BY DEF PageInit, PageInv, PageType, StartedOnce, HintKept, OneRequest, HintOfRequest, DeniedIsNot, Uses,
     Posted, Denied,
         Still, Senders, TxType, Replies, Answers, None

----------------------------------------
(* The steps of the page and of the service. *)

\* A sender that goes on.
LEMMA TxSet ==
    ASSUME PageType, NEW s \in Senders, NEW x \in TxType, x.pc # "idle" => x.id \in Ids, tx' = [tx EXCEPT ![s] = x]
    PROVE /\ tx' \in [Senders -> TxType] /\ tx'[s] = x /\ \A r \in Senders : r # s => tx'[r] = tx[r]
          /\ \A r \in Senders : tx'[r].pc # "idle" => tx'[r].id \in Ids
<1>1. /\ tx' \in [Senders -> TxType] /\ tx'[s] = x /\ \A r \in Senders : r # s => tx'[r] = tx[r]
  BY DEF PageType
<1> QED BY <1>1 DEF PageType
LEMMA TxAnswered ==
    ASSUME PageType, NEW s \in Senders, NEW a \in Replies, tx' = [tx EXCEPT ![s].answer = a]
    PROVE /\ tx' \in [Senders -> TxType] /\ tx'[s].pc = tx[s].pc /\ tx'[s].id = tx[s].id /\ tx'[s].answer = a
          /\ \A r \in Senders : r # s => tx'[r] = tx[r]
          /\ \A r \in Senders : tx'[r].pc # "idle" => tx'[r].id \in Ids
<1> DEFINE x == [tx[s] EXCEPT !.answer = a]
<1>1. x \in TxType /\ x.pc = tx[s].pc /\ x.id = tx[s].id /\ x.answer = a BY DEF PageType, TxType
<1>2. x.pc # "idle" => x.id \in Ids BY <1>1 DEF PageType
<1> HIDE DEF x
<1>3. tx' = [tx EXCEPT ![s] = x] BY DEF x
<1> QED BY <1>1, <1>2, <1>3, TxSet
LEMMA TxValues ==
    /\ Still \in TxType /\ Still.pc = "idle" /\ None \in Replies /\ Answers \subseteq Replies
    /\ \A id \in Ids, at \in {"posted", "verify", "check"} :
         LET x == [pc |-> at, id |-> id, answer |-> None]
         IN x \in TxType /\ x.pc = at /\ x.id = id /\ x.answer = None /\ x.pc # "idle"
  BY DEF Still, TxType, Replies, Answers, None

\* One request is handled by the service.
LEMMA DecideIs ==
    ASSUME PageInv, NEW id \in Ids, NEW answer \in Answers, Decide(id, answer)
    PROVE /\ has' \subseteq Ids /\ has \subseteq has' /\ has' \subseteq has \cup {id} /\ started' \in [Ids -> Nat]
          /\ StartedOnce' /\ (answer = "refused" => id \notin has')
<1>1. CASE UNCHANGED service BY <1>1 DEF Decide, service, PageInv, PageType, StartedOnce, Taken
<1>2. CASE id \notin has /\ has' = has \cup {id} /\ started' = [started EXCEPT ![id] = @ + 1] /\ answer = "accepted"
  BY <1>2 DEF PageInv, PageType, StartedOnce
<1>3. CASE has' = has \cup {id} /\ started' = started /\ answer = "error"
  BY <1>3 DEF PageInv, PageType, StartedOnce
<1>4. CASE has' = has /\ started' = started /\ answer = "error" BY <1>4 DEF PageInv, PageType, StartedOnce
<1> QED BY <1>1, <1>2, <1>3, <1>4 DEF Decide, Taken

\* A step of senders and requests that are with the service already.
LEMMA PageKept ==
    ASSUME PageInv, tx' \in [Senders -> TxType], \A s \in Senders : tx'[s].pc # "idle" => tx'[s].id \in Ids,
           late' \subseteq Ids, pending' \subseteq pending, stored' = pending', known \subseteq known', resent \subseteq resent',
           has' \subseteq Ids, started' \in [Ids -> Nat], StartedOnce',
           \A id \in has' \ has : id \in pending \cup known \cup resent,
           \A id \in Ids \ resent' : id \in late' => id \in late \/ \E s \in Senders : Posted(s, id) /\ ~Uses(s, id)',
           \A id \in Ids \ resent', s \in Senders : Uses(s, id)' => Uses(s, id) /\ (Posted(s, id)' => Posted(s, id)),
           \A id \in pending \ pending' : id \in known' \cup resent'
              \/ (id \notin has' /\ id \notin late' /\ \A s \in Senders : ~Posted(s, id)'),
           \A s \in Senders, id \in Ids \ resent' : (Uses(s, id) /\ Denied(s))' => id \notin has'
    PROVE PageInv'
<1> USE DEF PageInv
<1>1. PageType' BY DEF PageType
<1>2. HintKept'
  <2> SUFFICES ASSUME NEW id \in has', id \notin known' \cup resent' PROVE id \in pending' BY DEF HintKept
  <2>1. id \in pending BY DEF HintKept, PageType
  <2> QED BY <2>1
<1>3. OneRequest' BY DEF OneRequest, Posted, Uses
<1>4. HintOfRequest'
  <2> SUFFICES ASSUME NEW id \in Ids, id \notin known' \cup resent', id \in late' \/ \E s \in Senders : Posted(s, id)'
               PROVE id \in pending'
    BY DEF HintOfRequest
  <2>0. \A s \in Senders : Posted(s, id)' => Uses(s, id)' BY DEF Posted, Uses
  <2>1. id \in late \/ \E s \in Senders : Posted(s, id) BY <2>0
  <2>2. id \in pending BY <2>1 DEF HintOfRequest
  <2>3. CASE id \in pending' BY <2>3
  <2>4. CASE id \notin pending' BY <2>2, <2>4
  <2> QED BY <2>3, <2>4
<1>5. DeniedIsNot' BY DEF DeniedIsNot
<1> QED BY <1>1, <1>2, <1>3, <1>4, <1>5

LEMMA PageStep == PageInv /\ [PageNext]_pageVars => PageInv'
<1> SUFFICES ASSUME PageInv, [PageNext]_pageVars PROVE PageInv' OBVIOUS
<1>0. PageType /\ StartedOnce /\ HintKept /\ OneRequest /\ HintOfRequest /\ DeniedIsNot BY DEF PageInv
\* A step that leaves the requests alone.
<1>q. ASSUME UNCHANGED <<has, started, tx, resent>>, late' \subseteq late, pending' \subseteq pending, stored' = pending',
             known \subseteq known', \A id \in pending \ pending' : id \in known'
      PROVE PageInv'
  <2>1. \A s \in Senders, id \in Ids : (Posted(s, id)' <=> Posted(s, id)) /\ (Uses(s, id)' <=> Uses(s, id))
    BY <1>q DEF Posted, Uses
  <2>2. \A s \in Senders : Denied(s)' <=> Denied(s) BY <1>q DEF Denied
  <2>3. tx' \in [Senders -> TxType] /\ StartedOnce' /\ started' \in [Ids -> Nat] /\ late' \subseteq Ids /\ has' \subseteq Ids
    BY <1>0, <1>q DEF PageType, StartedOnce
  <2>4. \A s \in Senders : tx'[s].pc # "idle" => tx'[s].id \in Ids BY <1>0, <1>q DEF PageType
  <2>5. \A s \in Senders, id \in Ids \ resent' : (Uses(s, id) /\ Denied(s))' => id \notin has'
    BY <1>0, <1>q, <2>1, <2>2 DEF DeniedIsNot
  <2> QED BY <1>q, <2>1, <2>3, <2>4, <2>5, PageKept
<1>1. CASE \E id \in Ids : Submit(id)
  <2> PICK id \in Ids : Submit(id) BY <1>1
  <2> DEFINE x == [pc |-> "posted", id |-> id, answer |-> None]
  <2>1. /\ tx["submit"] = Still /\ id \notin known \cup resent \cup has \cup late /\ \A s \in Senders : tx[s].id # id
        /\ pending' = pending \cup {id} /\ stored' = pending' /\ UNCHANGED <<has, started, late, known, resent>>
        /\ tx' = [tx EXCEPT !["submit"] = x]
    BY DEF Submit, service
  <2>2. x \in TxType /\ x.pc = "posted" /\ x.id = id /\ x.answer = None BY TxValues
  <2> HIDE DEF x
  <2>3. /\ tx' \in [Senders -> TxType] /\ tx'["submit"] = x /\ \A r \in Senders : r # "submit" => tx'[r] = tx[r]
        /\ \A r \in Senders : tx'[r].pc # "idle" => tx'[r].id \in Ids
    BY <1>0, <2>1, <2>2, TxSet DEF Senders
  <2>4. PageType' /\ StartedOnce' /\ HintKept' BY <1>0, <2>1, <2>3 DEF PageType, StartedOnce, HintKept
  <2>5. \A s \in Senders : ~Uses(s, id) BY <2>1 DEF Uses
  <2>6. /\ \A s \in Senders \ {"submit"}, i \in Ids : (Uses(s, i)' <=> Uses(s, i)) /\ (Posted(s, i)' <=> Posted(s, i))
        /\ \A s \in Senders \ {"submit"} : Denied(s)' <=> Denied(s)
        /\ \A i \in Ids : (Uses("submit", i)' <=> i = id) /\ (Posted("submit", i)' <=> i = id)
        /\ ~Denied("submit")'
    BY <2>2, <2>3 DEF Uses, Posted, Denied, None
  <2>7. OneRequest' BY <1>0, <2>1, <2>5, <2>6 DEF OneRequest
  <2>8. HintOfRequest' BY <1>0, <2>1, <2>6 DEF HintOfRequest
  <2>9. DeniedIsNot' BY <1>0, <2>1, <2>6 DEF DeniedIsNot
  <2> QED BY <2>4, <2>7, <2>8, <2>9 DEF PageInv
<1>2. CASE \E id \in Ids : ServeLate(id)
  <2> PICK id \in Ids, answer \in Answers : id \in late /\ late' = late \ {id} /\ Decide(id, answer)
    BY <1>2 DEF ServeLate
  <2>1. UNCHANGED <<pending, stored, known, resent, tx>> BY <1>2 DEF ServeLate, page
  <2>2. /\ has' \subseteq Ids /\ has \subseteq has' /\ has' \subseteq has \cup {id} /\ started' \in [Ids -> Nat] /\ StartedOnce'
    BY DecideIs
  <2>3. id \in pending \cup known \cup resent BY <1>0 DEF HintOfRequest
  <2>4. id \notin resent => \A s \in Senders : ~Uses(s, id) BY <1>0 DEF OneRequest
  <2>5. \A s \in Senders, i \in Ids : (Posted(s, i)' <=> Posted(s, i)) /\ (Uses(s, i)' <=> Uses(s, i))
    BY <2>1 DEF Posted, Uses
  <2>6. \A s \in Senders, i \in Ids \ resent' : (Uses(s, i) /\ Denied(s))' => i \notin has'
    <3>1. \A s \in Senders : Denied(s)' <=> Denied(s) BY <2>1 DEF Denied
    <3> QED BY <1>0, <2>1, <2>2, <2>4, <2>5, <3>1 DEF DeniedIsNot
  <2>7. tx' \in [Senders -> TxType] /\ (\A s \in Senders : tx'[s].pc # "idle" => tx'[s].id \in Ids) /\ stored' = pending' /\ late' \subseteq Ids
    BY <1>0, <2>1 DEF PageType
  <2> QED BY <2>1, <2>2, <2>3, <2>5, <2>6, <2>7, PageKept
<1>3. CASE \E s \in Senders : Serve(s)
  <2> PICK s \in Senders, answer \in Answers : /\ tx[s].pc = "posted" /\ tx[s].answer = None
                                               /\ Decide(tx[s].id, answer) /\ tx' = [tx EXCEPT ![s].answer = answer]
    BY <1>3 DEF Serve
  <2> PICK id \in Ids : id = tx[s].id BY <1>0 DEF PageType
  <2>1. UNCHANGED <<pending, stored, known, resent, late>> BY <1>3 DEF Serve, page
  <2>2. /\ has' \subseteq Ids /\ has \subseteq has' /\ has' \subseteq has \cup {id} /\ started' \in [Ids -> Nat] /\ StartedOnce'
        /\ answer = "refused" => id \notin has'
    BY DecideIs
  <2>3. /\ tx' \in [Senders -> TxType] /\ tx'[s].pc = tx[s].pc /\ tx'[s].id = tx[s].id /\ tx'[s].answer = answer
        /\ \A r \in Senders : r # s => tx'[r] = tx[r]
        /\ \A r \in Senders : tx'[r].pc # "idle" => tx'[r].id \in Ids
    BY <1>0, TxAnswered, TxValues
  <2>4. id \in pending \cup known \cup resent BY <1>0 DEF HintOfRequest, Posted
  <2>5. Uses(s, id) /\ (id \notin resent => \A r \in Senders : Uses(r, id) => r = s)
    BY <1>0 DEF OneRequest, Uses
  <2>6. \A r \in Senders, i \in Ids : (Posted(r, i)' <=> Posted(r, i)) /\ (Uses(r, i)' <=> Uses(r, i))
    BY <2>3 DEF Posted, Uses
  <2>7. \A r \in Senders, i \in Ids \ resent' : (Uses(r, i) /\ Denied(r))' => i \notin has'
    <3> SUFFICES ASSUME NEW r \in Senders, NEW i \in Ids \ resent, Uses(r, i), Denied(r)' PROVE i \notin has'
      BY <2>1, <2>6
    <3>1. CASE r = s BY <2>2, <2>3, <3>1 DEF Denied, Uses
    <3>2. CASE r # s
      <4>1. Denied(r) BY <2>3, <3>2 DEF Denied
      <4> QED BY <1>0, <2>2, <2>5, <3>2, <4>1 DEF DeniedIsNot
    <3> QED BY <3>1, <3>2
  <2>8. stored' = pending' /\ late' \subseteq Ids BY <1>0, <2>1 DEF PageType
  <2> QED BY <2>1, <2>2, <2>3, <2>4, <2>6, <2>7, <2>8, PageKept
<1>4. CASE \E s \in Senders : ServeLookup(s)
  <2> PICK s \in Senders : /\ tx[s].pc \in {"verify", "check"}
                           /\ tx' = [tx EXCEPT ![s].answer = Found(tx[s].id)]
    BY <1>4 DEF ServeLookup
  <2>1. UNCHANGED <<has, started, pending, stored, known, resent, late>>
    BY <1>4 DEF ServeLookup, page, service
  <2>2. Found(tx[s].id) \in Replies /\ (Found(tx[s].id) = "missing" => tx[s].id \notin has)
    BY DEF Found, Replies
  <2>3. /\ tx' \in [Senders -> TxType] /\ tx'[s].pc = tx[s].pc /\ tx'[s].id = tx[s].id /\ tx'[s].answer = Found(tx[s].id)
        /\ \A r \in Senders : r # s => tx'[r] = tx[r]
        /\ \A r \in Senders : tx'[r].pc # "idle" => tx'[r].id \in Ids
    BY <1>0, <2>2, TxAnswered
  <2>4. \A r \in Senders, i \in Ids : (Posted(r, i)' <=> Posted(r, i)) /\ (Uses(r, i)' <=> Uses(r, i))
    BY <2>3 DEF Posted, Uses
  <2>5. \A r \in Senders, i \in Ids \ resent' : (Uses(r, i) /\ Denied(r))' => i \notin has'
    <3> SUFFICES ASSUME NEW r \in Senders, NEW i \in Ids \ resent, Uses(r, i), Denied(r)' PROVE i \notin has
      BY <2>1, <2>4
    <3>1. CASE r = s BY <2>2, <2>3, <3>1 DEF Denied, Uses
    <3>2. CASE r # s
      <4>1. Denied(r) BY <2>3, <3>2 DEF Denied
      <4> QED BY <1>0, <4>1 DEF DeniedIsNot
    <3> QED BY <3>1, <3>2
  <2>6. stored' = pending' /\ late' \subseteq Ids /\ has' \subseteq Ids /\ started' \in [Ids -> Nat] /\ StartedOnce'
    BY <1>0, <2>1 DEF PageType, StartedOnce
  <2> QED BY <2>1, <2>3, <2>4, <2>5, <2>6, PageKept

  \* A sender is done with a request, and may retire its hint.
<1>d. ASSUME NEW s \in Senders, tx' = [tx EXCEPT ![s] = Still], UNCHANGED <<has, started, resent>>, known \subseteq known',
             pending' \subseteq pending, stored' = pending', late' \subseteq Ids,
             \A id \in late' \ late : Posted(s, id),
             \A id \in pending \ pending' : id \in known' \/ (late' = late /\ Uses(s, id) /\ Denied(s))
      PROVE PageInv'
  <2>1. /\ tx' \in [Senders -> TxType] /\ tx'[s] = Still /\ \A r \in Senders : r # s => tx'[r] = tx[r]
        /\ \A r \in Senders : tx'[r].pc # "idle" => tx'[r].id \in Ids
    BY <1>0, <1>d, TxValues, TxSet
  <2>2. \A id \in Ids : ~Uses(s, id)' /\ ~Posted(s, id)' BY <2>1, TxValues DEF Uses, Posted
  <2>3. \A r \in Senders, id \in Ids : r # s => (Uses(r, id)' <=> Uses(r, id)) /\ (Posted(r, id)' <=> Posted(r, id)) /\ (Denied(r)' <=> Denied(r))
    BY <2>1 DEF Uses, Posted, Denied
  <2>4. \A id \in pending \ pending' : id \in known' \cup resent'
            \/ (id \notin has' /\ id \notin late' /\ \A r \in Senders : ~Posted(r, id)')
    <3> SUFFICES ASSUME NEW id \in Ids, id \notin known' \cup resent, late' = late, Uses(s, id), Denied(s)
                 PROVE id \notin has' /\ id \notin late' /\ \A r \in Senders : ~Posted(r, id)'
      BY <1>0, <1>d DEF PageType
    <3>1. id \notin has' BY <1>0, <1>d DEF DeniedIsNot
    <3>2. id \notin late' BY <1>0 DEF OneRequest
    <3>3. ASSUME NEW r \in Senders, r # s PROVE ~Posted(r, id)
      <4>1. ~Uses(r, id) BY <1>0, <3>3 DEF OneRequest
      <4> QED BY <4>1 DEF Posted, Uses
    <3> QED BY <2>2, <2>3, <3>1, <3>2, <3>3
  <2>5. \A r \in Senders, id \in Ids \ resent' : (Uses(r, id) /\ Denied(r))' => id \notin has'
    BY <1>0, <1>d, <2>2, <2>3 DEF DeniedIsNot
  <2>6. \A r \in Senders, id \in Ids \ resent' : Uses(r, id)' => Uses(r, id) /\ (Posted(r, id)' => Posted(r, id))
    BY <2>2, <2>3
  <2>7. \A id \in Ids \ resent' : id \in late' => id \in late \/ \E r \in Senders : Posted(r, id) /\ ~Uses(r, id)'
    BY <1>d, <2>2
  <2>8. has' \subseteq Ids /\ started' \in [Ids -> Nat] /\ StartedOnce'
    BY <1>0, <1>d DEF PageType, StartedOnce
  <2> QED BY <1>d, <2>1, <2>4, <2>5, <2>6, <2>7, <2>8, PageKept
\* A sender goes on with a lookup.
<1>v. ASSUME NEW s \in Senders, NEW id \in Ids, NEW at \in {"verify", "check"},
             tx' = [tx EXCEPT ![s] = [pc |-> at, id |-> id, answer |-> None]],
             at = "verify" => Uses(s, id), UNCHANGED <<has, started, late, pending, stored, known, resent>>
      PROVE PageInv'
  <2> DEFINE x == [pc |-> at, id |-> id, answer |-> None]
  <2>1. x \in TxType /\ x.pc = at /\ x.id = id /\ x.answer = None BY TxValues
  <2> HIDE DEF x
  <2>2. tx' = [tx EXCEPT ![s] = x] BY <1>v DEF x
  <2>3. /\ tx' \in [Senders -> TxType] /\ tx'[s] = x /\ \A r \in Senders : r # s => tx'[r] = tx[r]
        /\ \A r \in Senders : tx'[r].pc # "idle" => tx'[r].id \in Ids
    BY <1>0, <2>1, <2>2, TxSet
  <2>4. \A i \in Ids : ~Posted(s, i)' /\ (Uses(s, i)' => Uses(s, i)) /\ ~Denied(s)'
    BY <1>v, <2>1, <2>3 DEF Posted, Uses, Denied, None
  <2>5. \A r \in Senders, i \in Ids : r # s => (Uses(r, i)' <=> Uses(r, i)) /\ (Posted(r, i)' <=> Posted(r, i)) /\ (Denied(r)' <=> Denied(r))
    BY <2>3 DEF Uses, Posted, Denied
  <2>6. \A r \in Senders, i \in Ids \ resent' : (Uses(r, i) /\ Denied(r))' => i \notin has'
    BY <1>0, <1>v, <2>4, <2>5 DEF DeniedIsNot
  <2>7. \A r \in Senders, i \in Ids \ resent' : Uses(r, i)' => Uses(r, i) /\ (Posted(r, i)' => Posted(r, i))
    BY <2>4, <2>5
  <2>8. has' \subseteq Ids /\ started' \in [Ids -> Nat] /\ StartedOnce' /\ late' \subseteq Ids /\ stored' = pending'
    BY <1>0, <1>v DEF PageType, StartedOnce
  <2> QED BY <1>v, <2>3, <2>6, <2>7, <2>8, PageKept
<1>5. CASE \E s \in Senders : TransmitAnswered(s)
  <2> PICK s \in Senders : TransmitAnswered(s) BY <1>5
  <2>1. tx[s].pc = "posted" /\ UNCHANGED <<has, started, late, resent>> BY DEF TransmitAnswered, service
  <2> PICK id \in Ids : id = tx[s].id BY <1>0, <2>1 DEF PageType
  <2>2. CASE tx[s].answer = "conflict"
    <3>1. tx' = [tx EXCEPT ![s] = [pc |-> "verify", id |-> id, answer |-> None]] /\ UNCHANGED <<pending, stored, known>>
      BY <2>2 DEF TransmitAnswered, page
    <3>2. Uses(s, id) BY <2>1 DEF Uses
    <3> QED BY <1>v, <2>1, <3>1, <3>2
  <2>3. CASE tx[s].answer # "conflict"
    <3>1. tx' = [tx EXCEPT ![s] = Still] /\ known \subseteq known' /\ (tx[s].answer = "accepted" => known' = known \cup {id})
      BY <2>3 DEF TransmitAnswered
    <3>2. \/ tx[s].answer \in {"accepted", "refused"} /\ pending' = pending \ {id} /\ stored' = pending'
          \/ UNCHANGED <<pending, stored>>
      BY <2>3 DEF TransmitAnswered, Forget, Retires
    <3>3. stored' = pending' /\ late' \subseteq Ids /\ pending' \subseteq pending
      BY <1>0, <2>1, <3>2 DEF PageType
    <3>4. \A i \in pending \ pending' : i \in known' \/ (late' = late /\ Uses(s, i) /\ Denied(s))
      BY <2>1, <3>1, <3>2 DEF Uses, Denied
    <3> QED BY <1>d, <2>1, <3>1, <3>3, <3>4
  <2> QED BY <2>2, <2>3
<1>6. CASE \E s \in Senders : TransmitLost(s)
  <2> PICK s \in Senders : TransmitLost(s) BY <1>6
  <2>1. tx[s].pc = "posted" /\ tx' = [tx EXCEPT ![s] = Still] /\ UNCHANGED <<has, started, known, resent, pending, stored>>
    BY DEF TransmitLost, service, Retires, None
  <2> PICK id \in Ids : id = tx[s].id BY <1>0, <2>1 DEF PageType
  <2>2. late' = late \/ late' = late \cup {id} BY DEF TransmitLost
  <2>3. \A i \in late' \ late : Posted(s, i) BY <2>1, <2>2 DEF Posted
  <2>4. late' \subseteq Ids /\ stored' = pending' /\ pending' \subseteq pending
    BY <1>0, <2>1, <2>2 DEF PageType
  <2> QED BY <1>d, <2>1, <2>3, <2>4
<1>7. CASE \E s \in Senders : VerifyEnds(s)
  <2> PICK s \in Senders : VerifyEnds(s) BY <1>7
  <2>1. tx[s].pc = "verify" /\ tx' = [tx EXCEPT ![s] = Still] /\ UNCHANGED <<has, started, late, known, resent>>
    BY DEF VerifyEnds, service
  <2>2. \/ tx[s].answer = "missing" /\ pending' = pending \ {tx[s].id} /\ stored' = pending'
        \/ UNCHANGED <<pending, stored>>
    BY DEF VerifyEnds, Forget
  <2>3. late' \subseteq Ids /\ stored' = pending' /\ pending' \subseteq pending
    BY <1>0, <2>1, <2>2 DEF PageType
  <2>4. \A i \in pending \ pending' : late' = late /\ Uses(s, i) /\ Denied(s) BY <2>1, <2>2 DEF Uses, Denied
  <2> QED BY <1>d, <2>1, <2>3, <2>4
<1>8. CASE Retry
  <2> PICK id \in pending : tx' = [tx EXCEPT !["retry"] = [pc |-> "check", id |-> id, answer |-> None]]
    BY <1>8 DEF Retry
  <2>1. UNCHANGED <<has, started, late, pending, stored, known, resent>> /\ id \in Ids /\ "retry" \in Senders
    BY <1>0, <1>8 DEF Retry, service, page, PageType, Senders
  <2> QED BY <1>v, <2>1
<1>9. CASE RetryChecked
  <2>0. "retry" \in Senders /\ "submit" \in Senders /\ tx["retry"].pc = "check" /\ UNCHANGED <<has, started, late>>
    BY <1>9 DEF RetryChecked, Senders, service
  <2> PICK id \in Ids : id = tx["retry"].id BY <1>0, <2>0 DEF PageType
  <2>1. CASE /\ tx' = [tx EXCEPT !["retry"] = Still] /\ pending' = pending \ {id} /\ stored' = pending'
             /\ known' = known \cup {id} /\ UNCHANGED resent
    <3>1. late' \subseteq Ids BY <1>0, <2>0 DEF PageType
    <3> QED BY <1>d, <2>0, <2>1, <3>1
  <2>2. CASE tx' = [tx EXCEPT !["retry"] = Still] /\ UNCHANGED <<pending, stored, known, resent>>
    <3>1. late' \subseteq Ids /\ stored' = pending' BY <1>0, <2>0, <2>2 DEF PageType
    <3> QED BY <1>d, <2>0, <2>2, <3>1
  <2>3. CASE /\ tx' = [tx EXCEPT !["retry"] = [pc |-> "posted", id |-> id, answer |-> None]]
             /\ resent' = (IF id \in late \/ tx["submit"].id = id THEN resent \cup {id} ELSE resent)
             /\ id \in pending /\ UNCHANGED <<pending, stored, known>>
    <3> DEFINE x == [pc |-> "posted", id |-> id, answer |-> None]
    <3>1. x \in TxType /\ x.pc = "posted" /\ x.id = id /\ x.answer = None BY TxValues
    <3>2. tx' = [tx EXCEPT !["retry"] = x] BY <2>3
    <3> HIDE DEF x
    <3>3. /\ tx' \in [Senders -> TxType] /\ tx'["retry"] = x /\ \A r \in Senders : r # "retry" => tx'[r] = tx[r]
          /\ \A r \in Senders : tx'[r].pc # "idle" => tx'[r].id \in Ids
      BY <1>0, <2>0, <3>1, <3>2, TxSet
    <3>4. resent \subseteq resent' /\ (id \notin resent' => id \notin late /\ ~Uses("submit", id))
      BY <2>3 DEF Uses
    <3>5. /\ \A i \in Ids : (Uses("submit", i)' <=> Uses("submit", i)) /\ (Posted("submit", i)' <=> Posted("submit", i))
          /\ Denied("submit")' <=> Denied("submit")
          /\ \A i \in Ids : (Uses("retry", i)' <=> i = id) /\ (Posted("retry", i)' <=> i = id)
          /\ ~Denied("retry")'
      BY <2>0, <3>1, <3>3 DEF Uses, Posted, Denied, None
    <3>6. PageType' /\ StartedOnce' /\ HintKept'
      BY <1>0, <2>0, <2>3, <3>3, <3>4 DEF PageType, StartedOnce, HintKept
    <3>7. OneRequest'
      <4> SUFFICES ASSUME NEW i \in Ids \ resent'
                   PROVE /\ i \in late => \A s \in Senders : ~Uses(s, i)'
                         /\ \A r, s \in Senders : Uses(r, i)' /\ Uses(s, i)' => r = s
        BY <2>0 DEF OneRequest
      <4>1. (i \in late => \A s \in Senders : ~Uses(s, i)) BY <1>0, <3>4 DEF OneRequest
      <4> QED BY <3>4, <3>5, <4>1 DEF Senders
    <3>8. HintOfRequest' BY <1>0, <2>0, <2>3, <3>4, <3>5 DEF HintOfRequest, Senders
    <3>9. DeniedIsNot' BY <1>0, <2>0, <3>4, <3>5 DEF DeniedIsNot, Senders
    <3> QED BY <3>6, <3>7, <3>8, <3>9 DEF PageInv
  <2> QED BY <1>9, <2>1, <2>2, <2>3 DEF RetryChecked, Forget, page
<1>10. CASE Poll
  <2>1. UNCHANGED <<has, started, tx, resent, late>>
    BY <1>10 DEF Poll, RefreshBegins, ServeRefresh, ListArrives, HintArrives, RefreshFails, service
  <2>2. \/ UNCHANGED <<pending, stored, known>>
        \/ pending' = pending \ {rf.id} /\ stored' = pending' /\ known' = known \cup {rf.id}
    BY <1>10 DEF Poll, RefreshBegins, ServeRefresh, ListArrives, HintArrives, RefreshFails, Forget, page
  <2>3. stored' = pending' BY <1>0, <2>2 DEF PageType
  <2> QED BY <1>q, <2>1, <2>2, <2>3
<1>11. CASE OtherWork
  <2>1. UNCHANGED <<has, started, tx, resent, late, pending, stored, known>> BY <1>11 DEF OtherWork, page
  <2> QED BY <1>0, <1>q, <2>1 DEF PageType
<1>12. CASE Reload
  <2>1. tx' = [s \in Senders |-> Still] /\ UNCHANGED <<has, started, known, resent>>
    BY <1>12 DEF Reload, service
  <2>2. pending' = pending /\ stored' = pending' BY <1>0, <1>12 DEF Reload, Restored, PageType
  <2>3. \A id \in late' : id \in late \/ \E s \in Senders : Posted(s, id) BY <1>12 DEF Reload, Posted
  <2>4. tx' \in [Senders -> TxType] /\ \A s \in Senders : tx'[s].pc = "idle" BY <2>1, TxValues
  <2>5. \A s \in Senders, id \in Ids : ~Uses(s, id)' BY <2>4 DEF Uses
  <2>6. late' \subseteq Ids BY <1>0, <2>3 DEF PageType, Posted
  <2>7. has' \subseteq Ids /\ started' \in [Ids -> Nat] /\ StartedOnce'
    BY <1>0, <2>1 DEF PageType, StartedOnce
  <2>8. \A id \in Ids \ resent' : id \in late' => id \in late \/ \E s \in Senders : Posted(s, id) /\ ~Uses(s, id)'
    BY <2>3, <2>5
  <2> QED BY <2>1, <2>2, <2>4, <2>5, <2>6, <2>7, <2>8, PageKept
<1>13. CASE UNCHANGED pageVars
  <2>1. UNCHANGED <<has, started, tx, resent, late, pending, stored, known>> BY <1>13 DEF pageVars
  <2> QED BY <1>0, <1>q, <2>1 DEF PageType
<1> QED BY <1>1, <1>2, <1>3, <1>4, <1>5, <1>6, <1>7, <1>8, <1>9, <1>10, <1>11, <1>12, <1>13
   DEF PageNext, Send

\* However requests are lost, late, repeated and reloaded over, a submission
\* starts one task at most, and a task that the service took is never unknown
\* to the page (reserve_job, transmit, retrySubmission).
THEOREM SubmissionsAreOnce == PageSpec => []SubmittedOnce
<1>1. PageInv => SubmittedOnce BY DEF PageInv, StartedOnce, SubmittedOnce, NeverTwice
<1> QED BY <1>1, PageInitInv, PageStep, PTL DEF PageSpec

----------------------------------------
(* The swap. *)

Before(i) == IF i \in had THEN "old" ELSE "none"
After(i) == IF i \in Staged THEN "new" ELSE "none"

\* What each loop has done to the paths it has passed and left of the others.
BackupInv ==
    /\ installed = {} /\ moved \subseteq had
    /\ \A i \in Paths : IF i < pos
         THEN live[i] = "none" /\ bak[i] = Before(i) /\ (i \in had => i \in moved)
         ELSE live[i] = Before(i) /\ bak[i] = "none" /\ i \notin moved

InstallInv ==
    /\ moved = had /\ installed \subseteq Staged
    /\ \A i \in Paths : bak[i] = Before(i) /\
         IF i < pos THEN live[i] = After(i) /\ (i \in Staged => i \in installed)
                    ELSE live[i] = "none" /\ i \notin installed

CommitInv == moved = had /\ \A i \in Paths : bak[i] = Before(i) /\ live[i] = After(i)

RemoveInv ==
    /\ moved \subseteq had /\ (installed # {} => moved = had)
    /\ \A i \in moved : bak[i] = "old" /\ (live[i] = "none" \/ i \in installed)
    /\ \A i \in had \ moved : live[i] = "old"
    /\ \A i \in Paths \ had : live[i] = "none" \/ i \in installed
    /\ \A i \in installed : live[i] # "old"
    /\ clean => \A i \in installed : Visit(i) < pos => live[i] = "none"

RestoreInv ==
    /\ moved \subseteq had
    /\ \A i \in moved : bak[i] = "old" \/ live[i] = "old"
    /\ \A i \in had \ moved : live[i] = "old"
    /\ clean => /\ \A i \in Paths \ had : live[i] = "none"
                /\ \A i \in moved : Visit(i) < pos => live[i] = "old"

RolledInv ==
    /\ \A i \in had : bak[i] = "old" \/ live[i] = "old"
    /\ clean => \A i \in Paths : live[i] = Before(i)

IndInv ==
    /\ TypeOK
    /\ pc # "end" => ret = "none"
    /\ pc = "check" => BackupInv /\ pos = 1
    /\ pc = "backup" => BackupInv
    /\ pc = "install" => InstallInv
    /\ pc = "commit" => CommitInv
    /\ pc = "remove" => RemoveInv
    /\ pc = "restore" => RestoreInv
    /\ pc = "rolled" => RolledInv
    /\ OldIsKept /\ AllOrNothing

\* The rollback's visiting order is its own inverse.
LEMMA VisitFacts ==
    ASSUME NEW i \in Paths PROVE Visit(i) \in Paths /\ Visit(Visit(i)) = i
  BY SwapAssumption DEF Visit, Paths

\* A loop goes to the next position, or from the last one to the next loop.
LEMMA AdvanceTypes ==
    ASSUME TypeOK, NEW next, Advance(next)
    PROVE  /\ pos' \in Paths
           /\ \/ pos < N /\ pc' = pc /\ pos' = pos + 1
              \/ pos = N /\ pc' = next /\ pos' = 1
  BY SwapAssumption DEF TypeOK, Advance, Paths

\* The loop's bounds as integers.
LEMMA Bounds ==
    ASSUME TypeOK
    PROVE  /\ pos \in Int /\ 1 <= pos /\ pos <= N /\ N \in Int
           /\ 1 \in Paths
           /\ \A i \in Paths : i \in Int /\ 1 <= i /\ i <= N
  BY SwapAssumption DEF TypeOK, Paths

\* The strengthened invariant holds initially.
LEMMA InitIndInv == ASSUME Init PROVE IndInv
<1>1. TypeOK BY SwapAssumption DEF Init, TypeOK, Contents, Paths
<1>2. BackupInv BY <1>1, Bounds DEF Init, BackupInv, Before
<1>3. OldIsKept /\ AllOrNothing BY DEF Init, OldIsKept, AllOrNothing
<1> QED BY <1>1, <1>2, <1>3 DEF IndInv, Init

\* Begin moves nothing.
LEMMA BeginKeeps == ASSUME IndInv, Begin PROVE IndInv'
<1>1. TypeOK /\ BackupInv /\ pos = 1 /\ OldIsKept /\ ret = "none" BY DEF IndInv, Begin
<1>2. TypeOK' BY <1>1 DEF TypeOK, Begin
<1>3. BackupInv' BY <1>1 DEF BackupInv, Begin, Before
<1>4. OldIsKept' BY <1>1 DEF OldIsKept, Begin
<1>5. AllOrNothing' BY <1>1, <1>2, Bounds DEF AllOrNothing, Begin, BackupInv, Before
<1> QED BY <1>1, <1>2, <1>3, <1>4, <1>5 DEF IndInv, Begin

\* The answer is pending and unsettled claims hold while the loops run.
LEMMA Pending ==
    ASSUME ret = "none", UNCHANGED ret, \A i \in had : live'[i] = "old" \/ bak'[i] = "old", UNCHANGED had
    PROVE  OldIsKept' /\ AllOrNothing'
  BY DEF OldIsKept, AllOrNothing

\* Backup keeps each old version in exactly one of its two places.
LEMMA BackupKeeps == ASSUME IndInv, Backup PROVE IndInv'
<1>1. TypeOK /\ BackupInv /\ pc = "backup" /\ ret = "none" BY DEF IndInv, Backup
<1>a. pos \in Paths BY <1>1 DEF TypeOK
<1>2. CASE live[pos] = "none" /\ Advance("install") /\ UNCHANGED <<live, bak, moved>>
  <2>1. TypeOK' BY <1>1, <1>2, AdvanceTypes DEF TypeOK, Backup
  <2>2. pos \notin had BY <1>1, <1>2, <1>a, Bounds DEF BackupInv, Before
  <2>3. pc' = "backup" => BackupInv'
    BY <1>1, <1>2, <2>2, <2>1, AdvanceTypes, Bounds DEF BackupInv, Before, Backup
  <2>4. pc' = "install" => InstallInv'
    <3> SUFFICES ASSUME pc' = "install" PROVE InstallInv' OBVIOUS
    <3>1. pos = N /\ pos' = 1 BY <1>1, <1>2, AdvanceTypes
    <3>2. \A i \in Paths : i \in had => i \in moved' BY <1>1, <1>2, <2>2, <3>1, Bounds DEF BackupInv
    <3>3. moved' \subseteq had /\ had \subseteq Paths /\ installed = {}
      BY <1>1, <1>2, <2>2 DEF BackupInv, TypeOK
    <3>4. \A i \in Paths : bak'[i] = Before(i) /\ live'[i] = "none"
      BY <1>1, <1>2, <2>2, <3>1, Bounds DEF BackupInv, Before
    <3>5. moved' = had BY <3>2, <3>3
    <3> QED BY <3>1, <3>3, <3>4, <3>5, <1>1, Bounds DEF InstallInv, Before, Backup
  <2>5. OldIsKept' /\ AllOrNothing'
    <3>1. \A i \in had : live'[i] = "old" \/ bak'[i] = "old" BY <1>1, <1>2 DEF IndInv, OldIsKept
    <3> QED BY <1>1, <3>1, Pending DEF Backup
  <2> QED BY <1>1, <1>2, <2>1, <2>3, <2>4, <2>5, AdvanceTypes DEF IndInv, Backup
<1>3. CASE /\ live[pos] = "old"
           /\ live' = [live EXCEPT ![pos] = "none"]
           /\ bak' = [bak EXCEPT ![pos] = "old"]
           /\ moved' = moved \cup {pos}
           /\ Advance("install")
  <2>1. TypeOK' BY <1>1, <1>3, <1>a, AdvanceTypes DEF TypeOK, Backup, Contents
  <2>2. pos \in had BY <1>1, <1>3, <1>a, Bounds DEF BackupInv, Before
  <2>0. \A i \in Paths : /\ live'[i] = IF i = pos THEN "none" ELSE live[i]
                         /\ bak'[i] = IF i = pos THEN "old" ELSE bak[i]
    BY <1>1, <1>3, <1>a DEF TypeOK
  <2>3. pc' = "backup" => BackupInv'
    BY <1>1, <1>3, <2>0, <2>2, <2>1, AdvanceTypes, Bounds DEF BackupInv, Before, Backup
  <2>4. pc' = "install" => InstallInv'
    <3> SUFFICES ASSUME pc' = "install" PROVE InstallInv' OBVIOUS
    <3>1. pos = N /\ pos' = 1 BY <1>1, <1>3, AdvanceTypes
    <3>2. \A i \in Paths : i \in had => i \in moved' BY <1>1, <1>3, <2>2, <3>1, Bounds DEF BackupInv
    <3>3. moved' \subseteq had /\ had \subseteq Paths /\ installed = {}
      BY <1>1, <1>3, <2>2 DEF BackupInv, TypeOK
    <3>4. \A i \in Paths : bak'[i] = Before(i) /\ live'[i] = "none"
      BY <1>1, <1>3, <2>0, <2>2, <3>1, Bounds DEF BackupInv, Before
    <3>5. moved' = had BY <3>2, <3>3
    <3> QED BY <3>1, <3>3, <3>4, <3>5, <1>1, Bounds DEF InstallInv, Before, Backup
  <2>5. OldIsKept' /\ AllOrNothing'
    <3>1. \A i \in had : live'[i] = "old" \/ bak'[i] = "old" BY <1>1, <1>3, <2>0 DEF IndInv, OldIsKept, TypeOK
    <3> QED BY <1>1, <3>1, Pending DEF Backup
  <2> QED BY <1>1, <1>3, <2>1, <2>3, <2>4, <2>5, AdvanceTypes DEF IndInv, Backup
<1>4. CASE RollBack /\ UNCHANGED <<live, bak, moved>>
  <2>1. TypeOK' BY <1>1, <1>4, Bounds DEF TypeOK, Backup, RollBack
  <2>2. RemoveInv'
    <3>1. \A i \in Paths : i \in had => IF i \in moved THEN bak[i] = "old" /\ live[i] = "none" ELSE live[i] = "old"
      BY <1>1, Bounds DEF BackupInv, Before
    <3>2. \A i \in Paths : i \notin had => live[i] = "none" BY <1>1, Bounds DEF BackupInv, Before
    <3>3. installed = {} /\ moved \subseteq had /\ had \subseteq Paths BY <1>1 DEF BackupInv, TypeOK
    <3> QED BY <1>4, <3>1, <3>2, <3>3 DEF RemoveInv, Backup
  <2>3. OldIsKept' /\ AllOrNothing'
    <3>1. \A i \in had : live'[i] = "old" \/ bak'[i] = "old" BY <1>1, <1>4 DEF IndInv, OldIsKept
    <3> QED BY <1>1, <3>1, Pending DEF Backup
  <2> QED BY <1>1, <1>4, <2>1, <2>2, <2>3 DEF IndInv, Backup, RollBack
<1> QED BY <1>2, <1>3, <1>4 DEF Backup

\* Install puts a new version only where nothing is left.
LEMMA InstallKeeps == ASSUME IndInv, Install PROVE IndInv'
<1>1. TypeOK /\ InstallInv /\ pc = "install" /\ ret = "none" BY DEF IndInv, Install
<1>a. pos \in Paths /\ had \subseteq Paths BY <1>1 DEF TypeOK
<1>b. \A i \in had : bak'[i] = "old" BY <1>1, <1>a DEF InstallInv, Install, Before
<1>5. OldIsKept' /\ AllOrNothing' BY <1>1, <1>b, Pending DEF Install
<1>2. CASE Advance("commit") /\ installed' = (IF pos \in Staged THEN installed \cup {pos} ELSE installed)
           /\ live' = IF pos \in Staged THEN [live EXCEPT ![pos] = "new"] ELSE live
  <2>1. TypeOK' BY <1>1, <1>2, <1>a, AdvanceTypes DEF TypeOK, Install, Contents
  <2>0. \A i \in Paths : live'[i] = IF i = pos THEN After(pos) ELSE live[i]
    BY <1>1, <1>2, <1>a, Bounds DEF TypeOK, After, InstallInv
  <2>2. pc' = "install" => InstallInv'
    <3> SUFFICES ASSUME pc' = "install" PROVE InstallInv' OBVIOUS
    <3>1. pos' = pos + 1 BY <1>1, <1>2, AdvanceTypes
    <3>2. moved' = had /\ installed' \subseteq Staged BY <1>1, <1>2 DEF InstallInv, Install
    <3>3. \A i \in Paths : bak'[i] = Before(i) BY <1>1 DEF InstallInv, Install
    <3>4. \A i \in Paths : IF i < pos + 1 THEN live'[i] = After(i) /\ (i \in Staged => i \in installed')
                           ELSE live'[i] = "none" /\ i \notin installed'
      BY <1>1, <1>2, <1>a, <2>0, Bounds DEF InstallInv
    <3> QED BY <3>1, <3>2, <3>3, <3>4 DEF InstallInv, Install, Before, After
  <2>3. pc' = "commit" => CommitInv'
    BY <1>1, <1>2, <2>0, AdvanceTypes, Bounds DEF InstallInv, CommitInv, Install, Before, After
  <2> QED BY <1>1, <1>2, <2>1, <2>2, <2>3, <1>5, AdvanceTypes DEF IndInv, Install
<1>3. CASE RollBack /\ UNCHANGED <<live, installed>>
  <2>1. TypeOK' BY <1>1, <1>3, Bounds DEF TypeOK, Install, RollBack
  <2>2. RemoveInv'
    <3>1. \A i \in Paths : live[i] = "none" \/ i \in installed BY <1>1, Bounds DEF InstallInv, After
    <3>2. \A i \in Paths : live[i] # "old" BY <1>1, Bounds DEF InstallInv, After
    <3>3. moved = had /\ installed \subseteq Paths /\ pos' = 1 BY <1>1, <1>3 DEF InstallInv, TypeOK, RollBack
    <3>4. \A i \in installed : ~(Visit(i) < 1) BY <3>3, <1>1, VisitFacts, Bounds
    <3>5. \A i \in moved : bak[i] = "old" BY <1>b, <3>3 DEF Install
    <3> QED BY <1>3, <1>a, <3>1, <3>2, <3>3, <3>4, <3>5 DEF RemoveInv, Install, Visit
  <2> QED BY <1>1, <1>3, <2>1, <2>2, <1>5 DEF IndInv, Install, RollBack
<1> QED
  <2>1. CASE pos \in Staged BY <2>1, <1>2, <1>3 DEF Install
  <2>2. CASE pos \notin Staged BY <2>2, <1>2, <1>3 DEF Install
  <2> QED BY <2>1, <2>2

\* Commit drops the backup when every path shows its new version.
LEMMA CommitKeeps == ASSUME IndInv, Commit PROVE IndInv'
<1>1. TypeOK /\ CommitInv BY DEF IndInv, Commit
<1>2. TypeOK' BY <1>1 DEF TypeOK, Commit, Retention
<1>3. OldIsKept' /\ AllOrNothing' BY <1>1 DEF OldIsKept, AllOrNothing, Commit, CommitInv, After
<1> QED BY <1>2, <1>3 DEF IndInv, Commit

\* Remove takes only new versions away.
LEMMA RemoveKeeps == ASSUME IndInv, Remove PROVE IndInv'
<1> DEFINE p == Visit(pos)
<1>1. TypeOK /\ RemoveInv /\ pc = "remove" /\ ret = "none" BY DEF IndInv, Remove
<1>2. pos \in Paths /\ p \in Paths /\ had \subseteq Paths /\ moved \subseteq Paths /\ installed \subseteq Paths
  BY <1>1, VisitFacts DEF TypeOK
<1>3. /\ live' \in [Paths -> Contents]
      /\ \A i \in Paths : i # p \/ p \notin installed => live'[i] = live[i]
      /\ p \in installed => live'[p] # "old"
      /\ p \in installed /\ clean' => live'[p] = "none"
      /\ clean' => clean
      /\ clean' \in BOOLEAN
  <2>1. p \in installed => live[p] # "old" BY <1>1 DEF RemoveInv
  <2>2. CASE p \notin installed BY <2>2, <1>1 DEF Remove, TakeBack, TypeOK
  <2>3. CASE p \in installed /\ live' = [live EXCEPT ![p] = "none"] /\ UNCHANGED clean
    BY <2>3, <1>1, <1>2 DEF TypeOK, Contents
  <2>4. CASE p \in installed /\ (live' = live \/ live' = [live EXCEPT ![p] = "torn"]) /\ clean' = FALSE
    BY <2>4, <2>1, <1>1, <1>2 DEF TypeOK, Contents
  <2> HIDE DEF p
  <2>5. TakeBack(p) BY DEF Remove, p
  <2>6. CASE p \in installed BY <2>5, <2>6, <2>3, <2>4 DEF TakeBack
  <2> QED BY <2>2, <2>6
<1>4. TypeOK' BY <1>1, <1>3, AdvanceTypes DEF TypeOK, Remove
<1>5. /\ moved \subseteq had /\ (installed # {} => moved = had)
      /\ \A i \in moved : bak'[i] = "old" /\ (live'[i] = "none" \/ i \in installed)
      /\ \A i \in had \ moved : live'[i] = "old"
      /\ \A i \in Paths \ had : live'[i] = "none" \/ i \in installed
      /\ \A i \in installed : live'[i] # "old"
  BY <1>1, <1>2, <1>3 DEF RemoveInv, Remove
<1>6. clean' => \A i \in installed : Visit(i) < pos + 1 => live'[i] = "none"
  <2> SUFFICES ASSUME clean', NEW i \in installed, Visit(i) < pos + 1 PROVE live'[i] = "none" OBVIOUS
  <2>1. i \in Paths /\ Visit(i) \in Paths /\ Visit(Visit(i)) = i BY <1>2, VisitFacts
  <2>2. CASE Visit(i) = pos BY <2>1, <2>2, <1>3
  <2>3. CASE Visit(i) < pos BY <2>1, <2>3, <1>1, <1>2, <1>3 DEF RemoveInv
  <2> QED BY <2>1, <2>2, <2>3, <1>1, Bounds
<1>7. OldIsKept' /\ AllOrNothing'
  <2>1. \A i \in had : live'[i] = "old" \/ bak'[i] = "old" BY <1>5
  <2> QED BY <2>1, <1>1, Pending DEF Remove
<1>8. CASE pos < N /\ pc' = pc /\ pos' = pos + 1
  <2>1. RemoveInv' BY <1>5, <1>6, <1>8 DEF RemoveInv, Remove, Visit
  <2> QED BY <2>1, <1>1, <1>4, <1>7, <1>8 DEF IndInv, Remove
<1>9. CASE pos = N /\ pc' = "restore" /\ pos' = 1
  <2>1. \A i \in Paths : Visit(i) < pos + 1 /\ ~(Visit(i) < 1) BY <1>1, <1>9, VisitFacts, Bounds
  <2>2. RestoreInv' BY <1>2, <1>5, <1>6, <1>9, <2>1 DEF RestoreInv, Remove, Visit
  <2> QED BY <2>2, <1>1, <1>4, <1>7, <1>9 DEF IndInv, Remove
<1> QED BY <1>1, <1>8, <1>9, AdvanceTypes DEF Remove

\* Restore gives up a backup only when the old version is live again.
LEMMA RestoreKeeps == ASSUME IndInv, Restore PROVE IndInv'
<1> DEFINE p == Visit(pos)
<1>1. TypeOK /\ RestoreInv /\ pc = "restore" /\ ret = "none" BY DEF IndInv, Restore
<1>2. pos \in Paths /\ p \in Paths /\ had \subseteq Paths /\ moved \subseteq Paths
  BY <1>1, VisitFacts DEF TypeOK
<1>3. /\ live' \in [Paths -> Contents] /\ bak' \in [Paths -> {"none", "old"}]
      /\ \A i \in Paths : i # p \/ p \notin moved => live'[i] = live[i] /\ bak'[i] = bak[i]
      /\ p \in moved => live'[p] = "old" \/ bak'[p] = "old"
      /\ p \in moved /\ clean' => live'[p] = "old"
      /\ clean' => clean
      /\ clean' \in BOOLEAN
  <2>1. p \in moved => live[p] = "old" \/ bak[p] = "old" BY <1>1 DEF RestoreInv
  <2>2. CASE p \notin moved BY <2>2, <1>1 DEF Restore, PutBack, TypeOK
  <2>3. CASE p \in moved /\ live' = [live EXCEPT ![p] = "old"] /\ bak' = [bak EXCEPT ![p] = "none"] /\ UNCHANGED clean
    BY <2>3, <1>1, <1>2 DEF TypeOK, Contents
  <2>4. CASE p \in moved /\ UNCHANGED <<live, bak>> /\ clean' = FALSE BY <2>4, <2>1, <1>1, <1>2 DEF TypeOK
  <2> HIDE DEF p
  <2>5. PutBack(p) BY DEF Restore, p
  <2>6. CASE p \in moved BY <2>3, <2>4, <2>5, <2>6 DEF PutBack
  <2> QED BY <2>2, <2>6
<1>4. TypeOK' BY <1>1, <1>3, AdvanceTypes DEF TypeOK, Restore
<1>5. /\ moved \subseteq had
      /\ \A i \in moved : bak'[i] = "old" \/ live'[i] = "old"
      /\ \A i \in had \ moved : live'[i] = "old"
      /\ clean' => \A i \in Paths \ had : live'[i] = "none"
  BY <1>1, <1>2, <1>3 DEF RestoreInv
<1>6. clean' => \A i \in moved : Visit(i) < pos + 1 => live'[i] = "old"
  <2> SUFFICES ASSUME clean', NEW i \in moved, Visit(i) < pos + 1 PROVE live'[i] = "old" OBVIOUS
  <2>1. i \in Paths /\ Visit(i) \in Paths /\ Visit(Visit(i)) = i BY <1>2, VisitFacts
  <2>2. CASE Visit(i) = pos BY <2>1, <2>2, <1>3
  <2>3. CASE Visit(i) < pos BY <2>1, <2>3, <1>1, <1>2, <1>3 DEF RestoreInv
  <2> QED BY <2>1, <2>2, <2>3, <1>1, Bounds
<1>7. OldIsKept' /\ AllOrNothing'
  <2>1. \A i \in had : live'[i] = "old" \/ bak'[i] = "old" BY <1>5
  <2> QED BY <2>1, <1>1, Pending DEF Restore
<1>8. CASE pos < N /\ pc' = pc /\ pos' = pos + 1
  <2>1. RestoreInv' BY <1>5, <1>6, <1>8 DEF RestoreInv, Restore, Visit
  <2> QED BY <2>1, <1>1, <1>4, <1>7, <1>8 DEF IndInv, Restore
<1>9. CASE pos = N /\ pc' = "rolled" /\ pos' = 1
  <2>1. \A i \in Paths : Visit(i) < pos + 1 BY <1>1, <1>9, VisitFacts, Bounds
  <2>2. clean' => \A i \in Paths : live'[i] = Before(i) BY <1>2, <1>5, <1>6, <2>1 DEF Before
  <2>3. RolledInv' BY <1>2, <1>5, <2>2 DEF RolledInv, Restore, Before
  <2> QED BY <2>3, <1>1, <1>4, <1>7, <1>9 DEF IndInv, Restore
<1> QED BY <1>1, <1>8, <1>9, AdvanceTypes DEF Restore

\* The backup is dropped only after a clean rollback.
LEMMA EndRollbackKeeps == ASSUME IndInv, EndRollback PROVE IndInv'
<1>1. TypeOK /\ RolledInv /\ OldIsKept BY DEF IndInv, EndRollback
<1>2. TypeOK' BY <1>1 DEF TypeOK, EndRollback, Retention
<1>3. had \subseteq Paths BY <1>1 DEF TypeOK
<1>4. OldIsKept'
  <2>1. CASE clean BY <2>1, <1>1, <1>3 DEF OldIsKept, EndRollback, RolledInv, Before
  <2>2. CASE ~clean BY <2>2, <1>1 DEF OldIsKept, EndRollback, Retention, RolledInv
  <2> QED BY <2>1, <2>2
<1>5. AllOrNothing' BY <1>1 DEF AllOrNothing, EndRollback, RolledInv, Before
<1> QED BY <1>2, <1>4, <1>5 DEF IndInv, EndRollback

\* Leaving by an exception, or by the death of the process, keeps the backup.
LEMMA AbandonKeeps == ASSUME IndInv, Throw \/ Die PROVE IndInv'
<1>1. /\ TypeOK /\ OldIsKept /\ ret = "none" /\ pc' = "end" /\ ret' \in {"threw", "died"}
      /\ UNCHANGED <<live, bak, pos, moved, installed, clean, had>>
  BY DEF IndInv, Throw, Die, Retention
<1>2. TypeOK' BY <1>1 DEF TypeOK
<1>3. OldIsKept' /\ AllOrNothing' BY <1>1 DEF OldIsKept, AllOrNothing
<1> QED BY <1>1, <1>2, <1>3 DEF IndInv

\* A step that changes nothing.
LEMMA StutterKeeps == ASSUME IndInv, UNCHANGED vars PROVE IndInv'
  BY DEF IndInv, vars, TypeOK, BackupInv, InstallInv, CommitInv, RemoveInv, RestoreInv, RolledInv,
         OldIsKept, AllOrNothing, Before, After, Visit

\* The strengthened invariant: it says, for each loop, what the paths already
\* passed and the paths still ahead hold.
THEOREM IndInvHolds == Spec => []IndInv
<1>1. Init => IndInv BY InitIndInv
<1>2. IndInv /\ [Next]_vars => IndInv'
  BY BeginKeeps, BackupKeeps, InstallKeeps, CommitKeeps, RemoveKeeps, RestoreKeeps, EndRollbackKeeps,
     AbandonKeeps, StutterKeeps DEF Next
<1> QED BY <1>1, <1>2, PTL DEF Spec

\* For groups of any size, no failed rename or removal, exception or death of
\* the process loses an old artifact before the group is committed.
THEOREM OldIsNeverLost == Spec => []OldIsKept
<1>1. IndInv => OldIsKept BY DEF IndInv
<1> QED BY <1>1, IndInvHolds, PTL

\* For groups of any size, an answer of true shows only new artifacts and an
\* answer of false after a clean rollback only old ones.
THEOREM SwapIsAtomic == Spec => []AllOrNothing
<1>1. IndInv => AllOrNothing BY DEF IndInv
<1> QED BY <1>1, IndInvHolds, PTL

----------------------------------------
(* The store of the records: its invariant. *)

Pcs == {"idle", "have", "stage", "rename", "sync"}
Writing == {"stage", "rename", "sync"}

\* flock admits one service at a time.
OneService == \A p, q \in Procs : phase[p] # "closed" /\ phase[q] # "closed" => p = q

\* What a thread that has read a record may rely on until it returns.
ThreadInv(t) ==
    th[t].pc # "idle" =>
        /\ phase[Home[t]] = "up" /\ th[t].id \in TaskIds
        /\ th[t].base.rev <= rec[th[t].id].rev
        /\ th[t].base.rev = rec[th[t].id].rev => th[t].base = rec[th[t].id]
        /\ th[t].pc \in Writing => /\ lock[Home[t]] = t
                                   /\ th[t].new.rev = th[t].base.rev + 1
                                   /\ th[t].base.ups \subseteq th[t].new.ups
        /\ th[t].pc \in {"stage", "rename"} => th[t].base = rec[th[t].id]
        /\ th[t].pc = "sync" => th[t].new = rec[th[t].id]
        /\ th[t].pc \in {"rename", "sync"} => th[t].id \in dirs

\* Every version that may be on disk contains the acknowledged updates.
RecInv(i) ==
    /\ rec[i] \in cand[i]
    /\ \A c \in cand[i] : acked[i] \subseteq c.ups /\ (c.rev = 0 => c = NoRec)
    /\ i \notin dirs => acked[i] = {}

StoreInv ==
    /\ StoreType
    /\ OneService
    /\ \A t \in Threads : ThreadInv(t)
    /\ \A i \in TaskIds : RecInv(i)

----------------------------------------
\* The constants of the model have their types.
LEMMA ConstantTypes == NoRec \in RecType /\ Idle \in ThreadType /\ Idle.pc = "idle" /\ NoRec.rev = 0
  BY StoreAssumption DEF NoRec, Idle, RecType, ThreadType

\* Two threads never write at the same time.
LEMMA OneWriter ==
    ASSUME StoreInv, NEW t \in Threads, NEW u \in Threads, th[t].pc \in Writing, th[u].pc \in Writing
    PROVE  t = u
<1>1. Home[t] \in Procs /\ Home[u] \in Procs BY StoreAssumption
<1>2. phase[Home[t]] = "up" /\ phase[Home[u]] = "up" /\ lock[Home[t]] = t /\ lock[Home[u]] = u
  BY DEF StoreInv, ThreadInv, Writing
<1> QED BY <1>1, <1>2 DEF StoreInv, OneService

\* A thread at work belongs to the only service that is not closed.
LEMMA OnlyServing ==
    ASSUME StoreInv, NEW p \in Procs, phase[p] # "closed", phase[p] # "up", NEW t \in Threads
    PROVE  th[t].pc = "idle"
<1>1. Home[t] \in Procs BY StoreAssumption
<1> QED BY <1>1 DEF StoreInv, ThreadInv, OneService

\* What moving a thread to another step changes.
LEMMA MoveFacts ==
    ASSUME StoreType, NEW t \in Threads, NEW x \in Pcs, Move(t, x)
    PROVE  /\ th' \in [Threads -> ThreadType]
           /\ \A u \in Threads : u # t => th'[u] = th[u]
           /\ th'[t].pc = x /\ th'[t].id = th[t].id /\ th'[t].base = th[t].base /\ th'[t].new = th[t].new
  BY DEF StoreType, Move, Pcs, ThreadType

\* What returning from save changes.
LEMMA ReturnFacts ==
    ASSUME StoreType, NEW t \in Threads, Return(t)
    PROVE  /\ th' \in [Threads -> ThreadType] /\ lock' \in [Procs -> Threads \cup {NoThread}]
           /\ \A u \in Threads : u # t => th'[u] = th[u]
           /\ th'[t].pc = "idle"
           /\ \A q \in Procs : q # Home[t] => lock'[q] = lock[q]
<1>1. Home[t] \in Procs BY StoreAssumption
<1> QED BY <1>1, ConstantTypes DEF StoreType, Return

\* A return of a writing thread disturbs no other thread.
LEMMA ReturnKeepsThreads ==
    ASSUME StoreInv, NEW t \in Threads, th[t].pc \in Writing, Return(t), UNCHANGED <<rec, phase>>,
           dirs \subseteq dirs'
    PROVE  \A u \in Threads : ThreadInv(u)'
<1>1. StoreType BY DEF StoreInv
<1> SUFFICES ASSUME NEW u \in Threads, u # t PROVE ThreadInv(u)' BY <1>1, ReturnFacts DEF ThreadInv
<1>2. th'[u] = th[u] /\ ThreadInv(u) BY <1>1, ReturnFacts DEF StoreInv
<1>3. th[u].pc \notin Writing BY OneWriter
<1> QED BY <1>2, <1>3 DEF ThreadInv, Writing

\* Init.
LEMMA InitStoreInv == ASSUME StoreInit PROVE StoreInv
<1>1. StoreType BY ConstantTypes, StoreAssumption DEF StoreInit, StoreType
<1>2. OneService /\ \A t \in Threads : ThreadInv(t) BY ConstantTypes DEF StoreInit, OneService, ThreadInv
<1>3. \A i \in TaskIds : RecInv(i) BY DEF StoreInit, RecInv, NoRec
<1> QED BY <1>1, <1>2, <1>3 DEF StoreInv

\* Opening the store, and starting to serve it.
LEMMA OpenKeeps == ASSUME StoreInv, NEW p \in Procs, Open(p) PROVE StoreInv'
<1>1. StoreType' BY DEF StoreInv, StoreType, Open
<1>2. OneService' BY DEF StoreInv, OneService, Open, FlockFree, StoreType
<1>3. \A t \in Threads : ThreadInv(t)' BY StoreAssumption DEF StoreInv, ThreadInv, Open, StoreType, FlockFree
<1>4. \A i \in TaskIds : RecInv(i)' BY DEF StoreInv, RecInv, Open
<1> QED BY <1>1, <1>2, <1>3, <1>4 DEF StoreInv

LEMMA ServeKeeps == ASSUME StoreInv, NEW p \in Procs, StartServing(p) PROVE StoreInv'
<1>1. StoreType' BY DEF StoreInv, StoreType, StartServing
<1>2. OneService' BY DEF StoreInv, OneService, StartServing, StoreType
<1>9. phase[p] = "recover" BY DEF StartServing
<1>0. \A t \in Threads : th[t].pc = "idle" BY <1>9, OnlyServing
<1>3. \A t \in Threads : ThreadInv(t)'
  <2>1. th' = th BY DEF StartServing
  <2> QED BY <1>0, <2>1 DEF ThreadInv
<1>4. \A i \in TaskIds : RecInv(i)' BY DEF StoreInv, RecInv, StartServing
<1> QED BY <1>1, <1>2, <1>3, <1>4 DEF StoreInv

\* The rewritten record contains the same updates under a later revision.
LEMMA InterruptedFacts ==
    ASSUME NEW r \in RecType, RevisionRoom(r)
    PROVE  Interrupted(r) \in RecType /\ Interrupted(r).ups = r.ups /\ Interrupted(r).rev = r.rev + 1
<1>1. r.rev \in 0..MaxRevision /\ r.rev + 1 \in 0..MaxRevision BY StoreAssumption DEF RecType, RevisionRoom
<1> QED BY <1>1 DEF RecType, Interrupted

LEMMA RecoverOneKeeps == ASSUME StoreInv, NEW p \in Procs, NEW i \in TaskIds, RecoverOne(p, i) PROVE StoreInv'
<1> DEFINE r == Interrupted(rec[i])
<1>1. StoreType /\ rec[i] \in RecType /\ RecInv(i) BY DEF StoreInv, StoreType
<1>2. \A t \in Threads : th[t].pc = "idle" BY OnlyServing DEF RecoverOne
<1>3. OneService' BY DEF StoreInv, OneService, RecoverOne, StoreType
<1>4. \A t \in Threads : ThreadInv(t)' BY <1>2 DEF ThreadInv, RecoverOne
<1>5. CASE UNCHANGED <<rec, cand>>
  <2>1. StoreType' BY <1>1, <1>5 DEF StoreType, RecoverOne
  <2>2. \A j \in TaskIds : RecInv(j)' BY <1>5 DEF StoreInv, RecInv, RecoverOne
  <2> QED BY <1>3, <1>4, <2>1, <2>2 DEF StoreInv
<1>6. CASE /\ RevisionRoom(rec[i]) /\ rec' = [rec EXCEPT ![i] = r]
           /\ cand' = [cand EXCEPT ![i] = {r}] \/ cand' = [cand EXCEPT ![i] = @ \cup {r}]
  <2>1. r \in RecType /\ r.ups = rec[i].ups /\ r.rev = rec[i].rev + 1 BY <1>1, <1>6, InterruptedFacts
  <2>2. rec[i].rev \in Nat BY <1>1, StoreAssumption DEF RecType
  <2> HIDE DEF r
  <2>3. rec'[i] = r /\ \A j \in TaskIds : j # i => rec'[j] = rec[j] BY <1>1, <1>6 DEF StoreType
  <2>4. /\ \A j \in TaskIds : j # i => cand'[j] = cand[j]
        /\ r \in cand'[i] /\ cand'[i] \subseteq cand[i] \cup {r}
        /\ cand' \in [TaskIds -> SUBSET RecType]
    BY <1>1, <1>6, <2>1 DEF StoreType
  <2>5. StoreType' BY <1>1, <1>6, <2>1, <2>4 DEF StoreType, RecoverOne
  <2>6. RecInv(i)'
    <3>1. \A c \in cand'[i] : acked[i] \subseteq c.ups /\ (c.rev = 0 => c = NoRec)
      BY <1>1, <2>1, <2>2, <2>4 DEF RecInv
    <3> QED BY <1>1, <2>3, <2>4, <3>1 DEF RecInv, RecoverOne
  <2>7. \A j \in TaskIds : RecInv(j)' BY <2>3, <2>4, <2>6 DEF StoreInv, RecInv, RecoverOne
  <2> QED BY <1>3, <1>4, <2>5, <2>7 DEF StoreInv
<1> QED BY <1>5, <1>6 DEF RecoverOne

LEMMA DieKeeps == ASSUME StoreInv, NEW p \in Procs, ServiceDies(p) PROVE StoreInv'
<1>1. StoreType' BY ConstantTypes DEF StoreInv, StoreType, ServiceDies
<1>2. OneService' BY DEF StoreInv, OneService, ServiceDies, StoreType
<1>3. \A t \in Threads : ThreadInv(t)'
  <2> SUFFICES ASSUME NEW t \in Threads PROVE ThreadInv(t)' OBVIOUS
  <2>1. CASE Home[t] = p BY <2>1, ConstantTypes DEF ThreadInv, ServiceDies
  <2>2. CASE Home[t] # p
    <3>1. th'[t] = th[t] /\ ThreadInv(t) /\ Home[t] \in Procs
      BY <2>2, StoreAssumption DEF ServiceDies, StoreInv
    <3>2. phase'[Home[t]] = phase[Home[t]] /\ lock'[Home[t]] = lock[Home[t]]
      BY <2>2, <3>1 DEF ServiceDies, StoreInv, StoreType
    <3> QED BY <3>1, <3>2 DEF ThreadInv, ServiceDies
  <2> QED BY <2>1, <2>2
<1>4. \A i \in TaskIds : RecInv(i)' BY DEF StoreInv, RecInv, ServiceDies
<1> QED BY <1>1, <1>2, <1>3, <1>4 DEF StoreInv

LEMMA PowerLossKeeps == ASSUME StoreInv, PowerLoss PROVE StoreInv'
<1>1. \A i \in TaskIds : rec'[i] \in RecType /\ acked[i] \subseteq rec'[i].ups /\ (rec'[i].rev = 0 => rec'[i] = NoRec)
  <2> SUFFICES ASSUME NEW i \in TaskIds
               PROVE rec'[i] \in RecType /\ acked[i] \subseteq rec'[i].ups /\ (rec'[i].rev = 0 => rec'[i] = NoRec)
    OBVIOUS
  <2>1. rec'[i] \in cand[i] \/ (i \notin dirs /\ rec'[i] = NoRec) BY DEF PowerLoss, Survivors
  <2>2. RecInv(i) /\ cand[i] \subseteq RecType BY DEF StoreInv, StoreType
  <2> QED BY <2>1, <2>2, ConstantTypes DEF RecInv
<1>2. StoreType'
  <2>1. rec' \in [TaskIds -> RecType] BY <1>1 DEF PowerLoss
  <2>2. cand' \in [TaskIds -> SUBSET RecType] BY <1>1 DEF PowerLoss
  <2> QED BY <2>1, <2>2, ConstantTypes DEF PowerLoss, StoreInv, StoreType
<1>3. OneService' /\ \A t \in Threads : ThreadInv(t)' BY ConstantTypes DEF PowerLoss, OneService, ThreadInv
<1>4. \A i \in TaskIds : RecInv(i)'
  <2> SUFFICES ASSUME NEW i \in TaskIds PROVE RecInv(i)' OBVIOUS
  <2>1. cand'[i] = {rec'[i]} BY DEF PowerLoss
  <2> QED BY <1>1, <2>1 DEF RecInv, PowerLoss, StoreInv
<1> QED BY <1>2, <1>3, <1>4 DEF StoreInv

\* Reading a record, or starting a new one.
LEMMA StartKeeps ==
    ASSUME StoreInv, NEW t \in Threads, NEW i \in TaskIds, Get(t, i) \/ Create(t, i)
    PROVE  StoreInv'
<1>1. StoreType /\ RecInv(i) /\ rec[i] \in RecType BY DEF StoreInv, StoreType
<1>2. PICK b \in {rec[i], NoRec} :
         th' = [th EXCEPT ![t] = [pc |-> "have", id |-> i, base |-> b, new |-> NoRec]]
  BY DEF Get, Create
<1>3. /\ b \in RecType /\ b.rev <= rec[i].rev /\ (b.rev = rec[i].rev => b = rec[i])
  BY <1>1, ConstantTypes, StoreAssumption DEF RecInv, RecType
<1>4. StoreType' BY <1>1, <1>2, <1>3, ConstantTypes DEF StoreType, Get, Create, ThreadType
<1>5. /\ th'[t].pc = "have" /\ th'[t].id = i /\ th'[t].base = b
      /\ \A u \in Threads : u # t => th'[u] = th[u]
  BY <1>1, <1>2 DEF StoreType
<1>6. \A u \in Threads : ThreadInv(u)'
  <2>1. ThreadInv(t)' BY <1>3, <1>5 DEF ThreadInv, Get, Create, Serving, Writing
  <2>2. \A u \in Threads : u # t => ThreadInv(u)' BY <1>5 DEF StoreInv, ThreadInv, Get, Create
  <2> QED BY <2>1, <2>2
<1>7. \A j \in TaskIds : RecInv(j)' BY DEF StoreInv, RecInv, Get, Create
<1>8. OneService' BY DEF StoreInv, OneService, Get, Create
<1> QED BY <1>4, <1>6, <1>7, <1>8 DEF StoreInv

\* save: the comparison, then the lock.
LEMMA SaveKeeps ==
    ASSUME StoreInv, NEW t \in Threads, NEW kept \in BOOLEAN, NEW active \in BOOLEAN, Save(t, kept, active)
    PROVE  StoreInv'
<1>1. StoreType /\ ThreadInv(t) /\ th[t] \in ThreadType /\ th[t].pc = "have" /\ Home[t] \in Procs
  BY StoreAssumption DEF StoreInv, StoreType, Save
<1>2. \A j \in TaskIds : RecInv(j)' BY DEF StoreInv, RecInv, Save
<1>3. OneService' BY DEF StoreInv, OneService, Save
<1>4. CASE th' = [th EXCEPT ![t] = Idle] /\ UNCHANGED <<count, lock>>
  <2>1. /\ th' \in [Threads -> ThreadType] /\ th'[t].pc = "idle"
        /\ \A u \in Threads : u # t => th'[u] = th[u]
    BY <1>1, <1>4, ConstantTypes DEF StoreType
  <2>2. StoreType' BY <1>1, <1>4, <2>1 DEF StoreType, Save
  <2>3. \A u \in Threads : ThreadInv(u)' BY <1>4, <2>1 DEF StoreInv, ThreadInv, Save
  <2> QED BY <1>2, <1>3, <2>2, <2>3 DEF StoreInv
<1>5. CASE /\ SameRevision(t) /\ RevisionRoom(th[t].base)
           /\ count < MaxUpdates /\ count' = count + 1
           /\ lock' = [lock EXCEPT ![Home[t]] = t]
           /\ th' = [th EXCEPT ![t].pc = "stage",
                               ![t].new = Updated(th[t].base, count + 1, kept, active)]
  <2> DEFINE n == Updated(th[t].base, count + 1, kept, active)
  <2>0. th[t].base \in RecType /\ th[t].id \in TaskIds /\ lock[Home[t]] = NoThread
    BY <1>1 DEF ThreadType, ThreadInv, Save
  <2>1. n \in RecType /\ n.rev = th[t].base.rev + 1 /\ th[t].base.ups \subseteq n.ups
    BY <1>1, <1>5, <2>0, StoreAssumption DEF Updated, RecType, RevisionRoom, StoreType
  <2> HIDE DEF n
  <2>2. /\ th' \in [Threads -> ThreadType]
        /\ th'[t].pc = "stage" /\ th'[t].id = th[t].id /\ th'[t].base = th[t].base /\ th'[t].new = n
        /\ \A u \in Threads : u # t => th'[u] = th[u]
    <3>1. th' = [th EXCEPT ![t] = [th[t] EXCEPT !.pc = "stage", !.new = n]] BY <1>5 DEF n
    <3>2. [th[t] EXCEPT !.pc = "stage", !.new = n] \in ThreadType BY <1>1, <2>1 DEF ThreadType
    <3> QED BY <1>1, <3>1, <3>2 DEF StoreType, ThreadType
  <2>3. lock' \in [Procs -> Threads \cup {NoThread}] /\ count' \in 0..MaxUpdates
    BY <1>1, <1>5, StoreAssumption DEF StoreType
  <2>4. StoreType' BY <1>1, <2>2, <2>3 DEF StoreType, Save
  <2>5. th[t].base = rec[th[t].id] BY <1>1, <1>5 DEF ThreadInv, SameRevision
  <2>6. ThreadInv(t)' BY <1>1, <1>5, <2>1, <2>2, <2>5 DEF ThreadInv, Save, Writing, StoreType
  <2>7. \A u \in Threads : u # t => ThreadInv(u)'
    <3> SUFFICES ASSUME NEW u \in Threads, u # t PROVE ThreadInv(u)' OBVIOUS
    <3>1. th'[u] = th[u] /\ ThreadInv(u) /\ Home[u] \in Procs BY <2>2, StoreAssumption DEF StoreInv
    <3>2. th[u].pc \in Writing => Home[u] # Home[t] BY <2>0, <3>1, StoreAssumption DEF ThreadInv, Writing
    <3>3. th[u].pc \in Writing => lock'[Home[u]] = lock[Home[u]] BY <1>1, <1>5, <3>1, <3>2 DEF StoreType
    <3> QED BY <3>1, <3>3 DEF ThreadInv, Save, Writing
  <2> QED BY <1>2, <1>3, <2>4, <2>6, <2>7 DEF StoreInv
<1> QED BY <1>4, <1>5 DEF Save

\* A throw out of write_locked before the rename.
LEMMA ThrowKeeps ==
    ASSUME StoreInv, NEW t \in Threads, th[t].pc \in Writing, Return(t),
           UNCHANGED <<rec, cand, dirs, phase, count, acked>>
    PROVE  StoreInv'
<1>1. StoreType BY DEF StoreInv
<1>2. StoreType' BY <1>1, ReturnFacts DEF StoreType
<1>3. OneService' /\ \A i \in TaskIds : RecInv(i)' BY DEF StoreInv, OneService, RecInv
<1>4. \A u \in Threads : ThreadInv(u)' BY ReturnKeepsThreads
<1> QED BY <1>2, <1>3, <1>4 DEF StoreInv

LEMMA StageKeeps == ASSUME StoreInv, NEW t \in Threads, Stage(t) PROVE StoreInv'
<1>1. StoreType /\ ThreadInv(t) /\ th[t].pc = "stage" /\ th[t].id \in TaskIds
  BY DEF StoreInv, Stage, ThreadInv
<1>2. CASE Return(t) /\ UNCHANGED dirs BY <1>1, <1>2, ThrowKeeps DEF Stage, Writing
<1>3. CASE RootSync(th[t].id) /\ Move(t, "rename") /\ UNCHANGED lock
  <2>1. /\ th' \in [Threads -> ThreadType]
        /\ \A u \in Threads : u # t => th'[u] = th[u]
        /\ th'[t].pc = "rename" /\ th'[t].id = th[t].id /\ th'[t].base = th[t].base /\ th'[t].new = th[t].new
    BY <1>1, <1>3, MoveFacts DEF Pcs
  <2>2. StoreType' BY <1>1, <1>3, <2>1 DEF StoreType, Stage, RootSync
  <2>3. OneService' /\ \A i \in TaskIds : RecInv(i)' BY <1>3 DEF StoreInv, OneService, RecInv, Stage, RootSync
  <2>4. ThreadInv(t)' BY <1>1, <1>3, <2>1 DEF ThreadInv, Stage, RootSync, Writing
  <2>5. \A u \in Threads : u # t => ThreadInv(u)'
    BY <1>3, <2>1 DEF StoreInv, ThreadInv, Stage, RootSync, Writing
  <2> QED BY <2>2, <2>3, <2>4, <2>5 DEF StoreInv
<1> QED BY <1>2, <1>3 DEF Stage

LEMMA RenameKeeps == ASSUME StoreInv, NEW t \in Threads, Rename(t) PROVE StoreInv'
<1>0. th[t].id \in TaskIds BY DEF StoreInv, Rename, ThreadInv
<1>z. PICK i, n : i \in TaskIds /\ i = th[t].id /\ n = th[t].new BY <1>0
<1>1. StoreType /\ ThreadInv(t) /\ th[t].pc = "rename" /\ RecInv(i) /\ th[t] \in ThreadType
  BY <1>z DEF StoreInv, Rename, StoreType
<1>2. CASE Return(t) /\ UNCHANGED <<rec, cand>> BY <1>1, <1>2, ThrowKeeps DEF Rename, Writing
<1>3. CASE /\ rec' = [rec EXCEPT ![i] = n] /\ cand' = [cand EXCEPT ![i] = @ \cup {n}]
           /\ Move(t, "sync") /\ UNCHANGED lock
  <2>1. /\ th' \in [Threads -> ThreadType]
        /\ \A u \in Threads : u # t => th'[u] = th[u]
        /\ th'[t].pc = "sync" /\ th'[t].id = i /\ th'[t].base = th[t].base /\ th'[t].new = n
    BY <1>1, <1>3, <1>z, MoveFacts DEF Pcs
  <2>2. n \in RecType /\ n.rev = rec[i].rev + 1 /\ rec[i].ups \subseteq n.ups /\ rec[i].rev \in Nat
    BY <1>1, <1>z, StoreAssumption DEF ThreadInv, ThreadType, Writing, StoreType, RecType
  <2>3. /\ rec'[i] = n /\ \A j \in TaskIds : j # i => rec'[j] = rec[j] /\ cand'[j] = cand[j]
        /\ cand'[i] = cand[i] \cup {n}
        /\ rec' \in [TaskIds -> RecType] /\ cand' \in [TaskIds -> SUBSET RecType]
    BY <1>1, <1>3, <1>z, <2>2 DEF StoreType
  <2>4. StoreType' BY <1>1, <2>1, <2>3, <1>3 DEF StoreType, Rename
  <2>5. OneService' BY DEF StoreInv, OneService, Rename
  <2>6. RecInv(i)' BY <1>1, <2>2, <2>3 DEF RecInv, Rename
  <2>7. \A j \in TaskIds : j # i => RecInv(j)' BY <2>3 DEF StoreInv, RecInv, Rename
  <2>8. ThreadInv(t)'
    <3>1. th[t].base.rev \in Nat /\ th[t].base.rev + 1 = n.rev BY <1>1, <1>z, <2>2 DEF ThreadInv
    <3> QED BY <1>1, <1>3, <1>z, <2>1, <2>3, <3>1 DEF ThreadInv, Rename, Writing
  <2>9. \A u \in Threads : u # t => ThreadInv(u)'
    <3> SUFFICES ASSUME NEW u \in Threads, u # t, th[u].pc # "idle" PROVE ThreadInv(u)' BY <2>1 DEF ThreadInv
    <3>1. th'[u] = th[u] /\ ThreadInv(u) /\ th[u].pc \notin Writing
      BY <1>1, <2>1, OneWriter DEF StoreInv, Writing
    <3>2. th[u] \in ThreadType /\ th[u].id \in TaskIds BY <1>1, <3>1 DEF StoreType, ThreadInv
    <3>3. th[u].base.rev \in Nat BY <3>2, StoreAssumption DEF ThreadType, RecType
    <3>4. CASE th[u].id = i BY <2>2, <2>3, <3>1, <3>2, <3>3, <3>4 DEF ThreadInv, Rename, Writing
    <3>5. CASE th[u].id # i BY <2>3, <3>1, <3>2, <3>5 DEF ThreadInv, Rename, Writing
    <3> QED BY <3>4, <3>5
  <2> QED BY <2>4, <2>5, <2>6, <2>7, <2>8, <2>9 DEF StoreInv
<1> QED BY <1>2, <1>3, <1>z DEF Rename

LEMMA SyncDirKeeps == ASSUME StoreInv, NEW t \in Threads, SyncDir(t) PROVE StoreInv'
<1>0. th[t].id \in TaskIds BY DEF StoreInv, SyncDir, ThreadInv
<1>z. PICK i, n, more : i \in TaskIds /\ i = th[t].id /\ n = th[t].new /\ more = n.ups \ th[t].base.ups
  BY <1>0
<1>1. StoreType /\ ThreadInv(t) /\ th[t].pc = "sync" /\ RecInv(i) /\ th[t] \in ThreadType
  BY <1>z DEF StoreInv, SyncDir, StoreType
<1>2. CASE UNCHANGED <<cand, acked>> BY <1>1, <1>2, ThrowKeeps DEF SyncDir, Writing
<1>3. CASE DirectorySync(i, n) /\ acked' = [acked EXCEPT ![i] = @ \cup more]
  <2>1. n = rec[i] /\ n \in RecType /\ i \in dirs /\ more \subseteq n.ups /\ n.ups \subseteq 1..MaxUpdates
    BY <1>1, <1>z DEF ThreadInv, ThreadType, RecType, StoreType
  <2>0. cand' = [cand EXCEPT ![i] = {n}] /\ Return(t) /\ UNCHANGED <<rec, dirs, phase, count>>
    BY <1>3 DEF SyncDir, DirectorySync
  <2>2. /\ cand'[i] = {n} /\ acked'[i] = acked[i] \cup more
        /\ \A j \in TaskIds : j # i => cand'[j] = cand[j] /\ acked'[j] = acked[j]
        /\ cand' \in [TaskIds -> SUBSET RecType] /\ acked' \in [TaskIds -> SUBSET (1..MaxUpdates)]
    BY <1>1, <1>3, <1>z, <2>0, <2>1 DEF StoreType
  <2>3. StoreType' BY <1>1, <2>0, <2>2, ReturnFacts DEF StoreType
  <2>4. OneService' /\ \A u \in Threads : ThreadInv(u)'
    <3>1. th[t].pc \in Writing BY <1>1 DEF Writing
    <3> QED BY <2>0, <3>1, ReturnKeepsThreads DEF StoreInv, OneService
  <2>5. RecInv(i)' BY <1>1, <2>0, <2>1, <2>2 DEF RecInv
  <2>6. \A j \in TaskIds : j # i => RecInv(j)' BY <2>0, <2>2 DEF StoreInv, RecInv
  <2> QED BY <2>3, <2>4, <2>5, <2>6 DEF StoreInv
<1> QED BY <1>2, <1>3, <1>z DEF SyncDir

\* A step that changes nothing.
LEMMA StoreStutterKeeps == ASSUME StoreInv, UNCHANGED storeVars PROVE StoreInv'
  BY DEF StoreInv, storeVars, StoreType, OneService, ThreadInv, RecInv

\* The strengthened invariant: besides AckedIsKept it says that flock and the
\* mutex leave one writer, that the writer's base is the stored record until
\* the rename, and that revision 0 means that there is no record.
THEOREM StoreInvHolds == StoreSpec => []StoreInv
<1>1. StoreInit => StoreInv BY InitStoreInv
<1>2. StoreInv /\ [StoreNext]_storeVars => StoreInv'
  BY OpenKeeps, ServeKeeps, RecoverOneKeeps, DieKeeps, PowerLossKeeps, StartKeeps, SaveKeeps,
     StageKeeps, RenameKeeps, SyncDirKeeps, StoreStutterKeeps DEF StoreNext
<1> QED BY <1>1, <1>2, PTL DEF StoreSpec

\* For any number of services, threads and tasks, an update whose save returned
\* true survives stale savers, failed syncs, crashes and power losses.
THEOREM NoLostUpdate == StoreSpec => []AckedIsKept
<1>1. StoreInv => AckedIsKept BY DEF StoreInv, AckedIsKept, RecInv, Survivors, StoreType
<1> QED BY <1>1, StoreInvHolds, PTL

\* The revision that save compares identifies the content that the caller read.
THEOREM CompareIsSound == StoreSpec => []RevisionNamesContent
<1>1. StoreInv => RevisionNamesContent BY DEF StoreInv, RevisionNamesContent, ThreadInv
<1> QED BY <1>1, StoreInvHolds, PTL

----------------------------------------
(* The capacity.  It is read when the save begins and the record shows *)
(* after its rename: in between no other thread may make a record retained. *)

Ahead == {"stage", "rename"}

\* A record about to be shown is not retained, replaces a retained one or has room.
RoomInv(t) ==
    th[t].pc \in Ahead =>
        \/ ~th[t].new.kept
        \/ th[t].base # NoRec /\ th[t].base.kept
        \/ Cardinality(Retained) + 1 <= Capacity

RoomForAll == \A t \in Threads : RoomInv(t)

\* Retained records are counted by a natural number.
LEMMA RetainedIsFinite == IsFiniteSet(Retained) /\ Cardinality(Retained) \in Nat
<1>1. Retained \in SUBSET TaskIds BY DEF Retained
<1>2. IsFiniteSet(Retained) BY <1>1, FS_Subset, StoreAssumption
<1> QED BY <1>2, FS_CardinalityType

\* No thread is brought closer to its rename and no record changes.
LEMMA QuietKeepsRoom ==
    ASSUME RoomForAll, UNCHANGED rec,
           \A u \in Threads : th'[u].pc \in Ahead =>
               th[u].pc \in Ahead /\ th'[u].new = th[u].new /\ th'[u].base = th[u].base
    PROVE  RoomForAll'
<1>1. Retained' = Retained BY DEF Retained
<1> SUFFICES ASSUME NEW u \in Threads, th'[u].pc \in Ahead PROVE RoomInv(u)' BY DEF RoomForAll, RoomInv
<1>2. RoomInv(u) /\ th[u].pc \in Ahead /\ th'[u].new = th[u].new /\ th'[u].base = th[u].base BY DEF RoomForAll
<1> QED BY <1>1, <1>2 DEF RoomInv

\* A save that passes the comparison found room for a record that is new.
LEMMA SaveKeepsRoom ==
    ASSUME StoreInv, RoomForAll, NEW t \in Threads, NEW kept \in BOOLEAN, NEW active \in BOOLEAN,
           Save(t, kept, active)
    PROVE  RoomForAll'
<1>1. StoreType /\ th[t] \in ThreadType BY DEF StoreInv, StoreType
<1>2. UNCHANGED rec /\ Retained' = Retained BY DEF Save, Retained
<1>3. CASE th' = [th EXCEPT ![t] = Idle]
  BY <1>1, <1>3, ConstantTypes, <1>2, QuietKeepsRoom DEF StoreType, Ahead
<1>4. CASE /\ th[t].base # NoRec \/ ~Full
           /\ CanBe(th[t].base, kept, active)
           /\ th' = [th EXCEPT ![t].pc = "stage",
                               ![t].new = Updated(th[t].base, count + 1, kept, active)]
  <2>1. PICK b, n : b = th[t].base /\ n = Updated(b, count + 1, kept, active) OBVIOUS
  <2>2. n.kept = kept BY <2>1 DEF Updated
  <2>3. th'[t].base = b /\ th'[t].new = n /\ \A u \in Threads : u # t => th'[u] = th[u]
    <3>1. th' = [th EXCEPT ![t] = [th[t] EXCEPT !.pc = "stage", !.new = n]] BY <1>4, <2>1
    <3> QED BY <1>1, <2>1, <3>1 DEF StoreType, ThreadType
  <2>4. ~Full => Cardinality(Retained) + 1 <= Capacity BY RetainedIsFinite, StoreAssumption DEF Full
  <2>5. kept => (b # NoRec /\ b.kept) \/ ~Full BY <1>4, <2>1 DEF CanBe
  <2>6. RoomInv(t)' BY <1>2, <2>2, <2>3, <2>4, <2>5 DEF RoomInv
  <2>7. \A u \in Threads : u # t => RoomInv(u)' BY <1>2, <2>3 DEF RoomForAll, RoomInv
  <2> QED BY <2>6, <2>7 DEF RoomForAll
<1> QED BY <1>3, <1>4 DEF Save

\* A rename leaves no other thread between its comparison and its rename.
LEMMA RenameKeepsRoom ==
    ASSUME StoreInv, RoomForAll, NEW t \in Threads, Rename(t)
    PROVE  RoomForAll'
<1>1. StoreType /\ th[t].pc = "rename" BY DEF StoreInv, Rename
<1>2. \A u \in Threads : u # t => th'[u] = th[u] /\ th[u].pc \notin Ahead
  <2>1. \A u \in Threads : u # t => th'[u] = th[u] BY <1>1 DEF Rename, Move, Return, StoreType
  <2>2. \A u \in Threads : u # t => th[u].pc \notin Writing BY <1>1, OneWriter DEF Writing
  <2> QED BY <2>1, <2>2 DEF Ahead, Writing
<1>3. th'[t].pc \notin Ahead
  <2>1. CASE Move(t, "sync") BY <1>1, <2>1, MoveFacts DEF Pcs, Ahead
  <2>2. CASE Return(t) BY <1>1, <2>2, ReturnFacts DEF Ahead
  <2> QED BY <2>1, <2>2 DEF Rename
<1> QED BY <1>2, <1>3 DEF RoomForAll, RoomInv

\* The other steps.
LEMMA OthersKeepRoom ==
    ASSUME StoreInv, RoomForAll,
           \/ \E p \in Procs : Open(p) \/ StartServing(p) \/ ServiceDies(p) \/ (\E i \in TaskIds : RecoverOne(p, i))
           \/ PowerLoss
           \/ \E t \in Threads : (\E i \in TaskIds : Get(t, i) \/ Create(t, i)) \/ Stage(t) \/ SyncDir(t)
           \/ UNCHANGED storeVars
    PROVE  RoomForAll'
<1>1. StoreType BY DEF StoreInv
<1>2. ASSUME NEW p \in Procs, Open(p) \/ StartServing(p) \/ ServiceDies(p) PROVE RoomForAll'
  BY <1>2, ConstantTypes, QuietKeepsRoom DEF Open, StartServing, ServiceDies, Ahead
<1>3. ASSUME NEW p \in Procs, NEW i \in TaskIds, RecoverOne(p, i) PROVE RoomForAll'
  <2>1. \A t \in Threads : th'[t].pc = "idle" BY <1>3, OnlyServing DEF RecoverOne
  <2> QED BY <2>1 DEF RoomForAll, RoomInv, Ahead
<1>4. CASE PowerLoss BY <1>4, ConstantTypes DEF PowerLoss, RoomForAll, RoomInv, Ahead
<1>5. ASSUME NEW t \in Threads, NEW i \in TaskIds, Get(t, i) \/ Create(t, i) PROVE RoomForAll'
  BY <1>1, <1>5, QuietKeepsRoom DEF Get, Create, StoreType, Ahead
<1>6. ASSUME NEW t \in Threads, Stage(t) PROVE RoomForAll'
  <2>1. UNCHANGED rec /\ th[t].pc = "stage" BY <1>6 DEF Stage
  <2>2. CASE Move(t, "rename") BY <1>1, <2>2, MoveFacts, <2>1, QuietKeepsRoom DEF Pcs, Ahead
  <2>3. CASE Return(t)
    <3>1. th'[t].pc = "idle" /\ \A u \in Threads : u # t => th'[u] = th[u] BY <1>1, <2>3, ReturnFacts
    <3> QED BY <2>1, <3>1, QuietKeepsRoom DEF Ahead
  <2> QED BY <1>6, <2>2, <2>3 DEF Stage
<1>7. ASSUME NEW t \in Threads, SyncDir(t) PROVE RoomForAll'
  BY <1>1, <1>7, ReturnFacts, QuietKeepsRoom DEF SyncDir, Ahead
<1>8. CASE UNCHANGED storeVars BY <1>8, QuietKeepsRoom DEF storeVars
<1> QED BY <1>2, <1>3, <1>4, <1>5, <1>6, <1>7, <1>8

\* A step never makes the retained records more than the capacity, unless the
\* power loss brings back a record that was being pruned.
LEMMA StepAdmits ==
    ASSUME StoreInv, RoomForAll, StoreNext
    PROVE  \/ PowerLoss
           \/ Cardinality(Retained') <= Cardinality(Retained)
           \/ Cardinality(Retained') <= Capacity
<1>0. IsFiniteSet(Retained) /\ Cardinality(Retained) \in Nat BY RetainedIsFinite
<1>1. Retained' \subseteq Retained => Cardinality(Retained') <= Cardinality(Retained) BY <1>0, FS_Subset
<1>2. UNCHANGED rec => Retained' = Retained BY DEF Retained
<1>3. ASSUME NEW p \in Procs, NEW i \in TaskIds, RecoverOne(p, i) PROVE Retained' \subseteq Retained
  <2>1. rec \in [TaskIds -> RecType] /\ rec[i].active BY <1>3 DEF StoreInv, StoreType, RecoverOne
  <2>2. CASE UNCHANGED rec BY <2>2 DEF Retained
  <2>3. CASE rec' = [rec EXCEPT ![i] = Interrupted(rec[i])]
    <3>1. Interrupted(rec[i]).kept = rec[i].kept /\ rec[i] # NoRec BY <2>1 DEF Interrupted, RecType, NoRec
    <3>2. rec'[i].kept = rec[i].kept /\ \A j \in TaskIds : j # i => rec'[j] = rec[j] BY <2>1, <2>3, <3>1
    <3> QED BY <3>1, <3>2 DEF Retained
  <2> QED BY <1>3, <2>2, <2>3 DEF RecoverOne
<1>4. ASSUME NEW t \in Threads, Rename(t)
      PROVE  \/ Cardinality(Retained') <= Cardinality(Retained)
             \/ Cardinality(Retained') <= Capacity
  <2>1. StoreType /\ ThreadInv(t) /\ th[t].pc = "rename" /\ RoomInv(t) /\ th[t].id \in TaskIds
    BY <1>4 DEF StoreInv, ThreadInv, Rename, RoomForAll
  <2>2. PICK i, n : i \in TaskIds /\ i = th[t].id /\ n = th[t].new BY <2>1
  <2>3. CASE UNCHANGED rec BY <1>1, <1>2, <2>3
  <2>4. CASE rec' = [rec EXCEPT ![i] = n]
    <3>1. rec'[i] = n /\ \A j \in TaskIds : j # i => rec'[j] = rec[j] BY <2>1, <2>2, <2>4 DEF StoreType
    <3>2. th[t].base = rec[i] BY <2>1, <2>2 DEF ThreadInv
    <3>3. CASE ~n.kept \/ (rec[i] # NoRec /\ rec[i].kept)
      <4>1. Retained' \subseteq Retained BY <2>2, <3>1, <3>3 DEF Retained
      <4> QED BY <1>1, <4>1
    <3>4. CASE Cardinality(Retained) + 1 <= Capacity
      <4>1. Retained' \in SUBSET (Retained \cup {i}) BY <3>1 DEF Retained
      <4>2. IsFiniteSet(Retained \cup {i}) /\ Cardinality(Retained \cup {i}) <= Cardinality(Retained) + 1
        <5>1. /\ IsFiniteSet(Retained \cup {i})
              /\ Cardinality(Retained \cup {i}) =
                   IF i \in Retained THEN Cardinality(Retained) ELSE Cardinality(Retained) + 1
          BY <1>0, FS_AddElement
        <5> QED BY <1>0, <5>1
      <4>3. Cardinality(Retained') <= Cardinality(Retained \cup {i}) /\ IsFiniteSet(Retained')
        BY <4>1, <4>2, FS_Subset
      <4>4. Cardinality(Retained') \in Nat /\ Cardinality(Retained \cup {i}) \in Nat
        BY <4>2, <4>3, FS_CardinalityType
      <4> QED BY <1>0, <3>4, <4>2, <4>3, <4>4, StoreAssumption
    <3> QED BY <2>1, <2>2, <3>2, <3>3, <3>4 DEF RoomInv, Ahead
  <2> QED BY <1>4, <2>2, <2>3, <2>4 DEF Rename
<1> QED BY <1>1, <1>2, <1>3, <1>4 DEF StoreNext, Open, StartServing, ServiceDies, Get, Create, Save, Stage, SyncDir

\* Both limits of the store hold for any capacity and any width of the revision:
\* no save wraps the revision, and no step but a power loss admits a record
\* beyond the capacity, although the capacity is read several system calls
\* before the record shows.
THEOREM LimitsKept == StoreSpec => LimitsHold
<1>1. StoreInit => RoomForAll BY ConstantTypes DEF StoreInit, RoomForAll, RoomInv, Ahead
<1>2. StoreInv /\ RoomForAll /\ [StoreNext]_storeVars => RoomForAll'
  BY SaveKeepsRoom, RenameKeepsRoom, OthersKeepRoom DEF StoreNext
<1>3. StoreInv => StoreType BY DEF StoreInv
<1>4. StoreInv /\ RoomForAll /\ [StoreNext]_storeVars =>
        [ PowerLoss \/ Cardinality(Retained') <= Cardinality(Retained)
          \/ Cardinality(Retained') <= Capacity ]_storeVars
  BY StepAdmits
<1> QED BY <1>1, <1>2, <1>3, <1>4, StoreInvHolds, PTL DEF StoreSpec, LimitsHold, AdmissionIsBounded
=============================================================================
