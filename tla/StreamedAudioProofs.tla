------------------------ MODULE StreamedAudioProofs ------------------------
(***************************************************************************)
(* What the bounded conversion computes block by block is what the older   *)
(* conversion computes on the whole clip, and what the review of pitch     *)
(* shows is what is heard (StreamedAudio).                                 *)
(*                                                                         *)
(* A job runs in one step, so the invariant only says that a result is the *)
(* outcome of its job; the proof is about the computations.  Each is one   *)
(* or two loops over data, and is proved by induction over their turns:    *)
(* the state of the loop after any number of turns is given in closed      *)
(* form, or it is in a set that every turn stays in (LoopOf), and the loop *)
(* of the code then has these states (SameTurns).  The induction is that   *)
(* of a set of naturals (InductionOf), from the least member of a set.     *)
(* The stages follow in the order of StreamedAudio, after the numbers,     *)
(* sets and cuts that ConversionProofs uses too.                           *)
(***************************************************************************)
EXTENDS StreamedAudio, SequenceTheorems, FiniteSetTheorems, WellFoundedInduction, TLAPS

----------------------------------------
(* Naturals, and sets of them. *)

\* Every set of naturals has a least member.
LEMMA LeastOf == ASSUME NEW T \in SUBSET Nat, T # {} PROVE \E m \in T : \A k \in T : m <= k
<1> DEFINE R == {ss \in Nat \X Nat : ss[1] < ss[2]}
<1>1. IsWellFoundedOn(R, Nat) BY NatLessThanWellFounded DEF OpToRel
<1> HIDE DEF R
<1>2. \E x \in T : \A y \in T : ~(<<y, x>> \in R) BY <1>1, WFMin
<1>3. \A x, y \in Nat : ~(<<y, x>> \in R) => x <= y BY DEF R
<1> QED BY <1>2, <1>3

\* Induction, for a set instead of a predicate.
LEMMA InductionOf == ASSUME NEW S \in SUBSET Nat, 0 \in S, \A n \in S : n + 1 \in S PROVE S = Nat
<1> SUFFICES ASSUME Nat \ S # {} PROVE FALSE OBVIOUS
<1>1. PICK m \in Nat \ S : \A k \in Nat \ S : m <= k BY LeastOf
<1>2. m # 0 /\ m - 1 \in Nat /\ m - 1 < m BY <1>1
<1>3. m - 1 \in S BY <1>1, <1>2
<1> QED BY <1>1, <1>2, <1>3

LEMMA MinOf ==
    ASSUME NEW T \in SUBSET Nat, T # {}
    PROVE  Min(T) \in T /\ \A k \in T : Min(T) <= k
<1>1. \E m \in T : \A k \in T : m <= k BY LeastOf
<1> QED BY <1>1 DEF Min

LEMMA MinOfTwo == ASSUME NEW a \in Int, NEW b \in Int PROVE Min({a, b}) = IF a <= b THEN a ELSE b
<1>1. \E m \in {a, b} : \A k \in {a, b} : m <= k OBVIOUS
<1>2. Min({a, b}) \in {a, b} /\ \A k \in {a, b} : Min({a, b}) <= k BY <1>1 DEF Min
<1> QED BY <1>2

LEMMA MaxOfTwo == ASSUME NEW a \in Int, NEW b \in Int PROVE Max({a, b}) = IF a >= b THEN a ELSE b
<1>1. \E m \in {a, b} : \A k \in {a, b} : m >= k OBVIOUS
<1>2. Max({a, b}) \in {a, b} /\ \A k \in {a, b} : Max({a, b}) >= k BY <1>1 DEF Max
<1> QED BY <1>2

LEMMA Divide ==
    ASSUME NEW d \in Nat \ {0}, NEW a \in Int
    PROVE  a \div d \in Int /\ a % d \in 0..(d - 1) /\ a = (a \div d) * d + (a % d)
  OBVIOUS

LEMMA Multiples ==
    ASSUME NEW d \in Nat \ {0}, NEW a \in Int, NEW b \in Int, a <= b PROVE a * d \in Int /\ a * d <= b * d
<1>1. PICK x \in Nat : b = a + x
  <2>1. b - a \in Nat /\ b = a + (b - a) OBVIOUS
  <2> QED BY <2>1
<1>2. b * d = a * d + x * d /\ x * d \in Nat /\ a * d \in Int BY <1>1
<1> QED BY <1>2

\* A quotient is bounded by the multiples on both sides.
LEMMA QuotientBelow ==
    ASSUME NEW d \in Nat \ {0}, NEW a \in Int, NEW q \in Int, a < q * d PROVE a \div d <= q - 1
<1> SUFFICES ASSUME q <= a \div d PROVE FALSE BY Divide
<1>1. q * d <= (a \div d) * d /\ q * d \in Int /\ (a \div d) * d \in Int BY Divide, Multiples
<1>2. a = (a \div d) * d + (a % d) /\ a % d >= 0 /\ a % d \in Int BY Divide
<1> QED BY <1>1, <1>2

LEMMA QuotientAbove ==
    ASSUME NEW d \in Nat \ {0}, NEW a \in Int, NEW q \in Int, q * d <= a PROVE q <= a \div d
<1> SUFFICES ASSUME (a \div d) + 1 <= q PROVE FALSE BY Divide
<1>1. ((a \div d) + 1) * d <= q * d /\ a \div d \in Int /\ q * d \in Int BY Divide, Multiples
<1>2. ((a \div d) + 1) * d = (a \div d) * d + d /\ (a \div d) * d \in Int BY <1>1
<1>3. a = (a \div d) * d + (a % d) /\ a % d < d /\ a % d \in Int BY Divide
<1> QED BY <1>1, <1>2, <1>3

LEMMA QuotientGrows ==
    ASSUME NEW d \in Nat \ {0}, NEW a \in Int, NEW b \in Int, a <= b PROVE a \div d <= b \div d
<1>1. (a \div d) * d <= a /\ a \div d \in Int /\ (a \div d) * d \in Int BY Divide
<1> QED BY <1>1, QuotientAbove
----------------------------------------
(* Where a clip is cut. *)

Fits(n, e, c, q) ==
    /\ n \in Nat /\ n >= 2 /\ c \in Nat /\ c >= Hop /\ q \in Nat /\ q >= Hop
    /\ \A f \in 0..(Frames(n) - 1) : e[f] \in Nat

LEMMA Sizes == Hop \in Nat \ {0} /\ F0Core \in Nat \ {0} /\ ContentMax \in Nat \ {0}
  BY PlanAssumption

\* Around a target there is a frame to cut at.
LEMMA QueryFits ==
    ASSUME NEW n, NEW e, NEW c, NEW q, Fits(n, e, c, q), NEW t \in Hop..(n - 1)
    PROVE  /\ QueryFrames(n, t, q) \subseteq 0..(Frames(n) - 1) /\ QueryFrames(n, t, q) # {}
           /\ \A f \in QueryFrames(n, t, q) :
                /\ f * Hop \in Nat /\ f * Hop < n /\ f * Hop <= t + q
                /\ (t % Hop = 0 /\ q % Hop = 0 => f * Hop >= t - q)
<1>0. n \in Nat /\ n >= 2 /\ q \in Nat /\ q >= Hop /\ t \in Nat /\ t >= 1 /\ t <= n - 1 /\ t >= Hop
      /\ Hop \in Nat \ {0} /\ Frames(n) \in Int
  BY Sizes, Divide DEF Fits, Frames
<1> DEFINE lo == IF t > q THEN Max({1, t - q}) ELSE 1
           hi == Min({n - 1, t + q})
           top == Min({Frames(n) - 1, hi \div Hop})
<1>1. lo \in Nat /\ lo >= 1 /\ lo <= t /\ lo >= t - q /\ (lo = 1 \/ lo = t - q) /\ (t - q >= 1 => lo = t - q)
  BY <1>0, MaxOfTwo
<1>2. hi \in Nat /\ hi <= n - 1 /\ hi <= t + q /\ hi >= t BY <1>0, MinOfTwo
<1>3. QueryFrames(n, t, q) = (lo \div Hop)..top BY DEF QueryFrames
<1> HIDE DEF lo, hi
<1>4. lo \div Hop \in Int /\ hi \div Hop \in Int /\ lo \div Hop <= hi \div Hop /\ lo \div Hop >= 0
  <2>1. 0 * Hop <= lo BY <1>0, <1>1
  <2>2. lo \in Int /\ hi \in Int /\ lo <= hi BY <1>0, <1>1, <1>2
  <2>3. lo \div Hop \in Int /\ hi \div Hop \in Int BY <1>0, <2>2, Divide
  <2>4. lo \div Hop <= hi \div Hop BY <1>0, <2>2, QuotientGrows
  <2>5. 0 <= lo \div Hop BY <1>0, <2>1, <2>2, QuotientAbove
  <2> QED BY <2>3, <2>4, <2>5
<1>5. lo \div Hop <= Frames(n) - 1
  <2>1. Frames(n) * Hop \in Int /\ n < Frames(n) * Hop + Hop BY <1>0, Divide DEF Frames
  <2>2. CASE lo = t - q
    <3>1. lo < Frames(n) * Hop BY <1>0, <2>1, <2>2
    <3> QED BY <1>0, <1>1, <3>1, QuotientBelow
  <2>3. CASE lo = 1 /\ Hop = 1
    <3>1. Frames(n) * Hop = Frames(n) BY <1>0, <2>3
    <3>2. lo < Frames(n) * Hop BY <1>0, <2>1, <2>3, <3>1
    <3> QED BY <1>0, <1>1, <3>2, QuotientBelow
  <2>4. CASE lo = 1 /\ Hop # 1
    <3>1. 1 * Hop <= n BY <1>0
    <3>2. 1 <= Frames(n) BY <1>0, <3>1, QuotientAbove DEF Frames
    <3>3. lo < 1 * Hop BY <1>0, <2>4
    <3>4. lo \div Hop <= 1 - 1 BY <1>0, <1>1, <3>3, QuotientBelow
    <3> QED BY <1>0, <1>4, <3>2, <3>4
  <2> QED BY <1>1, <2>2, <2>3, <2>4
<1>6. top \in Int /\ top <= Frames(n) - 1 /\ top <= hi \div Hop /\ lo \div Hop <= top
  BY <1>0, <1>4, <1>5, MinOfTwo
<1> HIDE DEF top
<1>7. ASSUME NEW f \in QueryFrames(n, t, q)
      PROVE  f \in 0..(Frames(n) - 1) /\ f * Hop \in Nat /\ f * Hop < n /\ f * Hop <= t + q
  <2>1. f \in Int /\ f >= 0 /\ f <= Frames(n) - 1 /\ f <= hi \div Hop BY <1>0, <1>3, <1>4, <1>6, <1>7
  <2>2. f * Hop <= (Frames(n) - 1) * Hop /\ f * Hop <= (hi \div Hop) * Hop /\ 0 * Hop <= f * Hop /\ f * Hop \in Int
    BY <1>0, <1>4, <2>1, Multiples
  <2>3. (Frames(n) - 1) * Hop = Frames(n) * Hop - Hop /\ Frames(n) * Hop <= n /\ Frames(n) * Hop \in Int
    <3>1. Frames(n) * Hop <= n BY <1>0, Divide DEF Frames
    <3> QED BY <1>0, <3>1
  <2>4. (hi \div Hop) * Hop <= hi /\ (hi \div Hop) * Hop \in Int BY <1>0, <1>2, Divide
  <2> QED BY <1>0, <1>2, <2>1, <2>2, <2>3, <2>4
<1>8. ASSUME NEW f \in QueryFrames(n, t, q), t % Hop = 0, q % Hop = 0 PROVE f * Hop >= t - q
  <2>1. f \in Int /\ f >= lo \div Hop /\ f >= 0 BY <1>3, <1>4, <1>6, <1>8
  <2>2. CASE t - q >= 1
    <3>1. t = (t \div Hop) * Hop /\ q = (q \div Hop) * Hop /\ t \div Hop \in Int /\ q \div Hop \in Int
      BY <1>0, <1>8, Divide
    <3> DEFINE x == (t \div Hop) - (q \div Hop)
    <3>2. x \in Int /\ x * Hop = t - q BY <1>0, <3>1
    <3> HIDE DEF x
    <3>3. lo = x * Hop BY <1>1, <2>2, <3>2
    <3>4. x <= lo \div Hop BY <1>0, <1>1, <3>2, <3>3, QuotientAbove
    <3>5. x <= f BY <1>4, <2>1, <3>2, <3>4
    <3> QED BY <1>0, <2>1, <3>2, <3>5, Multiples
  <2>3. CASE t - q < 1 BY <1>0, <2>1, Multiples, <2>3
  <2> QED BY <1>0, <2>2, <2>3
<1>9. QueryFrames(n, t, q) # {} BY <1>3, <1>4, <1>6
<1> QED BY <1>7, <1>8, <1>9

\* The first quietest of some frames.
LEMMA QuietestIs ==
    ASSUME NEW s \in SUBSET Nat, s # {}, NEW e, \A f \in s : e[f] \in Nat PROVE Quietest(s, e) \in s
<1> DEFINE loud == {e[f] : f \in s}
<1>1. PICK f0 \in s : TRUE OBVIOUS
<1>2. PICK l \in loud : \A k \in loud : l <= k
  <2>1. loud \in SUBSET Nat /\ e[f0] \in loud BY <1>1
  <2> HIDE DEF loud
  <2> QED BY <2>1, LeastOf
<1> DEFINE quiet == {f \in s : e[f] = l}
<1>3. PICK f \in quiet : \A g \in quiet : f <= g
  <2>1. quiet \in SUBSET Nat /\ quiet # {} BY <1>2
  <2> HIDE DEF quiet
  <2> QED BY <2>1, LeastOf
<1>4. \A g \in s : e[f] < e[g] \/ (e[f] = e[g] /\ f <= g)
  <2> SUFFICES ASSUME NEW g \in s PROVE e[f] < e[g] \/ (e[f] = e[g] /\ f <= g) OBVIOUS
  <2>1. e[g] \in Nat /\ e[f] = l /\ l <= e[g] /\ l \in Nat BY <1>2, <1>3
  <2>2. e[g] = l => f <= g BY <1>3
  <2> QED BY <2>1, <2>2
<1> QED BY <1>3, <1>4 DEF Quietest

LEMMA CandidateIs ==
    ASSUME NEW n, NEW e, NEW c, NEW q, Fits(n, e, c, q), NEW t \in Hop..(n - 1)
    PROVE  /\ Candidate(n, e, q, t) \in Nat /\ Candidate(n, e, q, t) < n /\ Candidate(n, e, q, t) <= t + q
           /\ (t % Hop = 0 /\ q % Hop = 0 => Candidate(n, e, q, t) >= t - q)
           /\ \A p \in Nat : Usable(n, e, q, p, t) <=> Candidate(n, e, q, t) > p
<1>1. Quietest(QueryFrames(n, t, q), e) \in QueryFrames(n, t, q)
  <2>1. QueryFrames(n, t, q) \subseteq 0..(Frames(n) - 1) /\ QueryFrames(n, t, q) # {} BY QueryFits
  <2>2. \A f \in 0..(Frames(n) - 1) : e[f] \in Nat /\ f \in Nat BY DEF Fits
  <2> QED BY <2>1, <2>2, QuietestIs
<1>2. /\ Candidate(n, e, q, t) \in Nat /\ Candidate(n, e, q, t) < n /\ Candidate(n, e, q, t) <= t + q
      /\ (t % Hop = 0 /\ q % Hop = 0 => Candidate(n, e, q, t) >= t - q)
  BY <1>1, QueryFits DEF Candidate
<1>3. n \in Nat /\ QueryFrames(n, t, q) # {} BY QueryFits DEF Fits
<1> QED BY <1>2, <1>3 DEF Usable
----------------------------------------
(* The cuts of the older conversion. *)

LEMMA MultipleIsWhole == ASSUME NEW d \in Nat \ {0}, NEW y \in Int PROVE (y * d) % d = 0 /\ (y * d) \div d = y
<1> DEFINE a == y * d
<1>1. a \in Int /\ (y + 1) * d = a + d OBVIOUS
<1> HIDE DEF a
<1>2. y * d <= a /\ a < (y + 1) * d BY <1>1 DEF a
<1>3. y <= a \div d BY <1>1, <1>2, QuotientAbove
<1>4. a \div d <= (y + 1) - 1 BY <1>1, <1>2, QuotientBelow
<1>5. a \div d = y BY <1>1, <1>3, <1>4, Divide
<1>6. a = (a \div d) * d + (a % d) /\ a % d \in Int BY <1>1, Divide
<1>7. (a \div d) * d = a BY <1>5 DEF a
<1>8. a % d = 0 BY <1>1, <1>6, <1>7
<1> QED BY <1>5, <1>8 DEF a

\* The targets k * c lie in the clip, and on the lattice if the chunk does.
LEMMA TargetsLie ==
    ASSUME NEW n, NEW e, NEW c, NEW q, Fits(n, e, c, q)
    PROVE  /\ (n - 1) \div c \in Nat
           /\ ((n - 1) \div c) * c \in Nat /\ ((n - 1) \div c) * c < n /\ n <= ((n - 1) \div c) * c + c
           /\ \A k \in 1..((n - 1) \div c) : k * c \in Hop..(n - 1)
           /\ c % Hop = 0 => \A k \in 0..((n - 1) \div c) : (k * c) % Hop = 0
<1>0. n \in Nat /\ n >= 2 /\ c \in Nat \ {0} /\ c >= Hop /\ Hop \in Nat \ {0} BY Sizes DEF Fits
<1> DEFINE K == (n - 1) \div c
<1>1. K \in Int /\ K * c \in Int /\ K * c <= n - 1 /\ n - 1 < K * c + c
  <2>1. n - 1 \in Int BY <1>0
  <2>2. K \in Int /\ (n - 1) % c \in 0..(c - 1) /\ n - 1 = K * c + ((n - 1) % c) BY <1>0, <2>1, Divide
  <2> HIDE DEF K
  <2>3. K * c \in Int BY <1>0, <2>2
  <2> QED BY <1>0, <2>2, <2>3
<1>2. K >= 0
  <2>1. 0 * c <= n - 1 BY <1>0
  <2> QED BY <1>0, <2>1, QuotientAbove
<1> HIDE DEF K
<1>3. ASSUME NEW k \in 1..K PROVE k * c \in Hop..(n - 1)
  <2>1. k * c \in Int /\ k * c <= K * c BY <1>0, <1>1, <1>3, Multiples
  <2>2. 1 * c <= k * c BY <1>0, <1>1, <1>3, Multiples
  <2> QED BY <1>0, <1>1, <2>1, <2>2
<1>4. ASSUME c % Hop = 0, NEW k \in 0..K PROVE (k * c) % Hop = 0
  <2>1. c = (c \div Hop) * Hop /\ c \div Hop \in Int BY <1>0, <1>4, Divide
  <2> DEFINE x == c \div Hop
  <2> HIDE DEF x
  <2>2. k * c = (k * x) * Hop /\ k * x \in Int BY <1>0, <1>1, <1>4, <2>1 DEF x
  <2> QED BY <1>0, <2>2, MultipleIsWhole
<1>5. 0 * c <= K * c BY <1>0, <1>1, <1>2, Multiples
<1> QED BY <1>0, <1>1, <1>2, <1>3, <1>4, <1>5 DEF K

\* The cuts, target by target: the recursion of CutsByTarget has a solution,
\* however many targets there are.
LEMMA CutsSteps ==
    ASSUME NEW n, NEW e, NEW c, NEW q, Fits(n, e, c, q)
    PROVE  /\ CutsByTarget(n, e, c, q)[0] = <<0>>
           /\ \A k \in 1..((n - 1) \div c) :
                CutsByTarget(n, e, c, q)[k] = CutAt(n, e, q, CutsByTarget(n, e, c, q)[k - 1], k * c)
<1> DEFINE K == (n - 1) \div c
           Solves(g, i) == g = [j \in 0..i |-> IF j = 0 THEN <<0>> ELSE CutAt(n, e, q, g[j - 1], j * c)]
           f == CHOOSE g : Solves(g, K)
<1>1. K \in Nat BY TargetsLie
<1> HIDE DEF K
<1>2. \E g : Solves(g, K)
  <2> DEFINE S == {i \in Nat : \E g : Solves(g, i)}
  <2>1. 0 \in S
    <3>1. [j \in 0..0 |-> <<0>>] =
            [j \in 0..0 |-> IF j = 0 THEN <<0>> ELSE CutAt(n, e, q, [m \in 0..0 |-> <<0>>][j - 1], j * c)]
      OBVIOUS
    <3>2. Solves([m \in 0..0 |-> <<0>>], 0) BY <3>1
    <3> QED BY <3>2
  <2>2. ASSUME NEW i \in S PROVE i + 1 \in S
    <3>1. PICK g : g = [j \in 0..i |-> IF j = 0 THEN <<0>> ELSE CutAt(n, e, q, g[j - 1], j * c)] BY <2>2
    <3>0. i \in Nat BY <2>2
    <3> DEFINE h == [j \in 0..(i + 1) |-> IF j <= i THEN g[j] ELSE CutAt(n, e, q, g[i], j * c)]
               r == [j \in 0..(i + 1) |-> IF j = 0 THEN <<0>> ELSE CutAt(n, e, q, h[j - 1], j * c)]
    <3>2. \A j \in 0..(i + 1) : h[j] = IF j = 0 THEN <<0>> ELSE CutAt(n, e, q, h[j - 1], j * c)
      <4> SUFFICES ASSUME NEW j \in 0..(i + 1)
                   PROVE h[j] = IF j = 0 THEN <<0>> ELSE CutAt(n, e, q, h[j - 1], j * c)
        OBVIOUS
      <4>1. CASE j = 0 BY <3>0, <3>1, <4>1
      <4>2. CASE j \in 1..i
        <5>1. g[j] = CutAt(n, e, q, g[j - 1], j * c) BY <3>0, <3>1, <4>2
        <5>2. h[j] = g[j] /\ h[j - 1] = g[j - 1] /\ j # 0 BY <3>0, <4>2
        <5> QED BY <5>1, <5>2
      <4>3. CASE j = i + 1
        <5>1. h[j] = CutAt(n, e, q, g[i], j * c) /\ h[i] = g[i] /\ j - 1 = i /\ j # 0 BY <3>0, <4>3
        <5> HIDE DEF h
        <5> QED BY <5>1
      <4> QED BY <3>0, <4>1, <4>2, <4>3
    <3>3. h = r
      <4>1. \A j \in 0..(i + 1) : h[j] = r[j] BY <3>2
      <4> QED BY <4>1
    <3> HIDE DEF h
    <3>4. Solves(h, i + 1) BY <3>3
    <3> QED BY <3>0, <3>4
  <2> HIDE DEF S
  <2>3. S = Nat
    <3>1. S \in SUBSET Nat BY DEF S
    <3> QED BY <2>1, <2>2, <3>1, InductionOf
  <2> HIDE DEF Solves
  <2>4. K \in S BY <1>1, <2>3
  <2> QED BY <2>4 DEF S
<1>3. Solves(f, K) BY <1>2
<1>4. CutsByTarget(n, e, c, q) = f BY DEF CutsByTarget, K
<1> HIDE DEF f
<1>5. f[0] = <<0>> BY <1>1, <1>3
<1>6. \A k \in 1..K : f[k] = CutAt(n, e, q, f[k - 1], k * c) BY <1>1, <1>3
<1> QED BY <1>4, <1>5, <1>6 DEF K

\* What the next target does to the cuts.
LEMMA CutAtIs ==
    ASSUME NEW n, NEW e, NEW c, NEW q, Fits(n, e, c, q), NEW t \in Hop..(n - 1), NEW b
    PROVE  CutAt(n, e, q, b, t) = IF Candidate(n, e, q, t) > Last(b) THEN Append(b, Candidate(n, e, q, t)) ELSE b
<1>1. Candidate(n, e, q, t) < n BY CandidateIs
<1> QED BY <1>1 DEF CutAt

\* Where the cuts lie.
CutsLie(n, c, q, k, b) ==
    /\ b \in Seq(Nat) /\ Len(b) >= 1 /\ Last(b) \in 0..(n - 1) /\ Last(b) <= k * c + q
    /\ c % Hop = 0 /\ q % Hop = 0 => Last(b) >= k * c - q

LEMMA CutsForm ==
    ASSUME NEW n, NEW e, NEW c, NEW q, Fits(n, e, c, q), NEW k \in 0..((n - 1) \div c)
    PROVE  CutsLie(n, c, q, k, CutsByTarget(n, e, c, q)[k])
<1>0. n \in Nat /\ n >= 2 /\ c \in Nat \ {0} /\ q \in Nat BY Sizes DEF Fits
<1> DEFINE K == (n - 1) \div c
           B == CutsByTarget(n, e, c, q)
           S == {i \in Nat : i <= K => CutsLie(n, c, q, i, B[i])}
<1>1. K \in Nat BY TargetsLie
<1>2. 0 \in S
  <2>1. B[0] = <<0>> BY CutsSteps
  <2>2. <<0>> \in Seq(Nat) /\ Len(<<0>>) = 1 /\ Last(<<0>>) = 0 /\ 0 * c = 0 BY <1>0 DEF Last
  <2>3. CutsLie(n, c, q, 0, <<0>>) BY <1>0, <2>2 DEF CutsLie
  <2> HIDE DEF B, K
  <2> QED BY <2>1, <2>3
<1>3. ASSUME NEW i \in S PROVE i + 1 \in S
  <2> HIDE DEF K, B
  <2> SUFFICES ASSUME i + 1 <= K PROVE CutsLie(n, c, q, i + 1, B[i + 1]) BY <1>3
  <2> DEFINE t == (i + 1) * c
             at == Candidate(n, e, q, t)
  <2>1. i \in Nat /\ CutsLie(n, c, q, i, B[i]) BY <1>1, <1>3
  <2>2. i + 1 \in 1..K /\ (i + 1) - 1 = i BY <1>1, <2>1
  <2>3. t \in Hop..(n - 1) /\ (c % Hop = 0 => t % Hop = 0) BY <1>1, <2>2, TargetsLie DEF K
  <2>4. B[i + 1] = CutAt(n, e, q, B[i], t) BY <2>2, CutsSteps DEF K, B
  <2>5. t = i * c + c /\ i * c \in Int /\ t \in Int BY <1>0, <2>1
  <2> HIDE DEF t
  <2>6. /\ at \in Nat /\ at < n /\ at <= t + q
        /\ t % Hop = 0 /\ q % Hop = 0 => at >= t - q
    BY <2>3, CandidateIs
  <2> HIDE DEF at
  <2>7. B[i + 1] = IF at > Last(B[i]) THEN Append(B[i], at) ELSE B[i]
    <3>1. CutAt(n, e, q, B[i], t) = IF at > Last(B[i]) THEN Append(B[i], at) ELSE B[i]
      <4>1. \A b : CutAt(n, e, q, b, t) = IF Candidate(n, e, q, t) > Last(b)
                                          THEN Append(b, Candidate(n, e, q, t)) ELSE b
        BY <2>3, CutAtIs
      <4> QED BY <4>1 DEF at
    <3> QED BY <2>4, <3>1
  <2>8. CASE at > Last(B[i])
    <3>1. B[i + 1] = Append(B[i], at) /\ B[i] \in Seq(Nat) BY <2>1, <2>7, <2>8 DEF CutsLie
    <3>2. Append(B[i], at) \in Seq(Nat) /\ Len(Append(B[i], at)) >= 1 /\ Last(Append(B[i], at)) = at
      BY <2>6, <3>1 DEF Last
    <3> QED BY <1>0, <2>3, <2>6, <3>1, <3>2 DEF CutsLie, t
  <2>9. CASE ~(at > Last(B[i]))
    <3>1. B[i + 1] = B[i] BY <2>7, <2>9
    <3>2. Last(B[i]) <= t + q /\ (c % Hop = 0 /\ q % Hop = 0 => Last(B[i]) >= t - q)
      BY <1>0, <2>1, <2>3, <2>5, <2>6, <2>9 DEF CutsLie
    <3> QED BY <2>1, <3>1, <3>2 DEF CutsLie, t
  <2> QED BY <2>8, <2>9
<1> HIDE DEF S
<1>4. S = Nat
  <2>1. S \in SUBSET Nat BY DEF S
  <2> QED BY <1>2, <1>3, <2>1, InductionOf
<1> QED BY <1>1, <1>4 DEF S

\* Targets around which nothing is found behind the last cut add none.
LEMMA CutsStay ==
    ASSUME NEW n, NEW e, NEW c, NEW q, Fits(n, e, c, q),
           NEW k \in 0..((n - 1) \div c), NEW m \in k..((n - 1) \div c),
           \A j \in (k + 1)..m : Candidate(n, e, q, j * c) <= Last(CutsByTarget(n, e, c, q)[k])
    PROVE  CutsByTarget(n, e, c, q)[m] = CutsByTarget(n, e, c, q)[k]
<1> DEFINE K == (n - 1) \div c
           B == CutsByTarget(n, e, c, q)
           S == {i \in Nat : k + i <= m => B[k + i] = B[k]}
<1>1. K \in Nat BY TargetsLie
<1> HIDE DEF K, B
<1>2. k \in Nat /\ m \in Nat /\ k <= m /\ m <= K BY <1>1 DEF K
<1>3. 0 \in S BY <1>2
<1>4. ASSUME NEW i \in S PROVE i + 1 \in S
  <2> SUFFICES ASSUME k + (i + 1) <= m PROVE B[k + (i + 1)] = B[k] BY <1>4
  <2> DEFINE j == k + (i + 1)
  <2>1. i \in Nat /\ B[k + i] = B[k] BY <1>2, <1>4
  <2>2. j \in 1..K /\ j \in (k + 1)..m /\ j - 1 = k + i BY <1>1, <1>2, <2>1
  <2> HIDE DEF j
  <2>3. j * c \in Hop..(n - 1) BY <2>2, TargetsLie DEF K
  <2>4. B[j] = CutAt(n, e, q, B[k], j * c) BY <2>1, <2>2, CutsSteps DEF K, B
  <2>5. Candidate(n, e, q, j * c) <= Last(B[k]) BY <2>2 DEF B
  <2>6. Candidate(n, e, q, j * c) \in Nat /\ Last(B[k]) \in Nat
    <3>1. Candidate(n, e, q, j * c) \in Nat BY <2>3, CandidateIs
    <3>2. CutsLie(n, c, q, k, B[k]) BY CutsForm DEF B
    <3> QED BY <3>1, <3>2 DEF CutsLie
  <2>7. B[j] = B[k] BY <2>3, <2>4, <2>5, <2>6, CutAtIs
  <2> QED BY <2>7 DEF j
<1> HIDE DEF S
<1>5. S = Nat
  <2>1. S \in SUBSET Nat BY DEF S
  <2> QED BY <1>3, <1>4, <2>1, InductionOf
<1>6. m - k \in S /\ k + (m - k) = m BY <1>2, <1>5
<1> QED BY <1>6 DEF S, B
----------------------------------------
(* One call of the planner. *)

\* From the target after the k-th, all the later ones are tried.
LEMMA TargetsAre ==
    ASSUME NEW n, NEW e, NEW c, NEW q, Fits(n, e, c, q), NEW k \in 0..((n - 1) \div c)
    PROVE  Targets(n, c, (k + 1) * c) = {m * c : m \in (k + 1)..((n - 1) \div c)}
<1>0. n \in Nat /\ n >= 2 /\ c \in Nat \ {0} BY Sizes DEF Fits
<1> DEFINE K == (n - 1) \div c
           t == (k + 1) * c
           J == (n - 1 - t) \div c
<1>1. K \in Nat /\ K * c \in Nat /\ K * c < n /\ n <= K * c + c BY TargetsLie
<1> HIDE DEF K
<1>2. k \in Nat /\ k <= K BY <1>1 DEF K
<1>3. J = K - (k + 1)
  <2>1. t \in Int /\ n - 1 - t \in Int BY <1>0, <1>2
  <2>2. (K - (k + 1)) * c = K * c - t /\ (K - (k + 1) + 1) * c = K * c - t + c BY <1>0, <1>1, <1>2
  <2> HIDE DEF t
  <2> DEFINE x == K - (k + 1)
             y == n - 1 - t
  <2>3. x \in Int /\ y \in Int /\ x * c <= y /\ y < (x + 1) * c BY <1>0, <1>1, <1>2, <2>1, <2>2
  <2> HIDE DEF x, y
  <2>4. x <= y \div c BY <1>0, <2>3, QuotientAbove
  <2>5. y \div c <= (x + 1) - 1 BY <1>0, <2>3, QuotientBelow
  <2>6. y \div c \in Int BY <1>0, <2>3, Divide
  <2> QED BY <2>3, <2>4, <2>5, <2>6 DEF x, y
<1> HIDE DEF J
<1>4. ASSUME NEW j \in 0..J
      PROVE  (k + 1) + j \in (k + 1)..K /\ t + j * c = ((k + 1) + j) * c
  BY <1>0, <1>1, <1>2, <1>3
<1>5. ASSUME NEW m \in (k + 1)..K
      PROVE  m - (k + 1) \in 0..J /\ m * c = t + (m - (k + 1)) * c
  BY <1>0, <1>1, <1>2, <1>3
<1>6. Targets(n, c, t) = {t + j * c : j \in 0..J} BY DEF Targets, J
<1> HIDE DEF t
<1>7. {t + j * c : j \in 0..J} = {m * c : m \in (k + 1)..K} BY <1>4, <1>5
<1> QED BY <1>6, <1>7 DEF t, K

LEMMA MaxOf ==
    ASSUME NEW T \in SUBSET Int, NEW m \in T, \A k \in T : k <= m
    PROVE  Max(T) = m
<1>1. \E x \in T : \A k \in T : x >= k OBVIOUS
<1>2. Max(T) \in T /\ \A k \in T : Max(T) >= k BY <1>1 DEF Max
<1>3. m \in Int /\ Max(T) \in Int BY <1>2
<1>4. Max(T) <= m BY <1>2
<1>5. Max(T) >= m BY <1>2
<1> QED BY <1>3, <1>4, <1>5

\* The planner cuts at the next cut of the older conversion, or at the end; and
\* within its bound, when targets and cuts lie on the same lattice.
CoreIsCut(n, e, c, q, hard, k, b, core) ==
    /\ core.end \in (Last(b) + 1)..n
    /\ \/ core.end = n /\ CutsByTarget(n, e, c, q)[(n - 1) \div c] = b
       \/ \E m \in (k + 1)..((n - 1) \div c) :
            /\ core.end < n /\ core.target = (m + 1) * c
            /\ CutsByTarget(n, e, c, q)[m] = Append(b, core.end)
    /\ c % Hop = 0 /\ q % Hop = 0 /\ c + 2 * q <= hard => ~core.fails
    /\ core.fails => core.end - Last(b) > hard
    /\ core.target \in Int

LEMMA NextCoreIs ==
    ASSUME NEW n, NEW e, NEW c, NEW q, Fits(n, e, c, q), NEW k \in 0..((n - 1) \div c), NEW hard \in Int,
           NEW b, b = CutsByTarget(n, e, c, q)[k],
           NEW core, core = NextCore(n, e, c, q, hard, Last(b), (k + 1) * c)
    PROVE  CoreIsCut(n, e, c, q, hard, k, b, core)
<1>0. n \in Nat /\ n >= 2 /\ c \in Nat \ {0} /\ q \in Nat /\ c >= Hop /\ Hop \in Nat \ {0} BY Sizes DEF Fits
<1> DEFINE K == (n - 1) \div c
           B == CutsByTarget(n, e, c, q)
           at(t) == Candidate(n, e, q, t)
           ts == Targets(n, c, (k + 1) * c)
           usable == {t \in ts : Usable(n, e, q, Last(b), t)}
           passed == IF usable = {} THEN ts ELSE {t \in ts : t <= Min(usable)}
           end == CoreEnd(n, e, q, Last(b), usable)
<1>1. /\ core.end = end /\ core.fails = ((Frames(n) = 0 /\ ts # {}) \/ end - Last(b) > hard)
      /\ core.target = IF passed = {} THEN (k + 1) * c ELSE Max(passed) + c
  BY DEF NextCore
<1>2. K \in Nat /\ K * c \in Nat /\ K * c < n /\ n <= K * c + c BY TargetsLie
<1>3. \A j \in 1..K : j * c \in Hop..(n - 1) BY TargetsLie
<1>4. c % Hop = 0 => \A j \in 0..K : (j * c) % Hop = 0 BY TargetsLie
<1>5. ts = {j * c : j \in (k + 1)..K} BY TargetsAre
<1>6. \A j \in 0..K : CutsLie(n, c, q, j, B[j]) BY CutsForm
<1>7. \A m \in k..K : (\A j \in (k + 1)..m : at(j * c) <= Last(b)) => B[m] = b BY CutsStay
<1>8. \A j \in 1..K : B[j] = IF at(j * c) > Last(B[j - 1]) THEN Append(B[j - 1], at(j * c)) ELSE B[j - 1]
  <2> TAKE j \in 1..K
  <2>1. B[j] = CutAt(n, e, q, B[j - 1], j * c) BY CutsSteps
  <2>2. \A x : CutAt(n, e, q, x, j * c) = IF at(j * c) > Last(x) THEN Append(x, at(j * c)) ELSE x
    <3> DEFINE t == j * c
    <3>1. t \in Hop..(n - 1) BY <1>3
    <3> HIDE DEF t
    <3>2. \A x : CutAt(n, e, q, x, t) = IF at(t) > Last(x) THEN Append(x, at(t)) ELSE x BY <3>1, CutAtIs
    <3> QED BY <3>2 DEF t
  <2> QED BY <2>1, <2>2
<1>9. \A j \in 1..K :
        /\ at(j * c) \in Nat /\ at(j * c) < n /\ at(j * c) <= j * c + q
        /\ c % Hop = 0 /\ q % Hop = 0 => at(j * c) >= j * c - q
        /\ \A p \in Nat : Usable(n, e, q, p, j * c) <=> at(j * c) > p
  BY <1>3, <1>4, CandidateIs
<1> HIDE DEF K, B
<1>10. k \in Nat /\ k <= K /\ b = B[k] /\ Last(b) \in Nat /\ Last(b) < n
  <2>1. k \in Nat /\ k <= K /\ b = B[k] BY <1>2 DEF K, B
  <2> QED BY <1>0, <1>2, <1>6, <2>1, SMTT(30) DEF CutsLie
<1>11. usable = {t \in ts : at(t) > Last(b)} BY <1>5, <1>9, <1>10
<1>12. \A j \in (k + 1)..K : j \in 1..K /\ j * c \in Nat BY <1>0, <1>2, <1>10
<1> HIDE DEF ts, at
<1>13. Frames(n) = 0 /\ ts # {} => FALSE
  <2> SUFFICES ASSUME Frames(n) = 0, ts # {} PROVE FALSE OBVIOUS
  <2>1. PICK j \in (k + 1)..K : j * c \in ts BY <1>5
  <2>2. j * c \in Hop..(n - 1) BY <1>3, <1>12, <2>1
  <2>3. 1 * Hop <= n BY <1>0, <2>2
  <2>4. 1 <= Frames(n) BY <1>0, <2>3, QuotientAbove DEF Frames
  <2> QED BY <2>4
<1>14. CASE usable = {}
  <2>1. \A j \in (k + 1)..K : at(j * c) <= Last(b)
    <3> TAKE j \in (k + 1)..K
    <3>1. ~(at(j * c) > Last(b)) BY <1>5, <1>11, <1>14
    <3>2. at(j * c) \in Nat BY <1>9, <1>12
    <3> QED BY <1>10, <3>1, <3>2
  <2>2. B[K] = b BY <1>2, <1>7, <1>10, <2>1
  <2>3. end = n BY <1>14 DEF CoreEnd
  <2>4. c % Hop = 0 /\ q % Hop = 0 => Last(b) >= K * c - q BY <1>2, <1>6, <2>2 DEF CutsLie
  <2>5. c % Hop = 0 /\ q % Hop = 0 /\ c + 2 * q <= hard => ~(end - Last(b) > hard)
    BY <1>0, <1>2, <1>10, <2>3, <2>4
  <2> HIDE DEF end
  <2>6. core.end \in (Last(b) + 1)..n /\ core.end = n BY <1>0, <1>1, <1>10, <2>3
  <2>7. c % Hop = 0 /\ q % Hop = 0 /\ c + 2 * q <= hard => ~core.fails BY <1>1, <1>13, <2>5
  <2>8. core.fails => core.end - Last(b) > hard BY <1>1, <1>13
  <2>9. core.target \in Int
    <3>1. passed = ts BY <1>14
    <3>2. CASE k < K
      <4>1. K * c \in ts BY <1>2, <1>5, <1>10, <3>2
      <4>2. \A j \in (k + 1)..K : j * c <= K * c
        <5> TAKE j \in (k + 1)..K
        <5>1. j \in Int /\ K \in Int /\ j <= K /\ c \in Nat \ {0} BY <1>0, <1>2, <1>10
        <5> QED BY <5>1, Multiples
      <4>3. \A t \in ts : t <= K * c BY <1>5, <4>2
      <4>4. ts \in SUBSET Int BY <1>5, <1>12
      <4>5. Max(ts) = K * c BY <4>1, <4>3, <4>4, MaxOf
      <4>6. core.target = K * c + c BY <1>1, <3>1, <4>1, <4>5
      <4> QED BY <1>0, <1>2, <4>6
    <3>3. CASE ~(k < K)
      <4>1. (k + 1)..K = {} BY <1>2, <1>10, <3>3
      <4>2. ts = {} BY <1>5, <4>1
      <4>3. core.target = (k + 1) * c BY <1>1, <3>1, <4>2
      <4> QED BY <1>0, <1>10, <4>3
    <3> QED BY <3>2, <3>3
  <2> QED BY <2>2, <2>6, <2>7, <2>8, <2>9 DEF K, B, CoreIsCut
<1>15. CASE usable # {}
  <2> DEFINE t == Min(usable)
  <2>1. t \in usable /\ \A u \in usable : t <= u
    <3>1. usable \in SUBSET Nat BY <1>5, <1>11, <1>12
    <3> HIDE DEF usable
    <3> QED BY <1>15, <3>1, MinOf
  <2> HIDE DEF t
  <2>2. PICK m \in (k + 1)..K : t = m * c BY <1>5, <2>1
  <2>3. m \in 1..K /\ at(t) > Last(b) BY <1>11, <1>12, <2>1, <2>2
  <2>4. end = at(t) BY <1>15 DEF CoreEnd, at, t
  <2>5. \A j \in (k + 1)..(m - 1) : at(j * c) <= Last(b)
    <3> TAKE j \in (k + 1)..(m - 1)
    <3>1. j \in (k + 1)..K /\ j \in Int /\ m \in Int /\ j <= m - 1 BY <1>2, <1>10, <2>2
    <3>2. j * c \in Nat /\ j * c <= (m - 1) * c /\ (m - 1) * c \in Int BY <1>0, <1>12, <3>1, Multiples
    <3>3. (m - 1) * c = m * c - c /\ m * c \in Int BY <1>0, <3>1
    <3>4. j * c < t BY <1>0, <2>2, <3>2, <3>3
    <3>5. j * c \notin usable BY <1>0, <2>1, <2>2, <3>2, <3>3, <3>4
    <3>6. ~(at(j * c) > Last(b)) BY <1>5, <1>11, <3>1, <3>5
    <3>7. at(j * c) \in Nat BY <1>9, <1>12, <3>1
    <3> QED BY <1>10, <3>6, <3>7
  <2>6. B[m - 1] = b
    <3>1. m - 1 \in k..K BY <1>2, <1>10, <2>2
    <3> QED BY <1>7, <2>5, <3>1
  <2>7. B[m] = Append(b, end) BY <1>8, <2>2, <2>3, <2>4, <2>6
  <2>8. end \in Nat /\ end < n /\ end <= m * c + q BY <1>9, <2>2, <2>3, <2>4
  <2>9. core.target = (m + 1) * c
    <3>1. t \in Nat /\ m \in Nat /\ t <= t BY <1>10, <1>12, <2>2
    <3>2. passed = {u \in ts : u <= t} BY <1>15 DEF t
    <3> HIDE DEF passed
    <3>3. t \in ts /\ ts \in SUBSET Int BY <1>5, <1>12, <2>1
    <3>4. t \in passed /\ passed \in SUBSET Int BY <3>1, <3>2, <3>3
    <3>5. \A u \in passed : u <= t BY <3>2
    <3>6. Max(passed) = t BY <3>4, <3>5, MaxOf
    <3>7. core.target = Max(passed) + c BY <1>1, <3>4 DEF passed
    <3>8. (m + 1) * c = m * c + c BY <1>0, <3>1
    <3> QED BY <2>2, <3>6, <3>7, <3>8
  <2>10. c % Hop = 0 /\ q % Hop = 0 => Last(b) >= (m - 1) * c - q
    <3>1. m - 1 \in 0..K BY <1>2, <1>10, <2>2
    <3> QED BY <1>6, <2>6, <3>1 DEF CutsLie
  <2>11. (m - 1) * c = m * c - c /\ m * c \in Int BY <1>0, <1>10, <2>2
  <2> HIDE DEF end, usable, passed
  <2>12. c % Hop = 0 /\ q % Hop = 0 /\ c + 2 * q <= hard => ~(end - Last(b) > hard)
    BY <1>0, <1>10, <2>8, <2>10, <2>11
  <2>13. end \in (Last(b) + 1)..n BY <1>0, <1>10, <2>3, <2>4, <2>8
  <2>14. core.end \in (Last(b) + 1)..n /\ core.end < n /\ B[m] = Append(b, core.end)
    BY <1>1, <2>7, <2>8, <2>13
  <2>15. c % Hop = 0 /\ q % Hop = 0 /\ c + 2 * q <= hard => ~core.fails BY <1>1, <1>13, <2>12
  <2>16. core.fails => core.end - Last(b) > hard BY <1>1, <1>13
  <2>17. core.target \in Int BY <1>0, <1>10, <2>2, <2>9
  <2> QED BY <2>2, <2>9, <2>14, <2>15, <2>16, <2>17 DEF K, B, CoreIsCut
<1> QED BY <1>14, <1>15
----------------------------------------
(* Loops: what Iterated computes. *)

\* Two runs of a loop that go on alike are the same.
Agree(f, g, n) == f[0] = g[0] /\ \A k \in 0..(n - 1) : f[k] = g[k] => f[k + 1] = g[k + 1]
LEMMA SameTurns == ASSUME NEW n \in Nat, NEW f, NEW g, Agree(f, g, n) PROVE \A k \in 0..n : f[k] = g[k]
<1> DEFINE S == {k \in Nat : k <= n => f[k] = g[k]}
<1>0. f[0] = g[0] /\ \A k \in 0..(n - 1) : f[k] = g[k] => f[k + 1] = g[k + 1] BY DEF Agree
<1>1. S = Nat
  <2>1. S \in SUBSET Nat /\ 0 \in S BY <1>0
  <2>2. ASSUME NEW k \in S PROVE k + 1 \in S
    <3>1. k \in Nat /\ (k + 1 <= n => k <= n /\ k \in 0..(n - 1)) OBVIOUS
    <3> QED BY <1>0, <3>1
  <2> HIDE DEF S
  <2> QED BY <2>1, <2>2, InductionOf
<1>2. \A k \in 0..n : k \in S BY <1>1
<1> QED BY <1>2

\* The states of a loop of n turns G, all of them in V.
Runs(f, n, V, start, G) ==
    f \in [0..n -> V] /\ f[0] = start /\ \A k \in 0..(n - 1) : f[k + 1] = G[<<f[k], k + 1>>]

\* A loop whose turn stays in a set has a state after each of its turns.
LEMMA LoopOf ==
    ASSUME NEW n \in Nat, NEW V, NEW start \in V, NEW G \in [V \X (1..n) -> V]
    PROVE  \E f : Runs(f, n, V, start, G)
<1> DEFINE Solves(f, m) == f \in [0..m -> V] /\ f[0] = start /\ \A k \in 0..(m - 1) : f[k + 1] = G[<<f[k], k + 1>>]
           S == {m \in Nat : m <= n => \E f : Solves(f, m)}
<1>1. S = Nat
  <2>1. 0 \in S
    <3>1. Solves([k \in 0..0 |-> start], 0) OBVIOUS
    <3> HIDE DEF Solves
    <3> QED BY <3>1
  <2>2. ASSUME NEW m \in S, m + 1 <= n PROVE \E f : Solves(f, m + 1)
    <3>0. m \in Nat /\ m <= n /\ m + 1 \in 1..n BY <2>2
    <3>1. PICK f : Solves(f, m) BY <3>0
    <3> DEFINE h == [k \in 0..(m + 1) |-> IF k <= m THEN f[k] ELSE G[<<f[m], m + 1>>]]
    <3>2. f \in [0..m -> V] /\ f[0] = start /\ \A k \in 0..(m - 1) : f[k + 1] = G[<<f[k], k + 1>>] BY <3>1
    <3> HIDE DEF S, Solves
    <3>3. \A k \in 0..m : f[k] \in V /\ h[k] = f[k] BY <3>0, <3>2
    <3>4. h[m + 1] = G[<<f[m], m + 1>>] /\ h[m + 1] \in V
      <4>1. m \in 0..m /\ m + 1 \in 0..(m + 1) /\ ~(m + 1 <= m) BY <3>0
      <4>2. h[m + 1] = G[<<f[m], m + 1>>] BY <4>1
      <4> HIDE DEF h
      <4>3. \A v \in V, k \in 1..n : G[<<v, k>>] \in V OBVIOUS
      <4>4. f[m] \in V BY <3>3, <4>1
      <4>5. G[<<f[m], m + 1>>] \in V BY <3>0, <4>3, <4>4
      <4> QED BY <4>2, <4>5
    <3>5. h \in [0..(m + 1) -> V]
      <4>1. \A k \in 0..(m + 1) : h[k] \in V
        <5>1. \A k \in 0..(m + 1) : k \in 0..m \/ k = m + 1 BY <3>0
        <5> HIDE DEF h
        <5> QED BY <3>3, <3>4, <5>1
      <4>2. h = [k \in 0..(m + 1) |-> h[k]] OBVIOUS
      <4> HIDE DEF h
      <4> QED BY <4>1, <4>2
    <3>6. ASSUME NEW k \in 0..m PROVE h[k + 1] = G[<<h[k], k + 1>>]
      <4>1. CASE k = m BY <3>0, <3>3, <3>4, <4>1
      <4>2. CASE k # m BY <3>0, <4>2, <3>2, <3>3
      <4> QED BY <4>1, <4>2
    <3>7. h[0] = start BY <3>0, <3>2, <3>3
    <3> HIDE DEF h
    <3>8. Solves(h, m + 1) BY <3>0, <3>5, <3>6, <3>7 DEF Solves
    <3> QED BY <3>8
  <2>3. S \in SUBSET Nat /\ \A m \in S : m + 1 \in S BY <2>2
  <2> HIDE DEF S
  <2> QED BY <2>1, <2>3, InductionOf
<1>2. n \in S BY <1>1
<1>3. PICK f : Solves(f, n) BY <1>2
<1>4. Runs(f, n, V, start, G) BY <1>3 DEF Runs
<1> QED BY <1>4
----------------------------------------
(* Sequences. *)

LEMMA SeqIs ==
    ASSUME NEW V, NEW n \in Nat, NEW s \in [1..n -> V]
    PROVE  s \in Seq(V) /\ Len(s) = n /\ DOMAIN s = 1..n
  OBVIOUS

\* A part of a spool.
LEMMA ReadIs ==
    ASSUME NEW V, NEW s \in Seq(V), NEW first \in Nat, NEW count \in Nat, first + count <= Len(s)
    PROVE  /\ Read(s, first, count) \in Seq(V) /\ Len(Read(s, first, count)) = count
           /\ \A i \in 1..count : Read(s, first, count)[i] = s[first + i]
<1>1. Len(s) \in Nat /\ \A i \in 1..Len(s) : s[i] \in V BY LenProperties, ElementOfSeq
<1>2. \A i \in (first + 1)..(first + count) : s[i] \in V BY <1>1
<1>3. /\ SubSeq(s, first + 1, first + count) \in Seq(V)
      /\ Len(SubSeq(s, first + 1, first + count)) = IF first + 1 <= first + count THEN first + count - (first + 1) + 1 ELSE 0
      /\ \A i \in 1..(first + count - (first + 1) + 1) : SubSeq(s, first + 1, first + count)[i] = s[first + 1 + i - 1]
  BY <1>2, SubSeqProperties
<1>4. \A i \in 1..count : first + 1 + i - 1 = first + i OBVIOUS
<1> QED BY <1>3, <1>4 DEF Read

LEMMA ReadsJoin ==
    ASSUME NEW V, NEW s \in Seq(V), NEW a \in Nat, NEW b \in Nat, a + b <= Len(s)
    PROVE  Read(s, 0, a) \o Read(s, a, b) = Read(s, 0, a + b)
<1>1. Len(s) \in Nat BY LenProperties
<1>2. 1 \in 1..Len(s) + 1 /\ a \in (1 - 1)..Len(s) /\ a + b \in a..Len(s) BY <1>1
<1>3. SubSeq(s, 1, a) \o SubSeq(s, a + 1, a + b) = SubSeq(s, 1, a + b) BY <1>2, ConcatAdjacentSubSeq
<1> QED BY <1>3 DEF Read

LEMMA ReverseIs ==
    ASSUME NEW V, NEW s \in Seq(V)
    PROVE  /\ Reverse(s) \in Seq(V) /\ Len(Reverse(s)) = Len(s)
           /\ \A i \in 1..Len(s) : Reverse(s)[i] = s[Len(s) - i + 1]
<1>1. Len(s) \in Nat /\ \A i \in 1..Len(s) : s[i] \in V BY LenProperties, ElementOfSeq
<1>2. Reverse(s) \in [1..Len(s) -> V]
  <2>1. \A i \in 1..Len(s) : s[(Len(s) - i) + 1] \in V BY <1>1
  <2> QED BY <2>1 DEF Reverse
<1>3. Reverse(s) \in Seq(V) /\ Len(Reverse(s)) = Len(s) BY <1>1, <1>2, SeqIs
<1>4. \A i \in 1..Len(s) : Reverse(s)[i] = s[Len(s) - i + 1] BY DEF Reverse
<1> QED BY <1>3, <1>4
----------------------------------------
(* Blocks. *)

LEMMA StreamSizes == Block \in Nat \ {0} /\ HpPad \in Nat \ {0} /\ HpMin \in Nat /\ HpMin > HpPad + 1
  BY StreamAssumption

\* Where the k-th block of n samples ends.
Edge(n, k) == IF k * Block <= n THEN k * Block ELSE n

LEMMA BlocksAre ==
    ASSUME NEW n \in Nat
    PROVE  /\ Len(Blocks(n)) \in Nat /\ DOMAIN Blocks(n) = 1..Len(Blocks(n))
           /\ Edge(n, 0) = 0 /\ Edge(n, Len(Blocks(n))) = n
           /\ \A k \in 0..Len(Blocks(n)) : Edge(n, k) \in 0..n
           /\ \A k \in 1..Len(Blocks(n)) :
                /\ Blocks(n)[k].offset = Edge(n, k - 1) /\ Blocks(n)[k].offset \in Nat
                /\ Blocks(n)[k].count \in Nat \ {0}
                /\ Blocks(n)[k].offset + Blocks(n)[k].count = Edge(n, k)
<1> DEFINE K == (n + Block - 1) \div Block
<1>0. Block \in Nat \ {0} BY StreamSizes
<1>1. K \in Int /\ K * Block \in Int /\ n <= K * Block /\ K * Block <= n + Block - 1 /\ K >= 0
  <2>1. n + Block - 1 \in Int /\ 0 * Block <= n + Block - 1 BY <1>0
  <2> DEFINE a == n + Block - 1
  <2>2. a \in Int BY <2>1
  <2>3. a \div Block \in Int /\ a % Block \in 0..(Block - 1) /\ a = (a \div Block) * Block + (a % Block)
    BY <1>0, <2>2, Divide
  <2>4. 0 <= a \div Block
    <3>1. 0 * Block <= a BY <2>1
    <3> QED BY <1>0, <2>2, <3>1, QuotientAbove
  <2> HIDE DEF a
  <2>5. K = a \div Block BY DEF a
  <2> HIDE DEF K
  <2>6. K * Block \in Int /\ a = K * Block + (a % Block) BY <1>0, <2>3, <2>5
  <2> QED BY <1>0, <2>2, <2>3, <2>4, <2>5, <2>6 DEF a
<1> HIDE DEF K
<1>2. Len(Blocks(n)) = K /\ DOMAIN Blocks(n) = 1..K BY <1>1 DEF Blocks, K
<1>3. ASSUME NEW k \in 1..K
      PROVE  /\ (k - 1) * Block \in Nat /\ (k - 1) * Block < n /\ k * Block = (k - 1) * Block + Block
             /\ k * Block \in Nat
  <2>1. (k - 1) * Block <= (K - 1) * Block /\ (k - 1) * Block \in Int BY <1>0, <1>1, Multiples
  <2>2. (K - 1) * Block = K * Block - Block BY <1>0, <1>1
  <2>3. 0 * Block <= (k - 1) * Block BY <1>0, <1>1, Multiples
  <2>4. k * Block = (k - 1) * Block + Block BY <1>0, <1>1
  <2> QED BY <1>0, <1>1, <2>1, <2>2, <2>3, <2>4
<1>4. ASSUME NEW k \in 1..K
      PROVE  /\ Blocks(n)[k].offset = Edge(n, k - 1) /\ Blocks(n)[k].offset \in Nat
             /\ Blocks(n)[k].count \in Nat \ {0}
             /\ Blocks(n)[k].offset + Blocks(n)[k].count = Edge(n, k) /\ Edge(n, k) \in 0..n
  <2> DEFINE o == (k - 1) * Block
  <2>1. o \in Nat /\ o < n /\ k * Block = o + Block /\ k * Block \in Nat BY <1>3
  <2>2. Blocks(n)[k] = [offset |-> o, count |-> Min({Block, n - o})] BY <1>2 DEF Blocks, K
  <2>3. Edge(n, k - 1) = o BY <2>1 DEF Edge
  <2> HIDE DEF o
  <2>4. Min({Block, n - o}) = IF Block <= n - o THEN Block ELSE n - o BY <1>0, <2>1, MinOfTwo
  <2> QED BY <1>0, <2>1, <2>2, <2>3, <2>4 DEF Edge
<1>5. Edge(n, 0) = 0 /\ Edge(n, K) = n BY <1>0, <1>1 DEF Edge
<1>6. \A k \in 0..K : Edge(n, k) \in 0..n
  <2> TAKE k \in 0..K
  <2>1. CASE k = 0 BY <1>5, <2>1
  <2>2. CASE k # 0 BY <1>4, <1>1, <2>2
  <2> QED BY <2>1, <2>2
<1> QED BY <1>1, <1>2, <1>4, <1>5, <1>6

\* Pieces that match a whole block by block give the whole.
LEMMA StreamedIs ==
    ASSUME NEW V, NEW W \in Seq(V), NEW n, n = Len(W), NEW piece,
           \A k \in 1..Len(Blocks(n)) : piece[Blocks(n)[k]] = Read(W, Blocks(n)[k].offset, Blocks(n)[k].count)
    PROVE  Streamed(n, piece) = W
<1> DEFINE K == Len(Blocks(n))
           f == [k \in 0..K |-> Read(W, 0, Edge(n, k))]
           Eq(g) == g = [k \in 0..K |-> IF k = 0 THEN <<>> ELSE g[k - 1] \o piece[Blocks(n)[k]]]
           c == CHOOSE g : Eq(g)
<1>0. n \in Nat BY LenProperties
<1>1. K \in Nat /\ Edge(n, 0) = 0 /\ Edge(n, K) = n /\ \A k \in 0..K : Edge(n, k) \in 0..n BY <1>0, BlocksAre
<1>8. \A k \in 1..K :
        /\ Blocks(n)[k].offset = Edge(n, k - 1) /\ Blocks(n)[k].offset \in Nat /\ Blocks(n)[k].count \in Nat
        /\ Blocks(n)[k].offset + Blocks(n)[k].count = Edge(n, k)
  <2>1. \A k \in 1..Len(Blocks(n)) :
          /\ Blocks(n)[k].offset = Edge(n, k - 1) /\ Blocks(n)[k].offset \in Nat
          /\ Blocks(n)[k].count \in Nat \ {0}
          /\ Blocks(n)[k].offset + Blocks(n)[k].count = Edge(n, k)
    BY <1>0, BlocksAre
  <2> HIDE DEF Eq, c, f
  <2> QED BY <2>1
<1>2. ASSUME NEW k \in 1..K PROVE f[k] = f[k - 1] \o piece[Blocks(n)[k]]
  <2> DEFINE b == Blocks(n)[k]
  <2>1. b.offset = Edge(n, k - 1) /\ b.offset \in Nat /\ b.count \in Nat /\ b.offset + b.count = Edge(n, k)
    BY <1>8
  <2>2. f[k] = Read(W, 0, Edge(n, k)) /\ f[k - 1] = Read(W, 0, Edge(n, k - 1)) BY <1>1
  <2>3. Edge(n, k) \in 0..n BY <1>1
  <2>4. piece[b] = Read(W, b.offset, b.count) OBVIOUS
  <2> HIDE DEF b, f
  <2>5. Read(W, 0, b.offset) \o Read(W, b.offset, b.count) = Read(W, 0, b.offset + b.count)
    <3>1. b.offset + b.count <= Len(W) BY <1>0, <2>1, <2>3
    <3> QED BY <2>1, <3>1, ReadsJoin
  <2> QED BY <2>1, <2>2, <2>4, <2>5 DEF b
<1>3. f[0] = <<>> /\ f[K] = W
  <2>1. f[0] = SubSeq(W, 1, 0) /\ f[K] = SubSeq(W, 1, n) BY <1>0, <1>1 DEF Read
  <2> HIDE DEF f
  <2> QED BY <2>1, SubSeqFull, SubSeqEmpty
<1>4. \E g : Eq(g)
  <2>1. f = [k \in 0..K |-> f[k]] OBVIOUS
  <2> HIDE DEF f
  <2>2. \A k \in 0..K : f[k] = IF k = 0 THEN <<>> ELSE f[k - 1] \o piece[Blocks(n)[k]]
    <3>1. \A k \in 0..K : k = 0 \/ k \in 1..K BY <1>1
    <3> HIDE DEF K
    <3> QED BY <1>2, <1>3, <3>1
  <2>3. Eq(f) BY <2>1, <2>2, SMTT(30)
  <2> QED BY <2>3
<1> HIDE DEF f
<1>5. Eq(c) BY <1>4
<1> HIDE DEF c
<1>6. \A k \in 0..K : f[k] = c[k]
  <2>1. c[0] = <<>> BY <1>1, <1>5
  <2>2. \A k \in 0..(K - 1) : c[k + 1] = c[k] \o piece[Blocks(n)[k + 1]]
    <3>1. \A k \in 0..(K - 1) : k + 1 \in 0..K /\ k + 1 # 0 /\ (k + 1) - 1 = k BY <1>1
    <3> HIDE DEF K
    <3> QED BY <1>5, <3>1
  <2>3. \A k \in 0..(K - 1) : f[k + 1] = f[k] \o piece[Blocks(n)[k + 1]]
    <3>1. \A k \in 0..(K - 1) : k + 1 \in 1..K /\ (k + 1) - 1 = k BY <1>1
    <3> HIDE DEF K
    <3> QED BY <1>2, <3>1
  <2> HIDE DEF K, Eq
  <2>4. \A k \in 0..(K - 1) : f[k] = c[k] => f[k + 1] = c[k + 1] BY <2>2, <2>3
  <2>5. f[0] = c[0] /\ K \in Nat BY <1>1, <1>3, <2>1
  <2>6. Agree(f, c, K) BY <2>4, <2>5 DEF Agree
  <2> QED BY <2>5, <2>6, SameTurns
<1>7. Streamed(n, piece) = c[K] BY DEF Streamed, Iterated, c
<1> QED BY <1>1, <1>3, <1>6, <1>7
----------------------------------------
(* Resampling through the cache. *)

\* The cache holds what the input has at its place.
CacheFits(x, c) ==
    /\ c.first \in Nat /\ c.data \in Seq(Int) /\ c.first + Len(c.data) <= Len(x)
    /\ \A i \in 1..Len(c.data) : c.data[i] = x[c.first + i]
Caches(x) == {c \in [first : Nat, data : Seq(Int)] : CacheFits(x, c)}

LEMMA CachedIs ==
    ASSUME NEW x \in Seq(Int), NEW c \in Caches(x), NEW index \in 0..(Len(x) - 1)
    PROVE  /\ Cached(x, c, index) \in Caches(x)
           /\ FromCache(Cached(x, c, index), index) = x[index + 1]
<1>0. /\ c.first \in Nat /\ c.data \in Seq(Int) /\ Len(c.data) \in Nat /\ CacheFits(x, c)
      /\ Len(x) \in Nat /\ index \in Nat /\ index < Len(x)
  BY LenProperties DEF Caches, CacheFits
<1>1. CASE index >= c.first /\ index < c.first + Len(c.data)
  <2>1. Cached(x, c, index) = c BY <1>1 DEF Cached
  <2> DEFINE j == index - c.first + 1
  <2>2. j \in 1..Len(c.data) /\ c.first + j = index + 1 BY <1>0, <1>1, SMTT(30)
  <2> HIDE DEF j
  <2>3. c.data[j] = x[index + 1] BY <1>0, <2>2 DEF CacheFits
  <2>4. DOMAIN c.data = 1..Len(c.data) BY <1>0, LenProperties
  <2> QED BY <2>1, <2>2, <2>3, <2>4 DEF FromCache, j
<1>2. CASE ~(index >= c.first /\ index < c.first + Len(c.data))
  <2> DEFINE m == Min({Block, Len(x) - index})
             d == Read(x, index, m)
             r == [first |-> index, data |-> d]
  <2>1. m \in Nat /\ m >= 1 /\ index + m <= Len(x)
    <3>1. Block \in Nat \ {0} /\ Len(x) - index \in Nat \ {0} BY <1>0, StreamSizes
    <3>2. m = IF Block <= Len(x) - index THEN Block ELSE Len(x) - index BY <3>1, MinOfTwo
    <3> HIDE DEF m
    <3> QED BY <1>0, <3>1, <3>2
  <2>2. Cached(x, c, index) = r BY <1>2 DEF Cached
  <2> HIDE DEF m
  <2>3. d \in Seq(Int) /\ Len(d) = m /\ \A i \in 1..m : d[i] = x[index + i]
    <3>1. index \in Nat /\ m \in Nat /\ index + m <= Len(x) BY <1>0, <2>1
    <3> QED BY <3>1, ReadIs
  <2> HIDE DEF d
  <2>4. r \in Caches(x) BY <1>0, <2>1, <2>3 DEF Caches, CacheFits
  <2>5. DOMAIN d = 1..m BY <2>3, LenProperties
  <2>6. FromCache(r, index) = x[index + 1]
    <3>1. r.first = index /\ r.data = d /\ index - index + 1 = 1 /\ 1 \in DOMAIN d /\ 1 \in 1..m
      BY <1>0, <2>1, <2>5
    <3> HIDE DEF r
    <3> QED BY <1>0, <2>3, <3>1 DEF FromCache
  <2> QED BY <2>2, <2>4, <2>6
<1> QED BY <1>1, <1>2

\* The two samples lie in the input.
LEMMA TapIs ==
    ASSUME NEW i \in Nat, NEW src \in Nat \ {0}, NEW dst \in Nat \ {0}, NEW n \in Nat \ {0}
    PROVE  Tap(i, src, dst, n).first \in 0..(n - 1) /\ Tap(i, src, dst, n).second \in 0..(n - 1)
<1> DEFINE a == i * src
           index == Min({a \div dst, n - 1})
           next == Min({index + 1, n - 1})
<1>1. a \in Int /\ 0 * dst <= a OBVIOUS
<1> HIDE DEF a
<1>2. a \div dst \in Int /\ 0 <= a \div dst BY <1>1, Divide, QuotientAbove
<1>3. index \in 0..(n - 1) BY <1>2, MinOfTwo
<1> HIDE DEF index
<1>4. next \in 0..(n - 1) BY <1>3, MinOfTwo
<1>5. Tap(i, src, dst, n).first = index /\ Tap(i, src, dst, n).second = next BY DEF Tap, index, a
<1> QED BY <1>3, <1>4, <1>5

LEMMA CacheAfterIs ==
    ASSUME NEW x \in Seq(Int), x # <<>>, NEW src \in Nat \ {0}, NEW dst \in Nat \ {0}, NEW m \in Nat
    PROVE  CacheAfter(x, src, dst, m) \in Caches(x)
<1> DEFINE T(c, k) == Cached(x, Cached(x, c, Tap(k - 1, src, dst, Len(x)).first), Tap(k - 1, src, dst, Len(x)).second)
           start == [first |-> 0, data |-> <<>>]
           G == [p \in Caches(x) \X (1..m) |-> T(p[1], p[2])]
           Eq(g) == g = [k \in 0..m |-> IF k = 0 THEN start ELSE T(g[k - 1], k)]
           c == CHOOSE g : Eq(g)
<1>0. Len(x) \in Nat \ {0} BY EmptySeq
<1>1. start \in Caches(x)
  <2>1. <<>> \in Seq(Int) /\ Len(<<>>) = 0 BY EmptySeq
  <2>2. start.first = 0 /\ start.data = <<>> /\ start \in [first : Nat, data : Seq(Int)] BY <2>1
  <2> HIDE DEF start
  <2> QED BY <1>0, <2>1, <2>2 DEF Caches, CacheFits
<1>2. \A v \in Caches(x), k \in 1..m : T(v, k) \in Caches(x)
  <2> TAKE v \in Caches(x), k \in 1..m
  <2>1. k - 1 \in Nat OBVIOUS
  <2>2. /\ Tap(k - 1, src, dst, Len(x)).first \in 0..(Len(x) - 1)
        /\ Tap(k - 1, src, dst, Len(x)).second \in 0..(Len(x) - 1)
    BY <1>0, <2>1, TapIs
  <2> QED BY <2>2, CachedIs
<1> HIDE DEF T, start
<1>3. G \in [Caches(x) \X (1..m) -> Caches(x)] BY <1>2
<1>4. PICK f : f \in [0..m -> Caches(x)] /\ f[0] = start /\ \A k \in 0..(m - 1) : f[k + 1] = G[<<f[k], k + 1>>]
  <2> HIDE DEF G, Eq, c
  <2>1. PICK f : Runs(f, m, Caches(x), start, G) BY <1>1, <1>3, LoopOf
  <2> QED BY <2>1 DEF Runs
<1>5. \A k \in 0..(m - 1) : f[k + 1] = T(f[k], k + 1)
  <2> TAKE k \in 0..(m - 1)
  <2>1. k + 1 \in 1..m /\ f[k] \in Caches(x) BY <1>4
  <2> QED BY <1>4, <2>1
<1> HIDE DEF G
<1>6. Eq(f)
  <2>1. f = [k \in 0..m |-> f[k]] BY <1>4
  <2>2. \A k \in 0..m : f[k] = IF k = 0 THEN start ELSE T(f[k - 1], k)
    <3>1. \A k \in 0..m : k = 0 \/ (k - 1 \in 0..(m - 1) /\ (k - 1) + 1 = k) OBVIOUS
    <3> QED BY <1>4, <1>5, <3>1
  <2> QED BY <2>1, <2>2
<1>7. Eq(c) BY <1>6
<1> HIDE DEF c
<1>8. \A k \in 0..m : c[k] = f[k]
  <2>1. c[0] = start BY <1>7
  <2>2. \A k \in 0..(m - 1) : c[k + 1] = T(c[k], k + 1)
    <3>1. \A k \in 0..(m - 1) : k + 1 \in 0..m /\ k + 1 # 0 /\ (k + 1) - 1 = k OBVIOUS
    <3> QED BY <1>7, <3>1
  <2>3. \A k \in 0..(m - 1) : c[k] = f[k] => c[k + 1] = f[k + 1] BY <1>5, <2>2
  <2>4. c[0] = f[0] BY <1>4, <2>1
  <2> HIDE DEF Eq, T
  <2>5. Agree(c, f, m) BY <2>3, <2>4 DEF Agree
  <2> QED BY <2>5, SameTurns
<1>9. CacheAfter(x, src, dst, m) = c[m] BY DEF CacheAfter, Iterated, c, T, start
<1> HIDE DEF Eq
<1>10. m \in 0..m OBVIOUS
<1>11. f[m] \in Caches(x) BY <1>4, <1>10
<1> QED BY <1>8, <1>9, <1>10, <1>11

LEMMA ResampleIsWhole ==
    ASSUME NEW x \in Seq(Int), NEW src \in Nat \ {0}, NEW dst \in Nat \ {0}
    PROVE  StableSnapshot(x, src, dst) = ResampleLinear(x, src, dst)
<1> DEFINE N == (Len(x) * dst) \div src
<1>0. Len(x) \in Nat /\ Len(x) * dst \in Int BY LenProperties
<1>1. N \in Int /\ (x = <<>> => N <= 0)
  <2>1. N \in Int BY <1>0, Divide
  <2>2. x = <<>> => Len(x) * dst < 1 * src BY <1>0
  <2>3. x = <<>> => N <= 1 - 1 BY <1>0, <2>2, QuotientBelow
  <2> QED BY <2>1, <2>3
<1>2. ASSUME NEW i \in 1..N
      PROVE  LET t == Tap(i - 1, src, dst, Len(x))
                 c1 == Cached(x, CacheAfter(x, src, dst, i - 1), t.first)
                 c2 == Cached(x, c1, t.second)
             IN FromCache(c1, t.first) = x[t.first + 1] /\ FromCache(c2, t.second) = x[t.second + 1]
  <2> DEFINE t == Tap(i - 1, src, dst, Len(x))
             c0 == CacheAfter(x, src, dst, i - 1)
             c1 == Cached(x, c0, t.first)
  <2>1. x # <<>> /\ Len(x) \in Nat \ {0} /\ i - 1 \in Nat BY <1>0, <1>1, EmptySeq
  <2>2. c0 \in Caches(x) BY <2>1, CacheAfterIs
  <2>3. t.first \in 0..(Len(x) - 1) /\ t.second \in 0..(Len(x) - 1) BY <2>1, TapIs
  <2> HIDE DEF t, c0
  <2>4. c1 \in Caches(x) /\ FromCache(c1, t.first) = x[t.first + 1] BY <2>2, <2>3, CachedIs
  <2> HIDE DEF c1
  <2>5. FromCache(Cached(x, c1, t.second), t.second) = x[t.second + 1] BY <2>3, <2>4, CachedIs
  <2> QED BY <2>4, <2>5 DEF c1, c0, t
<1> HIDE DEF N
<1>3. StableSnapshot(x, src, dst) = [i \in 1..N |->
        LET t == Tap(i - 1, src, dst, Len(x)) IN x[t.first + 1] * (dst - t.fraction) + x[t.second + 1] * t.fraction]
  BY <1>2 DEF StableSnapshot, N
<1> QED BY <1>3 DEF ResampleLinear, N
----------------------------------------
(* The recursive filter. *)

LEMMA FilteredIs == ASSUME NEW y \in Int, NEW v \in Int PROVE Filtered(y, v) \in Int
<1>1. v + 3 * y \in Int OBVIOUS
<1> DEFINE a == v + 3 * y
<1> HIDE DEF a
<1>2. a % 97 \in Int BY <1>1 DEF a
<1> QED BY <1>2 DEF Filtered, Modulus, a

\* What came before the k-th output: an output, or the state that it starts from.
Carried(state, out, k) == IF k = 1 THEN state ELSE out[k - 1]
IsFiltered(state, input, out) ==
    /\ out \in Seq(Int) /\ Len(out) = Len(input)
    /\ \A k \in 1..Len(input) : out[k] = Filtered(Carried(state, out, k), input[k])

LEMMA FilterIs ==
    ASSUME NEW input \in Seq(Int), NEW state \in Int
    PROVE  IsFiltered(state, input, FilterFrom(state, input))
<1> DEFINE n == Len(input)
           T(y, i) == Filtered(y, input[i])
           G == [p \in Int \X (1..n) |-> T(p[1], p[2])]
           Eq(g, m) == g = [k \in 0..m |-> IF k = 0 THEN state ELSE T(g[k - 1], k)]
           F == FilterFrom(state, input)
<1>0. n \in Nat /\ DOMAIN input = 1..n /\ \A i \in 1..n : input[i] \in Int BY LenProperties, ElementOfSeq
<1> HIDE DEF n
<1>1. \A v \in Int, k \in 1..n : T(v, k) \in Int BY <1>0, FilteredIs
<1>2. G \in [Int \X (1..n) -> Int] BY <1>1
<1> HIDE DEF T
<1>3. PICK f : f \in [0..n -> Int] /\ f[0] = state /\ \A k \in 0..(n - 1) : f[k + 1] = G[<<f[k], k + 1>>]
  <2> HIDE DEF G, Eq
  <2>1. PICK f : Runs(f, n, Int, state, G) BY <1>0, <1>2, LoopOf
  <2> QED BY <2>1 DEF Runs
<1>4. \A k \in 0..(n - 1) : f[k + 1] = T(f[k], k + 1)
  <2> TAKE k \in 0..(n - 1)
  <2>1. k + 1 \in 1..n /\ f[k] \in Int BY <1>0, <1>3
  <2> QED BY <1>3, <2>1
<1> HIDE DEF G
<1>5. ASSUME NEW m \in 1..n PROVE F[m] = f[m]
  <2> DEFINE c == CHOOSE g : Eq(g, m)
             h == [k \in 0..m |-> f[k]]
  <2>0. m \in Nat /\ m \in 0..m /\ \A k \in 0..(m - 1) : k \in 0..(n - 1) /\ k \in 0..m /\ k + 1 \in 0..m
    BY <1>0
  <2>1. h[0] = state /\ \A k \in 0..(m - 1) : h[k + 1] = T(h[k], k + 1) BY <1>3, <1>4, <2>0
  <2>2. Eq(h, m)
    <3>1. \A k \in 0..m : k = 0 \/ (k - 1 \in 0..(m - 1) /\ (k - 1) + 1 = k) BY <2>0
    <3>2. h = [k \in 0..m |-> h[k]] OBVIOUS
    <3> HIDE DEF h
    <3>3. \A k \in 0..m : h[k] = IF k = 0 THEN state ELSE T(h[k - 1], k) BY <2>1, <3>1
    <3> QED BY <3>2, <3>3
  <2>3. Eq(c, m) BY <2>2
  <2>4. c[m] = h[m]
    <3> HIDE DEF c, h
    <3>1. c[0] = state BY <2>0, <2>3
    <3>2. \A k \in 0..(m - 1) : c[k + 1] = T(c[k], k + 1)
      <4>1. \A k \in 0..(m - 1) : k + 1 \in 0..m /\ k + 1 # 0 /\ (k + 1) - 1 = k BY <2>0
      <4> QED BY <2>3, <4>1
    <3> HIDE DEF Eq
    <3>3. Agree(c, h, m) BY <2>1, <3>1, <3>2 DEF Agree
    <3>4. \A k \in 0..m : c[k] = h[k] BY <2>0, <3>3, SameTurns
    <3> QED BY <2>0, <3>4
  <2>5. F[m] = c[m]
    <3> HIDE DEF h
    <3> QED BY <1>0 DEF FilterFrom, Iterated, c, T
  <2> QED BY <2>0, <2>4, <2>5
<1>6. F \in Seq(Int) /\ Len(F) = n
  <2>1. \A m \in 1..n : F[m] \in Int
    <3>1. \A m \in 1..n : m \in 0..n OBVIOUS
    <3> HIDE DEF F
    <3> QED BY <1>3, <1>5, <3>1
  <2>2. F = [m \in 1..n |-> F[m]] BY <1>0 DEF FilterFrom
  <2> HIDE DEF F
  <2>3. F \in [1..n -> Int] BY <2>1, <2>2
  <2> QED BY <1>0, <2>3, SeqIs
<1>7. ASSUME NEW k \in 1..n PROVE F[k] = Filtered(Carried(state, F, k), input[k])
  <2> HIDE DEF F, Eq
  <2>1. k - 1 \in 0..(n - 1) /\ (k - 1) + 1 = k BY <1>0
  <2>2. f[k] = Filtered(f[k - 1], input[k]) BY <1>4, <2>1 DEF T
  <2>3. Carried(state, F, k) = f[k - 1]
    <3>1. CASE k = 1 BY <1>3, <3>1 DEF Carried
    <3>2. CASE k # 1
      <4>1. k - 1 \in 1..n BY <1>0, <3>2
      <4> QED BY <1>5, <3>2, <4>1 DEF Carried
    <3> QED BY <3>1, <3>2
  <2> QED BY <1>5, <2>2, <2>3
<1> HIDE DEF F
<1>8. IsFiltered(state, input, F) BY <1>6, <1>7 DEF IsFiltered, n
<1> QED BY <1>8 DEF F

\* There is no other output.
LEMMA FilterOnly ==
    ASSUME NEW input \in Seq(Int), NEW state \in Int, NEW a, NEW b,
           IsFiltered(state, input, a), IsFiltered(state, input, b)
    PROVE  a = b
<1> DEFINE n == Len(input)
           f == [k \in 0..n |-> IF k = 0 THEN state ELSE a[k]]
           g == [k \in 0..n |-> IF k = 0 THEN state ELSE b[k]]
<1>0. n \in Nat BY LenProperties
<1>1. a \in Seq(Int) /\ b \in Seq(Int) /\ Len(a) = n /\ Len(b) = n BY DEF IsFiltered
<1>2. \A k \in 0..(n - 1) : /\ k \in 0..n /\ k + 1 \in 0..n /\ k + 1 \in 1..n /\ k + 1 # 0
                            /\ (k + 1) - 1 = k /\ (k + 1 = 1 <=> k = 0)
  BY <1>0
<1>3. \A k \in 0..(n - 1) : f[k + 1] = Filtered(f[k], input[k + 1]) /\ g[k + 1] = Filtered(g[k], input[k + 1])
  <2> TAKE k \in 0..(n - 1)
  <2>1. a[k + 1] = Filtered(Carried(state, a, k + 1), input[k + 1])
        /\ b[k + 1] = Filtered(Carried(state, b, k + 1), input[k + 1])
    BY <1>2 DEF IsFiltered
  <2>2. f[k] = Carried(state, a, k + 1) /\ g[k] = Carried(state, b, k + 1) BY <1>2 DEF Carried
  <2>3. f[k + 1] = a[k + 1] /\ g[k + 1] = b[k + 1] BY <1>2
  <2> HIDE DEF f, g
  <2> QED BY <2>1, <2>2, <2>3
<1>4. f[0] = g[0] BY <1>0
<1>5. \A k \in 1..n : k \in 0..n /\ f[k] = a[k] /\ g[k] = b[k] BY <1>0
<1> HIDE DEF f, g
<1>6. Agree(f, g, n) BY <1>3, <1>4 DEF Agree
<1> HIDE DEF n
<1>7. \A k \in 0..n : f[k] = g[k] BY <1>0, <1>6, SameTurns
<1>8. \A k \in 1..n : a[k] = b[k] BY <1>5, <1>7
<1> QED BY <1>1, <1>8, SeqEqual

LEMMA ThreeJoin ==
    ASSUME NEW a \in Seq(Int), NEW b \in Seq(Int), NEW c \in Seq(Int) PROVE (a \o b) \o c = a \o (b \o c)
  BY ConcatAssociative, SMTT(30)

\* A filter is carried on by the state that it left.
LEMMA FilterJoins ==
    ASSUME NEW a \in Seq(Int), NEW b \in Seq(Int)
    PROVE  FilterNext(FilterFrom(0, a), b) = FilterFrom(0, a \o b)
<1> DEFINE A == FilterFrom(0, a)
           s == IF A = <<>> THEN 0 ELSE Last(A)
           B == FilterFrom(s, b)
           m == Len(a)
           n == Len(b)
<1>0. m \in Nat /\ n \in Nat BY LenProperties
<1>1. IsFiltered(0, a, A) BY FilterIs
<1>2. A \in Seq(Int) /\ Len(A) = m /\ \A k \in 1..m : A[k] = Filtered(Carried(0, A, k), a[k])
  BY <1>1 DEF IsFiltered
<1> HIDE DEF A
<1>3. s = IF m = 0 THEN 0 ELSE A[m]
  <2>1. A = <<>> <=> m = 0 BY <1>2, EmptySeq
  <2> QED BY <1>2, <2>1 DEF Last
<1>4. s \in Int
  <2>1. m # 0 => m \in 1..Len(A) BY <1>0, <1>2
  <2>2. m # 0 => A[m] \in Int BY <1>2, <2>1, ElementOfSeq
  <2> QED BY <1>3, <2>2
<1> HIDE DEF s
<1>5. IsFiltered(s, b, B) BY <1>4, FilterIs
<1>6. B \in Seq(Int) /\ Len(B) = n /\ \A k \in 1..n : B[k] = Filtered(Carried(s, B, k), b[k])
  BY <1>5 DEF IsFiltered
<1> HIDE DEF B, m, n
<1>7. /\ A \o B \in Seq(Int) /\ Len(A \o B) = m + n
      /\ \A i \in 1..(m + n) : (A \o B)[i] = IF i <= m THEN A[i] ELSE B[i - m]
  BY <1>2, <1>6, ConcatProperties, ZenonT(60)
<1>8. /\ a \o b \in Seq(Int) /\ Len(a \o b) = m + n
      /\ \A i \in 1..(m + n) : (a \o b)[i] = IF i <= m THEN a[i] ELSE b[i - m]
  BY ConcatProperties DEF m, n
<1> DEFINE C == A \o B
           d == a \o b
<1> HIDE DEF C, d
<1>9. ASSUME NEW k \in 1..(m + n) PROVE C[k] = Filtered(Carried(0, C, k), d[k])
  <2>1. CASE k <= m
    <3>1. k \in 1..m /\ (k # 1 => k - 1 \in 1..(m + n) /\ k - 1 <= m) BY <1>0, <2>1
    <3>2. C[k] = A[k] /\ d[k] = a[k] BY <1>7, <1>8, <2>1 DEF C, d
    <3>3. k # 1 => C[k - 1] = A[k - 1] BY <1>7, <3>1 DEF C
    <3>4. Carried(0, C, k) = Carried(0, A, k) BY <3>3 DEF Carried
    <3> QED BY <1>2, <3>1, <3>2, <3>4
  <2>2. CASE k > m
    <3> DEFINE j == k - m
    <3>1. j \in 1..n /\ ~(k <= m) BY <1>0, <2>2
    <3>2. C[k] = B[j] /\ d[k] = b[j] BY <1>7, <1>8, <3>1 DEF C, d
    <3>3. B[j] = Filtered(Carried(s, B, j), b[j]) BY <1>6, <3>1
    <3>4. Carried(0, C, k) = Carried(s, B, j)
      <4>1. CASE j = 1
        <5>1. k - 1 = m /\ (k = 1 <=> m = 0) BY <1>0, <4>1
        <5>2. m # 0 => C[m] = A[m]
          <6>1. m # 0 => m \in 1..(m + n) /\ m <= m BY <1>0
          <6> QED BY <1>7, <6>1 DEF C
        <5> QED BY <1>3, <4>1, <5>1, <5>2 DEF Carried
      <4>2. CASE j # 1
        <5>1. k # 1 /\ k - 1 \in 1..(m + n) /\ ~(k - 1 <= m) /\ (k - 1) - m = j - 1 BY <1>0, <2>2, <4>2
        <5>2. C[k - 1] = B[j - 1] BY <1>7, <5>1 DEF C
        <5> HIDE DEF j
        <5> QED BY <4>2, <5>1, <5>2 DEF Carried
      <4> QED BY <4>1, <4>2
    <3> HIDE DEF j
    <3> QED BY <3>2, <3>3, <3>4
  <2> QED BY <1>0, <2>1, <2>2
<1>10. IsFiltered(0, d, C) BY <1>7, <1>8, <1>9 DEF IsFiltered, C, d
<1>11. d \in Seq(Int) BY <1>8 DEF d
<1>12. IsFiltered(0, d, FilterFrom(0, d)) BY <1>11, FilterIs
<1>13. C = FilterFrom(0, d) BY <1>10, <1>11, <1>12, FilterOnly
<1>14. FilterNext(A, b) = A \o FilterFrom(s, b) BY DEF FilterNext, s
<1> QED BY <1>13, <1>14 DEF A, B, C, d

\* The blocks cut a whole.
Cuts(whole, blocks, edges, count) ==
    /\ count \in Nat /\ edges[0] = 0 /\ edges[count] = Len(whole)
    /\ \A k \in 0..count : edges[k] \in 0..Len(whole)
    /\ \A k \in 1..count : edges[k - 1] <= edges[k]
                           /\ blocks[k] = Read(whole, edges[k - 1], edges[k] - edges[k - 1])

\* Filtered block by block, it is filtered whole.
LEMMA FilterBlocksIs ==
    ASSUME NEW p \in Seq(Int), NEW W \in Seq(Int), NEW blocks, NEW E, Cuts(W, blocks, E, Len(blocks))
    PROVE  FilterBlocks(FilterFrom(0, p), blocks) = FilterFrom(0, p \o W)
<1> DEFINE K == Len(blocks)
           f == [k \in 0..K |-> FilterFrom(0, p \o Read(W, 0, E[k]))]
           Eq(g) == g = [k \in 0..K |-> IF k = 0 THEN FilterFrom(0, p) ELSE FilterNext(g[k - 1], blocks[k])]
           c == CHOOSE g : Eq(g)
<1>0. /\ K \in Nat /\ E[0] = 0 /\ E[K] = Len(W) /\ \A k \in 0..K : E[k] \in 0..Len(W)
      /\ \A k \in 1..K : E[k - 1] <= E[k] /\ blocks[k] = Read(W, E[k - 1], E[k] - E[k - 1])
  BY DEF Cuts
<1>1. Len(W) \in Nat BY LenProperties
<1>2. \A k \in 0..K : Read(W, 0, E[k]) \in Seq(Int)
  <2> TAKE k \in 0..K
  <2>1. E[k] \in Nat /\ 0 + E[k] <= Len(W) BY <1>0, <1>1
  <2> QED BY <2>1, ReadIs
<1>3. ASSUME NEW k \in 1..K PROVE f[k] = FilterNext(f[k - 1], blocks[k])
  <2> DEFINE a == E[k - 1]
             b == E[k] - E[k - 1]
  <2>0. k \in 0..K /\ k - 1 \in 0..K BY <1>0
  <2>1. a \in Nat /\ b \in Nat /\ a + b = E[k] /\ a + b <= Len(W) BY <1>0, <1>1, <2>0
  <2>2. f[k] = FilterFrom(0, p \o Read(W, 0, a + b)) /\ f[k - 1] = FilterFrom(0, p \o Read(W, 0, a))
    BY <2>0, <2>1
  <2>3. blocks[k] = Read(W, a, b) BY <1>0
  <2>4. Read(W, 0, a) \in Seq(Int) BY <1>2, <2>0
  <2> HIDE DEF a, b, f
  <2>5. Read(W, a, b) \in Seq(Int) /\ Read(W, 0, a) \o Read(W, a, b) = Read(W, 0, a + b)
    BY <2>1, ReadIs, ReadsJoin
  <2>6. p \o Read(W, 0, a + b) = (p \o Read(W, 0, a)) \o Read(W, a, b)
    <3> DEFINE u == Read(W, 0, a)
               v == Read(W, a, b)
    <3>1. u \in Seq(Int) /\ v \in Seq(Int) /\ Read(W, 0, a + b) = u \o v BY <2>4, <2>5
    <3> HIDE DEF u, v
    <3>2. (p \o u) \o v = p \o (u \o v) BY <3>1, ThreeJoin
    <3>3. p \o Read(W, 0, a + b) = (p \o u) \o v BY <3>1, <3>2
    <3> QED BY <3>3 DEF u, v
  <2>7. p \o Read(W, 0, a) \in Seq(Int) BY <2>4, ConcatProperties
  <2>8. FilterNext(FilterFrom(0, p \o Read(W, 0, a)), Read(W, a, b))
          = FilterFrom(0, (p \o Read(W, 0, a)) \o Read(W, a, b))
    BY <2>5, <2>7, FilterJoins
  <2> QED BY <2>2, <2>3, <2>6, <2>8
<1>4. f[0] = FilterFrom(0, p) /\ f[K] = FilterFrom(0, p \o W)
  <2>1. f[0] = FilterFrom(0, p \o Read(W, 0, 0)) /\ f[K] = FilterFrom(0, p \o Read(W, 0, Len(W)))
    <3>1. 0 \in 0..K /\ K \in 0..K BY <1>0
    <3> QED BY <1>0, <3>1
  <2> HIDE DEF f, K
  <2>2. Read(W, 0, 0) = <<>> /\ Read(W, 0, Len(W)) = W
    <3>1. 0 + 1 = 1 /\ 0 + 0 = 0 /\ 0 + Len(W) = Len(W) BY <1>1
    <3>2. SubSeq(W, 1, 0) = <<>> /\ SubSeq(W, 1, Len(W)) = W BY SubSeqEmpty, SubSeqFull
    <3> QED BY <3>1, <3>2 DEF Read
  <2>3. p \o <<>> = p BY ConcatEmptySeq
  <2> QED BY <2>1, <2>2, <2>3
<1>5. Eq(f)
  <2>1. f = [k \in 0..K |-> f[k]] OBVIOUS
  <2>2. \A k \in 0..K : k = 0 \/ k \in 1..K BY <1>0
  <2> HIDE DEF f, K
  <2>3. \A k \in 0..K : f[k] = IF k = 0 THEN FilterFrom(0, p) ELSE FilterNext(f[k - 1], blocks[k])
    BY <1>3, <1>4, <2>2
  <2> QED BY <2>1, <2>3
<1>6. Eq(c) BY <1>5
<1> HIDE DEF c, f
<1>7. Agree(c, f, K)
  <2>1. c[0] = FilterFrom(0, p) BY <1>0, <1>6
  <2>2. \A k \in 0..(K - 1) : k + 1 \in 0..K /\ k + 1 \in 1..K /\ k + 1 # 0 /\ (k + 1) - 1 = k BY <1>0
  <2> HIDE DEF K
  <2>3. \A k \in 0..(K - 1) : c[k + 1] = FilterNext(c[k], blocks[k + 1]) BY <1>6, <2>2
  <2> HIDE DEF Eq
  <2>4. \A k \in 0..(K - 1) : f[k + 1] = FilterNext(f[k], blocks[k + 1]) BY <1>3, <2>2
  <2> QED BY <1>4, <2>1, <2>3, <2>4 DEF Agree
<1>8. FilterBlocks(FilterFrom(0, p), blocks) = c[K] BY DEF FilterBlocks, Iterated, c
<1> HIDE DEF K, Eq
<1>9. \A k \in 0..K : c[k] = f[k] BY <1>0, <1>7, SameTurns
<1>10. K \in 0..K BY <1>0
<1> QED BY <1>4, <1>8, <1>9, <1>10

\* The blocks of a spool, and the blocks of the way back, cut it.
LEMMA BlocksCut ==
    ASSUME NEW s \in Seq(Int)
    PROVE  /\ Cuts(s, [k \in DOMAIN Blocks(Len(s)) |-> Read(s, Blocks(Len(s))[k].offset, Blocks(Len(s))[k].count)],
                   [k \in 0..Len(Blocks(Len(s))) |-> Edge(Len(s), k)], Len(Blocks(Len(s))))
           /\ Cuts(Reverse(s), ReversedBlocks(s), [k \in 0..Len(Blocks(Len(s))) |-> Edge(Len(s), k)],
                   Len(Blocks(Len(s))))
           /\ Len(ReversedBlocks(s)) = Len(Blocks(Len(s)))
<1> DEFINE n == Len(s)
           K == Len(Blocks(n))
           E == [k \in 0..K |-> Edge(n, k)]
           F == [k \in DOMAIN Blocks(n) |-> Read(s, Blocks(n)[k].offset, Blocks(n)[k].count)]
<1>0. n \in Nat BY LenProperties
<1>1. /\ K \in Nat /\ DOMAIN Blocks(n) = 1..K /\ Edge(n, 0) = 0 /\ Edge(n, K) = n
      /\ \A k \in 0..K : Edge(n, k) \in 0..n
      /\ \A k \in 1..K :
           /\ Blocks(n)[k].offset = Edge(n, k - 1) /\ Blocks(n)[k].offset \in Nat
           /\ Blocks(n)[k].count \in Nat \ {0}
           /\ Blocks(n)[k].offset + Blocks(n)[k].count = Edge(n, k)
  BY <1>0, BlocksAre
<1>2. Reverse(s) \in Seq(Int) /\ Len(Reverse(s)) = n /\ \A i \in 1..n : Reverse(s)[i] = s[n - i + 1]
  BY ReverseIs
<1>3. K = (n + Block - 1) \div Block /\ \A k \in 1..K :
        Blocks(n)[k] = [offset |-> (k - 1) * Block, count |-> Min({Block, n - (k - 1) * Block})]
  <2>2. (n + Block - 1) \div Block \in Int BY <1>0, StreamSizes, Divide
  <2>3. (n + Block - 1) \div Block >= 0
    <3>1. 0 * Block <= n + Block - 1 /\ n + Block - 1 \in Int BY <1>0, StreamSizes
    <3> QED BY <3>1, StreamSizes, QuotientAbove
  <2>4. K = (n + Block - 1) \div Block BY <2>2, <2>3 DEF Blocks
  <2> QED BY <2>4 DEF Blocks
<1>4. ReversedBlocks(s) = [k \in 1..K |-> Reverse(Read(s, n - Blocks(n)[k].offset - Blocks(n)[k].count, Blocks(n)[k].count))]
  <2>1. \A k \in 1..K : Blocks(n)[k].offset = (k - 1) * Block /\ Blocks(n)[k].count = Min({Block, n - (k - 1) * Block})
    <3> TAKE k \in 1..K
    <3> DEFINE o == (k - 1) * Block
               c == Min({Block, n - o})
    <3>1. Blocks(n)[k] = [offset |-> o, count |-> c] BY <1>3
    <3> HIDE DEF o, c, K, n
    <3>2. Blocks(n)[k].offset = o /\ Blocks(n)[k].count = c BY <3>1
    <3> QED BY <3>2 DEF o, c
  <2>2. ReversedBlocks(s) = [k \in 1..K |->
          Reverse(Read(s, n - (k - 1) * Block - Min({Block, n - (k - 1) * Block}), Min({Block, n - (k - 1) * Block})))]
    BY <1>3 DEF ReversedBlocks
  <2> HIDE DEF K, n
  <2> QED BY <2>1, <2>2
<1> DEFINE R == ReversedBlocks(s)
<1>5. Len(R) = K /\ DOMAIN R = 1..K BY <1>1, <1>4
<1> HIDE DEF R
<1>6. \A k \in 1..K : k \in 0..K /\ k - 1 \in 0..K BY <1>1
<1>7. \A k \in 0..K : E[k] = Edge(n, k) OBVIOUS
<1>8. E[0] = 0 /\ E[K] = n /\ \A k \in 0..K : E[k] \in 0..n BY <1>1
<1> HIDE DEF E
<1>9. ASSUME NEW k \in 1..K
      PROVE  /\ E[k - 1] <= E[k] /\ Blocks(n)[k].offset = E[k - 1] /\ Blocks(n)[k].count = E[k] - E[k - 1]
             /\ E[k - 1] \in 0..n /\ E[k] \in 0..n
  <2> DEFINE o == Blocks(n)[k].offset
             c == Blocks(n)[k].count
  <2>1. o = E[k - 1] /\ c \in Nat /\ o + c = E[k] /\ E[k - 1] \in 0..n /\ E[k] \in 0..n
    <3> HIDE DEF K, n
    <3>1. k \in 0..K /\ k - 1 \in 0..K BY <1>6
    <3> QED BY <1>1, <1>7, <1>8, <3>1
  <2> HIDE DEF o, c
  <2>2. E[k - 1] <= E[k] /\ c = E[k] - E[k - 1] BY <1>0, <2>1
  <2> QED BY <2>1, <2>2 DEF o, c
<1> HIDE DEF K, n
<1>10. Cuts(s, F, E, K)
  <2>1. \A k \in 1..K : F[k] = Read(s, E[k - 1], E[k] - E[k - 1]) BY <1>1, <1>9
  <2> HIDE DEF F
  <2> QED BY <1>1, <1>8, <1>9, <2>1 DEF Cuts, n
<1>11. ASSUME NEW k \in 1..K PROVE R[k] = Read(Reverse(s), E[k - 1], E[k] - E[k - 1])
  <2> DEFINE o == E[k - 1]
             c == E[k] - E[k - 1]
             first == n - o - c
             u == Read(s, first, c)
             v == Read(Reverse(s), o, c)
  <2>1. o \in Nat /\ c \in Nat /\ o + c <= n /\ first \in Nat /\ first + c <= n BY <1>0, <1>9
  <2>2. R[k] = Reverse(u) BY <1>4, <1>9 DEF R
  <2> HIDE DEF o, c
  <2>3. u \in Seq(Int) /\ Len(u) = c /\ \A i \in 1..c : u[i] = s[first + i] BY <2>1, ReadIs, ZenonT(30) DEF n
  <2>4. v \in Seq(Int) /\ Len(v) = c /\ \A i \in 1..c : v[i] = Reverse(s)[o + i]
    <3> DEFINE r == Reverse(s)
    <3>1. r \in Seq(Int) /\ o + c <= Len(r) BY <1>2, <2>1
    <3> HIDE DEF r
    <3>2. Read(r, o, c) \in Seq(Int) /\ Len(Read(r, o, c)) = c /\ \A i \in 1..c : Read(r, o, c)[i] = r[o + i]
      BY <2>1, <3>1, ReadIs
    <3> QED BY <3>2 DEF r
  <2> HIDE DEF u, v
  <2>5. Reverse(u) \in Seq(Int) /\ Len(Reverse(u)) = c /\ \A i \in 1..c : Reverse(u)[i] = u[c - i + 1]
    BY <2>3, ReverseIs
  <2>6. \A i \in 1..c : Reverse(u)[i] = v[i]
    <3> TAKE i \in 1..c
    <3>1. c - i + 1 \in 1..c /\ o + i \in 1..n /\ first + (c - i + 1) = n - (o + i) + 1 BY <1>0, <2>1
    <3>2. u[c - i + 1] = s[n - (o + i) + 1] BY <2>3, <3>1
    <3>3. v[i] = s[n - (o + i) + 1] BY <1>2, <2>4, <3>1
    <3> QED BY <2>5, <3>2, <3>3
  <2>7. Reverse(u) = v BY <2>4, <2>5, <2>6, SeqEqual
  <2> QED BY <2>2, <2>7 DEF v, o, c
<1>12. Cuts(Reverse(s), R, E, K) BY <1>1, <1>2, <1>8, <1>9, <1>11 DEF Cuts
<1> QED BY <1>5, <1>10, <1>12 DEF F, E, K, n, R

LEMMA NothingFiltered == FilterFrom(0, <<>>) = <<>>
<1>1. IsFiltered(0, <<>>, FilterFrom(0, <<>>))
  <2>1. <<>> \in Seq(Int) BY EmptySeq
  <2>2. \A e \in Seq(Int) : IsFiltered(0, e, FilterFrom(0, e)) BY FilterIs
  <2> QED BY <2>1, <2>2
<1>2. FilterFrom(0, <<>>) \in Seq(Int) /\ Len(FilterFrom(0, <<>>)) = 0
  <2>1. Len(<<>>) = 0 BY EmptySeq
  <2> QED BY <1>1, <2>1 DEF IsFiltered
<1> QED BY <1>2, EmptySeq

LEMMA BackwardIs == ASSUME NEW s \in Seq(Int) PROVE Backward(s) = FilterFrom(0, Reverse(s))
<1> DEFINE E == [k \in 0..Len(Blocks(Len(s))) |-> Edge(Len(s), k)]
           R == ReversedBlocks(s)
<1>1. Cuts(Reverse(s), R, E, Len(R)) /\ Reverse(s) \in Seq(Int) BY BlocksCut, ReverseIs
<1> HIDE DEF E, R
<1>2. <<>> \in Seq(Int) BY EmptySeq
<1>3. FilterBlocks(FilterFrom(0, <<>>), R) = FilterFrom(0, <<>> \o Reverse(s)) BY <1>1, <1>2, FilterBlocksIs
<1>4. <<>> \o Reverse(s) = Reverse(s) BY <1>1, ConcatEmptySeq
<1> QED BY <1>3, <1>4, NothingFiltered DEF Backward, R

\* From the spools, from block to block, the filtered clip is the whole one.
LEMMA HighpassIsWhole == ASSUME NEW x \in Seq(Int) PROVE FilteredSource(x) = HighpassFiltfilt(x)
<1> DEFINE n == Len(x)
<1>0. n \in Nat /\ \A i \in 1..n : x[i] \in Int BY LenProperties, ElementOfSeq
<1>1. CASE n < HpMin BY <1>1 DEF FilteredSource, HighpassFiltfilt
<1>2. CASE n >= HpMin
  <2> DEFINE first == Read(x, 0, HpPad + 1)
             last == Read(x, n - (HpPad + 1), HpPad + 1)
             P == [i \in 1..HpPad |-> 2 * x[1] - x[HpPad - i + 2]]
             S == [i \in 1..HpPad |-> 2 * x[n] - x[n - i]]
             E == [k \in 0..Len(Blocks(n)) |-> Edge(n, k)]
             F == [k \in DOMAIN Blocks(n) |-> Read(x, Blocks(n)[k].offset, Blocks(n)[k].count)]
             ext == P \o x \o S
             fw == FilterFrom(0, ext)
             bw == FilterFrom(0, Reverse(fw))
             N == n + 2 * HpPad
             W == Read(Reverse(bw), HpPad, n)
             piece == [b \in Range(Blocks(n)) |->
                LET highest == n + HpPad - 1 - b.offset
                IN Reverse(Read(bw, highest - (b.count - 1), b.count))]
  <2>0. HpPad \in Nat \ {0} /\ n > HpPad + 1 /\ N \in Nat BY <1>0, <1>2, StreamSizes
  <2>1. \A i \in 1..HpPad : 1 \in 1..n /\ n \in 1..n /\ HpPad - i + 2 \in 1..n /\ n - i \in 1..n BY <1>0, <2>0
  <2>2. \A i \in 1..HpPad : 2 * x[1] - x[HpPad - i + 2] \in Int /\ 2 * x[n] - x[n - i] \in Int
    <3> TAKE i \in 1..HpPad
    <3>1. x[1] \in Int /\ x[n] \in Int /\ x[HpPad - i + 2] \in Int /\ x[n - i] \in Int BY <1>0, <2>1
    <3> QED BY <3>1, SMTT(30)
  <2>3. P \in Seq(Int) /\ Len(P) = HpPad /\ S \in Seq(Int) /\ Len(S) = HpPad
    <3>1. P \in [1..HpPad -> Int] /\ S \in [1..HpPad -> Int] BY <2>2
    <3> HIDE DEF P, S
    <3> QED BY <2>0, <3>1, SeqIs
  <2>4. P = [i \in 1..HpPad |-> 2 * first[1] - first[HpPad - i + 2]]
    <3>1. \A i \in 1..(HpPad + 1) : first[i] = x[0 + i]
      <4>1. 0 \in Nat /\ HpPad + 1 \in Nat /\ 0 + (HpPad + 1) <= Len(x) BY <1>0, <2>0
      <4> QED BY <4>1, ReadIs
    <3> HIDE DEF first
    <3>2. \A i \in 1..HpPad : 1 \in 1..(HpPad + 1) /\ HpPad - i + 2 \in 1..(HpPad + 1)
                              /\ 0 + 1 = 1 /\ 0 + (HpPad - i + 2) = HpPad - i + 2
      BY <2>0
    <3>3. \A i \in 1..HpPad : first[1] = x[1] /\ first[HpPad - i + 2] = x[HpPad - i + 2] BY <3>1, <3>2
    <3> QED BY <3>3
  <2>5. S = [i \in 1..HpPad |-> 2 * last[HpPad + 1] - last[HpPad + 1 - i]]
    <3> DEFINE a == n - (HpPad + 1)
    <3>0. a \in Nat /\ HpPad + 1 \in Nat /\ a + (HpPad + 1) = n BY <1>0, <2>0
    <3>1. \A i \in 1..(HpPad + 1) : last[i] = x[a + i]
      <4> HIDE DEF a
      <4>1. a + (HpPad + 1) <= Len(x) BY <1>0, <3>0
      <4>2. \A i \in 1..(HpPad + 1) : Read(x, a, HpPad + 1)[i] = x[a + i] BY <3>0, <4>1, ReadIs, ZenonT(30)
      <4> QED BY <4>2 DEF a
    <3> HIDE DEF last
    <3>2. \A i \in 1..HpPad : HpPad + 1 \in 1..(HpPad + 1) /\ HpPad + 1 - i \in 1..(HpPad + 1)
                              /\ a + (HpPad + 1) = n /\ a + (HpPad + 1 - i) = n - i
      BY <1>0, <2>0
    <3> HIDE DEF a
    <3>3. \A i \in 1..HpPad : last[HpPad + 1] = x[n] /\ last[HpPad + 1 - i] = x[n - i] BY <3>1, <3>2
    <3> QED BY <3>3
  <2>6. FilterNext(<<>>, P) = FilterFrom(0, P)
    <3> HIDE DEF P
    <3>1. \A e \in Seq(Int) : FilterNext(FilterFrom(0, e), P) = FilterFrom(0, e \o P) BY <2>3, FilterJoins
    <3>2. <<>> \in Seq(Int) /\ <<>> \o P = P BY <2>3, EmptySeq, ConcatEmptySeq
    <3>3. FilterNext(FilterFrom(0, <<>>), P) = FilterFrom(0, <<>> \o P) BY <3>1, <3>2
    <3> QED BY <3>2, <3>3, NothingFiltered
  <2>7. FilterBlocks(FilterFrom(0, P), F) = FilterFrom(0, P \o x)
    <3>1. DOMAIN Blocks(n) = 1..Len(Blocks(n)) /\ Len(Blocks(n)) \in Nat BY <1>0, BlocksAre
    <3>2. Len(F) = Len(Blocks(n)) BY <3>1
    <3>3. Cuts(x, F, E, Len(Blocks(n))) BY BlocksCut
    <3> HIDE DEF F, E, P
    <3>4. Cuts(x, F, E, Len(F)) BY <3>2, <3>3
    <3> QED BY <2>3, <3>4, FilterBlocksIs
  <2>8. ext \in Seq(Int) /\ Len(ext) = N /\ FilterNext(FilterFrom(0, P \o x), S) = fw
    <3> HIDE DEF P, S
    <3>1. P \o x \in Seq(Int) /\ Len(P \o x) = HpPad + n BY <2>3, ConcatProperties
    <3> DEFINE Q == P \o x
    <3>2. Q \in Seq(Int) /\ Len(Q) = HpPad + n BY <3>1
    <3> HIDE DEF Q
    <3>3. Q \o S \in Seq(Int) /\ Len(Q \o S) = Len(Q) + Len(S) BY <2>3, <3>2, ConcatProperties
    <3>4. FilterNext(FilterFrom(0, Q), S) = FilterFrom(0, Q \o S) BY <2>3, <3>2, FilterJoins
    <3>5. HpPad + n + HpPad = N BY <1>0, <2>0
    <3> QED BY <2>3, <3>2, <3>3, <3>4, <3>5 DEF Q
  <2>9. FilteredSource(x) = Streamed(n, [b \in Range(Blocks(n)) |->
              LET highest == n + HpPad - 1 - b.offset
              IN Reverse(Read(Backward(fw), highest - (b.count - 1), b.count))])
    <3>1. ~(n < HpMin) BY <1>0, <1>2, StreamSizes
    <3>2. FilterNext(FilterBlocks(FilterNext(<<>>, [i \in 1..HpPad |-> 2 * first[1] - first[HpPad - i + 2]]), F),
                     [i \in 1..HpPad |-> 2 * last[HpPad + 1] - last[HpPad + 1 - i]]) = fw
      <4> HIDE DEF P, S, F, fw, first, last
      <4> QED BY <2>4, <2>5, <2>6, <2>7, <2>8
    <3> HIDE DEF fw
    <3> QED BY <3>1, <3>2 DEF FilteredSource
  <2>10. HighpassFiltfilt(x) = W
    <3>1. ~(n < HpMin) BY <1>0, <1>2, StreamSizes
    <3>2. Extended(x) = ext BY DEF Extended
    <3> HIDE DEF ext
    <3> QED BY <3>1, <3>2 DEF HighpassFiltfilt, Read
  <2> HIDE DEF ext, P, S, F, E, first, last
  <2>11. fw \in Seq(Int) /\ Len(fw) = N
    <3>1. IsFiltered(0, ext, fw) BY <2>8, FilterIs
    <3> QED BY <2>8, <3>1 DEF IsFiltered
  <2> HIDE DEF fw
  <2>12. Reverse(fw) \in Seq(Int) /\ Len(Reverse(fw)) = N BY <2>11, ReverseIs
  <2>13. bw \in Seq(Int) /\ Len(bw) = N
    <3>1. IsFiltered(0, Reverse(fw), bw) BY <2>12, FilterIs
    <3> QED BY <2>12, <3>1 DEF IsFiltered
  <2>14. Backward(fw) = bw BY <2>11, BackwardIs
  <2> HIDE DEF bw
  <2> DEFINE r == Reverse(bw)
  <2>15. r \in Seq(Int) /\ Len(r) = N /\ \A i \in 1..N : r[i] = bw[N - i + 1]
    <3>1. r \in Seq(Int) /\ Len(r) = Len(bw) /\ \A i \in 1..Len(bw) : r[i] = bw[Len(bw) - i + 1]
      BY <2>13, ReverseIs
    <3> HIDE DEF N, r
    <3> QED BY <2>13, <3>1
  <2> HIDE DEF r
  <2>16. W \in Seq(Int) /\ Len(W) = n /\ \A i \in 1..n : W[i] = r[HpPad + i]
    <3>1. HpPad + n <= Len(r) /\ HpPad \in Nat BY <1>0, <2>0, <2>15
    <3> HIDE DEF n, N
    <3>2. Read(r, HpPad, n) \in Seq(Int) /\ Len(Read(r, HpPad, n)) = n
          /\ \A i \in 1..n : Read(r, HpPad, n)[i] = r[HpPad + i]
      BY <1>0, <2>15, <3>1, ReadIs, ZenonT(30)
    <3> QED BY <3>2 DEF r
  <2> HIDE DEF W
  <2>20. \A b \in Range(Blocks(n)) : piece[b] = Reverse(Read(bw, (n + HpPad - 1 - b.offset) - (b.count - 1), b.count))
    <3> HIDE DEF n
    <3> QED OBVIOUS
  <2>17. ASSUME NEW k \in 1..Len(Blocks(n)) PROVE piece[Blocks(n)[k]] = Read(W, Blocks(n)[k].offset, Blocks(n)[k].count)
    <3> DEFINE o == Blocks(n)[k].offset
               c == Blocks(n)[k].count
               low == (n + HpPad - 1 - o) - (c - 1)
               u == Read(bw, low, c)
               v == Read(W, o, c)
    <3>1. o \in Nat /\ c \in Nat /\ o + c <= n /\ Blocks(n)[k] \in Range(Blocks(n))
      <4>1. /\ DOMAIN Blocks(n) = 1..Len(Blocks(n)) /\ Blocks(n)[k].offset \in Nat
            /\ Blocks(n)[k].count \in Nat \ {0} /\ Len(Blocks(n)) \in Nat
            /\ Blocks(n)[k].offset + Blocks(n)[k].count = Edge(n, k)
            /\ \A j \in 0..Len(Blocks(n)) : Edge(n, j) \in 0..n
        BY <1>0, BlocksAre
      <4> HIDE DEF n
      <4>2. k \in 0..Len(Blocks(n)) BY <4>1
      <4>3. Edge(n, k) <= n BY <1>0, <4>1, <4>2
      <4>4. Blocks(n)[k] \in Range(Blocks(n)) BY <4>1 DEF Range
      <4> QED BY <4>1, <4>3, <4>4
    <3> HIDE DEF n, piece
    <3>2. piece[Blocks(n)[k]] = Reverse(u) BY <3>1, <2>20
    <3> HIDE DEF o, c
    <3>3. low \in Nat /\ low + c <= N /\ low + c = n + HpPad - o BY <1>0, <2>0, <3>1
    <3>4. u \in Seq(Int) /\ Len(u) = c /\ \A i \in 1..c : u[i] = bw[low + i]
      <4> HIDE DEF low, N
      <4> QED BY <2>13, <3>1, <3>3, ReadIs, ZenonT(30)
    <3>5. v \in Seq(Int) /\ Len(v) = c /\ \A i \in 1..c : v[i] = W[o + i]
      <4>1. W \in Seq(Int) /\ o \in Nat /\ c \in Nat /\ o + c <= Len(W) BY <2>16, <3>1
      <4> HIDE DEF W
      <4> QED BY <4>1, ReadIs
    <3> HIDE DEF u, v
    <3>6. Reverse(u) \in Seq(Int) /\ Len(Reverse(u)) = c /\ \A i \in 1..c : Reverse(u)[i] = u[c - i + 1]
      BY <3>4, ReverseIs
    <3>7. \A i \in 1..c : Reverse(u)[i] = v[i]
      <4> TAKE i \in 1..c
      <4>1. c - i + 1 \in 1..c /\ o + i \in 1..n /\ HpPad + (o + i) \in 1..N
            /\ low + (c - i + 1) = N - (HpPad + (o + i)) + 1
        BY <1>0, <2>0, <3>1, <3>3
      <4>2. u[c - i + 1] = bw[N - (HpPad + (o + i)) + 1] BY <3>4, <4>1
      <4>3. v[i] = r[HpPad + (o + i)] BY <2>16, <3>5, <4>1
      <4>4. r[HpPad + (o + i)] = bw[N - (HpPad + (o + i)) + 1] BY <2>15, <4>1
      <4> QED BY <3>6, <4>2, <4>3, <4>4
    <3>8. Reverse(u) = v BY <3>5, <3>6, <3>7, SeqEqual
    <3> QED BY <3>2, <3>8 DEF v, o, c
  <2>18. FilteredSource(x) = Streamed(n, piece) BY <2>9, <2>14
  <2> HIDE DEF n, piece
  <2>19. Streamed(n, piece) = W BY <2>16, <2>17, StreamedIs
  <2> QED BY <2>10, <2>18, <2>19
<1>3. HpMin \in Nat BY StreamSizes
<1> QED BY <1>0, <1>1, <1>2, <1>3
----------------------------------------
(* Reflected ranges. *)

LEMMA ReadNone == ASSUME NEW s, NEW first \in Nat PROVE Read(s, first, 0) = <<>>
<1>1. first + 1 \in Int /\ first + 0 \in Int /\ first + 0 < first + 1 OBVIOUS
<1>2. SubSeq(s, first + 1, first + 0) = <<>> BY <1>1, SubSeqEmpty
<1> QED BY <1>2 DEF Read

LEMMA NextRead ==
    ASSUME NEW s \in Seq(Int), NEW first \in Nat, NEW a \in Nat, NEW b \in Nat, first + a + b <= Len(s)
    PROVE  Read(s, first, a) \o Read(s, first + a, b) = Read(s, first, a + b)
<1>1. Len(s) \in Nat BY LenProperties
<1>2. /\ first + 1 \in 1..Len(s) + 1 /\ first + a \in ((first + 1) - 1)..Len(s)
      /\ first + (a + b) \in (first + a)..Len(s) /\ (first + a) + b = first + (a + b)
  BY <1>1
<1>3. SubSeq(s, first + 1, first + a) \o SubSeq(s, first + a + 1, first + (a + b)) = SubSeq(s, first + 1, first + (a + b))
  BY <1>2, ConcatAdjacentSubSeq
<1> QED BY <1>2, <1>3 DEF Read

Mirrors(R, at, x, from, count) == \A i \in 1..count : R[at + i] = x[from + count - i + 1]
Matches(R, at, x, from, count) == \A i \in 1..count : R[at + i] = x[from + i]

\* A reversed range of the clip is a range of the padded clip.
LEMMA MirrorIs ==
    ASSUME NEW x \in Seq(Int), NEW R \in Seq(Int), NEW from \in Nat, NEW at \in Nat, NEW count \in Nat,
           from + count <= Len(x), at + count <= Len(R), Mirrors(R, at, x, from, count)
    PROVE  Reverse(Read(x, from, count)) = Read(R, at, count)
<1> DEFINE u == Read(x, from, count)
           v == Read(R, at, count)
<1>1. u \in Seq(Int) /\ Len(u) = count /\ \A i \in 1..count : u[i] = x[from + i] BY ReadIs
<1>2. v \in Seq(Int) /\ Len(v) = count /\ \A i \in 1..count : v[i] = R[at + i] BY ReadIs
<1> HIDE DEF u, v
<1>3. Reverse(u) \in Seq(Int) /\ Len(Reverse(u)) = count /\ \A i \in 1..count : Reverse(u)[i] = u[count - i + 1]
  BY <1>1, ReverseIs
<1>4. ASSUME NEW i \in 1..count PROVE Reverse(u)[i] = v[i]
  <2>1. count - i + 1 \in 1..count /\ from + (count - i + 1) = from + count - i + 1 OBVIOUS
  <2>2. u[count - i + 1] = x[from + count - i + 1] BY <1>1, <2>1
  <2> QED BY <1>2, <1>3, <2>2 DEF Mirrors
<1>5. Reverse(u) = v BY <1>2, <1>3, <1>4, SeqEqual
<1> QED BY <1>5 DEF u, v

LEMMA SameRead ==
    ASSUME NEW x \in Seq(Int), NEW R \in Seq(Int), NEW from \in Nat, NEW at \in Nat, NEW count \in Nat,
           from + count <= Len(x), at + count <= Len(R), Matches(R, at, x, from, count)
    PROVE  Read(x, from, count) = Read(R, at, count)
<1> DEFINE u == Read(x, from, count)
           v == Read(R, at, count)
<1>1. u \in Seq(Int) /\ Len(u) = count /\ \A i \in 1..count : u[i] = x[from + i] BY ReadIs
<1>2. v \in Seq(Int) /\ Len(v) = count /\ \A i \in 1..count : v[i] = R[at + i] BY ReadIs
<1> HIDE DEF u, v
<1>3. \A i \in 1..count : u[i] = v[i] BY <1>1, <1>2 DEF Matches
<1>4. u = v BY <1>1, <1>2, <1>3, SeqEqual
<1> QED BY <1>4 DEF u, v

LEMMA PaddedIs ==
    ASSUME NEW x \in Seq(Int), NEW pad \in 1..(Len(x) - 1)
    PROVE  /\ ReflectPad(x, pad) \in Seq(Int) /\ Len(ReflectPad(x, pad)) = Len(x) + 2 * pad
           /\ \A i \in 1..(Len(x) + 2 * pad) :
                ReflectPad(x, pad)[i] = IF i <= pad THEN x[pad - i + 2]
                                        ELSE IF i <= pad + Len(x) THEN x[i - pad]
                                        ELSE x[2 * Len(x) + pad - i]
<1> DEFINE n == Len(x)
           a == [i \in 1..pad |-> x[pad - i + 2]]
           c == [i \in 1..pad |-> x[n - i]]
           R == ReflectPad(x, pad)
<1>0. n \in Nat /\ pad \in Nat /\ pad <= n - 1 /\ pad >= 1 /\ \A i \in 1..n : x[i] \in Int
  BY LenProperties, ElementOfSeq
<1>1. Min({pad, n - 1}) = pad BY <1>0, MinOfTwo
<1>2. R = (a \o x) \o c
  <2> DEFINE q == Min({pad, n - 1})
  <2>1. R = IF n < 2 \/ pad <= 0 THEN x ELSE ([i \in 1..q |-> x[q - i + 2]] \o x) \o [i \in 1..q |-> x[n - i]]
    BY DEF ReflectPad
  <2>2. ~(n < 2 \/ pad <= 0) /\ q = pad BY <1>0, <1>1
  <2> HIDE DEF q, R, n
  <2> QED BY <2>1, <2>2
<1>3. a \in Seq(Int) /\ Len(a) = pad /\ c \in Seq(Int) /\ Len(c) = pad
  <2>1. \A i \in 1..pad : pad - i + 2 \in 1..n /\ n - i \in 1..n BY <1>0
  <2>2. a \in [1..pad -> Int] /\ c \in [1..pad -> Int] BY <1>0, <2>1
  <2> HIDE DEF a, c
  <2> QED BY <1>0, <2>2, SeqIs
<1>4. (\A i \in 1..pad : a[i] = x[pad - i + 2]) /\ (\A i \in 1..pad : c[i] = x[n - i]) OBVIOUS
<1> HIDE DEF R, a, c
<1> DEFINE b == a \o x
<1>5. b \in Seq(Int) /\ Len(b) = pad + n /\ \A i \in 1..(pad + n) : b[i] = IF i <= pad THEN a[i] ELSE x[i - pad]
  <2>1. b \in Seq(Int) /\ Len(b) = Len(a) + Len(x)
        /\ \A i \in 1..(Len(a) + Len(x)) : b[i] = IF i <= Len(a) THEN a[i] ELSE x[i - Len(a)]
    BY <1>3, ConcatProperties
  <2> HIDE DEF b
  <2> QED BY <1>3, <2>1
<1> HIDE DEF b
<1>6. R \in Seq(Int) /\ Len(R) = pad + n + pad
      /\ \A i \in 1..(pad + n + pad) : R[i] = IF i <= pad + n THEN b[i] ELSE c[i - (pad + n)]
  <2> DEFINE d == b \o c
  <2>1. d \in Seq(Int) /\ Len(d) = Len(b) + Len(c)
        /\ \A i \in 1..(Len(b) + Len(c)) : d[i] = IF i <= Len(b) THEN b[i] ELSE c[i - Len(b)]
    BY <1>3, <1>5, ConcatProperties
  <2>2. R = d BY <1>2 DEF b
  <2> HIDE DEF d
  <2> QED BY <1>3, <1>5, <2>1, <2>2
<1> HIDE DEF n
<1>7. ASSUME NEW i \in 1..(n + 2 * pad)
      PROVE  R[i] = IF i <= pad THEN x[pad - i + 2] ELSE IF i <= pad + n THEN x[i - pad] ELSE x[2 * n + pad - i]
  <2>1. i \in 1..(pad + n + pad) BY <1>0
  <2>2. CASE i <= pad
    <3>1. i \in 1..pad /\ i <= pad + n /\ i \in 1..(pad + n) BY <1>0, <2>2
    <3> QED BY <1>4, <1>5, <1>6, <2>1, <2>2, <3>1
  <2>3. CASE i > pad /\ i <= pad + n
    <3>1. i \in 1..(pad + n) /\ ~(i <= pad) BY <1>0, <2>3
    <3> QED BY <1>5, <1>6, <2>1, <2>3, <3>1
  <2>4. CASE i > pad + n
    <3>1. i - (pad + n) \in 1..pad /\ ~(i <= pad + n) /\ ~(i <= pad) /\ n - (i - (pad + n)) = 2 * n + pad - i
      BY <1>0, <2>4
    <3> QED BY <1>4, <1>6, <2>1, <3>1
  <2> QED BY <1>0, <2>2, <2>3, <2>4
<1>8. pad + n + pad = n + 2 * pad BY <1>0
<1> QED BY <1>6, <1>7, <1>8 DEF R, n

LEMMA ReflectIsWhole ==
    ASSUME NEW x \in Seq(Int), NEW pad \in 1..(Len(x) - 1), NEW first \in Nat, NEW count \in Nat,
           first + count <= Len(x) + 2 * pad
    PROVE  ReadReflected(x, pad, first, count) = Read(ReflectPad(x, pad), first, count)
<1> DEFINE n == Len(x)
           R == ReflectPad(x, pad)
           end == first + count
           left == Min({end, pad})
           from == Max({first, pad})
           to == Min({end, pad + n})
           tail == Max({first, pad + n})
           l == IF first < pad THEN left - first ELSE 0
           m == IF from < to THEN to - from ELSE 0
           t == IF tail < end THEN end - tail ELSE 0
<1>0. n \in Nat /\ pad \in Nat /\ pad <= n - 1 /\ pad >= 1 /\ end \in Nat /\ end <= n + 2 * pad
  BY LenProperties
<1>1. /\ left = (IF end <= pad THEN end ELSE pad) /\ from = (IF first >= pad THEN first ELSE pad)
      /\ to = (IF end <= pad + n THEN end ELSE pad + n) /\ tail = (IF first >= pad + n THEN first ELSE pad + n)
  <2> HIDE DEF n, end
  <2>1. {end, pad, first, pad + n} \subseteq Int BY <1>0
  <2>2. left = (IF end <= pad THEN end ELSE pad) /\ to = (IF end <= pad + n THEN end ELSE pad + n)
    BY <2>1, MinOfTwo
  <2>3. from = (IF first >= pad THEN first ELSE pad) /\ tail = (IF first >= pad + n THEN first ELSE pad + n)
    BY <2>1, MaxOfTwo
  <2> QED BY <2>2, <2>3
<1>2. R \in Seq(Int) /\ Len(R) = n + 2 * pad
      /\ \A i \in 1..(n + 2 * pad) : R[i] = IF i <= pad THEN x[pad - i + 2]
                                            ELSE IF i <= pad + n THEN x[i - pad] ELSE x[2 * n + pad - i]
  BY PaddedIs
<1>3. ReadReflected(x, pad, first, count) =
        (IF first < pad THEN Reverse(Read(x, pad - (left - 1), left - first)) ELSE <<>>)
        \o (IF from < to THEN Read(x, from - pad, to - from) ELSE <<>>)
        \o (IF tail < end THEN Reverse(Read(x, n - 2 - (end - (pad + n) - 1), end - tail)) ELSE <<>>)
  BY DEF ReadReflected
<1> HIDE DEF R, n, left, from, to, tail
<1>4. l \in Nat /\ m \in Nat /\ t \in Nat /\ l + m + t = count
      /\ (first < pad => left >= first) /\ (m # 0 => first + l = from) /\ (t # 0 => first + l + m = tail)
  BY <1>0, <1>1
<1>5. (IF first < pad THEN Reverse(Read(x, pad - (left - 1), left - first)) ELSE <<>>) = Read(R, first, l)
  <2>1. CASE first < pad
    <3> DEFINE f == pad - (left - 1)
    <3>1. f \in Nat /\ l = left - first /\ f + l <= n /\ first + l <= n + 2 * pad BY <1>0, <1>1, <1>4, <2>1
    <3> HIDE DEF l
    <3>2. ASSUME NEW i \in 1..l PROVE R[first + i] = x[f + l - i + 1]
      <4>1. first + i \in 1..(n + 2 * pad) /\ first + i <= pad /\ pad - (first + i) + 2 = f + l - i + 1
        BY <1>0, <1>1, <1>4, <2>1, <3>1
      <4> HIDE DEF f
      <4> QED BY <1>2, <4>1
    <3> HIDE DEF f
    <3>3. Reverse(Read(x, f, l)) = Read(R, first, l)
      <4>1. f \in Nat /\ first \in Nat /\ l \in Nat /\ f + l <= Len(x) /\ first + l <= Len(R)
        BY <1>2, <1>4, <3>1 DEF n
      <4>2. Mirrors(R, first, x, f, l) BY <3>2 DEF Mirrors
      <4> QED BY <1>2, <4>1, <4>2, MirrorIs, SMTT(30)
    <3> QED BY <2>1, <3>1, <3>3 DEF f
  <2>2. CASE ~(first < pad) BY <2>2, ReadNone
  <2> QED BY <2>1, <2>2
<1>6. (IF from < to THEN Read(x, from - pad, to - from) ELSE <<>>) = Read(R, first + l, m)
  <2>1. CASE from < to
    <3> DEFINE f == from - pad
               g == first + l
    <3>1. f \in Nat /\ g \in Nat /\ m = to - from /\ m # 0 /\ f + m <= n /\ g + m <= n + 2 * pad /\ g = from
      BY <1>0, <1>1, <1>4, <2>1
    <3> HIDE DEF l, m
    <3>2. ASSUME NEW i \in 1..m PROVE R[g + i] = x[f + i]
      <4>1. g + i \in 1..(n + 2 * pad) /\ ~(g + i <= pad) /\ g + i <= pad + n /\ (g + i) - pad = f + i
        BY <1>0, <1>1, <1>4, <2>1, <3>1
      <4> HIDE DEF f, g
      <4> QED BY <1>2, <4>1
    <3> HIDE DEF f, g
    <3>3. Read(x, f, m) = Read(R, g, m)
      <4>1. f \in Nat /\ g \in Nat /\ m \in Nat /\ f + m <= Len(x) /\ g + m <= Len(R)
        BY <1>2, <1>4, <3>1 DEF n
      <4>2. Matches(R, g, x, f, m) BY <3>2 DEF Matches
      <4> QED BY <1>2, <4>1, <4>2, SameRead, SMTT(30)
    <3> QED BY <2>1, <3>1, <3>3 DEF f, g
  <2>2. CASE ~(from < to) BY <1>4, <2>2, ReadNone
  <2> QED BY <2>1, <2>2
<1>7. (IF tail < end THEN Reverse(Read(x, n - 2 - (end - (pad + n) - 1), end - tail)) ELSE <<>>)
        = Read(R, first + (l + m), t)
  <2>1. CASE tail < end
    <3> DEFINE f == n - 2 - (end - (pad + n) - 1)
               g == first + (l + m)
    <3>1. f \in Nat /\ g \in Nat /\ t = end - tail /\ t # 0 /\ f + t <= n /\ g + t <= n + 2 * pad /\ g = tail
      BY <1>0, <1>1, <1>4, <2>1
    <3> HIDE DEF l, m, t
    <3>2. ASSUME NEW i \in 1..t PROVE R[g + i] = x[f + t - i + 1]
      <4>1. g + i \in 1..(n + 2 * pad) /\ ~(g + i <= pad) /\ ~(g + i <= pad + n)
            /\ 2 * n + pad - (g + i) = f + t - i + 1
        BY <1>0, <1>1, <1>4, <2>1, <3>1
      <4> HIDE DEF f, g
      <4> QED BY <1>2, <4>1
    <3> HIDE DEF f, g
    <3>3. Reverse(Read(x, f, t)) = Read(R, g, t)
      <4>1. f \in Nat /\ g \in Nat /\ t \in Nat /\ f + t <= Len(x) /\ g + t <= Len(R)
        BY <1>2, <1>4, <3>1 DEF n
      <4>2. Mirrors(R, g, x, f, t) BY <3>2 DEF Mirrors
      <4> QED BY <1>2, <4>1, <4>2, MirrorIs, SMTT(30)
    <3> QED BY <2>1, <3>1, <3>3 DEF f, g
  <2>2. CASE ~(tail < end) BY <1>4, <2>2, SMTT(30), ReadNone
  <2> QED BY <2>1, <2>2
<1> HIDE DEF l, m, t, end
<1>8. Read(R, first, l) \o Read(R, first + l, m) = Read(R, first, l + m)
  <2>1. first + l + m <= Len(R)
    <3> HIDE DEF R, n
    <3>1. first + l + m <= n + 2 * pad BY <1>0, <1>4 DEF end
    <3> QED BY <1>2, <3>1
  <2>2. R \in Seq(Int) /\ l \in Nat /\ m \in Nat BY <1>2, <1>4
  <2> HIDE DEF R
  <2> QED BY <2>1, <2>2, NextRead, ZenonT(30)
<1>9. Read(R, first, l + m) \o Read(R, first + (l + m), t) = Read(R, first, l + m + t)
  <2>1. first + (l + m) + t <= Len(R) /\ l + m \in Nat
    <3> HIDE DEF R, n
    <3>1. first + (l + m) + t <= n + 2 * pad /\ l + m \in Nat BY <1>0, <1>4 DEF end
    <3> QED BY <1>2, <3>1
  <2> DEFINE k == l + m
  <2>2. R \in Seq(Int) /\ k \in Nat /\ t \in Nat /\ first + k + t <= Len(R) BY <1>2, <1>4, <2>1
  <2> HIDE DEF k, R
  <2>3. Read(R, first, k) \o Read(R, first + k, t) = Read(R, first, k + t) BY <2>2, NextRead, ZenonT(30)
  <2> QED BY <2>3 DEF k
<1> QED BY <1>3, <1>4, <1>5, <1>6, <1>7, <1>8, <1>9 DEF R
----------------------------------------
(* The windows of the extractors. *)

\* A window is accepted, begins where the last one ended, and has its context.
LEMMA WindowPlanIs ==
    ASSUME NEW total \in Nat \ {0}, NEW context \in Nat \ {0}, context % Hop = 0,
           NEW first \in Nat, first < total \div Hop + 1, NEW p, p = PlanF0Window(total, first, context)
    PROVE  /\ p.valid /\ p.count \in Nat \ {0} /\ p.end = first + p.count /\ p.end <= total \div Hop + 1
           /\ p.start \in Int /\ p.samples \in Int
           /\ p.start \div Hop \in Int /\ p.start \div Hop + p.crop = first
           /\ p.start = 0 \/ p.start <= first * Hop - context
           /\ p.start + p.samples = total \/ p.start + p.samples >= (p.end - 1) * Hop + context
<1> DEFINE fs == total \div Hop + 1
           count == Min({F0Core \div Hop, fs - first})
           end == first + count
           coreStart == first * Hop
           coreEnd == IF end < fs THEN end * Hop ELSE total
           start == IF coreStart > context THEN coreStart - context ELSE 0
           right == Min({context, total - coreEnd})
           samples == coreEnd + right - start
           crop == first - start \div Hop
<1>1. /\ p.count = count /\ p.end = end /\ p.start = start /\ p.samples = samples /\ p.crop = crop
      /\ p.valid <=> /\ total > 0 /\ context % Hop = 0 /\ first < fs
                     /\ start % Hop = 0 /\ samples > 0
                     /\ crop <= samples \div Hop + 1 /\ count <= samples \div Hop + 1 - crop
                     /\ samples <= F0Core + 2 * context
  BY DEF PlanF0Window
<1>2. Hop \in Nat \ {0} /\ F0Core \in Nat \ {0} /\ F0Core % Hop = 0 BY PlanAssumption
<1> DEFINE w == F0Core \div Hop
           h == total \div Hop
<1>3. w \in Int /\ F0Core = w * Hop /\ w >= 1
  <2>1. w \in Int /\ F0Core = w * Hop + (F0Core % Hop) BY <1>2, Divide
  <2> HIDE DEF w
  <2>2. F0Core = w * Hop BY <1>2, <2>1
  <2>3. w < 1 => w * Hop <= 0 * Hop BY <1>2, <2>1, Multiples
  <2> QED BY <1>2, <2>1, <2>2, <2>3
<1>4. h \in Int /\ h * Hop \in Int /\ h * Hop <= total /\ total < h * Hop + Hop /\ fs = h + 1 /\ h >= 0
  <2>1. h \in Int /\ total % Hop \in 0..(Hop - 1) /\ total = h * Hop + (total % Hop) BY <1>2, Divide
  <2>2. 0 <= h
    <3>1. 0 * Hop <= total BY <1>2
    <3> QED BY <1>2, <3>1, QuotientAbove
  <2> HIDE DEF h
  <2>3. h * Hop \in Int BY <1>2, <2>1
  <2> QED BY <1>2, <2>1, <2>2, <2>3 DEF h
<1>5. count \in Nat \ {0} /\ count <= w /\ end \in Nat /\ end <= fs /\ first <= h /\ first < end /\ fs \in Nat
  <2>1. first < fs OBVIOUS
  <2>2. count = IF w <= fs - first THEN w ELSE fs - first
    <3> HIDE DEF fs
    <3>1. fs \in Int /\ w \in Int BY <1>3, <1>4
    <3> QED BY <3>1, MinOfTwo
  <2> HIDE DEF w, count, h, fs
  <2> QED BY <1>3, <1>4, <2>1, <2>2
<1> HIDE DEF w, h, fs, count
<1>6. coreStart \in Int /\ 0 <= coreStart /\ end * Hop \in Int /\ end * Hop = coreStart + count * Hop
      /\ (end - 1) * Hop = end * Hop - Hop /\ count * Hop \in Int /\ count * Hop <= F0Core /\ Hop <= count * Hop
  <2>1. coreStart \in Int /\ 0 * Hop <= coreStart BY <1>2, Multiples
  <2>2. count * Hop <= w * Hop /\ 1 * Hop <= count * Hop /\ count * Hop \in Int BY <1>2, <1>3, <1>5, Multiples
  <2>3. end * Hop = first * Hop + count * Hop /\ (end - 1) * Hop = end * Hop - Hop BY <1>2, <1>5
  <2> QED BY <1>2, <1>3, <2>1, <2>2, <2>3
<1> HIDE DEF end
<1>7. /\ coreEnd \in Int /\ coreEnd <= total /\ (end - 1) * Hop <= coreEnd /\ coreEnd - coreStart <= F0Core
      /\ coreEnd > 0 /\ coreStart <= coreEnd
  <2>1. CASE end < fs
    <3>1. end <= h BY <1>4, <1>5, <2>1
    <3>2. end * Hop <= h * Hop BY <1>2, <1>4, <1>5, <3>1, Multiples
    <3> HIDE DEF coreStart
    <3> QED BY <1>2, <1>4, <1>6, <2>1, <3>2
  <2>2. CASE ~(end < fs)
    <3>1. end = h + 1 BY <1>4, <1>5, <2>2
    <3>2. end * Hop = h * Hop + Hop BY <1>2, <1>4, <3>1
    <3> HIDE DEF coreStart
    <3> QED BY <1>2, <1>4, <1>6, <2>2, <3>2
  <2> QED BY <2>1, <2>2
<1> HIDE DEF coreEnd, coreStart
<1>8. right \in Int /\ 0 <= right /\ right <= context /\ (right = context \/ coreEnd + right = total)
  <2>1. total - coreEnd \in Int /\ total - coreEnd >= 0 BY <1>7
  <2>2. right = IF context <= total - coreEnd THEN context ELSE total - coreEnd BY <2>1, MinOfTwo
  <2> HIDE DEF right
  <2> QED BY <1>7, <2>1, <2>2
<1> HIDE DEF right
<1>9. /\ start \in Int /\ 0 <= start /\ start <= coreStart /\ coreStart - start <= context
      /\ (start = 0 \/ start = coreStart - context) /\ (start < coreEnd)
  BY <1>6, <1>7
<1>10. PICK q \in Int : start = q * Hop
  <2>1. CASE start = 0 BY <1>2, <2>1
  <2>2. CASE start = coreStart - context
    <3> DEFINE c == context \div Hop
    <3>1. c \in Int /\ context = c * Hop + (context % Hop) BY <1>2, Divide
    <3> HIDE DEF c
    <3>2. context = c * Hop BY <1>2, <3>1
    <3>3. (first - c) * Hop = first * Hop - c * Hop BY <1>2, <3>1
    <3>4. start = (first - c) * Hop /\ first - c \in Int BY <2>2, <3>1, <3>2, <3>3 DEF coreStart
    <3> HIDE DEF start
    <3> QED BY <3>4
  <2> QED BY <1>9, <2>1, <2>2
<1> HIDE DEF start
<1>11. start % Hop = 0 /\ start \div Hop = q BY <1>2, <1>10, MultipleIsWhole
<1>12. samples \in Int /\ samples > 0 /\ samples <= F0Core + 2 * context /\ start + samples = coreEnd + right
       /\ (end - 1) * Hop - start <= samples
  BY <1>2, <1>6, <1>7, <1>8, <1>9
<1> HIDE DEF samples
<1>13. samples \div Hop \in Int /\ end - 1 - q <= samples \div Hop
  <2>1. (end - 1 - q) * Hop = (end - 1) * Hop - q * Hop BY <1>2, <1>5, <1>10
  <2>2. (end - 1 - q) * Hop <= samples /\ end - 1 - q \in Int BY <1>5, <1>10, <1>12, <2>1
  <2> DEFINE k == end - 1 - q
  <2> HIDE DEF k
  <2>3. k \in Int /\ k * Hop <= samples BY <2>2 DEF k
  <2>4. k <= samples \div Hop /\ samples \div Hop \in Int BY <1>2, <1>12, <2>3, QuotientAbove, Divide
  <2> QED BY <2>4 DEF k
<1>14. q <= first
  <2> SUFFICES ASSUME first + 1 <= q PROVE FALSE BY <1>10
  <2>1. (first + 1) * Hop <= q * Hop /\ (first + 1) * Hop = first * Hop + Hop BY <1>2, <1>10, Multiples
  <2> QED BY <1>2, <1>6, <1>9, <1>10, <2>1 DEF coreStart
<1>15. crop = first - q BY <1>11
<1> HIDE DEF crop
<1>16. p.valid
  <2>1. crop <= samples \div Hop + 1 /\ count <= samples \div Hop + 1 - crop
    BY <1>5, <1>10, <1>13, <1>14, <1>15 DEF end
  <2>2. first < fs BY <1>5 DEF end
  <2> QED BY <1>1, <1>11, <1>12, <2>1, <2>2
<1>17. p.start \div Hop + p.crop = first /\ p.start \div Hop \in Int BY <1>1, <1>10, <1>11, <1>15
<1>18. p.start = 0 \/ p.start <= first * Hop - context BY <1>1, <1>9 DEF coreStart
<1>19. p.start + p.samples = total \/ p.start + p.samples >= (p.end - 1) * Hop + context
  <2>1. p.start + p.samples = coreEnd + right BY <1>1, <1>12
  <2>2. CASE right = context BY <1>2, <1>6, <1>7, <1>1, <2>1, <2>2
  <2> QED BY <1>8, <2>1, <2>2
<1>20. p.count \in Nat \ {0} /\ p.end = first + p.count /\ p.end <= total \div Hop + 1
       /\ p.start \in Int /\ p.samples \in Int
  BY <1>1, <1>5, <1>9, <1>12 DEF end, fs
<1> QED BY <1>16, <1>17, <1>18, <1>19, <1>20

\* A frame at its place, with its context or with all there is.
FrameSeen(r, i, total, context) ==
    /\ r.frame = i - 1
    /\ r.left >= Min({context, (i - 1) * Hop})
    /\ r.right >= Min({context, total - (i - 1) * Hop})
\* The windows that were read cover the first frames.
Covered(total, context) ==
    {s \in [first : 0..(total \div Hop + 1), out : Seq([frame : Int, left : Int, right : Int])] :
        Len(s.out) = s.first /\ \A i \in 1..s.first : FrameSeen(s.out[i], i, total, context)}

LEMMA WindowFramesAre ==
    ASSUME NEW total \in Nat \ {0}, NEW context \in Nat \ {0}, context % Hop = 0,
           NEW first \in Nat, first < total \div Hop + 1, NEW p, p = PlanF0Window(total, first, context)
    PROVE  /\ WindowFrames(p) \in Seq([frame : Int, left : Int, right : Int]) /\ Len(WindowFrames(p)) = p.count
           /\ \A j \in 1..p.count : FrameSeen(WindowFrames(p)[j], first + j, total, context)
<1>1. /\ p.valid /\ p.count \in Nat \ {0} /\ p.end = first + p.count
      /\ p.start \in Int /\ p.samples \in Int
      /\ p.start \div Hop \in Int /\ p.start \div Hop + p.crop = first
      /\ p.start = 0 \/ p.start <= first * Hop - context
      /\ p.start + p.samples = total \/ p.start + p.samples >= (p.end - 1) * Hop + context
  BY WindowPlanIs
<1>2. Hop \in Nat \ {0} BY PlanAssumption
<1> DEFINE W == WindowFrames(p)
           F(j) == first + j - 1
           R(j) == [frame |-> F(j), left |-> F(j) * Hop - p.start, right |-> p.start + p.samples - F(j) * Hop]
<1>3. W = [j \in 1..p.count |-> R(j)]
  <2>1. W = [j \in 1..p.count |->
        LET frame == p.start \div Hop + p.crop + j - 1
        IN [frame |-> frame, left |-> frame * Hop - p.start, right |-> p.start + p.samples - frame * Hop]]
    BY DEF WindowFrames
  <2>2. \A j \in 1..p.count : p.start \div Hop + p.crop + j - 1 = F(j)
    <3> TAKE j \in 1..p.count
    <3> DEFINE q == p.start \div Hop
               c == p.crop
    <3>0. q + c = first /\ j \in Int BY <1>1
    <3> HIDE DEF q, c
    <3>1. q + c + j - 1 = first + j - 1 BY <3>0
    <3> QED BY <3>1 DEF q, c
  <2> HIDE DEF W
  <2> QED BY <2>1, <2>2
<1>4. \A j \in 1..p.count : F(j) \in Int /\ F(j) * Hop \in Int BY <1>1, <1>2
<1>5. \A j \in 1..p.count : R(j) \in [frame : Int, left : Int, right : Int] BY <1>1, <1>4
<1>6. W \in [1..p.count -> [frame : Int, left : Int, right : Int]]
  <2> HIDE DEF R, W
  <2> QED BY <1>3, <1>5
<1>7. W \in Seq([frame : Int, left : Int, right : Int]) /\ Len(W) = p.count
  <2> DEFINE V == [frame : Int, left : Int, right : Int]
             n == p.count
  <2>1. W \in [1..n -> V] /\ n \in Nat BY <1>1, <1>6
  <2> HIDE DEF W, V, n
  <2>2. W \in Seq(V) /\ Len(W) = n BY <2>1, SeqIs
  <2> QED BY <2>2 DEF V, n
<1>8. ASSUME NEW j \in 1..p.count PROVE FrameSeen(W[j], first + j, total, context)
  <2> DEFINE f == F(j)
             l == f * Hop - p.start
             r == p.start + p.samples - f * Hop
  <2>1. W[j] = R(j) /\ W[j].frame = f /\ W[j].left = l /\ W[j].right = r BY <1>3
  <2>2. f \in Int /\ f * Hop \in Int /\ first <= f /\ f <= p.end - 1 /\ f = (first + j) - 1 /\ p.end - 1 \in Int
    BY <1>1, <1>2
  <2> HIDE DEF W, f
  <2>3. first * Hop <= f * Hop /\ f * Hop <= (p.end - 1) * Hop /\ first * Hop \in Int /\ (p.end - 1) * Hop \in Int
    BY <1>2, <2>2, Multiples
  <2>4. l >= Min({context, f * Hop})
    <3>1. Min({context, f * Hop}) = IF context <= f * Hop THEN context ELSE f * Hop BY <2>2, MinOfTwo
    <3> QED BY <1>1, <2>2, <2>3, <3>1
  <2>5. r >= Min({context, total - f * Hop})
    <3>1. Min({context, total - f * Hop}) = IF context <= total - f * Hop THEN context ELSE total - f * Hop
      <4>1. total - f * Hop \in Int BY <2>2
      <4> QED BY <4>1, MinOfTwo
    <3> QED BY <1>1, <2>2, <2>3, <3>1
  <2> QED BY <2>1, <2>2, <2>4, <2>5 DEF FrameSeen
<1> QED BY <1>7, <1>8

LEMMA NextWindowIs ==
    ASSUME NEW total \in Nat \ {0}, NEW context \in Nat \ {0}, context % Hop = 0, NEW s \in Covered(total, context)
    PROVE  /\ NextWindow(total, context, s) \in Covered(total, context)
           /\ NextWindow(total, context, s).first > s.first \/ NextWindow(total, context, s).first = total \div Hop + 1
<1> DEFINE fs == total \div Hop + 1
           p == PlanF0Window(total, s.first, context)
           V == [frame : Int, left : Int, right : Int]
<1>0. /\ s.first \in Int /\ s.first >= 0 /\ s.first <= fs /\ s.out \in Seq(V) /\ Len(s.out) = s.first
      /\ \A i \in 1..s.first : FrameSeen(s.out[i], i, total, context)
  BY DEF Covered
<1>00. fs \in Int BY Sizes, Divide
<1>1. CASE s.first >= fs
  <2>1. NextWindow(total, context, s) = s BY <1>1 DEF NextWindow
  <2>2. s.first = fs
    <3> HIDE DEF fs
    <3> QED BY <1>0, <1>00, <1>1
  <2> QED BY <2>1, <2>2
<1>2. CASE ~(s.first >= fs)
  <2> DEFINE out == s.out
             first == s.first
             W == WindowFrames(p)
             n == p.count
  <2>0. first \in Nat /\ first < fs
    <3> HIDE DEF fs
    <3> QED BY <1>0, <1>00, <1>2
  <2>1. /\ p.valid /\ n \in Nat \ {0} /\ p.end = first + n /\ p.end <= fs BY <2>0, WindowPlanIs
  <2>2. W \in Seq(V) /\ Len(W) = n /\ \A j \in 1..n : FrameSeen(W[j], first + j, total, context)
    BY <2>0, WindowFramesAre
  <2>3. NextWindow(total, context, s) = [first |-> p.end, out |-> out \o W]
    BY <1>2, <2>1 DEF NextWindow, PlanWindow
  <2> HIDE DEF W, n, p, V, fs
  <2> DEFINE t == out \o W
  <2>4. out \in Seq(V) /\ Len(out) = first BY <1>0
  <2>5. t \in Seq(V) /\ Len(t) = first + n
        /\ \A i \in 1..(first + n) : t[i] = IF i <= first THEN out[i] ELSE W[i - first]
    <3> HIDE DEF out, first
    <3> QED BY <2>2, <2>4, ConcatProperties, ZenonT(30)
  <2> HIDE DEF t
  <2>6. ASSUME NEW i \in 1..p.end PROVE FrameSeen(t[i], i, total, context)
    <3>0. i \in 1..(first + n) BY <2>1
    <3>1. CASE i <= first
      <4>1. i \in 1..first /\ t[i] = out[i] BY <2>5, <3>0, <3>1
      <4> QED BY <1>0, <4>1
    <3>2. CASE ~(i <= first)
      <4>1. i - first \in 1..n /\ first + (i - first) = i /\ t[i] = W[i - first]
        BY <2>0, <2>1, <2>5, <3>0, <3>2, SMTT(30)
      <4> QED BY <2>2, <4>1
    <3> QED BY <3>1, <3>2
  <2> DEFINE u == [first |-> p.end, out |-> t]
  <2>7. u.first = p.end /\ u.out = t OBVIOUS
  <2>8. p.end \in 0..fs /\ p.end > first BY <1>00, <2>0, <2>1
  <2>9. u \in [first : 0..fs, out : Seq(V)] BY <2>5, <2>8
  <2>10. NextWindow(total, context, s) = u BY <2>3 DEF t
  <2> HIDE DEF u
  <2>11. u \in Covered(total, context) BY <2>1, <2>5, <2>6, <2>7, <2>9 DEF Covered, fs, V
  <2> QED BY <2>7, <2>8, <2>10, <2>11
<1> QED BY <1>1, <1>2

LEMMA WindowsAreWhole ==
    ASSUME NEW total \in Nat \ {0}, NEW context \in Nat \ {0}, context % Hop = 0
    PROVE  /\ Len(RawF0(total, context)) = total \div Hop + 1
           /\ \A i \in DOMAIN RawF0(total, context) : FrameSeen(RawF0(total, context)[i], i, total, context)
<1> DEFINE m == total \div Hop + 1
           V == Covered(total, context)
           T(v, k) == NextWindow(total, context, v)
           start == [first |-> 0, out |-> <<>>]
           G == [p \in V \X (1..m) |-> T(p[1], p[2])]
           Eq(g) == g = [k \in 0..m |-> IF k = 0 THEN start ELSE T(g[k - 1], k)]
           c == CHOOSE g : Eq(g)
<1>0. m \in Nat
  <2> DEFINE h == total \div Hop
  <2>1. h \in Int BY Sizes, Divide
  <2>2. 0 <= h
    <3>1. 0 * Hop <= total BY PlanAssumption
    <3> QED BY <3>1, Sizes, QuotientAbove
  <2> HIDE DEF h
  <2> QED BY <2>1, <2>2 DEF h
<1>1. start \in V
  <2>1. start.first = 0 /\ start.out = <<>> /\ Len(<<>>) = 0 /\ 0 \in 0..m BY <1>0
  <2>2. <<>> \in Seq([frame : Int, left : Int, right : Int]) BY EmptySeq
  <2>3. start \in [first : 0..m, out : Seq([frame : Int, left : Int, right : Int])] BY <2>1, <2>2
  <2> HIDE DEF start
  <2>4. \A i \in 1..start.first : FALSE BY <2>1
  <2> QED BY <2>1, <2>3, <2>4 DEF Covered
<1>2. \A v \in V, k \in 1..m : T(v, k) \in V BY NextWindowIs
<1>20. \A v \in V, k \in 1..m : v.first \in Int /\ v.first <= m /\ (T(v, k).first > v.first \/ T(v, k).first = m)
  <2> TAKE v \in V, k \in 1..m
  <2>1. T(v, k).first > v.first \/ T(v, k).first = total \div Hop + 1 BY NextWindowIs
  <2>2. v.first \in Int /\ v.first <= m BY DEF Covered
  <2> QED BY <2>1, <2>2
<1>21. \A v \in V : v.first \in Int /\ v.first <= m /\ v.first >= 0 BY DEF Covered
<1>22. RawF0(total, context) = c[m].out BY DEF RawF0, Iterated
<1> HIDE DEF T, start, V, m
<1>3. G \in [V \X (1..m) -> V] BY <1>2
<1>4. PICK f : f \in [0..m -> V] /\ f[0] = start /\ \A k \in 0..(m - 1) : f[k + 1] = G[<<f[k], k + 1>>]
  <2> HIDE DEF G, Eq, c
  <2>1. PICK f : Runs(f, m, V, start, G) BY <1>0, <1>1, <1>3, LoopOf
  <2> QED BY <2>1 DEF Runs
<1>5. \A k \in 0..(m - 1) : f[k + 1] = T(f[k], k + 1)
  <2> TAKE k \in 0..(m - 1)
  <2>1. k + 1 \in 1..m /\ f[k] \in V BY <1>0, <1>4
  <2> QED BY <1>4, <2>1
<1> HIDE DEF G
<1>6. Eq(f)
  <2>1. f = [k \in 0..m |-> f[k]] BY <1>4
  <2>2. \A k \in 0..m : f[k] = IF k = 0 THEN start ELSE T(f[k - 1], k)
    <3>1. \A k \in 0..m : k = 0 \/ (k - 1 \in 0..(m - 1) /\ (k - 1) + 1 = k) BY <1>0
    <3> QED BY <1>4, <1>5, <3>1
  <2> QED BY <2>1, <2>2
<1>7. Eq(c) BY <1>6
<1> HIDE DEF c
<1>8. \A k \in 0..m : c[k] = f[k]
  <2>1. c[0] = start BY <1>0, <1>7
  <2>2. \A k \in 0..(m - 1) : c[k + 1] = T(c[k], k + 1)
    <3>1. \A k \in 0..(m - 1) : k + 1 \in 0..m /\ k + 1 # 0 /\ (k + 1) - 1 = k BY <1>0
    <3> QED BY <1>7, <3>1
  <2>3. \A k \in 0..(m - 1) : c[k] = f[k] => c[k + 1] = f[k + 1] BY <1>5, <2>2
  <2>4. c[0] = f[0] BY <1>4, <2>1
  <2> HIDE DEF Eq, T
  <2>5. Agree(c, f, m) BY <2>3, <2>4 DEF Agree
  <2> QED BY <1>0, <2>5, SameTurns
<1> HIDE DEF Eq
\* Every turn reads a window, until the last frame is reached.
<1>9. \A k \in 0..m : f[k].first >= k
  <2> DEFINE S == {k \in Nat : k <= m => f[k].first >= k}
  <2>1. 0 \in S
    <3>1. f[0] \in V BY <1>0, <1>4
    <3> QED BY <1>21, <3>1
  <2>2. ASSUME NEW k \in S, k + 1 <= m PROVE f[k + 1].first >= k + 1
    <3>1. k \in 0..m /\ k \in 0..(m - 1) /\ k + 1 \in 1..m /\ k + 1 \in 0..m /\ k \in Nat BY <1>0, <2>2
    <3>2. f[k] \in V /\ f[k + 1] \in V /\ f[k].first >= k /\ f[k + 1] = T(f[k], k + 1)
      BY <1>4, <1>5, <2>2, <3>1
    <3>3. f[k + 1].first > f[k].first \/ f[k + 1].first = m BY <1>20, <3>1, <3>2
    <3>4. f[k].first \in Int /\ f[k + 1].first \in Int BY <1>21, <3>2
    <3> QED BY <2>2, <3>1, <3>2, <3>3, <3>4
  <2>3. S \in SUBSET Nat /\ \A k \in S : k + 1 \in S BY <2>2
  <2>4. \A k \in 0..m : k \in S => f[k].first >= k OBVIOUS
  <2> HIDE DEF S
  <2>5. S = Nat BY <2>1, <2>3, InductionOf
  <2> QED BY <2>4, <2>5
<1>10. m \in 0..m BY <1>0
<1>11. f[m] \in V /\ f[m].first >= m /\ c[m] = f[m] BY <1>4, <1>8, <1>9, <1>10
<1>12. f[m].first = m BY <1>0, <1>11, <1>21
<1> DEFINE out == f[m].out
<1>13. out \in Seq([frame : Int, left : Int, right : Int]) /\ Len(out) = f[m].first
       /\ \A i \in 1..f[m].first : FrameSeen(out[i], i, total, context)
  BY <1>11 DEF V, Covered
<1>14. RawF0(total, context) = out BY <1>11, <1>22
<1> HIDE DEF out
<1>15. DOMAIN out = 1..m BY <1>12, <1>13, LenProperties
<1> QED BY <1>12, <1>13, <1>14, <1>15 DEF m
----------------------------------------
(* The median and the pitch shift. *)

LEMMA RadiusIs == ASSUME NEW filter \in Nat PROVE Radius(filter) \in Nat
<1>1. filter \div 2 \in Int /\ 0 <= filter \div 2
  <2>1. 0 * 2 <= filter OBVIOUS
  <2> QED BY <2>1, Divide, QuotientAbove
<1> QED BY <1>1 DEF Radius

LEMMA ClampIs ==
    ASSUME NEW i \in Int, NEW low \in Int, NEW high \in Int, low <= high
    PROVE  Clamp(i, low, high) = IF i < low THEN low ELSE IF i > high THEN high ELSE i
<1>1. Min({high, i}) = IF high <= i THEN high ELSE i BY MinOfTwo
<1> DEFINE m == Min({high, i})
<1>2. m \in Int BY <1>1
<1> HIDE DEF m
<1>3. Max({low, m}) = IF low >= m THEN low ELSE m BY <1>2, MaxOfTwo
<1> QED BY <1>1, <1>2, <1>3 DEF Clamp, m

\* Each block with its halo has the windows of the whole curve.
LEMMA ProcessedIs ==
    ASSUME NEW f \in Seq(Int), NEW filter \in Nat, NEW key
    PROVE  Processed(f, filter, key) = [i \in 1..Len(f) |-> Shift(MedianFilter(f, filter)[i], key)]
<1> DEFINE n == Len(f)
           r == Radius(filter)
           W == [i \in 1..n |-> Shift(MedianFilter(f, filter)[i], key)]
           V == {W[i] : i \in 1..n}
           At(o, c, i) == Read(f, Max({0, o - r}), Min({n, o + c + r}) - Max({0, o - r}))
                            [Clamp(i, 0, n - 1) - Max({0, o - r}) + 1]
           P(o, c) == [k \in 1..c |-> Shift(Middle([d \in 1..(2 * r + 1) |-> At(o, c, o + k - 1 + d - 1 - r)]), key)]
           piece == [b \in Range(Blocks(n)) |-> P(b.offset, b.count)]
<1>0. n \in Nat /\ DOMAIN f = 1..n /\ r \in Nat BY LenProperties, RadiusIs
<1>1. W \in Seq(V) /\ Len(W) = n
  <2>1. W \in [1..n -> V]
    <3>1. W = [i \in 1..n |-> W[i]] OBVIOUS
    <3> QED BY <3>1
  <2> HIDE DEF W, V
  <2> QED BY <1>0, <2>1, SeqIs
<1>2. Processed(f, filter, key) = Streamed(n, piece) BY DEF Processed
<1>3. \A i \in 1..n : W[i] = Shift(Middle([d \in 1..(2 * r + 1) |-> f[Clamp(i + d - 1 - r, 1, n)]]), key)
  BY <1>0 DEF MedianFilter
<1>4. \A b \in Range(Blocks(n)) : piece[b] = P(b.offset, b.count) OBVIOUS
<1> HIDE DEF W, V, piece, n, r
\* The halo of a block has every sample of its windows.
<1>5. ASSUME NEW o \in Nat, NEW c \in Nat \ {0}, o + c <= n, NEW k \in 1..c, NEW d \in 1..(2 * r + 1)
      PROVE  At(o, c, o + k - 1 + d - 1 - r) = f[Clamp((o + k) + d - 1 - r, 1, n)]
  <2> DEFINE hs == Max({0, o - r})
             he == Min({n, o + c + r})
             j == Clamp(o + k - 1 + d - 1 - r, 0, n - 1)
  <2>1. hs = (IF 0 >= o - r THEN 0 ELSE o - r) /\ he = IF n <= o + c + r THEN n ELSE o + c + r
    BY <1>0, <1>5, MaxOfTwo, MinOfTwo
  <2>2. j = IF o + k - 1 + d - 1 - r < 0 THEN 0
            ELSE IF o + k - 1 + d - 1 - r > n - 1 THEN n - 1 ELSE o + k - 1 + d - 1 - r
    <3>1. o + k - 1 + d - 1 - r \in Int /\ n - 1 \in Int /\ 0 <= n - 1 BY <1>0, <1>5
    <3> QED BY <3>1, ClampIs
  <2>3. Clamp((o + k) + d - 1 - r, 1, n) = j + 1
    <3>1. (o + k) + d - 1 - r \in Int /\ 1 <= n BY <1>0, <1>5
    <3>2. Clamp((o + k) + d - 1 - r, 1, n) = IF (o + k) + d - 1 - r < 1 THEN 1
            ELSE IF (o + k) + d - 1 - r > n THEN n ELSE (o + k) + d - 1 - r
      BY <1>0, <3>1, ClampIs
    <3> HIDE DEF j
    <3> QED BY <1>0, <1>5, <2>2, <3>2
  <2> HIDE DEF hs, he, j
  <2>4. hs \in Nat /\ he - hs \in Nat /\ hs + (he - hs) <= n /\ j - hs + 1 \in 1..(he - hs) /\ hs + (j - hs + 1) = j + 1
    BY <1>0, <1>5, <2>1, <2>2
  <2> DEFINE l == he - hs
             a == j - hs + 1
  <2>5. l \in Nat /\ hs + l <= Len(f) /\ a \in 1..l /\ hs + a = j + 1 BY <2>4 DEF n
  <2>6. At(o, c, o + k - 1 + d - 1 - r) = Read(f, hs, l)[a] BY DEF hs, he, j
  <2> HIDE DEF l, a
  <2>7. Read(f, hs, l)[a] = f[hs + a]
    <3>1. hs \in Nat /\ l \in Nat /\ hs + l <= Len(f) BY <2>4, <2>5
    <3>2. \A i \in 1..l : Read(f, hs, l)[i] = f[hs + i] BY <3>1, ReadIs
    <3> QED BY <2>5, <3>2
  <2> QED BY <2>3, <2>5, <2>6, <2>7
<1>6. ASSUME NEW o \in Nat, NEW c \in Nat \ {0}, o + c <= n PROVE P(o, c) = Read(W, o, c)
  <2> DEFINE v == Read(W, o, c)
  <2>1. v \in Seq(V) /\ Len(v) = c /\ \A k \in 1..c : v[k] = W[o + k]
    <3>1. W \in Seq(V) /\ o \in Nat /\ c \in Nat /\ o + c <= Len(W) BY <1>1, <1>6
    <3> HIDE DEF v
    <3>2. Read(W, o, c) \in Seq(V) /\ Len(Read(W, o, c)) = c /\ \A k \in 1..c : Read(W, o, c)[k] = W[o + k]
      BY <3>1, ReadIs
    <3> QED BY <3>2 DEF v
  <2>2. ASSUME NEW k \in 1..c PROVE P(o, c)[k] = v[k]
    <3>1. o + k \in 1..n BY <1>0, <1>6
    <3>2. [d \in 1..(2 * r + 1) |-> At(o, c, o + k - 1 + d - 1 - r)]
            = [d \in 1..(2 * r + 1) |-> f[Clamp((o + k) + d - 1 - r, 1, n)]]
      <4> HIDE DEF At
      <4> QED BY <1>5, <1>6
    <3>3. v[k] = Shift(Middle([d \in 1..(2 * r + 1) |-> f[Clamp((o + k) + d - 1 - r, 1, n)]]), key)
      <4> HIDE DEF v
      <4> QED BY <1>3, <2>1, <3>1
    <3>4. P(o, c)[k] = Shift(Middle([d \in 1..(2 * r + 1) |-> At(o, c, o + k - 1 + d - 1 - r)]), key)
      <4> HIDE DEF At
      <4> QED OBVIOUS
    <3> HIDE DEF At, P, v
    <3> QED BY <3>2, <3>3, <3>4
  <2>3. P(o, c) = [k \in 1..c |-> P(o, c)[k]]
    <3> HIDE DEF At
    <3> QED OBVIOUS
  <2>4. v = [k \in 1..c |-> v[k]]
    <3> HIDE DEF v
    <3> QED BY <2>1
  <2> HIDE DEF P, v
  <2>5. P(o, c) = v BY <2>2, <2>3, <2>4
  <2> QED BY <2>5 DEF v
<1> HIDE DEF P
<1>7. ASSUME NEW k \in 1..Len(Blocks(n)) PROVE piece[Blocks(n)[k]] = Read(W, Blocks(n)[k].offset, Blocks(n)[k].count)
  <2> DEFINE o == Blocks(n)[k].offset
             c == Blocks(n)[k].count
  <2>1. /\ DOMAIN Blocks(n) = 1..Len(Blocks(n)) /\ Blocks(n)[k].offset \in Nat
        /\ Blocks(n)[k].count \in Nat \ {0} /\ Len(Blocks(n)) \in Nat
        /\ Blocks(n)[k].offset + Blocks(n)[k].count = Edge(n, k)
        /\ \A j \in 0..Len(Blocks(n)) : Edge(n, j) \in 0..n
    BY <1>0, BlocksAre
  <2>2. k \in 0..Len(Blocks(n)) BY <2>1
  <2>3. Edge(n, k) <= n BY <1>0, <2>1, <2>2
  <2>4. Blocks(n)[k] \in Range(Blocks(n)) BY <2>1 DEF Range
  <2>5. piece[Blocks(n)[k]] = P(o, c) BY <1>4, <2>4
  <2>6. o \in Nat /\ c \in Nat \ {0} /\ o + c <= n BY <2>1, <2>3
  <2> HIDE DEF o, c
  <2>7. P(o, c) = Read(W, o, c) BY <1>6, <2>6
  <2> QED BY <2>5, <2>7 DEF o, c
<1>8. Streamed(n, piece) = W BY <1>1, <1>7, StreamedIs
<1> QED BY <1>2, <1>8 DEF W, n
----------------------------------------
(* Gaps of the pitch curve. *)

LEMMA LargestOf ==
    ASSUME NEW T \in SUBSET Nat, T # {}, NEW n \in Nat, \A k \in T : k <= n
    PROVE  Max(T) \in T /\ \A k \in T : k <= Max(T)
<1> DEFINE D == {n - k : k \in T}
<1>1. D \in SUBSET Nat /\ D # {}
  <2>1. \A k \in T : n - k \in Nat OBVIOUS
  <2>2. PICK k \in T : TRUE OBVIOUS
  <2>3. n - k \in D OBVIOUS
  <2> QED BY <2>1, <2>3
<1>2. PICK d \in D : \A e \in D : d <= e
  <2> HIDE DEF D
  <2> QED BY <1>1, LeastOf
<1>3. PICK m \in T : d = n - m BY <1>2
<1> HIDE DEF D
<1>4. \A k \in T : k <= m
  <2> TAKE k \in T
  <2>1. n - m <= n - k BY <1>2, <1>3 DEF D
  <2>2. m \in Nat /\ k \in Nat OBVIOUS
  <2> QED BY <2>1, <2>2
<1>5. \E x \in T : \A k \in T : x >= k
  <2>1. \A k \in T : m >= k BY <1>4
  <2> QED BY <2>1
<1>6. Max(T) \in T /\ \A k \in T : Max(T) >= k BY <1>5 DEF Max
<1> QED BY <1>6

LEMMA MinIs == ASSUME NEW T \in SUBSET Nat, NEW m \in T, \A k \in T : m <= k PROVE Min(T) = m
<1>1. Min(T) \in T /\ \A k \in T : Min(T) <= k BY MinOf
<1>2. Min(T) <= m /\ m <= Min(T) /\ Min(T) \in Nat BY <1>1
<1> QED BY <1>2

LEMMA BetweenIs ==
    ASSUME NEW a \in Int, NEW u \in Int, NEW b \in Int, NEW v \in Int, NEW i \in Int, a < b
    PROVE  Between(a, u, b, v, i) \in Int /\ Between(a, u, b, v, b) = v
<1> DEFINE d == b - a
           w == v - u
<1>1. d \in Nat \ {0} /\ w \in Int OBVIOUS
<1>2. Between(a, u, b, v, i) = u + (w * (i - a)) \div d /\ Between(a, u, b, v, b) = u + (w * d) \div d
  BY DEF Between
<1>3. w = v - u OBVIOUS
<1> HIDE DEF d, w
<1>4. (w * d) \div d = w BY <1>1, MultipleIsWhole
<1> DEFINE e == w * (i - a)
<1>5. e \in Int BY <1>1
<1> HIDE DEF e
<1>6. e \div d \in Int BY <1>1, <1>5, Divide
<1>7. u + e \div d \in Int /\ u + w = v BY <1>1, <1>3, <1>6
<1> QED BY <1>2, <1>4, <1>7 DEF e

\* The values of the whole curve.
LEMMA CurveIs ==
    ASSUME NEW raw \in Seq(Nat), Voiced(raw) # {}
    PROVE  /\ InterpUnvoiced(raw) \in Seq(Int) /\ Len(InterpUnvoiced(raw)) = Len(raw)
           /\ Min(Voiced(raw)) \in Voiced(raw) /\ Max(Voiced(raw)) \in Voiced(raw)
           /\ Voiced(raw) \subseteq 1..Len(raw)
           /\ \A v \in Voiced(raw) : Min(Voiced(raw)) <= v /\ v <= Max(Voiced(raw))
                                     /\ InterpUnvoiced(raw)[v] = raw[v]
           /\ \A i \in 1..Len(raw) :
                /\ i < Min(Voiced(raw)) => InterpUnvoiced(raw)[i] = raw[Min(Voiced(raw))]
                /\ i > Max(Voiced(raw)) => InterpUnvoiced(raw)[i] = raw[Max(Voiced(raw))]
                /\ \A a, b \in Voiced(raw) :
                     a < i /\ i < b /\ (\A v \in Voiced(raw) : v <= a \/ v >= b)
                       => InterpUnvoiced(raw)[i] = Between(a, raw[a], b, raw[b], i)
<1> DEFINE n == Len(raw)
           U == Voiced(raw)
           W == InterpUnvoiced(raw)
           lo == Min(U)
           hi == Max(U)
           L(i) == Max({v \in U : v < i})
           R(i) == Min({v \in U : v > i})
           C(i) == CASE i < lo -> raw[lo]
                     [] i > hi -> raw[hi]
                     [] raw[i] > 0 -> raw[i]
                     [] OTHER -> Between(L(i), raw[L(i)], R(i), raw[R(i)], i)
<1>0. n \in Nat /\ DOMAIN raw = 1..n /\ \A i \in 1..n : raw[i] \in Nat BY LenProperties, ElementOfSeq
<1>1. U \subseteq 1..n /\ U \in SUBSET Nat /\ U # {} /\ \A i \in 1..n : i \in U <=> raw[i] > 0
  BY <1>0 DEF Voiced
<1>2. W = [i \in 1..n |-> C(i)] BY <1>0 DEF InterpUnvoiced
<1> HIDE DEF U, W, n
<1>3. lo \in U /\ \A v \in U : lo <= v BY <1>1, MinOf
<1>4. hi \in U /\ \A v \in U : v <= hi
  <2>1. \A v \in U : v <= n BY <1>0, <1>1
  <2> QED BY <1>0, <1>1, <2>1, LargestOf
<1> HIDE DEF lo, hi
<1>5. ASSUME NEW i \in 1..n, ~(i < lo), ~(i > hi), ~(raw[i] > 0)
      PROVE  L(i) \in U /\ R(i) \in U /\ L(i) < i /\ i < R(i)
             /\ (\A v \in U : v < i => v <= L(i)) /\ (\A v \in U : v > i => R(i) <= v)
  <2>0. i \notin U /\ i # lo /\ i # hi /\ lo \in Nat /\ hi \in Nat /\ i \in Nat
    BY <1>0, <1>1, <1>3, <1>4, <1>5
  <2>1. lo < i /\ i < hi BY <1>5, <2>0
  <2> DEFINE A == {v \in U : v < i}
             B == {v \in U : v > i}
  <2>2. A \in SUBSET Nat /\ A # {} /\ B \in SUBSET Nat /\ B # {} /\ \A k \in A : k <= i
    <3>1. A \in SUBSET Nat /\ B \in SUBSET Nat BY <1>1
    <3>2. lo \in A /\ hi \in B BY <1>3, <1>4, <2>1
    <3>3. \A k \in A : k <= i BY <1>1, <2>0
    <3> HIDE DEF A, B
    <3> QED BY <3>1, <3>2, <3>3
  <2> HIDE DEF A, B
  <2>3. Max(A) \in A /\ (\A k \in A : k <= Max(A)) /\ Min(B) \in B /\ \A k \in B : Min(B) <= k
    BY <2>0, <2>2, LargestOf, MinOf
  <2> QED BY <2>3 DEF A, B
<1>6. ASSUME NEW i \in 1..n PROVE C(i) \in Int
  <2>1. raw[lo] \in Int /\ raw[hi] \in Int /\ raw[i] \in Int BY <1>0, <1>1, <1>3, <1>4
  <2>2. CASE ~(i < lo) /\ ~(i > hi) /\ ~(raw[i] > 0)
    <3>1. L(i) \in U /\ R(i) \in U /\ L(i) < i /\ i < R(i) BY <1>5, <2>2
    <3>2. C(i) = Between(L(i), raw[L(i)], R(i), raw[R(i)], i) BY <2>2
    <3> DEFINE a == L(i)
               b == R(i)
    <3> HIDE DEF C
    <3>3. a \in U /\ b \in U /\ a < i /\ i < b /\ C(i) = Between(a, raw[a], b, raw[b], i) BY <3>1, <3>2
    <3> HIDE DEF a, b
    <3>4. a \in Int /\ b \in Int /\ raw[a] \in Int /\ raw[b] \in Int /\ i \in Int BY <1>0, <1>1, <3>3
    <3>5. a < b BY <3>3, <3>4
    <3>6. Between(a, raw[a], b, raw[b], i) \in Int BY <3>4, <3>5, BetweenIs
    <3> QED BY <3>3, <3>6
  <2>3. CASE i < lo \/ i > hi \/ raw[i] > 0
    <3> HIDE DEF L, R
    <3> QED BY <2>1, <2>3
  <2> QED BY <2>2, <2>3
<1>7. W \in Seq(Int) /\ Len(W) = n
  <2> HIDE DEF C
  <2>1. W \in [1..n -> Int] BY <1>2, <1>6
  <2> QED BY <1>0, <2>1, SeqIs
<1>8. \A v \in U : W[v] = raw[v]
  <2> TAKE v \in U
  <2>1. v \in 1..n /\ ~(v < lo) /\ ~(v > hi) /\ raw[v] > 0
    <3>1. v \in 1..n /\ lo <= v /\ v <= hi /\ lo \in Nat /\ hi \in Nat BY <1>1, <1>3, <1>4
    <3> QED BY <1>0, <1>1, <3>1
  <2>2. C(v) = raw[v]
    <3> HIDE DEF L, R
    <3> QED BY <2>1
  <2> HIDE DEF C
  <2> QED BY <1>2, <2>1, <2>2
<1>9. ASSUME NEW i \in 1..n
      PROVE  /\ i < lo => W[i] = raw[lo]
             /\ i > hi => W[i] = raw[hi]
             /\ \A a, b \in U : a < i /\ i < b /\ (\A v \in U : v <= a \/ v >= b)
                                  => W[i] = Between(a, raw[a], b, raw[b], i)
  <2>0. W[i] = C(i)
    <3> HIDE DEF C
    <3> QED BY <1>2
  <2>1. lo <= hi /\ lo \in Nat /\ hi \in Nat BY <1>1, <1>3, <1>4
  <2>2. (i < lo => C(i) = raw[lo]) /\ (i > hi => C(i) = raw[hi])
    <3> HIDE DEF L, R
    <3>1. (i > hi => ~(i < lo)) /\ (i < lo => ~(i > hi)) BY <1>0, <2>1
    <3>2. i < lo \/ i > hi => ~(raw[i] > 0)
      <4>1. i < lo \/ i > hi => i \notin U BY <1>0, <1>3, <1>4, <2>1
      <4> QED BY <1>1, <4>1
    <3> QED BY <3>1, <3>2
  <2>3. ASSUME NEW a \in U, NEW b \in U, a < i, i < b, \A v \in U : v <= a \/ v >= b
        PROVE  C(i) = Between(a, raw[a], b, raw[b], i)
    <3>0. a \in Nat /\ b \in Nat /\ lo <= a /\ b <= hi BY <1>1, <1>3, <1>4
    <3>1. i \notin U
      <4> SUFFICES ASSUME i \in U PROVE FALSE OBVIOUS
      <4>1. i <= a \/ i >= b BY <2>3
      <4> QED BY <2>3, <3>0, <4>1
    <3>2. ~(i < lo) /\ ~(i > hi) /\ ~(raw[i] > 0) BY <1>1, <2>1, <2>3, <3>0, <3>1
    <3>3. C(i) = Between(L(i), raw[L(i)], R(i), raw[R(i)], i) BY <3>2
    <3>4. L(i) \in U /\ R(i) \in U /\ L(i) < i /\ i < R(i)
          /\ (\A v \in U : v < i => v <= L(i)) /\ (\A v \in U : v > i => R(i) <= v)
      BY <1>5, <3>2
    <3> HIDE DEF L, R, C
    <3>5. L(i) = a
      <4>1. L(i) \in Nat /\ a <= L(i) /\ (L(i) <= a \/ L(i) >= b) BY <1>1, <2>3, <3>4
      <4> QED BY <2>3, <3>0, <3>4, <4>1
    <3>6. R(i) = b
      <4>1. R(i) \in Nat /\ R(i) <= b /\ (R(i) <= a \/ R(i) >= b) BY <1>1, <2>3, <3>4
      <4> QED BY <2>3, <3>0, <3>4, <4>1
    <3> QED BY <3>3, <3>5, <3>6
  <2> HIDE DEF C
  <2> QED BY <2>0, <2>2, <2>3
<1> QED BY <1>1, <1>3, <1>4, <1>7, <1>8, <1>9 DEF U, W, n, lo, hi

\* The gap to a voiced frame, as the curve has it.
LEMMA GapIs ==
    ASSUME NEW raw \in Seq(Nat), NEW p \in Voiced(raw), NEW i \in Voiced(raw), p < i,
           \A v \in Voiced(raw) : v <= p \/ v >= i
    PROVE  LinearGap(p, raw[p], i, raw[i]) = Read(InterpUnvoiced(raw), p, i - p)
<1> DEFINE W == InterpUnvoiced(raw)
           g == LinearGap(p, raw[p], i, raw[i])
           d == i - p
<1>1. /\ W \in Seq(Int) /\ Len(W) = Len(raw) /\ Voiced(raw) \subseteq 1..Len(raw) /\ W[i] = raw[i]
      /\ \A t \in 1..Len(raw) : p < t /\ t < i => W[t] = Between(p, raw[p], i, raw[i], t)
  <2>1. Voiced(raw) # {} OBVIOUS
  <2> QED BY <2>1, CurveIs
<1>2. p \in Nat /\ i \in Nat /\ p >= 1 /\ i <= Len(raw) /\ Len(raw) \in Nat /\ raw[p] \in Int /\ raw[i] \in Int
  <2>1. p \in 1..Len(raw) /\ i \in 1..Len(raw) /\ Len(raw) \in Nat BY <1>1, LenProperties
  <2>2. raw[p] \in Nat /\ raw[i] \in Nat BY <2>1, ElementOfSeq
  <2> QED BY <2>1, <2>2
<1>3. d \in Nat /\ p + d = i BY <1>2
<1>4. g = [k \in 1..d |-> Between(p, raw[p], i, raw[i], p + k)] BY DEF LinearGap
<1> HIDE DEF W, d, g
<1>5. ASSUME NEW k \in 1..d PROVE g[k] = W[p + k]
  <2>1. g[k] = Between(p, raw[p], i, raw[i], p + k) /\ p + k \in 1..Len(raw) /\ p < p + k /\ p + k <= i
    BY <1>2, <1>3, <1>4
  <2>2. CASE p + k = i
    <3> DEFINE u == raw[p]
               v == raw[i]
    <3>1. p \in Int /\ i \in Int /\ u \in Int /\ v \in Int /\ p < i BY <1>2
    <3> HIDE DEF u, v
    <3>2. Between(p, u, i, v, i) = v BY <3>1, BetweenIs
    <3> QED BY <1>1, <2>1, <2>2, <3>2 DEF u, v
  <2>3. CASE p + k # i BY <1>2, <2>1, <2>3, <1>1
  <2> QED BY <2>2, <2>3
<1>6. Read(W, p, d) \in Seq(Int) /\ Len(Read(W, p, d)) = d /\ \A k \in 1..d : Read(W, p, d)[k] = W[p + k]
  <2>1. W \in Seq(Int) /\ p \in Nat /\ d \in Nat /\ p + d <= Len(W) BY <1>1, <1>2, <1>3
  <2> QED BY <2>1, ReadIs
<1> DEFINE r == Read(W, p, d)
<1>7. r = [k \in 1..d |-> r[k]] /\ g = [k \in 1..d |-> g[k]] /\ \A k \in 1..d : g[k] = r[k]
  <2>1. r \in Seq(Int) /\ Len(r) = d /\ \A k \in 1..d : r[k] = W[p + k] BY <1>6
  <2> HIDE DEF r
  <2>2. r = [k \in 1..d |-> r[k]] BY <2>1, LenProperties
  <2> QED BY <1>4, <1>5, <2>1, <2>2
<1> HIDE DEF r
<1>8. g = r BY <1>7
<1> QED BY <1>8 DEF g, r, W, d

\* The last voiced frame among the first ones.
LastVoiced(raw, i) == Max({v \in Voiced(raw) : v <= i})
LEMMA LastVoicedIs ==
    ASSUME NEW raw \in Seq(Nat), Voiced(raw) # {}, NEW i \in Nat, i >= Min(Voiced(raw))
    PROVE  /\ LastVoiced(raw, i) \in Voiced(raw) /\ LastVoiced(raw, i) <= i
           /\ \A v \in Voiced(raw) : v <= i => v <= LastVoiced(raw, i)
<1> DEFINE T == {v \in Voiced(raw) : v <= i}
<1>1. Voiced(raw) \subseteq 1..Len(raw) /\ Min(Voiced(raw)) \in Voiced(raw) BY CurveIs
<1>2. T \in SUBSET Nat /\ Min(Voiced(raw)) \in T /\ \A k \in T : k <= i BY <1>1
<1> HIDE DEF T
<1>3. Max(T) \in T /\ \A k \in T : k <= Max(T) BY <1>2, LargestOf
<1> QED BY <1>3 DEF T, LastVoiced

\* What the sweep has written after the frame i.
Swept(raw, i) ==
    [out |-> Read(InterpUnvoiced(raw), 0, LastVoiced(raw, i)),
     left |-> LastVoiced(raw, i), value |-> raw[LastVoiced(raw, i)]]

LEMMA SweepIs ==
    ASSUME NEW raw \in Seq(Nat), Voiced(raw) # {}, NEW j \in Min(Voiced(raw))..(Len(raw) - 1)
    PROVE  Swept(raw, j + 1) = SweepFrame(Swept(raw, j), j + 1, raw[j + 1])
<1> DEFINE U == Voiced(raw)
           W == InterpUnvoiced(raw)
           n == Len(raw)
           i == j + 1
           p == LastVoiced(raw, j)
           q == LastVoiced(raw, i)
<1>1. /\ W \in Seq(Int) /\ Len(W) = n /\ Min(U) \in U /\ U \subseteq 1..n BY CurveIs
<1>2. n \in Nat /\ j \in Nat /\ i \in Nat /\ i \in 1..n /\ raw[i] \in Nat /\ j >= Min(U) /\ i >= Min(U) /\ i = j + 1
      /\ (i \in U <=> raw[i] > 0)
  <2>1. n \in Nat /\ \A k \in 1..n : raw[k] \in Nat BY LenProperties, ElementOfSeq
  <2>2. Min(U) \in Nat /\ Min(U) >= 1 BY <1>1
  <2>3. j \in Nat /\ i \in 1..n /\ j >= Min(U) /\ i >= Min(U) BY <2>1, <2>2
  <2>4. DOMAIN raw = 1..n BY LenProperties
  <2> QED BY <2>1, <2>3, <2>4 DEF Voiced
<1>3. p \in U /\ p <= j /\ (\A v \in U : v <= j => v <= p) /\ q \in U /\ q <= i /\ (\A v \in U : v <= i => v <= q)
  BY <1>2, LastVoicedIs
<1>4. Swept(raw, i) = [out |-> Read(W, 0, q), left |-> q, value |-> raw[q]]
      /\ Swept(raw, j) = [out |-> Read(W, 0, p), left |-> p, value |-> raw[p]]
  BY DEF Swept
<1>5. p \in Nat /\ q \in Nat /\ \A v \in U : v \in Nat BY <1>1, <1>3, SMTT(30)
<1> HIDE DEF i, p, q, W
<1>6. CASE ~(raw[i] > 0)
  <2>1. i \notin U BY <1>2, <1>6
  <2>2. q # i /\ q <= j BY <1>2, <1>3, <1>5, <2>1
  <2>3. q = p
    <3>1. q <= p /\ p <= q BY <1>2, <1>3, <1>5, <2>2
    <3> QED BY <1>5, <3>1
  <2>4. raw[i] <= 0 BY <1>2, <1>6
  <2> QED BY <1>4, <2>3, <2>4 DEF SweepFrame, i
<1>7. CASE raw[i] > 0
  <2>1. i \in U BY <1>2, <1>7
  <2>2. q = i
    <3>1. i <= q BY <1>2, <1>3, <2>1
    <3> QED BY <1>2, <1>3, <1>5, <3>1
  <2>3. p < i /\ \A v \in U : v <= p \/ v >= i BY <1>2, <1>3, <1>5
  <2>4. LinearGap(p, raw[p], i, raw[i]) = Read(W, p, i - p) BY <1>3, <2>1, <2>3, GapIs DEF W
  <2>5. Read(W, 0, p) \o Read(W, p, i - p) = Read(W, 0, i)
    <3> DEFINE d == i - p
    <3>1. d \in Nat /\ p + d <= Len(W) /\ p + d = i BY <1>1, <1>2, <1>5, <2>3
    <3> HIDE DEF d
    <3>2. Read(W, 0, p) \o Read(W, p, d) = Read(W, 0, p + d) BY <1>1, <1>5, <3>1, ReadsJoin
    <3> QED BY <3>1, <3>2 DEF d
  <2>6. ~(raw[i] <= 0) BY <1>2, <1>7
  <2>7. SweepFrame(Swept(raw, j), i, raw[i]) = [out |-> Read(W, 0, p) \o LinearGap(p, raw[p], i, raw[i]), left |-> i, value |-> raw[i]]
    <3> DEFINE o == Read(W, 0, p)
               u == raw[p]
    <3>1. Swept(raw, j) = [out |-> o, left |-> p, value |-> u] BY <1>4
    <3> HIDE DEF o, u
    <3>2. SweepFrame([out |-> o, left |-> p, value |-> u], i, raw[i])
            = [out |-> o \o LinearGap(p, u, i, raw[i]), left |-> i, value |-> raw[i]]
      BY <2>6 DEF SweepFrame
    <3> QED BY <3>1, <3>2 DEF o, u
  <2> QED BY <1>4, <2>2, <2>4, <2>5, <2>7 DEF i
<1> QED BY <1>6, <1>7

LEMMA InterpolatedIs ==
    ASSUME NEW raw \in Seq(Nat)
    PROVE  Interpolated(raw) = InterpUnvoiced(raw) /\ InterpUnvoiced(raw) \in Seq(Int)
           /\ Len(InterpUnvoiced(raw)) = Len(raw)
<1> DEFINE n == Len(raw)
           U == Voiced(raw)
           W == InterpUnvoiced(raw)
           first == Min(U)
           last == Max(U)
           m == n - first
           start == [out |-> Repeated(raw[first], first), left |-> first, value |-> raw[first]]
           h == [k \in 0..m |-> Swept(raw, first + k)]
           T(v, k) == SweepFrame(v, first + k, raw[first + k])
           Eq(g) == g = [k \in 0..m |-> IF k = 0 THEN start ELSE T(g[k - 1], k)]
           c == CHOOSE g : Eq(g)
<1>1. CASE U = {}
  <2>1. raw \in Seq(Int) OBVIOUS
  <2> QED BY <1>1, <2>1 DEF Interpolated, InterpUnvoiced
<1>2. CASE U # {}
  <2>1. /\ W \in Seq(Int) /\ Len(W) = n /\ first \in U /\ last \in U /\ U \subseteq 1..n
        /\ \A v \in U : first <= v /\ v <= last /\ W[v] = raw[v]
        /\ \A i \in 1..n : (i < first => W[i] = raw[first]) /\ (i > last => W[i] = raw[last])
    BY <1>2, CurveIs
  <2>2. n \in Nat /\ first \in Nat /\ first >= 1 /\ first <= n /\ m \in Nat /\ first + m = n /\ last \in Nat
        /\ last <= n /\ first <= last
    <3>1. n \in Nat BY LenProperties
    <3> HIDE DEF n, U, first, last
    <3> QED BY <2>1, <3>1
  <2> DEFINE s == c[m]
  <2>3. Interpolated(raw) = s.out \o Repeated(s.value, n - s.left) BY <1>2 DEF Interpolated, Iterated
  <2> HIDE DEF n, W, first, last, m
  <2>4. LastVoiced(raw, first) = first /\ LastVoiced(raw, n) = last
    <3>1. LastVoiced(raw, first) \in U /\ LastVoiced(raw, first) <= first
      BY <1>2, <2>2, LastVoicedIs DEF first
    <3>2. LastVoiced(raw, n) \in U /\ \A v \in U : v <= n => v <= LastVoiced(raw, n)
      BY <1>2, <2>2, LastVoicedIs DEF first
    <3>3. first <= LastVoiced(raw, first) /\ LastVoiced(raw, first) \in Nat BY <2>1, <3>1
    <3>4. last <= LastVoiced(raw, n) /\ LastVoiced(raw, n) <= last /\ LastVoiced(raw, n) \in Nat
      BY <2>1, <2>2, <3>2
    <3> QED BY <2>2, <3>1, <3>3, <3>4
  <2>5. start = Swept(raw, first)
    <3> DEFINE r == Read(W, 0, first)
               t == Repeated(raw[first], first)
    <3>1. r \in Seq(Int) /\ Len(r) = first /\ \A k \in 1..first : r[k] = W[0 + k]
      <4>1. W \in Seq(Int) /\ 0 \in Nat /\ first \in Nat /\ 0 + first <= Len(W) BY <2>1, <2>2
      <4> QED BY <4>1, ReadIs
    <3>2. t = [k \in 1..first |-> raw[first]] BY DEF Repeated
    <3> HIDE DEF r, t
    <3>3. \A k \in 1..first : r[k] = raw[first]
      <4> TAKE k \in 1..first
      <4>1. 0 + k = k /\ k \in 1..n /\ (k = first \/ k < first) BY <2>2
      <4> QED BY <2>1, <3>1, <4>1
    <3>4. r = [k \in 1..first |-> r[k]] BY <3>1, LenProperties
    <3>5. r = t BY <3>2, <3>3, <3>4
    <3> QED BY <2>4, <3>5 DEF Swept, r, t, W
  <2>6. ASSUME NEW k \in 1..m PROVE h[k] = T(h[k - 1], k)
    <3> DEFINE j == first + (k - 1)
    <3>1. k - 1 \in 0..m /\ k \in 0..m /\ j \in first..(n - 1) /\ first + k = j + 1 BY <2>2
    <3>2. h[k] = Swept(raw, first + k) /\ h[k - 1] = Swept(raw, j) BY <3>1
    <3> HIDE DEF h, j
    <3>3. j \in Min(Voiced(raw))..(Len(raw) - 1) BY <3>1 DEF first, n
    <3>4. Swept(raw, j + 1) = SweepFrame(Swept(raw, j), j + 1, raw[j + 1]) BY <1>2, <3>3, SweepIs
    <3> QED BY <3>1, <3>2, <3>4
  <2>7. h[0] = start /\ h[m] = Swept(raw, n)
    <3>1. 0 \in 0..m /\ m \in 0..m /\ first + 0 = first /\ first + m = n BY <2>2
    <3> HIDE DEF start
    <3> QED BY <2>5, <3>1
  <2>8. h = [k \in 0..m |-> h[k]] OBVIOUS
  <2> HIDE DEF h, T, start
  <2>9. Eq(h)
    <3>1. \A k \in 0..m : k = 0 \/ k \in 1..m BY <2>2
    <3>2. \A k \in 0..m : h[k] = IF k = 0 THEN start ELSE T(h[k - 1], k) BY <2>6, <2>7, <3>1
    <3> QED BY <2>8, <3>2
  <2>10. Eq(c) BY <2>9
  <2> HIDE DEF c
  <2>11. Agree(c, h, m)
    <3>1. c[0] = start BY <2>2, <2>10
    <3>2. \A k \in 0..(m - 1) : k + 1 \in 0..m /\ k + 1 \in 1..m /\ k + 1 # 0 /\ (k + 1) - 1 = k BY <2>2
    <3>3. \A k \in 0..(m - 1) : c[k + 1] = T(c[k], k + 1) BY <2>10, <3>2
    <3> HIDE DEF Eq
    <3>4. \A k \in 0..(m - 1) : h[k + 1] = T(h[k], k + 1) BY <2>6, <3>2
    <3> QED BY <2>7, <3>1, <3>3, <3>4 DEF Agree
  <2> HIDE DEF Eq
  <2>12. c[m] = Swept(raw, n)
    <3>1. \A k \in 0..m : c[k] = h[k] BY <2>2, <2>11, SameTurns
    <3>2. m \in 0..m BY <2>2
    <3> QED BY <2>7, <3>1, <3>2
  <2>13. s.out = Read(W, 0, last) /\ s.left = last /\ s.value = raw[last]
    <3> DEFINE o == Read(W, 0, last)
               u == raw[last]
    <3>1. s = [out |-> o, left |-> last, value |-> u] BY <2>4, <2>12 DEF Swept, W
    <3> HIDE DEF o, u, s
    <3>2. s.out = o /\ s.left = last /\ s.value = u BY <3>1
    <3> QED BY <3>2 DEF o, u
  <2> HIDE DEF s
  <2>14. Repeated(raw[last], n - last) = Read(W, last, n - last)
    <3> DEFINE d == n - last
               r == Read(W, last, d)
               t == Repeated(raw[last], d)
    <3>0. d \in Nat /\ last + d = n BY <2>2
    <3>1. r \in Seq(Int) /\ Len(r) = d /\ \A k \in 1..d : r[k] = W[last + k]
      <4>1. last + d <= Len(W) BY <2>1, <2>2
      <4> HIDE DEF d
      <4> QED BY <2>1, <2>2, <3>0, <4>1, ReadIs, SMTT(30)
    <3>2. t = [k \in 1..d |-> raw[last]] BY DEF Repeated
    <3> HIDE DEF r, t, d
    <3>3. \A k \in 1..d : r[k] = raw[last]
      <4> TAKE k \in 1..d
      <4>1. last + k \in 1..n /\ last + k > last BY <2>2, <3>0
      <4> QED BY <2>1, <3>1, <4>1
    <3>4. r = [k \in 1..d |-> r[k]] BY <3>1, LenProperties
    <3>5. r = t BY <3>2, <3>3, <3>4
    <3> QED BY <3>5 DEF r, t, d
  <2>15. Read(W, 0, last) \o Read(W, last, n - last) = W
    <3> DEFINE d == n - last
    <3>1. d \in Nat /\ last + d <= Len(W) /\ last + d = n BY <2>1, <2>2
    <3> HIDE DEF d, W, last, n
    <3>20. W \in Seq(Int) /\ last \in Nat /\ last + d <= Len(W) BY <2>1, <2>2, <3>1
    <3>2. Read(W, 0, last) \o Read(W, last, d) = Read(W, 0, n) BY <3>1, <3>20, ReadsJoin, ZenonT(30)
    <3>3. Read(W, 0, n) = W
      <4>1. 0 + 1 = 1 /\ 0 + n = Len(W) BY <2>1, <2>2
      <4>2. SubSeq(W, 1, Len(W)) = W BY <2>1, SubSeqFull
      <4> QED BY <4>1, <4>2 DEF Read
    <3> QED BY <3>2, <3>3 DEF d
  <2>16. Interpolated(raw) = W BY <2>3, <2>13, <2>14, <2>15
  <2> QED BY <2>1, <2>16 DEF W, n
<1> QED BY <1>1, <1>2

\* The pitch curve of the bounded conversion is the one of the whole clip.
LEMMA CurveIsWhole ==
    ASSUME NEW raw \in Seq(Nat), NEW interp \in BOOLEAN, NEW filter \in Nat, NEW key
    PROVE  ProcessedF0(raw, interp, filter, key) = WholeF0(raw, interp, filter, key)
<1> DEFINE g == IF interp THEN InterpUnvoiced(raw) ELSE raw
           M == MedianFilter(g, filter)
<1>1. (IF interp THEN Interpolated(raw) ELSE raw) = g /\ g \in Seq(Int)
  <2>1. raw \in Seq(Int) OBVIOUS
  <2> QED BY <2>1, InterpolatedIs
<1>2. ProcessedF0(raw, interp, filter, key) = Processed(g, filter, key) BY <1>1 DEF ProcessedF0
<1>3. WholeF0(raw, interp, filter, key) = [i \in DOMAIN M |-> Shift(M[i], key)] BY DEF WholeF0
<1> HIDE DEF g
<1>4. DOMAIN M = 1..Len(g)
  <2>1. DOMAIN g = 1..Len(g) BY <1>1, LenProperties
  <2> QED BY <2>1 DEF MedianFilter
<1>5. Processed(g, filter, key) = [i \in 1..Len(g) |-> Shift(M[i], key)] BY <1>1, ProcessedIs
<1> QED BY <1>2, <1>3, <1>4, <1>5
----------------------------------------
(* The loudness envelope. *)

LEMMA RecordsAreWindows ==
    ASSUME NEW n \in Nat \ {0}, NEW hop \in Nat \ {0}
    PROVE  /\ RmsRecords(n, hop) = RmsWindows(n, hop)
           /\ RmsWindows(n, hop) \in Seq(Int \X Int) /\ Len(RmsWindows(n, hop)) \in Nat \ {0}
<1> DEFINE m == n \div hop
           A(f) == <<IF (f - 1) * hop >= hop THEN (f - 1) * hop - hop ELSE 0,
                     (f - 1) * hop + Min({hop, n - (f - 1) * hop})>>
           B(f) == <<Max({0, (f - 1) * hop - hop}), Min({n, (f - 1) * hop + hop})>>
<1>1. m \in Nat /\ m * hop \in Int /\ m * hop <= n
  <2>1. m \in Int /\ n % hop \in 0..(hop - 1) /\ n = m * hop + (n % hop) BY Divide
  <2>2. 0 * hop <= n OBVIOUS
  <2>3. 0 <= m BY <2>2, QuotientAbove
  <2> HIDE DEF m
  <2>4. m * hop \in Int BY <2>1
  <2> QED BY <2>1, <2>3, <2>4
<1>2. RmsRecords(n, hop) = [f \in 1..(m + 1) |-> A(f)] /\ RmsWindows(n, hop) = [f \in 1..(m + 1) |-> B(f)]
  BY DEF RmsRecords, RmsWindows
<1> HIDE DEF m
<1>3. ASSUME NEW f \in 1..(m + 1) PROVE A(f) = B(f) /\ B(f) \in Int \X Int
  <2> DEFINE c == (f - 1) * hop
  <2>1. c \in Int /\ 0 <= c /\ c <= n
    <3>1. 0 * hop <= (f - 1) * hop /\ (f - 1) * hop <= m * hop /\ (f - 1) * hop \in Int BY <1>1, Multiples
    <3> HIDE DEF c
    <3>2. c \in Int /\ 0 * hop <= c /\ c <= m * hop BY <3>1 DEF c
    <3> QED BY <1>1, <3>2
  <2>2. A(f) = <<IF c >= hop THEN c - hop ELSE 0, c + Min({hop, n - c})>>
        /\ B(f) = <<Max({0, c - hop}), Min({n, c + hop})>>
    OBVIOUS
  <2> HIDE DEF c, A, B
  <2>3. /\ Min({hop, n - c}) = (IF hop <= n - c THEN hop ELSE n - c)
        /\ Max({0, c - hop}) = (IF 0 >= c - hop THEN 0 ELSE c - hop)
        /\ Min({n, c + hop}) = (IF n <= c + hop THEN n ELSE c + hop)
    BY <2>1, MinOfTwo, MaxOfTwo
  <2>4. (IF c >= hop THEN c - hop ELSE 0) = Max({0, c - hop}) /\ Max({0, c - hop}) \in Int BY <2>1, <2>3
  <2>5. c + Min({hop, n - c}) = Min({n, c + hop}) /\ Min({n, c + hop}) \in Int BY <2>1, <2>3
  <2> DEFINE a1 == IF c >= hop THEN c - hop ELSE 0
             a2 == c + Min({hop, n - c})
             b1 == Max({0, c - hop})
             b2 == Min({n, c + hop})
  <2>6. A(f) = <<a1, a2>> /\ B(f) = <<b1, b2>> BY <2>2
  <2>7. a1 = b1 /\ a2 = b2 /\ b1 \in Int /\ b2 \in Int BY <2>4, <2>5
  <2> HIDE DEF a1, a2, b1, b2
  <2> QED BY <2>6, <2>7
<1> HIDE DEF A, B
<1>4. RmsRecords(n, hop) = RmsWindows(n, hop) BY <1>2, <1>3
<1> DEFINE W == RmsWindows(n, hop)
           V == Int \X Int
<1>5. W \in [1..(m + 1) -> V] /\ m + 1 \in Nat \ {0}
  <2> HIDE DEF W
  <2> QED BY <1>1, <1>2, <1>3 DEF W
<1> HIDE DEF W, V
<1>6. W \in Seq(V) /\ Len(W) = m + 1 BY <1>5, SeqIs
<1> QED BY <1>4, <1>5, <1>6 DEF W, V

\* A sample is mixed from records that there are.
LEMMA PositionIs ==
    ASSUME NEW i \in Nat, NEW N \in Nat \ {0}, NEW length \in Nat \ {0}
    PROVE  Position(i, N, length) \div (2 * length) \in 0..(N - 1)
<1> DEFINE a == (2 * i + 1) * N - length
           b == (N - 1) * 2 * length
           d == 2 * length
           p == Position(i, N, length)
<1>1. a \in Int /\ b \in Int /\ d \in Nat \ {0} /\ b = (N - 1) * d OBVIOUS
<1>2. 0 * d <= (N - 1) * d BY <1>1, Multiples
<1>3. N * d = (N - 1) * d + d OBVIOUS
<1>4. p = Clamp(a, 0, b) BY DEF Position
<1> HIDE DEF a, b, d, p
<1>5. 0 <= b BY <1>1, <1>2
<1>6. p \in Int /\ 0 <= p /\ p <= b
  <2>1. p = IF a < 0 THEN 0 ELSE IF a > b THEN b ELSE a BY <1>1, <1>4, <1>5, ClampIs
  <2> QED BY <1>1, <1>5, <2>1
<1>7. p \div d \in Int BY <1>1, <1>6, Divide
<1>8. 0 <= p \div d
  <2>1. 0 * d <= p BY <1>1, <1>6
  <2> QED BY <1>1, <1>6, <2>1, QuotientAbove
<1>9. p \div d <= N - 1
  <2>1. (N - 1) * d \in Int /\ N * d \in Int BY <1>1
  <2>2. p < N * d BY <1>1, <1>3, <1>6, <2>1
  <2>3. p \in Int /\ N \in Int /\ d \in Nat \ {0} /\ p < N * d BY <1>1, <1>6, <2>2
  <2>4. p \div d < N BY <2>3, QuotientBelow
  <2> QED BY <1>7, <2>4
<1>10. p \div d \in 0..(N - 1) BY <1>7, <1>8, <1>9
<1> QED BY <1>10 DEF p, d

\* The cursor has the pair of records of the sample it was asked for last.
LEMMA EnvelopeIs ==
    ASSUME NEW R \in Seq(Int \X Int), R # <<>>, NEW length \in Nat \ {0}
    PROVE  EnvelopeCursor(R, length) = WholeEnvelope(R, length)
<1> DEFINE N == Len(R)
           q(i) == Position(i, N, length) \div (2 * length)
           Cell(j) == [first |-> j, cached |-> Read(R, j, IF j + 1 < N THEN 2 ELSE 1)]
           start == [first |-> -1, cached |-> <<>>]
           T(v, k) == CursorStep(v, k - 1, R, length)
           Eq(g, m) == g = [k \in 0..m |-> IF k = 0 THEN start ELSE T(g[k - 1], k)]
           c(m) == CHOOSE g : Eq(g, m)
           s(m) == c(m)[m]
           X(m) == <<s(m).cached[1], IF Len(s(m).cached) > 1 THEN s(m).cached[2] ELSE s(m).cached[1],
                     Position(m - 1, N, length) % (2 * length)>>
           Y(m) == <<R[Min({q(m - 1), N - 1}) + 1], R[Min({q(m - 1) + 1, N - 1}) + 1],
                     Position(m - 1, N, length) % (2 * length)>>
<1>0. N \in Nat \ {0} BY EmptySeq
<1>1. EnvelopeCursor(R, length) = [m \in 1..length |-> X(m)] BY DEF EnvelopeCursor, Iterated
<1>2. WholeEnvelope(R, length) = [m \in 1..length |-> Y(m)] BY DEF WholeEnvelope
<1>3. \A i \in Nat : q(i) \in 0..(N - 1) BY <1>0, PositionIs
<1>4. \A v, k : T(v, k) = IF q(k - 1) = v.first THEN v ELSE Cell(q(k - 1)) BY DEF CursorStep
<1> HIDE DEF T, q, N
<1>5. ASSUME NEW m \in 1..length PROVE s(m) = Cell(q(m - 1))
  <2> DEFINE h == [k \in 0..m |-> IF k = 0 THEN start ELSE Cell(q(k - 1))]
             C == c(m)
  <2>0. m \in Nat /\ m \in 0..m /\ m # 0 OBVIOUS
  <2>1. start.first = -1 /\ \A j : Cell(j).first = j OBVIOUS
  <2> HIDE DEF start, Cell
  <2>2. ASSUME NEW k \in 1..m PROVE h[k] = T(h[k - 1], k)
    <3>0. k \in 0..m /\ k # 0 /\ k - 1 \in 0..m /\ k - 1 \in Nat OBVIOUS
    <3>1. h[k] = Cell(q(k - 1)) /\ q(k - 1) \in 0..(N - 1) /\ k - 1 \in 0..m BY <1>3, <3>0
    <3>2. CASE k = 1
      <4>1. h[k - 1] = start BY <3>2
      <4>2. q(k - 1) # -1 BY <1>0, <3>1
      <4> HIDE DEF h
      <4> QED BY <1>4, <2>1, <3>1, <4>1, <4>2
    <3>3. CASE k # 1
      <4>1. h[k - 1] = Cell(q(k - 2))
        <5>1. k - 1 # 0 /\ (k - 1) - 1 = k - 2 BY <3>3
        <5> QED BY <3>1, <5>1
      <4> HIDE DEF h
      <4> QED BY <1>4, <2>1, <3>1, <4>1
    <3> QED BY <3>2, <3>3
  <2>3. h[0] = start /\ h[m] = Cell(q(m - 1)) /\ h = [k \in 0..m |-> h[k]] BY <2>0
  <2> HIDE DEF h
  <2>4. Eq(h, m)
    <3>1. \A k \in 0..m : k = 0 \/ k \in 1..m OBVIOUS
    <3>2. \A k \in 0..m : h[k] = IF k = 0 THEN start ELSE T(h[k - 1], k) BY <2>2, <2>3, <3>1
    <3> QED BY <2>3, <3>2
  <2>5. Eq(C, m) BY <2>4
  <2> HIDE DEF C, c
  <2>6. Agree(C, h, m)
    <3>1. C[0] = start BY <2>0, <2>5
    <3>2. \A k \in 0..(m - 1) : k + 1 \in 0..m /\ k + 1 \in 1..m /\ k + 1 # 0 /\ (k + 1) - 1 = k BY <2>0
    <3>3. \A k \in 0..(m - 1) : C[k + 1] = T(C[k], k + 1) BY <2>5, <3>2
    <3> HIDE DEF Eq
    <3>4. \A k \in 0..(m - 1) : h[k + 1] = T(h[k], k + 1) BY <2>2, <3>2
    <3> QED BY <2>3, <3>1, <3>3, <3>4 DEF Agree
  <2> HIDE DEF Eq
  <2>7. C[m] = h[m]
    <3>1. \A k \in 0..m : C[k] = h[k] BY <2>0, <2>6, SameTurns
    <3> QED BY <2>0, <3>1
  <2>8. s(m) = C[m] BY DEF C
  <2> HIDE DEF s, T, start, h
  <2> QED BY <2>3, <2>7, <2>8
<1>6. ASSUME NEW m \in 1..length PROVE X(m) = Y(m)
  <2> DEFINE j == q(m - 1)
             d == IF j + 1 < N THEN 2 ELSE 1
             u == Read(R, j, d)
             p == Position(m - 1, N, length) % (2 * length)
             V == Int \X Int
  <2>0. m - 1 \in Nat OBVIOUS
  <2>1. j \in 0..(N - 1)
    <3> HIDE DEF c, u, p
    <3> QED BY <1>3, <2>0
  <2>2. s(m).cached = u
    <3>1. s(m) = Cell(j) BY <1>5
    <3> HIDE DEF s, j
    <3> QED BY <3>1
  <2> HIDE DEF j, s
  <2>3. Len(u) = d /\ u[1] = R[j + 1] /\ (j + 1 < N => u[2] = R[j + 2])
    <3>1. j \in Nat /\ d \in Nat /\ j + d <= Len(R) /\ R \in Seq(V) /\ 1 \in 1..d /\ (j + 1 < N => d = 2 /\ 2 \in 1..d)
      BY <1>0, <2>1 DEF N
    <3> HIDE DEF d, V
    <3>2. Len(u) = d /\ \A i \in 1..d : u[i] = R[j + i] BY <3>1, ReadIs, SMTT(30)
    <3> HIDE DEF u
    <3> QED BY <3>1, <3>2
  <2> HIDE DEF u
  <2>4. Min({j, N - 1}) = j /\ Min({j + 1, N - 1}) = (IF j + 1 < N THEN j + 1 ELSE j)
    <3>1. j \in Int /\ N - 1 \in Int /\ j + 1 \in Int BY <1>0, <2>1
    <3>2. Min({j, N - 1}) = (IF j <= N - 1 THEN j ELSE N - 1) /\ Min({j + 1, N - 1}) = IF j + 1 <= N - 1 THEN j + 1 ELSE N - 1
      BY <3>1, MinOfTwo
    <3>3. N \in Int /\ j <= N - 1 /\ 0 <= j BY <1>0, <2>1
    <3>4. Min({j, N - 1}) = j BY <3>2, <3>3
    <3>5. j + 1 < N <=> j + 1 <= N - 1 BY <3>1, <3>3
    <3>6. ~(j + 1 < N) => N - 1 = j BY <3>1, <3>3
    <3> DEFINE mm == Min({j + 1, N - 1})
    <3>7. mm = IF j + 1 <= N - 1 THEN j + 1 ELSE N - 1 BY <3>2
    <3> HIDE DEF mm
    <3>8. mm = IF j + 1 < N THEN j + 1 ELSE j BY <3>5, <3>6, <3>7
    <3> QED BY <3>4, <3>8 DEF mm
  <2>5. u[1] = R[Min({j, N - 1}) + 1] BY <2>3, <2>4
  <2>6. (IF Len(u) > 1 THEN u[2] ELSE u[1]) = R[Min({j + 1, N - 1}) + 1]
    <3>1. CASE j + 1 < N BY <1>0, <2>1, <2>3, <2>4, <3>1
    <3>2. CASE ~(j + 1 < N)
      <4>1. ~(Len(u) > 1) BY <2>3, <3>2
      <4>2. Min({j + 1, N - 1}) = j BY <2>4, <3>2
      <4> QED BY <2>3, <4>1, <4>2
    <3> QED BY <3>1, <3>2
  <2>7. X(m) = <<u[1], IF Len(u) > 1 THEN u[2] ELSE u[1], p>> /\ Y(m) = <<R[Min({j, N - 1}) + 1], R[Min({j + 1, N - 1}) + 1], p>>
    BY <2>2 DEF j
  <2> HIDE DEF p
  <2> QED BY <2>5, <2>6, <2>7
<1> HIDE DEF X, Y
<1>7. [m \in 1..length |-> X(m)] = [m \in 1..length |-> Y(m)] BY <1>6
<1> QED BY <1>1, <1>2, <1>7
----------------------------------------
(* The cores of the bounded conversion, one after the other. *)

\* Later targets only add cuts.
LEMMA CutsGrow ==
    ASSUME NEW n, NEW e, NEW c, NEW q, Fits(n, e, c, q),
           NEW m \in 0..((n - 1) \div c), NEW i \in 1..Len(CutsByTarget(n, e, c, q)[m])
    PROVE  /\ i <= Len(CutsByTarget(n, e, c, q)[(n - 1) \div c])
           /\ CutsByTarget(n, e, c, q)[(n - 1) \div c][i] = CutsByTarget(n, e, c, q)[m][i]
<1> DEFINE K == (n - 1) \div c
           B == CutsByTarget(n, e, c, q)
           S == {d \in Nat : m + d <= K => i <= Len(B[m + d]) /\ B[m + d][i] = B[m][i]}
<1>1. K \in Nat BY TargetsLie
<1>2. \A k \in 0..K : B[k] \in Seq(Nat) BY CutsForm DEF CutsLie
<1>3. \A k \in 1..K : B[k] = B[k - 1] \/ \E v : B[k] = Append(B[k - 1], v)
  <2> TAKE k \in 1..K
  <2>1. B[k] = CutAt(n, e, q, B[k - 1], k * c) BY CutsSteps
  <2> QED BY <2>1 DEF CutAt
<1> HIDE DEF K, B
<1>4. m \in Nat /\ m <= K /\ i \in Nat /\ i >= 1 /\ i <= Len(B[m])
  <2>1. i \in 1..Len(B[m]) /\ m \in 0..K BY DEF B, K
  <2>2. Len(B[m]) \in Nat BY <1>2, <2>1, LenProperties
  <2> QED BY <1>1, <2>1, <2>2
<1>5. 0 \in S BY <1>4
<1>6. ASSUME NEW d \in S, m + (d + 1) <= K PROVE i <= Len(B[m + (d + 1)]) /\ B[m + (d + 1)][i] = B[m][i]
  <2> DEFINE k == m + (d + 1)
  <2>1. d \in Nat /\ k \in 1..K /\ k - 1 = m + d /\ k - 1 \in 0..K /\ k \in 0..K BY <1>1, <1>4, <1>6
  <2>2. i <= Len(B[k - 1]) /\ B[k - 1][i] = B[m][i] BY <1>1, <1>4, <1>6, <2>1
  <2> HIDE DEF k, S
  <2>3. CASE B[k] = B[k - 1] BY <2>2, <2>3 DEF k
  <2>4. CASE \E v : B[k] = Append(B[k - 1], v)
    <3>1. PICK v : B[k] = Append(B[k - 1], v) BY <2>4
    <3> DEFINE w == B[k - 1]
           V == Nat \union {v}
    <3>2. w \in Seq(V) /\ Len(w) \in Nat /\ v \in V
      <4>1. w \in Seq(Nat) BY <1>2, <2>1
      <4> HIDE DEF w
      <4> QED BY <4>1, LenProperties
    <3>20. i \in 1..Len(w) BY <1>4, <2>2, <3>2
    <3> HIDE DEF w, V
    <3>3. Len(Append(w, v)) = Len(w) + 1 /\ Append(w, v)[i] = w[i] BY <3>2, <3>20, AppendProperties
    <3> QED BY <1>4, <2>2, <3>1, <3>2, <3>20, <3>3 DEF k, w
  <2> QED BY <1>3, <2>1, <2>3, <2>4
<1>7. S \in SUBSET Nat /\ \A d \in S : d + 1 \in S BY <1>6
<1> HIDE DEF S
<1>8. S = Nat BY <1>5, <1>7, InductionOf
<1>9. K - m \in S /\ m + (K - m) = K BY <1>1, <1>4, <1>8
<1> QED BY <1>1, <1>4, <1>9 DEF S, B, K

\* A clip that is refused: a core of the older conversion is too long, and the
\* plan is off the lattice of the hop.
TooLong(n, e, c, q) ==
    /\ ~(c % Hop = 0 /\ q % Hop = 0)
    /\ \E i \in 1..(Len(LongCuts(n, e, c, q)) - 1) :
         LongCuts(n, e, c, q)[i + 1] - LongCuts(n, e, c, q)[i] > c + 2 * q

\* Where the planner stands: it has refused the clip, or covered it, or made the
\* cuts of some targets.
CutState(n, e, c, q, s) ==
    /\ s \in [cuts : Seq(Int), target : Int, failed : BOOLEAN] /\ s.cuts # <<>>
    /\ \/ s.failed /\ TooLong(n, e, c, q) /\ \E i \in DOMAIN s.cuts : s.cuts[i] = -1
       \/ ~s.failed /\ s.cuts = LongCuts(n, e, c, q) /\ Last(s.cuts) = n
       \/ /\ ~s.failed
          /\ \E k \in 0..((n - 1) \div c) : s.cuts = CutsByTarget(n, e, c, q)[k] /\ s.target = (k + 1) * c

\* L has the cuts b and goes on, with the end of the clip if these are all.
GoesBeyond(b, L, n, all) ==
    /\ b \in Seq(Int) /\ Len(b) \in Nat \ {0} /\ L \in Seq(Nat) /\ Len(L) \in Nat /\ Len(b) < Len(L) /\ Last(L) = n
    /\ \A i \in 1..Len(b) : L[i] = b[i]
    /\ all => L[Len(b) + 1] = n

\* The cuts of the older conversion, seen from those of some targets.
LEMMA LongFrom ==
    ASSUME NEW n, NEW e, NEW c, NEW q, Fits(n, e, c, q), NEW m \in 0..((n - 1) \div c)
    PROVE  GoesBeyond(CutsByTarget(n, e, c, q)[m], LongCuts(n, e, c, q), n, m = (n - 1) \div c)
<1> DEFINE K == (n - 1) \div c
           B == CutsByTarget(n, e, c, q)
           b == B[m]
           w == B[K]
           L == LongCuts(n, e, c, q)
<1>1. K \in Nat /\ n \in Nat BY TargetsLie DEF Fits
<1>2. w \in Seq(Nat) /\ b \in Seq(Nat) /\ Len(b) >= 1
  <2>1. CutsLie(n, c, q, K, B[K]) /\ CutsLie(n, c, q, m, B[m])
    <3>1. K \in 0..K BY <1>1
    <3> QED BY <3>1, CutsForm
  <2> QED BY <2>1 DEF CutsLie
<1>3. \A i \in 1..Len(b) : i <= Len(w) /\ w[i] = b[i]
  <2> TAKE i \in 1..Len(b)
  <2>1. i \in 1..Len(CutsByTarget(n, e, c, q)[m]) OBVIOUS
  <2> HIDE DEF B, w, b, K
  <2>2. /\ i <= Len(CutsByTarget(n, e, c, q)[(n - 1) \div c])
        /\ CutsByTarget(n, e, c, q)[(n - 1) \div c][i] = CutsByTarget(n, e, c, q)[m][i]
    BY <2>1, CutsGrow
  <2> QED BY <2>2 DEF B, w, b, K
<1>4. L = Append(w, n) BY DEF LongCuts
<1>5. m = K => b = w OBVIOUS
<1> HIDE DEF B, b, w, L
<1>6. Len(w) \in Nat /\ Len(b) \in Nat BY <1>2, LenProperties
<1>7. L \in Seq(Nat) /\ Len(L) = Len(w) + 1 /\ (\A i \in 1..Len(w) : L[i] = w[i]) /\ L[Len(w) + 1] = n
  BY <1>1, <1>2, <1>4, AppendProperties
<1>8. Len(b) <= Len(w)
  <2>1. Len(b) \in 1..Len(b) BY <1>2, <1>6
  <2> QED BY <1>3, <2>1
<1>9. \A i \in 1..Len(b) : i \in 1..Len(w) BY <1>6, <1>8
<1>10. \A i \in 1..Len(b) : L[i] = b[i] BY <1>3, <1>7, <1>9
<1>11. b \in Seq(Int) /\ Len(b) \in Nat \ {0} /\ Len(b) < Len(L) BY <1>2, <1>6, <1>7, <1>8, SMTT(30)
<1>12. Last(L) = n BY <1>7 DEF Last
<1>13. Len(L) \in Nat /\ (m = K => L[Len(b) + 1] = n) BY <1>5, <1>6, <1>7
<1> QED BY <1>13, <1>7, <1>10, <1>11, <1>12 DEF GoesBeyond, L, b, B, K

\* The step behind a call that is refused is too long.
LEMMA RefusedIsTooLong ==
    ASSUME NEW n, NEW e, NEW c, NEW q, Fits(n, e, c, q), NEW k \in 0..((n - 1) \div c),
           NEW core, CoreIsCut(n, e, c, q, c + 2 * q, k, CutsByTarget(n, e, c, q)[k], core), core.fails
    PROVE  TooLong(n, e, c, q)
<1> DEFINE K == (n - 1) \div c
           B == CutsByTarget(n, e, c, q)
           b == B[k]
           L == LongCuts(n, e, c, q)
           x == Len(b)
<1>0. K \in Nat /\ n \in Nat /\ c \in Nat /\ q \in Nat BY TargetsLie DEF Fits
<1>1. ~(c % Hop = 0 /\ q % Hop = 0)
  <2>1. c + 2 * q <= c + 2 * q BY <1>0
  <2> QED BY <2>1 DEF CoreIsCut
<1>2. core.end - Last(b) > c + 2 * q BY DEF CoreIsCut
<1>3. b \in Seq(Int) /\ x \in Nat \ {0} /\ L \in Seq(Nat) /\ Len(L) \in Nat /\ x < Len(L) /\ \A i \in 1..x : L[i] = b[i]
  <2>1. GoesBeyond(b, L, n, k = K) BY LongFrom
  <2> QED BY <2>1 DEF GoesBeyond
<1>4. Last(b) = b[x] BY DEF Last
<1>5. L[x + 1] = core.end
  <2>1. CASE core.end = n /\ B[K] = b
    <3>1. K \in 0..K BY <1>0
    <3>2. GoesBeyond(B[K], L, n, K = K) BY <3>1, LongFrom
    <3>3. L[Len(B[K]) + 1] = n BY <3>2 DEF GoesBeyond
    <3> QED BY <2>1, <3>3
  <2>2. CASE \E m \in (k + 1)..K : B[m] = Append(b, core.end)
    <3>1. PICK m \in (k + 1)..K : B[m] = Append(b, core.end) BY <2>2
    <3>2. m \in 0..K BY <1>0
    <3>3. core.end \in Int BY <1>0 DEF CoreIsCut
    <3>4. \A i \in 1..Len(B[m]) : L[i] = B[m][i]
      <4>1. GoesBeyond(B[m], L, n, m = K) BY <3>2, LongFrom
      <4> QED BY <4>1 DEF GoesBeyond
    <3> HIDE DEF B, b, L, K
    <3>5. Len(B[m]) = x + 1 /\ B[m][x + 1] = core.end BY <1>3, <3>1, <3>3, AppendProperties
    <3>6. x + 1 \in 1..Len(B[m]) BY <1>3, <3>5
    <3> QED BY <3>4, <3>5, <3>6
  <2> QED BY <2>1, <2>2 DEF CoreIsCut
<1>6. L[x] = Last(b) /\ x \in 1..(Len(L) - 1)
  <2>1. x \in 1..x /\ x \in 1..(Len(L) - 1)
    <3> HIDE DEF x, L
    <3> QED BY <1>3
  <2> QED BY <1>3, <1>4, <2>1
<1> HIDE DEF x, L, b
<1>7. \E i \in 1..(Len(L) - 1) : L[i + 1] - L[i] > c + 2 * q BY <1>2, <1>5, <1>6
<1> QED BY <1>1, <1>7 DEF TooLong, L

\* A turn of the planner's loop.
LEMMA NextCutIs ==
    ASSUME NEW j, NEW plan, Fits(j.n, j.energy, plan.chunk, plan.query), plan.hardCore = plan.chunk + 2 * plan.query,
           NEW s, CutState(j.n, j.energy, plan.chunk, plan.query, s)
    PROVE  /\ CutState(j.n, j.energy, plan.chunk, plan.query, NextCut(j, plan, s))
           /\ \/ NextCut(j, plan, s).failed \/ Last(NextCut(j, plan, s).cuts) = j.n
              \/ Last(NextCut(j, plan, s).cuts) > Last(s.cuts)
<1> DEFINE n == j.n
           e == j.energy
           c == plan.chunk
           q == plan.query
           K == (n - 1) \div c
           B == CutsByTarget(n, e, c, q)
           t == NextCut(j, plan, s)
           core == NextCore(n, e, c, q, c + 2 * q, Last(s.cuts), s.target)
<1>0. K \in Nat /\ n \in Nat /\ c \in Nat /\ q \in Nat BY TargetsLie DEF Fits
<1>1. t = IF s.failed \/ Last(s.cuts) >= n THEN s
          ELSE IF core.fails THEN [s EXCEPT !.failed = TRUE, !.cuts = Append(s.cuts, -1)]
          ELSE [cuts |-> Append(s.cuts, core.end), target |-> core.target, failed |-> FALSE]
  BY DEF NextCut
<1>2. s \in [cuts : Seq(Int), target : Int, failed : BOOLEAN] /\ s.cuts # <<>> BY DEF CutState
<1>3. Last(s.cuts) \in Int BY <1>2 DEF Last
<1>4. CASE s.failed \/ Last(s.cuts) >= n
  <2>1. t = s BY <1>1, <1>4
  <2>2. s.failed \/ Last(s.cuts) = n
    <3>1. ASSUME NEW k \in 0..K, s.cuts = B[k] PROVE Last(s.cuts) < n
      <4>1. CutsLie(n, c, q, k, B[k]) BY CutsForm
      <4> HIDE DEF B, K
      <4>2. Last(B[k]) \in 0..(n - 1) BY <4>1 DEF CutsLie
      <4> QED BY <1>0, <3>1, <4>2
    <3>2. ~s.failed /\ Last(s.cuts) # n => \E k \in 0..K : s.cuts = B[k] BY DEF CutState
    <3> HIDE DEF K, B
    <3> QED BY <1>0, <1>3, <1>4, <3>1, <3>2
  <2> QED BY <2>1, <2>2
<1>5. CASE ~(s.failed \/ Last(s.cuts) >= n)
  <2>1. PICK k \in 0..K : s.cuts = B[k] /\ s.target = (k + 1) * c
    <3>1. ~s.failed /\ Last(s.cuts) # n BY <1>0, <1>3, <1>5
    <3> QED BY <3>1 DEF CutState
  <2>2. CoreIsCut(n, e, c, q, c + 2 * q, k, B[k], core)
    <3>1. c + 2 * q \in Int /\ core = NextCore(n, e, c, q, c + 2 * q, Last(B[k]), (k + 1) * c) BY <1>0, <2>1
    <3> HIDE DEF core
    <3> QED BY <3>1, NextCoreIs
  <2> HIDE DEF core, t
  <2>3. CASE core.fails
    <3>1. TooLong(n, e, c, q) BY <2>2, <2>3, RefusedIsTooLong
    <3>2. t = [s EXCEPT !.failed = TRUE, !.cuts = Append(s.cuts, -1)] BY <1>1, <1>5, <2>3
    <3>3. t \in [cuts : Seq(Int), target : Int, failed : BOOLEAN] /\ t.failed /\ t.cuts = Append(s.cuts, -1)
      <4>1. Append(s.cuts, -1) \in Seq(Int) BY <1>2
      <4> HIDE DEF c, q, n, e
      <4> QED BY <1>2, <3>2, <4>1
    <3>4. s.cuts \in Seq(Int) /\ -1 \in Int BY <1>2
    <3>5. /\ Append(s.cuts, -1) # <<>> /\ Len(s.cuts) + 1 \in DOMAIN Append(s.cuts, -1)
          /\ Append(s.cuts, -1)[Len(s.cuts) + 1] = -1
      BY <3>4
    <3>6. \E i \in DOMAIN t.cuts : t.cuts[i] = -1 BY <3>3, <3>5
    <3> QED BY <3>1, <3>3, <3>5, <3>6 DEF CutState, t
  <2>4. CASE ~core.fails
    <3>1. t = [cuts |-> Append(s.cuts, core.end), target |-> core.target, failed |-> FALSE]
      BY <1>1, <1>5, <2>4
    <3>2. core.end \in (Last(s.cuts) + 1)..n /\ s.cuts \in Seq(Int) BY <1>2, <2>1, <2>2 DEF CoreIsCut
    <3>3. core.end \in Int /\ core.end > Last(s.cuts) BY <1>0, <1>3, <3>2
    <3>4. Append(s.cuts, core.end) \in Seq(Int) /\ Append(s.cuts, core.end) # <<>> /\ Last(Append(s.cuts, core.end)) = core.end
      BY <3>2, <3>3, SMTT(30) DEF Last
    <3>5. \/ core.end = n /\ B[K] = s.cuts
          \/ \E m \in (k + 1)..K : core.target = (m + 1) * c /\ B[m] = Append(s.cuts, core.end)
      BY <2>1, <2>2 DEF CoreIsCut
    <3>6. t.cuts = Append(s.cuts, core.end) /\ t.target = core.target /\ ~t.failed BY <3>1
    <3>7. CASE core.end = n /\ B[K] = s.cuts
      <4>0. s.target \in Int /\ t.cuts = Append(B[K], n) BY <1>2, <3>6, <3>7
      <4>1. t.cuts = LongCuts(n, e, c, q) BY <4>0 DEF LongCuts
      <4>2. core.target \in Int BY <2>2 DEF CoreIsCut
      <4>3. t \in [cuts : Seq(Int), target : Int, failed : BOOLEAN] BY <3>1, <3>4, <4>2
      <4> QED BY <3>4, <3>6, <3>7, <4>1, <4>3 DEF CutState, t
    <3>8. CASE \E m \in (k + 1)..K : core.target = (m + 1) * c /\ B[m] = Append(s.cuts, core.end)
      <4>1. PICK m \in (k + 1)..K : core.target = (m + 1) * c /\ B[m] = Append(s.cuts, core.end) BY <3>8
      <4>2. m \in 0..K /\ core.target \in Int BY <1>0, <4>1
      <4>3. t \in [cuts : Seq(Int), target : Int, failed : BOOLEAN] BY <3>1, <3>4, <4>2
      <4>4. t.cuts = B[m] /\ t.target = (m + 1) * c BY <3>6, <4>1
      <4> QED BY <3>3, <3>4, <3>6, <4>2, <4>3, <4>4 DEF CutState, t
    <3> QED BY <3>5, <3>7, <3>8
  <2> QED BY <2>3, <2>4
<1> QED BY <1>4, <1>5

\* The planner refuses a clip that is cut too long, or cuts it as a whole.
LEMMA QuietCoresAre ==
    ASSUME NEW j, NEW plan, plan = ChunkPlan(j.n, j.chunk, j.query, j.pad),
           Fits(j.n, j.energy, plan.chunk, plan.query), plan.hardCore = plan.chunk + 2 * plan.query
    PROVE  IF -1 \in ToSet(QuietCores(j)) THEN TooLong(j.n, j.energy, plan.chunk, plan.query)
           ELSE QuietCores(j) = LongCuts(j.n, j.energy, plan.chunk, plan.query)
<1> DEFINE m == j.n
           L == LongCuts(m, j.energy, plan.chunk, plan.query)
           V == {s \in [cuts : Seq(Int), target : Int, failed : BOOLEAN] :
                   CutState(m, j.energy, plan.chunk, plan.query, s)}
           T(v, k) == NextCut(j, plan, v)
           start == [cuts |-> <<0>>, target |-> plan.chunk, failed |-> FALSE]
           G == [p \in V \X (1..m) |-> T(p[1], p[2])]
           Eq(g) == g = [k \in 0..m |-> IF k = 0 THEN start ELSE T(g[k - 1], k)]
           c == CHOOSE g : Eq(g)
           Over(s) == s.failed \/ Last(s.cuts) = m
<1>0. m \in Nat /\ plan.chunk \in Nat /\ (m - 1) \div plan.chunk \in Nat BY TargetsLie DEF Fits
<1>1. start \in V
  <2>1. start.cuts = <<0>> /\ start.target = plan.chunk /\ start.failed = FALSE OBVIOUS
  <2>2. start \in [cuts : Seq(Int), target : Int, failed : BOOLEAN] /\ <<0>> # <<>> BY <1>0
  <2>3. CutsByTarget(m, j.energy, plan.chunk, plan.query)[0] = <<0>> BY CutsSteps
  <2>4. 0 \in 0..((m - 1) \div plan.chunk) /\ plan.chunk = (0 + 1) * plan.chunk BY <1>0
  <2> HIDE DEF start
  <2> QED BY <2>1, <2>2, <2>3, <2>4 DEF CutState
<1>2. \A v \in V : T(v, 1) \in V /\ (Over(T(v, 1)) \/ Last(T(v, 1).cuts) > Last(v.cuts))
  <2> TAKE v \in V
  <2>1. CutState(m, j.energy, plan.chunk, plan.query, v) OBVIOUS
  <2>2. CutState(m, j.energy, plan.chunk, plan.query, NextCut(j, plan, v)) BY <2>1, NextCutIs
  <2>3. Over(NextCut(j, plan, v)) \/ Last(NextCut(j, plan, v).cuts) > Last(v.cuts)
    BY <2>1, NextCutIs, SMTT(30)
  <2>4. NextCut(j, plan, v) \in [cuts : Seq(Int), target : Int, failed : BOOLEAN] BY <2>2 DEF CutState
  <2> QED BY <2>2, <2>3, <2>4
<1>20. \A v \in V, k \in 1..m : T(v, k) = T(v, 1) OBVIOUS
<1>21. \A v \in V : Last(v.cuts) \in Int /\ (~Over(v) => Last(v.cuts) \in 0..(m - 1))
  <2> TAKE v \in V
  <2>1. v.cuts \in Seq(Int) /\ v.cuts # <<>> /\ CutState(m, j.energy, plan.chunk, plan.query, v)
    BY DEF CutState
  <2>2. Last(v.cuts) \in Int BY <2>1 DEF Last
  <2>3. ASSUME ~Over(v) PROVE Last(v.cuts) \in 0..(m - 1)
    <3>1. PICK k \in 0..((m - 1) \div plan.chunk) :
            v.cuts = CutsByTarget(m, j.energy, plan.chunk, plan.query)[k]
      BY <2>1, <2>3 DEF CutState
    <3>2. CutsLie(m, plan.chunk, plan.query, k, v.cuts) BY <3>1, CutsForm
    <3> QED BY <3>2, SMTT(30) DEF CutsLie
  <2> QED BY <2>2, <2>3
<1>22. \A v \in V : Over(v) => IF -1 \in ToSet(v.cuts) THEN TooLong(m, j.energy, plan.chunk, plan.query) ELSE v.cuts = L
  <2> SUFFICES ASSUME NEW v \in V, Over(v)
               PROVE  IF -1 \in ToSet(v.cuts) THEN TooLong(m, j.energy, plan.chunk, plan.query) ELSE v.cuts = L
    OBVIOUS
  <2>1. CutState(m, j.energy, plan.chunk, plan.query, v) OBVIOUS
  <2>2. CASE v.failed
    <3>1. TooLong(m, j.energy, plan.chunk, plan.query) /\ \E i \in DOMAIN v.cuts : v.cuts[i] = -1
      BY <2>1, <2>2 DEF CutState
    <3>2. -1 \in ToSet(v.cuts) BY <3>1 DEF ToSet
    <3> QED BY <3>1, <3>2
  <2>3. CASE ~v.failed
    <3>1. v.cuts = L
      <4>1. ASSUME NEW k \in 0..((m - 1) \div plan.chunk),
                   v.cuts = CutsByTarget(m, j.energy, plan.chunk, plan.query)[k] PROVE FALSE
        <5>1. CutsLie(m, plan.chunk, plan.query, k, v.cuts) BY <4>1, CutsForm
        <5>2. Last(v.cuts) \in 0..(m - 1) /\ Last(v.cuts) = m BY <2>3, <5>1 DEF CutsLie
        <5> QED BY <1>0, <5>2
      <4> QED BY <2>1, <2>3, <4>1 DEF CutState
    <3>2. -1 \notin ToSet(L)
      <4>1. GoesBeyond(CutsByTarget(m, j.energy, plan.chunk, plan.query)[0], L, m, 0 = (m - 1) \div plan.chunk)
        <5>1. 0 \in 0..((m - 1) \div plan.chunk) BY <1>0, SMTT(30)
        <5> QED BY <5>1, LongFrom
      <4>2. L \in Seq(Nat) BY <4>1 DEF GoesBeyond
      <4> HIDE DEF L
      <4>3. \A i \in DOMAIN L : L[i] \in Nat BY <4>2
      <4> QED BY <4>3 DEF ToSet
    <3> QED BY <3>1, <3>2, SMTT(30)
  <2> QED BY <2>2, <2>3
<1>25. \A v \in V : Over(v) => Over(T(v, 1))
  <2> SUFFICES ASSUME NEW v \in V, Over(v) PROVE T(v, 1) = v OBVIOUS
  <2>1. v.failed \/ Last(v.cuts) >= m BY <1>0
  <2> QED BY <2>1 DEF NextCut
<1>23. QuietCores(j) = c[m].cuts BY DEF QuietCores, Iterated
<1> HIDE DEF T, start, V, m, L
<1>24. \A v \in V, k \in 1..m : T(v, k) \in V BY <1>2, <1>20
<1>3. G \in [V \X (1..m) -> V] BY <1>24
<1>4. PICK f : f \in [0..m -> V] /\ f[0] = start /\ \A k \in 0..(m - 1) : f[k + 1] = G[<<f[k], k + 1>>]
  <2> HIDE DEF G, Eq, c
  <2>1. PICK f : Runs(f, m, V, start, G) BY <1>0, <1>1, <1>3, LoopOf
  <2> QED BY <2>1 DEF Runs
<1>5. \A k \in 0..(m - 1) : f[k + 1] = T(f[k], k + 1)
  <2> TAKE k \in 0..(m - 1)
  <2>1. k + 1 \in 1..m /\ f[k] \in V BY <1>0, <1>4
  <2> QED BY <1>4, <2>1
<1> HIDE DEF G
<1>6. Eq(f)
  <2>1. f = [k \in 0..m |-> f[k]] BY <1>4
  <2>2. \A k \in 0..m : f[k] = IF k = 0 THEN start ELSE T(f[k - 1], k)
    <3>1. \A k \in 0..m : k = 0 \/ (k - 1 \in 0..(m - 1) /\ (k - 1) + 1 = k) BY <1>0
    <3> QED BY <1>4, <1>5, <3>1
  <2> QED BY <2>1, <2>2
<1>7. Eq(c) BY <1>6
<1> HIDE DEF c
<1>8. \A k \in 0..m : c[k] = f[k]
  <2>1. c[0] = start BY <1>0, <1>7
  <2>2. \A k \in 0..(m - 1) : c[k + 1] = T(c[k], k + 1)
    <3>1. \A k \in 0..(m - 1) : k + 1 \in 0..m /\ k + 1 # 0 /\ (k + 1) - 1 = k BY <1>0
    <3> QED BY <1>7, <3>1
  <2>3. \A k \in 0..(m - 1) : c[k] = f[k] => c[k + 1] = f[k + 1] BY <1>5, <2>2
  <2>4. c[0] = f[0] BY <1>4, <2>1
  <2> HIDE DEF Eq, T
  <2>5. Agree(c, f, m) BY <2>3, <2>4 DEF Agree
  <2> QED BY <1>0, <2>5, SameTurns
<1> HIDE DEF Eq
\* Every turn finds a cut, until the clip is covered or refused.
<1>9. \A k \in 0..m : Over(f[k]) \/ Last(f[k].cuts) >= k
  <2> HIDE DEF Over
  <2> DEFINE S == {k \in Nat : k <= m => Over(f[k]) \/ Last(f[k].cuts) >= k}
  <2>1. 0 \in S
    <3>1. f[0] \in V BY <1>0, <1>4
    <3>2. Over(f[0]) \/ Last(f[0].cuts) >= 0 BY <1>0, <1>21, <3>1
    <3> QED BY <3>2
  <2>2. ASSUME NEW k \in S, k + 1 <= m PROVE Over(f[k + 1]) \/ Last(f[k + 1].cuts) >= k + 1
    <3>1. k \in 0..m /\ k \in 0..(m - 1) /\ k + 1 \in 1..m /\ k + 1 \in 0..m /\ k \in Nat BY <1>0, <2>2
    <3>2. f[k] \in V /\ f[k + 1] \in V /\ f[k + 1] = T(f[k], 1) BY <1>4, <1>5, <1>20, <3>1
    <3>3. Over(f[k]) \/ Last(f[k].cuts) >= k BY <1>0, <2>2, <3>1
    <3>4. Over(f[k + 1]) \/ Last(f[k + 1].cuts) > Last(f[k].cuts) BY <1>2, <3>2
    <3>5. CASE Over(f[k]) BY <1>25, <3>2, <3>5
    <3>6. CASE ~Over(f[k]) BY <1>21, <3>2, <3>1, <3>3, <3>4, <3>6
    <3> QED BY <3>5, <3>6
  <2>3. S \in SUBSET Nat /\ \A k \in S : k + 1 \in S BY <2>2
  <2>4. \A k \in 0..m : k \in S => Over(f[k]) \/ Last(f[k].cuts) >= k OBVIOUS
  <2> HIDE DEF S
  <2>5. S = Nat BY <2>1, <2>3, InductionOf
  <2> QED BY <2>4, <2>5
<1>10. m \in 0..m BY <1>0
<1>11. f[m] \in V /\ c[m] = f[m] /\ Over(f[m])
  <2>1. f[m] \in V /\ c[m] = f[m] /\ (Over(f[m]) \/ Last(f[m].cuts) >= m) BY <1>4, <1>8, <1>9, <1>10
  <2> QED BY <1>0, <1>21, <2>1
<1>12. QuietCores(j) = f[m].cuts BY <1>11, <1>23
<1> QED BY <1>11, <1>12, <1>22 DEF m, L
----------------------------------------
(* The reviewed curve and its corrections. *)

LEMMA BoundOf ==
    ASSUME NEW n \in Nat, NEW w \in [1..n -> Nat]
    PROVE  \E m \in Nat : \A i \in 1..n : w[i] <= m
<1> DEFINE S == {k \in Nat : k <= n => \E m \in Nat : \A i \in 1..k : w[i] <= m}
<1>1. 0 \in S OBVIOUS
<1>2. ASSUME NEW k \in S, k + 1 <= n PROVE \E m \in Nat : \A i \in 1..(k + 1) : w[i] <= m
  <2>1. k \in Nat /\ k <= n /\ k + 1 \in 1..n BY <1>2
  <2>2. PICK m \in Nat : \A i \in 1..k : w[i] <= m BY <2>1
  <2> DEFINE h == IF m >= w[k + 1] THEN m ELSE w[k + 1]
  <2>3. w[k + 1] \in Nat BY <2>1
  <2>4. h \in Nat /\ h >= m /\ h >= w[k + 1] BY <2>3
  <2> HIDE DEF h, S
  <2>5. \A i \in 1..(k + 1) : i \in 1..k \/ i = k + 1 BY <2>1
  <2>6. \A i \in 1..k : w[i] \in Nat BY <2>1
  <2>7. \A i \in 1..(k + 1) : w[i] <= h BY <2>2, <2>3, <2>4, <2>5, <2>6
  <2> QED BY <2>4, <2>7
<1>3. S \in SUBSET Nat OBVIOUS
<1>30. \A k \in S : k + 1 \in S
  <2> TAKE k \in S
  <2>1. k + 1 <= n => \E m \in Nat : \A i \in 1..(k + 1) : w[i] <= m BY <1>2
  <2>2. k + 1 \in Nat OBVIOUS
  <2> QED BY <2>1, <2>2
<1> HIDE DEF S
<1>4. n \in S BY <1>1, <1>3, <1>30, InductionOf
<1> QED BY <1>4 DEF S

\* A window has a middle.
LEMMA MiddleIs == ASSUME NEW n \in Nat \ {0}, NEW w \in [1..n -> Nat] PROVE Middle(w) \in Nat
<1> DEFINE T == {w[i] : i \in 1..n}
           At(v) == {d \in DOMAIN w : w[d] <= v}
           M == {v \in Range(w) : 2 * Cardinality(At(v)) > Len(w)}
<1>1. DOMAIN w = 1..n /\ Len(w) = n /\ Range(w) = T BY DEF Range
<1>2. T \in SUBSET Nat /\ T # {}
  <2>1. 1 \in 1..n OBVIOUS
  <2> QED BY <2>1
<1>3. PICK m \in Nat : \A i \in 1..n : w[i] <= m BY BoundOf
<1>4. \A k \in T : k <= m BY <1>3
<1> DEFINE top == Max(T)
<1>5. top \in T /\ \A k \in T : k <= top
  <2> HIDE DEF T
  <2> QED BY <1>2, <1>4, LargestOf
<1> HIDE DEF top
<1>6. At(top) = 1..n BY <1>1, <1>5
<1>7. Cardinality(1..n) = n BY FS_Interval
<1>8. top \in M
  <2> HIDE DEF At, T
  <2>1. 2 * Cardinality(At(top)) > Len(w) BY <1>1, <1>6, <1>7
  <2> QED BY <1>1, <1>5, <2>1
<1>9. M \in SUBSET Nat /\ M # {} BY <1>1, <1>2, <1>8
<1>10. Middle(w) = Min(M) BY DEF Middle
<1> HIDE DEF M
<1> QED BY <1>9, <1>10, MinOf

\* The curve of a review before its corrections.
Plain(raw, filter) == [i \in DOMAIN raw |-> Shift(MedianFilter(raw, filter)[i], 0)]

LEMMA PlainIs ==
    ASSUME NEW raw \in Seq(Nat), NEW filter \in Nat
    PROVE  Plain(raw, filter) \in [1..Len(raw) -> Nat] /\ ProcessedF0(raw, FALSE, filter, 0) = Plain(raw, filter)
<1> DEFINE n == Len(raw)
           r == Radius(filter)
           W(i) == [d \in 1..(2 * r + 1) |-> raw[Clamp(i + d - 1 - r, 1, n)]]
           M == MedianFilter(raw, filter)
<1>0. n \in Nat /\ DOMAIN raw = 1..n /\ r \in Nat /\ \A i \in 1..n : raw[i] \in Nat
  BY LenProperties, ElementOfSeq, RadiusIs
<1>1. M = [i \in 1..n |-> Middle(W(i))] BY <1>0 DEF MedianFilter
<1>2. ASSUME NEW i \in 1..n PROVE M[i] \in Nat
  <2>1. \A d \in 1..(2 * r + 1) : Clamp(i + d - 1 - r, 1, n) \in 1..n
    <3> TAKE d \in 1..(2 * r + 1)
    <3> DEFINE x == i + d - 1 - r
    <3>1. x \in Int /\ 1 \in Int /\ n \in Int /\ 1 <= n BY <1>0, SMTT(30)
    <3> HIDE DEF x
    <3>2. Clamp(x, 1, n) = IF x < 1 THEN 1 ELSE IF x > n THEN n ELSE x BY <3>1, ClampIs
    <3>3. Clamp(x, 1, n) \in 1..n BY <3>1, <3>2
    <3> QED BY <3>3 DEF x
  <2>2. \A d \in 1..(2 * r + 1) : raw[Clamp(i + d - 1 - r, 1, n)] \in Nat BY <1>0, <2>1
  <2>3. W(i) \in [1..(2 * r + 1) -> Nat] /\ 2 * r + 1 \in Nat \ {0} BY <1>0, <2>2, SMTT(30)
  <2>4. M[i] = Middle(W(i)) BY <1>1
  <2> HIDE DEF W, M, r
  <2>5. Middle(W(i)) \in Nat BY <2>3, MiddleIs
  <2> QED BY <2>4, <2>5
<1> HIDE DEF M
<1>3. \A i \in 1..n : Shift(M[i], 0) = M[i] BY <1>2 DEF Shift
<1>4. Plain(raw, filter) = [i \in 1..n |-> Shift(M[i], 0)] BY <1>0 DEF Plain, M
<1>5. Plain(raw, filter) \in [1..n -> Nat] BY <1>2, <1>3, <1>4
<1>6. WholeF0(raw, FALSE, filter, 0) = [i \in DOMAIN M |-> Shift(M[i], 0)] BY DEF WholeF0, M
<1>7. DOMAIN M = 1..n BY <1>1
<1>8. ProcessedF0(raw, FALSE, filter, 0) = WholeF0(raw, FALSE, filter, 0) BY CurveIsWhole
<1> QED BY <1>4, <1>5, <1>6, <1>7, <1>8

\* The two copies of the edit do the same.
LEMMA EditsAgree ==
    ASSUME NEW raw \in Seq(Nat), NEW clip, NEW v \in Seq(Int), NEW e \in Edits, Len(v) <= Len(raw)
    PROVE  ReviewEdit(raw, clip, v, e) = ConversionEdit(raw, clip, v, e)
<1>1. e.first \in Nat /\ e.last \in Nat /\ e.by \in Int /\ DOMAIN v = 1..Len(v) /\ Len(v) \in Nat BY DEF Edits
<1>2. \A i \in DOMAIN v : /\ i - 1 \in (e.first + 1)..(e.last - 1) <=> i - 1 > e.first /\ i - 1 < e.last
                          /\ i - 1 \in e.first..(e.last - 1) <=> Shifted(e, i - 1)
  <2> TAKE i \in DOMAIN v
  <2>2. i - 1 \in Int BY <1>1
  <2>1. e.first \in Nat /\ e.last \in Nat BY <1>1
  <2>3. PICK a, b, j : a = e.first /\ b = e.last /\ j = i - 1 OBVIOUS
  <2>4. a \in Nat /\ b \in Nat /\ j \in Int BY <2>1, <2>2, <2>3
  <2>5. /\ j \in (a + 1)..(b - 1) <=> j > a /\ j < b
        /\ j \in a..(b - 1) <=> j >= a /\ j < b
    BY <2>4
  <2> QED BY <2>3, <2>5 DEF Shifted
<1>3. e.last < Len(v) => ((\A i \in e.first..e.last : raw[i + 1] > 0 /\ v[i + 1] > 0)
                             <=> ~(\E i \in e.first..e.last : raw[i + 1] <= 0 \/ v[i + 1] <= 0))
  <2> SUFFICES ASSUME e.last < Len(v), NEW i \in e.first..e.last
               PROVE  raw[i + 1] \in Nat /\ v[i + 1] \in Int
    BY SMTT(30)
  <2>1. i + 1 \in 1..Len(v) /\ i + 1 \in 1..Len(raw) BY <1>1, LenProperties
  <2> QED BY <2>1, ElementOfSeq
<1> DEFINE A == [i \in DOMAIN v |-> IF i - 1 \in (e.first + 1)..(e.last - 1)
                                    THEN Between(e.first, v[e.first + 1], e.last, v[e.last + 1], i - 1) ELSE v[i]]
           B == [i \in DOMAIN v |-> IF i - 1 > e.first /\ i - 1 < e.last
                                    THEN Between(e.first, v[e.first + 1], e.last, v[e.last + 1], i - 1) ELSE v[i]]
           C == [i \in DOMAIN v |-> IF i - 1 \in e.first..(e.last - 1) /\ raw[i] > 0 THEN Shift(v[i], e.by) ELSE v[i]]
           D == [i \in DOMAIN v |-> IF Shifted(e, i - 1) /\ raw[i] > 0 THEN Shift(v[i], e.by) ELSE v[i]]
           no == e.last > clip \/ e.last >= Len(v) \/ e.last <= e.first
<1>4. A = B /\ C = D BY <1>2
<1>5. ReviewEdit(raw, clip, v, e) =
        IF no THEN Refused
        ELSE IF e.mode = "smooth" THEN IF \A i \in e.first..e.last : raw[i + 1] > 0 /\ v[i + 1] > 0 THEN A ELSE Refused ELSE C
  BY DEF ReviewEdit
<1>6. ConversionEdit(raw, clip, v, e) =
        IF no THEN Refused
        ELSE IF e.mode = "smooth" THEN IF \E i \in e.first..e.last : raw[i + 1] <= 0 \/ v[i + 1] <= 0 THEN Refused ELSE B ELSE D
  BY DEF ConversionEdit
<1>7. ~no => e.last < Len(v) BY <1>1
<1> HIDE DEF A, B, C, D, no
<1> QED BY <1>3, <1>4, <1>5, <1>6, <1>7

\* What corrections leave of a curve: the frames outside of them.
Corrected(n, curve, edits) ==
    {Refused} \union
    {v \in [1..n -> Int] : \A i \in 1..n :
        (\A k \in DOMAIN edits : ~(i - 1 \in edits[k].first..(edits[k].last - 1))) => v[i] = curve[i]}

LEMMA EditIs ==
    ASSUME NEW n \in Nat, NEW raw, NEW curve, NEW edits \in Seq(Edits), NEW k \in DOMAIN edits,
           NEW v \in Corrected(n, curve, edits), NEW clip
    PROVE  (IF v = Refused THEN Refused ELSE ConversionEdit(raw, clip, v, edits[k])) \in Corrected(n, curve, edits)
<1> DEFINE e == edits[k]
           u == ConversionEdit(raw, clip, v, e)
           Outside(i) == \A l \in DOMAIN edits : ~(i - 1 \in edits[l].first..(edits[l].last - 1))
<1>0. e \in Edits
  <2>1. DOMAIN edits = 1..Len(edits) BY LenProperties
  <2> QED BY <2>1, ElementOfSeq
<1>1. e.mode \in {"smooth", "shift"} /\ e.first \in Nat /\ e.last \in Nat /\ e.by \in Int BY <1>0 DEF Edits
<1>2. \A i \in 1..n : Outside(i) => ~(i - 1 \in e.first..(e.last - 1)) OBVIOUS
<1>3. Refused \in Corrected(n, curve, edits) BY DEF Corrected
<1>4. v # Refused => v \in [1..n -> Int] /\ \A i \in 1..n : Outside(i) => v[i] = curve[i] BY DEF Corrected
<1>5. \A w \in [1..n -> Int] : (\A i \in 1..n : Outside(i) => w[i] = curve[i]) => w \in Corrected(n, curve, edits)
  BY DEF Corrected
<1>6. u = IF e.last > clip \/ e.last >= Len(v) \/ e.last <= e.first THEN Refused
          ELSE IF e.mode = "smooth"
          THEN IF \E i \in e.first..e.last : raw[i + 1] <= 0 \/ v[i + 1] <= 0 THEN Refused
               ELSE [i \in DOMAIN v |->
                       IF i - 1 > e.first /\ i - 1 < e.last
                       THEN Between(e.first, v[e.first + 1], e.last, v[e.last + 1], i - 1) ELSE v[i]]
          ELSE [i \in DOMAIN v |-> IF Shifted(e, i - 1) /\ raw[i] > 0 THEN Shift(v[i], e.by) ELSE v[i]]
  BY DEF ConversionEdit
<1> HIDE DEF e, u, Outside
<1>7. CASE v = Refused \/ u = Refused BY <1>3, <1>7 DEF u, e
<1>8. CASE v # Refused /\ u # Refused
  <2>1. v \in [1..n -> Int] /\ Len(v) = n /\ DOMAIN v = 1..n /\ \A i \in 1..n : Outside(i) => v[i] = curve[i]
    <3>1. v \in [1..n -> Int] /\ \A i \in 1..n : Outside(i) => v[i] = curve[i] BY <1>4, <1>8
    <3> QED BY <3>1, SeqIs
  <2>2. e.last < n /\ e.first < e.last /\ e.first + 1 \in 1..n /\ e.last + 1 \in 1..n
    <3>1. ~(e.last > clip \/ e.last >= n \/ e.last <= e.first) BY <1>6, <1>8, <2>1
    <3> QED BY <1>1, <3>1
  <2>3. CASE e.mode = "smooth"
    <3> DEFINE w == [i \in 1..n |-> IF i - 1 > e.first /\ i - 1 < e.last
                                    THEN Between(e.first, v[e.first + 1], e.last, v[e.last + 1], i - 1) ELSE v[i]]
    <3>1. u = w
      <4>1. ~(\E i \in e.first..e.last : raw[i + 1] <= 0 \/ v[i + 1] <= 0)
        BY <1>1, <1>6, <1>8, <2>1, <2>2, <2>3
      <4> QED BY <1>1, <1>6, <1>8, <2>1, <2>2, <2>3, <4>1
    <3>2. \A i \in 1..n : Between(e.first, v[e.first + 1], e.last, v[e.last + 1], i - 1) \in Int
      <4> TAKE i \in 1..n
      <4>1. e.first \in Int /\ e.last \in Int /\ v[e.first + 1] \in Int /\ v[e.last + 1] \in Int /\ i - 1 \in Int
        BY <1>1, <2>1, <2>2
      <4> QED BY <2>2, <4>1, BetweenIs
    <3>3. w \in [1..n -> Int] BY <2>1, <3>2
    <3>4. \A i \in 1..n : Outside(i) => w[i] = curve[i]
      <4> TAKE i \in 1..n
      <4> SUFFICES ASSUME Outside(i) PROVE w[i] = v[i] BY <2>1
      <4>1. ~(i - 1 \in e.first..(e.last - 1)) BY <1>2
      <4>2. ~(i - 1 > e.first /\ i - 1 < e.last) BY <1>1, <4>1
      <4> QED BY <4>2
    <3> HIDE DEF w
    <3> QED BY <1>5, <1>8, <3>1, <3>3, <3>4 DEF u, e
  <2>4. CASE e.mode # "smooth"
    <3> DEFINE w == [i \in 1..n |-> IF Shifted(e, i - 1) /\ raw[i] > 0 THEN Shift(v[i], e.by) ELSE v[i]]
    <3>1. u = w
      <4>1. ~(e.last > clip \/ e.last >= Len(v) \/ e.last <= e.first) BY <1>6, <1>8
      <4> QED BY <1>6, <2>1, <2>4, <4>1
    <3>3. w \in [1..n -> Int] BY <1>1, <2>1 DEF Shift
    <3>4. \A i \in 1..n : Outside(i) => w[i] = curve[i]
      <4> TAKE i \in 1..n
      <4> SUFFICES ASSUME Outside(i) PROVE w[i] = v[i] BY <2>1
      <4>1. ~(i - 1 \in e.first..(e.last - 1)) BY <1>2
      <4>2. ~Shifted(e, i - 1) BY <1>1, <4>1 DEF Shifted
      <4> QED BY <4>2
    <3> HIDE DEF w
    <3> QED BY <1>5, <1>8, <3>1, <3>3, <3>4 DEF u, e
  <2> QED BY <2>3, <2>4
<1> QED BY <1>7, <1>8

\* However many corrections there are, they keep the rest of the curve.
LEMMA EditedIs ==
    ASSUME NEW n \in Nat, NEW raw \in Seq(Nat), n = Len(raw), NEW curve \in [1..n -> Int], NEW edits \in Seq(Edits), NEW clip
    PROVE  /\ ConversionEdited(raw, clip, curve, edits) \in Corrected(n, curve, edits)
           /\ ReviewEdited(raw, clip, curve, edits) = ConversionEdited(raw, clip, curve, edits)
<1> DEFINE m == Len(edits)
           V == Corrected(n, curve, edits)
           T(v, k) == IF v = Refused THEN Refused ELSE ConversionEdit(raw, clip, v, edits[k])
           U(v, k) == IF v = Refused THEN Refused ELSE ReviewEdit(raw, clip, v, edits[k])
           G == [p \in V \X (1..m) |-> T(p[1], p[2])]
           Eq(g) == g = [k \in 0..m |-> IF k = 0 THEN curve ELSE T(g[k - 1], k)]
           c == CHOOSE g : Eq(g)
           EqU(g) == g = [k \in 0..m |-> IF k = 0 THEN curve ELSE U(g[k - 1], k)]
           d == CHOOSE g : EqU(g)
<1>0. m \in Nat /\ DOMAIN edits = 1..m BY LenProperties
<1>1. curve \in V BY DEF Corrected
<1>2. \A v \in V, k \in 1..m : T(v, k) \in V BY <1>0, EditIs
<1>20. \A v \in V, k \in 1..m : U(v, k) = T(v, k)
  <2> TAKE v \in V, k \in 1..m
  <2>1. v = Refused \/ (v \in Seq(Int) /\ Len(v) = Len(raw))
    <3>1. v = Refused \/ v \in [1..n -> Int] BY DEF Corrected
    <3> QED BY <3>1, SeqIs
  <2>2. edits[k] \in Edits BY <1>0, ElementOfSeq
  <2>3. Len(raw) <= Len(raw) BY LenProperties
  <2> HIDE DEF V
  <2> QED BY <2>1, <2>2, <2>3, EditsAgree
<1>3. ConversionEdited(raw, clip, curve, edits) = c[m] /\ ReviewEdited(raw, clip, curve, edits) = d[m]
  BY DEF ConversionEdited, ReviewEdited, Iterated
<1> HIDE DEF T, U, V, m
<1>4. G \in [V \X (1..m) -> V] BY <1>2
<1>5. PICK f : f \in [0..m -> V] /\ f[0] = curve /\ \A k \in 0..(m - 1) : f[k + 1] = G[<<f[k], k + 1>>]
  <2> HIDE DEF G, Eq, c
  <2>1. PICK f : Runs(f, m, V, curve, G) BY <1>0, <1>1, <1>4, LoopOf
  <2> QED BY <2>1 DEF Runs
<1>6. \A k \in 0..(m - 1) : f[k + 1] = T(f[k], k + 1)
  <2> TAKE k \in 0..(m - 1)
  <2>1. k + 1 \in 1..m /\ f[k] \in V BY <1>0, <1>5
  <2> QED BY <1>5, <2>1
<1> HIDE DEF G
<1>7. Eq(f)
  <2>1. f = [k \in 0..m |-> f[k]] BY <1>5
  <2>2. \A k \in 0..m : f[k] = IF k = 0 THEN curve ELSE T(f[k - 1], k)
    <3>1. \A k \in 0..m : k = 0 \/ (k - 1 \in 0..(m - 1) /\ (k - 1) + 1 = k) BY <1>0
    <3> QED BY <1>5, <1>6, <3>1
  <2> QED BY <2>1, <2>2
<1>8. Eq(c) BY <1>7
<1> HIDE DEF c
<1>9. c[m] = f[m]
  <2>1. c[0] = curve BY <1>0, <1>8
  <2>2. \A k \in 0..(m - 1) : c[k + 1] = T(c[k], k + 1)
    <3>1. \A k \in 0..(m - 1) : k + 1 \in 0..m /\ k + 1 # 0 /\ (k + 1) - 1 = k BY <1>0
    <3> QED BY <1>8, <3>1
  <2>3. \A k \in 0..(m - 1) : c[k] = f[k] => c[k + 1] = f[k + 1] BY <1>6, <2>2
  <2>4. c[0] = f[0] BY <1>5, <2>1
  <2> HIDE DEF Eq, T
  <2>5. Agree(c, f, m) BY <2>3, <2>4 DEF Agree
  <2>6. \A k \in 0..m : c[k] = f[k] BY <1>0, <2>5, SameTurns
  <2> QED BY <1>0, <2>6
<1>10. f[m] \in V BY <1>0, <1>5
<1>11. d[m] = f[m]
  <2>1. \A k \in 0..(m - 1) : f[k + 1] = U(f[k], k + 1)
    <3>1. \A k \in 0..(m - 1) : k + 1 \in 1..m /\ f[k] \in V BY <1>0, <1>5
    <3> QED BY <1>6, <1>20, <3>1
  <2>2. EqU(f)
    <3>1. f = [k \in 0..m |-> f[k]] BY <1>5
    <3>2. \A k \in 0..m : f[k] = IF k = 0 THEN curve ELSE U(f[k - 1], k)
      <4>1. \A k \in 0..m : k = 0 \/ (k - 1 \in 0..(m - 1) /\ (k - 1) + 1 = k) BY <1>0
      <4> QED BY <1>5, <2>1, <4>1
    <3> QED BY <3>1, <3>2
  <2>3. EqU(d) BY <2>2
  <2> HIDE DEF d
  <2>4. d[0] = curve BY <1>0, <2>3
  <2>5. \A k \in 0..(m - 1) : d[k + 1] = U(d[k], k + 1)
    <3>1. \A k \in 0..(m - 1) : k + 1 \in 0..m /\ k + 1 # 0 /\ (k + 1) - 1 = k BY <1>0
    <3> QED BY <2>3, <3>1
  <2>6. \A k \in 0..(m - 1) : d[k] = f[k] => d[k + 1] = f[k + 1] BY <2>1, <2>5
  <2>7. d[0] = f[0] BY <1>5, <2>4
  <2> HIDE DEF EqU, U
  <2>8. Agree(d, f, m) BY <2>6, <2>7 DEF Agree
  <2>9. \A k \in 0..m : d[k] = f[k] BY <1>0, <2>8, SameTurns
  <2> QED BY <1>0, <2>9
<1> QED BY <1>3, <1>9, <1>10, <1>11 DEF V

\* Without corrections the curve stays, with one it is that one.
LEMMA FewEdits ==
    ASSUME NEW raw, NEW curve, curve # Refused, NEW e, NEW clip
    PROVE  ConversionEdited(raw, clip, curve, <<>>) = curve /\ ConversionEdited(raw, clip, curve, <<e>>) = ConversionEdit(raw, clip, curve, e)
<1> DEFINE T(v, k, edits) == IF v = Refused THEN Refused ELSE ConversionEdit(raw, clip, v, edits[k])
           Eq(g, m, edits) == g = [k \in 0..m |-> IF k = 0 THEN curve ELSE T(g[k - 1], k, edits)]
           c(m, edits) == CHOOSE g : Eq(g, m, edits)
<1>1. Len(<<>>) = 0 /\ Len(<<e>>) = 1 /\ <<e>>[1] = e OBVIOUS
<1>2. ConversionEdited(raw, clip, curve, <<>>) = c(0, <<>>)[0] /\ ConversionEdited(raw, clip, curve, <<e>>) = c(1, <<e>>)[1]
  BY <1>1 DEF ConversionEdited, Iterated
<1>3. T(curve, 1, <<e>>) = ConversionEdit(raw, clip, curve, e) BY <1>1
<1> HIDE DEF T
<1>4. c(0, <<>>)[0] = curve
  <2> DEFINE h == [k \in 0..0 |-> curve]
  <2>1. \A k \in 0..0 : k = 0 OBVIOUS
  <2>2. Eq(h, 0, <<>>) BY <2>1
  <2>3. Eq(c(0, <<>>), 0, <<>>) BY <2>2
  <2> HIDE DEF c
  <2>4. 0 \in 0..0 OBVIOUS
  <2> QED BY <2>3, <2>4
<1>5. c(1, <<e>>)[1] = ConversionEdit(raw, clip, curve, e)
  <2> DEFINE h == [k \in 0..1 |-> IF k = 0 THEN curve ELSE T(curve, 1, <<e>>)]
  <2>1. \A k \in 0..1 : k = 0 \/ (k = 1 /\ k - 1 = 0) OBVIOUS
  <2>2. h[0] = curve /\ h[1] = T(curve, 1, <<e>>) /\ h = [k \in 0..1 |-> h[k]] OBVIOUS
  <2> HIDE DEF h
  <2>3. \A k \in 0..1 : h[k] = IF k = 0 THEN curve ELSE T(h[k - 1], k, <<e>>) BY <2>1, <2>2
  <2>4. Eq(h, 1, <<e>>) BY <2>2, <2>3
  <2>5. Eq(c(1, <<e>>), 1, <<e>>) BY <2>4
  <2> HIDE DEF c
  <2>6. 0 \in 0..1 /\ 1 \in 0..1 /\ 1 # 0 /\ 1 - 1 = 0 OBVIOUS
  <2>7. c(1, <<e>>)[0] = curve BY <2>5, <2>6
  <2>8. c(1, <<e>>)[1] = T(c(1, <<e>>)[1 - 1], 1, <<e>>) BY <2>5, <2>6
  <2> QED BY <1>3, <2>6, <2>7, <2>8
<1> QED BY <1>2, <1>4, <1>5

LEMMA PlainIsNotRefused ==
    ASSUME NEW n \in Nat, NEW curve \in [1..n -> Nat]
    PROVE  curve # Refused
<1> SUFFICES ASSUME curve = Refused PROVE FALSE OBVIOUS
<1>1. DOMAIN Refused = 1..1 /\ Refused[1] = -1 BY DEF Refused
<1>2. 1 \in DOMAIN curve /\ curve[1] = -1 BY <1>1
<1>3. curve[1] \in Nat BY <1>2
<1> QED BY <1>2, <1>3

\* Both curves, in terms of the filtered one.
LEMMA CurvesAre ==
    ASSUME NEW raw \in Seq(Nat), NEW filter \in Nat, NEW edits \in Seq(Edits), NEW clip
    PROVE  /\ Plain(raw, filter) \in [1..Len(raw) -> Nat] /\ Plain(raw, filter) # Refused
           /\ LET u == ConversionEdited(raw, clip, Plain(raw, filter), edits)
              IN /\ u \in Corrected(Len(raw), Plain(raw, filter), edits)
                 /\ ConversionCurve(raw, clip, filter, 0, edits) =
                      IF edits # <<>> /\ Len(raw) > ReviewFrames THEN Refused ELSE u
                 /\ ReviewCurve(raw, clip, filter, 0, edits) = IF Len(raw) > ReviewFrames THEN Refused ELSE u
<1> DEFINE n == Len(raw)
           p == Plain(raw, filter)
<1>0. n \in Nat BY LenProperties
<1>1. p \in [1..n -> Nat] /\ ProcessedF0(raw, FALSE, filter, 0) = p BY PlainIs
<1>2. ConversionCurve(raw, clip, filter, 0, edits) =
        IF edits # <<>> /\ n > ReviewFrames THEN Refused ELSE ConversionEdited(raw, clip, p, edits)
  BY <1>1 DEF ConversionCurve
<1>3. ReviewCurve(raw, clip, filter, 0, edits) = IF n > ReviewFrames THEN Refused ELSE ReviewEdited(raw, clip, p, edits)
  BY DEF ReviewCurve, Plain
<1> HIDE DEF p
<1>4. p # Refused BY <1>0, <1>1, PlainIsNotRefused
<1>5. p \in [1..n -> Int] BY <1>1
<1>6. /\ ConversionEdited(raw, clip, p, edits) \in Corrected(n, p, edits)
      /\ ReviewEdited(raw, clip, p, edits) = ConversionEdited(raw, clip, p, edits)
  BY <1>0, <1>5, EditedIs, ZenonT(60)
<1> QED BY <1>1, <1>2, <1>3, <1>4, <1>6 DEF p

\* The frames outside of the corrections are those of the curve without any.
Outside(edits, i) == \A k \in DOMAIN edits : ~(i - 1 \in edits[k].first..(edits[k].last - 1))
LEMMA ReviewedIs ==
    ASSUME NEW raw \in Seq(Nat), NEW filter \in Nat, NEW edits \in Seq(Edits), NEW clip,
           NEW u, u = ConversionCurve(raw, clip, filter, 0, edits),
           NEW seen, seen = ReviewCurve(raw, clip, filter, 0, edits)
    PROVE  /\ edits # <<>> \/ seen # Refused => u = seen
           /\ u # Refused => \A i \in DOMAIN raw : Outside(edits, i) => u[i] = ConversionCurve(raw, clip, filter, 0, <<>>)[i]
<1> DEFINE p == Plain(raw, filter)
           w == ConversionEdited(raw, clip, p, edits)
<1>0. DOMAIN raw = 1..Len(raw) BY LenProperties
<1>1. /\ p \in [1..Len(raw) -> Nat] /\ p # Refused /\ w \in Corrected(Len(raw), p, edits)
      /\ u = (IF edits # <<>> /\ Len(raw) > ReviewFrames THEN Refused ELSE w)
      /\ seen = IF Len(raw) > ReviewFrames THEN Refused ELSE w
  BY CurvesAre
<1>2. ConversionCurve(raw, clip, filter, 0, <<>>) = p
  <2>1. ConversionEdited(raw, clip, p, <<>>) = p
    <3> HIDE DEF p
    <3> QED BY <1>1, FewEdits
  <2>2. <<>> \in Seq(Edits) BY EmptySeq
  <2> QED BY <2>1, <2>2, CurvesAre
<1> HIDE DEF p, w, Edits
<1>3. w # Refused => \A i \in 1..Len(raw) : Outside(edits, i) => w[i] = p[i] BY <1>1 DEF Corrected, Outside
<1> QED BY <1>0, <1>1, <1>2, <1>3
----------------------------------------
(* The issues of a curve and the shifts that are proposed for them. *)

\* Jumps between voiced frames, behind the first and ahead of the last frame.
Places(raw) == {i \in 1..Len(raw) : i + 2 < Len(raw) /\ raw[i] > 0 /\ raw[i + 1] > 0}
Suggested(raw, curve, filter, i) == SuggestAt(raw, curve, Radius(filter), 1, Len(raw), i)

LEMMA ReturnIs ==
    ASSUME NEW raw, NEW i \in Nat, NEW end \in Nat
    PROVE  ReturnOf(raw, i, end) = 0 \/ ReturnOf(raw, i, end) \in (i + 2)..(end - 1)
<1> DEFINE top == Min({end, i + 36}) - 1
           run == {j \in (i + 2)..top : \A k \in (i + 1)..j : raw[k] > 0 /\ raw[k + 1] > 0}
           back == {j \in run : /\ (raw[i + 1] - raw[i]) * (raw[j + 1] - raw[j]) < 0
                                /\ Octave(raw[j + 1] - raw[j]) /\ ~Far(raw[j + 1], raw[i], 4)}
<1>1. top \in Int /\ top <= end - 1
  <2>1. Min({end, i + 36}) = IF end <= i + 36 THEN end ELSE i + 36 BY MinOfTwo
  <2> QED BY <2>1
<1> HIDE DEF top
<1>2. back \subseteq (i + 2)..(end - 1) /\ back \in SUBSET Nat BY <1>1
<1>3. ReturnOf(raw, i, end) = IF back = {} THEN 0 ELSE Min(back) BY DEF ReturnOf, top
<1> HIDE DEF back
<1>4. back # {} => Min(back) \in back BY <1>2, MinOf
<1> QED BY <1>2, <1>3, <1>4

\* A frame an octave off would not be near itself.
LEMMA NotNearItself ==
    ASSUME NEW raw, NEW n \in Nat, NEW curve \in [1..n -> Int], NEW j \in 0..(n - 1), NEW by \in {12, -12}
    PROVE  ~Wrong(raw, curve, j, by, j)
<1>1. curve[j + 1] \in Int
  <2>1. j + 1 \in 1..n OBVIOUS
  <2> QED BY <2>1
<1>2. Far(curve[j + 1] + by, curve[j + 1], 3) BY <1>1 DEF Far
<1> QED BY <1>2 DEF Wrong

\* What is proposed at a place, in terms of its return.
Proposal(raw, curve, n, i, g) ==
    /\ g.until \in Nat \ {0}
    /\ g.found =>
         /\ g.first \in 1..i /\ g.last \in (i + 2)..(n - 1) /\ g.by \in {12, -12}
         /\ \A k \in g.first..(g.last - 1) : Wrong(raw, curve, g.last, g.by, k)

LEMMA SuggestionIs ==
    ASSUME NEW raw \in Seq(Nat), NEW curve \in [1..Len(raw) -> Int], NEW filter \in Nat, NEW i \in Places(raw)
    PROVE  Proposal(raw, curve, Len(raw), i, Suggested(raw, curve, filter, i))
<1> DEFINE n == Len(raw)
           r == Radius(filter)
           jump == raw[i + 1] - raw[i]
           j == IF Octave(jump) THEN ReturnOf(raw, i, n) ELSE 0
           by == IF jump < 0 THEN 12 ELSE -12
           F == {f \in Max({1, i - r})..i : \A k \in f..(i - 1) : Wrong(raw, curve, j, by, k)}
           L == {l \in j..Min({n, j + r}) : \A k \in j..(l - 1) : Wrong(raw, curve, j, by, k)}
           first == Min(F)
           last == Max(L)
           g == Suggested(raw, curve, filter, i)
<1>1. n \in Nat /\ i \in Nat /\ i >= 1 /\ i + 2 < n /\ r \in Nat
  <2>1. n \in Nat /\ r \in Nat BY LenProperties, RadiusIs
  <2>2. i \in 1..n /\ i + 2 < n BY DEF Places
  <2> QED BY <2>1, <2>2
<1>2. g = IF j = 0 THEN [found |-> FALSE, until |-> i + 1]
          ELSE IF last - first >= 2 /\ \A k \in first..(last - 1) : Wrong(raw, curve, j, by, k)
          THEN [found |-> TRUE, until |-> last, first |-> first, last |-> last, by |-> by]
          ELSE [found |-> FALSE, until |-> j]
  BY DEF Suggested, SuggestAt
<1>3. j = 0 \/ j \in (i + 2)..(n - 1) BY <1>1, ReturnIs
<1>4. by \in {12, -12} OBVIOUS
<1> HIDE DEF n, r, by, j, g
<1>5. CASE j = 0 BY <1>1, <1>2, <1>5 DEF Proposal, g, n
<1>6. CASE j # 0
  <2>0. j \in (i + 2)..(n - 1) /\ j \in Nat /\ j < n /\ j >= i + 2 BY <1>1, <1>3, <1>6
  <2>1. F \in SUBSET Nat /\ i \in F /\ \A f \in F : f \in 1..i
    <3>1. Max({1, i - r}) = IF 1 >= i - r THEN 1 ELSE i - r BY <1>1, MaxOfTwo
    <3>2. Max({1, i - r}) \in Nat /\ Max({1, i - r}) >= 1 /\ Max({1, i - r}) <= i BY <1>1, <3>1
    <3> DEFINE lo == Max({1, i - r})
    <3>3. lo \in Nat /\ lo >= 1 /\ lo <= i BY <3>2
    <3> HIDE DEF lo
    <3>4. i \in lo..i /\ i..(i - 1) = {} BY <1>1, <3>3
    <3>5. \A f \in lo..i : f \in Nat /\ f \in 1..i BY <1>1, <3>3
    <3> QED BY <3>4, <3>5 DEF lo
  <2>2. first \in 1..i
    <3> HIDE DEF F
    <3> QED BY <2>1, MinOf
  <2>3. ~Wrong(raw, curve, j, by, j)
    <3>1. n \in Nat /\ curve \in [1..n -> Int] BY <1>1 DEF n
    <3>2. j \in 0..(n - 1) BY <2>0, <3>1
    <3> QED BY <1>4, <3>1, <3>2, NotNearItself
  <2>4. L \in SUBSET Int /\ j \in L /\ \A l \in L : l <= j
    <3> DEFINE hi == Min({n, j + r})
    <3>1. hi = IF n <= j + r THEN n ELSE j + r BY <1>1, <2>0, MinOfTwo
    <3>2. hi \in Nat /\ j <= hi BY <1>1, <2>0, <3>1
    <3> HIDE DEF hi
    <3>3. j \in j..hi /\ j..(j - 1) = {} BY <2>0, <3>2
    <3>4. \A l \in j..hi : l \in Int /\ (l > j => j \in j..(l - 1)) BY <2>0, <3>2
    <3>5. \A l \in j..hi : (\A k \in j..(l - 1) : Wrong(raw, curve, j, by, k)) => l <= j
      <4> TAKE l \in j..hi
      <4>1. l > j => ~(\A k \in j..(l - 1) : Wrong(raw, curve, j, by, k)) BY <2>3, <3>4
      <4> QED BY <2>0, <3>4, <4>1
    <3> QED BY <3>3, <3>4, <3>5 DEF hi
  <2>5. last = j
    <3> HIDE DEF L
    <3> QED BY <2>4, MaxOf
  <2> HIDE DEF first, last
  <2>6. CASE last - first >= 2 /\ \A k \in first..(last - 1) : Wrong(raw, curve, j, by, k)
    <3>1. g = [found |-> TRUE, until |-> j, first |-> first, last |-> j, by |-> by] BY <1>2, <1>6, <2>5, <2>6
    <3>2. g.until = j /\ g.first = first /\ g.last = j /\ g.by = by BY <3>1
    <3>3. \A k \in first..(j - 1) : Wrong(raw, curve, j, by, k) BY <2>5, <2>6
    <3> HIDE DEF L, F
    <3> QED BY <1>1, <1>4, <2>0, <2>2, <3>2, <3>3 DEF Proposal, g, n
  <2>7. CASE ~(last - first >= 2 /\ \A k \in first..(last - 1) : Wrong(raw, curve, j, by, k))
    <3>1. g = [found |-> FALSE, until |-> j] BY <1>2, <1>6, <2>7
    <3> QED BY <1>1, <2>0, <3>1 DEF Proposal, g, n
  <2> QED BY <2>6, <2>7
<1> QED BY <1>5, <1>6

Issues(raw, curve, filter) == {[at |-> i, suggestion |-> Suggested(raw, curve, filter, i)] : i \in Places(raw)}

\* Every issue is one of a place.
LEMMA IssuesAre ==
    ASSUME NEW raw \in Seq(Nat), NEW curve \in [1..Len(raw) -> Int], NEW filter \in Nat
    PROVE  FindPitchIssues(raw, curve, filter) \in Seq(Issues(raw, curve, filter))
<1> DEFINE m == Len(raw)
           I == Issues(raw, curve, filter)
           V == [at : Nat \ {0}, issues : Seq(I)]
           T(v, k) == NextIssue(raw, curve, Radius(filter), 1, m, v)
           start == [at |-> 1, issues |-> <<>>]
           G == [p \in V \X (1..m) |-> T(p[1], p[2])]
           Eq(g) == g = [k \in 0..m |-> IF k = 0 THEN start ELSE T(g[k - 1], k)]
           c == CHOOSE g : Eq(g)
<1>0. m \in Nat BY LenProperties
<1>1. start \in V
  <2>1. <<>> \in Seq(I) BY EmptySeq
  <2> HIDE DEF I
  <2> QED BY <2>1
<1>2. ASSUME NEW s \in V, NEW k \in 1..m PROVE T(s, k) \in V
  <2> DEFINE i == s.at
             g == Suggested(raw, curve, filter, i)
             seen == g.found \/ (curve[i + 1] > 0 /\ curve[i] > 0 /\ Far(curve[i + 1], curve[i], 7))
  <2>1. T(s, k) = IF i + 2 >= m THEN s
                  ELSE IF raw[i] <= 0 \/ raw[i + 1] <= 0 \/ ~Far(raw[i + 1], raw[i], 7) THEN [s EXCEPT !.at = i + 1]
                  ELSE IF ~seen THEN [s EXCEPT !.at = g.until]
                  ELSE [at |-> g.until + 1, issues |-> Append(s.issues, [at |-> i, suggestion |-> g])]
    BY DEF NextIssue, Suggested
  <2>2. i \in Nat \ {0} /\ s.issues \in Seq(I) OBVIOUS
  <2> HIDE DEF T, seen, i, g, I
  <2>3. CASE i + 2 >= m BY <2>1, <2>3
  <2>4. CASE ~(i + 2 >= m) /\ (raw[i] <= 0 \/ raw[i + 1] <= 0 \/ ~Far(raw[i + 1], raw[i], 7))
    <3>1. T(s, k) = [s EXCEPT !.at = i + 1] BY <2>1, <2>4
    <3>2. i + 1 \in Nat \ {0} BY <2>2
    <3> QED BY <2>2, <3>1, <3>2
  <2>5. CASE ~(i + 2 >= m) /\ ~(raw[i] <= 0 \/ raw[i + 1] <= 0 \/ ~Far(raw[i + 1], raw[i], 7))
    <3>1. i \in 1..m /\ i + 1 \in 1..m /\ i + 2 < m BY <1>0, <2>2, <2>5, SMTT(30)
    <3>2. raw[i] \in Nat /\ raw[i + 1] \in Nat BY <3>1, ElementOfSeq DEF m
    <3>3. i \in Places(raw) BY <2>5, <3>1, <3>2, SMTT(30) DEF Places, m
    <3>4. g.until \in Nat \ {0} BY <3>3, SuggestionIs DEF Proposal, g
    <3>5. [at |-> i, suggestion |-> g] \in I BY <3>3 DEF I, Issues, g
    <3>6. CASE ~seen BY <2>1, <2>5, <3>6, <2>2, <3>4
    <3>7. CASE seen
      <4>1. T(s, k) = [at |-> g.until + 1, issues |-> Append(s.issues, [at |-> i, suggestion |-> g])]
        BY <2>1, <2>5, <3>7
      <4>2. Append(s.issues, [at |-> i, suggestion |-> g]) \in Seq(I) BY <2>2, <3>5, AppendProperties
      <4>3. g.until + 1 \in Nat \ {0} BY <3>4
      <4> QED BY <4>1, <4>2, <4>3
    <3> QED BY <3>6, <3>7
  <2> QED BY <2>3, <2>4, <2>5
<1>3. FindPitchIssues(raw, curve, filter) = c[m].issues BY DEF FindPitchIssues, Iterated
<1>30. \A v \in V : v.issues \in Seq(I) OBVIOUS
<1> HIDE DEF T, V, m, start, I
<1>4. G \in [V \X (1..m) -> V] BY <1>2
<1>5. PICK f : f \in [0..m -> V] /\ f[0] = start /\ \A k \in 0..(m - 1) : f[k + 1] = G[<<f[k], k + 1>>]
  <2> HIDE DEF G, Eq, c
  <2>1. PICK f : Runs(f, m, V, start, G) BY <1>0, <1>1, <1>4, LoopOf
  <2> QED BY <2>1 DEF Runs
<1>6. \A k \in 0..(m - 1) : f[k + 1] = T(f[k], k + 1)
  <2> TAKE k \in 0..(m - 1)
  <2>1. k + 1 \in 1..m /\ f[k] \in V BY <1>0, <1>5
  <2> QED BY <1>5, <2>1
<1> HIDE DEF G
<1>7. Eq(f)
  <2>1. f = [k \in 0..m |-> f[k]] BY <1>5
  <2>2. \A k \in 0..m : f[k] = IF k = 0 THEN start ELSE T(f[k - 1], k)
    <3>1. \A k \in 0..m : k = 0 \/ (k - 1 \in 0..(m - 1) /\ (k - 1) + 1 = k) BY <1>0
    <3> QED BY <1>5, <1>6, <3>1
  <2> QED BY <2>1, <2>2
<1>8. Eq(c) BY <1>7
<1> HIDE DEF c
<1>9. c[m] = f[m]
  <2>1. c[0] = start BY <1>0, <1>8
  <2>2. \A k \in 0..(m - 1) : c[k + 1] = T(c[k], k + 1)
    <3>1. \A k \in 0..(m - 1) : k + 1 \in 0..m /\ k + 1 # 0 /\ (k + 1) - 1 = k BY <1>0
    <3> QED BY <1>8, <3>1
  <2>3. \A k \in 0..(m - 1) : c[k] = f[k] => c[k + 1] = f[k + 1] BY <1>6, <2>2
  <2>4. c[0] = f[0] BY <1>5, <2>1
  <2> HIDE DEF Eq, T
  <2>5. Agree(c, f, m) BY <2>3, <2>4 DEF Agree
  <2>6. \A k \in 0..m : c[k] = f[k] BY <1>0, <2>5, SameTurns
  <2> QED BY <1>0, <2>6
<1>10. f[m] \in V BY <1>0, <1>5
<1> QED BY <1>3, <1>9, <1>10, <1>30 DEF I

\* What is proposed comes from a place.
LEMMA SuggestionsAre ==
    ASSUME NEW raw \in Seq(Nat), NEW curve \in [1..Len(raw) -> Int], NEW filter \in Nat,
           NEW e \in Suggestions(FindPitchIssues(raw, curve, filter))
    PROVE  \E i \in Places(raw) :
             LET g == Suggested(raw, curve, filter, i)
             IN g.found /\ e = [mode |-> "shift", first |-> g.first, last |-> g.last, by |-> g.by]
<1> DEFINE s == FindPitchIssues(raw, curve, filter)
<1>1. s \in Seq(Issues(raw, curve, filter)) BY IssuesAre
<1>2. PICK g \in {x \in {s[k].suggestion : k \in DOMAIN s} : x.found} :
        e = [mode |-> "shift", first |-> g.first, last |-> g.last, by |-> g.by]
  BY DEF Suggestions
<1> HIDE DEF s
<1>3. PICK k \in DOMAIN s : g = s[k].suggestion BY <1>2
<1>4. s[k] \in Issues(raw, curve, filter) BY <1>1, <1>3
<1>5. PICK i \in Places(raw) : s[k] = [at |-> i, suggestion |-> Suggested(raw, curve, filter, i)]
  BY <1>4 DEF Issues
<1>6. g = Suggested(raw, curve, filter, i) /\ g.found BY <1>2, <1>3, <1>5
<1> QED BY <1>2, <1>5, <1>6

\* A shift that is proposed is accepted, and undoes what it was proposed for.
LEMMA SuggestionHolds ==
    ASSUME NEW raw \in Seq(Nat), NEW filter \in Nat,
           Len(raw) <= ReviewFrames,
           NEW e \in Suggestions(FindPitchIssues(raw, ReviewCurve(raw, Len(raw), filter, 0, <<>>), filter)),
           NEW fixed, fixed = ReviewCurve(raw, Len(raw), filter, 0, <<e>>)
    PROVE  /\ ValidPitchEdits(<<e>>) /\ fixed # Refused
           /\ \A i \in e.first..(e.last - 1) : raw[i + 1] > 0
           /\ e \notin Suggestions(FindPitchIssues(raw, fixed, filter))
<1> DEFINE n == Len(raw)
           p == Plain(raw, filter)
<1>0. n \in Nat /\ \A i \in 1..n : raw[i] \in Nat BY LenProperties, ElementOfSeq
<1>00. ~(n > ReviewFrames) BY <1>0, StreamAssumption
<1>1. p \in [1..n -> Nat] /\ p # Refused /\ ReviewCurve(raw, n, filter, 0, <<>>) = p
  <2>1. <<>> \in Seq(Edits) BY EmptySeq
  <2>2. p \in [1..n -> Nat] /\ p # Refused BY <2>1, CurvesAre
  <2>3. ConversionEdited(raw, n, p, <<>>) = p
    <3> HIDE DEF p, n
    <3> QED BY <2>2, FewEdits
  <2> QED BY <1>00, <2>1, <2>2, <2>3, CurvesAre
<1> HIDE DEF p
<1>3. p \in [1..n -> Int] BY <1>1
<1>4. e \in Suggestions(FindPitchIssues(raw, p, filter)) BY <1>1
<1>5. PICK i \in Places(raw) :
        LET g == Suggested(raw, p, filter, i)
        IN g.found /\ e = [mode |-> "shift", first |-> g.first, last |-> g.last, by |-> g.by]
  <2> HIDE DEF n
  <2>1. Len(raw) = n BY DEF n
  <2> QED BY <1>3, <1>4, <2>1, SuggestionsAre, ZenonT(60)
<1>6. Proposal(raw, p, n, i, Suggested(raw, p, filter, i)) BY <1>3, SuggestionIs
<1>7. /\ e.mode = "shift" /\ e.first \in 1..i /\ e.last \in (i + 2)..(n - 1) /\ e.by \in {12, -12}
      /\ \A k \in e.first..(e.last - 1) : Wrong(raw, p, e.last, e.by, k)
  BY <1>5, <1>6 DEF Proposal
<1>8. i \in Nat /\ i + 2 < n BY <1>0 DEF Places
<1> HIDE DEF n
<1>9. e.first \in Nat /\ e.last \in Nat /\ e.last - e.first >= 2 /\ e.first >= 1 /\ e.last < n /\ e.by \in Int
  BY <1>0, <1>7, <1>8, SMTT(30)
<1>10. ValidPitchEdits(<<e>>)
  <2>1. DOMAIN <<e>> = 1..1 /\ <<e>>[1] = e OBVIOUS
  <2>2. \A k \in 1..1 : k = 1 OBVIOUS
  <2>3. e.mode # "smooth" BY <1>7
  <2> QED BY <1>9, <2>1, <2>2, <2>3 DEF ValidPitchEdits
<1>11. fixed = [x \in 1..n |-> IF Shifted(e, x - 1) /\ raw[x] > 0 THEN Shift(p[x], e.by) ELSE p[x]]
  <2>1. DOMAIN p = 1..n /\ Len(p) = n BY <1>0, <1>1, SeqIs
  <2>2. e.mode # "smooth" /\ ~(e.last > n \/ e.last >= n \/ e.last <= e.first) BY <1>0, <1>7, <1>9
  <2>3. <<e>> \in Seq(Edits)
    <3>1. e = [mode |-> "shift", first |-> e.first, last |-> e.last, by |-> e.by] BY <1>5
    <3>2. e \in Edits BY <1>9, <3>1 DEF Edits
    <3> QED BY <3>2
  <2>4. fixed = ConversionEdited(raw, n, p, <<e>>) BY <1>00, <2>3, CurvesAre DEF p, n
  <2>5. fixed = ConversionEdit(raw, n, p, e) BY <1>1, <2>4, FewEdits
  <2> QED BY <2>1, <2>2, <2>5 DEF ConversionEdit
<1>12. fixed \in [1..n -> Int] BY <1>3, <1>9, <1>11, SMTT(30) DEF Shift
<1>13. fixed # Refused
  <2>1. 2 \in DOMAIN fixed BY <1>0, <1>8, <1>12
  <2>2. ~(2 \in DOMAIN Refused) BY DEF Refused
  <2> QED BY <2>1, <2>2
<1>14. \A k \in e.first..(e.last - 1) : raw[k + 1] > 0 BY <1>7 DEF Wrong
<1>15. ASSUME e \in Suggestions(FindPitchIssues(raw, fixed, filter)) PROVE FALSE
  <2>1. fixed \in [1..Len(raw) -> Int] BY <1>12 DEF n
  <2>2. PICK h \in Places(raw) :
          LET g == Suggested(raw, fixed, filter, h)
          IN g.found /\ e = [mode |-> "shift", first |-> g.first, last |-> g.last, by |-> g.by]
    BY <1>15, <2>1, SuggestionsAre
  <2>3. Proposal(raw, fixed, Len(raw), h, Suggested(raw, fixed, filter, h)) BY <2>1, SuggestionIs
  <2>4. \A k \in e.first..(e.last - 1) : Wrong(raw, fixed, e.last, e.by, k)
    <3> DEFINE g == Suggested(raw, fixed, filter, h)
    <3>1. g.found /\ e = [mode |-> "shift", first |-> g.first, last |-> g.last, by |-> g.by] BY <2>2
    <3>2. g.found => \A k \in g.first..(g.last - 1) : Wrong(raw, fixed, g.last, g.by, k) BY <2>3 DEF Proposal
    <3> HIDE DEF g
    <3>3. e.first = g.first /\ e.last = g.last /\ e.by = g.by BY <3>1
    <3> QED BY <3>1, <3>2, <3>3
  <2> DEFINE k == e.first
  <2>5. k \in e.first..(e.last - 1) /\ k + 1 \in 1..n /\ e.last + 1 \in 1..n BY <1>0, <1>9, SMTT(30)
  <2>6. Wrong(raw, p, e.last, e.by, k) /\ Wrong(raw, fixed, e.last, e.by, k) BY <1>7, <2>4, <2>5
  <2>7. fixed[k + 1] = p[k + 1] + e.by
    <3>1. Shifted(e, (k + 1) - 1) /\ raw[k + 1] > 0 BY <1>9, <1>14, <2>5, SMTT(30) DEF Shifted
    <3>2. Shift(p[k + 1], e.by) = p[k + 1] + e.by BY <2>6 DEF Wrong, Shift
    <3> QED BY <1>11, <2>5, <3>1, <3>2
  <2>8. fixed[e.last + 1] = p[e.last + 1]
    <3>1. ~Shifted(e, (e.last + 1) - 1) BY <1>9 DEF Shifted
    <3> QED BY <1>11, <2>5, <3>1
  <2> DEFINE a == p[k + 1]
             b == p[e.last + 1]
             d == e.by
  <2>9. a \in Int /\ b \in Int /\ d \in {12, -12} BY <1>3, <1>7, <2>5
  <2>10. ~Far(a + d, b, 3) /\ ~Far((a + d) + d, b, 3) BY <2>6, <2>7, <2>8 DEF Wrong
  <2> HIDE DEF a, b, d
  <2> QED BY <2>9, <2>10 DEF Far
<1> QED BY <1>10, <1>13, <1>14, <1>15
----------------------------------------
(* What is computed for a job. *)

LEMMA JobsFit == ASSUME NEW j \in Jobs PROVE JobFits(j)
  BY JobsAssumption

LEMMA OutcomeOf ==
    ASSUME NEW j
    PROVE  /\ j.kind = "resample" => Outcome(j) = StableSnapshot(j.x, j.src, j.dst)
           /\ j.kind = "highpass" => Outcome(j) = FilteredSource(j.x)
           /\ j.kind = "reflect" => Outcome(j) = ReadReflected(j.x, j.pad, j.first, j.count)
           /\ j.kind = "window" => Outcome(j) = RawF0(j.n, j.context)
           /\ j.kind = "pitch" => Outcome(j) = ProcessedF0(j.raw, j.interp, j.filter, j.key)
           /\ j.kind = "review" => Outcome(j) = ConversionCurve(j.raw, j.clip, j.filter, 0, j.edits)
           /\ j.kind = "issues" => Outcome(j) = FindPitchIssues(j.raw, ReviewCurve(j.raw, Len(j.raw), j.filter, 0, <<>>), j.filter)
           /\ j.kind = "envelope" => Outcome(j) = EnvelopeCursor(RmsRecords(j.n, j.hop), j.length)
           /\ j.kind = "cuts" => Outcome(j) = QuietCores(j)
  BY DEF Outcome

\* A plan that was accepted keeps the bound of its cores.
LEMMA CutsHold ==
    ASSUME NEW j, JobFits(j), j.kind = "cuts", NEW u, u = QuietCores(j)
    PROVE  LET cuts == LongCuts(j.n, j.energy, Max({j.chunk, Hop}), Max({j.query, Hop}))
               hard == ChunkPlan(j.n, j.chunk, j.query, j.pad).hardCore
           IN IF -1 \in ToSet(u)
              THEN /\ j.chunk % Hop # 0 \/ j.query % Hop # 0
                   /\ \E k \in 1..(Len(cuts) - 1) : cuts[k + 1] - cuts[k] > hard
              ELSE u = cuts
<1> DEFINE plan == ChunkPlan(j.n, j.chunk, j.query, j.pad)
           c == Max({j.chunk, Hop})
           q == Max({j.query, Hop})
<1>1. /\ {j.n, j.chunk, j.query, j.pad} \subseteq Nat /\ (\A f \in 0..(Frames(j.n) - 1) : j.energy[f] \in Nat)
      /\ plan.valid /\ plan.chunk = c
  BY DEF JobFits
<1>2. plan.query = q /\ plan.hardCore = plan.chunk + 2 * plan.query /\ (plan.valid => j.n >= 2)
  BY DEF ChunkPlan
<1>3. c = (IF j.chunk >= Hop THEN j.chunk ELSE Hop) /\ q = IF j.query >= Hop THEN j.query ELSE Hop
  BY <1>1, Sizes, MaxOfTwo
<1> HIDE DEF plan, c, q
<1>4. c \in Nat /\ q \in Nat /\ c >= Hop /\ q >= Hop /\ j.n \in Nat /\ j.n >= 2 BY <1>1, <1>2, <1>3, Sizes
<1>5. Fits(j.n, j.energy, plan.chunk, plan.query) BY <1>1, <1>2, <1>4 DEF Fits
<1>6. IF -1 \in ToSet(u) THEN TooLong(j.n, j.energy, c, q) ELSE u = LongCuts(j.n, j.energy, c, q)
  <2>1. IF -1 \in ToSet(u) THEN TooLong(j.n, j.energy, plan.chunk, plan.query)
        ELSE u = LongCuts(j.n, j.energy, plan.chunk, plan.query)
    BY <1>2, <1>5, QuietCoresAre DEF plan
  <2> QED BY <1>1, <1>2, <2>1
<1>7. ~(c % Hop = 0 /\ q % Hop = 0) => j.chunk % Hop # 0 \/ j.query % Hop # 0
  <2>1. Hop % Hop = 0
    <3>1. Hop \in Nat \ {0} /\ 1 \in Int /\ 1 * Hop = Hop BY Sizes
    <3>2. (1 * Hop) % Hop = 0 BY <3>1, MultipleIsWhole
    <3> QED BY <3>1, <3>2
  <2> QED BY <1>3, <2>1
<1>8. plan.hardCore = c + 2 * q BY <1>1, <1>2
<1>9. CASE -1 \in ToSet(u)
  <2>1. TooLong(j.n, j.energy, c, q) BY <1>6, <1>9
  <2> QED BY <1>7, <1>8, <1>9, <2>1 DEF TooLong, plan, c, q
<1>10. CASE -1 \notin ToSet(u) BY <1>6, <1>10 DEF c, q
<1> QED BY <1>9, <1>10

LEMMA EnvelopeHolds ==
    ASSUME NEW n \in Nat \ {0}, NEW hop \in Nat \ {0}, NEW length \in Nat \ {0}
    PROVE  EnvelopeCursor(RmsRecords(n, hop), length) = WholeEnvelope(RmsWindows(n, hop), length)
<1> DEFINE R == RmsWindows(n, hop)
<1>1. RmsRecords(n, hop) = R /\ R \in Seq(Int \X Int) /\ Len(R) \in Nat \ {0} BY RecordsAreWindows
<1> HIDE DEF R
<1>2. R # <<>> BY <1>1, EmptySeq
<1>3. EnvelopeCursor(R, length) = WholeEnvelope(R, length) BY <1>1, <1>2, EnvelopeIs
<1> QED BY <1>1, <1>3 DEF R
----------------------------------------
(* The theorems. *)

\* A job is one that was given, and its result is what the code computes for it.
StreamInv == job \in Jobs /\ (done => result = Outcome(job))

\* A conversion computes its result once, from the job it was given.
THEOREM StreamsRun == StreamSpec => []StreamInv
<1>1. StreamInit => StreamInv BY DEF StreamInit, StreamInv
<1>2. StreamInv /\ [StreamNext]_streamVars => StreamInv' BY DEF StreamInv, StreamNext, RunJob, streamVars
<1> QED BY <1>1, <1>2, PTL DEF StreamSpec

LEMMA StreamHolds == ASSUME StreamInv PROVE StreamIsWhole
<1> DEFINE j == job
<1>0. JobFits(j) /\ (done => result = Outcome(j)) BY JobsFit DEF StreamInv
<1>1. ASSUME Done("resample") PROVE result = ResampleLinear(j.x, j.src, j.dst)
  <2>1. j.kind = "resample" /\ result = StableSnapshot(j.x, j.src, j.dst) BY <1>0, <1>1, OutcomeOf DEF Done
  <2>2. j.x \in Seq(Int) /\ j.src \in Nat \ {0} /\ j.dst \in Nat \ {0} BY <1>0, <2>1 DEF JobFits
  <2> QED BY <2>1, <2>2, ResampleIsWhole
<1>2. ASSUME Done("highpass") PROVE result = HighpassFiltfilt(j.x)
  <2>1. j.kind = "highpass" /\ result = FilteredSource(j.x) BY <1>0, <1>2, OutcomeOf DEF Done
  <2>2. j.x \in Seq(Int) BY <1>0, <2>1 DEF JobFits
  <2> QED BY <2>1, <2>2, HighpassIsWhole
<1>3. ASSUME Done("reflect") PROVE result = Read(ReflectPad(j.x, j.pad), j.first, j.count)
  <2>1. j.kind = "reflect" /\ result = ReadReflected(j.x, j.pad, j.first, j.count)
    BY <1>0, <1>3, OutcomeOf DEF Done
  <2>2. /\ j.x \in Seq(Int) /\ j.pad \in 1..(Len(j.x) - 1)
        /\ j.first \in Nat /\ j.count \in Nat /\ j.first + j.count <= Len(j.x) + 2 * j.pad
    BY <1>0, <2>1 DEF JobFits
  <2> QED BY <2>1, <2>2, ReflectIsWhole
<1> QED BY <1>1, <1>2, <1>3 DEF StreamIsWhole

LEMMA WindowsHold == ASSUME StreamInv PROVE WindowsCover
<1> DEFINE j == job
<1>0. JobFits(j) /\ (done => result = Outcome(j)) BY JobsFit DEF StreamInv
<1> SUFFICES ASSUME Done("window")
             PROVE  /\ Len(result) = j.n \div Hop + 1
                    /\ \A i \in DOMAIN result : FrameSeen(result[i], i, j.n, j.context)
  BY DEF WindowsCover, FrameSeen
<1>1. j.kind = "window" /\ result = RawF0(j.n, j.context) BY <1>0, OutcomeOf DEF Done
<1>2. j.n \in Nat \ {0} /\ j.context \in Nat \ {0} /\ j.context % Hop = 0 BY <1>0, <1>1 DEF JobFits
<1> QED BY <1>1, <1>2, WindowsAreWhole

LEMMA OthersHold == ASSUME StreamInv PROVE PitchIsWhole /\ EnvelopeIsWhole /\ CutsAreWhole
<1> DEFINE j == job
<1>0. JobFits(j) /\ (done => result = Outcome(j)) BY JobsFit DEF StreamInv
<1>1. PitchIsWhole
  <2> SUFFICES ASSUME Done("pitch") PROVE result = WholeF0(j.raw, j.interp, j.filter, j.key)
    BY DEF PitchIsWhole
  <2>1. j.kind = "pitch" /\ result = ProcessedF0(j.raw, j.interp, j.filter, j.key) BY <1>0, OutcomeOf DEF Done
  <2>2. j.raw \in Seq(Nat) /\ j.filter \in Nat /\ j.interp \in BOOLEAN BY <1>0, <2>1 DEF JobFits
  <2> QED BY <2>1, <2>2, CurveIsWhole
<1>2. EnvelopeIsWhole
  <2> SUFFICES ASSUME Done("envelope") PROVE result = WholeEnvelope(RmsWindows(j.n, j.hop), j.length)
    BY DEF EnvelopeIsWhole
  <2>1. j.kind = "envelope" /\ result = EnvelopeCursor(RmsRecords(j.n, j.hop), j.length)
    BY <1>0, OutcomeOf DEF Done
  <2>2. j.n \in Nat \ {0} /\ j.hop \in Nat \ {0} /\ j.length \in Nat \ {0} BY <1>0, <2>1 DEF JobFits
  <2> QED BY <2>1, <2>2, EnvelopeHolds
<1>3. CutsAreWhole
  <2> SUFFICES ASSUME Done("cuts") PROVE CutsAreWhole BY DEF CutsAreWhole
  <2>1. j.kind = "cuts" /\ result = QuietCores(j) BY <1>0, OutcomeOf DEF Done
  <2> QED BY <1>0, <2>1, CutsHold DEF CutsAreWhole
<1> QED BY <1>1, <1>2, <1>3

LEMMA ReviewHolds == ASSUME StreamInv PROVE ReviewIsHeard
<1> DEFINE j == job
<1>0. JobFits(j) /\ (done => result = Outcome(j)) BY JobsFit DEF StreamInv
<1>1. ReviewIsTrue
  <2> SUFFICES ASSUME Done("review") PROVE ReviewIsTrue BY DEF ReviewIsTrue
  <2>1. j.kind = "review" /\ result = ConversionCurve(j.raw, j.clip, j.filter, 0, j.edits)
    BY <1>0, OutcomeOf DEF Done
  <2>2. j.raw \in Seq(Nat) /\ j.filter \in Nat /\ j.edits \in Seq(Edits) BY <1>0, <2>1 DEF JobFits
  <2>3. LET seen == ReviewCurve(j.raw, j.clip, j.filter, 0, j.edits)
        IN /\ j.edits # <<>> \/ seen # Refused => result = seen
           /\ result # Refused => \A i \in DOMAIN j.raw :
                Outside(j.edits, i) => result[i] = ConversionCurve(j.raw, j.clip, j.filter, 0, <<>>)[i]
    BY <2>1, <2>2, ReviewedIs
  <2> QED BY <2>3 DEF ReviewIsTrue, Outside
<1>2. SuggestionsHold
  <2> SUFFICES ASSUME Done("issues"), NEW e \in Suggestions(result), NEW fixed,
                      fixed = ReviewCurve(j.raw, Len(j.raw), j.filter, 0, <<e>>)
               PROVE  /\ ValidPitchEdits(<<e>>) /\ fixed # Refused
                      /\ \A i \in e.first..(e.last - 1) : j.raw[i + 1] > 0
                      /\ e \notin Suggestions(FindPitchIssues(j.raw, fixed, j.filter))
    BY DEF SuggestionsHold
  <2>1. j.kind = "issues" /\ result = FindPitchIssues(j.raw, ReviewCurve(j.raw, Len(j.raw), j.filter, 0, <<>>), j.filter)
    BY <1>0, OutcomeOf DEF Done
  <2>2. j.raw \in Seq(Nat) /\ j.filter \in Nat /\ Len(j.raw) <= ReviewFrames BY <1>0, <2>1 DEF JobFits
  <2>3. e \in Suggestions(FindPitchIssues(j.raw, ReviewCurve(j.raw, Len(j.raw), j.filter, 0, <<>>), j.filter))
    BY <2>1
  <2> QED BY <2>2, <2>3, SuggestionHolds
<1> QED BY <1>1, <1>2 DEF ReviewIsHeard

\* Each stage of the bounded conversion - resampling through the native cache,
\* the filter in both directions, reflected ranges, the windows of the pitch
\* extractor, the pitch curve, the loudness envelope and the cores - computes
\* in blocks what the older conversion computes on the whole clip: for every
\* clip, block size, filter length, edge and quiet frame
\* (src/pipeline/bounded_pipeline.cpp against src/pipeline/pipeline.cpp).
THEOREM StreamsAreWhole == StreamSpec => []StreamedAsWhole
<1>1. StreamInv => StreamedAsWhole BY StreamHolds, WindowsHold, OthersHold DEF StreamedAsWhole
<1> QED BY <1>1, StreamsRun, PTL

\* The reviewed curve is the converted one, whatever the corrections, refusals
\* included; and a shift that find_pitch_issues proposes is valid, is applied to
\* voiced frames only and is not proposed again (src/f0/pitch_review.cpp).
THEOREM ReviewsAreHeard == StreamSpec => []ReviewIsHeard
<1>1. StreamInv => ReviewIsHeard BY ReviewHolds
<1> QED BY <1>1, StreamsRun, PTL
=============================================================================
