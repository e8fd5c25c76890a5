---------------------------- MODULE FormatsProofs ----------------------------
(***************************************************************************)
(* What the program reads from the outside is what was written there or is *)
(* refused: for inputs of any length, any widths and any limits.           *)
(*                                                                         *)
(* The invariant FormatsInv says that the output is the result of a case,  *)
(* so the rest is about what the parsers compute.  Each parser is a loop;  *)
(* the library's induction theorems take a predicate, which no prover here *)
(* can instantiate, so each loop has a lemma (...Turns) that makes of it a *)
(* function of the number of turns, and UpTo turns a property that one     *)
(* turn keeps into one of them all.                                        *)
(*                                                                         *)
(* The parts: the turns of the loops; samples, ranges, numbers, WAV files, *)
(* safetensors headers, parameters and multipart bodies; the theorem is at *)
(* the end.                                                                *)
(***************************************************************************)
EXTENDS Formats, StreamedAudioProofs

----------------------------------------
(* The turns of the loops. *)

\* Sequences of one and of two.
LEMMA ShortSeqs == ASSUME NEW V, NEW a \in V, NEW b \in V PROVE <<a>> \in Seq(V) /\ <<a, b>> \in Seq(V)
  OBVIOUS

\* The turns up to the m-th, among n.
TurnsUpTo(n, m) ==
    /\ m \in Nat /\ m \in 0..m /\ 0 \in 0..m /\ 0 \in 0..n
    /\ \A k \in 0..(m - 1) : k \in 0..(n - 1) /\ k \in 0..m /\ k + 1 \in 0..m /\ k + 1 # 0 /\ (k + 1) - 1 = k
    /\ \A k \in 0..m : k = 0 \/ (k - 1 \in 0..(n - 1) /\ k - 1 \in 0..m /\ (k - 1) + 1 = k)
LEMMA TurnsUpToIs == ASSUME NEW n \in Nat, NEW m \in 0..n PROVE TurnsUpTo(n, m)
  BY DEF TurnsUpTo

Spots == [at : Nat, depth : Nat]
Nestings == [depth : Nat, hidden : BOOLEAN]
\* A byte of a note, in every state.
LEMMA NestIs ==
    ASSUME NEW v \in [depth : Nat, hidden : BOOLEAN], NEW byte
    PROVE  /\ Nest(v, byte) \in [depth : Nat, hidden : BOOLEAN]
           /\ v.hidden => Nest(v, byte) = [depth |-> v.depth, hidden |-> FALSE]
           /\ ~v.hidden => Nest(v, byte) =
                [depth |-> IF byte = "(" THEN v.depth + 1 ELSE IF v.depth # 0 /\ byte = ")" THEN v.depth - 1 ELSE v.depth,
                 hidden |-> v.depth # 0 /\ byte = "\\"]
<1>1. v.depth \in Nat /\ v.hidden \in BOOLEAN /\ v = [depth |-> v.depth, hidden |-> v.hidden] OBVIOUS
<1>2. CASE v.hidden
  <2>1. Nest(v, byte) = [depth |-> v.depth, hidden |-> FALSE] BY <1>1, <1>2, Zenon DEF Nest
  <2> QED BY <1>1, <1>2, <2>1
<1>3. CASE ~v.hidden
  <2>1. Nest(v, byte) = [depth |-> IF byte = "(" THEN v.depth + 1 ELSE IF v.depth # 0 /\ byte = ")" THEN v.depth - 1 ELSE v.depth,
                         hidden |-> v.depth # 0 /\ byte = "\\"]
    BY <1>1, <1>3 DEF Nest
  <2> QED BY <1>1, <1>3, <2>1
<1> QED BY <1>1, <1>2, <1>3

\* A byte that skip_space passes leaves a place and a depth.
LEMMA SkipIs ==
    ASSUME NEW s, NEW now \in [at : Nat, depth : Nat], NEW comments \in BOOLEAN
    PROVE  Skip(s, now, comments) \in [at : Nat, depth : Nat]
<1>1. now.at \in Nat /\ now.depth \in Nat OBVIOUS
<1> DEFINE byte == ByteAt(s, now.at)
<1>2. /\ [now EXCEPT !.at = now.at + 1] \in [at : Nat, depth : Nat]
      /\ [now EXCEPT !.at = now.at + 2] \in [at : Nat, depth : Nat]
      /\ [at |-> now.at + 1, depth |-> 1] \in [at : Nat, depth : Nat]
      /\ now.depth # 0 => [at |-> now.at + 1, depth |-> IF byte = "(" THEN now.depth + 1 ELSE IF byte = ")" THEN now.depth - 1 ELSE now.depth]
                           \in [at : Nat, depth : Nat]
  BY <1>1
<1> QED BY <1>1, <1>2 DEF Skip

Unquoting == [at : Nat, text : Seq(Text), closed : BOOLEAN]
\* A byte of a quoted value leaves a place, a text and whether it is closed.
LEMMA UnquoteIs == ASSUME NEW s \in Seq(Text), NEW now \in Unquoting PROVE Unquote(s, now) \in Unquoting
<1>1. now.at \in Nat /\ now.text \in Seq(Text) /\ now.closed \in BOOLEAN BY DEF Unquoting
<1>2. \A p \in Nat : ByteAt(s, p) # "end" => s[p] \in Text BY ElementOfSeq, LenProperties DEF ByteAt
<1>3. \A c \in Text : Append(now.text, c) \in Seq(Text) BY <1>1, AppendProperties
<1>4. ASSUME NEW a \in Nat, NEW t \in Seq(Text)
      PROVE  /\ [now EXCEPT !.at = a] \in Unquoting /\ [now EXCEPT !.at = a, !.closed = TRUE] \in Unquoting
             /\ [now EXCEPT !.at = a, !.text = t] \in Unquoting
  BY <1>1, <1>4, Zenon DEF Unquoting
<1>7. now.at + 1 \in Nat /\ now.at + 2 \in Nat BY <1>1
<1>5. ByteAt(s, now.at) # "end" => s[now.at] \in Text BY <1>1, <1>2
<1>6. ByteAt(s, now.at + 1) # "end" => s[now.at + 1] \in Text BY <1>1, <1>2
<1>8. now.at + 1 \in Nat /\ now.at + 2 \in Nat /\ \A c \in Text : Append(now.text, c) \in Seq(Text)
  BY <1>3, <1>7
<1> DEFINE a == now.at + 1
           b == now.at + 2
<1> HIDE DEF a, b
<1>9. /\ [now EXCEPT !.at = a] \in Unquoting /\ [now EXCEPT !.at = a, !.closed = TRUE] \in Unquoting
      /\ ByteAt(s, now.at) # "end" => [now EXCEPT !.at = a, !.text = Append(now.text, s[now.at])] \in Unquoting
      /\ ByteAt(s, a) # "end" => [now EXCEPT !.at = b, !.text = Append(now.text, s[a])] \in Unquoting
  BY <1>4, <1>5, <1>6, <1>8 DEF a, b
<1> QED BY <1>9 DEF Unquote, a, b

\* What a client has written of a text, byte by byte.
LEMMA QuotedTurns ==
    ASSUME NEW text \in Seq(Text)
    PROVE  \E f \in [0..Len(text) -> Seq(Text)] :
             /\ f[0] = <<>> /\ \A k \in 0..(Len(text) - 1) : f[k + 1] = f[k] \o EscapedByte(text[(k + 1)])
             /\ \A m \in 0..Len(text) : QuotedBytes(text, m) = f[m]
<1> DEFINE n == Len(text)
           V == Seq(Text)
           start == <<>>
           T(v, k) == v \o EscapedByte(text[k])
           G == [p \in V \X (1..n) |-> T(p[1], p[2])]
           Eq(g, m) == g = [k \in 0..m |-> IF k = 0 THEN start ELSE T(g[k - 1], k)]
           F(m) == QuotedBytes(text, m)
<1>0. n \in Nat /\ start \in V BY LenProperties
<1>1. \A v \in V, k \in 1..n : T(v, k) \in V
  <2> TAKE v \in V, k \in 1..n
  <2>1. text[k] \in Text BY ElementOfSeq
  <2>2. EscapedByte(text[k]) \in Seq(Text)
    <3>1. "\\" \in Text BY DEF Text
    <3> QED BY <2>1, <3>1, ShortSeqs DEF EscapedByte
  <2> QED BY <2>2, ConcatProperties
<1> HIDE DEF n
<1>3. ASSUME NEW m, NEW c, c = CHOOSE g : Eq(g, m) PROVE F(m) = c[m] BY <1>3 DEF Iterated, QuotedBytes
<1> HIDE DEF T, V, start, F
<1>5. PICK f : f \in [0..n -> V] /\ f[0] = start /\ \A k \in 0..(n - 1) : f[k + 1] = T(f[k], k + 1)
  <2>1. G \in [V \X (1..n) -> V] /\ \A v \in V, k \in 1..n : G[<<v, k>>] = T(v, k) BY <1>1
  <2> HIDE DEF G
  <2>2. PICK f : Runs(f, n, V, start, G) BY <1>0, <2>1, LoopOf
  <2>3. \A k \in 0..(n - 1) : k + 1 \in 1..n /\ f[k] \in V BY <1>0, <2>2 DEF Runs
  <2> QED BY <2>1, <2>2, <2>3 DEF Runs
<1> HIDE DEF G
<1>7. ASSUME NEW m \in 0..n PROVE F(m) = f[m]
  <2> DEFINE c == CHOOSE g : Eq(g, m)
             h == [k \in 0..m |-> f[k]]
  <2>1. TurnsUpTo(n, m) BY <1>0, TurnsUpToIs
  <2>2. Eq(h, m)
    <3>1. \A k \in 0..m : h[k] = IF k = 0 THEN start ELSE T(h[k - 1], k) BY <1>5, <2>1 DEF TurnsUpTo
    <3>2. h = [k \in 0..m |-> h[k]] OBVIOUS
    <3> HIDE DEF h
    <3> QED BY <3>1, <3>2
  <2>3. Eq(c, m) /\ F(m) = c[m] BY <1>3, <2>2
  <2> HIDE DEF c
  <2>4. c[0] = f[0] /\ \A k \in 0..(m - 1) : c[k] = f[k] => c[k + 1] = f[k + 1]
    BY <1>5, <2>1, <2>3 DEF TurnsUpTo
  <2>5. Agree(c, f, m) /\ m \in Nat /\ m \in 0..m BY <2>1, <2>4 DEF Agree, TurnsUpTo
  <2> QED BY <2>3, <2>5, SameTurns
<1> QED BY <1>5, <1>7 DEF n, V, start, T, F

\* How deep each byte of a note lies.
LEMMA NestingTurns ==
    ASSUME NEW note \in Seq(Text)
    PROVE  \E f \in [0..Len(note) -> Nestings] :
             /\ f[0] = [depth |-> 0, hidden |-> FALSE] /\ \A k \in 0..(Len(note) - 1) : f[k + 1] = Nest(f[k], note[(k + 1)])
             /\ \A m \in 0..Len(note) : Nesting(note, m) = f[m]
<1> DEFINE n == Len(note)
           V == Nestings
           start == [depth |-> 0, hidden |-> FALSE]
           T(v, k) == Nest(v, note[k])
           G == [p \in V \X (1..n) |-> T(p[1], p[2])]
           Eq(g, m) == g = [k \in 0..m |-> IF k = 0 THEN start ELSE T(g[k - 1], k)]
           F(m) == Nesting(note, m)
<1>0. n \in Nat /\ start \in V BY LenProperties DEF Nestings
<1>1. \A v \in V, k \in 1..n : T(v, k) \in V BY NestIs DEF Nestings
<1> HIDE DEF n
<1>3. ASSUME NEW m, NEW c, c = CHOOSE g : Eq(g, m) PROVE F(m) = c[m] BY <1>3 DEF Iterated, Nesting
<1> HIDE DEF T, V, start, F
<1>5. PICK f : f \in [0..n -> V] /\ f[0] = start /\ \A k \in 0..(n - 1) : f[k + 1] = T(f[k], k + 1)
  <2>1. G \in [V \X (1..n) -> V] /\ \A v \in V, k \in 1..n : G[<<v, k>>] = T(v, k) BY <1>1
  <2> HIDE DEF G
  <2>2. PICK f : Runs(f, n, V, start, G) BY <1>0, <2>1, LoopOf
  <2>3. \A k \in 0..(n - 1) : k + 1 \in 1..n /\ f[k] \in V BY <1>0, <2>2 DEF Runs
  <2> QED BY <2>1, <2>2, <2>3 DEF Runs
<1> HIDE DEF G
<1>7. ASSUME NEW m \in 0..n PROVE F(m) = f[m]
  <2> DEFINE c == CHOOSE g : Eq(g, m)
             h == [k \in 0..m |-> f[k]]
  <2>1. TurnsUpTo(n, m) BY <1>0, TurnsUpToIs
  <2>2. Eq(h, m)
    <3>1. \A k \in 0..m : h[k] = IF k = 0 THEN start ELSE T(h[k - 1], k) BY <1>5, <2>1 DEF TurnsUpTo
    <3>2. h = [k \in 0..m |-> h[k]] OBVIOUS
    <3> HIDE DEF h
    <3> QED BY <3>1, <3>2
  <2>3. Eq(c, m) /\ F(m) = c[m] BY <1>3, <2>2
  <2> HIDE DEF c
  <2>4. c[0] = f[0] /\ \A k \in 0..(m - 1) : c[k] = f[k] => c[k + 1] = f[k + 1]
    BY <1>5, <2>1, <2>3 DEF TurnsUpTo
  <2>5. Agree(c, f, m) /\ m \in Nat /\ m \in 0..m BY <2>1, <2>4 DEF Agree, TurnsUpTo
  <2> QED BY <2>3, <2>5, SameTurns
<1> QED BY <1>5, <1>7 DEF n, V, start, T, F

SkippedAfter(s, i, comments, m) == Iterated(LAMBDA now, k : Skip(s, now, comments), [at |-> i, depth |-> 0], m)

\* The bytes that skip_space passes.
LEMMA SkipTurns ==
    ASSUME NEW s \in Seq(Text), NEW i \in Nat, NEW comments \in BOOLEAN
    PROVE  \E f \in [0..(Len(s) + 1) -> Spots] :
             /\ f[0] = [at |-> i, depth |-> 0] /\ \A k \in 0..((Len(s) + 1) - 1) : f[k + 1] = Skip(s, f[k], comments)
             /\ \A m \in 0..(Len(s) + 1) : SkippedAfter(s, i, comments, m) = f[m]
<1> DEFINE n == (Len(s) + 1)
           V == Spots
           start == [at |-> i, depth |-> 0]
           T(v, k) == Skip(s, v, comments)
           G == [p \in V \X (1..n) |-> T(p[1], p[2])]
           Eq(g, m) == g = [k \in 0..m |-> IF k = 0 THEN start ELSE T(g[k - 1], k)]
           F(m) == SkippedAfter(s, i, comments, m)
<1>0. n \in Nat /\ start \in V BY LenProperties DEF Spots
<1>1. \A v \in V, k \in 1..n : T(v, k) \in V BY SkipIs DEF Spots
<1> HIDE DEF n
<1>3. ASSUME NEW m, NEW c, c = CHOOSE g : Eq(g, m) PROVE F(m) = c[m] BY <1>3 DEF Iterated, SkippedAfter
<1> HIDE DEF T, V, start, F
<1>5. PICK f : f \in [0..n -> V] /\ f[0] = start /\ \A k \in 0..(n - 1) : f[k + 1] = T(f[k], k + 1)
  <2>1. G \in [V \X (1..n) -> V] /\ \A v \in V, k \in 1..n : G[<<v, k>>] = T(v, k) BY <1>1
  <2> HIDE DEF G
  <2>2. PICK f : Runs(f, n, V, start, G) BY <1>0, <2>1, LoopOf
  <2>3. \A k \in 0..(n - 1) : k + 1 \in 1..n /\ f[k] \in V BY <1>0, <2>2 DEF Runs
  <2> QED BY <2>1, <2>2, <2>3 DEF Runs
<1> HIDE DEF G
<1>7. ASSUME NEW m \in 0..n PROVE F(m) = f[m]
  <2> DEFINE c == CHOOSE g : Eq(g, m)
             h == [k \in 0..m |-> f[k]]
  <2>1. TurnsUpTo(n, m) BY <1>0, TurnsUpToIs
  <2>2. Eq(h, m)
    <3>1. \A k \in 0..m : h[k] = IF k = 0 THEN start ELSE T(h[k - 1], k) BY <1>5, <2>1 DEF TurnsUpTo
    <3>2. h = [k \in 0..m |-> h[k]] OBVIOUS
    <3> HIDE DEF h
    <3> QED BY <3>1, <3>2
  <2>3. Eq(c, m) /\ F(m) = c[m] BY <1>3, <2>2
  <2> HIDE DEF c
  <2>4. c[0] = f[0] /\ \A k \in 0..(m - 1) : c[k] = f[k] => c[k + 1] = f[k + 1]
    BY <1>5, <2>1, <2>3 DEF TurnsUpTo
  <2>5. Agree(c, f, m) /\ m \in Nat /\ m \in 0..m BY <2>1, <2>4 DEF Agree, TurnsUpTo
  <2> QED BY <2>3, <2>5, SameTurns
<1> QED BY <1>5, <1>7 DEF n, V, start, T, F

UnquotedAfter(s, i, m) == Iterated(LAMBDA now, k : Unquote(s, now), [at |-> i, text |-> <<>>, closed |-> FALSE], m)

\* The bytes of a quoted value.
LEMMA UnquoteTurns ==
    ASSUME NEW s \in Seq(Text), NEW i \in Nat
    PROVE  \E f \in [0..(Len(s) + 1) -> Unquoting] :
             /\ f[0] = [at |-> i, text |-> <<>>, closed |-> FALSE] /\ \A k \in 0..((Len(s) + 1) - 1) : f[k + 1] = Unquote(s, f[k])
             /\ \A m \in 0..(Len(s) + 1) : UnquotedAfter(s, i, m) = f[m]
<1> DEFINE n == (Len(s) + 1)
           V == Unquoting
           start == [at |-> i, text |-> <<>>, closed |-> FALSE]
           T(v, k) == Unquote(s, v)
           G == [p \in V \X (1..n) |-> T(p[1], p[2])]
           Eq(g, m) == g = [k \in 0..m |-> IF k = 0 THEN start ELSE T(g[k - 1], k)]
           F(m) == UnquotedAfter(s, i, m)
<1>0. n \in Nat /\ start \in V BY LenProperties DEF Unquoting
<1>1. \A v \in V, k \in 1..n : T(v, k) \in V BY UnquoteIs
<1> HIDE DEF n
<1>3. ASSUME NEW m, NEW c, c = CHOOSE g : Eq(g, m) PROVE F(m) = c[m] BY <1>3 DEF Iterated, UnquotedAfter
<1> HIDE DEF T, V, start, F
<1>5. PICK f : f \in [0..n -> V] /\ f[0] = start /\ \A k \in 0..(n - 1) : f[k + 1] = T(f[k], k + 1)
  <2>1. G \in [V \X (1..n) -> V] /\ \A v \in V, k \in 1..n : G[<<v, k>>] = T(v, k) BY <1>1
  <2> HIDE DEF G
  <2>2. PICK f : Runs(f, n, V, start, G) BY <1>0, <2>1, LoopOf
  <2>3. \A k \in 0..(n - 1) : k + 1 \in 1..n /\ f[k] \in V BY <1>0, <2>2 DEF Runs
  <2> QED BY <2>1, <2>2, <2>3 DEF Runs
<1> HIDE DEF G
<1>7. ASSUME NEW m \in 0..n PROVE F(m) = f[m]
  <2> DEFINE c == CHOOSE g : Eq(g, m)
             h == [k \in 0..m |-> f[k]]
  <2>1. TurnsUpTo(n, m) BY <1>0, TurnsUpToIs
  <2>2. Eq(h, m)
    <3>1. \A k \in 0..m : h[k] = IF k = 0 THEN start ELSE T(h[k - 1], k) BY <1>5, <2>1 DEF TurnsUpTo
    <3>2. h = [k \in 0..m |-> h[k]] OBVIOUS
    <3> HIDE DEF h
    <3> QED BY <3>1, <3>2
  <2>3. Eq(c, m) /\ F(m) = c[m] BY <1>3, <2>2
  <2> HIDE DEF c
  <2>4. c[0] = f[0] /\ \A k \in 0..(m - 1) : c[k] = f[k] => c[k + 1] = f[k + 1]
    BY <1>5, <2>1, <2>3 DEF TurnsUpTo
  <2>5. Agree(c, f, m) /\ m \in Nat /\ m \in 0..m BY <2>1, <2>4 DEF Agree, TurnsUpTo
  <2> QED BY <2>3, <2>5, SameTurns
<1> QED BY <1>5, <1>7 DEF n, V, start, T, F
----------------------------------------
(* Samples. *)

\* The quotient and the rest of a number.
LEMMA RestIs ==
    ASSUME NEW d \in Nat \ {0}, NEW q \in Int, NEW r \in 0..(d - 1)
    PROVE  (q * d + r) \div d = q /\ (q * d + r) % d = r
<1> DEFINE a == q * d + r
<1>1. q * d \in Int /\ a \in Int /\ (q + 1) * d = q * d + d OBVIOUS
<1>2. q * d <= a /\ a < (q + 1) * d BY <1>1
<1>3. q <= a \div d /\ a \div d <= (q + 1) - 1 BY <1>1, <1>2, QuotientAbove, QuotientBelow
<1>4. a \div d = q BY <1>1, <1>3, Divide
<1>5. a = (a \div d) * d + (a % d) /\ a % d \in Int BY <1>1, Divide
<1> HIDE DEF a
<1>6. a = q * d + (a % d) BY <1>4, <1>5
<1>7. a % d = r BY <1>1, <1>5, <1>6 DEF a
<1> QED BY <1>4, <1>7 DEF a

\* A sample that is clamped is within the range of 16 bits.
LEMMA Loudness == ASSUME NEW c \in 0..(2 * Full) PROVE (c * (Full - 1)) \div (2 * Full) \in 0..(Full - 1)
<1>0. Full \in Nat /\ Full >= 1 /\ 2 * Full \in Nat \ {0} /\ c \in Nat BY FormatsAssumption
<1> DEFINE a == c * (Full - 1)
<1>1. c * (Full - 1) <= (2 * Full) * (Full - 1) /\ 0 * (Full - 1) <= c * (Full - 1) /\ c * (Full - 1) \in Int
  <2>1. CASE Full - 1 = 0 BY <1>0, <2>1
  <2>2. CASE Full - 1 \in Nat \ {0} BY <1>0, <2>2, Multiples
  <2> QED BY <1>0, <2>1, <2>2
<1>2. (2 * Full) * (Full - 1) = Full * (2 * Full) - 2 * Full /\ Full * (2 * Full) \in Int BY <1>0
<1>3. a \in Int /\ 0 * (2 * Full) <= a /\ a < Full * (2 * Full) BY <1>0, <1>1, <1>2
<1> DEFINE d == 2 * Full
<1>4. d \in Nat \ {0} /\ a \in Int /\ Full \in Int /\ 0 \in Int /\ 0 * d <= a /\ a < Full * d BY <1>0, <1>3
<1> HIDE DEF a, d
<1>5. 0 <= a \div d BY <1>4, QuotientAbove
<1>6. a \div d <= Full - 1 BY <1>4, QuotientBelow
<1>7. a \div d \in Int BY <1>4, Divide
<1> QED BY <1>0, <1>5, <1>6, <1>7 DEF a, d

\* Encoding clamps, and never changes the sign of a sample (append_decoded_pcm16).
LEMMA EncodeIs ==
    ASSUME NEW x \in Int
    PROVE  /\ EncodePcm16(x) \in (-(Full - 1))..(Full - 1)
           /\ x >= 0 => EncodePcm16(x) >= 0
           /\ x <= 0 => EncodePcm16(x) <= 0
<1>0. Full \in Nat /\ Full >= 1 BY FormatsAssumption
<1> DEFINE c == Clamped(x)
<1>1. c \in (-(2 * Full))..(2 * Full) /\ (x >= 0 => c >= 0) /\ (x <= 0 => c <= 0)
  <2> DEFINE b == Min({2 * Full, x})
  <2>1. b \in Int /\ b <= 2 * Full /\ (b = x \/ (b = 2 * Full /\ x >= 2 * Full)) BY <1>0, MinOfTwo
  <2> HIDE DEF b
  <2>2. Max({-2 * Full, b}) = IF -2 * Full >= b THEN -2 * Full ELSE b BY <1>0, <2>1, MaxOfTwo
  <2> QED BY <1>0, <2>1, <2>2 DEF Clamped, b
<1>2. EncodePcm16(x) = Truncate(c * (Full - 1), 2 * Full) BY DEF EncodePcm16
<1> HIDE DEF c
<1>3. CASE c >= 0
  <2>1. c * (Full - 1) >= 0 BY <1>0, <1>1, <1>3
  <2>2. c \in 0..(2 * Full) BY <1>0, <1>1, <1>3
  <2>3. EncodePcm16(x) = (c * (Full - 1)) \div (2 * Full) /\ EncodePcm16(x) \in 0..(Full - 1)
    BY <1>2, <2>1, <2>2, Loudness DEF Truncate
  <2>4. x <= 0 => EncodePcm16(x) <= 0
    <3> HAVE x <= 0
    <3>1. c = 0 BY <1>1, <1>3
    <3>2. 0 * (Full - 1) = 0 /\ 0 * (2 * Full) = 0 /\ 0 \div (2 * Full) = 0 BY <1>0
    <3> QED BY <2>3, <3>1, <3>2
  <2> QED BY <1>0, <2>3, <2>4
<1>4. CASE c < 0
  <2>1. -c \in 0..(2 * Full) /\ -(c * (Full - 1)) = (-c) * (Full - 1) /\ c * (Full - 1) \in Int
    BY <1>0, <1>1, <1>4
  <2> DEFINE v == ((-c) * (Full - 1)) \div (2 * Full)
  <2>2. v \in 0..(Full - 1) BY <2>1, Loudness
  <2>3. EncodePcm16(x) \in {-v, (c * (Full - 1)) \div (2 * Full)} /\ (c * (Full - 1) < 0 => EncodePcm16(x) = -v)
    BY <1>2, <2>1 DEF Truncate
  <2>4. CASE c * (Full - 1) < 0
    <3> HIDE DEF v
    <3> QED BY <1>0, <1>1, <1>4, <2>2, <2>3, <2>4
  <2>5. CASE c * (Full - 1) >= 0
    <3>1. Full - 1 = 0
      <4> SUFFICES ASSUME Full - 1 >= 1 PROVE FALSE BY <1>0
      <4>1. c * (Full - 1) <= (-1) * (Full - 1) BY <1>0, <1>1, <1>4, Multiples
      <4> QED BY <1>0, <2>1, <2>5, <4>1
    <3>2. c * (Full - 1) = 0 BY <1>0, <1>1, <3>1
    <3>3. EncodePcm16(x) = 0
      <4>1. 0 >= 0 /\ 0 \div (2 * Full) = 0 BY <1>0
      <4> QED BY <1>2, <3>2, <4>1 DEF Truncate
    <3> QED BY <1>0, <3>1, <3>3
  <2> QED BY <2>1, <2>4, <2>5
<1> QED BY <1>0, <1>1, <1>3, <1>4

\* Two bytes hold every sample.
LEMMA BitsHold == ASSUME NEW p \in (-Full)..(Full - 1) PROVE FromBits(ToBits(p)) = p
<1>0. Full \in Nat /\ Full >= 1 /\ 2 * Full \in Nat \ {0} /\ p \in Int BY FormatsAssumption
<1>1. CASE p >= 0
  <2>1. p \in 0..(2 * Full - 1) /\ 0 * (2 * Full) + p = p BY <1>0, <1>1
  <2>2. ToBits(p) = p BY <1>0, <2>1, RestIs DEF ToBits
  <2> QED BY <1>0, <1>1, <2>2 DEF FromBits
<1>2. CASE p < 0
  <2>1. p + 2 * Full \in 0..(2 * Full - 1) /\ (-1) * (2 * Full) + (p + 2 * Full) = p BY <1>0, <1>2
  <2>2. ToBits(p) = p + 2 * Full BY <1>0, <2>1, RestIs DEF ToBits
  <2> QED BY <1>0, <1>2, <2>2 DEF FromBits
<1> QED BY <1>0, <1>1, <1>2

\* A sample that was read as PCM16 is encoded as it was.
LEMMA ExactIs == ASSUME NEW p \in (-Full)..(Full - 1) PROVE EncodeExact(DecodePcm16(p)) = Good(p)
<1>0. Full \in Nat /\ Full >= 1 /\ 2 * Full \in Nat \ {0} /\ p \in Int BY FormatsAssumption
<1>1. ~(2 * p < -2 * Full \/ 2 * p > 2 * (Full - 1) \/ (2 * p) % 2 # 0) BY <1>0
<1>2. (2 * p) * Full = p * (2 * Full) /\ -((2 * p) * Full) = (-p) * (2 * Full) /\ -p \in Int BY <1>0
<1>3. Truncate((2 * p) * Full, 2 * Full) = p
  <2>1. (p * (2 * Full)) \div (2 * Full) = p /\ ((-p) * (2 * Full)) \div (2 * Full) = -p
    BY <1>0, <1>2, MultipleIsWhole
  <2> QED BY <1>0, <1>2, <2>1 DEF Truncate
<1> QED BY <1>1, <1>3 DEF EncodeExact, DecodePcm16

\* What comes of a sample.
LEMMA SamplesAre ==
    ASSUME NEW c, CaseFits(c)
    PROVE  /\ c.kind = "exact" => Result(c) = c.p
           /\ c.kind = "pcm" => /\ Result(c) \in -(Full - 1)..(Full - 1)
                                /\ (c.x >= 0 => Result(c) >= 0) /\ (c.x <= 0 => Result(c) <= 0)
<1>0. Full \in Nat /\ Full >= 1 BY FormatsAssumption
<1>1. ASSUME c.kind = "exact" PROVE Result(c) = c.p
  <2>1. c.p \in (-Full)..(Full - 1) BY <1>1 DEF CaseFits
  <2>2. EncodeExact(DecodePcm16(c.p)) = Good(c.p) /\ FromBits(ToBits(c.p)) = c.p BY <2>1, ExactIs, BitsHold
  <2> QED BY <1>1, <2>2 DEF Result, Good
<1>2. ASSUME c.kind = "pcm"
      PROVE  /\ Result(c) \in -(Full - 1)..(Full - 1)
             /\ (c.x >= 0 => Result(c) >= 0) /\ (c.x <= 0 => Result(c) <= 0)
  <2>1. c.x \in Int BY <1>2 DEF CaseFits
  <2> DEFINE p == EncodePcm16(c.x)
  <2>2. p \in (-(Full - 1))..(Full - 1) /\ (c.x >= 0 => p >= 0) /\ (c.x <= 0 => p <= 0) BY <2>1, EncodeIs
  <2>3. Result(c) = FromBits(ToBits(p)) BY <1>2 DEF Result
  <2> HIDE DEF p
  <2>4. FromBits(ToBits(p)) = p
    <3>1. p \in (-Full)..(Full - 1) BY <1>0, <2>2
    <3> QED BY <3>1, BitsHold
  <2> QED BY <2>2, <2>3, <2>4
<1> QED BY <1>1, <1>2
----------------------------------------
(* Ranges. *)

\* A range that is accepted lies in the file (send_audio_file).
LEMMA RangesAre ==
    ASSUME NEW c, CaseFits(c), c.kind = "range", NEW r, r = Result(c), r.ok
    PROVE  /\ 0 <= r.v.first /\ r.v.first <= r.v.last /\ r.v.last < c.size
           /\ c.form \in {"from", "both"} => r.v.first = c.first
<1>0. /\ c.form \in {"none", "bad", "suffix", "from", "both"}
      /\ c.first \in Nat /\ c.last \in Nat /\ c.count \in Nat /\ c.size \in Nat \ {0}
  BY DEF CaseFits
<1>1. r = AudioRange(c, c.size) BY DEF Result
<1>2. ~Bad.ok BY DEF Bad
<1>3. CASE c.form = "none"
  <2>1. r = Good([first |-> 0, last |-> c.size - 1]) BY <1>1, <1>3 DEF AudioRange
  <2> QED BY <1>0, <1>3, <2>1 DEF Good
<1>4. CASE c.form = "bad" BY <1>1, <1>2, <1>4 DEF AudioRange
<1>5. CASE c.form = "suffix"
  <2>1. c.count # 0 /\ r = Good([first |-> c.size - Min({c.size, c.count}), last |-> c.size - 1])
    BY <1>1, <1>2, <1>5 DEF AudioRange
  <2>2. Min({c.size, c.count}) \in 1..c.size BY <1>0, <2>1, MinOfTwo
  <2> QED BY <1>0, <1>5, <2>1, <2>2 DEF Good
<1>6. CASE c.form = "from" BY <1>1, <1>2, <1>6, <1>0 DEF AudioRange, Good
<1>7. CASE c.form = "both"
  <2>1. ~(c.first >= c.size \/ c.last < c.first) /\ r = Good([first |-> c.first, last |-> LastInFile(c.last, c.size)])
    BY <1>1, <1>2, <1>7 DEF AudioRange
  <2>2. LastInFile(c.last, c.size) = IF c.last <= c.size - 1 THEN c.last ELSE c.size - 1
    BY <1>0, MinOfTwo DEF LastInFile
  <2> QED BY <1>0, <1>7, <2>1, <2>2 DEF Good
<1> QED BY <1>0, <1>3, <1>4, <1>5, <1>6, <1>7
----------------------------------------
(* Numbers. *)

\* Induction over the turns of a loop.
LEMMA UpTo ==
    ASSUME NEW n \in Nat, NEW S, 0 \in S, \A k \in 0..(n - 1) : k \in S => k + 1 \in S
    PROVE  \A k \in 0..n : k \in S
<1> DEFINE P == {k \in Nat : k <= n => k \in S}
<1>1. P \in SUBSET Nat /\ 0 \in P OBVIOUS
<1>2. \A k \in P : k + 1 \in P
  <2> TAKE k \in P
  <2>1. k \in Nat /\ (k + 1 <= n => k <= n /\ k \in 0..(n - 1)) OBVIOUS
  <2> QED BY <2>1
<1> HIDE DEF P
<1>3. P = Nat BY <1>1, <1>2, InductionOf
<1> QED BY <1>3 DEF P

Sizes32 == {Bad} \cup {Good(v) : v \in 0..MaxSize}

\* The overflow is seen before it happens.
LEMMA OverflowIs ==
    ASSUME NEW v \in Nat, NEW d \in 0..9 PROVE Overflows(v, d) <=> v * 10 + d > MaxSize
<1> DEFINE a == MaxSize - d
<1>0. MaxSize \in Nat /\ a \in Int /\ 10 \in Nat \ {0} /\ v \in Int BY FormatsAssumption
<1>1. a \div 10 \in Int BY <1>0
<1>2. v * 10 <= a => v <= a \div 10 BY <1>0, QuotientAbove
<1>3. a < v * 10 => a \div 10 <= v - 1 BY <1>0, QuotientBelow
<1>4. v * 10 + d > MaxSize <=> a < v * 10 BY <1>0
<1>5. Overflows(v, d) <=> v > a \div 10 BY DEF Overflows
<1> HIDE DEF a
<1> QED BY <1>0, <1>1, <1>2, <1>3, <1>4, <1>5

\* A digit more: the number so far, or a refusal.
LEMMA DigitIs ==
    ASSUME NEW now \in Sizes32, NEW d \in 0..10
    PROVE  /\ Digit(now, d) \in Sizes32
           /\ ~now.ok => Digit(now, d) = Bad
           /\ now.ok => Digit(now, d) = IF d = 10 \/ now.v * 10 + d > MaxSize THEN Bad ELSE Good(now.v * 10 + d)
<1>0. MaxSize \in Nat /\ Bad.ok = FALSE /\ \A v : Good(v).ok = TRUE /\ Good(v).v = v
  BY FormatsAssumption DEF Bad, Good
<1>1. CASE ~now.ok BY <1>0, <1>1 DEF Digit, Sizes32
<1>2. CASE now.ok
  <2>1. PICK v \in 0..MaxSize : now = Good(v) BY <1>0, <1>2 DEF Sizes32
  <2>2. now.v = v /\ v \in Nat BY <1>0, <2>1
  <2>3. CASE d = 10 BY <1>0, <1>2, <2>2, <2>3 DEF Digit, Sizes32
  <2>4. CASE d # 10
    <3>1. d \in 0..9 BY <2>4
    <3>2. Overflows(v, d) <=> v * 10 + d > MaxSize BY <2>2, <3>1, OverflowIs
    <3>3. CASE v * 10 + d > MaxSize BY <1>0, <1>2, <2>2, <3>2, <3>3 DEF Digit, Sizes32
    <3>4. CASE ~(v * 10 + d > MaxSize)
      <4>1. (v * 10 + d) % (MaxSize + 1) = v * 10 + d /\ v * 10 + d \in 0..MaxSize BY <1>0, <2>2, <3>4
      <4>2. Digit(now, d) = Good(v * 10 + d) BY <1>2, <2>2, <3>1, <3>2, <3>4, <4>1 DEF Digit
      <4> QED BY <1>2, <2>2, <2>4, <3>4, <4>1, <4>2 DEF Sizes32
    <3> QED BY <3>3, <3>4
  <2> QED BY <2>3, <2>4
<1> QED BY <1>1, <1>2

\* The bytes of a number that are read.
LEMMA DigitTurns ==
    ASSUME NEW digits \in Seq(0..10)
    PROVE  \E f \in [0..Len(digits) -> Sizes32] :
             /\ f[0] = Good(0) /\ \A k \in 0..(Len(digits) - 1) : f[k + 1] = Digit(f[k], digits[(k + 1)])
             /\ \A m \in 0..Len(digits) : Iterated(LAMBDA now, k : Digit(now, digits[k]), Good(0), m) = f[m]
<1> DEFINE n == Len(digits)
           V == Sizes32
           start == Good(0)
           T(v, k) == Digit(v, digits[k])
           G == [p \in V \X (1..n) |-> T(p[1], p[2])]
           Eq(g, m) == g = [k \in 0..m |-> IF k = 0 THEN start ELSE T(g[k - 1], k)]
           F(m) == Iterated(LAMBDA now, k : Digit(now, digits[k]), Good(0), m)
<1>0. n \in Nat /\ start \in V BY LenProperties, FormatsAssumption DEF Sizes32
<1>1. \A v \in V, k \in 1..n : T(v, k) \in V BY ElementOfSeq, DigitIs
<1> HIDE DEF n
<1>3. ASSUME NEW m, NEW c, c = CHOOSE g : Eq(g, m) PROVE F(m) = c[m] BY <1>3 DEF Iterated, F
<1> HIDE DEF T, V, start, F
<1>5. PICK f : f \in [0..n -> V] /\ f[0] = start /\ \A k \in 0..(n - 1) : f[k + 1] = T(f[k], k + 1)
  <2>1. G \in [V \X (1..n) -> V] /\ \A v \in V, k \in 1..n : G[<<v, k>>] = T(v, k) BY <1>1
  <2> HIDE DEF G
  <2>2. PICK f : Runs(f, n, V, start, G) BY <1>0, <2>1, LoopOf
  <2>3. \A k \in 0..(n - 1) : k + 1 \in 1..n /\ f[k] \in V BY <1>0, <2>2 DEF Runs
  <2> QED BY <2>1, <2>2, <2>3 DEF Runs
<1> HIDE DEF G
<1>7. ASSUME NEW m \in 0..n PROVE F(m) = f[m]
  <2> DEFINE c == CHOOSE g : Eq(g, m)
             h == [k \in 0..m |-> f[k]]
  <2>1. TurnsUpTo(n, m) BY <1>0, TurnsUpToIs
  <2>2. Eq(h, m)
    <3>1. \A k \in 0..m : h[k] = IF k = 0 THEN start ELSE T(h[k - 1], k) BY <1>5, <2>1 DEF TurnsUpTo
    <3>2. h = [k \in 0..m |-> h[k]] OBVIOUS
    <3> HIDE DEF h
    <3> QED BY <3>1, <3>2
  <2>3. Eq(c, m) /\ F(m) = c[m] BY <1>3, <2>2
  <2> HIDE DEF c
  <2>4. c[0] = f[0] /\ \A k \in 0..(m - 1) : c[k] = f[k] => c[k + 1] = f[k + 1]
    BY <1>5, <2>1, <2>3 DEF TurnsUpTo
  <2>5. Agree(c, f, m) /\ m \in Nat /\ m \in 0..m BY <2>1, <2>4 DEF Agree, TurnsUpTo
  <2> QED BY <2>3, <2>5, SameTurns
<1> QED BY <1>5, <1>7 DEF n, V, start, T, F

\* The value of the digits so far.
LEMMA ValueTurns ==
    ASSUME NEW digits \in Seq(0..10)
    PROVE  \E f \in [0..Len(digits) -> Nat] :
             /\ f[0] = 0 /\ \A k \in 0..(Len(digits) - 1) : f[k + 1] = f[k] * 10 + digits[(k + 1)]
             /\ \A m \in 0..Len(digits) : ValueOf(digits, m) = f[m]
<1> DEFINE n == Len(digits)
           V == Nat
           start == 0
           T(v, k) == v * 10 + digits[k]
           G == [p \in V \X (1..n) |-> T(p[1], p[2])]
           Eq(g, m) == g = [k \in 0..m |-> IF k = 0 THEN start ELSE T(g[k - 1], k)]
           F(m) == ValueOf(digits, m)
<1>0. n \in Nat /\ start \in V BY LenProperties
<1>1. \A v \in V, k \in 1..n : T(v, k) \in V
  <2> TAKE v \in V, k \in 1..n
  <2>1. digits[k] \in 0..10 BY ElementOfSeq
  <2> QED BY <2>1, SMTT(30)
<1> HIDE DEF n
<1>3. ASSUME NEW m, NEW c, c = CHOOSE g : Eq(g, m) PROVE F(m) = c[m] BY <1>3 DEF Iterated, ValueOf
<1> HIDE DEF T, V, start, F
<1>5. PICK f : f \in [0..n -> V] /\ f[0] = start /\ \A k \in 0..(n - 1) : f[k + 1] = T(f[k], k + 1)
  <2>1. G \in [V \X (1..n) -> V] /\ \A v \in V, k \in 1..n : G[<<v, k>>] = T(v, k) BY <1>1
  <2> HIDE DEF G
  <2>2. PICK f : Runs(f, n, V, start, G) BY <1>0, <2>1, LoopOf
  <2>3. \A k \in 0..(n - 1) : k + 1 \in 1..n /\ f[k] \in V BY <1>0, <2>2 DEF Runs
  <2> QED BY <2>1, <2>2, <2>3 DEF Runs
<1> HIDE DEF G
<1>7. ASSUME NEW m \in 0..n PROVE F(m) = f[m]
  <2> DEFINE c == CHOOSE g : Eq(g, m)
             h == [k \in 0..m |-> f[k]]
  <2>1. TurnsUpTo(n, m) BY <1>0, TurnsUpToIs
  <2>2. Eq(h, m)
    <3>1. \A k \in 0..m : h[k] = IF k = 0 THEN start ELSE T(h[k - 1], k) BY <1>5, <2>1 DEF TurnsUpTo
    <3>2. h = [k \in 0..m |-> h[k]] OBVIOUS
    <3> HIDE DEF h
    <3> QED BY <3>1, <3>2
  <2>3. Eq(c, m) /\ F(m) = c[m] BY <1>3, <2>2
  <2> HIDE DEF c
  <2>4. c[0] = f[0] /\ \A k \in 0..(m - 1) : c[k] = f[k] => c[k + 1] = f[k + 1]
    BY <1>5, <2>1, <2>3 DEF TurnsUpTo
  <2>5. Agree(c, f, m) /\ m \in Nat /\ m \in 0..m BY <2>1, <2>4 DEF Agree, TurnsUpTo
  <2> QED BY <2>3, <2>5, SameTurns
<1> QED BY <1>5, <1>7 DEF n, V, start, T, F

\* A number is its value, or refused.
LEMMA NumbersAre ==
    ASSUME NEW digits \in Seq(0..10)
    PROVE  ParseSize(digits) = IF digits = <<>> \/ (\E k \in DOMAIN digits : digits[k] = 10) \/ ValueOf(digits, Len(digits)) > MaxSize
                               THEN Bad ELSE Good(ValueOf(digits, Len(digits)))
<1> DEFINE n == Len(digits)
           Refuses(m, v) == (\E k \in 1..m : digits[k] = 10) \/ v > MaxSize
<1>0. n \in Nat /\ MaxSize \in Nat /\ \A k \in 1..n : digits[k] \in 0..10
  BY LenProperties, ElementOfSeq, FormatsAssumption
<1>1. PICK f : /\ f \in [0..n -> Sizes32] /\ f[0] = Good(0)
               /\ \A k \in 0..(n - 1) : f[k + 1] = Digit(f[k], digits[k + 1])
               /\ \A m \in 0..n : Iterated(LAMBDA now, k : Digit(now, digits[k]), Good(0), m) = f[m]
  BY DigitTurns
<1>2. PICK g : /\ g \in [0..n -> Nat] /\ g[0] = 0
               /\ \A k \in 0..(n - 1) : g[k + 1] = g[k] * 10 + digits[k + 1]
               /\ \A m \in 0..n : ValueOf(digits, m) = g[m]
  BY ValueTurns
<1> DEFINE S == {m \in 0..n : f[m] = IF Refuses(m, g[m]) THEN Bad ELSE Good(g[m])}
<1> HIDE DEF n
<1>3. 0 \in S
  <2>1. 0 \in 0..n /\ ~(0 > MaxSize) /\ ~\E k \in 1..0 : TRUE BY <1>0
  <2> QED BY <1>1, <1>2, <2>1
<1>4. ASSUME NEW k \in 0..(n - 1), k \in S PROVE k + 1 \in S
  <2> DEFINE d == digits[k + 1]
             v == g[k]
  <2>1. k \in 0..n /\ k + 1 \in 1..n /\ k + 1 \in 0..n /\ d \in 0..10 /\ v \in Nat /\ f[k] \in Sizes32
    <3>1. k \in 0..n /\ k + 1 \in 1..n /\ k + 1 \in 0..n BY <1>0
    <3>2. d \in 0..10 BY <1>0, <3>1
    <3> QED BY <1>1, <1>2, <3>1, <3>2
  <2>2. f[k + 1] = Digit(f[k], d) /\ g[k + 1] = v * 10 + d BY <1>1, <1>2
  <2>3. f[k] = IF Refuses(k, v) THEN Bad ELSE Good(v) BY <1>4
  <2>4. Refuses(k + 1, g[k + 1]) <=> (\E i \in 1..k : digits[i] = 10) \/ d = 10 \/ v * 10 + d > MaxSize
    <3>1. \A i : i \in 1..(k + 1) <=> (i \in 1..k \/ i = k + 1) BY <1>0
    <3> QED BY <2>2, <3>1
  <2>5. v > MaxSize => v * 10 + d > MaxSize BY <1>0, <2>1, SMTT(30)
  <2>6. Bad.ok = FALSE /\ Good(v).ok = TRUE /\ Good(v).v = v BY DEF Bad, Good
  <2> HIDE DEF d, v, S
  <2>7. f[k + 1] = IF Refuses(k + 1, g[k + 1]) THEN Bad ELSE Good(g[k + 1])
    <3>1. CASE Refuses(k, v)
      <4>0. f[k] = Bad /\ ~f[k].ok BY <2>3, <2>6, <3>1
      <4>1. f[k + 1] = Bad BY <2>1, <2>2, <4>0, DigitIs
      <4> QED BY <2>4, <2>5, <3>1, <4>1
    <3>2. CASE ~Refuses(k, v)
      <4>1. f[k] = Good(v) BY <2>3, <3>2
      <4>2. f[k + 1] = IF d = 10 \/ v * 10 + d > MaxSize THEN Bad ELSE Good(v * 10 + d)
        <5>1. f[k].ok /\ f[k].v = v BY <2>6, <4>1
        <5>2. Digit(f[k], d) = IF d = 10 \/ f[k].v * 10 + d > MaxSize THEN Bad ELSE Good(f[k].v * 10 + d)
          BY <2>1, <5>1, DigitIs
        <5> QED BY <2>2, <5>1, <5>2
      <4> QED BY <2>2, <2>4, <3>2, <4>2
    <3> QED BY <3>1, <3>2
  <2> QED BY <2>1, <2>7 DEF S
<1> HIDE DEF S, Refuses
<1>5. \A m \in 0..n : m \in S BY <1>0, <1>3, <1>4, UpTo
<1>6. n \in 0..n /\ f[n] = IF Refuses(n, g[n]) THEN Bad ELSE Good(g[n]) BY <1>0, <1>5 DEF S
<1>7. Iterated(LAMBDA now, k : Digit(now, digits[k]), Good(0), n) = f[n] /\ ValueOf(digits, n) = g[n]
  BY <1>1, <1>2, <1>6
<1>8. DOMAIN digits = 1..n BY LenProperties DEF n
<1> QED BY <1>6, <1>7, <1>8 DEF n, ParseSize, Refuses
----------------------------------------
(* WAV. *)

ChunkKinds == [id : {"fmt", "data", "junk"}, size : Nat, align : Nat]
WavStates == [ok : BOOLEAN, cursor : Nat, riffEnd : Nat, fmt : Nat, data : Nat \cup {-1}, bytes : Nat]
\* A chunk that read_wav refuses.
RefusedChunk(now, chunk) ==
    \/ now.cursor + 8 + Padded(chunk.size) > now.riffEnd
    \/ chunk.id = "fmt" /\ (now.fmt # 0 \/ chunk.size < 16 \/ chunk.align = 0)
    \/ chunk.id = "data" /\ now.data # -1

\* A chunk with its padding is no shorter.
LEMMA PaddedOddIs == ASSUME NEW size \in Nat PROVE Padded(size) \in Nat /\ Padded(size) >= size
<1>1. size % 2 \in {0, 1} OBVIOUS
<1> QED BY <1>1 DEF Padded

\* A chunk with its padding is even.
LEMMA PaddedEven == ASSUME NEW size \in Nat PROVE Padded(size) = 2 * ((size + 1) \div 2)
<1>1. size % 2 \in {0, 1} /\ size = (size \div 2) * 2 + (size % 2) /\ size \div 2 \in Int OBVIOUS
<1> DEFINE q == size \div 2
<1>2. CASE size % 2 = 0
  <2>1. 2 \in Nat \ {0} /\ q \in Int /\ 1 \in 0..(2 - 1) /\ size + 1 = q * 2 + 1 BY <1>1, <1>2
  <2>2. (size + 1) \div 2 = q BY <2>1, RestIs
  <2> QED BY <1>1, <1>2, <2>2 DEF Padded
<1>3. CASE size % 2 = 1
  <2>1. 2 \in Nat \ {0} /\ q + 1 \in Int /\ 0 \in 0..(2 - 1) /\ size + 1 = (q + 1) * 2 + 0 BY <1>1, <1>3
  <2>2. (size + 1) \div 2 = q + 1 BY <2>1, RestIs
  <2> QED BY <1>1, <1>3, <2>2 DEF Padded
<1> QED BY <1>1, <1>2, <1>3

\* What one chunk does to the state of read_wav.
LEMMA ReadChunkIs ==
    ASSUME NEW now \in WavStates, NEW chunk \in ChunkKinds, NEW new, new = ReadChunk(now, chunk)
    PROVE  /\ new \in WavStates /\ new.riffEnd = now.riffEnd
           /\ ~now.ok \/ now.cursor >= now.riffEnd => new = now
           /\ now.ok /\ now.cursor < now.riffEnd /\ RefusedChunk(now, chunk) => ~new.ok
           /\ now.ok /\ now.cursor < now.riffEnd /\ ~RefusedChunk(now, chunk) =>
                /\ new.ok /\ new.cursor = now.cursor + 8 + Padded(chunk.size)
                /\ new.fmt = IF chunk.id = "fmt" THEN chunk.align ELSE now.fmt
                /\ new.data = IF chunk.id = "data" THEN now.cursor + 8 ELSE now.data
                /\ new.bytes = IF chunk.id = "data" THEN chunk.size ELSE now.bytes
<1>0. /\ now.ok \in BOOLEAN /\ now.cursor \in Nat /\ now.riffEnd \in Nat /\ now.fmt \in Nat /\ now.data \in Nat \cup {-1} /\ now.bytes \in Nat
      /\ chunk.size \in Nat /\ chunk.align \in Nat
  BY DEF WavStates, ChunkKinds
<1> DEFINE p == Padded(chunk.size)
           start == now.cursor + 8
           end == start + p
           fmt == IF chunk.id = "fmt" THEN chunk.align ELSE now.fmt
           data == IF chunk.id = "data" THEN start ELSE now.data
           count == IF chunk.id = "data" THEN chunk.size ELSE now.bytes
<1>1. p \in Nat /\ p >= chunk.size BY <1>0, PaddedOddIs
<1> HIDE DEF p
<1>2. start \in Nat /\ end \in Nat /\ fmt \in Nat /\ data \in Nat \cup {-1} /\ count \in Nat BY <1>0, <1>1
<1>3. RefusedChunk(now, chunk) <=>
         (start > now.riffEnd \/ start + chunk.size > now.riffEnd \/ end > now.riffEnd
          \/ (chunk.id = "fmt" /\ (now.fmt # 0 \/ chunk.size < 16 \/ chunk.align = 0))
          \/ (chunk.id = "data" /\ now.data # -1))
  BY <1>0, <1>1 DEF RefusedChunk, p
<1>4. CASE ~now.ok \/ now.cursor >= now.riffEnd
  <2>1. new = now BY <1>4 DEF ReadChunk
  <2> QED BY <1>0, <1>4, <2>1
<1>5. CASE now.ok /\ ~(now.cursor >= now.riffEnd) /\ RefusedChunk(now, chunk)
  <2>1. new = [now EXCEPT !.ok = FALSE] BY <1>3, <1>5 DEF ReadChunk, ChunkHeader, p
  <2>2. new \in WavStates /\ new.riffEnd = now.riffEnd /\ new.ok = FALSE BY <2>1, Zenon DEF WavStates
  <2> QED BY <1>0, <1>5, <2>2
<1>6. CASE now.ok /\ ~(now.cursor >= now.riffEnd) /\ ~RefusedChunk(now, chunk)
  <2>1. new = [now EXCEPT !.cursor = end, !.fmt = fmt, !.data = data, !.bytes = count]
    BY <1>3, <1>6 DEF ReadChunk, ChunkHeader, p
  <2> HIDE DEF end, fmt, data, count
  <2>2. new \in WavStates /\ new.riffEnd = now.riffEnd BY <1>2, <2>1, Zenon DEF WavStates
  <2>3. new.ok = now.ok /\ new.cursor = end /\ new.fmt = fmt /\ new.data = data /\ new.bytes = count
    BY <2>1 DEF WavStates
  <2> QED BY <1>0, <1>6, <2>2, <2>3 DEF end, fmt, data, count, p
<1> QED BY <1>4, <1>5, <1>6

FirstWav(f) == [ok |-> TRUE, cursor |-> 12, riffEnd |-> 8 + f.riff, fmt |-> 0, data |-> -1, bytes |-> 0]
\* The state of read_wav after some chunks.
WavAfter(w, m) == Iterated(LAMBDA s, k : ReadChunk(s, w.chunks[k]), FirstWav(w), m)

\* The chunks of a file that are read.
LEMMA ChunkTurns ==
    ASSUME NEW w, w.riff \in Nat, w.chunks \in Seq(ChunkKinds)
    PROVE  \E f \in [0..Len(w.chunks) -> WavStates] :
             /\ f[0] = FirstWav(w) /\ \A k \in 0..(Len(w.chunks) - 1) : f[k + 1] = ReadChunk(f[k], w.chunks[(k + 1)])
             /\ \A m \in 0..Len(w.chunks) : WavAfter(w, m) = f[m]
<1> DEFINE n == Len(w.chunks)
           V == WavStates
           start == FirstWav(w)
           T(v, k) == ReadChunk(v, w.chunks[k])
           G == [p \in V \X (1..n) |-> T(p[1], p[2])]
           Eq(g, m) == g = [k \in 0..m |-> IF k = 0 THEN start ELSE T(g[k - 1], k)]
           F(m) == WavAfter(w, m)
<1>0. n \in Nat /\ start \in V
  <2>1. n \in Nat /\ 8 + w.riff \in Nat BY LenProperties
  <2> QED BY <2>1 DEF FirstWav, WavStates
<1>1. \A v \in V, k \in 1..n : T(v, k) \in V BY ElementOfSeq, ReadChunkIs
<1> HIDE DEF n
<1>3. ASSUME NEW m, NEW c, c = CHOOSE g : Eq(g, m) PROVE F(m) = c[m] BY <1>3 DEF Iterated, WavAfter
<1> HIDE DEF T, V, start, F
<1>5. PICK f : f \in [0..n -> V] /\ f[0] = start /\ \A k \in 0..(n - 1) : f[k + 1] = T(f[k], k + 1)
  <2>1. G \in [V \X (1..n) -> V] /\ \A v \in V, k \in 1..n : G[<<v, k>>] = T(v, k) BY <1>1
  <2> HIDE DEF G
  <2>2. PICK f : Runs(f, n, V, start, G) BY <1>0, <2>1, LoopOf
  <2>3. \A k \in 0..(n - 1) : k + 1 \in 1..n /\ f[k] \in V BY <1>0, <2>2 DEF Runs
  <2> QED BY <2>1, <2>2, <2>3 DEF Runs
<1> HIDE DEF G
<1>7. ASSUME NEW m \in 0..n PROVE F(m) = f[m]
  <2> DEFINE c == CHOOSE g : Eq(g, m)
             h == [k \in 0..m |-> f[k]]
  <2>1. TurnsUpTo(n, m) BY <1>0, TurnsUpToIs
  <2>2. Eq(h, m)
    <3>1. \A k \in 0..m : h[k] = IF k = 0 THEN start ELSE T(h[k - 1], k) BY <1>5, <2>1 DEF TurnsUpTo
    <3>2. h = [k \in 0..m |-> h[k]] OBVIOUS
    <3> HIDE DEF h
    <3> QED BY <3>1, <3>2
  <2>3. Eq(c, m) /\ F(m) = c[m] BY <1>3, <2>2
  <2> HIDE DEF c
  <2>4. c[0] = f[0] /\ \A k \in 0..(m - 1) : c[k] = f[k] => c[k + 1] = f[k + 1]
    BY <1>5, <2>1, <2>3 DEF TurnsUpTo
  <2>5. Agree(c, f, m) /\ m \in Nat /\ m \in 0..m BY <2>1, <2>4 DEF Agree, TurnsUpTo
  <2> QED BY <2>3, <2>5, SameTurns
<1> QED BY <1>5, <1>7 DEF n, V, start, T, F

\* Where the chunks begin.
LEMMA BehindTurns ==
    ASSUME NEW chunks \in Seq(ChunkKinds)
    PROVE  \E f \in [0..Len(chunks) -> Nat] :
             /\ f[0] = 12 /\ \A k \in 0..(Len(chunks) - 1) : f[k + 1] = f[k] + 8 + 2 * ((chunks[(k + 1)].size + 1) \div 2)
             /\ \A m \in 0..Len(chunks) : Behind(chunks, m) = f[m]
<1> DEFINE n == Len(chunks)
           V == Nat
           start == 12
           T(v, k) == v + 8 + 2 * ((chunks[k].size + 1) \div 2)
           G == [p \in V \X (1..n) |-> T(p[1], p[2])]
           Eq(g, m) == g = [k \in 0..m |-> IF k = 0 THEN start ELSE T(g[k - 1], k)]
           F(m) == Behind(chunks, m)
<1>0. n \in Nat /\ start \in V BY LenProperties
<1>1. \A v \in V, k \in 1..n : T(v, k) \in V
  <2> TAKE v \in V, k \in 1..n
  <2>0. chunks[k] \in ChunkKinds BY ElementOfSeq
  <2>1. chunks[k].size \in Nat BY <2>0 DEF ChunkKinds
  <2>2. Padded(chunks[k].size) \in Nat BY <2>1, PaddedOddIs
  <2>3. Padded(chunks[k].size) = 2 * ((chunks[k].size + 1) \div 2) BY <2>1, PaddedEven
  <2> HIDE DEF n
  <2> QED BY <2>2, <2>3
<1> HIDE DEF n
<1>3. ASSUME NEW m, NEW c, c = CHOOSE g : Eq(g, m) PROVE F(m) = c[m] BY <1>3 DEF Iterated, Behind
<1> HIDE DEF T, V, start, F
<1>5. PICK f : f \in [0..n -> V] /\ f[0] = start /\ \A k \in 0..(n - 1) : f[k + 1] = T(f[k], k + 1)
  <2>1. G \in [V \X (1..n) -> V] /\ \A v \in V, k \in 1..n : G[<<v, k>>] = T(v, k) BY <1>1
  <2> HIDE DEF G
  <2>2. PICK f : Runs(f, n, V, start, G) BY <1>0, <2>1, LoopOf
  <2>3. \A k \in 0..(n - 1) : k + 1 \in 1..n /\ f[k] \in V BY <1>0, <2>2 DEF Runs
  <2> QED BY <2>1, <2>2, <2>3 DEF Runs
<1> HIDE DEF G
<1>7. ASSUME NEW m \in 0..n PROVE F(m) = f[m]
  <2> DEFINE c == CHOOSE g : Eq(g, m)
             h == [k \in 0..m |-> f[k]]
  <2>1. TurnsUpTo(n, m) BY <1>0, TurnsUpToIs
  <2>2. Eq(h, m)
    <3>1. \A k \in 0..m : h[k] = IF k = 0 THEN start ELSE T(h[k - 1], k) BY <1>5, <2>1 DEF TurnsUpTo
    <3>2. h = [k \in 0..m |-> h[k]] OBVIOUS
    <3> HIDE DEF h
    <3> QED BY <3>1, <3>2
  <2>3. Eq(c, m) /\ F(m) = c[m] BY <1>3, <2>2
  <2> HIDE DEF c
  <2>4. c[0] = f[0] /\ \A k \in 0..(m - 1) : c[k] = f[k] => c[k + 1] = f[k + 1]
    BY <1>5, <2>1, <2>3 DEF TurnsUpTo
  <2>5. Agree(c, f, m) /\ m \in Nat /\ m \in 0..m BY <2>1, <2>4 DEF Agree, TurnsUpTo
  <2> QED BY <2>3, <2>5, SameTurns
<1> QED BY <1>5, <1>7 DEF n, V, start, T, F

\* Where a chunk begins, from where the one before it does.
LEMMA BehindIs ==
    ASSUME NEW chunks \in Seq(ChunkKinds)
    PROVE  /\ Behind(chunks, 0) = 12
           /\ \A k \in 0..Len(chunks) : Behind(chunks, k) \in Nat
           /\ \A k \in 0..(Len(chunks) - 1) :
                /\ chunks[k + 1].size \in Nat /\ chunks[k + 1].align \in Nat
                /\ Behind(chunks, k + 1) = Behind(chunks, k) + 8 + Padded(chunks[k + 1].size)
<1> DEFINE n == Len(chunks)
<1>0. n \in Nat /\ \A k \in 1..n : chunks[k].size \in Nat /\ chunks[k].align \in Nat
  <2>1. n \in Nat /\ \A k \in 1..n : chunks[k] \in ChunkKinds BY LenProperties, ElementOfSeq
  <2> QED BY <2>1 DEF ChunkKinds
<1>1. PICK f : /\ f \in [0..n -> Nat] /\ f[0] = 12
               /\ \A k \in 0..(n - 1) : f[k + 1] = f[k] + 8 + 2 * ((chunks[k + 1].size + 1) \div 2)
               /\ \A m \in 0..n : Behind(chunks, m) = f[m]
  BY BehindTurns
<1> HIDE DEF n
<1>2. \A k \in 0..n : Behind(chunks, k) = f[k] /\ f[k] \in Nat BY <1>1
<1>3. ASSUME NEW k \in 0..(n - 1)
      PROVE  chunks[k + 1].size \in Nat /\ chunks[k + 1].align \in Nat
             /\ Behind(chunks, k + 1) = Behind(chunks, k) + 8 + Padded(chunks[k + 1].size)
  <2>1. k \in 0..n /\ k + 1 \in 0..n /\ k + 1 \in 1..n BY <1>0
  <2>2. chunks[k + 1].size \in Nat /\ chunks[k + 1].align \in Nat BY <1>0, <2>1
  <2>3. Padded(chunks[k + 1].size) = 2 * ((chunks[k + 1].size + 1) \div 2) BY <2>2, PaddedEven
  <2>4. f[k + 1] = f[k] + 8 + 2 * ((chunks[k + 1].size + 1) \div 2) BY <1>1
  <2> QED BY <1>2, <2>1, <2>2, <2>3, <2>4
<1>4. 0 \in 0..n BY <1>0
<1> QED BY <1>1, <1>2, <1>3, <1>4 DEF n

\* A quotient without a rest.
LEMMA WholeParts == ASSUME NEW d \in Nat \ {0}, NEW a \in Nat, a % d = 0 PROVE a \div d \in Nat /\ (a \div d) * d = a
<1>1. a = (a \div d) * d + (a % d) /\ a \div d \in Int BY Divide
<1>2. 0 * d <= a OBVIOUS
<1>3. 0 <= a \div d BY <1>2, QuotientAbove
<1>4. (a \div d) * d \in Int BY <1>1
<1> QED BY <1>1, <1>3, <1>4

WavFile(w) == w.size \in Nat /\ w.riff \in Nat /\ w.chunks \in Seq(ChunkKinds)

\* What the chunks that were read say.
FormatFound(w, k, fmt) == fmt = 0 \/ \E i \in 1..k : w.chunks[i].id = "fmt" /\ w.chunks[i].align = fmt
DataFound(w, k, data, count) ==
    data = -1 \/ \E i \in 1..k : /\ w.chunks[i].id = "data" /\ w.chunks[i].size = count
                                 /\ data = Behind(w.chunks, i - 1) + 8 /\ data + count <= 8 + w.riff
ReadSoFar(w, k, now) ==
    /\ now.riffEnd = 8 + w.riff
    /\ now.ok /\ now.cursor < now.riffEnd => now.cursor = Behind(w.chunks, k)
    /\ now.ok => FormatFound(w, k, now.fmt) /\ DataFound(w, k, now.data, now.bytes)

\* What the chunks so far say, they say later.
LEMMA FoundLater ==
    ASSUME NEW w, NEW k \in Nat, NEW fmt, NEW data, NEW count
    PROVE  (FormatFound(w, k, fmt) => FormatFound(w, k + 1, fmt)) /\ (DataFound(w, k, data, count) => DataFound(w, k + 1, data, count))
<1>1. \A i \in 1..k : i \in 1..(k + 1) OBVIOUS
<1> QED BY <1>1 DEF FormatFound, DataFound

\* One chunk more: what the chunks so far say.
LEMMA ReadOn ==
    ASSUME NEW w, WavFile(w), NEW k \in 0..(Len(w.chunks) - 1), NEW now \in WavStates, ReadSoFar(w, k, now),
           NEW new, new = ReadChunk(now, w.chunks[k + 1])
    PROVE  ReadSoFar(w, k + 1, new)
<1> DEFINE chunk == w.chunks[k + 1]
           end == 8 + w.riff
<1>0. k \in Nat /\ k + 1 \in 1..Len(w.chunks) /\ k + 1 \in 1..(k + 1) /\ end \in Nat /\ (k + 1) - 1 = k
  <2>1. w.riff \in Nat /\ Len(w.chunks) \in Nat BY LenProperties DEF WavFile
  <2> QED BY <2>1
<1>1. chunk \in ChunkKinds BY <1>0, ElementOfSeq DEF WavFile
<1>2. chunk.size \in Nat /\ Padded(chunk.size) \in Nat /\ Padded(chunk.size) >= chunk.size
  <2>1. chunk.size \in Nat BY <1>1 DEF ChunkKinds
  <2> QED BY <2>1, PaddedOddIs
<1>3. now.riffEnd = end /\ now.cursor \in Nat /\ now.ok \in BOOLEAN BY DEF ReadSoFar, WavStates
<1> HIDE DEF chunk, end
<1>4. new \in WavStates /\ new.riffEnd = end BY <1>1, <1>3, ReadChunkIs DEF chunk
<1>5. CASE ~now.ok \/ now.cursor >= now.riffEnd
  <2>1. new = now BY <1>1, <1>5, ReadChunkIs DEF chunk
  <2>2. now.ok => ~(now.cursor < now.riffEnd) BY <1>0, <1>3, <1>5
  <2> QED BY <1>0, <2>1, <2>2, FoundLater DEF ReadSoFar
<1>6. CASE now.ok /\ now.cursor < now.riffEnd /\ RefusedChunk(now, chunk)
  <2>1. ~new.ok BY <1>1, <1>6, ReadChunkIs DEF chunk
  <2> QED BY <1>4, <2>1 DEF ReadSoFar, end
<1>7. CASE now.ok /\ now.cursor < now.riffEnd /\ ~RefusedChunk(now, chunk)
  <2>1. /\ new.cursor = now.cursor + 8 + Padded(chunk.size)
        /\ new.fmt = IF chunk.id = "fmt" THEN chunk.align ELSE now.fmt
        /\ new.data = IF chunk.id = "data" THEN now.cursor + 8 ELSE now.data
        /\ new.bytes = IF chunk.id = "data" THEN chunk.size ELSE now.bytes
    BY <1>1, <1>7, ReadChunkIs DEF chunk
  <2>2. now.cursor = Behind(w.chunks, k) /\ FormatFound(w, k, now.fmt) /\ DataFound(w, k, now.data, now.bytes)
    BY <1>7 DEF ReadSoFar
  <2>3. new.cursor = Behind(w.chunks, k + 1)
    <3>1. Behind(w.chunks, k + 1) = Behind(w.chunks, k) + 8 + Padded(chunk.size)
      BY BehindIs DEF chunk, WavFile
    <3> QED BY <2>1, <2>2, <3>1
  <2>4. now.cursor + 8 + Padded(chunk.size) <= end BY <1>0, <1>2, <1>3, <1>7 DEF RefusedChunk
  <2>5. FormatFound(w, k + 1, new.fmt)
    <3>1. CASE chunk.id = "fmt" BY <1>0, <2>1, <3>1 DEF FormatFound, chunk
    <3>2. CASE chunk.id # "fmt" BY <1>0, <2>1, <2>2, <3>2, FoundLater
    <3> QED BY <3>1, <3>2
  <2>6. DataFound(w, k + 1, new.data, new.bytes)
    <3>1. CASE chunk.id = "data"
      <4>1. new.data = Behind(w.chunks, (k + 1) - 1) + 8 /\ new.bytes = chunk.size BY <1>0, <2>1, <2>2, <3>1
      <4>2. new.data + new.bytes <= end BY <1>0, <1>2, <1>3, <2>1, <2>4, <3>1, SMTT(30)
      <4> QED BY <1>0, <3>1, <4>1, <4>2 DEF DataFound, chunk, end
    <3>2. CASE chunk.id # "data" BY <1>0, <2>1, <2>2, <3>2, FoundLater
    <3> QED BY <3>1, <3>2
  <2> QED BY <1>4, <2>3, <2>5, <2>6 DEF ReadSoFar, end
<1> QED BY <1>0, <1>3, <1>5, <1>6, <1>7

\* A file that is accepted has a format and, inside, a data chunk of whole frames.
LEMMA WavSound ==
    ASSUME NEW w, WavFile(w), NEW r, r = ParseWav(w), r.ok
    PROVE  /\ r.v.offset + r.v.bytes <= w.size
           /\ r = Good([offset |-> r.v.offset, bytes |-> r.v.bytes, frames |-> r.v.frames])
           /\ \E format \in Chunks(w, "fmt"), data \in Chunks(w, "data") :
                /\ r.v.offset = Behind(w.chunks, data - 1) + 8
                /\ r.v.bytes = w.chunks[data].size
                /\ w.chunks[format].align \in Nat \ {0}
                /\ r.v.frames = r.v.bytes \div w.chunks[format].align
                /\ r.v.frames * w.chunks[format].align = r.v.bytes
<1> DEFINE n == Len(w.chunks)
<1>0. w.size \in Nat /\ w.riff \in Nat /\ w.chunks \in Seq(ChunkKinds) /\ n \in Nat /\ DOMAIN w.chunks = 1..n
  BY LenProperties DEF WavFile
<1>1. PICK f : /\ f \in [0..n -> WavStates] /\ f[0] = FirstWav(w)
               /\ \A k \in 0..(n - 1) : f[k + 1] = ReadChunk(f[k], w.chunks[k + 1])
               /\ \A m \in 0..n : WavAfter(w, m) = f[m]
  BY <1>0, ChunkTurns
<1> DEFINE S == {k \in 0..n : ReadSoFar(w, k, f[k])}
<1>2. 0 \in S
  <2>1. ReadSoFar(w, 0, FirstWav(w)) BY <1>0, BehindIs DEF ReadSoFar, FirstWav, FormatFound, DataFound
  <2> QED BY <1>0, <1>1, <2>1
<1>3. ASSUME NEW k \in 0..(n - 1), k \in S PROVE k + 1 \in S
  <2>1. k \in 0..n /\ k + 1 \in 0..n BY <1>0
  <2>2. f[k] \in WavStates /\ ReadSoFar(w, k, f[k]) BY <1>1, <1>3, <2>1
  <2>3. ReadSoFar(w, k + 1, f[k + 1]) BY <1>1, <2>2, ReadOn
  <2> QED BY <2>1, <2>3
<1>4. n \in S
  <2> HIDE DEF S, n
  <2>1. \A k \in 0..n : k \in S BY <1>0, <1>2, <1>3, UpTo
  <2> QED BY <1>0, <2>1
<1> DEFINE last == f[n]
<1>5. last \in WavStates /\ ReadSoFar(w, n, last) BY <1>0, <1>1, <1>4
<1>6. WavAfter(w, n) = last BY <1>0, <1>1
<1> HIDE DEF last, S, n
<1>7. /\ ~(8 + w.riff > w.size) /\ last.ok /\ last.fmt # 0 /\ last.data # -1 /\ last.bytes % last.fmt = 0
      /\ r = Good([offset |-> last.data, bytes |-> last.bytes, frames |-> last.bytes \div last.fmt])
  BY <1>6 DEF ParseWav, WavAfter, FirstWav, n, Good, Bad
<1>8. last.fmt \in Nat \ {0} /\ last.data \in Nat /\ last.bytes \in Nat BY <1>5, <1>7 DEF WavStates
<1>9. r.v.offset = last.data /\ r.v.bytes = last.bytes /\ r.v.frames = last.bytes \div last.fmt
  BY <1>7 DEF Good
<1>10. PICK format \in 1..n : w.chunks[format].id = "fmt" /\ w.chunks[format].align = last.fmt
  BY <1>5, <1>7 DEF ReadSoFar, FormatFound
<1>11. PICK data \in 1..n : /\ w.chunks[data].id = "data" /\ w.chunks[data].size = last.bytes
                            /\ last.data = Behind(w.chunks, data - 1) + 8 /\ last.data + last.bytes <= 8 + w.riff
  BY <1>5, <1>7 DEF ReadSoFar, DataFound
<1>12. format \in Chunks(w, "fmt") /\ data \in Chunks(w, "data") BY <1>0, <1>10, <1>11 DEF Chunks
<1>13. (last.bytes \div last.fmt) * last.fmt = last.bytes BY <1>7, <1>8, WholeParts
<1>14. last.data + last.bytes <= w.size BY <1>0, <1>7, <1>8, <1>11, SMTT(30)
<1> QED BY <1>7, <1>8, <1>9, <1>10, <1>11, <1>12, <1>13, <1>14

\* Later chunks begin later, by a chunk header at least.
LEMMA BehindGrows ==
    ASSUME NEW chunks \in Seq(ChunkKinds), NEW i \in 0..Len(chunks), NEW k \in i..Len(chunks)
    PROVE  Behind(chunks, i) + 8 * (k - i) <= Behind(chunks, k)
<1> DEFINE n == Len(chunks)
           S == {j \in 0..n : j < i \/ Behind(chunks, i) + 8 * (j - i) <= Behind(chunks, j)}
<1>0. n \in Nat /\ i \in Nat /\ k \in Nat /\ i <= n /\ k <= n /\ i <= k /\ \A j \in 0..n : Behind(chunks, j) \in Nat
  BY LenProperties, BehindIs
<1>1. 0 \in S BY <1>0
<1>2. ASSUME NEW j \in 0..(n - 1), j \in S PROVE j + 1 \in S
  <2>1. /\ chunks[j + 1].size \in Nat
        /\ Behind(chunks, j + 1) = Behind(chunks, j) + 8 + Padded(chunks[j + 1].size)
    BY BehindIs
  <2>2. Padded(chunks[j + 1].size) \in Nat BY <2>1, PaddedOddIs
  <2>3. j \in 0..n /\ j + 1 \in 0..n BY <1>0
  <2>4. Behind(chunks, j) \in Nat /\ Behind(chunks, i) \in Nat BY <1>0, <2>3
  <2>5. j + 1 < i \/ Behind(chunks, i) + 8 * ((j + 1) - i) <= Behind(chunks, j + 1)
    <3>1. CASE j + 1 < i BY <3>1
    <3>2. CASE j + 1 = i BY <1>0, <2>4, <3>2
    <3>3. CASE j >= i BY <1>0, <1>2, <2>1, <2>2, <2>3, <2>4, <3>3, SMTT(30)
    <3> QED BY <1>0, <2>3, <3>1, <3>2, <3>3
  <2> QED BY <2>3, <2>5
<1> HIDE DEF S, n
<1>3. \A j \in 0..n : j \in S BY <1>0, <1>1, <1>2, UpTo
<1>4. k \in S BY <1>0, <1>3
<1> QED BY <1>0, <1>4 DEF S

\* The state of read_wav behind some chunks of a well-formed file.
WellRead(w, format, data, m, now) ==
    /\ now.ok /\ now.cursor = Behind(w.chunks, m) /\ now.riffEnd = 8 + w.riff
    /\ now.fmt = IF m >= format THEN w.chunks[format].align ELSE 0
    /\ now.data = IF m >= data THEN Behind(w.chunks, data - 1) + 8 ELSE -1
    /\ now.bytes = IF m >= data THEN w.chunks[data].size ELSE 0

\* One chunk more of a well-formed file.
LEMMA WellReadOn ==
    ASSUME NEW w, WavFile(w), NEW format \in DOMAIN w.chunks, NEW data \in DOMAIN w.chunks, WellFormed(w, format, data),
           NEW k \in 0..(Len(w.chunks) - 1), NEW now \in WavStates, WellRead(w, format, data, k, now)
    PROVE  WellRead(w, format, data, k + 1, ReadChunk(now, w.chunks[k + 1]))
<1> DEFINE n == Len(w.chunks)
           chunk == w.chunks[k + 1]
           new == ReadChunk(now, chunk)
<1>0. /\ w.riff \in Nat /\ w.chunks \in Seq(ChunkKinds) /\ n \in Nat /\ DOMAIN w.chunks = 1..n
      /\ k \in Nat /\ k + 1 \in 1..n /\ (k + 1) - 1 = k /\ format \in Nat /\ data \in Nat
  <2>1. w.riff \in Nat /\ w.chunks \in Seq(ChunkKinds) /\ n \in Nat /\ DOMAIN w.chunks = 1..n
    BY LenProperties DEF WavFile
  <2> HIDE DEF n
  <2>2. format \in 1..n /\ data \in 1..n BY <2>1
  <2> QED BY <2>1, <2>2 DEF n
<1>1. /\ (chunk.id = "fmt") <=> (k + 1 = format)
      /\ (chunk.id = "data") <=> (k + 1 = data)
      /\ w.chunks[format].size >= 16 /\ w.chunks[format].align > 0 /\ Behind(w.chunks, n) = 8 + w.riff
  BY <1>0 DEF WellFormed, Chunks
<1>2. chunk \in ChunkKinds BY <1>0, ElementOfSeq
<1>3. Behind(w.chunks, k + 1) = Behind(w.chunks, k) + 8 + Padded(chunk.size) /\ chunk.size \in Nat
  BY <1>0, BehindIs
<1>4. /\ Behind(w.chunks, k) \in Nat /\ Behind(w.chunks, k + 1) \in Nat /\ Padded(chunk.size) \in Nat
      /\ Behind(w.chunks, k + 1) <= Behind(w.chunks, n)
  <2>1. k \in 0..n /\ k + 1 \in 0..n /\ n \in (k + 1)..n BY <1>0
  <2>2. Behind(w.chunks, k) \in Nat /\ Behind(w.chunks, k + 1) \in Nat /\ Behind(w.chunks, n) \in Nat
    <3>1. n \in 0..n BY <1>0
    <3> QED BY <1>0, <2>1, <3>1, BehindIs
  <2>3. Behind(w.chunks, k + 1) + 8 * (n - (k + 1)) <= Behind(w.chunks, n) BY <1>0, <2>1, BehindGrows
  <2>4. Padded(chunk.size) \in Nat BY <1>3, PaddedOddIs
  <2> HIDE DEF n, chunk
  <2> QED BY <1>0, <2>1, <2>2, <2>3, <2>4
<1>5. /\ now.ok /\ now.cursor = Behind(w.chunks, k) /\ now.riffEnd = 8 + w.riff
      /\ now.fmt = IF k >= format THEN w.chunks[format].align ELSE 0
      /\ now.data = IF k >= data THEN Behind(w.chunks, data - 1) + 8 ELSE -1
      /\ now.bytes = IF k >= data THEN w.chunks[data].size ELSE 0
  BY DEF WellRead
<1> HIDE DEF n, chunk
<1>6. now.cursor < now.riffEnd /\ ~RefusedChunk(now, chunk)
  <2>1. now.cursor < now.riffEnd /\ now.cursor + 8 + Padded(chunk.size) <= now.riffEnd
    BY <1>0, <1>1, <1>3, <1>4, <1>5, SMTT(30)
  <2>2. ~(now.cursor + 8 + Padded(chunk.size) > now.riffEnd)
    <3>1. now.cursor \in Nat /\ now.riffEnd \in Nat /\ Padded(chunk.size) \in Nat
      BY <1>0, <1>4, <1>5, SMTT(30)
    <3> QED BY <2>1, <3>1
  <2>3. chunk.id = "fmt" => now.fmt = 0 /\ ~(chunk.size < 16) /\ chunk.align # 0
    BY <1>0, <1>1, <1>3, <1>5, SMTT(30) DEF chunk
  <2>4. chunk.id = "data" => now.data = -1 BY <1>0, <1>1, <1>5
  <2> QED BY <2>1, <2>2, <2>3, <2>4 DEF RefusedChunk
<1>7. /\ new.ok /\ new.cursor = now.cursor + 8 + Padded(chunk.size) /\ new.riffEnd = now.riffEnd
      /\ new.fmt = IF chunk.id = "fmt" THEN chunk.align ELSE now.fmt
      /\ new.data = IF chunk.id = "data" THEN now.cursor + 8 ELSE now.data
      /\ new.bytes = IF chunk.id = "data" THEN chunk.size ELSE now.bytes
  BY <1>2, <1>5, <1>6, ReadChunkIs
<1> HIDE DEF new
<1>8. new.fmt = IF k + 1 >= format THEN w.chunks[format].align ELSE 0
  <2>1. CASE k + 1 = format BY <1>0, <1>1, <1>7, <2>1 DEF chunk
  <2>2. CASE k + 1 # format BY <1>0, <1>1, <1>5, <1>7, <2>2
  <2> QED BY <2>1, <2>2
<1>9. /\ new.data = IF k + 1 >= data THEN Behind(w.chunks, data - 1) + 8 ELSE -1
      /\ new.bytes = IF k + 1 >= data THEN w.chunks[data].size ELSE 0
  <2>1. CASE k + 1 = data BY <1>0, <1>1, <1>5, <1>7, <2>1 DEF chunk
  <2>2. CASE k + 1 # data BY <1>0, <1>1, <1>5, <1>7, <2>2
  <2> QED BY <2>1, <2>2
<1>10. WellRead(w, format, data, k + 1, new) BY <1>3, <1>5, <1>7, <1>8, <1>9 DEF WellRead
<1> QED BY <1>10 DEF new, chunk

\* Every well-formed file is accepted.
LEMMA WavComplete ==
    ASSUME NEW w, WavFile(w), NEW format \in DOMAIN w.chunks, NEW data \in DOMAIN w.chunks, WellFormed(w, format, data)
    PROVE  ParseWav(w).ok
<1> DEFINE n == Len(w.chunks)
<1>0. w.size \in Nat /\ w.riff \in Nat /\ w.chunks \in Seq(ChunkKinds) /\ n \in Nat /\ DOMAIN w.chunks = 1..n
  BY LenProperties DEF WavFile
<1>1. PICK f : /\ f \in [0..n -> WavStates] /\ f[0] = FirstWav(w)
               /\ \A k \in 0..(n - 1) : f[k + 1] = ReadChunk(f[k], w.chunks[k + 1])
               /\ \A m \in 0..n : WavAfter(w, m) = f[m]
  BY <1>0, ChunkTurns
<1> DEFINE S == {k \in 0..n : WellRead(w, format, data, k, f[k])}
<1>a. format \in 1..n /\ data \in 1..n BY <1>0
<1>2. 0 \in S
  <2>1. WellRead(w, format, data, 0, FirstWav(w))
    <3>1. ~(0 >= format) /\ ~(0 >= data) /\ Behind(w.chunks, 0) = 12 BY <1>0, <1>a, BehindIs
    <3> QED BY <3>1 DEF WellRead, FirstWav
  <2> QED BY <1>0, <1>1, <2>1
<1>3. ASSUME NEW k \in 0..(n - 1), k \in S PROVE k + 1 \in S
  <2>1. k \in 0..n /\ k + 1 \in 0..n BY <1>0
  <2>2. f[k] \in WavStates /\ WellRead(w, format, data, k, f[k]) BY <1>1, <1>3, <2>1
  <2>3. WellRead(w, format, data, k + 1, f[k + 1]) BY <1>1, <2>2, WellReadOn
  <2> QED BY <2>1, <2>3
<1>4. n \in S
  <2> HIDE DEF S, n
  <2>1. \A k \in 0..n : k \in S BY <1>0, <1>2, <1>3, UpTo
  <2> QED BY <1>0, <2>1
<1> DEFINE last == f[n]
<1>5. WellRead(w, format, data, n, last) /\ WavAfter(w, n) = last BY <1>0, <1>1, <1>4
<1>6. /\ w.chunks[format].size >= 16 /\ w.chunks[format].align > 0 /\ w.chunks[data].size % w.chunks[format].align = 0
      /\ w.size = 8 + w.riff /\ w.size = Behind(w.chunks, n)
  BY DEF WellFormed
<1>7. Behind(w.chunks, 0) + 8 * (n - 0) <= Behind(w.chunks, n) /\ Behind(w.chunks, 0) = 12 /\ Behind(w.chunks, data - 1) \in Nat
  <2>1. 0 \in 0..n /\ n \in 0..n /\ data - 1 \in 0..n BY <1>0, <1>a
  <2>2. Behind(w.chunks, 0) + 8 * (n - 0) <= Behind(w.chunks, n) BY <1>0, <2>1, BehindGrows
  <2> QED BY <1>0, <2>1, <2>2, BehindIs
<1> HIDE DEF last, S, n
<1>8. ~(w.size < 12) /\ ~(w.riff < 4) /\ ~(8 + w.riff > w.size) BY <1>0, <1>6, <1>7, SMTT(30)
<1>9. /\ last.ok /\ last.cursor = last.riffEnd /\ last.fmt # 0 /\ last.data # -1 /\ last.bytes % last.fmt = 0
  <2>1. /\ last.ok /\ last.cursor = Behind(w.chunks, n) /\ last.riffEnd = 8 + w.riff
        /\ last.fmt = w.chunks[format].align /\ last.data = Behind(w.chunks, data - 1) + 8
        /\ last.bytes = w.chunks[data].size
    BY <1>0, <1>a, <1>5 DEF WellRead
  <2> QED BY <1>6, <1>7, <2>1
<1>10. ParseWav(w) = Good([offset |-> last.data, bytes |-> last.bytes, frames |-> last.bytes \div last.fmt])
  BY <1>5, <1>8, <1>9 DEF ParseWav, WavAfter, FirstWav, n
<1> QED BY <1>10 DEF Good

\* A file that a writer describes is read back.
LEMMA WrittenIsRead ==
    ASSUME NEW samples \in Nat, NEW width \in {2, 4}, NEW r, r = WriteWav(samples, width), r.ok
    PROVE  /\ r.v.riff <= Max32
           /\ ParseWav(r.v) = Good([offset |-> 44, bytes |-> samples * width, frames |-> samples])
<1> DEFINE n == samples * width
           format == [id |-> "fmt", size |-> 16, align |-> width]
           data == [id |-> "data", size |-> n, align |-> 0]
           chunks == <<format, data>>
           w == [size |-> 44 + n, riff |-> 36 + n, chunks |-> chunks]
<1>0. Max32 \in Nat /\ n \in Nat /\ width \in Nat \ {0} /\ samples \in Int /\ n % 2 = 0 /\ n % width = 0 /\ n \div width = samples
  <2>1. Max32 \in Nat /\ n \in Nat /\ width \in Nat \ {0} /\ samples \in Int
    <3>1. CASE width = 2 BY <3>1, FormatsAssumption
    <3>2. CASE width = 4 BY <3>2, FormatsAssumption
    <3> QED BY <3>1, <3>2
  <2>2. n % width = 0 /\ n \div width = samples BY <2>1, MultipleIsWhole
  <2>3. n % 2 = 0
    <3>1. CASE width = 2 BY <2>2, <3>1
    <3>2. CASE width = 4
      <4>1. n = (2 * samples) * 2 /\ 2 \in Nat \ {0} /\ 2 * samples \in Int BY <2>1, <3>2
      <4>2. ((2 * samples) * 2) % 2 = 0 BY <4>1, MultipleIsWhole
      <4> QED BY <4>1, <4>2
    <3> QED BY <3>1, <3>2
  <2> QED BY <2>1, <2>2, <2>3
<1> HIDE DEF n
<1>1. 36 + n <= Max32 /\ r = Good(w) BY <1>0 DEF WriteWav, Good, Bad, n
<1>2. r.v = w /\ w.riff = 36 + n /\ w.size = 44 + n /\ w.chunks = chunks BY <1>1 DEF Good
<1>3. /\ format \in ChunkKinds /\ data \in ChunkKinds /\ format.id = "fmt" /\ data.id = "data"
      /\ format.size = 16 /\ format.align = width /\ data.size = n
  BY <1>0 DEF ChunkKinds
<1>4. /\ chunks \in Seq(ChunkKinds) /\ Len(chunks) = 2 /\ DOMAIN chunks = {1, 2}
      /\ chunks[1] = format /\ chunks[2] = data
  <2> HIDE DEF format, data
  <2> QED BY <1>3
<1> HIDE DEF format, data, chunks, w
<1>5. WavFile(w) BY <1>0, <1>2, <1>4 DEF WavFile
<1>6. Behind(chunks, 0) = 12 /\ Behind(chunks, 1) = 36 /\ Behind(chunks, 2) = 44 + n
  <2>1. Padded(16) = 16 /\ Padded(n) = n
    <3>1. 16 % 2 = 0 OBVIOUS
    <3> QED BY <1>0, <3>1 DEF Padded
  <2>2. 0 \in 0..(Len(chunks) - 1) /\ 1 \in 0..(Len(chunks) - 1) /\ 0 + 1 = 1 /\ 1 + 1 = 2 BY <1>4
  <2>3. Behind(chunks, 0) = 12 BY <1>4, BehindIs
  <2>4. Behind(chunks, 0 + 1) = Behind(chunks, 0) + 8 + Padded(chunks[0 + 1].size) BY <1>4, <2>2, BehindIs
  <2>5. Behind(chunks, 1 + 1) = Behind(chunks, 1) + 8 + Padded(chunks[1 + 1].size) BY <1>4, <2>2, BehindIs
  <2>6. Behind(chunks, 1) = 36 BY <1>3, <1>4, <2>1, <2>2, <2>3, <2>4
  <2>7. Behind(chunks, 2) = 36 + 8 + n BY <1>3, <1>4, <2>1, <2>2, <2>5, <2>6
  <2> QED BY <1>0, <2>3, <2>6, <2>7
<1>7. Chunks(w, "fmt") = {1} /\ Chunks(w, "data") = {2} BY <1>2, <1>3, <1>4 DEF Chunks
<1>8. WellFormed(w, 1, 2) BY <1>0, <1>2, <1>3, <1>4, <1>6, <1>7, SMTT(30) DEF WellFormed
<1>9. ParseWav(w).ok BY <1>2, <1>4, <1>5, <1>8, WavComplete
<1> DEFINE p == ParseWav(w)
<1>10. /\ p = Good([offset |-> p.v.offset, bytes |-> p.v.bytes, frames |-> p.v.frames])
       /\ p.v.offset = Behind(chunks, 2 - 1) + 8 /\ p.v.bytes = chunks[2].size
       /\ p.v.frames = p.v.bytes \div chunks[1].align
  <2>1. /\ p = Good([offset |-> p.v.offset, bytes |-> p.v.bytes, frames |-> p.v.frames])
        /\ \E i \in Chunks(w, "fmt"), j \in Chunks(w, "data") :
             /\ p.v.offset = Behind(w.chunks, j - 1) + 8 /\ p.v.bytes = w.chunks[j].size
             /\ p.v.frames = p.v.bytes \div w.chunks[i].align
    BY <1>5, <1>9, WavSound
  <2> HIDE DEF p
  <2> QED BY <1>2, <1>7, <2>1
<1> HIDE DEF p
<1>11. p.v.offset = 44 /\ p.v.bytes = n /\ p.v.frames = samples
  <2>1. 2 - 1 = 1 OBVIOUS
  <2> QED BY <1>0, <1>3, <1>4, <1>6, <1>10, <2>1
<1>12. p = Good([offset |-> 44, bytes |-> n, frames |-> samples]) BY <1>10, <1>11
<1> QED BY <1>0, <1>1, <1>2, <1>12 DEF n, p

\* What comes of a WAV, and of what a writer describes.
LEMMA WavsAre ==
    ASSUME NEW c, CaseFits(c)
    PROVE  /\ c.kind = "wav" =>
                /\ Result(c).ok =>
                     /\ Result(c).v.offset + Result(c).v.bytes <= c.size
                     /\ \E format \in Chunks(c, "fmt"), data \in Chunks(c, "data") :
                          /\ Result(c).v.offset = Behind(c.chunks, data - 1) + 8
                          /\ Result(c).v.bytes = c.chunks[data].size
                          /\ Result(c).v.frames * c.chunks[format].align = Result(c).v.bytes
                /\ \A format, data \in DOMAIN c.chunks : WellFormed(c, format, data) => Result(c).ok
           /\ c.kind = "output" /\ Result(c).ok =>
                /\ Result(c).v.riff <= Max32
                /\ ParseWav(Result(c).v) = Good([offset |-> 44, bytes |-> c.samples * c.width, frames |-> c.samples])
<1>1. CASE c.kind = "wav"
  <2>1. Result(c) = ParseWav(c) /\ c.kind # "output" BY <1>1, Zenon DEF Result
  <2>2. WavFile(c) BY <1>1 DEF CaseFits, WavFile, ChunkKinds
  <2>3. \A format, data \in DOMAIN c.chunks : WellFormed(c, format, data) => Result(c).ok
    BY <2>1, <2>2, WavComplete
  <2>4. ASSUME Result(c).ok
        PROVE  /\ Result(c).v.offset + Result(c).v.bytes <= c.size
               /\ \E format \in Chunks(c, "fmt"), data \in Chunks(c, "data") :
                    /\ Result(c).v.offset = Behind(c.chunks, data - 1) + 8
                    /\ Result(c).v.bytes = c.chunks[data].size
                    /\ Result(c).v.frames * c.chunks[format].align = Result(c).v.bytes
    <3> DEFINE r == ParseWav(c)
    <3>1. r.ok BY <2>1, <2>4
    <3>2. /\ r.v.offset + r.v.bytes <= c.size
          /\ \E format \in Chunks(c, "fmt"), data \in Chunks(c, "data") :
                /\ r.v.offset = Behind(c.chunks, data - 1) + 8
                /\ r.v.bytes = c.chunks[data].size
                /\ c.chunks[format].align \in Nat \ {0}
                /\ r.v.frames = r.v.bytes \div c.chunks[format].align
                /\ r.v.frames * c.chunks[format].align = r.v.bytes
      BY <2>2, <3>1, WavSound, ZenonT(60)
    <3> HIDE DEF r
    <3>3. r = Result(c) BY <2>1 DEF r
    <3> QED BY <3>2, <3>3
  <2> QED BY <1>1, <2>1, <2>3, <2>4
<1>2. CASE c.kind = "output" /\ Result(c).ok
  <2>1. Result(c) = WriteWav(c.samples, c.width) /\ c.kind # "wav" BY <1>2, Zenon DEF Result
  <2>2. c.samples \in Nat /\ c.width \in {2, 4} BY <1>2 DEF CaseFits
  <2> QED BY <1>2, <2>1, <2>2, WrittenIsRead, ZenonT(60)
<1> QED BY <1>1, <1>2
----------------------------------------
(* Tensors. *)

TensorKinds == [name : STRING, dtype : STRING, start : Nat, finish : Nat, shape : Seq(Nat)]
Strides == Nat \cup {-1}

\* A product that fits, or -1.
LEMMA ProductIs ==
    ASSUME NEW a \in Nat, NEW b \in Nat PROVE CheckedMul(a, b) \in {-1, a * b} /\ a * b \in Nat /\ CheckedMul(a, b) \in Strides
<1>1. a * b \in Nat OBVIOUS
<1>2. CheckedMul(a, b) \in {-1, a * b} BY DEF CheckedMul
<1> QED BY <1>1, <1>2 DEF Strides

\* A stride that fits, or -1.
LEMMA StrideIs ==
    ASSUME NEW v \in Strides, NEW d \in Nat
    PROVE  /\ NextStride(v, d) \in Strides
           /\ v = -1 => NextStride(v, d) = -1
           /\ v \in Nat => NextStride(v, d) \in {-1, v * d}
<1>1. CASE v = -1 \/ v > MaxSize \div 2 BY <1>1 DEF NextStride, Strides
<1>2. CASE ~(v = -1 \/ v > MaxSize \div 2)
  <2>1. v \in Nat BY <1>2 DEF Strides
  <2>2. NextStride(v, d) = CheckedMul(v, d) BY <1>2 DEF NextStride
  <2> QED BY <1>2, <2>1, <2>2, ProductIs
<1> QED BY <1>1, <1>2

BytesAfter(shape, m) ==
    Iterated(LAMBDA stride, k : NextStride(stride, shape[Len(shape) + 1 - k]), 4, m)

\* The strides of a shape, from the last dimension.
LEMMA StrideTurns ==
    ASSUME NEW shape \in Seq(Nat)
    PROVE  \E f \in [0..Len(shape) -> Strides] :
             /\ f[0] = 4 /\ \A k \in 0..(Len(shape) - 1) : f[k + 1] = NextStride(f[k], shape[Len(shape) + 1 - (k + 1)])
             /\ \A m \in 0..Len(shape) : BytesAfter(shape, m) = f[m]
<1> DEFINE n == Len(shape)
           V == Strides
           start == 4
           T(v, k) == NextStride(v, shape[Len(shape) + 1 - k])
           G == [p \in V \X (1..n) |-> T(p[1], p[2])]
           Eq(g, m) == g = [k \in 0..m |-> IF k = 0 THEN start ELSE T(g[k - 1], k)]
           F(m) == BytesAfter(shape, m)
<1>0. n \in Nat /\ start \in V BY LenProperties DEF Strides
<1>1. \A v \in V, k \in 1..n : T(v, k) \in V
  <2> TAKE v \in V, k \in 1..n
  <2>1. Len(shape) + 1 - k \in 1..Len(shape) BY <1>0
  <2>2. shape[Len(shape) + 1 - k] \in Nat BY <2>1, ElementOfSeq
  <2> HIDE DEF n
  <2> QED BY <2>2, StrideIs
<1> HIDE DEF n
<1>3. ASSUME NEW m, NEW c, c = CHOOSE g : Eq(g, m) PROVE F(m) = c[m] BY <1>3 DEF Iterated, BytesAfter
<1> HIDE DEF T, V, start, F
<1>5. PICK f : f \in [0..n -> V] /\ f[0] = start /\ \A k \in 0..(n - 1) : f[k + 1] = T(f[k], k + 1)
  <2>1. G \in [V \X (1..n) -> V] /\ \A v \in V, k \in 1..n : G[<<v, k>>] = T(v, k) BY <1>1
  <2> HIDE DEF G
  <2>2. PICK f : Runs(f, n, V, start, G) BY <1>0, <2>1, LoopOf
  <2>3. \A k \in 0..(n - 1) : k + 1 \in 1..n /\ f[k] \in V BY <1>0, <2>2 DEF Runs
  <2> QED BY <2>1, <2>2, <2>3 DEF Runs
<1> HIDE DEF G
<1>7. ASSUME NEW m \in 0..n PROVE F(m) = f[m]
  <2> DEFINE c == CHOOSE g : Eq(g, m)
             h == [k \in 0..m |-> f[k]]
  <2>1. TurnsUpTo(n, m) BY <1>0, TurnsUpToIs
  <2>2. Eq(h, m)
    <3>1. \A k \in 0..m : h[k] = IF k = 0 THEN start ELSE T(h[k - 1], k) BY <1>5, <2>1 DEF TurnsUpTo
    <3>2. h = [k \in 0..m |-> h[k]] OBVIOUS
    <3> HIDE DEF h
    <3> QED BY <3>1, <3>2
  <2>3. Eq(c, m) /\ F(m) = c[m] BY <1>3, <2>2
  <2> HIDE DEF c
  <2>4. c[0] = f[0] /\ \A k \in 0..(m - 1) : c[k] = f[k] => c[k + 1] = f[k + 1]
    BY <1>5, <2>1, <2>3 DEF TurnsUpTo
  <2>5. Agree(c, f, m) /\ m \in Nat /\ m \in 0..m BY <2>1, <2>4 DEF Agree, TurnsUpTo
  <2> QED BY <2>3, <2>5, SameTurns
<1> QED BY <1>5, <1>7 DEF n, V, start, T, F

SizeAfter(shape, m) == Iterated(LAMBDA n, k : n * shape[Len(shape) + 1 - k], 4, m)

\* The bytes of a tensor, from the last dimension.
LEMMA SizeTurns ==
    ASSUME NEW shape \in Seq(Nat)
    PROVE  \E f \in [0..Len(shape) -> Nat] :
             /\ f[0] = 4 /\ \A k \in 0..(Len(shape) - 1) : f[k + 1] = f[k] * shape[Len(shape) + 1 - (k + 1)]
             /\ \A m \in 0..Len(shape) : SizeAfter(shape, m) = f[m]
<1> DEFINE n == Len(shape)
           V == Nat
           start == 4
           T(v, k) == v * shape[Len(shape) + 1 - k]
           G == [p \in V \X (1..n) |-> T(p[1], p[2])]
           Eq(g, m) == g = [k \in 0..m |-> IF k = 0 THEN start ELSE T(g[k - 1], k)]
           F(m) == SizeAfter(shape, m)
<1>0. n \in Nat /\ start \in V BY LenProperties
<1>1. \A v \in V, k \in 1..n : T(v, k) \in V
  <2> TAKE v \in V, k \in 1..n
  <2>1. Len(shape) + 1 - k \in 1..Len(shape) BY <1>0
  <2>2. shape[Len(shape) + 1 - k] \in Nat BY <2>1, ElementOfSeq
  <2> HIDE DEF n
  <2> QED BY <2>2
<1> HIDE DEF n
<1>3. ASSUME NEW m, NEW c, c = CHOOSE g : Eq(g, m) PROVE F(m) = c[m] BY <1>3 DEF Iterated, SizeAfter
<1> HIDE DEF T, V, start, F
<1>5. PICK f : f \in [0..n -> V] /\ f[0] = start /\ \A k \in 0..(n - 1) : f[k + 1] = T(f[k], k + 1)
  <2>1. G \in [V \X (1..n) -> V] /\ \A v \in V, k \in 1..n : G[<<v, k>>] = T(v, k) BY <1>1
  <2> HIDE DEF G
  <2>2. PICK f : Runs(f, n, V, start, G) BY <1>0, <2>1, LoopOf
  <2>3. \A k \in 0..(n - 1) : k + 1 \in 1..n /\ f[k] \in V BY <1>0, <2>2 DEF Runs
  <2> QED BY <2>1, <2>2, <2>3 DEF Runs
<1> HIDE DEF G
<1>7. ASSUME NEW m \in 0..n PROVE F(m) = f[m]
  <2> DEFINE c == CHOOSE g : Eq(g, m)
             h == [k \in 0..m |-> f[k]]
  <2>1. TurnsUpTo(n, m) BY <1>0, TurnsUpToIs
  <2>2. Eq(h, m)
    <3>1. \A k \in 0..m : h[k] = IF k = 0 THEN start ELSE T(h[k - 1], k) BY <1>5, <2>1 DEF TurnsUpTo
    <3>2. h = [k \in 0..m |-> h[k]] OBVIOUS
    <3> HIDE DEF h
    <3> QED BY <3>1, <3>2
  <2>3. Eq(c, m) /\ F(m) = c[m] BY <1>3, <2>2
  <2> HIDE DEF c
  <2>4. c[0] = f[0] /\ \A k \in 0..(m - 1) : c[k] = f[k] => c[k + 1] = f[k + 1]
    BY <1>5, <2>1, <2>3 DEF TurnsUpTo
  <2>5. Agree(c, f, m) /\ m \in Nat /\ m \in 0..m BY <2>1, <2>4 DEF Agree, TurnsUpTo
  <2> QED BY <2>3, <2>5, SameTurns
<1> QED BY <1>5, <1>7 DEF n, V, start, T, F

\* A size that is computed is the product of the dimensions.
LEMMA BytesAre == ASSUME NEW shape \in Seq(Nat), Bytes(shape) # -1 PROVE Bytes(shape) = Size(shape)
<1> DEFINE n == Len(shape)
<1>0. n \in Nat BY LenProperties
<1>1. PICK f : /\ f \in [0..n -> Strides] /\ f[0] = 4
               /\ \A k \in 0..(n - 1) : f[k + 1] = NextStride(f[k], shape[Len(shape) + 1 - (k + 1)])
               /\ \A m \in 0..n : BytesAfter(shape, m) = f[m]
  BY StrideTurns
<1>2. PICK g : /\ g \in [0..n -> Nat] /\ g[0] = 4
               /\ \A k \in 0..(n - 1) : g[k + 1] = g[k] * shape[Len(shape) + 1 - (k + 1)]
               /\ \A m \in 0..n : SizeAfter(shape, m) = g[m]
  BY SizeTurns
<1> DEFINE S == {k \in 0..n : f[k] \in {-1, g[k]}}
<1>3. 0 \in S BY <1>0, <1>1, <1>2
<1>4. ASSUME NEW k \in 0..(n - 1), k \in S PROVE k + 1 \in S
  <2> DEFINE d == shape[Len(shape) + 1 - (k + 1)]
  <2>1. Len(shape) + 1 - (k + 1) \in 1..Len(shape) /\ k \in 0..n /\ k + 1 \in 0..n BY <1>0
  <2>2. d \in Nat /\ g[k] \in Nat BY <1>2, <2>1, ElementOfSeq
  <2>3. f[k + 1] = NextStride(f[k], d) /\ g[k + 1] = g[k] * d /\ f[k] \in {-1, g[k]} BY <1>1, <1>2, <1>4
  <2> HIDE DEF d, n
  <2>4. f[k + 1] \in {-1, g[k + 1]}
    <3>1. f[k] \in Strides BY <1>1, <2>1
    <3>2. CASE f[k] = -1 BY <2>2, <3>1, <3>2, StrideIs, <2>3
    <3>3. CASE f[k] # -1
      <4>1. f[k] = g[k] /\ f[k] \in Nat BY <2>2, <2>3, <3>3
      <4>2. NextStride(f[k], d) \in {-1, f[k] * d} BY <2>2, <3>1, <4>1, StrideIs
      <4> QED BY <2>3, <4>1, <4>2
    <3> QED BY <3>2, <3>3
  <2> QED BY <2>1, <2>4
<1> HIDE DEF n, S
<1>5. \A k \in 0..n : k \in S BY <1>0, <1>3, <1>4, UpTo
<1>6. n \in 0..n /\ f[n] \in {-1, g[n]} BY <1>0, <1>5 DEF S
<1> QED BY <1>1, <1>2, <1>6 DEF n, Bytes, Size, BytesAfter, SizeAfter

\* The first so many places in the order of the tensors there.
Picked(tensors, n, m, p) ==
    /\ p \in Injection(1..m, 1..n)
    /\ \A i, j \in 1..m : i < j => Earlier(tensors[p[i]], tensors[p[j]])
    /\ \A i \in 1..m, x \in 1..n : (\A j \in 1..m : p[j] # x) => Earlier(tensors[p[i]], tensors[x])

\* Of some tensors one is the earliest.
LEMMA EarliestOf ==
    ASSUME NEW tensors, NEW R, R # {}, \A x \in R : tensors[x].start \in Nat /\ tensors[x].finish \in Nat
    PROVE  \E x \in R : \A y \in R : Earlier(tensors[x], tensors[y])
<1> DEFINE starts == {tensors[x].start : x \in R}
<1>1. starts \in SUBSET Nat /\ starts # {} OBVIOUS
<1> HIDE DEF starts
<1>2. PICK a \in starts : \A b \in starts : a <= b BY <1>1, LeastOf
<1> DEFINE R2 == {x \in R : tensors[x].start = a}
           ends == {tensors[x].finish : x \in R2}
<1>3. ends \in SUBSET Nat /\ ends # {} BY <1>2 DEF starts
<1> HIDE DEF ends
<1>4. PICK e \in ends : \A b \in ends : e <= b BY <1>3, LeastOf
<1>5. PICK x \in R2 : tensors[x].finish = e BY <1>4 DEF ends
<1>6. ASSUME NEW y \in R PROVE Earlier(tensors[x], tensors[y])
  <2>1. tensors[y].start \in Nat /\ a <= tensors[y].start /\ a \in Nat BY <1>1, <1>2 DEF starts
  <2>2. tensors[x].start = a BY <1>5
  <2>3. CASE tensors[y].start = a
    <3>1. e <= tensors[y].finish BY <1>4, <2>3 DEF ends
    <3> QED BY <1>5, <2>2, <2>3, <3>1 DEF Earlier
  <2>4. CASE tensors[y].start # a BY <2>1, <2>2, <2>4 DEF Earlier
  <2> QED BY <2>3, <2>4
<1> QED BY <1>5, <1>6

\* One place more in the order of the tensors.
LEMMA PickMore ==
    ASSUME NEW tensors, NEW n \in Nat, \A x \in 1..n : tensors[x].start \in Nat /\ tensors[x].finish \in Nat,
           NEW m \in 0..(n - 1), NEW p, Picked(tensors, n, m, p)
    PROVE  \E q : Picked(tensors, n, m + 1, q)
<1> DEFINE R == {x \in 1..n : \A j \in 1..m : p[j] # x}
<1>0. m \in Nat /\ m < n /\ p \in Injection(1..m, 1..n) BY DEF Picked
<1>1. R # {}
  <2>1. IsFiniteSet(1..n) /\ Cardinality(1..n) = n /\ Cardinality(1..m) = m
    <3>1. ASSUME NEW k \in Nat PROVE IsFiniteSet(1..k) /\ Cardinality(1..k) = k
      <4>1. 1 \in Int /\ k \in Int OBVIOUS
      <4>2. IsFiniteSet(1..k) /\ Cardinality(1..k) = IF 1 > k THEN 0 ELSE k-1+1 BY <4>1, FS_Interval, Zenon
      <4> QED BY <4>2
    <3> QED BY <1>0, <3>1
  <2>2. p \notin Surjection(1..m, 1..n) BY <1>0, <2>1, FS_Injection
  <2>3. p \in [1..m -> 1..n] BY <1>0 DEF Injection
  <2> QED BY <2>2, <2>3 DEF Surjection
<1>2. PICK new \in R : \A y \in R : Earlier(tensors[new], tensors[y]) BY <1>1, EarliestOf
<1> DEFINE q == [i \in 1..(m + 1) |-> IF i = m + 1 THEN new ELSE p[i]]
<1>3. /\ p \in [1..m -> 1..n] /\ \A i, j \in 1..m : p[i] = p[j] => i = j
      /\ \A i, j \in 1..m : i < j => Earlier(tensors[p[i]], tensors[p[j]])
      /\ \A i \in 1..m, x \in R : Earlier(tensors[p[i]], tensors[x])
  BY <1>0 DEF Picked, Injection, IsInjective
<1>4. new \in 1..n /\ \A i \in 1..m : p[i] # new BY <1>2
<1>5. q[m + 1] = new /\ \A i \in 1..m : q[i] = p[i] BY <1>0
<1>6. \A i \in 1..(m + 1) : i \in 1..m \/ i = m + 1 BY <1>0
<1>7. q \in Injection(1..(m + 1), 1..n)
  <2>1. \A i \in 1..(m + 1) : q[i] \in 1..n
    <3> HIDE DEF q
    <3> QED BY <1>3, <1>4, <1>5, <1>6
  <2>2. q \in [1..(m + 1) -> 1..n] BY <2>1
  <2> HIDE DEF q
  <2>3. \A i, j \in 1..(m + 1) : q[i] = q[j] => i = j BY <1>3, <1>4, <1>5, <1>6
  <2> QED BY <2>2, <2>3 DEF Injection, IsInjective
<1> HIDE DEF q
<1>8. ASSUME NEW i \in 1..(m + 1), NEW j \in 1..(m + 1), i < j PROVE Earlier(tensors[q[i]], tensors[q[j]])
  <2>1. i \in 1..m BY <1>0, <1>8
  <2>2. CASE j \in 1..m BY <1>3, <1>5, <1>8, <2>1, <2>2
  <2>3. CASE j = m + 1 BY <1>2, <1>3, <1>5, <2>1, <2>3
  <2> QED BY <1>6, <2>2, <2>3
<1>9. ASSUME NEW i \in 1..(m + 1), NEW x \in 1..n, \A j \in 1..(m + 1) : q[j] # x PROVE Earlier(tensors[q[i]], tensors[x])
  <2>1. x \in R
    <3>1. \A j \in 1..m : j \in 1..(m + 1) BY <1>0
    <3> QED BY <1>5, <1>9, <3>1
  <2>2. CASE i \in 1..m BY <1>3, <1>5, <2>1, <2>2
  <2>3. CASE i = m + 1 BY <1>2, <1>5, <2>1, <2>3
  <2> QED BY <1>6, <2>2, <2>3
<1> QED BY <1>7, <1>8, <1>9 DEF Picked

\* The sorted tensors are the tensors, each of them once.
LEMMA SortedIs ==
    ASSUME NEW tensors \in Seq(TensorKinds)
    PROVE  \E p \in Bijection(1..Len(tensors), 1..Len(tensors)) :
             Sorted(tensors) = [i \in 1..Len(tensors) |-> tensors[p[i]]]
<1> DEFINE n == Len(tensors)
           S == {m \in 0..n : \E p : Picked(tensors, n, m, p)}
           Orders(p) == \A i, j \in 1..n : i < j => Earlier(tensors[p[i]], tensors[p[j]])
<1>0. n \in Nat /\ DOMAIN tensors = 1..n BY LenProperties
<1>1. \A x \in 1..n : tensors[x].start \in Nat /\ tensors[x].finish \in Nat
  <2>1. \A x \in 1..n : tensors[x] \in TensorKinds BY ElementOfSeq
  <2> QED BY <2>1 DEF TensorKinds
<1> HIDE DEF n
<1>2. 0 \in S
  <2> DEFINE none == [i \in 1..0 |-> i]
  <2>1. 1..0 = {} OBVIOUS
  <2>2. none \in Injection(1..0, 1..n) BY <2>1 DEF Injection, IsInjective
  <2>3. Picked(tensors, n, 0, none)
    <3> HIDE DEF none
    <3> QED BY <2>1, <2>2 DEF Picked
  <2> QED BY <1>0, <2>3
<1>3. ASSUME NEW m \in 0..(n - 1), m \in S PROVE m + 1 \in S
  <2>1. m + 1 \in 0..n BY <1>0
  <2>2. PICK p : Picked(tensors, n, m, p) BY <1>3
  <2>3. \E q : Picked(tensors, n, m + 1, q) BY <1>0, <1>1, <2>2, PickMore
  <2> QED BY <2>1, <2>3
<1> HIDE DEF S
<1>4. \A m \in 0..n : m \in S BY <1>0, <1>2, <1>3, UpTo
<1>5. n \in S BY <1>0, <1>4
<1>6. PICK p : Picked(tensors, n, n, p) BY <1>5 DEF S
<1>7. p \in Bijection(1..n, 1..n) /\ Orders(p)
  <2>1. p \in Injection(1..n, 1..n) /\ Orders(p) BY <1>6 DEF Picked
  <2>2. IsFiniteSet(1..n) BY <1>0, FS_Interval
  <2>3. p \in Surjection(1..n, 1..n) BY <2>1, <2>2, FS_Injection
  <2> QED BY <2>1, <2>3 DEF Bijection
<1> DEFINE order == CHOOSE q \in Bijection(1..n, 1..n) : Orders(q)
<1>8. order \in Bijection(1..n, 1..n) BY <1>7
<1>9. Sorted(tensors) = [i \in 1..n |-> tensors[order[i]]] BY <1>0 DEF Sorted
<1> HIDE DEF order
<1> QED BY <1>8, <1>9 DEF n

CoverEnds == Nat \cup {-1}

CoveredAfter(ranges, m) == Iterated(LAMBDA covered, k : Cover(covered, ranges[k]), 0, m)

\* How far the tensors cover the data.
LEMMA CoverTurns ==
    ASSUME NEW ranges \in Seq(TensorKinds)
    PROVE  \E f \in [0..Len(ranges) -> CoverEnds] :
             /\ f[0] = 0 /\ \A k \in 0..(Len(ranges) - 1) : f[k + 1] = Cover(f[k], ranges[(k + 1)])
             /\ \A m \in 0..Len(ranges) : CoveredAfter(ranges, m) = f[m]
<1> DEFINE n == Len(ranges)
           V == CoverEnds
           start == 0
           T(v, k) == Cover(v, ranges[k])
           G == [p \in V \X (1..n) |-> T(p[1], p[2])]
           Eq(g, m) == g = [k \in 0..m |-> IF k = 0 THEN start ELSE T(g[k - 1], k)]
           F(m) == CoveredAfter(ranges, m)
<1>0. n \in Nat /\ start \in V BY LenProperties DEF CoverEnds
<1>1. \A v \in V, k \in 1..n : T(v, k) \in V
  <2> TAKE v \in V, k \in 1..n
  <2>1. ranges[k] \in TensorKinds BY ElementOfSeq
  <2>2. ranges[k].finish \in Nat BY <2>1 DEF TensorKinds
  <2> QED BY <2>2 DEF Cover, CoverEnds
<1> HIDE DEF n
<1>3. ASSUME NEW m, NEW c, c = CHOOSE g : Eq(g, m) PROVE F(m) = c[m] BY <1>3 DEF Iterated, CoveredAfter
<1> HIDE DEF T, V, start, F
<1>5. PICK f : f \in [0..n -> V] /\ f[0] = start /\ \A k \in 0..(n - 1) : f[k + 1] = T(f[k], k + 1)
  <2>1. G \in [V \X (1..n) -> V] /\ \A v \in V, k \in 1..n : G[<<v, k>>] = T(v, k) BY <1>1
  <2> HIDE DEF G
  <2>2. PICK f : Runs(f, n, V, start, G) BY <1>0, <2>1, LoopOf
  <2>3. \A k \in 0..(n - 1) : k + 1 \in 1..n /\ f[k] \in V BY <1>0, <2>2 DEF Runs
  <2> QED BY <2>1, <2>2, <2>3 DEF Runs
<1> HIDE DEF G
<1>7. ASSUME NEW m \in 0..n PROVE F(m) = f[m]
  <2> DEFINE c == CHOOSE g : Eq(g, m)
             h == [k \in 0..m |-> f[k]]
  <2>1. TurnsUpTo(n, m) BY <1>0, TurnsUpToIs
  <2>2. Eq(h, m)
    <3>1. \A k \in 0..m : h[k] = IF k = 0 THEN start ELSE T(h[k - 1], k) BY <1>5, <2>1 DEF TurnsUpTo
    <3>2. h = [k \in 0..m |-> h[k]] OBVIOUS
    <3> HIDE DEF h
    <3> QED BY <3>1, <3>2
  <2>3. Eq(c, m) /\ F(m) = c[m] BY <1>3, <2>2
  <2> HIDE DEF c
  <2>4. c[0] = f[0] /\ \A k \in 0..(m - 1) : c[k] = f[k] => c[k + 1] = f[k + 1]
    BY <1>5, <2>1, <2>3 DEF TurnsUpTo
  <2>5. Agree(c, f, m) /\ m \in Nat /\ m \in 0..m BY <2>1, <2>4 DEF Agree, TurnsUpTo
  <2> QED BY <2>3, <2>5, SameTurns
<1> QED BY <1>5, <1>7 DEF n, V, start, T, F

\* Tensors that cover the data, one behind the other: every byte is in one of them.
LEMMA RangesPartition ==
    ASSUME NEW ranges \in Seq(TensorKinds), \A i \in 1..Len(ranges) : ranges[i].start <= ranges[i].finish,
           NEW section \in Nat, CoveredTo(ranges) = section, NEW b \in 0..(section - 1)
    PROVE  \E i \in 1..Len(ranges) :
             /\ ranges[i].start <= b /\ b < ranges[i].finish
             /\ \A j \in 1..Len(ranges) : ranges[j].start <= b /\ b < ranges[j].finish => j = i
<1> DEFINE n == Len(ranges)
<1>0. n \in Nat /\ b \in Nat /\ b < section BY LenProperties
<1>a. ASSUME NEW i \in 1..n PROVE ranges[i].start \in Nat /\ ranges[i].finish \in Nat /\ ranges[i].start <= ranges[i].finish
  <2>1. ranges[i] \in TensorKinds BY ElementOfSeq
  <2> QED BY <2>1 DEF TensorKinds
<1>1. PICK f : /\ f \in [0..n -> CoverEnds] /\ f[0] = 0
               /\ \A k \in 0..(n - 1) : f[k + 1] = Cover(f[k], ranges[k + 1])
               /\ \A m \in 0..n : CoveredAfter(ranges, m) = f[m]
  BY CoverTurns
<1>2. f[n] = section
  <2>1. CoveredAfter(ranges, n) = f[n] BY <1>0, <1>1
  <2>2. CoveredTo(ranges) = CoveredAfter(ranges, n) BY DEF CoveredTo, CoveredAfter
  <2> QED BY <2>1, <2>2
<1> HIDE DEF n
\* Nothing fails before the end.
<1>3. \A k \in 0..n : f[k] \in Nat
  <2> DEFINE D == {k \in 0..n : f[n - k] # -1}
  <2>1. 0 \in D BY <1>0, <1>2
  <2>2. ASSUME NEW k \in 0..(n - 1), k \in D PROVE k + 1 \in D
    <3>1. n - (k + 1) \in 0..(n - 1) /\ (n - (k + 1)) + 1 = n - k /\ k + 1 \in 0..n /\ k \in 0..n BY <1>0
    <3>2. f[n - k] = Cover(f[n - (k + 1)], ranges[(n - (k + 1)) + 1]) BY <1>1, <3>1
    <3>3. f[n - (k + 1)] # -1 BY <2>2, <3>2 DEF Cover
    <3> QED BY <3>1, <3>3
  <2> HIDE DEF D
  <2>3. \A k \in 0..n : k \in D BY <1>0, <2>1, <2>2, UpTo
  <2>4. ASSUME NEW k \in 0..n PROVE f[k] \in Nat
    <3>1. n - k \in 0..n /\ n - (n - k) = k BY <1>0
    <3>2. f[k] # -1 BY <2>3, <3>1 DEF D
    <3>3. f[k] \in CoverEnds BY <1>1
    <3> QED BY <3>2, <3>3 DEF CoverEnds
  <2> QED BY <2>4
<1>4. ASSUME NEW k \in 0..(n - 1)
      PROVE  f[k] \in Nat /\ f[k + 1] \in Nat /\ ranges[k + 1].start = f[k] /\ ranges[k + 1].finish = f[k + 1] /\ f[k] <= f[k + 1]
  <2>1. k \in 0..n /\ k + 1 \in 0..n /\ k + 1 \in 1..n BY <1>0
  <2>2. f[k] \in Nat /\ f[k + 1] \in Nat /\ f[k + 1] = Cover(f[k], ranges[k + 1]) BY <1>1, <1>3, <2>1
  <2>3. ranges[k + 1].start = f[k] /\ ranges[k + 1].finish = f[k + 1] BY <2>2 DEF Cover, Follows
  <2> QED BY <1>a, <2>1, <2>2, <2>3
\* The ends only grow.
<1>5. ASSUME NEW i \in 0..n, NEW j \in 0..n, i <= j PROVE f[i] <= f[j]
  <2> DEFINE G == {k \in 0..n : k < i \/ f[i] <= f[k]}
  <2>1. 0 \in G BY <1>0, <1>3
  <2>2. ASSUME NEW k \in 0..(n - 1), k \in G PROVE k + 1 \in G
    <3>1. k \in 0..n /\ k + 1 \in 0..n /\ f[k] \in Nat /\ f[k + 1] \in Nat /\ f[i] \in Nat /\ f[k] <= f[k + 1]
      BY <1>0, <1>3, <1>4
    <3>2. CASE k + 1 < i BY <3>1, <3>2
    <3>3. CASE k + 1 = i BY <3>1, <3>3
    <3>4. CASE k >= i BY <2>2, <3>1, <3>4
    <3> QED BY <1>0, <3>2, <3>3, <3>4
  <2> HIDE DEF G
  <2>a. n \in Nat /\ \A k \in 0..(n - 1) : k \in G => k + 1 \in G BY <1>0, <2>2
  <2>3. \A k \in 0..n : k \in G BY <2>1, <2>a, UpTo, Zenon
  <2> QED BY <1>5, <2>3 DEF G
<1>6. \E i \in 1..n : ranges[i].start <= b /\ b < ranges[i].finish
  <2> DEFINE H == {k \in 0..n : b < f[k] => \E i \in 1..n : ranges[i].start <= b /\ b < ranges[i].finish}
  <2>1. 0 \in H BY <1>0, <1>1
  <2>2. ASSUME NEW k \in 0..(n - 1), k \in H PROVE k + 1 \in H
    <3>1. k \in 0..n /\ k + 1 \in 0..n /\ k + 1 \in 1..n BY <1>0
    <3>2. CASE b < f[k] BY <2>2, <3>1, <3>2
    <3>3. CASE ~(b < f[k])
      <4>1. ranges[k + 1].start = f[k] /\ ranges[k + 1].finish = f[k + 1] /\ f[k] \in Nat /\ f[k + 1] \in Nat
        BY <1>4
      <4> QED BY <1>0, <3>1, <3>3, <4>1
    <3> QED BY <3>2, <3>3
  <2> HIDE DEF H
  <2>a. n \in Nat /\ \A k \in 0..(n - 1) : k \in H => k + 1 \in H BY <1>0, <2>2
  <2>b. \A k \in 0..n : k \in H BY <2>1, <2>a, UpTo, Zenon
  <2>3. n \in H BY <1>0, <2>b
  <2> QED BY <1>0, <1>2, <2>3 DEF H
<1>7. ASSUME NEW i \in 1..n, NEW j \in 1..n, ranges[i].start <= b, b < ranges[i].finish, ranges[j].start <= b, b < ranges[j].finish
      PROVE  ~(i < j)
  <2> SUFFICES ASSUME i < j PROVE FALSE OBVIOUS
  <2>1. i - 1 \in 0..(n - 1) /\ j - 1 \in 0..(n - 1) /\ i \in 0..n /\ j - 1 \in 0..n /\ i <= j - 1 /\ (i - 1) + 1 = i /\ (j - 1) + 1 = j
    BY <1>0
  <2>2. ranges[i].finish = f[i] /\ f[i] \in Nat BY <1>4, <2>1
  <2>3. ranges[j].start = f[j - 1] /\ f[j - 1] \in Nat BY <1>4, <2>1
  <2>4. f[i] <= f[j - 1] BY <1>5, <2>1
  <2> QED BY <1>0, <1>7, <2>2, <2>3, <2>4
<1>8. PICK i \in 1..n : ranges[i].start <= b /\ b < ranges[i].finish BY <1>6
<1>9. ASSUME NEW j \in 1..n, ranges[j].start <= b, b < ranges[j].finish PROVE j = i BY <1>7, <1>8, <1>9, <1>0
<1> QED BY <1>8, <1>9 DEF n

\* A header that is accepted partitions the data (parse_header).
LEMMA TensorsAre ==
    ASSUME NEW tensors \in Seq(TensorKinds), NEW section \in Nat, ParseHeader(tensors, section).ok
    PROVE  /\ \A b \in 0..(section - 1) :
                Cardinality({i \in DOMAIN tensors : tensors[i].start <= b /\ b < tensors[i].finish}) = 1
           /\ \A i \in DOMAIN tensors : tensors[i].finish - tensors[i].start = Size(tensors[i].shape)
<1> DEFINE n == Len(tensors)
           ranges == Sorted(tensors)
<1>0. n \in Nat /\ DOMAIN tensors = 1..n /\ \A i \in 1..n : tensors[i] \in TensorKinds
  BY LenProperties, ElementOfSeq
<1>1. (\A i \in DOMAIN tensors : ParseTensor(tensors[i], section)) /\ CoveredTo(ranges) = section
  BY DEF ParseHeader, Bad
<1>2. PICK p \in Bijection(1..n, 1..n) : ranges = [i \in 1..n |-> tensors[p[i]]] BY SortedIs
<1> HIDE DEF n, ranges
<1>3. /\ p \in [1..n -> 1..n] /\ \A i, j \in 1..n : p[i] = p[j] => i = j
      /\ \A x \in 1..n : \E i \in 1..n : p[i] = x
  BY <1>2 DEF Bijection, Injection, Surjection, IsInjective
<1>4. ranges \in [1..n -> TensorKinds] /\ \A i \in 1..n : ranges[i] = tensors[p[i]] BY <1>0, <1>2, <1>3
<1>5. ranges \in Seq(TensorKinds) /\ Len(ranges) = n BY <1>0, <1>4, SeqIs
<1>6. \A i \in 1..n : ranges[i].start <= ranges[i].finish
  BY <1>0, <1>1, <1>3, <1>4, ZenonT(60) DEF ParseTensor
<1>7. ASSUME NEW b \in 0..(section - 1)
      PROVE  Cardinality({i \in DOMAIN tensors : tensors[i].start <= b /\ b < tensors[i].finish}) = 1
  <2>0. \A i \in 1..Len(ranges) : ranges[i].start <= ranges[i].finish BY <1>5, <1>6
  <2>a. \E i \in 1..Len(ranges) :
          /\ ranges[i].start <= b /\ b < ranges[i].finish
          /\ \A j \in 1..Len(ranges) : ranges[j].start <= b /\ b < ranges[j].finish => j = i
    BY <1>1, <1>5, <2>0, RangesPartition
  <2>1. PICK i \in 1..n : /\ ranges[i].start <= b /\ b < ranges[i].finish
                          /\ \A j \in 1..n : ranges[j].start <= b /\ b < ranges[j].finish => j = i
    BY <1>5, <2>a
  <2>2. \A x \in 1..n : tensors[x].start <= b /\ b < tensors[x].finish <=> x = p[i]
    <3> TAKE x \in 1..n
    <3>1. PICK j \in 1..n : p[j] = x BY <1>3
    <3>2. ranges[j] = tensors[x] BY <1>4, <3>1
    <3> QED BY <1>3, <2>1, <3>1, <3>2
  <2>3. {x \in DOMAIN tensors : tensors[x].start <= b /\ b < tensors[x].finish} = {p[i]}
    <3>1. p[i] \in 1..n BY <1>3
    <3>2. \A y : y \in {x \in DOMAIN tensors : tensors[x].start <= b /\ b < tensors[x].finish} <=> y = p[i]
      BY <1>0, <2>2, <3>1
    <3> QED BY <3>2
  <2> QED BY <2>3, FS_Singleton
<1>8. ASSUME NEW i \in DOMAIN tensors PROVE tensors[i].finish - tensors[i].start = Size(tensors[i].shape)
  <2>1. tensors[i].shape \in Seq(Nat)
    <3>1. tensors[i] \in TensorKinds BY <1>0
    <3> QED BY <3>1 DEF TensorKinds
  <2>2. Bytes(tensors[i].shape) # -1 /\ tensors[i].finish - tensors[i].start = Bytes(tensors[i].shape)
    BY <1>1 DEF ParseTensor
  <2> QED BY <2>1, <2>2, BytesAre
<1> QED BY <1>7, <1>8
----------------------------------------
(* Parameters. *)

\* Where skip_space ends outside comments.
LEMMA SpaceIs ==
    ASSUME NEW s, NEW i, NEW comments, SkippedAfter(s, i, comments, Len(s) + 1).depth = 0
    PROVE  SkipSpace(s, i, comments) = SkippedAfter(s, i, comments, Len(s) + 1).at
<1>1. SkipSpace(s, i, comments) =
        IF SkippedAfter(s, i, comments, Len(s) + 1).depth = 0 THEN SkippedAfter(s, i, comments, Len(s) + 1).at ELSE 0
  BY DEF SkipSpace, SkippedAfter
<1> QED BY <1>1

\* Nothing to skip.
LEMMA SkipStops ==
    ASSUME NEW s \in Seq(Text), NEW i \in Nat, NEW comments \in BOOLEAN,
           ByteAt(s, i) # "space", comments => ByteAt(s, i) # "("
    PROVE  SkipSpace(s, i, comments) = i
<1> DEFINE n == Len(s) + 1
           here == [at |-> i, depth |-> 0]
<1>0. n \in Nat /\ n \in 0..n BY LenProperties
<1>1. PICK f : /\ f \in [0..n -> Spots] /\ f[0] = here
               /\ \A k \in 0..(n - 1) : f[k + 1] = Skip(s, f[k], comments)
               /\ \A m \in 0..n : SkippedAfter(s, i, comments, m) = f[m]
  BY SkipTurns
<1>2. Skip(s, here, comments) = here BY DEF Skip
<1> DEFINE S == {k \in 0..n : f[k] = here}
<1> HIDE DEF n, here
<1>3. 0 \in S BY <1>0, <1>1
<1>4. ASSUME NEW k \in 0..(n - 1), k \in S PROVE k + 1 \in S BY <1>0, <1>1, <1>2, <1>4
<1> HIDE DEF S
<1>5. \A k \in 0..n : k \in S BY <1>0, <1>3, <1>4, UpTo
<1>6. SkippedAfter(s, i, comments, n) = here BY <1>0, <1>1, <1>5 DEF S
<1>7. SkippedAfter(s, i, comments, n).depth = 0 /\ SkippedAfter(s, i, comments, n).at = i BY <1>6 DEF here
<1> QED BY <1>7, SpaceIs DEF n

\* The depth and the hiding behind one byte of a note.
LEMMA NestFields ==
    ASSUME NEW v \in Nestings, NEW byte
    PROVE  /\ v.depth \in Nat
           /\ v.hidden => Nest(v, byte).depth = v.depth /\ ~Nest(v, byte).hidden
           /\ ~v.hidden /\ byte = "(" => Nest(v, byte).depth = v.depth + 1 /\ ~Nest(v, byte).hidden
           /\ ~v.hidden /\ byte # "(" => Nest(v, byte).depth = (IF v.depth # 0 /\ byte = ")" THEN v.depth - 1 ELSE v.depth)
           /\ ~v.hidden /\ byte = "\\" /\ v.depth # 0 => Nest(v, byte).hidden
           /\ ~v.hidden /\ ~(byte = "\\" /\ v.depth # 0) => ~Nest(v, byte).hidden
<1>0. v \in [depth : Nat, hidden : BOOLEAN] /\ v.depth \in Nat BY DEF Nestings
<1> DEFINE w == Nest(v, byte)
           d == IF byte = "(" THEN v.depth + 1 ELSE IF v.depth # 0 /\ byte = ")" THEN v.depth - 1 ELSE v.depth
           h == v.depth # 0 /\ byte = "\\"
<1>1. v.hidden => w = [depth |-> v.depth, hidden |-> FALSE] BY <1>0, NestIs
<1>2. ~v.hidden => w = [depth |-> d, hidden |-> h] BY <1>0, NestIs
<1>3. v.hidden => w.depth = v.depth /\ ~w.hidden BY <1>1
<1> HIDE DEF w, d, h
<1>5. ~v.hidden => w.depth = d /\ w.hidden = h BY <1>2
<1>6. ~v.hidden => (w.hidden <=> h) BY <1>5
<1> QED BY <1>0, <1>3, <1>5, <1>6 DEF w, d, h

\* A comment is opened, or there is nothing to skip.
LEMMA SkipOpens ==
    ASSUME NEW s, NEW now \in Spots, NEW comments \in BOOLEAN, now.depth = 0
    PROVE  /\ ByteAt(s, now.at) = "(" /\ comments => Skip(s, now, comments).at = now.at + 1 /\ Skip(s, now, comments).depth = 1
           /\ ByteAt(s, now.at) \notin {"space", "("} => Skip(s, now, comments) = now
  BY DEF Skip, Spots

\* A byte inside a comment is passed.
LEMMA SkipInside ==
    ASSUME NEW s, NEW now \in Spots, NEW comments \in BOOLEAN, now.depth # 0
    PROVE  /\ ByteAt(s, now.at) = "\\" =>
                Skip(s, now, comments).at = now.at + 2 /\ Skip(s, now, comments).depth = now.depth
           /\ ByteAt(s, now.at) = "(" =>
                Skip(s, now, comments).at = now.at + 1 /\ Skip(s, now, comments).depth = now.depth + 1
           /\ ByteAt(s, now.at) = ")" =>
                Skip(s, now, comments).at = now.at + 1 /\ Skip(s, now, comments).depth = now.depth - 1
           /\ ByteAt(s, now.at) \notin {"\\", "end", "(", ")"} =>
                Skip(s, now, comments).at = now.at + 1 /\ Skip(s, now, comments).depth = now.depth
<1>1. now.at \in Nat /\ now.depth \in Nat /\ now = [at |-> now.at, depth |-> now.depth] BY DEF Spots
<1> DEFINE new == Skip(s, now, comments)
           byte == ByteAt(s, now.at)
<1>2. CASE byte = "\\"
  <2>1. new = [now EXCEPT !.at = @ + 2] BY <1>2 DEF Skip
  <2> QED BY <1>1, <1>2, <2>1
<1>3. CASE byte = "("
  <2>1. new = [at |-> now.at + 1, depth |-> now.depth + 1] BY <1>3 DEF Skip
  <2> QED BY <1>1, <1>3, <2>1
<1>4. CASE byte = ")"
  <2>1. new = [at |-> now.at + 1, depth |-> now.depth - 1] BY <1>4 DEF Skip
  <2> QED BY <1>1, <1>4, <2>1
<1>5. CASE byte \notin {"\\", "end", "(", ")"}
  <2>1. new = [at |-> now.at + 1, depth |-> now.depth] BY <1>5 DEF Skip
  <2> QED BY <1>1, <1>5, <2>1
<1> QED BY <1>2, <1>3, <1>4, <1>5

\* The loop of skip_space, as a function of its turns.
LEMMA SkipsFrom ==
    ASSUME NEW s \in Seq(Text), NEW a \in Nat, NEW comments \in BOOLEAN
    PROVE  \E f : /\ f \in [0..(Len(s) + 1) -> Spots] /\ f[0] = [at |-> a + 1, depth |-> 0]
                  /\ \A k \in 0..((Len(s) + 1) - 1) : f[k + 1] = Skip(s, f[k], comments)
                  /\ \A m \in 0..(Len(s) + 1) : SkippedAfter(s, a + 1, comments, m) = f[m]
<1>1. PICK b \in Nat : b = a + 1 OBVIOUS
<1>2. PICK f \in [0..(Len(s) + 1) -> Spots] :
             /\ f[0] = [at |-> b, depth |-> 0] /\ \A k \in 0..((Len(s) + 1) - 1) : f[k + 1] = Skip(s, f[k], comments)
             /\ \A m \in 0..(Len(s) + 1) : SkippedAfter(s, b, comments, m) = f[m]
  BY SkipTurns
<1>3. f[0] = [at |-> a + 1, depth |-> 0] /\ \A m \in 0..(Len(s) + 1) : SkippedAfter(s, a + 1, comments, m) = f[m]
  BY <1>1, <1>2
<1> QED BY <1>2, <1>3

Counts(comments) == comments = TRUE
\* What lies in comments is skipped.
LEMMA SkipNote ==
    ASSUME NEW s \in Seq(Text), NEW note \in Seq(Text), AreComments(note), NEW a \in Nat, a + Len(note) < Len(s),
           \A j \in 1..Len(note) : s[a + j] = note[j], s[a + Len(note) + 1] = "quote", NEW comments, Counts(comments)
    PROVE  SkipSpace(s, a + 1, comments) = a + Len(note) + 1
<1> DEFINE n == Len(s) + 1
           L == Len(note)
<1>0. n \in Nat /\ n \in 0..n /\ L \in Nat /\ L < n /\ a + 1 \in Nat /\ DOMAIN s = 1..Len(s) /\ DOMAIN note = 1..L /\ Len(s) \in Nat /\ a + L < Len(s)
  BY LenProperties
<1>c. comments \in BOOLEAN /\ comments BY DEF Counts
<1>1. PICK f : /\ f \in [0..n -> Spots] /\ f[0] = [at |-> a + 1, depth |-> 0]
               /\ \A k \in 0..(n - 1) : f[k + 1] = Skip(s, f[k], comments)
               /\ \A m \in 0..n : SkippedAfter(s, a + 1, comments, m) = f[m]
  BY <1>c, SkipsFrom
<1>2. PICK g : /\ g \in [0..L -> Nestings] /\ g[0] = [depth |-> 0, hidden |-> FALSE]
               /\ \A k \in 0..(L - 1) : g[k + 1] = Nest(g[k], note[k + 1])
               /\ \A m \in 0..L : Nesting(note, m) = g[m]
  BY NestingTurns
<1>3. \A k \in 1..L : note[k] \in Text BY ElementOfSeq
<1> HIDE DEF n, L
<1> DEFINE At(k, j) == j \in 0..L /\ f[k].at = a + 1 + j /\ f[k].depth = g[j].depth /\ ~g[j].hidden /\ (j >= k \/ j = L)
           S == {k \in 0..n : \E j \in 0..L : At(k, j)}
<1> HIDE DEF n, L
<1>4. g[L].depth = 0 /\ ~g[L].hidden
  <2>1. g[L] = [depth |-> 0, hidden |-> FALSE] BY <1>0, <1>2 DEF AreComments, L
  <2> QED BY <2>1
<1>5. ASSUME NEW k \in 0..(L - 1), g[k].depth = 0 PROVE note[k + 1] = "("
  <2>1. k + 1 \in DOMAIN note /\ (k + 1) - 1 = k /\ k \in 0..L BY <1>0
  <2>2. Nesting(note, (k + 1) - 1).depth = 0 BY <1>2, <1>5, <2>1
  <2> QED BY <2>1, <2>2 DEF AreComments
<1>6. 0 \in S
  <2>1. g[0].depth = 0 /\ ~g[0].hidden /\ f[0].at = a + 1 /\ f[0].depth = 0 BY <1>1, <1>2
  <2>2. 0 \in 0..L /\ 0 \in 0..n /\ a + 1 + 0 = a + 1 /\ 0 >= 0 BY <1>0
  <2>3. At(0, 0) BY <2>1, <2>2
  <2> QED BY <2>2, <2>3
<1>7. ASSUME NEW k \in 0..(n - 1), k \in S PROVE k + 1 \in S
  <2>1. PICK j \in 0..L : At(k, j) BY <1>7
  <2>a. f[k].at = a + 1 + j /\ f[k].depth = g[j].depth /\ ~g[j].hidden /\ (j >= k \/ j = L) BY <2>1
  <2>b. k + 1 \in 0..n /\ k \in 0..n /\ k \in Nat /\ j \in Nat BY <1>0
  <2>2. f[k + 1] = Skip(s, f[k], comments) /\ g[j] \in Nestings /\ f[k] \in Spots BY <1>1, <1>2, <2>b
  <2> DEFINE at == a + 1 + j
             depth == g[j].depth
             byte == ByteAt(s, at)
  <2>3. at \in Nat /\ depth \in Nat /\ f[k].at = at /\ f[k].depth = depth /\ g[j].depth = depth
    <3>1. f[k].at \in Nat /\ g[j].depth \in Nat BY <2>2 DEF Spots, Nestings
    <3> QED BY <2>a, <3>1
  <2> HIDE DEF at, depth
  <2>4. CASE j = L
    <3>1. depth = 0 /\ byte = "quote"
      <4>1. depth = 0 BY <1>4, <2>4 DEF depth
      <4>2. at \in DOMAIN s /\ at = a + L + 1 BY <1>0, <2>4 DEF at
      <4> QED BY <4>1, <4>2 DEF ByteAt, L
    <3>2. f[k + 1] = f[k]
      <4>1. f[k].depth = 0 /\ ByteAt(s, f[k].at) = "quote" BY <2>3, <3>1
      <4> QED BY <2>2, <4>1, <1>c, SkipOpens
    <3>3. At(k + 1, j) BY <2>a, <2>4, <3>2
    <3> QED BY <2>b, <3>3
  <2>5. CASE j # L
    <3>1. j \in 0..(L - 1) /\ j + 1 \in 1..L /\ j + 1 \in 0..L /\ at \in DOMAIN s /\ at = a + (j + 1) /\ j >= k
      <4>1. j \in 0..(L - 1) /\ j + 1 \in 1..L /\ j + 1 \in 0..L BY <1>0, <2>b, <2>5
      <4>2. at = a + (j + 1) /\ at \in DOMAIN s BY <1>0, <2>b, <4>1 DEF at
      <4> QED BY <2>a, <2>5, <4>1, <4>2
    <3>2. byte = note[j + 1] /\ byte \in Text /\ byte # "end" /\ g[j + 1] = Nest(g[j], byte)
      <4>1. byte = note[j + 1] /\ byte \in Text BY <1>3, <3>1 DEF ByteAt, L
      <4> QED BY <1>2, <3>1, <4>1 DEF Text
    <3>a. byte = ByteAt(s, f[k].at) BY <2>3
    <3> HIDE DEF byte
    <3>c. /\ byte = "(" => Nest(g[j], byte).depth = g[j].depth + 1 /\ ~Nest(g[j], byte).hidden
          /\ byte # "(" => Nest(g[j], byte).depth = (IF g[j].depth # 0 /\ byte = ")" THEN g[j].depth - 1 ELSE g[j].depth)
          /\ byte = "\\" /\ g[j].depth # 0 => Nest(g[j], byte).hidden
          /\ ~(byte = "\\" /\ g[j].depth # 0) => ~Nest(g[j], byte).hidden
      BY <2>a, <2>2, NestFields
    <3>3. /\ byte = "(" => g[j + 1].depth = depth + 1 /\ ~g[j + 1].hidden
          /\ byte # "(" => g[j + 1].depth = (IF depth # 0 /\ byte = ")" THEN depth - 1 ELSE depth)
          /\ byte = "\\" /\ depth # 0 => g[j + 1].hidden
          /\ ~(byte = "\\" /\ depth # 0) => ~g[j + 1].hidden
      BY <2>3, <3>2, <3>c
    <3> DEFINE q == j + 1
    <3>b. q \in 0..L /\ at + 1 = a + 1 + q /\ q >= k + 1 BY <2>b, <3>1 DEF at
    <3> HIDE DEF q
    <3>4. CASE depth = 0
      <4>1. byte = "(" BY <1>5, <3>1, <3>2, <3>4 DEF depth
      <4>2. f[k + 1].at = at + 1 /\ f[k + 1].depth = 1
        <5>1. f[k].depth = 0 /\ ByteAt(s, f[k].at) = "(" BY <2>3, <3>4, <3>a, <4>1
        <5>2. Skip(s, f[k], comments).at = f[k].at + 1 /\ Skip(s, f[k], comments).depth = 1
          BY <2>2, <5>1, <1>c, SkipOpens
        <5> QED BY <2>2, <2>3, <5>2
      <4>3. g[q].depth = 1 /\ ~g[q].hidden BY <3>3, <3>4, <4>1 DEF q
      <4>4. At(k + 1, q) BY <3>b, <4>2, <4>3
      <4> QED BY <2>b, <3>b, <4>4
    <3>5. CASE depth # 0 /\ byte = "\\"
      <4>1. f[k + 1].at = at + 2 /\ f[k + 1].depth = depth
        <5>1. f[k].depth # 0 /\ ByteAt(s, f[k].at) = "\\" BY <2>3, <3>5, <3>a
        <5>2. Skip(s, f[k], comments).at = f[k].at + 2 /\ Skip(s, f[k], comments).depth = f[k].depth
          BY <2>2, <5>1, <1>c, SkipInside
        <5> QED BY <2>2, <2>3, <5>2
      <4>2. g[q].depth = depth /\ g[q].hidden BY <3>3, <3>5 DEF q
      <4>3. q # L BY <1>4, <4>2
      <4>4. q \in 0..(L - 1) /\ q + 1 \in 0..L /\ at + 2 = a + 1 + (q + 1) /\ q + 1 >= k + 1
        BY <1>0, <2>b, <3>1, <3>b, <4>3 DEF q, at
      <4>5. g[q + 1].depth = depth /\ ~g[q + 1].hidden
        <5>1. g[q + 1] = Nest(g[q], note[q + 1]) /\ g[q] \in Nestings BY <1>2, <3>b, <4>4
        <5> QED BY <4>2, <5>1, NestFields
      <4> DEFINE z == q + 1
      <4>6. z \in 0..L /\ at + 2 = a + 1 + z /\ z >= k + 1 /\ g[z].depth = depth /\ ~g[z].hidden BY <4>4, <4>5
      <4> HIDE DEF z
      <4>7. At(k + 1, z) BY <4>1, <4>6
      <4> QED BY <2>b, <4>6, <4>7
    <3>6. CASE depth # 0 /\ byte # "\\"
      <4>1. f[k + 1].at = at + 1 /\ f[k + 1].depth = (IF byte = "(" THEN depth + 1 ELSE IF byte = ")" THEN depth - 1 ELSE depth)
        <5>1. f[k].depth # 0 /\ ByteAt(s, f[k].at) \notin {"\\", "end"} BY <2>3, <3>2, <3>6, <3>a
        <5>2. CASE byte = "("
          <6>0. ByteAt(s, f[k].at) = "(" BY <3>a, <5>2
          <6>1. Skip(s, f[k], comments).at = f[k].at + 1 /\ Skip(s, f[k], comments).depth = f[k].depth + 1
            BY <2>2, <5>1, <6>0, <1>c, SkipInside, ZenonT(60)
          <6> QED BY <2>2, <2>3, <5>2, <6>1
        <5>3. CASE byte = ")"
          <6>0. ByteAt(s, f[k].at) = ")" BY <3>a, <5>3
          <6>1. Skip(s, f[k], comments).at = f[k].at + 1 /\ Skip(s, f[k], comments).depth = f[k].depth - 1
            BY <2>2, <5>1, <6>0, <1>c, SkipInside, ZenonT(60)
          <6> QED BY <2>2, <2>3, <5>3, <6>1
        <5>4. CASE byte \notin {"(", ")"}
          <6>1. Skip(s, f[k], comments).at = f[k].at + 1 /\ Skip(s, f[k], comments).depth = f[k].depth
            BY <2>2, <3>a, <5>1, <5>4, <1>c, SkipInside, ZenonT(60)
          <6> QED BY <2>2, <2>3, <5>4, <6>1
        <5> QED BY <5>2, <5>3, <5>4
      <4>2. g[q].depth = (IF byte = "(" THEN depth + 1 ELSE IF byte = ")" THEN depth - 1 ELSE depth) /\ ~g[q].hidden
        BY <3>3, <3>6 DEF q
      <4>3. At(k + 1, q) BY <3>b, <4>1, <4>2
      <4> QED BY <2>b, <3>b, <4>3
    <3> QED BY <3>4, <3>5, <3>6
  <2> QED BY <2>4, <2>5
<1> HIDE DEF S
<1>8. \A k \in 0..n : k \in S BY <1>0, <1>6, <1>7, UpTo
<1>9. PICK j \in 0..L : At(n, j) BY <1>0, <1>8 DEF S
<1>10. f[n].at = a + 1 + L /\ f[n].depth = 0
  <2>1. j = L BY <1>0, <1>9
  <2> QED BY <1>4, <1>9, <2>1
<1>11. SkippedAfter(s, a + 1, comments, n).at = a + 1 + L /\ SkippedAfter(s, a + 1, comments, n).depth = 0
  BY <1>0, <1>1, <1>10
<1>12. SkipSpace(s, a + 1, comments) = a + 1 + L BY <1>11, SpaceIs DEF n
<1>13. a + 1 + L = a + L + 1 BY <1>0
<1> QED BY <1>12, <1>13 DEF L

\* A longer part of a text adds one byte.
LEMMA OneMore ==
    ASSUME NEW V, NEW text \in Seq(V), NEW k \in 0..(Len(text) - 1)
    PROVE  Append(SubSeq(text, 1, k), text[k + 1]) = SubSeq(text, 1, k + 1)
<1>0. Len(text) \in Nat /\ k \in Nat /\ k + 1 \in 1..Len(text) /\ 1 \in Int /\ k + 1 \in Int /\ k \in Int
  BY LenProperties
<1>1. \A i \in 1..Len(text) : text[i] \in V BY ElementOfSeq
<1>2. (\A i \in 1..k : text[i] \in V) /\ (\A i \in 1..(k + 1) : text[i] \in V) BY <1>0, <1>1
<1> DEFINE a == SubSeq(text, 1, k)
           b == SubSeq(text, 1, k + 1)
           c == Append(a, text[k + 1])
<1>3. a \in Seq(V) /\ Len(a) = k /\ \A i \in 1..k : a[i] = text[i]
  <2>1. a \in Seq(V) /\ Len(a) = (IF 1 <= k THEN k - 1 + 1 ELSE 0) /\ \A i \in 1..(k - 1 + 1) : a[i] = text[1 + i - 1]
    BY <1>0, <1>2, SubSeqProperties
  <2> HIDE DEF a
  <2>2. k - 1 + 1 = k /\ \A i \in 1..k : 1 + i - 1 = i BY <1>0
  <2> QED BY <1>0, <2>1, <2>2
<1>4. b \in Seq(V) /\ Len(b) = k + 1 /\ \A i \in 1..(k + 1) : b[i] = text[i]
  <2>1. b \in Seq(V) /\ Len(b) = (IF 1 <= k + 1 THEN (k + 1) - 1 + 1 ELSE 0) /\ \A i \in 1..((k + 1) - 1 + 1) : b[i] = text[1 + i - 1]
    BY <1>0, <1>2, SubSeqProperties
  <2> HIDE DEF b
  <2>2. (k + 1) - 1 + 1 = k + 1 /\ \A i \in 1..(k + 1) : 1 + i - 1 = i BY <1>0
  <2> QED BY <1>0, <2>1, <2>2
<1> HIDE DEF a, b
<1>5. c \in Seq(V) /\ Len(c) = k + 1 /\ (\A i \in 1..k : c[i] = a[i]) /\ c[k + 1] = text[k + 1]
  BY <1>0, <1>1, <1>3, AppendProperties
<1> HIDE DEF c
<1>6. \A i \in 1..Len(c) : c[i] = b[i]
  <2> TAKE i \in 1..Len(c)
  <2>1. i \in 1..(k + 1) /\ (i \in 1..k \/ i = k + 1) BY <1>0, <1>5
  <2> QED BY <1>3, <1>4, <1>5, <2>1
<1>7. c = b BY <1>4, <1>5, <1>6, SeqEqual
<1> QED BY <1>7 DEF a, b, c

\* What a client has written of a text grows byte by byte.
LEMMA QuotedGrows ==
    ASSUME NEW text \in Seq(Text)
    PROVE  /\ QuotedBytes(text, 0) = <<>>
           /\ \A k \in 0..Len(text) : QuotedBytes(text, k) \in Seq(Text) /\ Len(QuotedBytes(text, k)) \in Nat
           /\ \A k \in 0..(Len(text) - 1) :
                /\ text[k + 1] \in Text /\ EscapedByte(text[k + 1]) \in Seq(Text)
                /\ QuotedBytes(text, k + 1) = QuotedBytes(text, k) \o EscapedByte(text[k + 1])
                /\ Len(QuotedBytes(text, k + 1)) = Len(QuotedBytes(text, k)) + Len(EscapedByte(text[k + 1]))
<1> DEFINE n == Len(text)
<1>0. n \in Nat BY LenProperties
<1>1. PICK f : /\ f \in [0..n -> Seq(Text)] /\ f[0] = <<>>
               /\ \A k \in 0..(n - 1) : f[k + 1] = f[k] \o EscapedByte(text[(k + 1)])
               /\ \A m \in 0..n : QuotedBytes(text, m) = f[m]
  BY QuotedTurns
<1>2. \A k \in 1..n : text[k] \in Text BY ElementOfSeq
<1> HIDE DEF n
<1>3. \A k \in 0..n : QuotedBytes(text, k) \in Seq(Text) /\ Len(QuotedBytes(text, k)) \in Nat
  <2> TAKE k \in 0..n
  <2>1. QuotedBytes(text, k) \in Seq(Text) BY <1>1
  <2> QED BY <2>1, LenProperties
<1>4. ASSUME NEW k \in 0..(n - 1)
      PROVE  /\ text[k + 1] \in Text /\ EscapedByte(text[k + 1]) \in Seq(Text)
             /\ QuotedBytes(text, k + 1) = QuotedBytes(text, k) \o EscapedByte(text[k + 1])
             /\ Len(QuotedBytes(text, k + 1)) = Len(QuotedBytes(text, k)) + Len(EscapedByte(text[k + 1]))
  <2>0. k \in 0..n /\ k + 1 \in 0..n /\ k + 1 \in 1..n BY <1>0
  <2>1. text[k + 1] \in Text BY <1>2, <2>0
  <2>2. EscapedByte(text[k + 1]) \in Seq(Text)
    <3>1. "\\" \in Text BY DEF Text
    <3> QED BY <2>1, <3>1, ShortSeqs DEF EscapedByte
  <2>3. QuotedBytes(text, k + 1) = QuotedBytes(text, k) \o EscapedByte(text[k + 1]) BY <1>1, <2>0
  <2>4. QuotedBytes(text, k) \in Seq(Text) BY <1>3, <2>0
  <2> QED BY <2>1, <2>2, <2>3, <2>4, ConcatProperties
<1>5. QuotedBytes(text, 0) = <<>> BY <1>0, <1>1
<1> QED BY <1>3, <1>4, <1>5 DEF n

\* Where the bytes of each character of a text are.
LEMMA QuotedAt ==
    ASSUME NEW text \in Seq(Text), NEW k \in 0..(Len(text) - 1)
    PROVE  /\ Len(QuotedBytes(text, k + 1)) <= Len(QuotedBytes(text, Len(text)))
           /\ \A i \in 1..Len(QuotedBytes(text, k + 1)) : QuotedBytes(text, Len(text))[i] = QuotedBytes(text, k + 1)[i]
           /\ \A i \in 1..Len(EscapedByte(text[k + 1])) :
                QuotedBytes(text, Len(text))[Len(QuotedBytes(text, k)) + i] = EscapedByte(text[k + 1])[i]
<1> DEFINE n == Len(text)
           Q(m) == QuotedBytes(text, m)
           E(m) == EscapedByte(text[m])
           Starts(m) == Len(Q(k + 1)) <= Len(Q(m)) /\ \A i \in 1..Len(Q(k + 1)) : Q(m)[i] = Q(k + 1)[i]
           S == {m \in 0..n : m < k + 1 \/ Starts(m)}
<1>0. n \in Nat /\ k \in Nat /\ k + 1 \in 0..n /\ k \in 0..n /\ k \in 0..(n - 1) BY LenProperties
<1>1. /\ \A m \in 0..n : Q(m) \in Seq(Text) /\ Len(Q(m)) \in Nat
      /\ \A m \in 0..(n - 1) : E(m + 1) \in Seq(Text) /\ Q(m + 1) = Q(m) \o E(m + 1) /\ Len(Q(m + 1)) = Len(Q(m)) + Len(E(m + 1))
  BY QuotedGrows
<1> HIDE DEF n, Q, E
<1>2. 0 \in S BY <1>0
<1>3. ASSUME NEW m \in 0..(n - 1), m \in S PROVE m + 1 \in S
  <2>1. m \in 0..n /\ m + 1 \in 0..n /\ m \in Nat BY <1>0
  <2>2. Q(m) \in Seq(Text) /\ E(m + 1) \in Seq(Text) /\ Q(m + 1) = Q(m) \o E(m + 1) /\ Len(Q(m)) \in Nat /\ Len(E(m + 1)) \in Nat
    BY <1>1, <2>1, LenProperties
  <2>3. Len(Q(m + 1)) = Len(Q(m)) + Len(E(m + 1)) /\ \A i \in 1..Len(Q(m)) : Q(m + 1)[i] = Q(m)[i]
    <3>1. /\ Len(Q(m) \o E(m + 1)) = Len(Q(m)) + Len(E(m + 1))
          /\ \A i \in 1..(Len(Q(m)) + Len(E(m + 1))) : (Q(m) \o E(m + 1))[i] = IF i <= Len(Q(m)) THEN Q(m)[i] ELSE E(m + 1)[i - Len(Q(m))]
      BY <2>2, ConcatProperties
    <3>2. \A i \in 1..Len(Q(m)) : i \in 1..(Len(Q(m)) + Len(E(m + 1))) /\ i <= Len(Q(m)) BY <2>2
    <3> QED BY <2>2, <3>1, <3>2
  <2>4. CASE m + 1 < k + 1 BY <2>1, <2>4
  <2>5. CASE m + 1 = k + 1 BY <1>1, <2>1, <2>5
  <2>6. CASE m >= k + 1
    <3>1. Starts(m) BY <1>0, <1>3, <2>1, <2>6
    <3>2. Len(Q(k + 1)) \in Nat /\ \A i \in 1..Len(Q(k + 1)) : i \in 1..Len(Q(m)) BY <1>0, <1>1, <2>2, <3>1
    <3>3. Len(Q(k + 1)) <= Len(Q(m + 1)) BY <2>2, <2>3, <3>1, <3>2
    <3>4. Starts(m + 1) BY <2>3, <3>1, <3>2, <3>3
    <3> QED BY <2>1, <3>4
  <2> QED BY <1>0, <2>1, <2>4, <2>5, <2>6
<1> HIDE DEF S
<1>4. \A m \in 0..n : m \in S BY <1>0, <1>2, <1>3, UpTo
<1>5. Starts(n)
  <2>1. n \in S /\ ~(n < k + 1) BY <1>0, <1>4
  <2> QED BY <2>1 DEF S
<1>6. ASSUME NEW i \in 1..Len(E(k + 1)) PROVE Q(n)[Len(Q(k)) + i] = E(k + 1)[i]
  <2>1. Q(k) \in Seq(Text) /\ E(k + 1) \in Seq(Text) /\ Q(k + 1) = Q(k) \o E(k + 1) /\ Len(Q(k)) \in Nat /\ Len(E(k + 1)) \in Nat
    BY <1>0, <1>1, LenProperties
  <2> DEFINE p == Len(Q(k)) + i
  <2>2. p \in 1..(Len(Q(k)) + Len(E(k + 1))) /\ ~(p <= Len(Q(k))) /\ p - Len(Q(k)) = i BY <2>1
  <2>3. Len(Q(k + 1)) = Len(Q(k)) + Len(E(k + 1)) BY <2>1, ConcatProperties
  <2> HIDE DEF p
  <2>4. (Q(k) \o E(k + 1))[p] = IF p <= Len(Q(k)) THEN Q(k)[p] ELSE E(k + 1)[p - Len(Q(k))]
    BY <2>1, <2>2, ConcatProperties
  <2>5. Q(n)[p] = Q(k + 1)[p] BY <1>5, <2>2, <2>3
  <2> QED BY <2>1, <2>2, <2>4, <2>5 DEF p
<1> QED BY <1>5, <1>6 DEF n, Q, E

\* The turn of a quoted value.
Unclosed == FALSE
Closed == TRUE
HalfRead(a, text) == [at |-> a, text |-> text, closed |-> Unclosed]
AllRead(a, text) == [at |-> a, text |-> text, closed |-> Closed]
\* The closing quote.
LEMMA Closes ==
    ASSUME NEW a, NEW text, NEW b
    PROVE  [HalfRead(a, text) EXCEPT !.at = b, !.closed = Closed] = AllRead(b, text)
<1>1. [HalfRead(a, text) EXCEPT !.at = b] = HalfRead(b, text) BY DEF HalfRead
<1>2. [HalfRead(b, text) EXCEPT !.closed = Closed] = AllRead(b, text) BY DEF HalfRead, AllRead
<1> QED BY <1>1, <1>2, Zenon

\* What one byte of a quoted value does.
LEMMA UnquoteTurn ==
    ASSUME NEW s, NEW a, NEW text
    PROVE  /\ ByteAt(s, a) = "quote" => Unquote(s, HalfRead(a, text)) = AllRead(a + 1, text)
           /\ ByteAt(s, a) \notin {"end", "quote", "\\"} => Unquote(s, HalfRead(a, text)) = HalfRead(a + 1, Append(text, s[a]))
           /\ ByteAt(s, a) = "\\" /\ ByteAt(s, a + 1) # "end" =>
                Unquote(s, HalfRead(a, text)) = HalfRead(a + 2, Append(text, s[a + 1]))
           /\ Unquote(s, AllRead(a, text)) = AllRead(a, text)
<1> DEFINE now == HalfRead(a, text)
           b == a + 1
           c == a + 2
           t1 == Append(text, s[a])
           t2 == Append(text, s[b])
<1>0. now.at = a /\ now.text = text /\ ~now.closed BY DEF HalfRead, Unclosed
<1> HIDE DEF b, c, t1, t2
<1>1. /\ [now EXCEPT !.at = b, !.closed = Closed] = AllRead(b, text)
      /\ [now EXCEPT !.at = b, !.text = t1] = HalfRead(b, t1)
      /\ [now EXCEPT !.at = c, !.text = t2] = HalfRead(c, t2)
  <2>1. [HalfRead(a, text) EXCEPT !.at = b, !.closed = Closed] = AllRead(b, text) BY Closes, Zenon
  <2>2. [HalfRead(a, text) EXCEPT !.at = b, !.text = t1] = HalfRead(b, t1)
    <3>1. [HalfRead(a, text) EXCEPT !.at = b] = HalfRead(b, text) BY DEF HalfRead
    <3>2. [HalfRead(b, text) EXCEPT !.text = t1] = HalfRead(b, t1) BY DEF HalfRead
    <3> QED BY <3>1, <3>2, Zenon
  <2>3. [HalfRead(a, text) EXCEPT !.at = c, !.text = t2] = HalfRead(c, t2)
    <3>1. [HalfRead(a, text) EXCEPT !.at = c] = HalfRead(c, text) BY DEF HalfRead
    <3>2. [HalfRead(c, text) EXCEPT !.text = t2] = HalfRead(c, t2) BY DEF HalfRead
    <3> QED BY <3>1, <3>2, Zenon
  <2> QED BY <2>1, <2>2, <2>3, Zenon
<1> HIDE DEF now
<1>2. ByteAt(s, a) = "quote" => Unquote(s, now) = [now EXCEPT !.at = b, !.closed = Closed]
  BY <1>0 DEF Unquote, b, Closed
<1>3. ByteAt(s, a) \notin {"end", "quote", "\\"} => Unquote(s, now) = [now EXCEPT !.at = b, !.text = t1]
  BY <1>0 DEF Unquote, Escaped, b, t1
<1>4. ByteAt(s, a) = "\\" /\ ByteAt(s, a + 1) # "end" => Unquote(s, now) = [now EXCEPT !.at = c, !.text = t2]
  BY <1>0 DEF Unquote, Escaped, b, c, t2
<1>5. Unquote(s, AllRead(a, text)) = AllRead(a, text)
  <2>1. AllRead(a, text).closed BY DEF AllRead, Closed
  <2> QED BY <2>1 DEF Unquote
<1> QED BY <1>1, <1>2, <1>3, <1>4, <1>5 DEF b, c, t1, t2, now

\* The loop over a quoted value, as a function of its turns.
LEMMA UnquotesFrom ==
    ASSUME NEW s \in Seq(Text), NEW a \in Nat
    PROVE  \E f : /\ f \in [0..(Len(s) + 1) -> Unquoting] /\ f[0] = HalfRead(a + 1, <<>>)
                  /\ \A k \in 0..((Len(s) + 1) - 1) : f[k + 1] = Unquote(s, f[k])
                  /\ \A m \in 0..(Len(s) + 1) : UnquotedAfter(s, a + 1, m) = f[m]
<1>1. PICK b \in Nat : b = a + 1 OBVIOUS
<1>2. PICK f \in [0..(Len(s) + 1) -> Unquoting] :
             /\ f[0] = [at |-> b, text |-> <<>>, closed |-> FALSE] /\ \A k \in 0..((Len(s) + 1) - 1) : f[k + 1] = Unquote(s, f[k])
             /\ \A m \in 0..(Len(s) + 1) : UnquotedAfter(s, b, m) = f[m]
  BY UnquoteTurns
<1>3. f[0] = HalfRead(a + 1, <<>>) /\ \A m \in 0..(Len(s) + 1) : UnquotedAfter(s, a + 1, m) = f[m]
  BY <1>1, <1>2 DEF HalfRead, Unclosed
<1> QED BY <1>2, <1>3

\* A text is read as it was written.
LEMMA QuotedIs ==
    ASSUME NEW text \in Seq(Text), NEW s \in Seq(Text), NEW a \in Nat,
           a + Len(QuotedBytes(text, Len(text))) + 1 <= Len(s),
           \A i \in 1..Len(QuotedBytes(text, Len(text))) : s[a + i] = QuotedBytes(text, Len(text))[i],
           s[a + Len(QuotedBytes(text, Len(text))) + 1] = "quote"
    PROVE  Quoted(s, a + 1) = AllRead(a + Len(QuotedBytes(text, Len(text))) + 2, text)
<1> DEFINE n == Len(text)
           z == Len(s) + 1
           at(k) == a + 1 + Len(QuotedBytes(text, k))
           Reading(k) == HalfRead(at(k), SubSeq(text, 1, k))
           closed == AllRead(at(n) + 1, text)
<1>0. n \in Nat /\ z \in Nat /\ Len(s) \in Nat /\ DOMAIN s = 1..Len(s) /\ DOMAIN text = 1..n BY LenProperties
<1>a. \A k \in 0..n : Len(QuotedBytes(text, k)) \in Nat /\ at(k) \in Nat
  <2>1. \A k \in 0..n : Len(QuotedBytes(text, k)) \in Nat BY QuotedGrows
  <2> HIDE DEF n
  <2> QED BY <2>1
<1>b. \A i \in 1..n : text[i] \in Text BY ElementOfSeq
<1>1. PICK f : /\ f \in [0..z -> Unquoting] /\ f[0] = HalfRead(a + 1, <<>>)
               /\ \A k \in 0..(z - 1) : f[k + 1] = Unquote(s, f[k])
               /\ \A m \in 0..z : UnquotedAfter(s, a + 1, m) = f[m]
  BY UnquotesFrom
<1>2. Quoted(s, a + 1) = UnquotedAfter(s, a + 1, z) BY DEF Quoted, UnquotedAfter
<1> HIDE DEF z, Reading, closed
\* Each turn reads one character.
<1>3. ASSUME NEW k \in 0..(n - 1) PROVE Unquote(s, Reading(k)) = Reading(k + 1)
  <2> DEFINE c == text[k + 1]
             e == EscapedByte(c)
  <2>0. k \in 0..n /\ k + 1 \in 0..n /\ k + 1 \in 1..n /\ n \in 0..n BY <1>0
  <2>1. c \in Text /\ Append(SubSeq(text, 1, k), c) = SubSeq(text, 1, k + 1) BY <1>b, <2>0, OneMore
  <2>2. /\ Len(QuotedBytes(text, k + 1)) = Len(QuotedBytes(text, k)) + Len(e)
        /\ Len(QuotedBytes(text, k + 1)) <= Len(QuotedBytes(text, n))
        /\ \A i \in 1..Len(e) : QuotedBytes(text, n)[Len(QuotedBytes(text, k)) + i] = e[i]
    BY QuotedGrows, QuotedAt
  <2> DEFINE l == Len(QuotedBytes(text, k))
             m == Len(QuotedBytes(text, n))
  <2>3. l \in Nat /\ m \in Nat /\ at(k) = a + 1 + l BY <1>a, <2>0
  <2>4. at(k + 1) = a + 1 + (l + Len(e)) BY <2>2
  <2>5. ASSUME NEW i \in 1..Len(e), Len(e) \in Nat PROVE s[a + (l + i)] = e[i] /\ a + (l + i) \in DOMAIN s
    <3>1. l + Len(e) <= m /\ i \in Nat /\ 1 <= i /\ i <= Len(e) /\ Len(e) \in Nat BY <2>2, <2>5
    <3> HIDE DEF e, l, m
    <3>2. l + i \in 1..m BY <2>3, <3>1
    <3>3. s[a + (l + i)] = QuotedBytes(text, n)[l + i] BY <3>2 DEF m
    <3>4. QuotedBytes(text, n)[l + i] = e[i] BY <2>2 DEF l, e
    <3>5. a + (l + i) \in DOMAIN s BY <1>0, <2>3, <3>2 DEF m
    <3> QED BY <3>3, <3>4, <3>5
  <2>6. CASE c \in {"quote", "\\"}
    <3>1. e = <<"\\", c>> /\ Len(e) = 2 /\ e[1] = "\\" /\ e[2] = c BY <2>6 DEF EscapedByte
    <3>2. s[a + (l + 1)] = "\\" /\ a + (l + 1) \in DOMAIN s /\ s[a + (l + 2)] = c /\ a + (l + 2) \in DOMAIN s
      <4>1. Len(e) \in Nat /\ 1 \in 1..Len(e) /\ 2 \in 1..Len(e) BY <3>1
      <4> HIDE DEF e, l
      <4> QED BY <2>5, <3>1, <4>1
    <3>3. at(k) = a + (l + 1) /\ at(k) + 1 = a + (l + 2) /\ at(k + 1) = at(k) + 2
      <4> HIDE DEF l, at, e
      <4> QED BY <2>3, <2>4, <3>1
    <3>6. Reading(k) = HalfRead(at(k), SubSeq(text, 1, k)) BY DEF Reading
    <3> HIDE DEF c, l, e, at
    <3>4. ByteAt(s, at(k)) = "\\" /\ ByteAt(s, at(k) + 1) = c /\ c # "end"
      BY <2>1, <3>2, <3>3 DEF ByteAt, Text
    <3>5. Unquote(s, Reading(k)) = HalfRead(at(k) + 2, Append(SubSeq(text, 1, k), s[at(k) + 1]))
      BY <3>4, <3>6, UnquoteTurn
    <3> QED BY <2>1, <3>2, <3>3, <3>5 DEF Reading
  <2>7. CASE c \notin {"quote", "\\"}
    <3>1. e = <<c>> /\ Len(e) = 1 /\ e[1] = c BY <2>7 DEF EscapedByte
    <3>2. s[a + (l + 1)] = c /\ a + (l + 1) \in DOMAIN s
      <4>1. Len(e) \in Nat /\ 1 \in 1..Len(e) BY <3>1
      <4> HIDE DEF e, l
      <4> QED BY <2>5, <3>1, <4>1
    <3>3. at(k) = a + (l + 1) /\ at(k + 1) = at(k) + 1
      <4> HIDE DEF l, at, e
      <4> QED BY <2>3, <2>4, <3>1
    <3>6. Reading(k) = HalfRead(at(k), SubSeq(text, 1, k)) BY DEF Reading
    <3> HIDE DEF c, l, e, at
    <3>4. ByteAt(s, at(k)) \notin {"end", "quote", "\\"} BY <2>1, <2>7, <3>2, <3>3 DEF ByteAt, Text
    <3>5. Unquote(s, Reading(k)) = HalfRead(at(k) + 1, Append(SubSeq(text, 1, k), s[at(k)]))
      BY <3>4, <3>6, UnquoteTurn
    <3> QED BY <2>1, <3>2, <3>3, <3>5 DEF Reading
  <2> QED BY <2>6, <2>7
<1>4. Unquote(s, Reading(n)) = closed /\ Unquote(s, closed) = closed
  <2>1. n \in 0..n /\ at(n) = a + Len(QuotedBytes(text, n)) + 1 /\ at(n) \in DOMAIN s BY <1>0, <1>a
  <2>2. SubSeq(text, 1, n) = text BY SubSeqFull
  <2>3. ByteAt(s, at(n)) = "quote" BY <2>1 DEF ByteAt
  <2>a. Reading(n) = HalfRead(at(n), SubSeq(text, 1, n)) BY DEF Reading
  <2> HIDE DEF at
  <2>4. Unquote(s, Reading(n)) = AllRead(at(n) + 1, SubSeq(text, 1, n)) BY <2>3, <2>a, UnquoteTurn
  <2>6. Unquote(s, closed) = closed BY UnquoteTurn DEF closed
  <2> QED BY <2>2, <2>4, <2>6 DEF closed
<1>5. Reading(0) = f[0]
  <2>1. QuotedBytes(text, 0) = <<>> /\ SubSeq(text, 1, 0) = <<>> /\ Len(<<>>) = 0 BY QuotedGrows, SubSeqEmpty
  <2>2. at(0) = a + 1 BY <2>1
  <2> HIDE DEF at
  <2> QED BY <1>1, <2>1, <2>2 DEF Reading
\* There are turns enough.
<1>6. n < z
  <2> DEFINE B == {k \in 0..n : k <= Len(QuotedBytes(text, k))}
  <2>0. \A k \in 0..n : Len(QuotedBytes(text, k)) \in Nat BY <1>a
  <2>1. \A k \in 0..(n - 1) : Len(QuotedBytes(text, k + 1)) >= Len(QuotedBytes(text, k)) + 1
    <3> TAKE k \in 0..(n - 1)
    <3>1. Len(QuotedBytes(text, k + 1)) = Len(QuotedBytes(text, k)) + Len(EscapedByte(text[k + 1]))
      BY QuotedGrows
    <3>2. Len(EscapedByte(text[k + 1])) \in {1, 2}
      <4>1. Len(<<text[k + 1]>>) = 1 /\ Len(<<"\\", text[k + 1]>>) = 2 OBVIOUS
      <4> QED BY <4>1 DEF EscapedByte
    <3>3. k \in 0..n BY <1>0
    <3>4. Len(QuotedBytes(text, k)) \in Nat BY <2>0, <3>3
    <3> DEFINE x == Len(QuotedBytes(text, k + 1))
               y == Len(QuotedBytes(text, k))
               w == Len(EscapedByte(text[k + 1]))
    <3> HIDE DEF x, y, w
    <3>5. x = y + w /\ w \in {1, 2} /\ y \in Nat BY <3>1, <3>2, <3>4 DEF x, y, w
    <3>6. x >= y + 1 BY <3>5
    <3> QED BY <3>6 DEF x, y
  <2> HIDE DEF n
  <2>2. 0 \in B BY <1>0, <2>0
  <2>3. \A k \in 0..(n - 1) : k \in B => k + 1 \in B
    <3> TAKE k \in 0..(n - 1)
    <3>1. k \in 0..n /\ k + 1 \in 0..n BY <1>0
    <3> QED BY <2>0, <2>1, <3>1
  <2> HIDE DEF B
  <2>4. \A k \in 0..n : k \in B BY <1>0, <2>2, <2>3, UpTo
  <2>5. n \in 0..n /\ n <= Len(QuotedBytes(text, n)) BY <1>0, <2>4 DEF B
  <2> QED BY <1>0, <2>0, <2>5 DEF n, z
<1> DEFINE S == {k \in 0..z : f[k] = IF k <= n THEN Reading(k) ELSE closed}
<1> HIDE DEF n
<1>7. 0 \in S BY <1>0, <1>5
<1>8. ASSUME NEW k \in 0..(z - 1), k \in S PROVE k + 1 \in S
  <2>1. k + 1 \in 0..z /\ k \in Nat /\ f[k + 1] = Unquote(s, f[k]) BY <1>0, <1>1
  <2>2. CASE k < n BY <1>0, <2>1, <2>2, <1>3, <1>8
  <2>3. CASE k = n BY <1>0, <2>3, <1>4, <1>8, <2>1
  <2>4. CASE k > n BY <1>0, <2>1, <2>4, <1>4, <1>8
  <2> QED BY <1>0, <2>1, <2>2, <2>3, <2>4
<1> HIDE DEF S
<1>9. \A k \in 0..z : k \in S BY <1>0, <1>7, <1>8, UpTo
<1>10. z \in 0..z /\ ~(z <= n) BY <1>0, <1>6
<1>11. UnquotedAfter(s, a + 1, z) = closed BY <1>1, <1>9, <1>10 DEF S
<1>12. n \in 0..n /\ at(n) + 1 = a + Len(QuotedBytes(text, n)) + 2 BY <1>0, <1>a
<1> HIDE DEF at
<1>13. closed = AllRead(a + Len(QuotedBytes(text, n)) + 2, text) BY <1>12 DEF closed
<1> QED BY <1>2, <1>11, <1>13 DEF n

\* c is b behind the n elements of a.
Appended(V, a, b, n, c) ==
    /\ c \in Seq(V) /\ n \in Nat /\ Len(b) \in Nat /\ Len(c) = n + Len(b)
    /\ \A i \in 1..n : c[i] = a[i]
    /\ \A i \in 1..Len(b) : c[n + i] = b[i]
\* What is behind the elements of a sequence.
LEMMA Appending ==
    ASSUME NEW V, NEW a \in Seq(V), NEW b \in Seq(V), NEW n, Len(a) = n
    PROVE  Appended(V, a, b, n, a \o b)
<1> DEFINE m == Len(b)
           c == a \o b
<1>0. n \in Nat /\ m \in Nat BY LenProperties
<1>1. c \in Seq(V) /\ Len(c) = n + m BY ConcatProperties
<1>2. \A i \in 1..(n + m) : c[i] = IF i <= n THEN a[i] ELSE b[i - n] BY ConcatProperties
<1> HIDE DEF m, c
<1>3. ASSUME NEW i \in 1..n PROVE c[i] = a[i] BY <1>0, <1>2
<1>4. ASSUME NEW i \in 1..m PROVE c[n + i] = b[i] BY <1>0, <1>2
<1> QED BY <1>0, <1>1, <1>3, <1>4 DEF Appended, m, c

\* Where the parts of a parameter are.
LaidOut(s, note, text, rest) ==
    /\ s \in Seq(Text) /\ Len(note) \in Nat /\ Len(rest) \in Nat /\ Len(QuotedBytes(text, Len(text))) \in Nat
    /\ Len(s) = 5 + Len(note) + Len(QuotedBytes(text, Len(text))) + Len(rest)
    /\ s[1] = "semicolon" /\ s[2] = "name" /\ s[3] = "="
    /\ \A i \in 1..Len(note) : s[3 + i] = note[i]
    /\ s[3 + Len(note) + 1] = "quote"
    /\ \A i \in 1..Len(QuotedBytes(text, Len(text))) : s[4 + Len(note) + i] = QuotedBytes(text, Len(text))[i]
    /\ s[4 + Len(note) + Len(QuotedBytes(text, Len(text))) + 1] = "quote"
    /\ \A i \in 1..Len(rest) : s[5 + Len(note) + Len(QuotedBytes(text, Len(text))) + i] = rest[i]
\* Where the bytes of a parameter that a client writes are.
LEMMA ParameterAt ==
    ASSUME NEW note \in Seq(Text), NEW text \in Seq(Text), NEW rest \in Seq(Text), NEW s,
           s = <<"semicolon", "name", "=">> \o note \o Quote(text) \o rest
    PROVE  LaidOut(s, note, text, rest)
<1> DEFINE A == <<"semicolon", "name", "=">>
           B == A \o note
           Q == QuotedBytes(text, Len(text))
           q == <<"quote">>
           D == q \o Q
           E == D \o q
           C == B \o E
           L == Len(note)
           N == Len(Q)
           R == Len(rest)
<1>1. A \in Seq(Text) /\ Len(A) = 3 /\ A[1] = "semicolon" /\ A[2] = "name" /\ A[3] = "="
  <2>1. {"semicolon", "name", "="} \subseteq Text BY DEF Text
  <2> QED BY <2>1
<1>2. q \in Seq(Text) /\ Len(q) = 1 /\ q[1] = "quote"
  <2>1. "quote" \in Text BY DEF Text
  <2> QED BY <2>1
<1>3. Q \in Seq(Text) /\ N \in Nat
  <2>1. Len(text) \in Nat BY LenProperties
  <2> QED BY <2>1, QuotedGrows
<1>4. s = C \o rest BY DEF Quote
<1> HIDE DEF A, Q, q
<1>5. /\ B \in Seq(Text) /\ L \in Nat /\ Len(B) = 3 + L /\ (\A i \in 1..3 : B[i] = A[i]) /\ \A i \in 1..L : B[3 + i] = note[i]
  <2>1. Appended(Text, A, note, 3, B) BY <1>1, Appending
  <2> HIDE DEF B
  <2> QED BY <2>1 DEF Appended
<1>6. D \in Seq(Text) /\ Len(D) = 1 + N /\ D[1] = "quote" /\ \A i \in 1..N : D[1 + i] = Q[i]
  <2>2. Appended(Text, q, Q, 1, D) BY <1>2, <1>3, Appending
  <2> HIDE DEF D
  <2>3. \A i \in 1..1 : D[i] = q[i] BY <2>2 DEF Appended
  <2>4. 1 \in 1..1 OBVIOUS
  <2> QED BY <1>2, <2>2, <2>3, <2>4 DEF Appended
<1> HIDE DEF B, D
<1>7. E \in Seq(Text) /\ Len(E) = 2 + N /\ E[1] = "quote" /\ (\A i \in 1..N : E[1 + i] = Q[i]) /\ E[2 + N] = "quote"
  <2>1. E \in Seq(Text) /\ Len(E) = (1 + N) + 1 /\ (\A i \in 1..(1 + N) : E[i] = D[i]) /\ \A i \in 1..1 : E[(1 + N) + i] = q[i]
    <3>1. Appended(Text, D, q, 1 + N, E) BY <1>2, <1>6, Appending
    <3> HIDE DEF E
    <3>2. E \in Seq(Text) /\ Len(E) = (1 + N) + Len(q) /\ (\A i \in 1..(1 + N) : E[i] = D[i]) /\ \A i \in 1..Len(q) : E[(1 + N) + i] = q[i]
      BY <3>1 DEF Appended
    <3> QED BY <1>2, <3>2
  <2> HIDE DEF E, N
  <2>2. 1 \in 1..(1 + N) /\ (\A i \in 1..N : 1 + i \in 1..(1 + N)) /\ 1 \in 1..1 /\ (1 + N) + 1 = 2 + N
    BY <1>3
  <2> QED BY <1>2, <1>6, <2>1, <2>2
<1> HIDE DEF E
<1>8. C \in Seq(Text) /\ Len(C) = (3 + L) + (2 + N) /\ (\A i \in 1..(3 + L) : C[i] = B[i]) /\ \A i \in 1..(2 + N) : C[(3 + L) + i] = E[i]
  <2>1. Appended(Text, B, E, 3 + L, C) BY <1>5, <1>7, Appending
  <2> HIDE DEF C
  <2>2. C \in Seq(Text) /\ Len(C) = (3 + L) + Len(E) /\ (\A i \in 1..(3 + L) : C[i] = B[i]) /\ \A i \in 1..Len(E) : C[(3 + L) + i] = E[i]
    BY <2>1 DEF Appended
  <2> QED BY <1>7, <2>2
<1> HIDE DEF C
<1>9. /\ s \in Seq(Text) /\ R \in Nat /\ Len(s) = Len(C) + R
      /\ (\A i \in 1..Len(C) : s[i] = C[i]) /\ \A i \in 1..R : s[Len(C) + i] = rest[i]
  <2>1. Appended(Text, C, rest, Len(C), s) BY <1>4, <1>8, Appending
  <2> QED BY <2>1 DEF Appended
<1> DEFINE c == Len(C)
<1>a. c = 5 + L + N /\ c \in Nat
  <2> HIDE DEF L, N
  <2> QED BY <1>3, <1>5, <1>8
<1>b. /\ s \in Seq(Text) /\ R \in Nat /\ Len(s) = c + R
      /\ (\A i \in 1..c : s[i] = C[i]) /\ \A i \in 1..R : s[c + i] = rest[i]
  BY <1>9
<1> HIDE DEF c, L, N, R
<1>10. s[1] = "semicolon" /\ s[2] = "name" /\ s[3] = "="
  <2>1. \A i \in 1..3 : i \in 1..(3 + L) /\ i \in 1..c BY <1>3, <1>5, <1>a
  <2>2. \A i \in 1..3 : s[i] = A[i] BY <1>5, <1>8, <1>b, <2>1
  <2> QED BY <1>1, <2>2
<1>11. \A i \in 1..L : s[3 + i] = note[i]
  <2> TAKE i \in 1..L
  <2>1. 3 + i \in 1..(3 + L) /\ 3 + i \in 1..c BY <1>3, <1>5, <1>a
  <2> QED BY <1>5, <1>8, <1>b, <2>1
<1>12. \A i \in 1..(2 + N) : s[(3 + L) + i] = E[i]
  <2> TAKE i \in 1..(2 + N)
  <2>1. (3 + L) + i \in 1..c BY <1>3, <1>5, <1>a
  <2> QED BY <1>8, <1>b, <2>1
<1>13. s[3 + L + 1] = "quote"
  <2>1. 1 \in 1..(2 + N) /\ (3 + L) + 1 = 3 + L + 1 BY <1>3, <1>5
  <2> QED BY <1>7, <1>12, <2>1
<1>14. \A i \in 1..N : s[4 + L + i] = Q[i]
  <2> TAKE i \in 1..N
  <2>1. 1 + i \in 1..(2 + N) /\ (3 + L) + (1 + i) = 4 + L + i BY <1>3, <1>5
  <2> QED BY <1>7, <1>12, <2>1
<1>15. s[4 + L + N + 1] = "quote"
  <2>1. 2 + N \in 1..(2 + N) /\ (3 + L) + (2 + N) = 4 + L + N + 1 BY <1>3, <1>5
  <2> QED BY <1>7, <1>12, <2>1
<1>16. \A i \in 1..R : s[5 + L + N + i] = rest[i] BY <1>a, <1>b
<1>17. Len(s) = 5 + L + N + R BY <1>a, <1>b
<1> QED BY <1>3, <1>5, <1>b, <1>10, <1>11, <1>13, <1>14, <1>15, <1>16, <1>17 DEF L, N, R, Q, LaidOut

\* Where a token ends.
LEMMA TokenIs ==
    ASSUME NEW s, Len(s) \in Nat, NEW i \in Nat, NEW e \in i..(Len(s) + 1), ByteAt(s, e) \notin {"t", "name", "file"},
           \A j \in i..(e - 1) : ByteAt(s, j) \in {"t", "name", "file"}
    PROVE  TokenEnd(s, i) = e
<1> DEFINE T == {j \in i..(Len(s) + 1) : ByteAt(s, j) \notin {"t", "name", "file"}}
<1>1. T \in SUBSET Nat /\ e \in T OBVIOUS
<1>2. ASSUME NEW k \in T PROVE e <= k BY <1>1
<1> HIDE DEF T
<1>3. Min(T) = e BY <1>1, <1>2, MinIs
<1>4. First(T) = e BY <1>1, <1>3 DEF First
<1> QED BY <1>4 DEF TokenEnd, T

\* The state before any parameter is read, and with one behind it.
NoneRead == [ok |-> Closed, at |-> 1, found |-> {}]
Refusing == [ok |-> Unclosed, at |-> 1, found |-> {}]
Reached(at, text) == [ok |-> Closed, at |-> at, found |-> {[name |-> <<"name">>, text |-> text]}]

\* The loop over parameters that ends after one turn.
LEMMA OneTurn ==
    ASSUME NEW s, Len(s) \in Nat, NEW comments, NEW settled,
           ReadParameter(s, NoneRead, comments) = settled, ReadParameter(s, settled, comments) = settled
    PROVE  Parameters(s, 1, comments) =
             IF settled.ok /\ (\E p \in settled.found : p.name = <<"name">>) THEN Good(settled.found) ELSE Bad
<1> DEFINE n == Len(s) + 1
           start == [ok |-> TRUE, at |-> 1, found |-> {}]
           T(v) == ReadParameter(s, v, comments)
           Eq(g) == g = [k \in 0..n |-> IF k = 0 THEN start ELSE T(g[k - 1])]
           c == CHOOSE g : Eq(g)
           h == [k \in 0..n |-> IF k = 0 THEN start ELSE settled]
<1>0. n \in Nat /\ n \in 0..n /\ n # 0 /\ \A k \in 0..(n - 1) : k \in 0..n /\ k + 1 \in 0..n /\ k + 1 # 0 /\ (k + 1) - 1 = k
  OBVIOUS
<1>1. start = NoneRead BY Zenon DEF NoneRead, Closed
<1>2. Parameters(s, 1, comments) = IF c[n].ok /\ (\E p \in c[n].found : p.name = <<"name">>) THEN Good(c[n].found) ELSE Bad
  BY DEF Parameters, Iterated
<1>3. T(start) = settled /\ T(settled) = settled BY <1>1
<1> HIDE DEF n, start, T
<1>4. Eq(h)
  <2>1. \A k \in 0..n : k = 0 \/ (k - 1 \in 0..(n - 1) /\ k - 1 \in 0..n) BY <1>0
  <2>2. h = [k \in 0..n |-> h[k]] OBVIOUS
  <2>3. h[0] = start /\ \A k \in 0..n : h[k] = IF k = 0 THEN start ELSE settled BY <1>0
  <2> HIDE DEF h
  <2>4. \A k \in 0..n : h[k] = IF k = 0 THEN start ELSE T(h[k - 1]) BY <1>3, <2>1, <2>3
  <2> QED BY <2>2, <2>4
<1>5. Eq(c) BY <1>4
<1>6. c[n] = settled
  <2> HIDE DEF c
  <2>1. c[0] = start BY <1>0, <1>5
  <2>2. \A k \in 0..(n - 1) : c[k + 1] = T(c[k]) BY <1>0, <1>5
  <2>3. h[0] = start /\ \A k \in 0..(n - 1) : h[k + 1] = settled BY <1>0
  <2>4. \A k \in 0..(n - 1) : T(h[k]) = settled BY <1>0, <1>3
  <2> HIDE DEF h, Eq
  <2>5. Agree(c, h, n) BY <2>1, <2>2, <2>3, <2>4 DEF Agree
  <2>6. \A k \in 0..n : c[k] = h[k] BY <1>0, <2>5, SameTurns
  <2> QED BY <1>0, <2>6 DEF h
<1> QED BY <1>2, <1>6

\* The name of a parameter is read.
LEMMA NameIs ==
    ASSUME NEW s \in Seq(Text), 4 <= Len(s), s[1] = "semicolon", s[2] = "name", s[3] = "=", NEW comments \in BOOLEAN
    PROVE  /\ ByteAt(s, 1) = "semicolon" /\ SkipSpace(s, 1 + 1, comments) = 2 /\ TokenEnd(s, 2) = 3
           /\ SubSeq(s, 2, 3 - 1) = <<"name">> /\ SkipSpace(s, 3, comments) = 3 /\ ByteAt(s, 3) = "="
<1>0. Len(s) \in Nat /\ DOMAIN s = 1..Len(s) BY LenProperties
<1>1. ByteAt(s, 1) = "semicolon" /\ ByteAt(s, 2) = "name" /\ ByteAt(s, 3) = "=" BY <1>0 DEF ByteAt
<1>2. SkipSpace(s, 2, comments) = 2 BY <1>1, SkipStops
<1>3. SkipSpace(s, 3, comments) = 3 BY <1>1, SkipStops
<1>4. TokenEnd(s, 2) = 3
  <2>1. 3 \in 2..(Len(s) + 1) /\ ByteAt(s, 3) \notin {"t", "name", "file"} BY <1>0, <1>1
  <2>2. \A j \in 2..(3 - 1) : ByteAt(s, j) \in {"t", "name", "file"}
    <3>1. \A j \in 2..(3 - 1) : j = 2 OBVIOUS
    <3> QED BY <1>1, <3>1
  <2> QED BY <1>0, <2>1, <2>2, TokenIs
<1>5. SubSeq(s, 2, 3 - 1) = <<"name">>
  <2> DEFINE u == SubSeq(s, 2, 2)
  <2>0. \A i \in 2..2 : s[i] \in Text BY <1>0, ElementOfSeq
  <2>1. u \in Seq(Text) /\ Len(u) = (IF 2 <= 2 THEN 2 - 2 + 1 ELSE 0) /\ \A i \in 1..(2 - 2 + 1) : u[i] = s[2 + i - 1]
    BY <2>0, SubSeqProperties
  <2> HIDE DEF u
  <2>2. Len(u) = 1 /\ u[1] = s[2 + 1 - 1] /\ 2 + 1 - 1 = 2 BY <2>1
  <2>3. u = <<"name">>
    <3> DEFINE v == <<"name">>
    <3>1. v \in Seq(Text) /\ Len(v) = 1 /\ v[1] = "name" BY DEF Text
    <3> HIDE DEF v
    <3>2. \A i \in 1..Len(u) : u[i] = v[i] BY <2>2, <3>1
    <3> QED BY <2>1, <2>2, <3>1, <3>2, SeqEqual DEF v
  <2>4. 3 - 1 = 2 OBVIOUS
  <2> QED BY <2>3, <2>4 DEF u
<1>6. 1 + 1 = 2 OBVIOUS
<1> QED BY <1>1, <1>2, <1>3, <1>4, <1>5, <1>6

Known(name, comments) == name = <<"name">> \/ (comments /\ name = <<"file">>)
\* A parameter that is accepted.
Fitting(s, now, comments, start, nameEnd, name, equals, value, q, end) ==
    /\ start = SkipSpace(s, now.at + 1, comments) /\ nameEnd = TokenEnd(s, start) /\ name = SubSeq(s, start, nameEnd - 1)
    /\ equals = SkipSpace(s, nameEnd, comments) /\ value = SkipSpace(s, equals + 1, comments)
    /\ q = Quoted(s, value + 1) /\ end = SkipSpace(s, q.at, comments)
    /\ now.ok /\ now.at # Len(s) + 1 /\ ByteAt(s, now.at) = "semicolon" /\ start # 0 /\ name # <<>> /\ equals # 0
    /\ ByteAt(s, equals) = "=" /\ value # 0 /\ ByteAt(s, value) = "quote" /\ q.closed
    /\ ~(~comments /\ Known(name, comments) /\ q.text = <<>>) /\ end # 0 /\ ByteAt(s, end) \in {"semicolon", "end"}
    /\ ~(Known(name, comments) /\ \E p \in now.found : p.name = name)
\* What a parameter that is accepted leaves.
LEMMA Accepts ==
    ASSUME NEW s, NEW now, NEW comments, NEW start, NEW nameEnd, NEW name, NEW equals, NEW value, NEW q, NEW end,
           Fitting(s, now, comments, start, nameEnd, name, equals, value, q, end)
    PROVE  ReadParameter(s, now, comments) =
             [ok |-> TRUE, at |-> end, found |-> IF Known(name, comments) THEN now.found \cup {[name |-> name, text |-> q.text]} ELSE now.found]
  BY SMT DEF ReadParameter, Known, Fitting

Lacks(comments, text) == ~comments /\ text = <<>>
Flag(comments) == comments \in BOOLEAN
\* One turn: a value in quotes, and what is behind it.
InQuotes(s, comments, value, q, text) ==
    /\ value \in Nat /\ value # 0 /\ SkipSpace(s, 4, comments) = value /\ ByteAt(s, value) = "quote"
    /\ q \in Nat /\ q # 0 /\ Quoted(s, value + 1) = AllRead(q, text) /\ SkipSpace(s, q, comments) = q
\* A value in quotes is read, or refused for what is behind it.
LEMMA ReadsQuoted ==
    ASSUME NEW s \in Seq(Text), 4 <= Len(s), s[1] = "semicolon", s[2] = "name", s[3] = "=", NEW comments, Flag(comments),
           NEW value, NEW q, NEW text, InQuotes(s, comments, value, q, text)
    PROVE  /\ ByteAt(s, q) \notin {"semicolon", "end"} \/ Lacks(comments, text) => ReadParameter(s, NoneRead, comments) = Refusing
           /\ ByteAt(s, q) \in {"semicolon", "end"} /\ ~Lacks(comments, text) => ReadParameter(s, NoneRead, comments) = Reached(q, text)
<1> DEFINE name == <<"name">>
           all == AllRead(q, text)
           x == [name |-> name, text |-> text]
           refusal == [ok |-> FALSE, at |-> NoneRead.at, found |-> NoneRead.found]
           byte == ByteAt(s, q)
           lacks == Lacks(comments, text)
<1>a. /\ value \in Nat /\ value # 0 /\ SkipSpace(s, 4, comments) = value /\ ByteAt(s, value) = "quote"
      /\ q \in Nat /\ q # 0 /\ Quoted(s, value + 1) = AllRead(q, text) /\ SkipSpace(s, q, comments) = q
  BY DEF InQuotes
<1>0. NoneRead.ok /\ NoneRead.at = 1 /\ NoneRead.found = {} /\ Len(s) \in Nat /\ NoneRead.at # Len(s) + 1
  <2>1. NoneRead.ok = Closed /\ NoneRead.at = 1 /\ NoneRead.found = {} BY DEF NoneRead
  <2>2. NoneRead.ok BY <2>1, Zenon DEF Closed
  <2> QED BY <2>1, <2>2, LenProperties
<1>1. all.closed /\ all.at = q /\ all.text = text BY DEF AllRead, Closed
<1>2. /\ ByteAt(s, 1) = "semicolon" /\ SkipSpace(s, 1 + 1, comments) = 2 /\ TokenEnd(s, 2) = 3
      /\ SubSeq(s, 2, 3 - 1) = name /\ SkipSpace(s, 3, comments) = 3 /\ ByteAt(s, 3) = "="
  <2>1. comments \in BOOLEAN BY DEF Flag
  <2> QED BY <2>1, NameIs
<1>3. name # <<>> /\ 3 + 1 = 4 OBVIOUS
<1>4. SkipSpace(s, 3 + 1, comments) = value /\ Quoted(s, value + 1) = all BY <1>3, <1>a
<1> HIDE DEF name, all, x, refusal, byte, lacks
<1>5. byte \notin {"semicolon", "end"} \/ lacks => ReadParameter(s, NoneRead, comments) = refusal
  BY <1>a, <1>0, <1>1, <1>2, <1>3, <1>4 DEF ReadParameter, refusal, byte, lacks, Lacks, name
<1>6. byte \in {"semicolon", "end"} /\ ~lacks =>
        ReadParameter(s, NoneRead, comments) = [ok |-> TRUE, at |-> q, found |-> NoneRead.found \cup {x}]
  <2> SUFFICES ASSUME byte \in {"semicolon", "end"}, ~lacks
               PROVE  ReadParameter(s, NoneRead, comments) = [ok |-> TRUE, at |-> q, found |-> NoneRead.found \cup {x}]
    OBVIOUS
  <2> DEFINE more == IF Known(name, comments) THEN NoneRead.found \cup {[name |-> name, text |-> all.text]} ELSE NoneRead.found
  <2>1. Known(name, comments) BY Zenon DEF name, Known
  <2>2. ~(Known(name, comments) /\ \E p \in NoneRead.found : p.name = name) BY <1>0
  <2>3. more = NoneRead.found \cup {x} BY <1>1, <2>1, Zenon DEF x
  <2>4. ~(~comments /\ Known(name, comments) /\ all.text = <<>>) BY <1>1 DEF lacks, Lacks
  <2>5. 2 = SkipSpace(s, NoneRead.at + 1, comments) /\ 2 # 0 /\ 3 # 0 BY <1>0, <1>2
  <2>6. q = SkipSpace(s, all.at, comments) BY <1>1, <1>a
  <2>7. /\ 3 = TokenEnd(s, 2) /\ name = SubSeq(s, 2, 3 - 1) /\ 3 = SkipSpace(s, 3, comments) /\ value = SkipSpace(s, 3 + 1, comments)
        /\ all = Quoted(s, value + 1) /\ ByteAt(s, NoneRead.at) = "semicolon" /\ ByteAt(s, q) \in {"semicolon", "end"}
    BY <1>0, <1>2, <1>4 DEF byte
  <2> HIDE DEF more
  <2>8. ReadParameter(s, NoneRead, comments) = [ok |-> TRUE, at |-> q, found |-> more]
    <3>1. Fitting(s, NoneRead, comments, 2, 3, name, 3, value, all, q)
      BY <1>a, <1>0, <1>1, <1>2, <1>3, <2>2, <2>4, <2>5, <2>6, <2>7 DEF Fitting
    <3> QED BY <3>1, Accepts DEF more
  <2> QED BY <2>3, <2>8, Zenon
<1>7. refusal = Refusing BY <1>0, Zenon DEF refusal, Refusing, Unclosed
<1>8. [ok |-> TRUE, at |-> q, found |-> NoneRead.found \cup {x}] = Reached(q, text)
  <2>1. NoneRead.found \cup {x} = {x} BY <1>0
  <2> QED BY <2>1, Zenon DEF Reached, x, name, Closed
<1> QED BY <1>5, <1>6, <1>7, <1>8 DEF byte, lacks

\* A value that is a comment is none.
LEMMA ReadsNote ==
    ASSUME NEW s \in Seq(Text), 4 <= Len(s), s[1] = "semicolon", s[2] = "name", s[3] = "=", NEW comments \in BOOLEAN,
           SkipSpace(s, 4, comments) = 4, ByteAt(s, 4) = "("
    PROVE  ReadParameter(s, NoneRead, comments) = Refusing
<1> DEFINE name == <<"name">>
           refusal == [ok |-> FALSE, at |-> NoneRead.at, found |-> NoneRead.found]
<1>0. NoneRead.ok /\ NoneRead.at = 1 /\ NoneRead.found = {} /\ Len(s) \in Nat /\ NoneRead.at # Len(s) + 1
  <2>1. NoneRead.ok = Closed /\ NoneRead.at = 1 /\ NoneRead.found = {} BY DEF NoneRead
  <2>2. NoneRead.ok BY <2>1, Zenon DEF Closed
  <2> QED BY <2>1, <2>2, LenProperties
<1>2. /\ ByteAt(s, 1) = "semicolon" /\ SkipSpace(s, 1 + 1, comments) = 2 /\ TokenEnd(s, 2) = 3
      /\ SubSeq(s, 2, 3 - 1) = name /\ SkipSpace(s, 3, comments) = 3 /\ ByteAt(s, 3) = "="
  BY NameIs
<1>3. name # <<>> /\ 3 + 1 = 4 OBVIOUS
<1>4. TokenEnd(s, 4) = 4
  <2>1. 4 \in 4..(Len(s) + 1) /\ ByteAt(s, 4) \notin {"t", "name", "file"} /\ \A j \in 4..(4 - 1) : ByteAt(s, j) \in {"t", "name", "file"}
    BY <1>0
  <2> QED BY <1>0, <2>1, TokenIs
<1> HIDE DEF name, refusal
<1>5. ReadParameter(s, NoneRead, comments) = refusal BY <1>0, <1>2, <1>3, <1>4 DEF ReadParameter, refusal
<1>6. refusal = Refusing BY <1>0, Zenon DEF refusal, Refusing, Unclosed
<1> QED BY <1>5, <1>6

\* A refusal is the last word.
LEMMA RefusalStays == ASSUME NEW s, NEW comments PROVE ReadParameter(s, Refusing, comments) = Refusing /\ ~Refusing.ok
<1>1. ~Refusing.ok
  <2>1. Refusing.ok = Unclosed BY DEF Refusing
  <2> QED BY <2>1, Zenon DEF Unclosed
<1> QED BY <1>1 DEF ReadParameter

\* Behind the last parameter nothing changes.
LEMMA EndStays ==
    ASSUME NEW s, NEW comments, NEW text, NEW at, at = Len(s) + 1
    PROVE  ReadParameter(s, Reached(at, text), comments) = Reached(at, text)
<1>2. Reached(at, text).at = Len(s) + 1 BY DEF Reached
<1> QED BY <1>2 DEF ReadParameter

\* What is found behind one parameter.
LEMMA Outcomes ==
    ASSUME NEW at, NEW text
    PROVE  /\ Reached(at, text).ok /\ Reached(at, text).found = {[name |-> <<"name">>, text |-> text]}
           /\ \E p \in Reached(at, text).found : p.name = <<"name">>
<1>2. Reached(at, text).ok
  <2>1. Reached(at, text).ok = Closed BY DEF Reached
  <2> QED BY <2>1, Zenon DEF Closed
<1>3. Reached(at, text).found = {[name |-> <<"name">>, text |-> text]} BY DEF Reached
<1>4. \E p \in Reached(at, text).found : p.name = <<"name">>
  <2> DEFINE x == [name |-> <<"name">>, text |-> text]
  <2>1. x \in Reached(at, text).found /\ x.name = <<"name">> BY <1>3
  <2> QED BY <2>1
<1> QED BY <1>2, <1>3, <1>4

\* The place behind the last byte.
LEMMA PastEnd ==
    ASSUME NEW l \in Nat, NEW n \in Nat, NEW z, z = 5 + l + n + 0
    PROVE  6 + l + n = z + 1 /\ z + 1 \notin 1..z
  OBVIOUS

\* A note begins outside comments.
LEMMA NestingStarts == ASSUME NEW note \in Seq(Text) PROVE Nesting(note, 0).depth = 0
<1> DEFINE L == Len(note)
<1>1. PICK f : /\ f \in [0..L -> Nestings] /\ f[0] = [depth |-> 0, hidden |-> FALSE]
               /\ \A k \in 0..(L - 1) : f[k + 1] = Nest(f[k], note[k + 1])
               /\ \A m \in 0..L : Nesting(note, m) = f[m]
  BY NestingTurns
<1>2. 0 \in 0..L BY LenProperties
<1> QED BY <1>1, <1>2

\* A quoted parameter is read as it was meant.
Placed(s, note, text, rest) ==
    /\ note \in Seq(Text) /\ text \in Seq(Text) /\ rest \in Seq(Text) /\ AreComments(note)
    /\ rest # <<>> => rest[1] \notin {"space", "(", "semicolon"}
    /\ LaidOut(s, note, text, rest)
QuotedAs(note, text, rest, comments) ==
    IF rest # <<>> \/ (~comments /\ (note # <<>> \/ text = <<>>)) THEN Bad ELSE Good({[name |-> <<"name">>, text |-> text]})
\* What a client quotes is read as it was meant, or refused where comments are not known.
LEMMA QuotedParameter ==
    ASSUME NEW s, NEW note, NEW text, NEW rest, NEW comments, Placed(s, note, text, rest), Flag(comments)
    PROVE  Parameters(s, 1, comments) = QuotedAs(note, text, rest, comments)
<1> DEFINE L == Len(note)
           N == Len(QuotedBytes(text, Len(text)))
           R == Len(rest)
           q == 6 + L + N
           value == 4 + L
           byte == ByteAt(s, q)
           lacks == Lacks(comments, text)
           good == {[name |-> <<"name">>, text |-> text]}
<1>p. note \in Seq(Text) /\ text \in Seq(Text) /\ rest \in Seq(Text) BY DEF Placed
<1>n. AreComments(note) BY DEF Placed
<1>r. rest # <<>> => rest[1] \notin {"space", "(", "semicolon"} BY DEF Placed
<1>f. comments \in BOOLEAN BY DEF Flag
<1>1. /\ s \in Seq(Text) /\ L \in Nat /\ R \in Nat /\ N \in Nat /\ Len(s) = 5 + L + N + R
      /\ s[1] = "semicolon" /\ s[2] = "name" /\ s[3] = "="
      /\ \A i \in 1..L : s[3 + i] = note[i]
      /\ s[3 + L + 1] = "quote"
      /\ \A i \in 1..N : s[4 + L + i] = QuotedBytes(text, Len(text))[i]
      /\ s[4 + L + N + 1] = "quote"
      /\ \A i \in 1..R : s[5 + L + N + i] = rest[i]
  <2>1. LaidOut(s, note, text, rest) BY DEF Placed
  <2> QED BY <2>1 DEF LaidOut
<1>2. DOMAIN s = 1..Len(s) /\ DOMAIN note = 1..L /\ DOMAIN rest = 1..R /\ (\A i \in 1..R : rest[i] \in Text) /\ \A i \in 1..L : note[i] \in Text
  BY <1>1, <1>p, LenProperties, ElementOfSeq
<1>3. Quoted(s, value + 1) = AllRead(q, text)
  <2>0. value \in Nat /\ value + N + 1 <= Len(s) /\ value + N + 2 = q
    <3>1. L \in Nat /\ R \in Nat /\ N \in Nat /\ Len(s) = 5 + L + N + R BY <1>1
    <3> HIDE DEF L, N, R
    <3> QED BY <3>1
  <2>1. /\ \A i \in 1..N : s[value + i] = QuotedBytes(text, Len(text))[i]
        /\ s[value + N + 1] = "quote"
    BY <1>1
  <2> HIDE DEF value, q
  <2> QED BY <1>1, <1>p, <2>0, <2>1, QuotedIs
<1>4. value \in DOMAIN s /\ s[value] = "quote" /\ value # 0 /\ q # 0 /\ q \in Nat /\ value \in Nat /\ 4 <= Len(s)
  <2> HIDE DEF L, N, R
  <2> QED BY <1>1, <1>2
<1>5. ByteAt(s, value) = "quote" BY <1>4 DEF ByteAt
<1>6. rest = <<>> => q = Len(s) + 1 /\ byte = "end"
  <2> SUFFICES ASSUME rest = <<>> PROVE q = Len(s) + 1 /\ byte = "end" OBVIOUS
  <2>1. R = 0 OBVIOUS
  <2> HIDE DEF L, N, R
  <2>2. q = Len(s) + 1 /\ q \notin DOMAIN s
    <3>1. L \in Nat /\ N \in Nat /\ Len(s) = 5 + L + N + 0 /\ DOMAIN s = 1..Len(s) BY <1>1, <1>2, <2>1
    <3>2. q = Len(s) + 1 /\ Len(s) + 1 \notin 1..Len(s) BY <3>1, PastEnd
    <3> QED BY <3>1, <3>2
  <2> QED BY <2>2 DEF ByteAt
<1>7. rest # <<>> => byte \notin {"space", "(", "semicolon", "end"}
  <2> SUFFICES ASSUME rest # <<>> PROVE byte \notin {"space", "(", "semicolon", "end"} OBVIOUS
  <2>1. R # 0 BY <1>p, EmptySeq
  <2> HIDE DEF L, N, R
  <2>2. 1 \in 1..R /\ q \in DOMAIN s /\ q = 5 + L + N + 1 BY <1>1, <1>2, <2>1
  <2>3. byte = rest[1] /\ rest[1] \in Text BY <1>1, <1>2, <2>2 DEF ByteAt
  <2> QED BY <1>r, <2>3 DEF Text
<1>8. SkipSpace(s, q, comments) = q
  <2>1. byte \notin {"space", "("} BY <1>6, <1>7
  <2> HIDE DEF q
  <2> QED BY <1>1, <1>4, <1>f, <2>1, SkipStops
<1>9. comments \/ note = <<>> => SkipSpace(s, 4, comments) = value
  <2>1. CASE Counts(comments)
    <3> DEFINE a == 3
    <3>1. a + L < Len(s) /\ a \in Nat /\ a + 1 = 4 /\ a + L + 1 = value
      <4> HIDE DEF L, N, R
      <4> QED BY <1>1
    <3>2. (\A j \in 1..L : s[a + j] = note[j]) /\ s[a + L + 1] = "quote" BY <1>1
    <3> HIDE DEF value, a
    <3>4. \A given : Counts(given) => SkipSpace(s, a + 1, given) = a + L + 1
      BY <1>1, <1>p, <1>n, <3>1, <3>2, SkipNote
    <3>3. SkipSpace(s, a + 1, comments) = a + L + 1 BY <2>1, <3>4, Zenon
    <3> QED BY <3>1, <3>3
  <2>2. CASE note = <<>>
    <3>1. L = 0 BY <2>2
    <3>2. value = 4 BY <3>1
    <3> HIDE DEF value
    <3>3. ByteAt(s, 4) = "quote" BY <1>5, <3>2
    <3>4. SkipSpace(s, 4, comments) = 4 BY <1>1, <1>f, <3>3, SkipStops
    <3> QED BY <3>2, <3>4
  <2> QED BY <1>f, <2>1, <2>2, Zenon DEF Counts
<1>10. note # <<>> => ByteAt(s, 4) = "("
  <2> SUFFICES ASSUME note # <<>> PROVE ByteAt(s, 4) = "(" OBVIOUS
  <2>1. L # 0 BY <1>p, EmptySeq
  <2>2. 1 \in 1..L /\ 4 \in DOMAIN s /\ 3 + 1 = 4 /\ 1 - 1 = 0
    <3> HIDE DEF L, N, R
    <3> QED BY <1>1, <1>2, <2>1
  <2>3. Nesting(note, 0).depth = 0 BY <1>p, NestingStarts
  <2>4. note[1] = "(" BY <1>2, <1>n, <2>2, <2>3 DEF AreComments
  <2> QED BY <1>1, <2>2, <2>4 DEF ByteAt
<1> HIDE DEF L, N, R, q, value, byte, lacks
<1>11. comments \/ note = <<>> =>
         /\ rest # <<>> \/ lacks => ReadParameter(s, NoneRead, comments) = Refusing
         /\ rest = <<>> /\ ~lacks => ReadParameter(s, NoneRead, comments) = Reached(Len(s) + 1, text)
  <2> SUFFICES ASSUME SkipSpace(s, 4, comments) = value
               PROVE  /\ rest # <<>> \/ lacks => ReadParameter(s, NoneRead, comments) = Refusing
                      /\ rest = <<>> /\ ~lacks => ReadParameter(s, NoneRead, comments) = Reached(Len(s) + 1, text)
    BY <1>9
  <2>1. /\ byte \notin {"semicolon", "end"} \/ lacks => ReadParameter(s, NoneRead, comments) = Refusing
        /\ byte \in {"semicolon", "end"} /\ ~lacks => ReadParameter(s, NoneRead, comments) = Reached(q, text)
    <3>1. InQuotes(s, comments, value, q, text) BY <1>3, <1>4, <1>5, <1>8 DEF InQuotes
    <3>2. s \in Seq(Text) /\ 4 <= Len(s) /\ s[1] = "semicolon" /\ s[2] = "name" /\ s[3] = "=" BY <1>1, <1>4
    <3>3. /\ ByteAt(s, q) \notin {"semicolon", "end"} \/ Lacks(comments, text) => ReadParameter(s, NoneRead, comments) = Refusing
          /\ ByteAt(s, q) \in {"semicolon", "end"} /\ ~Lacks(comments, text) => ReadParameter(s, NoneRead, comments) = Reached(q, text)
      BY <3>1, <3>2, ReadsQuoted
    <3> QED BY <3>3 DEF byte, lacks
  <2> QED BY <1>6, <1>7, <2>1
<1>13. ~Counts(comments) /\ note # <<>> => ReadParameter(s, NoneRead, comments) = Refusing
  <2> SUFFICES ASSUME ~Counts(comments), note # <<>> PROVE ReadParameter(s, NoneRead, comments) = Refusing
    OBVIOUS
  <2>1. ~comments BY Zenon DEF Counts
  <2>2. SkipSpace(s, 4, comments) = 4 BY <1>1, <1>10, <1>f, <2>1, SkipStops
  <2> QED BY <1>1, <1>4, <1>10, <1>f, <2>2, ReadsNote
<1>14. rest # <<>> \/ (~comments /\ (note # <<>> \/ text = <<>>)) => Parameters(s, 1, comments) = Bad
  <2> SUFFICES ASSUME rest # <<>> \/ (~comments /\ (note # <<>> \/ text = <<>>)) PROVE Parameters(s, 1, comments) = Bad
    OBVIOUS
  <2>1. ReadParameter(s, NoneRead, comments) = Refusing
    <3>1. CASE comments \/ note = <<>>
      <4>1. rest # <<>> \/ lacks BY <3>1 DEF lacks, Lacks
      <4> QED BY <1>11, <3>1, <4>1
    <3>2. CASE ~Counts(comments) /\ note # <<>> BY <1>13, <3>2
    <3> QED BY <1>f, <3>1, <3>2, Zenon DEF Counts
  <2>2. ReadParameter(s, Refusing, comments) = Refusing /\ ~Refusing.ok /\ Len(s) \in Nat
    BY <1>1, RefusalStays, LenProperties
  <2> QED BY <2>1, <2>2, OneTurn
<1>15. ~(rest # <<>> \/ (~comments /\ (note # <<>> \/ text = <<>>))) => Parameters(s, 1, comments) = Good(good)
  <2> SUFFICES ASSUME rest = <<>>, comments \/ note = <<>>, comments \/ text # <<>> PROVE Parameters(s, 1, comments) = Good(good)
    OBVIOUS
  <2> DEFINE settled == Reached(Len(s) + 1, text)
  <2>1. ~lacks BY DEF lacks, Lacks
  <2>2. ReadParameter(s, NoneRead, comments) = settled BY <1>11, <2>1
  <2>3. ReadParameter(s, settled, comments) = settled /\ Len(s) \in Nat
    <3> DEFINE at == Len(s) + 1
    <3>1. at = Len(s) + 1 OBVIOUS
    <3> HIDE DEF at
    <3>2. ReadParameter(s, Reached(at, text), comments) = Reached(at, text) BY <3>1, EndStays
    <3> QED BY <1>1, <3>1, <3>2, LenProperties
  <2>4. settled.ok /\ settled.found = good /\ \E p \in settled.found : p.name = <<"name">> BY Outcomes
  <2> HIDE DEF settled, good
  <2>5. Parameters(s, 1, comments) = IF settled.ok /\ (\E p \in settled.found : p.name = <<"name">>) THEN Good(settled.found) ELSE Bad
    BY <2>2, <2>3, OneTurn
  <2> QED BY <2>4, <2>5
<1> QED BY <1>14, <1>15, Zenon DEF QuotedAs
----------------------------------------
(* Multipart bodies. *)

\* The least of some places, if there is one.
LEMMA FirstOf ==
    ASSUME NEW T \in SUBSET Nat, 0 \notin T
    PROVE  (First(T) = 0 <=> T = {}) /\ (T # {} => First(T) \in T /\ \A k \in T : First(T) <= k)
<1>1. CASE T = {} BY <1>1 DEF First
<1>2. CASE T # {}
  <2>1. First(T) = Min(T) BY <1>2 DEF First
  <2>2. Min(T) \in T /\ \A k \in T : Min(T) <= k BY <1>2, MinOf
  <2> QED BY <1>2, <2>1, <2>2
<1> QED BY <1>1, <1>2

Parts == [header : Seq(Bodies), data : Seq(Bodies)]
Readings == [at : Nat, parts : Seq(Parts), over : BOOLEAN, ok : BOOLEAN]
\* Where the headers of a part end, where the part ends, and the part.
HeaderOf(s, after) == Seek(s, <<"n", "n">>, after + 1)
MarkerOf(s, header) == NextMarker(s, header + 2)
PartOf(s, after, header, marker) == [header |-> SubSeq(s, after + 1, header - 1), data |-> SubSeq(s, header + 2, marker - 1)]
MostOf(header) == IF PartKind(header) = "f" THEN MaxField ELSE MaxFile
\* A part can be read.
Readable(s, count, after, header, marker) ==
    /\ Is(s, after, <<"n">>) /\ header # 0 /\ marker # 0 /\ ~(count >= MaxParts)
    /\ PartKind(SubSeq(s, after + 1, header - 1)) # "bad"
    /\ ~(marker - header - 2 > MostOf(SubSeq(s, after + 1, header - 1)))
Ends(s, after) == after = Len(s) \/ (after + 1 = Len(s) /\ s[Len(s)] = "n")

\* One turn.
LEMMA PartTurn ==
    ASSUME NEW s, NEW now, NEW after, NEW header, NEW marker, after = now.at + 1,
           header = HeaderOf(s, after), marker = MarkerOf(s, header)
    PROVE  /\ now.over => ReadPart(s, now) = now
           /\ ~now.over /\ Is(s, after, <<"-">>) => ReadPart(s, now) = [now EXCEPT !.over = TRUE, !.ok = Ends(s, after)]
           /\ ~now.over /\ ~Is(s, after, <<"-">>) /\ Readable(s, Len(now.parts), after, header, marker) =>
                ReadPart(s, now) = [now EXCEPT !.at = marker + 1, !.parts = Append(now.parts, PartOf(s, after, header, marker))]
           /\ ~now.over /\ ~Is(s, after, <<"-">>) /\ ~Readable(s, Len(now.parts), after, header, marker) =>
                ReadPart(s, now) = [now EXCEPT !.over = TRUE]
<1>1. now.over => ReadPart(s, now) = now BY DEF ReadPart
<1>2. ~now.over /\ Is(s, after, <<"-">>) => ReadPart(s, now) = [now EXCEPT !.over = TRUE, !.ok = Ends(s, after)]
  BY DEF ReadPart, Ends
<1>3. ~now.over /\ ~Is(s, after, <<"-">>) /\ Readable(s, Len(now.parts), after, header, marker) =>
        ReadPart(s, now) = [now EXCEPT !.at = marker + 1, !.parts = Append(now.parts, PartOf(s, after, header, marker))]
  BY DEF ReadPart, Readable, PartOf, HeaderOf, MarkerOf, MostOf
<1>4. ~now.over /\ ~Is(s, after, <<"-">>) /\ ~Readable(s, Len(now.parts), after, header, marker) =>
        ReadPart(s, now) = [now EXCEPT !.over = TRUE]
  BY DEF ReadPart, Readable, HeaderOf, MarkerOf, MostOf
<1> QED BY <1>1, <1>2, <1>3, <1>4

\* A byte at a place.
LEMMA IsOne ==
    ASSUME NEW s \in Seq(Bodies), NEW i \in Nat, i # 0, NEW a \in Bodies
    PROVE  Is(s, i, <<a>>) <=> (i <= Len(s) /\ s[i] = a)
<1> DEFINE w == <<a>>
           u == SubSeq(s, i, i)
<1>0. Len(s) \in Nat /\ DOMAIN s = 1..Len(s) /\ \A k \in 1..Len(s) : s[k] \in Bodies
  BY LenProperties, ElementOfSeq
<1>1. w \in Seq(Bodies) /\ Len(w) = 1 /\ w[1] = a OBVIOUS
<1>2. Is(s, i, w) <=> (i <= Len(s) /\ u = w)
  <2>1. i + 1 - 1 = i OBVIOUS
  <2> HIDE DEF w
  <2> QED BY <1>1, <2>1 DEF Is
<1> HIDE DEF w, u
<1>3. ASSUME i <= Len(s) PROVE u = w <=> s[i] = a
  <2>1. \A k \in i..i : s[k] \in Bodies BY <1>0, <1>3
  <2>2. u \in Seq(Bodies) /\ Len(u) = (IF i <= i THEN i - i + 1 ELSE 0) /\ \A k \in 1..(i - i + 1) : u[k] = s[i + k - 1]
    BY <2>1, SubSeqProperties DEF u
  <2>3. Len(u) = 1 /\ u[1] = s[i]
    <3>1. 1 \in 1..(i - i + 1) /\ i + 1 - 1 = i /\ i - i + 1 = 1 OBVIOUS
    <3> QED BY <2>2, <3>1
  <2>4. u[1] = w[1] => u = w
    <3> SUFFICES ASSUME u[1] = w[1] PROVE u = w OBVIOUS
    <3>1. \A k \in 1..Len(u) : u[k] = w[k]
      <4>1. \A k \in 1..1 : k = 1 OBVIOUS
      <4> QED BY <2>3, <4>1
    <3> QED BY <1>1, <2>2, <2>3, <3>1, SeqEqual
  <2> QED BY <1>1, <2>3, <2>4
<1> QED BY <1>2, <1>3 DEF w

\* Two bytes at a place.
LEMMA IsTwo ==
    ASSUME NEW s \in Seq(Bodies), NEW i \in Nat, i # 0, NEW a \in Bodies, NEW b \in Bodies
    PROVE  Is(s, i, <<a, b>>) <=> (i + 1 <= Len(s) /\ s[i] = a /\ s[i + 1] = b)
<1> DEFINE w == <<a, b>>
           j == i + 1
           u == SubSeq(s, i, j)
<1>0. Len(s) \in Nat /\ DOMAIN s = 1..Len(s) /\ \A k \in 1..Len(s) : s[k] \in Bodies
  BY LenProperties, ElementOfSeq
<1>1. w \in Seq(Bodies) /\ Len(w) = 2 /\ w[1] = a /\ w[2] = b OBVIOUS
<1>2. Is(s, i, w) <=> (j <= Len(s) /\ u = w)
  <2>1. i + 2 - 1 = j OBVIOUS
  <2> HIDE DEF w, j
  <2> QED BY <1>1, <2>1 DEF Is
<1>a. j = i + 1 /\ j \in Nat OBVIOUS
<1> HIDE DEF w, u, j
<1>3. ASSUME j <= Len(s) PROVE u = w <=> (s[i] = a /\ s[j] = b)
  <2>1. \A k \in i..j : s[k] \in Bodies BY <1>0, <1>a, <1>3
  <2>2. u \in Seq(Bodies) /\ Len(u) = (IF i <= j THEN j - i + 1 ELSE 0) /\ \A k \in 1..(j - i + 1) : u[k] = s[i + k - 1]
    BY <1>a, <2>1, SubSeqProperties DEF u
  <2>3. Len(u) = 2 /\ u[1] = s[i] /\ u[2] = s[j]
    <3>1. 1 \in 1..(j - i + 1) /\ i + 1 - 1 = i /\ 2 \in 1..(j - i + 1) /\ i + 2 - 1 = j /\ i <= j /\ j - i + 1 = 2
      BY <1>a
    <3> QED BY <2>2, <3>1
  <2>4. u[1] = w[1] /\ u[2] = w[2] => u = w
    <3> SUFFICES ASSUME u[1] = w[1], u[2] = w[2] PROVE u = w OBVIOUS
    <3>1. \A k \in 1..Len(u) : u[k] = w[k]
      <4>1. \A k \in 1..2 : k = 1 \/ k = 2 OBVIOUS
      <4> QED BY <2>3, <4>1
    <3> QED BY <1>1, <2>2, <2>3, <3>1, SeqEqual
  <2> QED BY <1>1, <2>3, <2>4
<1> QED BY <1>2, <1>3, <1>a DEF w

\* The bytes of a body.
LEMMA Symbols == {"B", "n", "-", "f", "u", "g", "c", "x"} = Bodies
  BY DEF Bodies

\* Where the headers of a part end.
LEMMA HeaderIs ==
    ASSUME NEW s \in Seq(Bodies), NEW after \in Nat, NEW header, header = HeaderOf(s, after)
    PROVE  /\ header # 0 => /\ header \in Nat /\ after + 1 <= header /\ header + 1 <= Len(s)
                            /\ s[header] = "n" /\ s[header + 1] = "n"
           /\ \A j \in Nat : after + 1 <= j /\ j + 1 <= Len(s) /\ s[j] = "n" /\ s[j + 1] = "n" =>
                header # 0 /\ header <= j
<1> DEFINE w == <<"n", "n">>
           T == {j \in (after + 1)..Len(s) : Is(s, j, w)}
<1>0. Len(s) \in Nat /\ "n" \in Bodies BY LenProperties, Symbols
<1>1. \A j \in Nat : j # 0 => (Is(s, j, w) <=> (j + 1 <= Len(s) /\ s[j] = "n" /\ s[j + 1] = "n"))
  BY <1>0, IsTwo
<1>2. header = First(T) BY DEF HeaderOf, Seek
<1> HIDE DEF w
<1>3. T \in SUBSET Nat /\ 0 \notin T BY <1>0
<1>4. \A j \in Nat : j \in T <=> (after + 1 <= j /\ j + 1 <= Len(s) /\ s[j] = "n" /\ s[j + 1] = "n")
  <2> TAKE j \in Nat
  <2>1. j \in T <=> (after + 1 <= j /\ j <= Len(s) /\ Is(s, j, w)) BY <1>0
  <2>2. after + 1 <= j => j # 0 OBVIOUS
  <2>3. j + 1 <= Len(s) => j <= Len(s) BY <1>0
  <2> HIDE DEF T
  <2> QED BY <1>1, <2>1, <2>2, <2>3
<1> HIDE DEF T
<1>5. (header = 0 <=> T = {}) /\ (T # {} => header \in T /\ \A k \in T : header <= k) BY <1>2, <1>3, FirstOf
<1> QED BY <1>3, <1>4, <1>5

\* Where a part ends.
LEMMA MarkerIs ==
    ASSUME NEW s \in Seq(Bodies), NEW header \in Nat, NEW marker, marker = MarkerOf(s, header)
    PROVE  /\ marker # 0 => /\ marker \in Nat /\ header + 2 <= marker /\ marker + 1 <= Len(s)
                            /\ s[marker] = "n" /\ s[marker + 1] = "B" /\ EndsPart(s, marker + 2)
           /\ \A j \in Nat : header + 2 <= j /\ j + 1 <= Len(s) /\ s[j] = "n" /\ s[j + 1] = "B" /\ EndsPart(s, j + 2) =>
                marker # 0 /\ marker <= j
<1> DEFINE w == <<"n", "B">>
           T == {j \in (header + 2)..Len(s) : Is(s, j, w) /\ EndsPart(s, j + 2)}
<1>0. Len(s) \in Nat /\ "n" \in Bodies /\ "B" \in Bodies BY LenProperties, Symbols
<1>1. \A j \in Nat : j # 0 => (Is(s, j, w) <=> (j + 1 <= Len(s) /\ s[j] = "n" /\ s[j + 1] = "B"))
  BY <1>0, IsTwo
<1>2. marker = First(T) BY DEF MarkerOf, NextMarker
<1> HIDE DEF w
<1>3. T \in SUBSET Nat /\ 0 \notin T BY <1>0
<1>4. \A j \in Nat : j \in T <=> (header + 2 <= j /\ j + 1 <= Len(s) /\ s[j] = "n" /\ s[j + 1] = "B" /\ EndsPart(s, j + 2))
  <2> TAKE j \in Nat
  <2>1. j \in T <=> (header + 2 <= j /\ j <= Len(s) /\ Is(s, j, w) /\ EndsPart(s, j + 2)) BY <1>0
  <2>2. header + 2 <= j => j # 0 OBVIOUS
  <2>3. j + 1 <= Len(s) => j <= Len(s) BY <1>0
  <2> HIDE DEF T
  <2> QED BY <1>1, <2>1, <2>2, <2>3
<1> HIDE DEF T
<1>5. (marker = 0 <=> T = {}) /\ (T # {} => marker \in T /\ \A k \in T : marker <= k) BY <1>2, <1>3, FirstOf
<1> QED BY <1>3, <1>4, <1>5

\* A part of a body.
LEMMA Slice ==
    ASSUME NEW s \in Seq(Bodies), NEW a \in Nat, NEW b \in Nat, b <= Len(s), a <= b
    PROVE  /\ SubSeq(s, a + 1, b) \in Seq(Bodies) /\ Len(SubSeq(s, a + 1, b)) = b - a
           /\ \A i \in 1..(b - a) : SubSeq(s, a + 1, b)[i] = s[a + i]
<1> DEFINE c == a + 1
           u == SubSeq(s, c, b)
<1>0. Len(s) \in Nat /\ \A k \in 1..Len(s) : s[k] \in Bodies BY LenProperties, ElementOfSeq
<1>1. \A k \in c..b : s[k] \in Bodies BY <1>0
<1>2. c \in Int /\ b \in Int OBVIOUS
<1> HIDE DEF c, u
<1>3. u \in Seq(Bodies) /\ Len(u) = (IF c <= b THEN b - c + 1 ELSE 0) /\ \A k \in 1..(b - c + 1) : u[k] = s[c + k - 1]
  BY <1>1, <1>2, SubSeqProperties DEF u
<1>4. b - c + 1 = b - a /\ (IF c <= b THEN b - c + 1 ELSE 0) = b - a /\ \A k \in 1..(b - a) : c + k - 1 = a + k
  BY DEF c
<1> QED BY <1>3, <1>4 DEF u, c

\* A part that is read consists of bytes of the body.
PartSits(s, after, header, marker) ==
    /\ header \in Nat /\ marker \in Nat /\ after + 1 <= header /\ header + 2 <= marker /\ marker + 1 <= Len(s)
    /\ s[header] = "n" /\ s[header + 1] = "n" /\ s[marker] = "n" /\ s[marker + 1] = "B"
    /\ PartOf(s, after, header, marker) \in Parts
    /\ PartOf(s, after, header, marker).header = SubSeq(s, after + 1, header - 1)
    /\ PartOf(s, after, header, marker).data = SubSeq(s, header + 2, marker - 1)
\* A part that is readable lies where it was found.
LEMMA PartIs ==
    ASSUME NEW s \in Seq(Bodies), NEW after \in Nat, NEW header, NEW marker, NEW count, header = HeaderOf(s, after),
           marker = MarkerOf(s, header), Readable(s, count, after, header, marker)
    PROVE  PartSits(s, after, header, marker)
<1>0. Len(s) \in Nat BY LenProperties
<1>1. header # 0 /\ marker # 0 BY DEF Readable
<1>2. header \in Nat /\ after + 1 <= header /\ header + 1 <= Len(s) /\ s[header] = "n" /\ s[header + 1] = "n"
  BY <1>1, HeaderIs
<1>3. marker \in Nat /\ header + 2 <= marker /\ marker + 1 <= Len(s) /\ s[marker] = "n" /\ s[marker + 1] = "B"
  BY <1>1, <1>2, MarkerIs, SMTT(30)
<1> DEFINE h == SubSeq(s, after + 1, header - 1)
           d == SubSeq(s, header + 2, marker - 1)
<1>4. h \in Seq(Bodies)
  <2> DEFINE b == header - 1
  <2>1. b \in Nat /\ b <= Len(s) /\ after <= b BY <1>0, <1>2
  <2> HIDE DEF b
  <2>2. SubSeq(s, after + 1, b) \in Seq(Bodies) BY <2>1, Slice
  <2> QED BY <2>2 DEF b
<1>5. d \in Seq(Bodies)
  <2> DEFINE a == header + 1
             b == marker - 1
  <2>0. Len(s) \in Nat /\ header \in Nat /\ marker \in Nat /\ header + 2 <= marker /\ marker + 1 <= Len(s)
    BY <1>0, <1>2, <1>3
  <2>1. b \in Nat /\ b <= Len(s) /\ a <= b /\ a \in Nat /\ a + 1 = header + 2 BY <2>0
  <2> HIDE DEF a, b
  <2>2. SubSeq(s, a + 1, b) \in Seq(Bodies) BY <2>1, Slice
  <2> QED BY <2>1, <2>2 DEF b
<1> HIDE DEF h, d
<1>6. [header |-> h, data |-> d] \in Parts BY <1>4, <1>5 DEF Parts
<1>7. PartOf(s, after, header, marker) = [header |-> h, data |-> d] BY DEF PartOf, h, d
<1>8. PartOf(s, after, header, marker).header = h /\ PartOf(s, after, header, marker).data = d BY <1>7
<1> QED BY <1>1, <1>2, <1>3, <1>6, <1>7, <1>8 DEF h, d, PartSits

\* One turn of parse_multipart leaves a state of the loop.
LEMMA PartKeeps == ASSUME NEW s \in Seq(Bodies), NEW now \in Readings PROVE ReadPart(s, now) \in Readings
<1> DEFINE after == now.at + 1
           header == HeaderOf(s, after)
           marker == MarkerOf(s, header)
           new == ReadPart(s, now)
<1>0. now.at \in Nat /\ now.parts \in Seq(Parts) /\ now.over \in BOOLEAN /\ now.ok \in BOOLEAN /\ after \in Nat
  BY DEF Readings
<1>1. /\ now.over => new = now
      /\ ~now.over /\ Is(s, after, <<"-">>) => new = [now EXCEPT !.over = TRUE, !.ok = Ends(s, after)]
      /\ ~now.over /\ ~Is(s, after, <<"-">>) /\ Readable(s, Len(now.parts), after, header, marker) =>
           new = [now EXCEPT !.at = marker + 1, !.parts = Append(now.parts, PartOf(s, after, header, marker))]
      /\ ~now.over /\ ~Is(s, after, <<"-">>) /\ ~Readable(s, Len(now.parts), after, header, marker) =>
           new = [now EXCEPT !.over = TRUE]
  BY PartTurn
<1>2. Readable(s, Len(now.parts), after, header, marker) => marker + 1 \in Nat /\ PartOf(s, after, header, marker) \in Parts
  <2> HIDE DEF after, header, marker
  <2> SUFFICES ASSUME Readable(s, Len(now.parts), after, header, marker)
               PROVE  marker + 1 \in Nat /\ PartOf(s, after, header, marker) \in Parts
    OBVIOUS
  <2>1. header = HeaderOf(s, after) /\ marker = MarkerOf(s, header) BY DEF header, marker
  <2>3. PartSits(s, after, header, marker) BY <1>0, <2>1, PartIs
  <2>2. marker \in Nat /\ PartOf(s, after, header, marker) \in Parts BY <2>3 DEF PartSits
  <2> QED BY <2>2
<1>3. Readable(s, Len(now.parts), after, header, marker) => Append(now.parts, PartOf(s, after, header, marker)) \in Seq(Parts)
  BY <1>0, <1>2, AppendProperties
<1> HIDE DEF after, header, marker, new
<1>4. ASSUME NEW a \in Nat, NEW p \in Seq(Parts) PROVE [now EXCEPT !.at = a, !.parts = p] \in Readings
  BY <1>0, <1>4, Zenon DEF Readings
<1>5. [now EXCEPT !.over = TRUE] \in Readings BY <1>0, Zenon DEF Readings
<1>6. ASSUME NEW b \in BOOLEAN PROVE [now EXCEPT !.over = TRUE, !.ok = b] \in Readings
  BY <1>0, <1>6, Zenon DEF Readings
<1>7. Ends(s, after) \in BOOLEAN BY DEF Ends
<1>9. CASE now.over
  <2>1. new = now BY <1>1, <1>9, Zenon
  <2> QED BY <2>1, Zenon DEF new
<1>10. CASE ~now.over /\ Is(s, after, <<"-">>)
  <2>1. new = [now EXCEPT !.over = TRUE, !.ok = Ends(s, after)] BY <1>1, <1>10, Zenon
  <2>2. [now EXCEPT !.over = TRUE, !.ok = Ends(s, after)] \in Readings BY <1>6, <1>7, Zenon
  <2> QED BY <2>1, <2>2, Zenon DEF new
<1>11. CASE ~now.over /\ ~Is(s, after, <<"-">>) /\ Readable(s, Len(now.parts), after, header, marker)
  <2>1. new = [now EXCEPT !.at = marker + 1, !.parts = Append(now.parts, PartOf(s, after, header, marker))]
    BY <1>1, <1>11, Zenon
  <2>2. [now EXCEPT !.at = marker + 1, !.parts = Append(now.parts, PartOf(s, after, header, marker))] \in Readings
    BY <1>2, <1>3, <1>4, <1>11, Zenon
  <2> QED BY <2>1, <2>2, Zenon DEF new
<1>12. CASE ~now.over /\ ~Is(s, after, <<"-">>) /\ ~Readable(s, Len(now.parts), after, header, marker)
  <2>1. new = [now EXCEPT !.over = TRUE] BY <1>1, <1>12, Zenon
  <2> QED BY <1>5, <2>1, Zenon DEF new
<1> QED BY <1>9, <1>10, <1>11, <1>12 DEF new

AtFirst(s) == [at |-> 1, parts |-> <<>>, over |-> ~Is(s, 1, <<"B">>), ok |-> FALSE]
ReadAfter(s, m) == Iterated(LAMBDA now, k : ReadPart(s, now), AtFirst(s), m)
\* So does its start.
LEMMA AtFirstIs == ASSUME NEW s PROVE AtFirst(s) \in Readings
<1> DEFINE b == ~Is(s, 1, <<"B">>)
           c == FALSE
           e == <<>>
<1>1. b \in BOOLEAN /\ c \in BOOLEAN OBVIOUS
<1>2. e \in Seq(Parts) /\ 1 \in Nat OBVIOUS
<1> HIDE DEF b, c, e
<1>3. [at |-> 1, parts |-> e, over |-> b, ok |-> c] \in Readings BY <1>1, <1>2, Zenon DEF Readings
<1> QED BY <1>3 DEF AtFirst, b, c, e

\* What a client writes of a part.
LEMMA WrittenIs ==
    ASSUME NEW p \in Parts
    PROVE  /\ WrittenPart(p) \in Seq(Bodies) /\ Len(p.header) \in Nat /\ Len(p.data) \in Nat
           /\ p.header \in Seq(Bodies) /\ p.data \in Seq(Bodies) /\ p = [header |-> p.header, data |-> p.data]
           /\ Len(WrittenPart(p)) = 5 + Len(p.header) + Len(p.data)
           /\ WrittenPart(p)[1] = "B" /\ WrittenPart(p)[2] = "n"
           /\ \A i \in 1..Len(p.header) : WrittenPart(p)[2 + i] = p.header[i]
           /\ WrittenPart(p)[2 + Len(p.header) + 1] = "n" /\ WrittenPart(p)[2 + Len(p.header) + 2] = "n"
           /\ \A i \in 1..Len(p.data) : WrittenPart(p)[4 + Len(p.header) + i] = p.data[i]
           /\ WrittenPart(p)[4 + Len(p.header) + Len(p.data) + 1] = "n"
<1> DEFINE h == p.header
           d == p.data
           A == <<"B", "n">>
           C == <<"n", "n">>
           E == <<"n">>
           X == A \o h
           Y == X \o C
           Z == Y \o d
           w == Z \o E
           H == Len(h)
           D == Len(d)
<1>0. h \in Seq(Bodies) /\ d \in Seq(Bodies) /\ p = [header |-> h, data |-> d] BY DEF Parts
<1>1. A \in Seq(Bodies) /\ Len(A) = 2 /\ A[1] = "B" /\ A[2] = "n" BY Symbols
<1>2. C \in Seq(Bodies) /\ Len(C) = 2 /\ C[1] = "n" /\ C[2] = "n" BY Symbols
<1>3. E \in Seq(Bodies) /\ Len(E) = 1 /\ E[1] = "n" BY Symbols
<1>4. w = WrittenPart(p) BY DEF WrittenPart
<1> HIDE DEF A, C, E, h, d
<1>5. Appended(Bodies, A, h, 2, X) BY <1>0, <1>1, Appending
<1>6. X \in Seq(Bodies) /\ H \in Nat /\ Len(X) = 2 + H /\ (\A i \in 1..2 : X[i] = A[i]) /\ \A i \in 1..H : X[2 + i] = h[i]
  BY <1>5 DEF Appended
<1> HIDE DEF X
<1>7. Appended(Bodies, X, C, 2 + H, Y) BY <1>2, <1>6, Appending
<1>8. Y \in Seq(Bodies) /\ Len(Y) = 2 + H + 2 /\ (\A i \in 1..(2 + H) : Y[i] = X[i]) /\ \A i \in 1..2 : Y[2 + H + i] = C[i]
  BY <1>2, <1>7 DEF Appended
<1> HIDE DEF Y
<1>9. Appended(Bodies, Y, d, 2 + H + 2, Z) BY <1>0, <1>8, Appending
<1>10. /\ Z \in Seq(Bodies) /\ D \in Nat /\ Len(Z) = 2 + H + 2 + D
       /\ (\A i \in 1..(2 + H + 2) : Z[i] = Y[i]) /\ \A i \in 1..D : Z[2 + H + 2 + i] = d[i]
  BY <1>9 DEF Appended
<1> HIDE DEF Z
<1>11. Appended(Bodies, Z, E, 2 + H + 2 + D, w) BY <1>3, <1>10, Appending
<1>12. /\ w \in Seq(Bodies) /\ Len(w) = 2 + H + 2 + D + 1
       /\ (\A i \in 1..(2 + H + 2 + D) : w[i] = Z[i]) /\ \A i \in 1..1 : w[2 + H + 2 + D + i] = E[i]
  BY <1>3, <1>11 DEF Appended
<1> HIDE DEF w, H, D
<1>13. Len(w) = 5 + H + D BY <1>6, <1>10, <1>12
<1>14. w[1] = "B" /\ w[2] = "n"
  <2>1. \A i \in 1..2 : i \in 1..(2 + H) /\ i \in 1..(2 + H + 2) /\ i \in 1..(2 + H + 2 + D) BY <1>6, <1>10
  <2>2. \A i \in 1..2 : w[i] = A[i] BY <1>6, <1>8, <1>10, <1>12, <2>1
  <2> QED BY <1>1, <2>2
<1>15. \A i \in 1..H : w[2 + i] = h[i]
  <2> TAKE i \in 1..H
  <2>1. 2 + i \in 1..(2 + H) /\ 2 + i \in 1..(2 + H + 2) /\ 2 + i \in 1..(2 + H + 2 + D) BY <1>6, <1>10
  <2> QED BY <1>6, <1>8, <1>10, <1>12, <2>1
<1>16. w[2 + H + 1] = "n" /\ w[2 + H + 2] = "n"
  <2>1. \A i \in 1..2 : 2 + H + i \in 1..(2 + H + 2) /\ 2 + H + i \in 1..(2 + H + 2 + D) BY <1>6, <1>10
  <2>2. \A i \in 1..2 : w[2 + H + i] = C[i] BY <1>8, <1>10, <1>12, <2>1, ZenonT(60)
  <2> QED BY <1>2, <2>2
<1>17. \A i \in 1..D : w[4 + H + i] = d[i]
  <2> TAKE i \in 1..D
  <2>1. 2 + H + 2 + i \in 1..(2 + H + 2 + D) /\ 2 + H + 2 + i = 4 + H + i BY <1>6, <1>10
  <2> QED BY <1>10, <1>12, <2>1
<1>18. w[4 + H + D + 1] = "n"
  <2>1. 1 \in 1..1 /\ 2 + H + 2 + D + 1 = 4 + H + D + 1 BY <1>6, <1>10
  <2> QED BY <1>3, <1>12, <2>1
<1> QED BY <1>0, <1>4, <1>6, <1>10, <1>12, <1>13, <1>14, <1>15, <1>16, <1>17, <1>18 DEF H, D, h, d

\* The parts of a body, one after the other.
LEMMA PartTurns ==
    ASSUME NEW s \in Seq(Bodies)
    PROVE  \E f \in [0..Len(s) -> Readings] :
             /\ f[0] = AtFirst(s) /\ \A k \in 0..(Len(s) - 1) : f[k + 1] = ReadPart(s, f[k])
             /\ \A m \in 0..Len(s) : ReadAfter(s, m) = f[m]
<1> DEFINE n == Len(s)
           V == Readings
           start == AtFirst(s)
           T(v, k) == ReadPart(s, v)
           G == [p \in V \X (1..n) |-> T(p[1], p[2])]
           Eq(g, m) == g = [k \in 0..m |-> IF k = 0 THEN start ELSE T(g[k - 1], k)]
           F(m) == ReadAfter(s, m)
<1>0. n \in Nat /\ start \in V BY LenProperties, AtFirstIs
<1>1. \A v \in V, k \in 1..n : T(v, k) \in V BY PartKeeps
<1> HIDE DEF n
<1>3. ASSUME NEW m, NEW c, c = CHOOSE g : Eq(g, m) PROVE F(m) = c[m] BY <1>3 DEF Iterated, ReadAfter
<1> HIDE DEF T, V, start, F
<1>5. PICK f : f \in [0..n -> V] /\ f[0] = start /\ \A k \in 0..(n - 1) : f[k + 1] = T(f[k], k + 1)
  <2>1. G \in [V \X (1..n) -> V] /\ \A v \in V, k \in 1..n : G[<<v, k>>] = T(v, k) BY <1>1
  <2> HIDE DEF G
  <2>2. PICK f : Runs(f, n, V, start, G) BY <1>0, <2>1, LoopOf
  <2>3. \A k \in 0..(n - 1) : k + 1 \in 1..n /\ f[k] \in V BY <1>0, <2>2 DEF Runs
  <2> QED BY <2>1, <2>2, <2>3 DEF Runs
<1> HIDE DEF G
<1>7. ASSUME NEW m \in 0..n PROVE F(m) = f[m]
  <2> DEFINE c == CHOOSE g : Eq(g, m)
             h == [k \in 0..m |-> f[k]]
  <2>1. TurnsUpTo(n, m) BY <1>0, TurnsUpToIs
  <2>2. Eq(h, m)
    <3>1. \A k \in 0..m : h[k] = IF k = 0 THEN start ELSE T(h[k - 1], k) BY <1>5, <2>1 DEF TurnsUpTo
    <3>2. h = [k \in 0..m |-> h[k]] OBVIOUS
    <3> HIDE DEF h
    <3> QED BY <3>1, <3>2
  <2>3. Eq(c, m) /\ F(m) = c[m] BY <1>3, <2>2
  <2> HIDE DEF c
  <2>4. c[0] = f[0] /\ \A k \in 0..(m - 1) : c[k] = f[k] => c[k + 1] = f[k + 1]
    BY <1>5, <2>1, <2>3 DEF TurnsUpTo
  <2>5. Agree(c, f, m) /\ m \in Nat /\ m \in 0..m BY <2>1, <2>4 DEF Agree, TurnsUpTo
  <2> QED BY <2>3, <2>5, SameTurns
<1> QED BY <1>5, <1>7 DEF n, V, start, T, F

\* The parts that a client writes, one after the other.
LEMMA WrittenTurns ==
    ASSUME NEW parts \in Seq(Parts)
    PROVE  \E f \in [0..Len(parts) -> Seq(Bodies)] :
             /\ f[0] = <<>> /\ \A k \in 0..(Len(parts) - 1) : f[k + 1] = f[k] \o WrittenPart(parts[(k + 1)])
             /\ \A m \in 0..Len(parts) : WrittenParts(parts, m) = f[m]
<1> DEFINE n == Len(parts)
           V == Seq(Bodies)
           start == <<>>
           T(v, k) == v \o WrittenPart(parts[k])
           G == [p \in V \X (1..n) |-> T(p[1], p[2])]
           Eq(g, m) == g = [k \in 0..m |-> IF k = 0 THEN start ELSE T(g[k - 1], k)]
           F(m) == WrittenParts(parts, m)
<1>0. n \in Nat /\ start \in V BY LenProperties
<1>1. \A v \in V, k \in 1..n : T(v, k) \in V
  <2> TAKE v \in V, k \in 1..n
  <2>1. parts[k] \in Parts BY ElementOfSeq
  <2>2. WrittenPart(parts[k]) \in Seq(Bodies) BY <2>1, WrittenIs
  <2> QED BY <2>2, ConcatProperties
<1> HIDE DEF n
<1>3. ASSUME NEW m, NEW c, c = CHOOSE g : Eq(g, m) PROVE F(m) = c[m] BY <1>3 DEF Iterated, WrittenParts
<1> HIDE DEF T, V, start, F
<1>5. PICK f : f \in [0..n -> V] /\ f[0] = start /\ \A k \in 0..(n - 1) : f[k + 1] = T(f[k], k + 1)
  <2>1. G \in [V \X (1..n) -> V] /\ \A v \in V, k \in 1..n : G[<<v, k>>] = T(v, k) BY <1>1
  <2> HIDE DEF G
  <2>2. PICK f : Runs(f, n, V, start, G) BY <1>0, <2>1, LoopOf
  <2>3. \A k \in 0..(n - 1) : k + 1 \in 1..n /\ f[k] \in V BY <1>0, <2>2 DEF Runs
  <2> QED BY <2>1, <2>2, <2>3 DEF Runs
<1> HIDE DEF G
<1>7. ASSUME NEW m \in 0..n PROVE F(m) = f[m]
  <2> DEFINE c == CHOOSE g : Eq(g, m)
             h == [k \in 0..m |-> f[k]]
  <2>1. TurnsUpTo(n, m) BY <1>0, TurnsUpToIs
  <2>2. Eq(h, m)
    <3>1. \A k \in 0..m : h[k] = IF k = 0 THEN start ELSE T(h[k - 1], k) BY <1>5, <2>1 DEF TurnsUpTo
    <3>2. h = [k \in 0..m |-> h[k]] OBVIOUS
    <3> HIDE DEF h
    <3> QED BY <3>1, <3>2
  <2>3. Eq(c, m) /\ F(m) = c[m] BY <1>3, <2>2
  <2> HIDE DEF c
  <2>4. c[0] = f[0] /\ \A k \in 0..(m - 1) : c[k] = f[k] => c[k + 1] = f[k + 1]
    BY <1>5, <2>1, <2>3 DEF TurnsUpTo
  <2>5. Agree(c, f, m) /\ m \in Nat /\ m \in 0..m BY <2>1, <2>4 DEF Agree, TurnsUpTo
  <2> QED BY <2>3, <2>5, SameTurns
<1> QED BY <1>5, <1>7 DEF n, V, start, T, F

\* What is written of more parts.
LEMMA WrittenNext ==
    ASSUME NEW parts \in Seq(Parts)
    PROVE  /\ Len(parts) \in Nat /\ WrittenParts(parts, 0) = <<>>
           /\ \A k \in 0..Len(parts) : WrittenParts(parts, k) \in Seq(Bodies) /\ Len(WrittenParts(parts, k)) \in Nat
           /\ \A k \in 0..(Len(parts) - 1) :
                parts[k + 1] \in Parts /\ WrittenParts(parts, k + 1) = WrittenParts(parts, k) \o WrittenPart(parts[k + 1])
<1> DEFINE n == Len(parts)
<1>0. n \in Nat BY LenProperties
<1>1. PICK f : /\ f \in [0..n -> Seq(Bodies)] /\ f[0] = <<>>
               /\ \A k \in 0..(n - 1) : f[k + 1] = f[k] \o WrittenPart(parts[(k + 1)])
               /\ \A m \in 0..n : WrittenParts(parts, m) = f[m]
  BY WrittenTurns
<1>2. \A k \in 1..n : parts[k] \in Parts BY ElementOfSeq
<1> HIDE DEF n
<1>3. ASSUME NEW k \in 0..n PROVE WrittenParts(parts, k) \in Seq(Bodies) /\ Len(WrittenParts(parts, k)) \in Nat
  BY <1>1, LenProperties
<1>4. ASSUME NEW k \in 0..(n - 1)
      PROVE  parts[k + 1] \in Parts /\ WrittenParts(parts, k + 1) = WrittenParts(parts, k) \o WrittenPart(parts[k + 1])
  <2>1. k \in 0..n /\ k + 1 \in 0..n /\ k + 1 \in 1..n BY <1>0
  <2> QED BY <1>1, <1>2, <2>1
<1>5. WrittenParts(parts, 0) = <<>> BY <1>0, <1>1
<1> QED BY <1>0, <1>3, <1>4, <1>5 DEF n

\* One part more is written behind the others.
LEMMA WrittenMore ==
    ASSUME NEW parts \in Seq(Parts), NEW p \in Parts
    PROVE  /\ Append(parts, p) \in Seq(Parts)
           /\ WrittenParts(Append(parts, p), Len(Append(parts, p))) = WrittenParts(parts, Len(parts)) \o WrittenPart(p)
<1> DEFINE n == Len(parts)
           more == Append(parts, p)
           m == n + 1
<1>1. more \in Seq(Parts) /\ Len(more) = n + 1 /\ (\A i \in 1..n : more[i] = parts[i]) /\ more[n + 1] = p
  BY AppendProperties
<1> HIDE DEF more
<1>2. /\ n \in Nat /\ WrittenParts(parts, 0) = <<>>
      /\ \A k \in 0..(n - 1) : WrittenParts(parts, k + 1) = WrittenParts(parts, k) \o WrittenPart(parts[k + 1])
  BY WrittenNext
<1>3. /\ WrittenParts(more, 0) = <<>>
      /\ \A k \in 0..(Len(more) - 1) : WrittenParts(more, k + 1) = WrittenParts(more, k) \o WrittenPart(more[k + 1])
  BY <1>1, WrittenNext
<1> HIDE DEF n
<1> DEFINE S == {k \in 0..n : WrittenParts(more, k) = WrittenParts(parts, k)}
<1>5. 0 \in S BY <1>2, <1>3
<1>6. ASSUME NEW k \in 0..(n - 1), k \in S PROVE k + 1 \in S
  <2>1. k \in 0..n /\ k + 1 \in 0..n /\ k \in 0..(Len(more) - 1) /\ k + 1 \in 1..n BY <1>1, <1>2
  <2> QED BY <1>1, <1>2, <1>3, <1>6, <2>1
<1> HIDE DEF S
<1>7. \A k \in 0..n : k \in S BY <1>2, <1>5, <1>6, UpTo
<1>8. WrittenParts(more, n) = WrittenParts(parts, n) BY <1>2, <1>7 DEF S
<1>9. WrittenParts(more, n + 1) = WrittenParts(more, n) \o WrittenPart(more[n + 1])
  <2>1. n \in 0..(Len(more) - 1) BY <1>1, <1>2
  <2> QED BY <1>3, <2>1
<1>10. WrittenParts(more, Len(more)) = WrittenParts(parts, n) \o WrittenPart(p) BY <1>1, <1>8, <1>9
<1> QED BY <1>1, <1>10 DEF more, n

\* The bytes of a part that is read are those it is written with.
PartAt(s, at, after, header, marker, count, p) ==
    /\ at \in Nat /\ at # 0 /\ s[at] = "B" /\ after = at + 1 /\ header = HeaderOf(s, after) /\ marker = MarkerOf(s, header)
    /\ Readable(s, count, after, header, marker) /\ p = PartOf(s, after, header, marker)
\* The bytes of a part that is read, one by one.
LEMMA PartBytes ==
    ASSUME NEW s \in Seq(Bodies), NEW at, NEW after, NEW header, NEW marker, NEW count, NEW p, PartAt(s, at, after, header, marker, count, p)
    PROVE  /\ p \in Parts /\ WrittenPart(p) \in Seq(Bodies) /\ marker \in Nat /\ at <= marker /\ marker + 1 <= Len(s) /\ s[marker + 1] = "B"
           /\ Len(WrittenPart(p)) = marker - at + 1
           /\ \A j \in 1..(marker - at + 1) : WrittenPart(p)[j] = s[(at - 1) + j]
<1> DEFINE H == Len(p.header)
           D == Len(p.data)
           w == WrittenPart(p)
<1>b. /\ at \in Nat /\ at # 0 /\ s[at] = "B" /\ after = at + 1 /\ header = HeaderOf(s, after) /\ marker = MarkerOf(s, header)
      /\ Readable(s, count, after, header, marker) /\ p = PartOf(s, after, header, marker)
  BY DEF PartAt
<1>0. at \in Nat /\ at # 0 /\ after \in Nat /\ Len(s) \in Nat /\ after = at + 1 BY <1>b, LenProperties
<1>1. /\ header \in Nat /\ marker \in Nat /\ after + 1 <= header /\ header + 2 <= marker /\ marker + 1 <= Len(s)
      /\ s[header] = "n" /\ s[header + 1] = "n" /\ s[marker] = "n" /\ s[marker + 1] = "B" /\ p \in Parts
      /\ p.header = SubSeq(s, after + 1, header - 1) /\ p.data = SubSeq(s, header + 2, marker - 1)
  <2>1. after \in Nat /\ header = HeaderOf(s, after) /\ marker = MarkerOf(s, header) /\ Readable(s, count, after, header, marker)
    BY <1>0, <1>b
  <2>2. p = PartOf(s, after, header, marker) BY <1>b
  <2>4. PartSits(s, after, header, marker) BY <2>1, PartIs
  <2>3. /\ header \in Nat /\ marker \in Nat /\ after + 1 <= header /\ header + 2 <= marker /\ marker + 1 <= Len(s)
        /\ s[header] = "n" /\ s[header + 1] = "n" /\ s[marker] = "n" /\ s[marker + 1] = "B"
        /\ PartOf(s, after, header, marker) \in Parts
        /\ PartOf(s, after, header, marker).header = SubSeq(s, after + 1, header - 1)
        /\ PartOf(s, after, header, marker).data = SubSeq(s, header + 2, marker - 1)
    BY <2>4 DEF PartSits
  <2> QED BY <2>2, <2>3
<1>2. H = header - 1 - after /\ \A i \in 1..H : p.header[i] = s[after + i]
  <2> DEFINE b == header - 1
  <2>0. header \in Nat /\ after \in Nat /\ Len(s) \in Nat /\ marker \in Nat /\ after + 1 <= header /\ header + 2 <= marker /\ marker + 1 <= Len(s)
    BY <1>0, <1>1
  <2>1. b \in Nat /\ b <= Len(s) /\ after <= b BY <2>0
  <2>2. p.header = SubSeq(s, after + 1, b) BY <1>1
  <2> HIDE DEF b
  <2>3. Len(p.header) = b - after /\ \A i \in 1..(b - after) : p.header[i] = s[after + i]
    BY <1>0, <2>1, <2>2, Slice
  <2> QED BY <2>3 DEF b
<1>3. D = marker - header - 2 /\ \A i \in 1..D : p.data[i] = s[header + 1 + i]
  <2> DEFINE b == marker - 1
             a == header + 1
  <2>0. header \in Nat /\ marker \in Nat /\ header + 2 <= marker /\ marker + 1 <= Len(s) BY <1>1
  <2>1. b \in Nat /\ b <= Len(s) /\ a <= b /\ a \in Nat /\ a + 1 = header + 2 /\ b - a = marker - header - 2
    BY <1>0, <2>0
  <2>2. p.data = SubSeq(s, a + 1, b) BY <1>1, <2>1
  <2> HIDE DEF a, b
  <2>3. Len(p.data) = b - a /\ \A i \in 1..(b - a) : p.data[i] = s[a + i] BY <1>0, <2>1, <2>2, Slice
  <2> QED BY <2>1, <2>3 DEF a
<1>4. Is(s, after, <<"n">>) BY <1>b DEF Readable
<1>5. s[after] = "n"
  <2>1. after # 0 /\ "n" \in Bodies BY <1>0, Symbols
  <2> QED BY <1>0, <1>4, <2>1, IsOne
<1>6. /\ w \in Seq(Bodies) /\ H \in Nat /\ D \in Nat
      /\ Len(w) = 5 + H + D /\ w[1] = "B" /\ w[2] = "n"
      /\ \A i \in 1..H : w[2 + i] = p.header[i]
      /\ w[2 + H + 1] = "n" /\ w[2 + H + 2] = "n"
      /\ \A i \in 1..D : w[4 + H + i] = p.data[i]
      /\ w[4 + H + D + 1] = "n"
  BY <1>1, WrittenIs
<1> HIDE DEF w, H, D
<1>a. at \in Nat /\ after = at + 1 /\ header \in Nat /\ marker \in Nat /\ H \in Nat /\ D \in Nat /\ H = header - 1 - after /\ D = marker - header - 2
  BY <1>0, <1>1, <1>2, <1>3, <1>6
<1>7. Len(w) = marker - at + 1 /\ marker - at + 1 = 5 + H + D /\ at <= marker
  <2>1. Len(w) = 5 + H + D BY <1>6
  <2>2. marker - at + 1 = 5 + H + D /\ at <= marker BY <1>a
  <2> QED BY <2>1, <2>2
<1>8. ASSUME NEW j \in 1..(5 + H + D) PROVE w[j] = s[(at - 1) + j]
  <2>1. \/ j = 1 \/ j = 2 \/ j - 2 \in 1..H \/ j = 2 + H + 1 \/ j = 2 + H + 2 \/ j - (4 + H) \in 1..D \/ j = 4 + H + D + 1
    BY <1>a
  <2>2. CASE j = 1
    <3>1. (at - 1) + j = at BY <1>a, <2>2
    <3> QED BY <1>b, <1>6, <2>2, <3>1
  <2>3. CASE j = 2
    <3>1. (at - 1) + j = after BY <1>a, <2>3
    <3> QED BY <1>5, <1>6, <2>3, <3>1
  <2>4. CASE j - 2 \in 1..H
    <3> DEFINE i == j - 2
    <3>1. i \in 1..H /\ 2 + i = j /\ after + i = (at - 1) + j BY <1>a, <2>4
    <3> HIDE DEF i
    <3>2. w[2 + i] = p.header[i] /\ p.header[i] = s[after + i] BY <1>2, <1>6, <3>1
    <3> QED BY <3>1, <3>2
  <2>5. CASE j = 2 + H + 1
    <3>1. (at - 1) + j = header BY <1>a, <2>5
    <3> QED BY <1>1, <1>6, <2>5, <3>1
  <2>6. CASE j = 2 + H + 2
    <3>1. (at - 1) + j = header + 1 BY <1>a, <2>6
    <3> QED BY <1>1, <1>6, <2>6, <3>1
  <2>7. CASE j - (4 + H) \in 1..D
    <3> DEFINE i == j - (4 + H)
    <3>1. i \in 1..D /\ 4 + H + i = j /\ header + 1 + i = (at - 1) + j BY <1>a, <2>7
    <3> HIDE DEF i
    <3>2. w[4 + H + i] = p.data[i] /\ p.data[i] = s[header + 1 + i] BY <1>3, <1>6, <3>1
    <3> QED BY <3>1, <3>2
  <2>8. CASE j = 4 + H + D + 1 BY <1>a, <2>8, <1>1, <1>6
  <2> QED BY <2>1, <2>2, <2>3, <2>4, <2>5, <2>6, <2>7, <2>8
<1>9. \A j \in 1..(marker - at + 1) : w[j] = s[(at - 1) + j] BY <1>7, <1>8
<1>10. /\ p \in Parts /\ marker \in Nat /\ marker + 1 <= Len(s) /\ s[marker + 1] = "B" BY <1>1
<1> QED BY <1>6, <1>7, <1>9, <1>10 DEF w

\* What lies in front of a place, and what follows.
Continues(s, a, b, w) ==
    /\ a \in Nat /\ b \in Nat /\ a <= b /\ b <= Len(s) /\ w \in Seq(Bodies) /\ Len(w) = b - a
    /\ \A j \in 1..(b - a) : w[j] = s[a + j]
\* What lies in front of a later place is what lies in front of an earlier one and what is between.
LEMMA Continued ==
    ASSUME NEW s \in Seq(Bodies), NEW a, NEW b, NEW w, Continues(s, a, b, w)
    PROVE  SubSeq(s, 1, a) \o w = SubSeq(s, 1, b)
<1> DEFINE x == SubSeq(s, 1, a)
           y == SubSeq(s, 1, b)
           z == x \o w
<1>a. /\ a \in Nat /\ b \in Nat /\ a <= b /\ b <= Len(s) /\ w \in Seq(Bodies) /\ Len(w) = b - a
      /\ \A j \in 1..(b - a) : w[j] = s[a + j]
  BY DEF Continues
<1>0. Len(s) \in Nat /\ 0 + 1 = 1 /\ a - 0 = a /\ b - 0 = b /\ 0 \in Nat /\ 0 <= a /\ 0 <= b /\ a <= Len(s)
  BY <1>a, LenProperties
<1>1. x \in Seq(Bodies) /\ Len(x) = a /\ \A i \in 1..a : x[i] = s[i]
  <2>1. /\ SubSeq(s, 0 + 1, a) \in Seq(Bodies) /\ Len(SubSeq(s, 0 + 1, a)) = a - 0
        /\ \A i \in 1..(a - 0) : SubSeq(s, 0 + 1, a)[i] = s[0 + i]
    BY <1>0, <1>a, Slice
  <2>2. \A i \in 1..a : 0 + i = i OBVIOUS
  <2> QED BY <1>0, <2>1, <2>2
<1>2. y \in Seq(Bodies) /\ Len(y) = b /\ \A i \in 1..b : y[i] = s[i]
  <2>1. /\ SubSeq(s, 0 + 1, b) \in Seq(Bodies) /\ Len(SubSeq(s, 0 + 1, b)) = b - 0
        /\ \A i \in 1..(b - 0) : SubSeq(s, 0 + 1, b)[i] = s[0 + i]
    BY <1>0, <1>a, Slice
  <2>2. \A i \in 1..b : 0 + i = i OBVIOUS
  <2> QED BY <1>0, <2>1, <2>2
<1> HIDE DEF x, y
<1>3. Appended(Bodies, x, w, a, z) BY <1>1, <1>a, Appending
<1>4. z \in Seq(Bodies) /\ Len(z) = b /\ (\A i \in 1..a : z[i] = x[i]) /\ \A i \in 1..(b - a) : z[a + i] = w[i]
  <2>1. z \in Seq(Bodies) /\ Len(z) = a + Len(w) /\ (\A i \in 1..a : z[i] = x[i]) /\ \A i \in 1..Len(w) : z[a + i] = w[i]
    BY <1>3 DEF Appended
  <2> HIDE DEF z
  <2>2. a + (b - a) = b BY <1>a
  <2> QED BY <1>a, <2>1, <2>2
<1> HIDE DEF z
<1>5. \A i \in 1..Len(z) : z[i] = y[i]
  <2> SUFFICES ASSUME NEW i \in 1..b PROVE z[i] = y[i] BY <1>4
  <2>1. CASE i <= a BY <1>a, <2>1, <1>1, <1>2, <1>4
  <2>2. CASE i > a
    <3> DEFINE j == i - a
    <3>1. j \in 1..(b - a) /\ a + j = i BY <1>a, <2>2
    <3> HIDE DEF j
    <3>2. z[a + j] = w[j] /\ w[j] = s[a + j] BY <1>4, <1>a, <3>1
    <3> QED BY <1>2, <1>a, <3>1, <3>2
  <2> QED BY <1>a, <2>1, <2>2
<1>6. z = y BY <1>2, <1>4, <1>5, SeqEqual
<1> QED BY <1>6 DEF x, y, z

\* What has been read of a body is the encoding of the parts found.
Spells(s, parts) == s \in {WriteMultipart(parts), Append(WriteMultipart(parts), "n")}
InFront(s, at, parts) ==
    at \in 1..Len(s) /\ s[at] = "B" /\ SubSeq(s, 1, at - 1) = WrittenParts(parts, Len(parts))
Spelled(s, now) ==
    /\ ~now.over => ~now.ok /\ InFront(s, now.at, now.parts)
    /\ now.ok => now.over /\ Spells(s, now.parts)

\* Before the first part nothing is spelled.
LEMMA SpelledFirst == ASSUME NEW s \in Seq(Bodies) PROVE Spelled(s, AtFirst(s))
<1> DEFINE e == <<>>
           b == ~Is(s, 1, <<"B">>)
           c == FALSE
           now == [at |-> 1, parts |-> e, over |-> b, ok |-> c]
<1>1. now.at = 1 /\ now.parts = e /\ now.over = b /\ now.ok = c
  <2> HIDE DEF b, c, e
  <2> QED OBVIOUS
<1>2. AtFirst(s) = now BY DEF AtFirst
<1>3. Is(s, 1, <<"B">>) <=> (1 <= Len(s) /\ s[1] = "B") BY IsOne, Symbols
<1>4. e \in Seq(Parts) /\ Len(e) = 0 /\ Len(s) \in Nat BY LenProperties
<1>5. WrittenParts(e, Len(e)) = <<>> BY <1>4, WrittenNext
<1>6. SubSeq(s, 1, 1 - 1) = <<>>
  <2>1. 1 - 1 < 1 /\ 1 - 1 \in Int OBVIOUS
  <2> QED BY <2>1, SubSeqEmpty
<1> HIDE DEF now, e
<1>7. Is(s, 1, <<"B">>) => InFront(s, 1, e)
  <2>1. Is(s, 1, <<"B">>) => 1 \in 1..Len(s) /\ s[1] = "B" BY <1>3, <1>4
  <2>2. SubSeq(s, 1, 1 - 1) = WrittenParts(e, Len(e)) BY <1>5, <1>6
  <2> QED BY <2>1, <2>2, Zenon DEF InFront
<1>8. ~now.over => InFront(s, now.at, now.parts) BY <1>1, <1>7, Zenon
<1>9. ~now.ok BY <1>1, Zenon
<1>10. Spelled(s, now) BY <1>8, <1>9, Zenon DEF Spelled
<1> QED BY <1>2, <1>10

\* The last delimiter.
LEMMA Closing ==
    ASSUME NEW s \in Seq(Bodies), NEW at, NEW parts \in Seq(Parts), InFront(s, at, parts), Is(s, at + 1, <<"-">>), Ends(s, at + 1)
    PROVE  Spells(s, parts)
<1> DEFINE a == at - 1
           b == at + 1
           W == WrittenParts(parts, Len(parts))
           w == <<"B", "-">>
           z == W \o w
           e == <<"n">>
<1>0. Len(s) \in Nat /\ "-" \in Bodies /\ "B" \in Bodies /\ "n" \in Bodies BY LenProperties, Symbols
<1>1. at \in 1..Len(s) /\ s[at] = "B" /\ SubSeq(s, 1, a) = W BY DEF InFront
<1>2. a \in Nat /\ b \in Nat /\ a <= b /\ b - a = 2 /\ a + 1 = at /\ a + 2 = b /\ b # 0 BY <1>0, <1>1
<1>3. b <= Len(s) /\ s[b] = "-"
  <2>1. Is(s, b, <<"-">>) OBVIOUS
  <2> HIDE DEF b
  <2> QED BY <1>0, <1>2, <2>1, IsOne
<1>4. b = Len(s) \/ (b + 1 = Len(s) /\ s[Len(s)] = "n") BY DEF Ends
<1>5. WriteMultipart(parts) = z BY DEF WriteMultipart
<1>6. w \in Seq(Bodies) /\ Len(w) = 2 /\ w[1] = "B" /\ w[2] = "-" BY <1>0
<1>7. e \in Seq(Bodies) /\ Len(e) = 1 /\ e[1] = "n" BY <1>0
<1>8. W \in Seq(Bodies)
  <2>1. Len(parts) \in 0..Len(parts) BY LenProperties
  <2> QED BY <2>1, WrittenNext
<1> HIDE DEF a, b, W, w, e
<1>9. SubSeq(s, 1, b) = z
  <2>1. \A j \in 1..(b - a) : w[j] = s[a + j]
    <3>1. \A j \in 1..2 : j = 1 \/ j = 2 OBVIOUS
    <3> QED BY <1>1, <1>2, <1>3, <1>6, <3>1
  <2>2. Continues(s, a, b, w) BY <1>2, <1>3, <1>6, <2>1 DEF Continues
  <2>3. SubSeq(s, 1, a) \o w = SubSeq(s, 1, b) BY <2>2, Continued
  <2> QED BY <1>1, <2>3
<1>10. z \in Seq(Bodies) BY <1>6, <1>8, ConcatProperties
<1> HIDE DEF z
<1>11. CASE b = Len(s)
  <2>1. s = z BY <1>9, <1>11, SubSeqFull
  <2> QED BY <1>5, <2>1 DEF Spells
<1>12. CASE b + 1 = Len(s) /\ s[Len(s)] = "n"
  <2> DEFINE m == b + 1
  <2>1. m \in Nat /\ b <= m /\ m - b = 1 /\ m = Len(s) /\ s[m] = "n" /\ b + 1 = m BY <1>2, <1>12
  <2> HIDE DEF m
  <2>2. \A j \in 1..(m - b) : e[j] = s[b + j]
    <3>1. \A j \in 1..1 : j = 1 OBVIOUS
    <3> QED BY <1>7, <2>1, <3>1
  <2>3. m <= Len(s) BY <2>1
  <2>7. Continues(s, b, m, e) BY <1>2, <1>7, <2>1, <2>2, <2>3 DEF Continues
  <2>4. SubSeq(s, 1, b) \o e = SubSeq(s, 1, m) BY <2>7, Continued
  <2>5. s = z \o e BY <1>9, <2>1, <2>4, SubSeqFull
  <2>6. Append(z, "n") = z \o e BY <1>0, <1>10, AppendIsConcat DEF e
  <2> QED BY <1>5, <2>5, <2>6 DEF Spells
<1> QED BY <1>4, <1>11, <1>12

\* A part more.
LEMMA PartFound ==
    ASSUME NEW s \in Seq(Bodies), NEW at, NEW parts \in Seq(Parts), InFront(s, at, parts), NEW after, NEW header, NEW marker, NEW p,
           PartAt(s, at, after, header, marker, Len(parts), p)
    PROVE  InFront(s, marker + 1, Append(parts, p))
<1> DEFINE a == at - 1
           W == WrittenParts(parts, Len(parts))
           w == WrittenPart(p)
           next == marker + 1
           more == Append(parts, p)
<1>0. Len(s) \in Nat BY LenProperties
<1>1. at \in 1..Len(s) /\ SubSeq(s, 1, a) = W BY DEF InFront
<1>2. /\ p \in Parts /\ w \in Seq(Bodies) /\ marker \in Nat /\ at <= marker /\ next <= Len(s) /\ s[next] = "B"
      /\ Len(w) = marker - at + 1 /\ \A j \in 1..(marker - at + 1) : w[j] = s[(at - 1) + j]
  BY PartBytes
<1>3. a \in Nat /\ a <= marker /\ marker <= Len(s) /\ marker - a = marker - at + 1 /\ next \in 1..Len(s) /\ next - 1 = marker
  BY <1>0, <1>1, <1>2
<1>4. more \in Seq(Parts) /\ WrittenParts(more, Len(more)) = W \o w BY <1>2, WrittenMore
<1>5. \A j \in 1..(marker - a) : w[j] = s[a + j] BY <1>2, <1>3
<1> HIDE DEF a, W, w, next, more
<1>6. SubSeq(s, 1, a) \o w = SubSeq(s, 1, marker)
  <2>1. Continues(s, a, marker, w) BY <1>2, <1>3, <1>5 DEF Continues
  <2> QED BY <2>1, Continued
<1>7. SubSeq(s, 1, next - 1) = WrittenParts(more, Len(more)) BY <1>1, <1>3, <1>4, <1>6
<1>8. InFront(s, next, more) BY <1>2, <1>3, <1>7 DEF InFront
<1> QED BY <1>8 DEF next, more

\* Each turn spells one part more.
LEMMA SpelledNext == ASSUME NEW s \in Seq(Bodies), NEW now \in Readings, Spelled(s, now) PROVE Spelled(s, ReadPart(s, now))
<1> DEFINE after == now.at + 1
           header == HeaderOf(s, after)
           marker == MarkerOf(s, header)
           new == ReadPart(s, now)
           p == PartOf(s, after, header, marker)
<1>0. now.at \in Nat /\ now.parts \in Seq(Parts) /\ now.over \in BOOLEAN /\ now.ok \in BOOLEAN /\ after \in Nat
  BY DEF Readings
<1>1. /\ now.over => new = now
      /\ ~now.over /\ Is(s, after, <<"-">>) => new = [now EXCEPT !.over = TRUE, !.ok = Ends(s, after)]
      /\ ~now.over /\ ~Is(s, after, <<"-">>) /\ Readable(s, Len(now.parts), after, header, marker) =>
           new = [now EXCEPT !.at = marker + 1, !.parts = Append(now.parts, p)]
      /\ ~now.over /\ ~Is(s, after, <<"-">>) /\ ~Readable(s, Len(now.parts), after, header, marker) =>
           new = [now EXCEPT !.over = TRUE]
  BY PartTurn
<1>2. now.over \/ ~now.over BY <1>0
<1>3. CASE now.over BY <1>1, <1>3, Zenon
<1>4. ASSUME ~now.over PROVE ~now.ok /\ InFront(s, now.at, now.parts) BY <1>4 DEF Spelled
<1>5. CASE ~now.over /\ Is(s, after, <<"-">>)
  <2>1. Ends(s, after) => Spells(s, now.parts) BY <1>0, <1>4, <1>5, Closing
  <2>2. new = [now EXCEPT !.over = TRUE, !.ok = Ends(s, after)] BY <1>1, <1>5, Zenon
  <2>3. new.over /\ (new.ok => Ends(s, after)) /\ new.parts = now.parts BY <1>0, <2>2, Zenon DEF Readings
  <2> HIDE DEF new
  <2>4. Spelled(s, new) BY <2>1, <2>3, Zenon DEF Spelled
  <2> QED BY <2>4, Zenon DEF new
<1>6. CASE ~now.over /\ ~Is(s, after, <<"-">>) /\ Readable(s, Len(now.parts), after, header, marker)
  <2>1. now.at \in Nat /\ now.at # 0 /\ s[now.at] = "B" BY <1>0, <1>4, <1>6 DEF InFront
  <2>2. PartAt(s, now.at, after, header, marker, Len(now.parts), p) BY <1>6, <2>1 DEF PartAt
  <2>3. InFront(s, marker + 1, Append(now.parts, p))
    <3> HIDE DEF after, header, marker, p
    <3> QED BY <1>0, <1>4, <1>6, <2>2, PartFound
  <2>4. new = [now EXCEPT !.at = marker + 1, !.parts = Append(now.parts, p)] BY <1>1, <1>6, Zenon
  <2>5. new.over = now.over /\ new.ok = now.ok /\ new.at = marker + 1 /\ new.parts = Append(now.parts, p)
    <3> HIDE DEF marker, p, new
    <3> QED BY <1>0, <2>4, Zenon DEF Readings
  <2> HIDE DEF new, marker, p, header, after
  <2>6. Spelled(s, new) BY <1>4, <1>6, <2>3, <2>5, Zenon DEF Spelled
  <2> QED BY <2>6, Zenon DEF new
<1>7. CASE ~now.over /\ ~Is(s, after, <<"-">>) /\ ~Readable(s, Len(now.parts), after, header, marker)
  <2>1. new = [now EXCEPT !.over = TRUE] BY <1>1, <1>7, Zenon
  <2>2. new.over /\ new.ok = now.ok
    <3> HIDE DEF new
    <3> QED BY <1>0, <2>1, Zenon DEF Readings
  <2> HIDE DEF new, marker, p, header, after
  <2>3. Spelled(s, new) BY <1>4, <1>7, <2>2, Zenon DEF Spelled
  <2> QED BY <2>3, Zenon DEF new
<1> QED BY <1>2, <1>3, <1>5, <1>6, <1>7, Zenon

\* A body that is accepted is the encoding of its parts.
LEMMA BodyIs ==
    ASSUME NEW s \in Seq(Bodies), ParseMultipart(s).ok
    PROVE  s \in {WriteMultipart(ParseMultipart(s).v), Append(WriteMultipart(ParseMultipart(s).v), "n")}
<1> DEFINE n == Len(s)
           last == ReadAfter(s, n)
<1>0. n \in Nat BY LenProperties
<1>1. PICK f : /\ f \in [0..n -> Readings]
               /\ f[0] = AtFirst(s) /\ \A k \in 0..(n - 1) : f[k + 1] = ReadPart(s, f[k])
               /\ \A m \in 0..n : ReadAfter(s, m) = f[m]
  BY PartTurns
<1> DEFINE S == {k \in 0..n : Spelled(s, f[k])}
<1> HIDE DEF n
<1>2. 0 \in S BY <1>0, <1>1, SpelledFirst
<1>3. ASSUME NEW k \in 0..(n - 1), k \in S PROVE k + 1 \in S
  <2>1. k \in 0..n /\ k + 1 \in 0..n BY <1>0
  <2>2. Spelled(s, f[k]) /\ f[k] \in Readings BY <1>1, <1>3, <2>1
  <2>3. Spelled(s, ReadPart(s, f[k])) BY <2>2, SpelledNext
  <2> QED BY <1>1, <2>1, <2>3
<1> HIDE DEF S
<1>4. \A k \in 0..n : k \in S BY <1>0, <1>2, <1>3, UpTo
<1>5. Spelled(s, last) BY <1>0, <1>1, <1>4 DEF S
<1>6. ParseMultipart(s) = IF last.ok THEN Good(last.parts) ELSE Bad
  BY DEF ParseMultipart, ReadAfter, AtFirst, n
<1> HIDE DEF last
<1>7. last.ok
  <2>1. ~Bad.ok BY DEF Bad
  <2> QED BY <1>6, <2>1, Zenon
<1>8. ParseMultipart(s).v = last.parts BY <1>6, <1>7 DEF Good
<1> QED BY <1>5, <1>7, <1>8 DEF Spelled, Spells

\* One that is not the last has a next.
LEMMA NotLast == ASSUME NEW n \in Nat, NEW i \in 1..n, i # n PROVE i < n /\ i + 1 \in 1..n
  OBVIOUS
\* Five bytes go round the headers and the data of a part.
LEMMA FiveMore == ASSUME NEW a \in Nat, NEW b \in Nat, NEW c, c = 5 + a + b PROVE 5 <= c /\ c \in Nat
  OBVIOUS

\* The headers of a part: their lines end at the even places.
LEMMA HeadersAre ==
    ASSUME NEW h \in Seq(Bodies), PartKind(h) # "bad"
    PROVE  /\ \A i \in 1..Len(h) : h[i] = "n" => i < Len(h) /\ h[i + 1] # "n"
           /\ PartKind(h) = "f" <=> "f" \in ToSet(h)
<1>1. Len(h) \in Nat /\ DOMAIN h = 1..Len(h) BY LenProperties
<1>2. Len(h) % 2 # 0 /\ ~(\E i \in DOMAIN h : (i % 2 = 0) # (h[i] = "n")) BY Zenon DEF PartKind
<1>3. \A i \in 1..Len(h) : h[i] = "n" <=> i % 2 = 0 BY <1>1, <1>2, Zenon
<1>4. ASSUME NEW i \in 1..Len(h), h[i] = "n" PROVE i < Len(h) /\ h[i + 1] # "n"
  <2>1. i % 2 = 0 BY <1>3, <1>4
  <2>2. i # Len(h) BY <1>2, <2>1, SMTT(30)
  <2>3. i < Len(h) /\ i + 1 \in 1..Len(h) BY <1>1, <2>2, NotLast
  <2>4. (i + 1) % 2 # 0 BY <1>1, <2>1
  <2> QED BY <1>3, <2>3, <2>4
<1>5. PartKind(h) = IF \E i \in DOMAIN h : h[i] = "f" THEN "f" ELSE "u" BY Zenon DEF PartKind
<1>6. PartKind(h) = "f" <=> \E i \in DOMAIN h : h[i] = "f" BY <1>5
<1>7. "f" \in ToSet(h) <=> \E i \in DOMAIN h : h[i] = "f" BY DEF ToSet
<1> QED BY <1>4, <1>6, <1>7

\* The parts that are written stay where they are.
LEMMA WrittenStays ==
    ASSUME NEW parts \in Seq(Parts), NEW k \in 0..Len(parts)
    PROVE  /\ k <= Len(WrittenParts(parts, k)) /\ Len(WrittenParts(parts, k)) <= Len(WrittenParts(parts, Len(parts)))
           /\ \A i \in 1..Len(WrittenParts(parts, k)) : WrittenParts(parts, Len(parts))[i] = WrittenParts(parts, k)[i]
<1> DEFINE n == Len(parts)
           W(m) == WrittenParts(parts, m)
           Keeps(a, b) == Len(W(a)) <= Len(W(b)) /\ \A i \in 1..Len(W(a)) : W(b)[i] = W(a)[i]
           S == {m \in 0..n : m <= Len(W(m)) /\ \A a \in 0..m : Keeps(a, m)}
<1>1. /\ n \in Nat /\ W(0) = <<>> /\ \A a \in 0..n : W(a) \in Seq(Bodies) /\ Len(W(a)) \in Nat
      /\ \A a \in 0..(n - 1) : parts[a + 1] \in Parts /\ W(a + 1) = W(a) \o WrittenPart(parts[a + 1])
  BY WrittenNext
<1> HIDE DEF n, W
<1>2. \A a \in 0..n : Keeps(a, a) BY <1>1
<1>3. 0 \in S
  <2>1. \A a \in 0..0 : a = 0 OBVIOUS
  <2>2. 0 \in 0..n /\ Len(W(0)) = 0 BY <1>1
  <2> HIDE DEF Keeps
  <2> QED BY <1>2, <2>1, <2>2
<1>4. ASSUME NEW m \in 0..(n - 1), m \in S PROVE m + 1 \in S
  <2> DEFINE w == WrittenPart(parts[m + 1])
             next == m + 1
             more == W(next)
  <2>1. m \in 0..n /\ next \in 0..n /\ W(m) \in Seq(Bodies) /\ Len(W(m)) \in Nat /\ m <= Len(W(m)) /\ m \in Nat
    BY <1>1, <1>4
  <2>2. w \in Seq(Bodies) /\ 5 <= Len(w) /\ Len(w) \in Nat
    <3> DEFINE p == parts[m + 1]
    <3>1. p \in Parts BY <1>1
    <3> HIDE DEF p
    <3>2. WrittenPart(p) \in Seq(Bodies) /\ Len(p.header) \in Nat /\ Len(p.data) \in Nat /\ Len(WrittenPart(p)) = 5 + Len(p.header) + Len(p.data)
      BY <3>1, WrittenIs
    <3>3. 5 <= Len(WrittenPart(p)) /\ Len(WrittenPart(p)) \in Nat BY <3>2, FiveMore
    <3> QED BY <3>2, <3>3 DEF p
  <2>3. more = W(m) \o w BY <1>1
  <2> HIDE DEF w, more
  <2>4. Appended(Bodies, W(m), w, Len(W(m)), more) BY <2>1, <2>2, <2>3, Appending
  <2>5. Len(more) = Len(W(m)) + Len(w) /\ \A i \in 1..Len(W(m)) : more[i] = W(m)[i] BY <2>4 DEF Appended
  <2>6. next <= Len(more) /\ Len(W(m)) <= Len(more) BY <2>1, <2>2, <2>5
  <2>8. ASSUME NEW a \in 0..m PROVE Keeps(a, next)
    <3>1. Keeps(a, m) BY <1>4
    <3>2. a \in 0..n /\ Len(W(a)) \in Nat /\ Len(more) \in Nat
      <4>1. a \in 0..n BY <1>1, <2>1
      <4>2. Len(more) \in Nat BY <1>1, <2>1 DEF more
      <4> QED BY <1>1, <4>1, <4>2
    <3>3. Len(W(a)) <= Len(more) BY <2>1, <2>6, <3>1, <3>2
    <3>4. \A i \in 1..Len(W(a)) : i \in 1..Len(W(m)) BY <2>1, <3>1, <3>2
    <3>5. \A i \in 1..Len(W(a)) : more[i] = W(a)[i] BY <2>5, <3>1, <3>4
    <3> QED BY <3>3, <3>5 DEF more
  <2>9. \A a \in 0..next : a = next \/ a \in 0..m BY <2>1
  <2>10. Keeps(next, next) BY <1>2, <2>1
  <2> HIDE DEF Keeps
  <2>11. \A a \in 0..next : Keeps(a, next) BY <2>8, <2>9, <2>10
  <2> QED BY <2>1, <2>6, <2>11 DEF more
<1> HIDE DEF S
<1>5. \A m \in 0..n : m \in S BY <1>1, <1>3, <1>4, UpTo
<1> USE DEF S
<1>6. k \in 0..n /\ n \in 0..n BY <1>1 DEF n
<1>7. k <= Len(W(k)) BY <1>5, <1>6
<1>8. Keeps(k, n)
  <2>1. k \in 0..n /\ n \in S BY <1>5, <1>6
  <2> HIDE DEF Keeps
  <2> QED BY <2>1
<1> QED BY <1>7, <1>8 DEF n, W

\* What a client writes of some parts.
IsBody(s, parts) == parts \in Seq(Parts) /\ s = WriteMultipart(parts)
Extent(parts, k) == Len(WrittenParts(parts, k))
\* Where the last delimiter is in a body.
LEMMA BodyEnd ==
    ASSUME NEW s, NEW parts, IsBody(s, parts)
    PROVE  /\ parts \in Seq(Parts) /\ s \in Seq(Bodies) /\ Len(parts) \in Nat /\ \A k \in 0..Len(parts) : Extent(parts, k) \in Nat
           /\ Extent(parts, 0) = 0 /\ Len(parts) <= Extent(parts, Len(parts)) /\ Len(s) = Extent(parts, Len(parts)) + 2
           /\ s[Extent(parts, Len(parts)) + 1] = "B" /\ s[Extent(parts, Len(parts)) + 2] = "-"
           /\ \A i \in 1..Extent(parts, Len(parts)) : s[i] = WrittenParts(parts, Len(parts))[i]
<1> DEFINE n == Len(parts)
           W == WrittenParts(parts, n)
           e == <<"B", "-">>
           l == Len(W)
<1>1. parts \in Seq(Parts) /\ s = W \o e BY DEF IsBody, WriteMultipart
<1>2. /\ n \in Nat /\ WrittenParts(parts, 0) = <<>>
      /\ \A k \in 0..n : WrittenParts(parts, k) \in Seq(Bodies) /\ Len(WrittenParts(parts, k)) \in Nat
  BY <1>1, WrittenNext
<1>3. n \in 0..n BY <1>2
<1>4. n <= l BY <1>1, <1>3, WrittenStays
<1>5. e \in Seq(Bodies) /\ Len(e) = 2 /\ e[1] = "B" /\ e[2] = "-" BY Symbols
<1>6. W \in Seq(Bodies) /\ l \in Nat BY <1>2, <1>3
<1> HIDE DEF n, W, e, l
<1>7. Appended(Bodies, W, e, l, s) BY <1>1, <1>5, <1>6, Appending DEF l
<1>8. s \in Seq(Bodies) /\ Len(s) = l + 2 /\ (\A i \in 1..l : s[i] = W[i]) /\ \A i \in 1..2 : s[l + i] = e[i]
  BY <1>5, <1>7 DEF Appended
<1>9. s[l + 1] = "B" /\ s[l + 2] = "-" BY <1>5, <1>8
<1>10. Extent(parts, n) = l BY DEF Extent, l, W
<1>11. Extent(parts, 0) = 0 /\ \A k \in 0..n : Extent(parts, k) \in Nat BY <1>2 DEF Extent
<1> QED BY <1>1, <1>2, <1>4, <1>8, <1>9, <1>10, <1>11 DEF n, W

\* Where a part is in a body.
PartFrom(s, b, w) == \A j \in 1..Len(w) : s[b + j] = w[j]
\* Where the bytes of one part are in a body.
LEMMA BodyBytes ==
    ASSUME NEW s, NEW parts, IsBody(s, parts), NEW k \in 0..(Len(parts) - 1)
    PROVE  /\ parts[k + 1] \in Parts /\ Extent(parts, k + 1) = Extent(parts, k) + Len(WrittenPart(parts[k + 1]))
           /\ Extent(parts, k) \in Nat /\ Extent(parts, k + 1) <= Extent(parts, Len(parts))
           /\ PartFrom(s, Extent(parts, k), WrittenPart(parts[k + 1]))
<1> DEFINE n == Len(parts)
           m == k + 1
           p == parts[m]
           w == WrittenPart(p)
           A == WrittenParts(parts, k)
           B == WrittenParts(parts, m)
           C == WrittenParts(parts, n)
<1>1. /\ parts \in Seq(Parts) /\ n \in Nat /\ \A a \in 0..n : Extent(parts, a) \in Nat
      /\ \A i \in 1..Extent(parts, n) : s[i] = C[i]
  BY BodyEnd
<1>2. k \in 0..n /\ m \in 0..n /\ n \in 0..n BY <1>1
<1>3. p \in Parts /\ B = A \o w /\ A \in Seq(Bodies) BY <1>1, <1>2, WrittenNext
<1>4. w \in Seq(Bodies) /\ Len(w) \in Nat
  <2> HIDE DEF p
  <2>1. w \in Seq(Bodies) BY <1>3, WrittenIs
  <2> QED BY <2>1, LenProperties
<1>5. Len(B) <= Len(C) /\ \A i \in 1..Len(B) : C[i] = B[i] BY <1>1, <1>2, WrittenStays
<1> HIDE DEF n, m, p, w, A, B, C
<1>6. Appended(Bodies, A, w, Len(A), B) BY <1>3, <1>4, Appending
<1>7. Len(B) = Len(A) + Len(w) /\ \A i \in 1..Len(w) : B[Len(A) + i] = w[i] BY <1>6 DEF Appended
<1>8. Extent(parts, k) = Len(A) /\ Extent(parts, m) = Len(B) /\ Extent(parts, n) = Len(C)
  BY DEF Extent, A, B, C
<1>9. Len(A) \in Nat /\ Len(B) \in Nat /\ Len(C) \in Nat BY <1>1, <1>2, <1>8
<1>10. ASSUME NEW j \in 1..Len(w) PROVE s[Len(A) + j] = w[j]
  <2>1. Len(A) + j \in 1..Len(B) /\ Len(A) + j \in 1..Len(C) BY <1>4, <1>5, <1>7, <1>9
  <2> QED BY <1>1, <1>5, <1>7, <1>8, <2>1
<1>11. PartFrom(s, Len(A), w) BY <1>10 DEF PartFrom
<1> QED BY <1>3, <1>5, <1>7, <1>8, <1>9, <1>11 DEF n, m, p, w

\* The bytes of a part in a body, up to the delimiter line behind it.
PartLies(s, b, p, H, D) ==
    /\ b \in Nat /\ p \in Parts /\ H \in Nat /\ D \in Nat /\ H = Len(p.header) /\ D = Len(p.data) /\ b + 7 + H + D <= Len(s)
    /\ s[b + 1] = "B" /\ s[b + 2] = "n" /\ \A i \in 1..H : s[b + 2 + i] = p.header[i]
    /\ s[b + 3 + H] = "n" /\ s[b + 4 + H] = "n" /\ \A i \in 1..D : s[b + 4 + H + i] = p.data[i]
    /\ s[b + 5 + H + D] = "n" /\ s[b + 6 + H + D] = "B"
    /\ s[b + 7 + H + D] = "n" \/ (s[b + 7 + H + D] = "-" /\ b + 7 + H + D = Len(s))
\* Where the headers, the data and the delimiter lines of one part are in a body.
LEMMA PartStands ==
    ASSUME NEW s, NEW parts, IsBody(s, parts), NEW k \in 0..(Len(parts) - 1)
    PROVE  /\ PartLies(s, Extent(parts, k), parts[k + 1], Len(parts[k + 1].header), Len(parts[k + 1].data))
           /\ Extent(parts, k + 1) = Extent(parts, k) + 5 + Len(parts[k + 1].header) + Len(parts[k + 1].data)
<1> DEFINE n == Len(parts)
           m == k + 1
           p == parts[m]
           w == WrittenPart(p)
           b == Extent(parts, k)
           c == Extent(parts, m)
           d == Extent(parts, n)
           H == Len(p.header)
           D == Len(p.data)
<1>1. /\ n \in Nat /\ d \in Nat /\ Len(s) = d + 2 /\ s[d + 1] = "B" /\ s[d + 2] = "-"
  <2>1. n \in 0..n BY BodyEnd
  <2> QED BY <2>1, BodyEnd
<1>2. p \in Parts /\ c = b + Len(w) /\ b \in Nat /\ c <= d /\ PartFrom(s, b, w) BY BodyBytes
<1>3. m < n => \E v : PartFrom(s, c, v) /\ 2 <= Len(v) /\ Len(v) \in Nat /\ v[1] = "B" /\ v[2] = "n" /\ c + 2 <= d + 2
  <2> SUFFICES ASSUME m < n PROVE \E v : PartFrom(s, c, v) /\ 2 <= Len(v) /\ Len(v) \in Nat /\ v[1] = "B" /\ v[2] = "n" /\ c + 2 <= d + 2
    OBVIOUS
  <2> DEFINE q == parts[m + 1]
             v == WrittenPart(q)
  <2>1. m \in 0..(n - 1) BY <1>1
  <2> HIDE DEF m, n
  <2>2. q \in Parts /\ PartFrom(s, c, v) BY <2>1, BodyBytes DEF n
  <2>6. c \in Nat BY <2>1, BodyBytes DEF n
  <2> HIDE DEF q
  <2>3. Len(q.header) \in Nat /\ Len(q.data) \in Nat /\ Len(v) = 5 + Len(q.header) + Len(q.data) /\ v[1] = "B" /\ v[2] = "n"
    BY <2>2, WrittenIs
  <2>4. 5 <= Len(v) /\ Len(v) \in Nat BY <2>3, FiveMore
  <2> HIDE DEF v, c, d
  <2>5. 2 <= Len(v) /\ c + 2 <= d + 2 BY <1>1, <1>2, <2>4, <2>6, SMTT(30)
  <2> QED BY <2>2, <2>3, <2>4, <2>5
<1> HIDE DEF p
<1>4. /\ H \in Nat /\ D \in Nat
      /\ Len(w) = 5 + H + D /\ w[1] = "B" /\ w[2] = "n"
      /\ \A i \in 1..H : w[2 + i] = p.header[i]
      /\ w[2 + H + 1] = "n" /\ w[2 + H + 2] = "n"
      /\ \A i \in 1..D : w[4 + H + i] = p.data[i]
      /\ w[4 + H + D + 1] = "n"
  BY <1>2, WrittenIs
<1> HIDE DEF n, m, w, b, c, d, H, D
<1>5. \A j \in 1..(5 + H + D) : s[b + j] = w[j] BY <1>2, <1>4 DEF PartFrom
<1>6. s[b + 1] = "B" /\ s[b + 2] = "n"
  <2>1. 1 \in 1..(5 + H + D) /\ 2 \in 1..(5 + H + D) BY <1>4
  <2> QED BY <1>4, <1>5, <2>1
<1>7. \A i \in 1..H : s[b + 2 + i] = p.header[i]
  <2> TAKE i \in 1..H
  <2>1. 2 + i \in 1..(5 + H + D) /\ b + (2 + i) = b + 2 + i BY <1>2, <1>4
  <2> QED BY <1>4, <1>5, <2>1
<1>8. s[b + 3 + H] = "n" /\ s[b + 4 + H] = "n"
  <2>1. /\ 2 + H + 1 \in 1..(5 + H + D) /\ b + (2 + H + 1) = b + 3 + H
        /\ 2 + H + 2 \in 1..(5 + H + D) /\ b + (2 + H + 2) = b + 4 + H
    BY <1>2, <1>4
  <2> QED BY <1>4, <1>5, <2>1
<1>9. \A i \in 1..D : s[b + 4 + H + i] = p.data[i]
  <2> TAKE i \in 1..D
  <2>1. 4 + H + i \in 1..(5 + H + D) /\ b + (4 + H + i) = b + 4 + H + i BY <1>2, <1>4
  <2> QED BY <1>4, <1>5, <2>1
<1>10. s[b + 5 + H + D] = "n"
  <2>1. 4 + H + D + 1 \in 1..(5 + H + D) /\ b + (4 + H + D + 1) = b + 5 + H + D BY <1>2, <1>4
  <2> QED BY <1>4, <1>5, <2>1
<1>11. c \in Nat /\ c = b + 5 + H + D /\ c + 1 = b + 6 + H + D /\ c + 2 = b + 7 + H + D BY <1>2, <1>4
<1>12. s[c + 1] = "B" /\ (s[c + 2] = "n" \/ (s[c + 2] = "-" /\ c + 2 = Len(s))) /\ c + 2 <= Len(s)
  <2>1. CASE m < n
    <3>1. PICK v : PartFrom(s, c, v) /\ 2 <= Len(v) /\ Len(v) \in Nat /\ v[1] = "B" /\ v[2] = "n" /\ c + 2 <= d + 2
      BY <1>3, <2>1
    <3>2. 1 \in 1..Len(v) /\ 2 \in 1..Len(v) BY <3>1
    <3>3. s[c + 1] = "B" /\ s[c + 2] = "n" BY <3>1, <3>2 DEF PartFrom
    <3> QED BY <1>1, <3>1, <3>3
  <2>2. CASE ~(m < n)
    <3>1. m = n BY <1>1, <2>2 DEF m, n
    <3>2. c = d BY <3>1 DEF c, d
    <3> QED BY <1>1, <1>11, <3>2, SMTT(30)
  <2> QED BY <2>1, <2>2
<1>13. PartLies(s, b, p, H, D)
  <2>1. b \in Nat /\ p \in Parts /\ H \in Nat /\ D \in Nat /\ H = Len(p.header) /\ D = Len(p.data) /\ b + 7 + H + D <= Len(s)
    BY <1>2, <1>4, <1>11, <1>12 DEF H, D
  <2>2. /\ s[b + 6 + H + D] = "B"
        /\ s[b + 7 + H + D] = "n" \/ (s[b + 7 + H + D] = "-" /\ b + 7 + H + D = Len(s))
    BY <1>11, <1>12
  <2> QED BY <1>6, <1>7, <1>8, <1>9, <1>10, <2>1, <2>2 DEF PartLies
<1> QED BY <1>11, <1>13 DEF b, c, p, H, D, m

\* A place in the headers of a part.
LEMMA Within ==
    ASSUME NEW b \in Nat, NEW H \in Nat, NEW x \in Nat, b + 3 <= x, x < b + 3 + H
    PROVE  x - (b + 2) \in 1..H /\ b + 2 + (x - (b + 2)) = x /\ b + 2 + ((x - (b + 2)) + 1) = x + 1
  OBVIOUS
\* A place in the data of a part, or in the delimiter behind it.
LEMMA Reaches ==
    ASSUME NEW b \in Nat, NEW D \in Nat, NEW k \in 1..(D + 2), NEW n \in Nat, b + D + 2 <= n
    PROVE  b + k <= n /\ b + k \in Nat /\ b + k # 0 /\ (k \in 1..D \/ k = D + 1 \/ k = D + 2)
  OBVIOUS

\* The headers of a part that is written end where they end.
LEMMA HeaderSits ==
    ASSUME NEW s \in Seq(Bodies), NEW b, NEW p, NEW H, NEW D, PartLies(s, b, p, H, D), PartKind(p.header) # "bad",
           NEW after, after = b + 2, NEW header, header = HeaderOf(s, after)
    PROVE  header = b + 3 + H
<1> DEFINE at == b + 3 + H
           h == p.header
<1>1. /\ b \in Nat /\ p \in Parts /\ H \in Nat /\ D \in Nat /\ H = Len(h) /\ b + 7 + H + D <= Len(s)
      /\ \A i \in 1..H : s[b + 2 + i] = h[i]
      /\ s[b + 3 + H] = "n" /\ s[b + 4 + H] = "n"
  BY DEF PartLies
<1>2. h \in Seq(Bodies) BY <1>1 DEF Parts
<1> HIDE DEF h, at
<1>3. \A i \in 1..H : h[i] = "n" => i < H /\ h[i + 1] # "n"
  <2>1. PartKind(h) # "bad" BY DEF h
  <2>2. \A i \in 1..Len(h) : h[i] = "n" => i < Len(h) /\ h[i + 1] # "n" BY <1>2, <2>1, HeadersAre
  <2> QED BY <1>1, <2>2
<1>4. Len(s) \in Nat /\ after \in Nat /\ at \in Nat /\ after + 1 = b + 3 /\ at + 1 = b + 4 + H
  BY <1>1, LenProperties DEF at
<1>5. /\ header # 0 => /\ header \in Nat /\ after + 1 <= header /\ header + 1 <= Len(s)
                       /\ s[header] = "n" /\ s[header + 1] = "n"
      /\ \A j \in Nat : after + 1 <= j /\ j + 1 <= Len(s) /\ s[j] = "n" /\ s[j + 1] = "n" => header # 0 /\ header <= j
  BY <1>4, HeaderIs
<1>6. after + 1 <= at /\ at + 1 <= Len(s) /\ s[at] = "n" /\ s[at + 1] = "n"
  <2>1. after + 1 <= at /\ at + 1 <= Len(s) BY <1>1, <1>4 DEF at
  <2> QED BY <1>1, <1>4, <2>1 DEF at
<1>7. header \in Nat /\ after + 1 <= header /\ s[header] = "n" /\ s[header + 1] = "n" /\ header <= at
  BY <1>4, <1>5, <1>6
<1>8. ~(header < at)
  <2> SUFFICES ASSUME header < at PROVE FALSE OBVIOUS
  <2> DEFINE i == header - (b + 2)
  <2>1. i \in 1..H /\ b + 2 + i = header /\ b + 2 + (i + 1) = header + 1
    <3>1. b + 3 <= header /\ header < b + 3 + H BY <1>4, <1>7 DEF at
    <3>2. b \in Nat /\ H \in Nat /\ header \in Nat BY <1>1, <1>7
    <3> QED BY <3>1, <3>2, Within
  <2> HIDE DEF i
  <2>2. h[i] = "n" BY <1>1, <1>7, <2>1
  <2>3. i < H /\ h[i + 1] # "n" BY <1>3, <2>1, <2>2
  <2>4. i + 1 \in 1..H BY <1>1, <2>1, <2>3
  <2>5. s[b + 2 + (i + 1)] = h[i + 1] BY <1>1, <2>4
  <2> QED BY <1>7, <2>1, <2>3, <2>5
<1>9. header = at BY <1>4, <1>7, <1>8
<1> QED BY <1>9 DEF at

\* What begins like a delimiter inside a part does not end it.
LEMMA InsideIs ==
    ASSUME NEW s \in Seq(Bodies), NEW b \in Nat, NEW d \in Seq(Bodies), NEW D, D = Len(d), NEW i \in 1..D, b + D + 2 <= Len(s),
           \A k \in 1..D : s[b + k] = d[k], s[b + D + 1] = "n", s[b + D + 2] = "B",
           Bounded(d), s[b + i] = "n", s[b + i + 1] = "B"
    PROVE  ~EndsPart(s, b + i + 2)
<1> DEFINE e == <<"n", "B">>
           t == d \o e
           T == D + 2
<1>1. e \in Seq(Bodies) /\ Len(e) = 2 /\ e[1] = "n" /\ e[2] = "B" BY Symbols
<1>2. D \in Nat /\ DOMAIN d = 1..D /\ Len(s) \in Nat BY LenProperties
<1>3. \A j \in DOMAIN d : Is(t, j, e) => ~EndsPart(t, j + 2)
  <2>1. \A j \in DOMAIN d : Is(t, j, e) => ~Delimits(t, j + 2) BY DEF Bounded
  <2>0. Len(t) \in Nat BY <1>1, ConcatProperties, LenProperties
  <2> HIDE DEF t, e
  <2>2. ASSUME NEW j \in DOMAIN d, EndsPart(t, j + 2) PROVE Delimits(t, j + 2)
    <3>1. Is(t, j + 2, <<"n">>) \/ (Is(t, j + 2, <<"-">>) /\ (j + 2 + 1 = Len(t) + 1 \/ Is(t, j + 2 + 1, <<"n">>)))
      BY <2>2 DEF EndsPart
    <3>2. CASE Is(t, j + 2, <<"n">>) \/ (Is(t, j + 2, <<"-">>) /\ Is(t, j + 2 + 1, <<"n">>))
      BY <3>2 DEF Delimits
    <3>3. CASE Is(t, j + 2, <<"-">>) /\ j + 2 + 1 = Len(t) + 1
      <4>1. j + 2 = Len(t) BY <1>2, <2>0, <3>3, SMTT(30)
      <4> QED BY <3>3, <4>1 DEF Delimits
    <3> QED BY <3>1, <3>2, <3>3
  <2> QED BY <2>1, <2>2
<1> HIDE DEF e
<1>4. Appended(Bodies, d, e, D, t) BY <1>1, Appending
<1>5. t \in Seq(Bodies) /\ Len(t) = T /\ (\A k \in 1..D : t[k] = d[k]) /\ \A k \in 1..2 : t[D + k] = e[k]
  BY <1>1, <1>4 DEF Appended
<1>a. t \in Seq(Bodies) BY <1>5
<1> HIDE DEF t
<1>6. t[D + 1] = "n" /\ t[D + 2] = "B" /\ T \in Nat /\ T = D + 2 BY <1>1, <1>2, <1>5
<1> HIDE DEF T
<1>7. \A k \in 1..T : s[b + k] = t[k] /\ b + k <= Len(s) /\ b + k \in Nat /\ b + k # 0
  <2> TAKE k \in 1..T
  <2>0. k \in 1..(D + 2) BY <1>6
  <2>1. b + k <= Len(s) /\ b + k \in Nat /\ b + k # 0 BY <1>2, <2>0, Reaches
  <2>2. k \in 1..D \/ k = D + 1 \/ k = D + 2 BY <1>2, <2>0, Reaches
  <2>3. CASE k \in 1..D BY <1>5, <2>1, <2>3
  <2>4. CASE k = D + 1 BY <1>2, <2>4, <1>6, <2>1
  <2>5. CASE k = D + 2 BY <1>2, <2>5, <1>6, <2>1
  <2> QED BY <2>2, <2>3, <2>4, <2>5
<1> DEFINE l == i + 2
           m == i + 3
           x == b + i + 2
<1>8. /\ i \in Nat /\ i # 0 /\ i \in 1..T /\ i + 1 \in 1..T /\ l \in 1..T /\ b + (i + 1) = b + i + 1 /\ b + l = x /\ b + m = x + 1
      /\ l + 1 = m /\ l \in Nat /\ l # 0 /\ m \in Nat /\ m # 0 /\ i + 1 <= T
  BY <1>2, <1>6
<1> HIDE DEF l, m, x
<1>9. t[i] = "n" /\ t[i + 1] = "B" BY <1>7, <1>8
<1>10. Is(t, i, e)
  <2>1. Is(t, i, <<"n", "B">>) BY <1>5, <1>8, <1>9, Symbols, IsTwo
  <2> QED BY <2>1 DEF e
<1>11. ~EndsPart(t, l) BY <1>2, <1>3, <1>10 DEF l
<1>12. s[x] = t[l] /\ x <= Len(s) /\ x \in Nat /\ x # 0 BY <1>7, <1>8
<1>13. ~Is(t, l, <<"n">>) /\ ~(Is(t, l, <<"-">>) /\ (l + 1 = Len(t) + 1 \/ Is(t, l + 1, <<"n">>)))
  BY <1>11 DEF EndsPart
<1>14. l <= Len(t) /\ "n" \in Bodies /\ "-" \in Bodies BY <1>5, <1>6, <1>8, Symbols, SMTT(30)
<1>15. t[l] # "n"
  <2>1. Is(t, l, <<"n">>) <=> (l <= Len(t) /\ t[l] = "n") BY <1>8, <1>14, <1>a, IsOne, SMTT(30)
  <2> QED BY <1>13, <1>14, <2>1
<1>16. ~Is(s, x, <<"n">>)
  <2>1. Is(s, x, <<"n">>) <=> (x <= Len(s) /\ s[x] = "n") BY <1>12, <1>14, IsOne
  <2> QED BY <1>12, <1>15, <2>1
<1>17. ASSUME Is(s, x, <<"-">>) PROVE x + 1 # Len(s) + 1 /\ ~Is(s, x + 1, <<"n">>)
  <2>1. Is(s, x, <<"-">>) <=> (x <= Len(s) /\ s[x] = "-") BY <1>12, <1>14, IsOne
  <2>2. t[l] = "-" BY <1>12, <1>17, <2>1
  <2>3. l # D + 1 /\ l # D + 2 BY <1>6, <2>2
  <2>4. m \in 1..T /\ x < Len(s)
    <3>1. m \in 1..T BY <1>2, <1>6, <1>8, <2>3, SMTT(30)
    <3>2. x + 1 <= Len(s) BY <1>7, <1>8, <3>1
    <3>3. Len(s) \in Nat /\ x \in Nat BY <1>2, <1>12
    <3>4. x < Len(s) BY <3>2, <3>3
    <3> QED BY <3>1, <3>4
  <2>5. x + 1 # Len(s) + 1 BY <1>2, <1>12, <2>4
  <2>6. Is(t, l, <<"-">>) <=> (l <= Len(t) /\ t[l] = "-") BY <1>8, <1>14, <1>a, IsOne, SMTT(30)
  <2>7. ~Is(t, m, <<"n">>) BY <1>8, <1>13, <1>14, <2>2, <2>6
  <2>8. Is(t, m, <<"n">>) <=> (m <= Len(t) /\ t[m] = "n") BY <1>8, <1>14, <1>a, IsOne, SMTT(30)
  <2>9. t[m] # "n" BY <1>5, <2>4, <2>7, <2>8
  <2>10. s[x + 1] = t[m] /\ x + 1 \in Nat /\ x + 1 # 0 BY <1>7, <1>8, <2>4
  <2>11. Is(s, x + 1, <<"n">>) <=> (x + 1 <= Len(s) /\ s[x + 1] = "n") BY <1>14, <2>10, IsOne, SMTT(30)
  <2> QED BY <2>5, <2>9, <2>10, <2>11
<1>18. ~EndsPart(s, x) BY <1>16, <1>17 DEF EndsPart
<1> QED BY <1>18 DEF x

FileLies(s, b, d, D) ==
    /\ b \in Nat /\ d \in Seq(Bodies) /\ D = Len(d) /\ b + D + 2 <= Len(s) /\ (\A k \in 1..D : s[b + k] = d[k])
    /\ s[b + D + 1] = "n" /\ s[b + D + 2] = "B" /\ Bounded(d)
\* No delimiter line ends inside the data.
LEMMA InsideOf ==
    ASSUME NEW s \in Seq(Bodies), NEW b, NEW d, NEW D, FileLies(s, b, d, D)
    PROVE  \A i \in 1..D : s[b + i] = "n" /\ s[b + i + 1] = "B" => ~EndsPart(s, b + i + 2)
<1> SUFFICES ASSUME NEW i \in 1..D, s[b + i] = "n", s[b + i + 1] = "B" PROVE ~EndsPart(s, b + i + 2) OBVIOUS
<1>1. /\ b \in Nat /\ d \in Seq(Bodies) /\ D = Len(d) /\ b + D + 2 <= Len(s) /\ (\A k \in 1..D : s[b + k] = d[k])
      /\ s[b + D + 1] = "n" /\ s[b + D + 2] = "B" /\ Bounded(d)
  BY DEF FileLies
<1> QED BY <1>1, InsideIs

\* A part that is written ends where it ends.
LEMMA WithinFile ==
    ASSUME NEW b \in Nat, NEW H \in Nat, NEW D \in Nat, NEW x \in Nat, b + 5 + H <= x, x < b + 5 + H + D
    PROVE  /\ x - (b + 4 + H) \in 1..D /\ b + 4 + H + (x - (b + 4 + H)) = x
           /\ b + 4 + H + (x - (b + 4 + H)) + 1 = x + 1 /\ b + 4 + H + (x - (b + 4 + H)) + 2 = x + 2
  OBVIOUS
\* The delimiter that is found is the one behind the data.
LEMMA MarkerSits ==
    ASSUME NEW s \in Seq(Bodies), NEW b, NEW p, NEW H, NEW D, PartLies(s, b, p, H, D), Bounded(p.data),
           NEW header, header = b + 3 + H, NEW marker, marker = MarkerOf(s, header)
    PROVE  marker = b + 5 + H + D
<1> DEFINE at == b + 5 + H + D
           c == b + 4 + H
           d == p.data
           e == at + 2
<1>1. /\ b \in Nat /\ p \in Parts /\ H \in Nat /\ D \in Nat /\ D = Len(p.data) /\ b + 7 + H + D <= Len(s)
      /\ \A i \in 1..D : s[b + 4 + H + i] = p.data[i]
      /\ s[b + 5 + H + D] = "n" /\ s[b + 6 + H + D] = "B"
      /\ s[b + 7 + H + D] = "n" \/ (s[b + 7 + H + D] = "-" /\ b + 7 + H + D = Len(s))
  BY DEF PartLies
<1>2. d \in Seq(Bodies) BY <1>1 DEF Parts
<1>3. /\ b \in Nat /\ H \in Nat /\ D \in Nat /\ Len(s) \in Nat /\ header \in Nat /\ header + 2 = b + 5 + H
      /\ c \in Nat /\ at \in Nat /\ at + 1 = b + 6 + H + D /\ e = b + 7 + H + D /\ c + D + 1 = at /\ c + D + 2 = at + 1
      /\ header + 2 <= at /\ at + 1 <= Len(s) /\ e <= Len(s) /\ e \in Nat /\ e # 0 /\ c + D + 2 <= Len(s)
  <2>1. b \in Nat /\ H \in Nat /\ D \in Nat /\ Len(s) \in Nat /\ b + 7 + H + D <= Len(s)
    BY <1>1, LenProperties
  <2> QED BY <2>1
<1> HIDE DEF at, c, d, e
<1>4. FileLies(s, c, d, D) BY <1>1, <1>2, <1>3 DEF FileLies, c, d, at
<1>5. EndsPart(s, e)
  <2>1. Is(s, e, <<"n">>) <=> (e <= Len(s) /\ s[e] = "n") BY <1>3, Symbols, IsOne
  <2>2. Is(s, e, <<"-">>) <=> (e <= Len(s) /\ s[e] = "-") BY <1>3, Symbols, IsOne
  <2>3. s[e] = "n" \/ (s[e] = "-" /\ e = Len(s)) BY <1>1, <1>3
  <2>4. Is(s, e, <<"n">>) \/ (Is(s, e, <<"-">>) /\ e + 1 = Len(s) + 1) BY <1>3, <2>1, <2>2, <2>3
  <2> QED BY <2>4, Zenon DEF EndsPart
<1>6. /\ marker # 0 => /\ marker \in Nat /\ header + 2 <= marker /\ marker + 1 <= Len(s)
                       /\ s[marker] = "n" /\ s[marker + 1] = "B" /\ EndsPart(s, marker + 2)
      /\ \A j \in Nat : header + 2 <= j /\ j + 1 <= Len(s) /\ s[j] = "n" /\ s[j + 1] = "B" /\ EndsPart(s, j + 2) =>
           marker # 0 /\ marker <= j
  BY <1>3, MarkerIs, SMTT(30)
<1>7. s[at] = "n" /\ s[at + 1] = "B" /\ EndsPart(s, at + 2) BY <1>1, <1>3, <1>5 DEF at, e
<1>8. /\ marker \in Nat /\ header + 2 <= marker /\ s[marker] = "n" /\ s[marker + 1] = "B" /\ EndsPart(s, marker + 2)
      /\ marker <= at
  BY <1>3, <1>6, <1>7
<1>9. ~(marker < at)
  <2> SUFFICES ASSUME marker < at PROVE FALSE OBVIOUS
  <2> DEFINE i == marker - c
  <2>1. i \in 1..D /\ c + i = marker /\ c + i + 1 = marker + 1 /\ c + i + 2 = marker + 2
    <3>1. b + 5 + H <= marker /\ marker < b + 5 + H + D BY <1>3, <1>8 DEF at
    <3>2. b \in Nat /\ H \in Nat /\ D \in Nat /\ marker \in Nat BY <1>3, <1>8
    <3> QED BY <3>1, <3>2, WithinFile, SMTT(30) DEF c
  <2> HIDE DEF i
  <2>2. s[c + i] = "n" /\ s[c + i + 1] = "B" => ~EndsPart(s, c + i + 2) BY <1>4, <2>1, InsideOf
  <2> QED BY <1>8, <2>1, <2>2
<1>10. marker = at BY <1>3, <1>8, <1>9
<1> QED BY <1>10 DEF at

\* A part that is written is found, whole.
PartFits(parts, i) == i <= MaxParts /\ Len(parts[i].data) <= MostOf(parts[i].header)
\* The part that is found is the part that was written.
LEMMA PartIsFound ==
    ASSUME NEW s \in Seq(Bodies), NEW b, NEW p, NEW H, NEW D, PartLies(s, b, p, H, D), PartKind(p.header) # "bad", Bounded(p.data),
           NEW after, after = b + 2, NEW header, header = HeaderOf(s, after), NEW marker, marker = MarkerOf(s, header)
    PROVE  /\ marker = b + 5 + H + D /\ ~Is(s, after, <<"-">>) /\ PartOf(s, after, header, marker) = p
           /\ \A count \in Nat : Readable(s, count, after, header, marker) <=> (count < MaxParts /\ D <= MostOf(p.header))
<1> DEFINE h == p.header
           d == p.data
           x == SubSeq(s, after + 1, header - 1)
           y == SubSeq(s, header + 2, marker - 1)
<1>1. /\ b \in Nat /\ p \in Parts /\ H \in Nat /\ D \in Nat /\ H = Len(h) /\ D = Len(d) /\ b + 7 + H + D <= Len(s)
      /\ s[b + 2] = "n" /\ (\A i \in 1..H : s[b + 2 + i] = h[i]) /\ \A i \in 1..D : s[b + 4 + H + i] = d[i]
  BY DEF PartLies
<1>2. h \in Seq(Bodies) /\ d \in Seq(Bodies) /\ p = [header |-> h, data |-> d] BY <1>1 DEF Parts
<1>3. header = b + 3 + H BY HeaderSits
<1>4. marker = b + 5 + H + D BY <1>3, MarkerSits
<1> HIDE DEF h, d
<1>5. /\ Len(s) \in Nat /\ after \in Nat /\ after # 0 /\ after <= Len(s) /\ header \in Nat /\ header # 0 /\ marker \in Nat /\ marker # 0
      /\ header - 1 = b + 2 + H /\ header + 2 = b + 5 + H /\ marker - 1 = b + 4 + H + D /\ marker - header - 2 = D
  <2>1. b \in Nat /\ H \in Nat /\ D \in Nat /\ Len(s) \in Nat /\ b + 7 + H + D <= Len(s)
    BY <1>1, LenProperties
  <2> QED BY <1>3, <1>4, <2>1, SMTT(30)
<1>6. x = h
  <2> DEFINE a == b + 2
             e == b + 2 + H
  <2>1. b \in Nat /\ H \in Nat /\ D \in Nat /\ Len(s) \in Nat /\ b + 7 + H + D <= Len(s)
    BY <1>1, LenProperties
  <2>2. a \in Nat /\ e \in Nat /\ e <= Len(s) /\ a <= e /\ e - a = H BY <2>1
  <2>3. x = SubSeq(s, a + 1, e) BY <1>5
  <2>6. \A i \in 1..H : s[a + i] = h[i] BY <1>1
  <2> HIDE DEF a, e, x
  <2>4. x \in Seq(Bodies) /\ Len(x) = e - a /\ \A i \in 1..(e - a) : x[i] = s[a + i] BY <2>2, <2>3, Slice
  <2>5. \A i \in 1..Len(x) : x[i] = h[i] BY <2>2, <2>4, <2>6
  <2>7. Len(x) = Len(h) /\ x \in Seq(Bodies) BY <1>1, <2>2, <2>4
  <2> QED BY <1>2, <2>5, <2>7, SeqEqual
<1>7. y = d
  <2> DEFINE a == b + 4 + H
             e == b + 4 + H + D
  <2>1. b \in Nat /\ H \in Nat /\ D \in Nat /\ Len(s) \in Nat /\ b + 7 + H + D <= Len(s)
    BY <1>1, LenProperties
  <2>2. a \in Nat /\ e \in Nat /\ e <= Len(s) /\ a <= e /\ e - a = D /\ a + 1 = b + 5 + H BY <2>1
  <2>3. y = SubSeq(s, a + 1, e) BY <1>5, <2>2
  <2>6. \A i \in 1..D : s[a + i] = d[i] BY <1>1
  <2> HIDE DEF a, e, y
  <2>4. y \in Seq(Bodies) /\ Len(y) = e - a /\ \A i \in 1..(e - a) : y[i] = s[a + i] BY <2>2, <2>3, Slice
  <2>5. \A i \in 1..Len(y) : y[i] = d[i] BY <2>2, <2>4, <2>6
  <2>7. Len(y) = Len(d) /\ y \in Seq(Bodies) BY <1>1, <2>2, <2>4
  <2> QED BY <1>2, <2>5, <2>7, SeqEqual
<1> HIDE DEF x, y
<1>8. PartOf(s, after, header, marker) = p BY <1>2, <1>6, <1>7 DEF PartOf, x, y
<1>9. s[after] = "n" BY <1>1
<1>10. ~Is(s, after, <<"-">>) /\ Is(s, after, <<"n">>)
  <2>1. Is(s, after, <<"-">>) <=> (after <= Len(s) /\ s[after] = "-") BY <1>5, Symbols, IsOne
  <2>2. Is(s, after, <<"n">>) <=> (after <= Len(s) /\ s[after] = "n") BY <1>5, Symbols, IsOne
  <2> QED BY <1>5, <1>9, <2>1, <2>2
<1>11. ASSUME NEW count \in Nat PROVE Readable(s, count, after, header, marker) <=> (count < MaxParts /\ D <= MostOf(p.header))
  <2>1. /\ Is(s, after, <<"n">>) /\ header # 0 /\ marker # 0 /\ PartKind(x) # "bad" /\ MostOf(x) = MostOf(p.header)
    BY <1>5, <1>6, <1>10 DEF h
  <2>2. Readable(s, count, after, header, marker) <=> (~(count >= MaxParts) /\ ~(marker - header - 2 > MostOf(x)))
    BY <2>1, Zenon DEF Readable, x
  <2>3. MaxParts \in Nat /\ MostOf(p.header) \in Nat BY FormatsAssumption DEF MostOf
  <2>4. D \in Nat /\ marker - header - 2 = D BY <1>1, <1>5
  <2>5. (~(count >= MaxParts) /\ ~(D > MostOf(p.header))) <=> (count < MaxParts /\ D <= MostOf(p.header))
    BY <2>3, <2>4
  <2> QED BY <2>1, <2>2, <2>4, <2>5
<1> QED BY <1>4, <1>8, <1>10, <1>11

\* The turns of an upload.
Uploadable(parts) == \A i \in 1..Len(parts) : PartKind(parts[i].header) # "bad" /\ Bounded(parts[i].data)
Going(parts, k, now) == ~now.over /\ ~now.ok /\ now.at = Extent(parts, k) + 1 /\ now.parts = SubSeq(parts, 1, k)
Settled(parts, now) == now.over /\ now.ok /\ now.parts = parts
Stopped(now) == now.over /\ ~now.ok

\* A longer part of an upload has one part more.
LEMMA PartMore ==
    ASSUME NEW parts \in Seq(Parts), NEW k \in 0..(Len(parts) - 1)
    PROVE  /\ Len(SubSeq(parts, 1, k)) = k /\ SubSeq(parts, 1, k) \in Seq(Parts)
           /\ Append(SubSeq(parts, 1, k), parts[k + 1]) = SubSeq(parts, 1, k + 1)
<1> DEFINE m == k + 1
           p == parts[m]
           u == SubSeq(parts, 1, k)
           v == SubSeq(parts, 1, m)
<1>1. Len(parts) \in Nat /\ \A i \in 1..Len(parts) : parts[i] \in Parts BY LenProperties, ElementOfSeq
<1>2. k \in Nat /\ m \in Nat /\ m = k + 1 /\ m \in 1..Len(parts) /\ 1 \in 1..Len(parts) /\ m \in 1..Len(parts) /\ m - 1 = k /\ k <= Len(parts)
  BY <1>1
<1>3. u \in Seq(Parts) /\ Len(u) = k
  <2>1. \A i \in 1..k : parts[i] \in Parts BY <1>1, <1>2
  <2>2. u \in Seq(Parts) /\ Len(u) = IF 1 <= k THEN k - 1 + 1 ELSE 0 BY <1>2, <2>1, SubSeqProperties
  <2> QED BY <1>2, <2>2
<1>4. v = SubSeq(parts, 1, m - 1) \o <<p>>
  <2> HIDE DEF m
  <2>1. m \in 1..Len(parts) BY <1>2
  <2> QED BY <1>2, <2>1, SubSeqRecursiveSecond
<1>5. v = u \o <<p>> BY <1>2, <1>4
<1>6. p \in Parts BY <1>1, <1>2
<1> HIDE DEF u, v, p
<1>7. Append(u, p) = u \o <<p>> BY <1>3, <1>6, AppendIsConcat
<1> QED BY <1>3, <1>5, <1>7 DEF u, v, p

\* A turn before the last part: one part more, or the end if it is too long.
LEMMA TurnGoing ==
    ASSUME NEW s, NEW parts, IsBody(s, parts), Uploadable(parts), NEW k \in 0..(Len(parts) - 1), NEW now \in Readings, Going(parts, k, now)
    PROVE  /\ PartFits(parts, k + 1) => Going(parts, k + 1, ReadPart(s, now))
           /\ ~PartFits(parts, k + 1) => Stopped(ReadPart(s, now))
<1> DEFINE n == Len(parts)
           m == k + 1
           b == Extent(parts, k)
           p == parts[m]
           H == Len(p.header)
           D == Len(p.data)
           after == now.at + 1
           header == HeaderOf(s, after)
           marker == MarkerOf(s, header)
           new == ReadPart(s, now)
           u == SubSeq(parts, 1, k)
<1>0. /\ s \in Seq(Bodies) /\ parts \in Seq(Parts) /\ n \in Nat /\ now.parts = u /\ now.at = b + 1
      /\ now.over \in BOOLEAN /\ now.ok \in BOOLEAN /\ now.at \in Nat
  BY BodyEnd DEF Going, Readings
<1>1. ~now.over /\ ~now.ok BY Zenon DEF Going
<1>2. m \in 1..n /\ k \in Nat /\ m = k + 1 BY <1>0
<1>3. PartLies(s, b, p, H, D) /\ Extent(parts, m) = b + 5 + H + D BY PartStands
<1>4. Len(u) = k /\ Append(u, p) = SubSeq(parts, 1, m) BY <1>0, PartMore
<1>5. PartKind(p.header) # "bad" /\ Bounded(p.data) BY <1>2 DEF Uploadable
<1>6. /\ now.over => new = now
      /\ ~now.over /\ Is(s, after, <<"-">>) => new = [now EXCEPT !.over = TRUE, !.ok = Ends(s, after)]
      /\ ~now.over /\ ~Is(s, after, <<"-">>) /\ Readable(s, Len(now.parts), after, header, marker) =>
           new = [now EXCEPT !.at = marker + 1, !.parts = Append(now.parts, PartOf(s, after, header, marker))]
      /\ ~now.over /\ ~Is(s, after, <<"-">>) /\ ~Readable(s, Len(now.parts), after, header, marker) =>
           new = [now EXCEPT !.over = TRUE]
  BY PartTurn
<1>7. b \in Nat BY <1>3 DEF PartLies
<1>8. after = b + 2 BY <1>0, <1>7
<1>9. header = HeaderOf(s, after) /\ marker = MarkerOf(s, header) OBVIOUS
<1>10. PartFits(parts, m) <=> (m <= MaxParts /\ D <= MostOf(p.header)) BY DEF PartFits
<1>11. Extent(parts, m) = b + 5 + H + D BY <1>3
<1> HIDE DEF n, m, b, p, H, D, after, header, marker, new, u
<1>12. /\ marker = b + 5 + H + D /\ ~Is(s, after, <<"-">>) /\ PartOf(s, after, header, marker) = p
       /\ \A count \in Nat : Readable(s, count, after, header, marker) <=> (count < MaxParts /\ D <= MostOf(p.header))
  BY <1>0, <1>3, <1>5, <1>8, <1>9, PartIsFound
<1>13. Readable(s, Len(now.parts), after, header, marker) <=> PartFits(parts, m)
  <2>1. k < MaxParts <=> m <= MaxParts BY <1>2, FormatsAssumption
  <2> QED BY <1>0, <1>2, <1>4, <1>10, <1>12, <2>1
<1>14. ASSUME PartFits(parts, m) PROVE Going(parts, m, new)
  <2> DEFINE x == marker + 1
             y == Append(u, p)
  <2>1. Readable(s, Len(now.parts), after, header, marker) BY <1>13, <1>14
  <2>2. new = [now EXCEPT !.at = x, !.parts = y] BY <1>0, <1>1, <1>6, <1>12, <2>1
  <2>3. x = Extent(parts, m) + 1 /\ y = SubSeq(parts, 1, m) BY <1>4, <1>11, <1>12
  <2> HIDE DEF x, y
  <2>4. new.over = now.over /\ new.ok = now.ok /\ new.at = x /\ new.parts = y BY <2>2, Zenon DEF Readings
  <2> QED BY <1>1, <2>3, <2>4, Zenon DEF Going
<1>15. ASSUME ~PartFits(parts, m) PROVE Stopped(new)
  <2>1. ~Readable(s, Len(now.parts), after, header, marker) BY <1>13, <1>15
  <2>2. new = [now EXCEPT !.over = TRUE] BY <1>1, <1>6, <1>12, <2>1, Zenon
  <2>3. new.over /\ new.ok = now.ok BY <2>2, Zenon DEF Readings
  <2> QED BY <1>1, <2>3, Zenon DEF Stopped
<1> QED BY <1>14, <1>15, Zenon DEF m, new

\* The last turn finds the closing delimiter.
LEMMA TurnLast ==
    ASSUME NEW s, NEW parts, IsBody(s, parts), NEW now \in Readings, Going(parts, Len(parts), now)
    PROVE  Settled(parts, ReadPart(s, now))
<1> DEFINE n == Len(parts)
           b == Extent(parts, n)
           after == now.at + 1
           header == HeaderOf(s, after)
           marker == MarkerOf(s, header)
           new == ReadPart(s, now)
<1>0. /\ s \in Seq(Bodies) /\ parts \in Seq(Parts) /\ n \in Nat /\ Len(s) = b + 2 /\ s[b + 2] = "-" /\ now.at = b + 1
      /\ now.parts = SubSeq(parts, 1, n) /\ \A k \in 0..n : Extent(parts, k) \in Nat
  BY BodyEnd DEF Going
<1>1. ~now.over /\ ~now.ok BY Zenon DEF Going
<1>2. /\ now.over => new = now
      /\ ~now.over /\ Is(s, after, <<"-">>) => new = [now EXCEPT !.over = TRUE, !.ok = Ends(s, after)]
      /\ ~now.over /\ ~Is(s, after, <<"-">>) /\ Readable(s, Len(now.parts), after, header, marker) =>
           new = [now EXCEPT !.at = marker + 1, !.parts = Append(now.parts, PartOf(s, after, header, marker))]
      /\ ~now.over /\ ~Is(s, after, <<"-">>) /\ ~Readable(s, Len(now.parts), after, header, marker) =>
           new = [now EXCEPT !.over = TRUE]
  BY PartTurn
<1>3. b \in Nat
  <2>1. n \in 0..n BY <1>0
  <2> QED BY <1>0, <2>1
<1>4. after = b + 2 BY <1>0, <1>3
<1>5. now.parts = parts BY <1>0, SubSeqFull
<1> HIDE DEF n, b, after, header, marker, new
<1>6. after \in Nat /\ after # 0 /\ after <= Len(s) /\ after = Len(s) /\ s[after] = "-" BY <1>0, <1>3, <1>4
<1>7. Is(s, after, <<"-">>) BY <1>0, <1>6, Symbols, IsOne
<1>8. Ends(s, after) BY <1>6 DEF Ends
<1>9. new = [now EXCEPT !.over = TRUE, !.ok = Ends(s, after)] BY <1>1, <1>2, <1>7, Zenon
<1> DEFINE e == Ends(s, after)
<1>10. new = [now EXCEPT !.over = TRUE, !.ok = e] BY <1>9
<1>11. e BY <1>8
<1> HIDE DEF e
<1>12. new.over /\ new.ok = e /\ new.parts = now.parts BY <1>10, Zenon DEF Readings
<1> QED BY <1>5, <1>11, <1>12, Zenon DEF Settled, new

\* An upload, turn by turn.
Lost(parts, k) == \E i \in 1..Len(parts) : i <= k /\ ~PartFits(parts, i)
Holds(parts, k, now) ==
    /\ Lost(parts, k) => Stopped(now)
    /\ ~Lost(parts, k) /\ k <= Len(parts) => Going(parts, k, now)
    /\ ~Lost(parts, k) /\ k > Len(parts) => Settled(parts, now)

\* Before the first turn.
LEMMA HoldsFirst == ASSUME NEW s, NEW parts, IsBody(s, parts) PROVE Holds(parts, 0, AtFirst(s))
<1> DEFINE e == <<>>
           b == ~Is(s, 1, <<"B">>)
           c == FALSE
           now == [at |-> 1, parts |-> e, over |-> b, ok |-> c]
<1>1. now.at = 1 /\ now.parts = e /\ now.over = b /\ now.ok = c
  <2> HIDE DEF b, c, e
  <2> QED OBVIOUS
<1>2. AtFirst(s) = now BY DEF AtFirst
<1>3. /\ s \in Seq(Bodies) /\ parts \in Seq(Parts) /\ Len(parts) \in Nat /\ Extent(parts, 0) = 0 /\ Extent(parts, Len(parts)) \in Nat
      /\ Len(s) = Extent(parts, Len(parts)) + 2 /\ s[Extent(parts, Len(parts)) + 1] = "B"
  <2>1. Len(parts) \in 0..Len(parts) BY BodyEnd
  <2> QED BY <2>1, BodyEnd
<1>4. s[1] = "B"
  <2>1. CASE Len(parts) = 0 BY <1>3, <2>1
  <2>2. CASE Len(parts) # 0
    <3> DEFINE k == 0
               p == parts[k + 1]
               H == Len(p.header)
               D == Len(p.data)
    <3>1. k \in 0..(Len(parts) - 1) BY <1>3, <2>2
    <3>a. Extent(parts, k) = 0 BY <1>3
    <3> HIDE DEF k
    <3>2. PartLies(s, Extent(parts, k), p, H, D) BY <3>1, PartStands
    <3>3. s[0 + 1] = "B" BY <3>2, <3>a DEF PartLies
    <3> QED BY <3>3
  <2> QED BY <2>1, <2>2
<1>5. Is(s, 1, <<"B">>)
  <2>1. 1 <= Len(s) BY <1>3
  <2> QED BY <1>3, <1>4, <2>1, Symbols, IsOne
<1>6. SubSeq(parts, 1, 0) = e BY SubSeqEmpty
<1>7. 1 = Extent(parts, 0) + 1 BY <1>3
<1>8. ~b /\ ~c BY <1>5
<1> HIDE DEF now, e, b, c
<1>9. Going(parts, 0, now) BY <1>1, <1>6, <1>7, <1>8, Zenon DEF Going
<1>10. ~Lost(parts, 0) /\ ~(0 > Len(parts)) BY <1>3 DEF Lost
<1>11. Holds(parts, 0, now) BY <1>9, <1>10, Zenon DEF Holds
<1> QED BY <1>2, <1>11

\* From turn to turn.
LEMMA HoldsNext ==
    ASSUME NEW s, NEW parts, IsBody(s, parts), Uploadable(parts), NEW k \in Nat, NEW now \in Readings, Holds(parts, k, now)
    PROVE  Holds(parts, k + 1, ReadPart(s, now))
<1> DEFINE n == Len(parts)
           m == k + 1
           new == ReadPart(s, now)
<1>1. n \in Nat BY BodyEnd
<1>2. now.over => new = now BY PartTurn
<1>3. m \in Nat /\ m = k + 1 /\ (k < n => m <= n /\ k \in 0..(n - 1) /\ m \in 1..n) /\ (k = n \/ k > n => m > n /\ ~(m <= n))
      /\ (k < n \/ k = n \/ k > n) /\ (k <= n <=> k < n \/ k = n) /\ ~(k < n /\ m > n)
  BY <1>1
<1>4. Lost(parts, k) => Lost(parts, m) BY <1>3 DEF Lost
<1>5. ~Lost(parts, k) /\ k >= n => ~Lost(parts, m) BY <1>1, <1>3 DEF Lost
<1>6. ~Lost(parts, k) /\ k < n => (Lost(parts, m) <=> ~PartFits(parts, m)) BY <1>1, <1>3 DEF Lost
<1>7. k < n /\ Going(parts, k, now) => (PartFits(parts, m) => Going(parts, m, new)) /\ (~PartFits(parts, m) => Stopped(new))
  BY <1>3, TurnGoing
<1>8. k = n /\ Going(parts, k, now) => Settled(parts, new)
  <2> SUFFICES ASSUME k = n, Going(parts, k, now) PROVE Settled(parts, new) OBVIOUS
  <2>1. Going(parts, n, now) BY Zenon
  <2> QED BY <2>1, TurnLast
<1> HIDE DEF n, m, new
<1>9. CASE Lost(parts, k)
  <2>1. Stopped(now) BY <1>9, Zenon DEF Holds
  <2>2. new = now BY <1>2, <2>1, Zenon DEF Stopped
  <2>3. Holds(parts, m, new) BY <1>4, <1>9, <2>1, <2>2, Zenon DEF Holds
  <2> QED BY <2>3 DEF m, new
<1>10. CASE ~Lost(parts, k) /\ k < n
  <2>1. Going(parts, k, now) BY <1>3, <1>10, Zenon DEF Holds, n
  <2>2. Holds(parts, m, new) BY <1>3, <1>6, <1>7, <1>10, <2>1, Zenon DEF Holds, n
  <2> QED BY <2>2 DEF m, new
<1>11. CASE ~Lost(parts, k) /\ k = n
  <2>1. Going(parts, k, now) BY <1>3, <1>11, Zenon DEF Holds, n
  <2>2. Settled(parts, new) /\ ~Lost(parts, m)
    <3>1. k >= n BY <1>1, <1>11
    <3> QED BY <1>5, <1>8, <1>11, <2>1, <3>1, Zenon
  <2>3. Holds(parts, m, new) BY <1>3, <1>11, <2>2, Zenon DEF Holds, n
  <2> QED BY <2>3 DEF m, new
<1>12. CASE ~Lost(parts, k) /\ k > n
  <2>1. Settled(parts, now) BY <1>12, Zenon DEF Holds, n
  <2>2. new = now BY <1>2, <2>1, Zenon DEF Settled
  <2>3. ~Lost(parts, m)
    <3>1. k >= n BY <1>1, <1>12
    <3> QED BY <1>5, <1>12, <3>1, Zenon
  <2>4. Holds(parts, m, new) BY <1>3, <1>12, <2>1, <2>2, <2>3, Zenon DEF Holds, n
  <2> QED BY <2>4 DEF m, new
<1> QED BY <1>3, <1>9, <1>10, <1>11, <1>12, Zenon

\* What a client uploads arrives, unless there is too much of it.
TooMuch(parts) ==
    Len(parts) > MaxParts
    \/ \E i \in DOMAIN parts : Len(parts[i].data) > (IF "f" \in ToSet(parts[i].header) THEN MaxField ELSE MaxFile)
\* What stops the loop is that there is too much.
LEMMA LostIs ==
    ASSUME NEW parts \in Seq(Parts), Uploadable(parts), NEW k \in Nat, k > Len(parts)
    PROVE  Lost(parts, k) <=> TooMuch(parts)
<1> DEFINE n == Len(parts)
           Large(i) == Len(parts[i].data) > (IF "f" \in ToSet(parts[i].header) THEN MaxField ELSE MaxFile)
<1>1. n \in Nat /\ DOMAIN parts = 1..n BY LenProperties
<1>2. ASSUME NEW i \in 1..n PROVE PartFits(parts, i) <=> (i <= MaxParts /\ ~Large(i))
  <2> DEFINE p == parts[i]
             h == p.header
             d == p.data
             D == Len(d)
             M == MostOf(h)
  <2>1. p \in Parts BY ElementOfSeq
  <2> HIDE DEF p
  <2>2. h \in Seq(Bodies) /\ d \in Seq(Bodies) BY <2>1 DEF Parts
  <2>3. D \in Nat BY <2>2, LenProperties
  <2>4. PartKind(h) # "bad" BY DEF Uploadable, p
  <2> HIDE DEF h, d
  <2>5. PartKind(h) = "f" <=> "f" \in ToSet(h) BY <2>2, <2>4, HeadersAre
  <2>6. M = IF "f" \in ToSet(h) THEN MaxField ELSE MaxFile BY <2>5 DEF MostOf
  <2>7. M \in Nat BY FormatsAssumption DEF MostOf
  <2>8. Large(i) <=> D > M BY <2>6 DEF h, d, p
  <2>9. PartFits(parts, i) <=> (i <= MaxParts /\ D <= M) BY Zenon DEF PartFits, h, d, p
  <2> HIDE DEF D, M, Large
  <2>10. D <= M <=> ~(D > M) BY <2>3, <2>7
  <2> QED BY <2>8, <2>9, <2>10, Zenon
<1>3. TooMuch(parts) <=> (n > MaxParts \/ \E i \in 1..n : Large(i)) BY <1>1 DEF TooMuch
<1>4. \A i \in 1..n : i <= k BY <1>1
<1>5. MaxParts \in Nat BY FormatsAssumption
<1> HIDE DEF n, Large
<1>6. ASSUME n > MaxParts PROVE n \in 1..n /\ ~(n <= MaxParts) BY <1>1, <1>5, <1>6
<1>7. ASSUME ~(n > MaxParts) PROVE \A i \in 1..n : i <= MaxParts BY <1>1, <1>5, <1>7
<1>8. Lost(parts, k) <=> \E i \in 1..n : ~PartFits(parts, i) BY <1>4 DEF Lost, n
<1> QED BY <1>2, <1>3, <1>6, <1>7, <1>8, Zenon

\* An upload arrives, or there is too much of it.
LEMMA UploadIs ==
    ASSUME NEW parts \in Seq(Parts), Uploadable(parts)
    PROVE  ParseMultipart(WriteMultipart(parts)) = IF TooMuch(parts) THEN Bad ELSE Good(parts)
<1> DEFINE s == WriteMultipart(parts)
           n == Len(s)
           last == ReadAfter(s, n)
<1>1. IsBody(s, parts) BY DEF IsBody
<1>2. s \in Seq(Bodies) /\ Len(parts) \in Nat /\ Len(parts) <= Extent(parts, Len(parts)) /\ n = Extent(parts, Len(parts)) + 2
      /\ Extent(parts, Len(parts)) \in Nat
  <2> HIDE DEF s
  <2>1. Len(parts) \in 0..Len(parts) BY <1>1, BodyEnd
  <2> QED BY <1>1, <2>1, BodyEnd
<1> HIDE DEF s
<1>3. n \in Nat /\ n > Len(parts)
  <2> DEFINE x == Extent(parts, Len(parts))
             y == Len(parts)
  <2>1. x \in Nat /\ y \in Nat /\ y <= x /\ n = x + 2 BY <1>2
  <2> HIDE DEF x, y, n
  <2>2. n \in Nat /\ n > y BY <2>1
  <2> QED BY <2>2 DEF y
<1>4. PICK f : /\ f \in [0..n -> Readings]
               /\ f[0] = AtFirst(s) /\ \A k \in 0..(n - 1) : f[k + 1] = ReadPart(s, f[k])
               /\ \A m \in 0..n : ReadAfter(s, m) = f[m]
  BY <1>2, PartTurns
<1> DEFINE S == {k \in 0..n : Holds(parts, k, f[k])}
<1> HIDE DEF n
<1>5. 0 \in S BY <1>1, <1>3, <1>4, HoldsFirst
<1>6. ASSUME NEW k \in 0..(n - 1), k \in S PROVE k + 1 \in S
  <2>1. k \in 0..n /\ k + 1 \in 0..n /\ k \in Nat BY <1>3
  <2>2. Holds(parts, k, f[k]) /\ f[k] \in Readings BY <1>4, <1>6, <2>1
  <2>3. Holds(parts, k + 1, ReadPart(s, f[k])) BY <1>1, <2>1, <2>2, HoldsNext
  <2> QED BY <1>4, <2>1, <2>3
<1> HIDE DEF S
<1>7. \A k \in 0..n : k \in S BY <1>3, <1>5, <1>6, UpTo
<1>8. Holds(parts, n, last) BY <1>3, <1>4, <1>7 DEF S
<1>9. Lost(parts, n) <=> TooMuch(parts) BY <1>3, LostIs
<1>10. ParseMultipart(s) = IF last.ok THEN Good(last.parts) ELSE Bad
  BY DEF ParseMultipart, ReadAfter, AtFirst, n
<1> HIDE DEF last
<1>11. CASE TooMuch(parts)
  <2>1. ~last.ok BY <1>8, <1>9, <1>11, Zenon DEF Holds, Stopped
  <2> QED BY <1>10, <1>11, <2>1, Zenon DEF s
<1>12. CASE ~TooMuch(parts)
  <2>1. last.ok /\ last.parts = parts BY <1>3, <1>8, <1>9, <1>12, Zenon DEF Holds, Settled
  <2> QED BY <1>10, <1>12, <2>1, Zenon DEF s
<1> QED BY <1>11, <1>12

----------------------------------------
(* The promise, kind by kind.  What was made of an input is the result. *)

FormatsInv == input \in Cases /\ (output.read => output.got = Result(input))

\* WAV files, read and written.
LEMMA WavHolds == ASSUME FormatsInv PROVE WavIsRead
<1>1. CaseFits(input) BY CasesAssumption DEF FormatsInv
<1>2. output.read => output.got = Result(input) BY DEF FormatsInv
<1> HIDE DEF FormatsInv
<1>3. /\ input.kind = "wav" =>
           /\ Result(input).ok =>
                /\ Result(input).v.offset + Result(input).v.bytes <= input.size
                /\ \E format \in Chunks(input, "fmt"), data \in Chunks(input, "data") :
                     /\ Result(input).v.offset = Behind(input.chunks, data - 1) + 8
                     /\ Result(input).v.bytes = input.chunks[data].size
                     /\ Result(input).v.frames * input.chunks[format].align = Result(input).v.bytes
           /\ \A format, data \in DOMAIN input.chunks : WellFormed(input, format, data) => Result(input).ok
      /\ input.kind = "output" /\ Result(input).ok =>
           /\ Result(input).v.riff <= Max32
           /\ ParseWav(Result(input).v) = Good([offset |-> 44, bytes |-> input.samples * input.width, frames |-> input.samples])
  BY <1>1, WavsAre
<1>4. ASSUME Parsed("wav")
      PROVE  /\ output.got.ok =>
                  /\ output.got.v.offset + output.got.v.bytes <= input.size
                  /\ \E format \in Chunks(input, "fmt"), data \in Chunks(input, "data") :
                       /\ output.got.v.offset = Behind(input.chunks, data - 1) + 8
                       /\ output.got.v.bytes = input.chunks[data].size
                       /\ output.got.v.frames * input.chunks[format].align = output.got.v.bytes
             /\ \A format, data \in DOMAIN input.chunks : WellFormed(input, format, data) => output.got.ok
  <2>1. input.kind = "wav" /\ output.got = Result(input) BY <1>2, <1>4, Zenon DEF Parsed
  <2> QED BY <1>3, <2>1, Zenon
<1>5. ASSUME Parsed("output"), output.got.ok
      PROVE  /\ output.got.v.riff <= Max32
             /\ ParseWav(output.got.v) = Good([offset |-> 44, bytes |-> input.samples * input.width, frames |-> input.samples])
  <2>1. input.kind = "output" /\ output.got = Result(input) BY <1>2, <1>5, Zenon DEF Parsed
  <2> QED BY <1>3, <1>5, <2>1, Zenon
<1> QED BY <1>4, <1>5, Zenon DEF WavIsRead

\* Samples.
LEMMA SamplesHold == ASSUME FormatsInv PROVE SamplesSurvive
<1>1. CaseFits(input) BY CasesAssumption DEF FormatsInv
<1>2. output.read => output.got = Result(input) BY DEF FormatsInv
<1>3. /\ input.kind = "exact" => Result(input) = input.p
      /\ input.kind = "pcm" => /\ Result(input) \in -(Full - 1)..(Full - 1)
                               /\ (input.x >= 0 => Result(input) >= 0) /\ (input.x <= 0 => Result(input) <= 0)
  BY <1>1, SamplesAre
<1>4. ASSUME NEW kind, Parsed(kind) PROVE input.kind = kind /\ output.got = Result(input)
  BY <1>2, <1>4, Zenon DEF Parsed
<1>5. Parsed("exact") => output.got = input.p BY <1>3, <1>4, Zenon
<1>6. Parsed("pcm") => /\ output.got \in -(Full - 1)..(Full - 1)
                       /\ (input.x >= 0 => output.got >= 0) /\ (input.x <= 0 => output.got <= 0)
  BY <1>3, <1>4, Zenon
<1> QED BY <1>5, <1>6, Zenon DEF SamplesSurvive

\* Safetensors headers.
LEMMA TensorsHold == ASSUME FormatsInv PROVE TensorsPartition
<1>1. CaseFits(input) /\ (output.read => output.got = Result(input)) BY CasesAssumption DEF FormatsInv
<1> DEFINE Promise ==
      /\ \A b \in 0..(input.section - 1) :
           Cardinality({i \in DOMAIN input.tensors : input.tensors[i].start <= b /\ b < input.tensors[i].finish}) = 1
      /\ \A i \in DOMAIN input.tensors : input.tensors[i].finish - input.tensors[i].start = Size(input.tensors[i].shape)
<1>2. ASSUME Parsed("tensors"), output.got.ok PROVE Promise
  <2>1. input.kind = "tensors" /\ output.got = Result(input) BY <1>1, <1>2, Zenon DEF Parsed
  <2>2. input.section \in Nat /\ input.tensors \in Seq(TensorKinds) BY <1>1, <2>1 DEF CaseFits, TensorKinds
  <2>3. Result(input) = ParseHeader(input.tensors, input.section) BY <2>1, Zenon DEF Result
  <2>4. ParseHeader(input.tensors, input.section).ok BY <1>2, <2>1, <2>3, Zenon
  <2> QED BY <2>2, <2>4, TensorsAre
<1> QED BY <1>2, Zenon DEF TensorsPartition

\* Numbers and ranges.
LEMMA NumbersHold == ASSUME FormatsInv PROVE NumbersAreExact
<1>1. CaseFits(input) /\ (output.read => output.got = Result(input)) BY CasesAssumption DEF FormatsInv
<1> DEFINE Value == ValueOf(input.digits, Len(input.digits))
<1>2. ASSUME Parsed("number")
      PROVE  output.got = IF input.digits = <<>> \/ (\E k \in DOMAIN input.digits : input.digits[k] = 10) \/ Value > MaxSize
                          THEN Bad ELSE Good(Value)
  <2>1. input.kind = "number" /\ output.got = Result(input) BY <1>1, <1>2, Zenon DEF Parsed
  <2>2. input.digits \in Seq(0..10) BY <1>1, <2>1 DEF CaseFits
  <2>3. Result(input) = ParseSize(input.digits) BY <2>1, Zenon DEF Result
  <2>4. ParseSize(input.digits) =
          IF input.digits = <<>> \/ (\E k \in DOMAIN input.digits : input.digits[k] = 10) \/ Value > MaxSize
          THEN Bad ELSE Good(Value)
    BY <2>2, NumbersAre
  <2> QED BY <2>1, <2>3, <2>4, Zenon
<1>3. ASSUME Parsed("range"), output.got.ok
      PROVE  /\ 0 <= output.got.v.first /\ output.got.v.first <= output.got.v.last /\ output.got.v.last < input.size
             /\ input.form \in {"from", "both"} => output.got.v.first = input.first
  <2>1. input.kind = "range" /\ output.got = Result(input) BY <1>1, <1>3, Zenon DEF Parsed
  <2> QED BY <1>1, <1>3, <2>1, RangesAre
<1> QED BY <1>2, <1>3, Zenon DEF NumbersAreExact

\* Parameters in quotes.
LEMMA ParametersHold == ASSUME FormatsInv PROVE ParametersAreQuoted
<1>1. CaseFits(input) /\ (output.read => output.got = Result(input)) BY CasesAssumption DEF FormatsInv
<1> SUFFICES ASSUME Parsed("quoted")
             PROVE  output.got = (IF input.rest # <<>> \/ (~input.comments /\ (input.note # <<>> \/ input.text = <<>>)) THEN Bad
                                  ELSE Good({[name |-> <<"name">>, text |-> input.text]}))
  BY Zenon DEF ParametersAreQuoted
<1> DEFINE note == input.note
           text == input.text
           rest == input.rest
           comments == input.comments
           s == <<"semicolon", "name", "=">> \o note \o Quote(text) \o rest
<1>2. input.kind = "quoted" /\ output.got = Result(input) BY <1>1, Zenon DEF Parsed
<1>3. /\ {text, note, rest} \subseteq Seq(Text) /\ comments \in BOOLEAN
      /\ AreComments(note) /\ (rest # <<>> => rest[1] \notin {"space", "(", "semicolon"})
  BY <1>1, <1>2, Zenon DEF CaseFits
<1>4. Result(input) = Parameters(s, 1, comments) BY <1>2, Zenon DEF Result
<1> HIDE DEF note, text, rest, comments
<1>5. note \in Seq(Text) /\ text \in Seq(Text) /\ rest \in Seq(Text) BY <1>3
<1>6. LaidOut(s, note, text, rest) BY <1>5, ParameterAt
<1>7. Placed(s, note, text, rest) BY <1>3, <1>5, <1>6, Zenon DEF Placed
<1>8. Flag(comments) BY <1>3, Zenon DEF Flag
<1> HIDE DEF s
<1>9. Parameters(s, 1, comments) = QuotedAs(note, text, rest, comments) BY <1>7, <1>8, QuotedParameter
<1> QED BY <1>2, <1>4, <1>9, Zenon DEF QuotedAs, note, text, rest, comments

\* Uploads and bodies.
LEMMA UploadsHold == ASSUME FormatsInv PROVE UploadIsExact
<1>1. CaseFits(input) /\ (output.read => output.got = Result(input)) BY CasesAssumption DEF FormatsInv
<1>2. ASSUME Parsed("upload") PROVE output.got = IF TooMuch(input.parts) THEN Bad ELSE Good(input.parts)
  <2>1. input.kind = "upload" /\ output.got = Result(input) BY <1>1, <1>2, Zenon DEF Parsed
  <2>2. /\ input.parts \in Seq([header : Seq(Bodies), data : Seq(Bodies)])
        /\ \A i \in DOMAIN input.parts : PartKind(input.parts[i].header) # "bad" /\ Bounded(input.parts[i].data)
    BY <1>1, <2>1, Zenon DEF CaseFits
  <2> DEFINE parts == input.parts
  <2>3. parts \in Seq(Parts) BY <2>2, Zenon DEF Parts
  <2> HIDE DEF parts
  <2>4. DOMAIN parts = 1..Len(parts) BY <2>3, LenProperties
  <2>5. Uploadable(parts) BY <2>2, <2>4, Zenon DEF Uploadable, parts
  <2>6. ParseMultipart(WriteMultipart(parts)) = IF TooMuch(parts) THEN Bad ELSE Good(parts)
    BY <2>3, <2>5, UploadIs
  <2>7. Result(input) = ParseMultipart(WriteMultipart(parts)) BY <2>1, Zenon DEF Result, parts
  <2> QED BY <2>1, <2>6, <2>7, Zenon DEF parts
<1>3. ASSUME Parsed("body"), output.got.ok
      PROVE  input.body \in {WriteMultipart(output.got.v), Append(WriteMultipart(output.got.v), "n")}
  <2>1. input.kind = "body" /\ output.got = Result(input) BY <1>1, <1>3, Zenon DEF Parsed
  <2>2. input.body \in Seq(Bodies) BY <1>1, <2>1, Zenon DEF CaseFits
  <2>3. Result(input) = ParseMultipart(input.body) BY <2>1, Zenon DEF Result
  <2>4. ParseMultipart(input.body).ok BY <1>3, <2>1, <2>3, Zenon
  <2>5. input.body \in {WriteMultipart(ParseMultipart(input.body).v), Append(WriteMultipart(ParseMultipart(input.body).v), "n")}
    BY <2>2, <2>4, BodyIs, Zenon
  <2> QED BY <2>1, <2>3, <2>5, Zenon
<1>4. Parsed("upload") =>
        output.got = (IF Len(input.parts) > MaxParts
                         \/ \E i \in DOMAIN input.parts : Len(input.parts[i].data)
                                > (IF "f" \in ToSet(input.parts[i].header) THEN MaxField ELSE MaxFile)
                      THEN Bad ELSE Good(input.parts))
  BY <1>2, Zenon DEF TooMuch
<1> QED BY <1>3, <1>4, Zenon DEF UploadIsExact

\* Whatever the program reads from the outside, a WAV file, a safetensors
\* header, a number, a range, a parameter or a body, of any size, is what was
\* written there or is refused (WavChunkReader::open, read_wav, parse_header,
\* parse_disposition, extract_boundary and parse_multipart).
THEOREM InputsAreExact == FormatsSpec => []InputIsExact
<1>1. FInit => FormatsInv
  <2> SUFFICES ASSUME FInit PROVE FormatsInv OBVIOUS
  <2>1. input \in Cases /\ output = [read |-> FALSE] BY DEF FInit
  <2>2. ~output.read BY <2>1
  <2> QED BY <2>1, <2>2, Zenon DEF FormatsInv
<1>2. FormatsInv /\ [Parse]_fvars => FormatsInv'
  <2> SUFFICES ASSUME FormatsInv, [Parse]_fvars PROVE FormatsInv' OBVIOUS
  <2>1. CASE Parse
    <3> DEFINE r == Result(input)
    <3>1. input' = input /\ output' = [read |-> TRUE, got |-> r] BY <2>1, Zenon DEF Parse
    <3>2. input \in Cases BY Zenon DEF FormatsInv
    <3>3. Result(input)' = r BY <3>1
    <3> HIDE DEF r
    <3>4. output'.got = r BY <3>1
    <3> QED BY <3>1, <3>2, <3>3, <3>4, Zenon DEF FormatsInv
  <2>2. CASE UNCHANGED fvars BY <2>2 DEF fvars, FormatsInv
  <2> QED BY <2>1, <2>2
<1>3. FormatsInv => InputIsExact
  BY WavHolds, SamplesHold, TensorsHold, NumbersHold, ParametersHold, UploadsHold DEF InputIsExact
<1> QED BY <1>1, <1>2, <1>3, PTL DEF FormatsSpec
=============================================================================
