--------------------------- MODULE StreamedAudio ---------------------------
(***************************************************************************)
(* The bounded conversion of a file works block by block on temporary      *)
(* spools (src/pipeline/bounded_pipeline.cpp); the older conversion of a   *)
(* buffer works on the whole clip (src/pipeline/pipeline.cpp), and the     *)
(* review of pitch has a third copy of the pitch curve                     *)
(* (src/f0/pitch_review.cpp).  Each pair must compute the same thing at    *)
(* every block edge.  A sample is a number; a recursive filter is any      *)
(* recursion that never forgets its past; a pitch is a number of           *)
(* semitones, 0 where the frame is unvoiced, and the pitch factor adds to  *)
(* it.  A job is one input; RunJob computes the streamed result.           *)
(*                                                                         *)
(* Operators marked FAULT are wrong on purpose: nothing uses them, and the *)
(* project's mutants put them in place of the operator they precede.       *)
(***************************************************************************)
EXTENDS AudioPlans, Loops

CONSTANTS
    Block,      \* kIoBlockSamples and kNativeCacheSamples
    HpPad,      \* the reflection of the high-pass, 18 samples
    HpMin,      \* the shortest clip that is filtered, 40 samples
    ReviewFrames, \* the longest pitch curve that can be corrected, 61100 frames
    Jobs        \* the inputs that are tried

ASSUME StreamAssumption ==
    {Block, HpPad, HpMin, ReviewFrames} \subseteq Nat \ {0} /\ HpMin > HpPad + 1

Edits == [mode : {"smooth", "shift"}, first : Nat, last : Nat, by : Int]
\* The inputs the stages are called with.  A range to reflect lies in the padded
\* clip and the padding is shorter than the clip (read_reflected refuses the
\* rest); the context of an extractor is a positive number of hops; the plan of
\* a core was accepted and kept its chunk (convert_file_bounded).
JobFits(j) ==
    /\ j.kind \in {"resample", "highpass", "reflect", "window", "pitch", "review", "issues", "envelope", "cuts"}
    /\ j.kind = "resample" => j.x \in Seq(Int) /\ {j.src, j.dst} \subseteq Nat \ {0}
    /\ j.kind = "highpass" => j.x \in Seq(Int)
    /\ j.kind = "reflect" =>
         /\ j.x \in Seq(Int) /\ j.pad \in 1..(Len(j.x) - 1)
         /\ {j.first, j.count} \subseteq Nat /\ j.first + j.count <= Len(j.x) + 2 * j.pad
    /\ j.kind = "window" => {j.n, j.context} \subseteq Nat \ {0} /\ j.context % Hop = 0
    /\ j.kind \in {"pitch", "review", "issues"} => j.raw \in Seq(Nat) /\ j.raw # <<>> /\ j.filter \in Nat
    /\ j.kind = "pitch" => j.interp \in BOOLEAN /\ j.key \in Int
    /\ j.kind \in {"review", "issues"} => j.filter = 0 \/ (j.filter \in 3..31 /\ j.filter % 2 = 1)
    /\ j.kind = "review" => j.edits \in Seq(Edits) /\ j.clip \in Nat
    /\ j.kind = "issues" => Len(j.raw) <= ReviewFrames
    /\ j.kind = "envelope" => {j.n, j.hop, j.length} \subseteq Nat \ {0}
    /\ j.kind = "cuts" =>
         /\ {j.n, j.chunk, j.query, j.pad} \subseteq Nat /\ \A f \in 0..(Frames(j.n) - 1) : j.energy[f] \in Nat
         /\ LET plan == ChunkPlan(j.n, j.chunk, j.query, j.pad) IN plan.valid /\ plan.chunk = Max({j.chunk, Hop})
ASSUME JobsAssumption == \A j \in Jobs : JobFits(j)

VARIABLES
    job,     \* the input
    done,    \* the code has run
    result   \* what it computed
streamVars == <<job, done, result>>

----------------------------------------
(* Loops, spools and blocks.                                               *)

Read(spool, first, count) == SubSeq(spool, first + 1, first + count)
Blocks(n) ==
    [k \in 1..((n + Block - 1) \div Block) |->
        [offset |-> (k - 1) * Block, count |-> Min({Block, n - (k - 1) * Block})]]
\* Block by block: the piece of each block, in the order of the blocks.
Streamed(n, piece) == Iterated(LAMBDA out, k : out \o piece[Blocks(n)[k]], <<>>, Len(Blocks(n)))
Repeated(value, count) == [i \in 1..count |-> value]

----------------------------------------
(* Resampling to 16 kHz: the whole buffer, and through the native cache.   *)

\* The two native samples a sample is mixed from, and the fraction of src.
Tap(i, src, dst, n) ==
    LET index == Min({(i * src) \div dst, n - 1})
    IN [first |-> index, second |-> Min({index + 1, n - 1}),
        fraction |-> IF index + 1 < n THEN i * src - index * dst ELSE 0]
ResampleLinear(x, src, dst) ==
    [i \in 1..((Len(x) * dst) \div src) |->
        LET t == Tap(i - 1, src, dst, Len(x))
        IN x[t.first + 1] * (dst - t.fraction) + x[t.second + 1] * t.fraction]

\* sample_at: a miss reads a block that starts at the sample that is missing.
Cached(x, cache, index) ==
    IF index >= cache.first /\ index < cache.first + Len(cache.data) THEN cache
    ELSE [first |-> index, data |-> Read(x, index, Min({Block, Len(x) - index}))]
FromCache(cache, index) ==
    IF index - cache.first + 1 \in DOMAIN cache.data THEN cache.data[index - cache.first + 1] ELSE -1

\* The cache after the first samples of the output.
CacheAfter(x, src, dst, count) ==
    Iterated(LAMBDA cache, k : LET t == Tap(k - 1, src, dst, Len(x))
                               IN Cached(x, Cached(x, cache, t.first), t.second),
             [first |-> 0, data |-> <<>>], count)
StableSnapshot(x, src, dst) ==
    [i \in 1..((Len(x) * dst) \div src) |->
        LET t == Tap(i - 1, src, dst, Len(x))
            c1 == Cached(x, CacheAfter(x, src, dst, i - 1), t.first)
            c2 == Cached(x, c1, t.second)
        IN FromCache(c1, t.first) * (dst - t.fraction) + FromCache(c2, t.second) * t.fraction]

----------------------------------------
(* The zero-phase high-pass: forward, then backward over what came out.    *)

Modulus == 97
\* One recursive filter from a state; its last output is the next state.
Filtered(state, value) == (value + 3 * state) % Modulus
FilterFrom(state, input) ==
    [k \in DOMAIN input |-> Iterated(LAMBDA y, i : Filtered(y, input[i]), state, k)]
FilterNext(sofar, input) == sofar \o FilterFrom(IF sofar = <<>> THEN 0 ELSE Last(sofar), input)
FilterBlocks(sofar, blocks) == Iterated(LAMBDA out, k : FilterNext(out, blocks[k]), sofar, Len(blocks))

Extended(x) ==
    LET n == Len(x)
    IN [i \in 1..HpPad |-> 2 * x[1] - x[HpPad - i + 2]] \o x
       \o [i \in 1..HpPad |-> 2 * x[n] - x[n - i]]
HighpassFiltfilt(x) ==
    IF Len(x) < HpMin THEN x
    ELSE SubSeq(Reverse(FilterFrom(0, Reverse(FilterFrom(0, Extended(x))))), HpPad + 1, HpPad + Len(x))

\* The blocks of a spool from its end to its start, each one reversed.
ReversedBlocks(spool) ==
    [k \in 1..((Len(spool) + Block - 1) \div Block) |->
        LET remaining == Len(spool) - (k - 1) * Block
            count == Min({Block, remaining})
        IN Reverse(Read(spool, remaining - count, count))]
\* FAULT: the filter starts afresh in every block of the way back.
BackwardAfresh(forward) ==
    Iterated(LAMBDA out, k : out \o FilterFrom(0, ReversedBlocks(forward)[k]), <<>>, Len(ReversedBlocks(forward)))
Backward(forward) == FilterBlocks(<<>>, ReversedBlocks(forward))

FilteredSource(x) ==
    LET n == Len(x)
        first == Read(x, 0, HpPad + 1)
        last == Read(x, n - (HpPad + 1), HpPad + 1)
        before == FilterNext(<<>>, [i \in 1..HpPad |-> 2 * first[1] - first[HpPad - i + 2]])
        middle == FilterBlocks(before, [k \in DOMAIN Blocks(n) |-> Read(x, Blocks(n)[k].offset, Blocks(n)[k].count)])
        forward == FilterNext(middle, [i \in 1..HpPad |-> 2 * last[HpPad + 1] - last[HpPad + 1 - i]])
        backward == Backward(forward)
        output == [b \in Range(Blocks(n)) |->
            LET highest == n + HpPad - 1 - b.offset
            IN Reverse(Read(backward, highest - (b.count - 1), b.count))]
    IN IF n < HpMin THEN x ELSE Streamed(n, output)

----------------------------------------
(* Reflection at both ends of the clip.                                    *)

ReflectPad(x, pad) ==
    LET n == Len(x)
        p == Min({pad, n - 1})
    IN IF n < 2 \/ pad <= 0 THEN x
       ELSE [i \in 1..p |-> x[p - i + 2]] \o x \o [i \in 1..p |-> x[n - i]]

ReadReflected(x, pad, first, count) ==
    LET n == Len(x)
        end == first + count
        middleEnd == pad + n
        left == Min({end, pad})
        from == Max({first, pad})
        to == Min({end, middleEnd})
        tail == Max({first, middleEnd})
    IN (IF first < pad THEN Reverse(Read(x, pad - (left - 1), left - first)) ELSE <<>>)
       \o (IF from < to THEN Read(x, from - pad, to - from) ELSE <<>>)
       \o (IF tail < end THEN Reverse(Read(x, n - 2 - (end - middleEnd - 1), end - tail)) ELSE <<>>)

----------------------------------------
(* F0 windows, one after the other.                                        *)

\* FAULT: the context on the right is forgotten.
PlanWithoutRight(total, first, context) ==
    LET p == PlanF0Window(total, first, context)
        coreEnd == IF p.end < total \div Hop + 1 THEN p.end * Hop ELSE total
    IN [p EXCEPT !.samples = coreEnd - p.start, !.expected = (coreEnd - p.start) \div Hop + 1]
PlanWindow(total, first, context) == PlanF0Window(total, first, context)
\* build_raw_f0 without its checkpoint: a frame is known by its place on the
\* lattice and by how much of the clip its extractor saw on either side.
WindowFrames(p) ==
    [j \in 1..p.count |->
        LET frame == p.start \div Hop + p.crop + j - 1
        IN [frame |-> frame, left |-> frame * Hop - p.start, right |-> p.start + p.samples - frame * Hop]]
NextWindow(total, context, s) ==
    LET p == PlanWindow(total, s.first, context)
        frames == total \div Hop + 1
    IN IF s.first >= frames THEN s
       ELSE IF ~p.valid THEN [first |-> frames, out |-> Append(s.out, [frame |-> -1, left |-> 0, right |-> 0])]
       ELSE [first |-> p.end, out |-> s.out \o WindowFrames(p)]
RawF0(total, context) ==
    Iterated(LAMBDA s, k : NextWindow(total, context, s), [first |-> 0, out |-> <<>>], total \div Hop + 1).out

----------------------------------------
(* The pitch curve: gaps, median, pitch shift.                             *)

Voiced(f) == {i \in DOMAIN f : f[i] > 0}
Between(left, lv, right, rv, i) == lv + ((rv - lv) * (i - left)) \div (right - left)
InterpUnvoiced(f) ==
    IF Voiced(f) = {} THEN f
    ELSE [i \in DOMAIN f |->
            CASE i < Min(Voiced(f)) -> f[Min(Voiced(f))]
              [] i > Max(Voiced(f)) -> f[Max(Voiced(f))]
              [] f[i] > 0 -> f[i]
              [] OTHER -> LET a == Max({v \in Voiced(f) : v < i})
                              b == Min({v \in Voiced(f) : v > i})
                          IN Between(a, f[a], b, f[b], i)]

\* append_linear_gap
LinearGap(left, lv, right, rv) == [k \in 1..(right - left) |-> Between(left, lv, right, rv, left + k)]
\* find_first_voiced and the sweep from there; blocks only limit what is read.
SweepFrame(s, i, value) ==
    IF value <= 0 THEN s
    ELSE [out |-> s.out \o LinearGap(s.left, s.value, i, value), left |-> i, value |-> value]
Interpolated(raw) ==
    LET first == Min(Voiced(raw))
        swept == Iterated(LAMBDA s, k : SweepFrame(s, first + k, raw[first + k]),
                          [out |-> Repeated(raw[first], first), left |-> first, value |-> raw[first]],
                          Len(raw) - first)
    IN IF Voiced(raw) = {} THEN raw
       ELSE swept.out \o Repeated(swept.value, Len(raw) - swept.left)

Clamp(i, low, high) == Max({low, Min({high, i})})
Radius(filter) == IF filter >= 3 THEN filter \div 2 ELSE 0
\* Of an odd number of values, the one in the middle of their order.
Middle(window) ==
    Min({v \in Range(window) : 2 * Cardinality({d \in DOMAIN window : window[d] <= v}) > Len(window)})
Shift(v, key) == IF v > 0 THEN v + key ELSE v
MedianFilter(f, filter) ==
    LET r == Radius(filter)
    IN [i \in DOMAIN f |-> Middle([d \in 1..(2 * r + 1) |-> f[Clamp(i + d - 1 - r, 1, Len(f))]])]

\* FAULT: there is no halo, and the window stops at the edge of the block.
ProcessedWithoutHalo(f, filter, key) ==
    LET r == Radius(filter)
        output == [b \in Range(Blocks(Len(f))) |-> [k \in 1..b.count |->
            Shift(Middle([d \in 1..(2 * r + 1) |->
                            f[Clamp(b.offset + k + d - 1 - r, b.offset + 1, b.offset + b.count)]]), key)]]
    IN Streamed(Len(f), output)
\* Each block is read with a halo of the radius, and the window is clamped to the clip.
Processed(f, filter, key) ==
    LET r == Radius(filter)
        output == [b \in Range(Blocks(Len(f))) |->
            LET haloStart == Max({0, b.offset - r})
                halo == Read(f, haloStart, Min({Len(f), b.offset + b.count + r}) - haloStart)
                At(i) == halo[Clamp(i, 0, Len(f) - 1) - haloStart + 1]
            IN [k \in 1..b.count |->
                  Shift(Middle([d \in 1..(2 * r + 1) |-> At(b.offset + k - 1 + d - 1 - r)]), key)]]
    IN Streamed(Len(f), output)

WholeF0(raw, interp, filter, key) ==
    LET f == MedianFilter(IF interp THEN InterpUnvoiced(raw) ELSE raw, filter)
    IN [i \in DOMAIN f |-> Shift(f[i], key)]
ProcessedF0(raw, interp, filter, key) ==
    Processed(IF interp THEN Interpolated(raw) ELSE raw, filter, key)

----------------------------------------
(* Manual corrections.  An edit's ends are frames, after the padding.      *)

ValidPitchEdits(edits) ==
    \A k \in DOMAIN edits :
        /\ edits[k].last - edits[k].first >= 2
        /\ k > 1 => edits[k].first > edits[k - 1].last
        /\ edits[k].mode = "smooth" => edits[k].by = 0

Refused == <<-1>>
\* FAULT: the interval of a shift includes its end.
ShiftedInclusive(e, i) == i >= e.first /\ i <= e.last
Shifted(e, i) == i >= e.first /\ i < e.last
\* One edit in process_f0: Refused, or the new curve.  A frame that the filter
\* made unvoiced stays so: the factor multiplies.
ConversionEdit(raw, clip, values, e) ==
    IF e.last > clip \/ e.last >= Len(values) \/ e.last <= e.first THEN Refused
    ELSE IF e.mode = "smooth"
    THEN IF \E i \in e.first..e.last : raw[i + 1] <= 0 \/ values[i + 1] <= 0 THEN Refused
         ELSE [i \in DOMAIN values |->
                 IF i - 1 > e.first /\ i - 1 < e.last
                 THEN Between(e.first, values[e.first + 1], e.last, values[e.last + 1], i - 1) ELSE values[i]]
    ELSE [i \in DOMAIN values |->
            IF Shifted(e, i - 1) /\ raw[i] > 0 THEN Shift(values[i], e.by) ELSE values[i]]
\* One edit in prepare_pitch_curve, which has its own copy of the loop.
ReviewEdit(raw, clip, values, e) ==
    IF e.last > clip \/ e.last >= Len(values) \/ e.last <= e.first THEN Refused
    ELSE IF e.mode = "smooth"
    THEN IF \A i \in e.first..e.last : raw[i + 1] > 0 /\ values[i + 1] > 0
         THEN [i \in DOMAIN values |->
                 IF i - 1 \in (e.first + 1)..(e.last - 1)
                 THEN Between(e.first, values[e.first + 1], e.last, values[e.last + 1], i - 1) ELSE values[i]]
         ELSE Refused
    ELSE [i \in DOMAIN values |->
            IF i - 1 \in e.first..(e.last - 1) /\ raw[i] > 0 THEN Shift(values[i], e.by) ELSE values[i]]
ConversionEdited(raw, clip, curve, edits) ==
    Iterated(LAMBDA v, k : IF v = Refused THEN Refused ELSE ConversionEdit(raw, clip, v, edits[k]), curve, Len(edits))
ReviewEdited(raw, clip, curve, edits) ==
    Iterated(LAMBDA v, k : IF v = Refused THEN Refused ELSE ReviewEdit(raw, clip, v, edits[k]), curve, Len(edits))

\* process_f0, which bounds a clip only if there are edits, and prepare_pitch_curve.
ConversionCurve(raw, clip, filter, key, edits) ==
    IF edits # <<>> /\ Len(raw) > ReviewFrames THEN Refused
    ELSE ConversionEdited(raw, clip, ProcessedF0(raw, FALSE, filter, key), edits)
ReviewCurve(raw, clip, filter, key, edits) ==
    IF Len(raw) > ReviewFrames THEN Refused
    ELSE ReviewEdited(raw, clip, [i \in DOMAIN raw |-> Shift(MedianFilter(raw, filter)[i], key)], edits)

----------------------------------------
(* The loudness envelope: windows of frames, and the records a sample is   *)
(* mixed from.                                                             *)

\* rms_env: windows of two hops around the frames, cut at the ends.
RmsWindows(n, hop) ==
    [f \in 1..(n \div hop + 1) |-> <<Max({0, (f - 1) * hop - hop}), Min({n, (f - 1) * hop + hop})>>]
\* FAULT: the first window is not cut at the start of the clip.
RmsRecordsWhole(n, hop) ==
    [f \in 1..(n \div hop + 1) |-> <<(f - 1) * hop - hop, (f - 1) * hop + Min({hop, n - (f - 1) * hop})>>]
\* compute_rms_records
RmsRecords(n, hop) ==
    [f \in 1..(n \div hop + 1) |->
        LET center == (f - 1) * hop
        IN <<IF center >= hop THEN center - hop ELSE 0, center + Min({hop, n - center})>>]

\* The position of an output sample in the records, in units of 1/(2 * length).
Position(i, records, length) == Clamp((2 * i + 1) * records - length, 0, (records - 1) * 2 * length)
WholeEnvelope(records, length) ==
    [i \in 1..length |->
        LET p == Position(i - 1, Len(records), length)
            first == p \div (2 * length)
        IN <<records[Min({first, Len(records) - 1}) + 1], records[Min({first + 1, Len(records) - 1}) + 1],
             p % (2 * length)>>]
\* EnvelopeCursor::value keeps the last pair it read.
CursorStep(cursor, i, records, length) ==
    LET first == Position(i, Len(records), length) \div (2 * length)
    IN IF first = cursor.first THEN cursor
       ELSE [first |-> first, cached |-> Read(records, first, IF first + 1 < Len(records) THEN 2 ELSE 1)]
EnvelopeCursor(records, length) ==
    [i \in 1..length |->
        LET cursor == Iterated(LAMBDA c, k : CursorStep(c, k - 1, records, length), [first |-> -1, cached |-> <<>>], i)
        IN <<cursor.cached[1], IF Len(cursor.cached) > 1 THEN cursor.cached[2] ELSE cursor.cached[1],
             Position(i - 1, Len(records), length) % (2 * length)>>]

----------------------------------------
(* The cores of the bounded conversion, from its planner.                  *)

NextCut(j, plan, s) ==
    LET core == NextCore(j.n, j.energy, plan.chunk, plan.query, plan.hardCore, Last(s.cuts), s.target)
    IN IF s.failed \/ Last(s.cuts) >= j.n THEN s
       ELSE IF core.fails THEN [s EXCEPT !.failed = TRUE, !.cuts = Append(s.cuts, -1)]
       ELSE [cuts |-> Append(s.cuts, core.end), target |-> core.target, failed |-> FALSE]
QuietCores(j) ==
    LET plan == ChunkPlan(j.n, j.chunk, j.query, j.pad)
    IN Iterated(LAMBDA s, k : NextCut(j, plan, s), [cuts |-> <<0>>, target |-> plan.chunk, failed |-> FALSE], j.n).cuts

----------------------------------------
(* find_pitch_issues: jumps of the raw pitch that the processed curve      *)
(* still has, and a shift by an octave where the pitch comes back.         *)

Far(a, b, least) == a - b >= least \/ b - a >= least
Octave(d) == d \in 11..13 \/ -d \in 11..13
\* The frame at which a jump at i is undone, 0 if it is not.
ReturnOf(raw, i, end) ==
    LET run == {j \in (i + 2)..(Min({end, i + 36}) - 1) : \A k \in (i + 1)..j : raw[k] > 0 /\ raw[k + 1] > 0}
        back == {j \in run : /\ (raw[i + 1] - raw[i]) * (raw[j + 1] - raw[j]) < 0
                             /\ Octave(raw[j + 1] - raw[j]) /\ ~Far(raw[j + 1], raw[i], 4)}
    IN IF back = {} THEN 0 ELSE Min(back)
\* Frames that would be near the curve behind the return after the correction.
\* FAULT: the processed curve is not looked at.
WrongAnyway(raw, curve, j, by, k) == raw[k + 1] > 0
Wrong(raw, curve, j, by, k) ==
    raw[k + 1] > 0 /\ curve[k + 1] > 0 /\ curve[j + 1] > 0 /\ ~Far(curve[k + 1] + by, curve[j + 1], 3)
SuggestAt(raw, curve, radius, begin, end, i) ==
    LET jump == raw[i + 1] - raw[i]
        j == IF Octave(jump) THEN ReturnOf(raw, i, end) ELSE 0
        by == IF jump < 0 THEN 12 ELSE -12
        first == Min({f \in Max({begin, i - radius})..i :
                        \A k \in f..(i - 1) : Wrong(raw, curve, j, by, k)})
        last == Max({l \in j..Min({end, j + radius}) :
                        \A k \in j..(l - 1) : Wrong(raw, curve, j, by, k)})
    IN IF j = 0 THEN [found |-> FALSE, until |-> i + 1]
       ELSE IF last - first >= 2 /\ \A k \in first..(last - 1) : Wrong(raw, curve, j, by, k)
       THEN [found |-> TRUE, until |-> last, first |-> first, last |-> last, by |-> by]
       ELSE [found |-> FALSE, until |-> j]
NextIssue(raw, curve, radius, begin, end, s) ==
    LET i == s.at
        g == SuggestAt(raw, curve, radius, begin, end, i)
        seen == g.found \/ (curve[i + 1] > 0 /\ curve[i] > 0 /\ Far(curve[i + 1], curve[i], 7))
    IN IF i + 2 >= end THEN s
       ELSE IF raw[i] <= 0 \/ raw[i + 1] <= 0 \/ ~Far(raw[i + 1], raw[i], 7) THEN [s EXCEPT !.at = i + 1]
       ELSE IF ~seen THEN [s EXCEPT !.at = g.until]
       ELSE [at |-> g.until + 1, issues |-> Append(s.issues, [at |-> i, suggestion |-> g])]
FindPitchIssues(raw, curve, filter) ==
    Iterated(LAMBDA s, k : NextIssue(raw, curve, Radius(filter), 1, Len(raw), s),
             [at |-> 1, issues |-> <<>>], Len(raw)).issues
\* The shifts that the review proposes, as edits.
Suggestions(issues) ==
    {[mode |-> "shift", first |-> g.first, last |-> g.last, by |-> g.by] :
        g \in {s \in {issues[k].suggestion : k \in DOMAIN issues} : s.found}}

----------------------------------------
\* What the code computes for a job.
Outcome(j) ==
    CASE j.kind = "resample" -> StableSnapshot(j.x, j.src, j.dst)
      [] j.kind = "highpass" -> FilteredSource(j.x)
      [] j.kind = "reflect" -> ReadReflected(j.x, j.pad, j.first, j.count)
      [] j.kind = "window" -> RawF0(j.n, j.context)
      [] j.kind = "pitch" -> ProcessedF0(j.raw, j.interp, j.filter, j.key)
      [] j.kind = "review" -> ConversionCurve(j.raw, j.clip, j.filter, 0, j.edits)
      [] j.kind = "issues" -> FindPitchIssues(j.raw, ReviewCurve(j.raw, Len(j.raw), j.filter, 0, <<>>), j.filter)
      [] j.kind = "envelope" -> EnvelopeCursor(RmsRecords(j.n, j.hop), j.length)
      [] j.kind = "cuts" -> QuietCores(j)

StreamInit == job \in Jobs /\ done = FALSE /\ result = <<>>
RunJob == ~done /\ done' = TRUE /\ result' = Outcome(job) /\ UNCHANGED job
StreamNext == RunJob
StreamSpec == StreamInit /\ [][StreamNext]_streamVars

Done(kind) == done /\ job.kind = kind

----------------------------------------
\* Resampled, filtered and reflected audio is the same whether it is read in
\* blocks from spools or held whole: the native cache, the state of the
\* filter across blocks in both directions, and every reflected range
\* (build_stable_16k_snapshot, build_filtered_source, read_reflected).
StreamIsWhole ==
    /\ Done("resample") => result = ResampleLinear(job.x, job.src, job.dst)
    /\ Done("highpass") => result = HighpassFiltfilt(job.x)
    /\ Done("reflect") => result = Read(ReflectPad(job.x, job.pad), job.first, job.count)

\* The windows cover every frame of the clip once and in order, and each frame
\* is extracted with the whole context, or with all there is at the clip's ends.
WindowsCover ==
    Done("window") =>
        /\ Len(result) = job.n \div Hop + 1
        /\ \A i \in DOMAIN result :
             /\ result[i].frame = i - 1
             /\ result[i].left >= Min({job.context, (i - 1) * Hop})
             /\ result[i].right >= Min({job.context, job.n - (i - 1) * Hop})

\* Interpolation over gaps of any length, median and pitch shift give the
\* curve of the older conversion at every block edge (build_processed_f0).
PitchIsWhole ==
    Done("pitch") => result = WholeF0(job.raw, job.interp, job.filter, job.key)

\* The curve that the review shows is the one the conversion uses, computed by
\* two copies of the filter and of the edits, and with edits each refuses what
\* the other refuses; an edit leaves every frame outside its interval alone.
ReviewIsTrue ==
    Done("review") =>
        LET seen == ReviewCurve(job.raw, job.clip, job.filter, 0, job.edits)
        IN /\ job.edits # <<>> \/ seen # Refused => result = seen
           /\ result # Refused => \A i \in DOMAIN job.raw :
                (\A k \in DOMAIN job.edits : ~(i - 1 \in job.edits[k].first..(job.edits[k].last - 1)))
                   => result[i] = ConversionCurve(job.raw, job.clip, job.filter, 0, <<>>)[i]

\* A shift the review proposes is accepted as it stands, touches voiced frames
\* only, and once applied is not proposed again (find_pitch_issues).
SuggestionsHold ==
    Done("issues") =>
        \A e \in Suggestions(result) :
            LET fixed == ReviewCurve(job.raw, Len(job.raw), job.filter, 0, <<e>>)
            IN /\ ValidPitchEdits(<<e>>) /\ fixed # Refused
               /\ \A i \in e.first..(e.last - 1) : job.raw[i + 1] > 0
               /\ e \notin Suggestions(FindPitchIssues(job.raw, fixed, job.filter))

\* The envelope that is mixed into the output is the one of the whole clip.
EnvelopeIsWhole ==
    Done("envelope") => result = WholeEnvelope(RmsWindows(job.n, job.hop), job.length)

\* The bounded planner cuts where the older conversion cuts: its cores cover
\* the clip without a gap.  It refuses a clip only where a core would exceed
\* the bound, and that takes a chunk or query off the lattice of the hop
\* (QuietCorePlanner::next; a quiet frame may start up to a hop before the query).
CutsAreWhole ==
    Done("cuts") =>
        LET cuts == LongCuts(job.n, job.energy, Max({job.chunk, Hop}), Max({job.query, Hop}))
            hard == ChunkPlan(job.n, job.chunk, job.query, job.pad).hardCore
        IN IF -1 \in ToSet(result)
           THEN /\ job.chunk % Hop # 0 \/ job.query % Hop # 0
                /\ \E k \in 1..(Len(cuts) - 1) : cuts[k + 1] - cuts[k] > hard
           ELSE result = cuts

\* Each stage of the bounded conversion computes in blocks what the older
\* conversion computes on the whole clip, at every edge.
StreamedAsWhole == StreamIsWhole /\ WindowsCover /\ PitchIsWhole /\ EnvelopeIsWhole /\ CutsAreWhole

\* What is reviewed is what will be heard, and what is suggested can be done.
ReviewIsHeard == ReviewIsTrue /\ SuggestionsHold
=============================================================================
