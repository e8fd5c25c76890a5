----------------------------- MODULE AudioPlans -----------------------------
(***************************************************************************)
(* Where the conversion cuts a clip: the windows of the pitch extractors   *)
(* (src/pipeline/bounded_pipeline_detail.h), the cores between quiet       *)
(* frames of the bounded conversion (QuietCorePlanner) and the cuts of the *)
(* older conversion of a buffer (convert_long).                            *)
(***************************************************************************)
EXTENDS Integers, FiniteSets, FiniteSetsExt, SequencesExt

CONSTANTS
    Hop,        \* kPitchHop
    F0Core,     \* kF0CoreSamples
    ContentMax  \* kContentMaximumSamples

ASSUME PlanAssumption == {Hop, F0Core, ContentMax} \subseteq Nat \ {0} /\ F0Core % Hop = 0

----------------------------------------
(* F0 windows on the lattice of Hop samples.                               *)

\* plan_f0_window; "none" where it returns false.
PlanF0Window(total, first, context) ==
    LET frames == total \div Hop + 1
        count == Min({F0Core \div Hop, frames - first})
        end == first + count
        coreStart == first * Hop
        coreEnd == IF end < frames THEN end * Hop ELSE total
        start == IF coreStart > context THEN coreStart - context ELSE 0
        samples == coreEnd + Min({context, total - coreEnd}) - start
        crop == first - start \div Hop
    IN [first |-> first, end |-> end, start |-> start, samples |-> samples, crop |-> crop,
        count |-> count, expected |-> samples \div Hop + 1,
        valid |-> /\ total > 0 /\ context % Hop = 0 /\ first < frames
                  /\ start % Hop = 0 /\ samples > 0
                  /\ crop <= samples \div Hop + 1 /\ count <= samples \div Hop + 1 - crop
                  /\ samples <= F0Core + 2 * context]

----------------------------------------
(* Quiet cores.  energy[f] is the loudness of frame f of a clip.           *)

Frames(n) == n \div Hop
\* The frames that are searched around a target, and the first quietest one.
QueryFrames(n, target, query) ==
    (IF target > query THEN Max({1, target - query}) ELSE 1) \div Hop
    ..Min({Frames(n) - 1, Min({n - 1, target + query}) \div Hop})
Quietest(frames, energy) ==
    CHOOSE f \in frames : \A g \in frames :
        energy[f] < energy[g] \/ (energy[f] = energy[g] /\ f <= g)

\* What one call of QuietCorePlanner::next finds from its state, by targets:
\* the first target whose quietest frame lies behind the last cut.
Targets(n, chunk, target) == {target + k * chunk : k \in 0..((n - 1 - target) \div chunk)}
Candidate(n, energy, query, t) == Quietest(QueryFrames(n, t, query), energy) * Hop
Usable(n, energy, query, previous, t) ==
    QueryFrames(n, t, query) # {} /\ Candidate(n, energy, query, t) \in (previous + 1)..(n - 1)
\* FAULT: the tail behind the last cut is dropped.
CoreEndWithoutTail(n, energy, query, previous, usable) ==
    IF usable = {} THEN Min({n, previous + Hop}) ELSE Candidate(n, energy, query, Min(usable))
CoreEnd(n, energy, query, previous, usable) ==
    IF usable = {} THEN n ELSE Candidate(n, energy, query, Min(usable))
NextCore(n, energy, chunk, query, hard, previous, target) ==
    LET ts == Targets(n, chunk, target)
        usable == {t \in ts : Usable(n, energy, query, previous, t)}
        passed == IF usable = {} THEN ts ELSE {t \in ts : t <= Min(usable)}
        end == CoreEnd(n, energy, query, previous, usable)
    IN [end |-> end, fails |-> (Frames(n) = 0 /\ ts # {}) \/ end - previous > hard,
        target |-> IF passed = {} THEN target ELSE Max(passed) + chunk]

\* FAULT: the padding is counted on one side only.
OverheadOneSide(query, pad) == 2 * query + pad + Hop
\* What a segment holds besides its chunk.
Overhead(query, pad) == 2 * query + 2 * pad + Hop
\* The chunk, the bounds and whether convert_file_bounded accepts them.
ChunkPlan(n, requested, asked, padding) ==
    LET chunk == Max({requested, Hop})
        query == Max({asked, Hop})
        pad == Min({Max({padding, Hop}), n - 1})
        overhead == Overhead(query, pad)
        effective == Min({chunk, ContentMax - overhead})
    IN [chunk |-> effective, query |-> query, pad |-> pad, hardCore |-> effective + 2 * query,
        hardSegment |-> effective + Overhead(query, pad),
        valid |-> /\ n >= 2 /\ overhead < ContentMax /\ effective >= Hop
                  /\ effective + Overhead(query, pad) <= ContentMax]

\* The cuts of convert_long: one pass over the targets.
CutAt(n, energy, query, bounds, t) ==
    LET at == Candidate(n, energy, query, t)
    IN IF at > Last(bounds) /\ at < n THEN Append(bounds, at) ELSE bounds
CutsByTarget(n, energy, chunk, query) ==
    LET cuts[k \in 0..((n - 1) \div chunk)] ==
            IF k = 0 THEN <<0>> ELSE CutAt(n, energy, query, cuts[k - 1], k * chunk)
    IN cuts
LongCuts(n, energy, chunk, query) ==
    Append(CutsByTarget(n, energy, chunk, query)[(n - 1) \div chunk], n)
=============================================================================
