---------------------------- MODULE MCConversion ----------------------------
(***************************************************************************)
(* A conversion from the bytes of its input to the network it runs, in     *)
(* instances that one run explores one after the other: the checkpoints of *)
(* its operations (part "blocks"), the conversion itself ("clip"), its     *)
(* streamed stages ("stream"), its files ("files"), the snapshots of index *)
(* and weights ("snapshot"), the formats it reads ("bytes"), the networks  *)
(* ("net") and the kernels ("kernel").                                     *)
(***************************************************************************)
EXTENDS BlockCheckpoint, BoundedConversion, StreamedAudio, AudioFiles, Snapshots, Formats, Networks, Convolutions, TLC

CONSTANTS r1, r2  \* the recipes
VARIABLE part     \* the instance

ConversionParts == {"blocks", "clip", "stream", "files", "snapshot", "bytes", "net", "kernel"}
\* A component begins in one of its initial states; outside its part, with
\* some input that it never reads.
NoClip == clip = [n |-> 1, energy |-> [f \in 0..0 |-> 0], chunk |-> 6, query |-> 2, pad |-> 2]
NoJob == job = [kind |-> "window", n |-> 1, context |-> 2] /\ done = FALSE /\ result = << >>
NoBytes == input = [kind |-> "pcm", x |-> 0] /\ output = [read |-> FALSE]
NoNetwork == checkpoint = << >> /\ trainer = Untrained /\ at = "start" /\ steps = 0
PartsInit ==
    /\ part \in ConversionParts
    /\ Init /\ KInit
    /\ (part = "clip" \/ NoClip) /\ ConversionInit
    /\ IF part = "stream" THEN StreamInit ELSE NoJob
    /\ (part = "files" \/ use = "whole") /\ FilesInit
    /\ (part = "snapshot" \/ task = "index") /\ SInit
    /\ IF part = "bytes" THEN FInit ELSE NoBytes
    /\ IF part = "net" THEN NInit ELSE NoNetwork
PartsNext ==
    /\ UNCHANGED part
    /\ \/ part = "blocks" /\ Next /\ UNCHANGED <<conversionVars, streamVars, filesVars, svars, fvars, nvars, shape>>
       \/ part = "clip" /\ ConversionNext /\ UNCHANGED <<vars, streamVars, filesVars, svars, fvars, nvars, shape>>
       \/ part = "stream" /\ StreamNext /\ UNCHANGED <<vars, conversionVars, filesVars, svars, fvars, nvars, shape>>
       \/ part = "files" /\ FilesNext /\ UNCHANGED <<vars, conversionVars, streamVars, svars, fvars, nvars, shape>>
       \/ part = "snapshot" /\ SNext /\ UNCHANGED <<vars, conversionVars, streamVars, filesVars, fvars, nvars, shape>>
       \/ part = "bytes" /\ Parse /\ UNCHANGED <<vars, conversionVars, streamVars, filesVars, svars, nvars, shape>>
       \/ part = "net" /\ NNext /\ UNCHANGED <<vars, conversionVars, streamVars, filesVars, svars, fvars, shape>>
       \/ part = "kernel" /\ Run /\ UNCHANGED <<vars, conversionVars, streamVars, filesVars, svars, fvars, nvars>>
       \* Only a conversion never stops before it is over.
       \/ part # "clip" /\ UNCHANGED <<vars, conversionVars, streamVars, filesVars, svars, fvars, nvars, shape>>
PartsSpec == PartsInit /\ [][PartsNext]_<<part, vars, conversionVars, streamVars, filesVars, svars, fvars, nvars, shape>>

----------------------------------------
(* An operation of two blocks, and a recipe that needs one block too many. *)
MCNeed == r1 :> 2 @@ r2 :> 3
Symm == Permutations(Procs)

\* Clips shorter than a chunk, of one chunk, and with quiet places to cut; the
\* last with two of them too far apart for a chunk that is not a whole number
\* of hops.
MCClips ==
    [n : {1, 3}, energy : {[f \in 0..0 |-> 0]}, chunk : {6}, query : {2}, pad : {2}]
    \cup [n : {17}, energy : {[f \in 0..7 |-> (f * f) % k] : k \in {2, 3, 5}}, chunk : {6, 7, 20}, query : {2}, pad : {2, 4}]
    \cup [n : {13}, energy : [0..5 -> 0..1], chunk : {4}, query : {2}, pad : {2}]
    \cup [n : {18}, energy : {[f \in 0..8 |-> IF f \in {2, 8} THEN 0 ELSE 1]}, chunk : {6, 7}, query : {2}, pad : {2}]

\* Lengths on both sides of every block edge and of the shortest filtered clip.
MCEdits == {e \in [mode : {"smooth", "shift"}, first : 0..3, last : 2..6, by : {0, 12}] :
              ValidPitchEdits(<<e>>) /\ (e.mode = "shift" => e.by # 0)}
MCJobs ==
    [kind : {"resample"}, x : UNION {[1..n -> {1, 7}] : n \in 1..6}, src : {3, 4, 7}, dst : {3}]
    \cup [kind : {"highpass"}, x : UNION {[1..n -> {0, 1, 5}] : n \in 4..6}]
    \cup {j \in [kind : {"reflect"}, x : {[i \in 1..n |-> i] : n \in 2..6}, pad : 1..5, first : 0..15, count : 1..6] :
            j.pad < Len(j.x) /\ j.first + j.count <= Len(j.x) + 2 * j.pad}
    \cup [kind : {"window"}, n : 1..40, context : {2, 4}]
    \cup [kind : {"pitch"}, raw : UNION {[1..n -> {0, 60, 120}] : n \in 1..5}, interp : BOOLEAN, filter : {0, 3, 5}, key : {7}]
    \cup {j \in [kind : {"review"}, raw : [1..6 -> {0, 40, 52}] \cup [1..7 -> {40}], clip : {3, 6}, filter : {0, 3},
                  edits : {<<>>} \cup {<<a>> : a \in MCEdits} \cup {e \in MCEdits \X MCEdits : ValidPitchEdits(e)}] :
            j.clip = 6 \/ j.raw[1] = j.raw[6]}
    \cup [kind : {"issues"}, raw : [1..6 -> {0, 40, 47, 52}], filter : {0, 3}]
    \cup [kind : {"envelope"}, n : 1..9, hop : {2, 3}, length : 1..12]
    \cup UNION {[kind : {"cuts"}, n : {n}, energy : [0..((n \div Hop) - 1) -> 0..1], chunk : {6, 7, 8}, query : {2, 3}, pad : {2}]
                : n \in {2, 9, 19}}

\* Files with a header, chunks, numbers and bodies around every bound.
Strings(S, n) == UNION {[1..k -> S] : k \in 0..n}
WavCases ==
    {[kind |-> "wav", size |-> 8 + r + d, riff |-> r, chunks |-> ch] :
        r \in {3, 36, 37, 40, 52}, d \in -1..1,
        ch \in {s \in Strings([id : {"fmt"}, size : {14, 16}, align : {0, 2}] \cup [id : {"data"}, size : {0, 2, 4}, align : {0}]
                              \cup [id : {"junk"}, size : {3}, align : {0}], 3) : s # <<>>}}
    \cup {[kind |-> "wav", size |-> 52 + n + j + (j % 2), riff |-> 44 + n + j + (j % 2),
           chunks |-> <<[id |-> "fmt", size |-> 16, align |-> 2], [id |-> "junk", size |-> j, align |-> 0],
                        [id |-> "data", size |-> n, align |-> 0]>>] : n \in {0, 2, 4}, j \in 0..3}
MCCases ==
    WavCases \cup [kind : {"pcm"}, x : -20..20] \cup [kind : {"exact"}, p : (-Full)..(Full - 1)]
    \cup [kind : {"output"}, samples : 0..20, width : {2, 4}]
    \cup [kind : {"tensors"}, section : {0, 4, 8, 12},
          tensors : Strings([name : {"a", "b"}, dtype : {"F32"}, start : {0, 4, 8}, finish : {0, 4, 8, 12}, shape : {<<>>, <<2>>, <<2, 8>>, <<0, 9>>}], 2)]
    \cup [kind : {"number"}, digits : Strings({0, 1, 6, 7, 9, 10}, 3)]
    \cup [kind : {"range"}, form : {"none", "bad", "suffix", "from", "both"}, first : 0..4, last : 0..4, count : 0..4, size : 1..3]
    \cup [kind : {"quoted"}, text : Strings({"t", "quote", "\\", "semicolon", "=", "("}, 4), rest : {<<>>, <<"x">>}, comments : BOOLEAN,
          note : {<<>>, <<"(", "semicolon", "t", "=", "t", ")">>, <<"(", "(", ")", "quote", ")">>, <<"(", "\\", ")", ")">>}]
    \cup [kind : {"body"}, body : {<<"B", "n">> \o t : t \in Strings({"B", "n", "-", "f", "x"}, 6)}]
    \cup [kind : {"upload"}, parts : UNION {[1..k -> [header : {<<"f">>, <<"u">>, <<"u", "n", "c">>, <<"g", "n", "f">>},
                                                      data : {<<>>, <<"x">>, <<"n", "B", "x">>, <<"n", "B", "-", "x">>, <<"B", "n", "x">>}]] : k \in 0..2}
                                     \cup {[i \in 1..3 |-> [header |-> <<"f">>, data |-> <<>>]]}]

\* A network of two layers of everything.
MCDims ==
    [hidden |-> 2, heads |-> 2, layers |-> 2, filter |-> 3, window |-> 1, gin |-> 2, features |-> 2, bins |-> 3, spec |-> 3,
     couplings |-> 2, wave |-> 2, posterior |-> 2, taps |-> 3, first |-> 4, rates |-> <<2, 2>>, hop |-> 4, ups |-> <<4, 4>>,
     noise |-> <<4, 1>>, kernels |-> <<3, 5>>, dils |-> <<1, 3>>, speakers |-> 2,
     convs |-> << [ci |-> 1, co |-> 2, k |-> 3, groups |-> 1, stride |-> 1, pad |-> 1],
                  [ci |-> 2, co |-> 4, k |-> 5, groups |-> 2, stride |-> 2, pad |-> 2] >>,
     pc |-> <<1, 2, 2>>, periods |-> <<2, 5>>]
\* The sizes of the program: joint_model_contract.h, synthesizer.cpp.
RealDims ==
    [hidden |-> 192, heads |-> 2, layers |-> 6, filter |-> 768, window |-> 10, gin |-> 256, features |-> 768, bins |-> 256, spec |-> 1025,
     couplings |-> 4, wave |-> 3, posterior |-> 16, taps |-> 5, first |-> 512, rates |-> <<10, 10, 2, 2>>, hop |-> 400, ups |-> <<16, 16, 4, 4>>,
     noise |-> <<80, 8, 4, 1>>, kernels |-> <<3, 7, 11>>, dils |-> <<1, 3, 5>>, speakers |-> 109, convs |-> << >>, pc |-> <<1>>, periods |-> << >>]
Real == INSTANCE Networks WITH Dims <- RealDims
\* The checkpoint a joint trainer writes, at the program's own sizes, has every
\* tensor the converter looks for, in the shape it wants: the trainer's shapes
\* are a table, the converter computes its own.
LayoutsAgree == part = "net" /\ at = "start" => Real!Required(109) \subseteq Real!JointManifest

\* What was trained is what is heard: the networks agree on small sizes, and
\* their tensors at the program's own.
TrainedIsHeard == NetworksAgree /\ LayoutsAgree

\* Shapes at and around every tile.
Shaped(p) == p.cin % p.groups = 0 /\ p.cout % p.groups = 0 /\ Numerator(p) >= 0
MCShapes ==
    {p \in [kind : {"conv"}, cin : 1..2, len : 1..4, cout : {1, 2, 3}, k : 1..3, stride : 1..2, pad : 0..1, dil : 1..2, groups : 1..2] : Shaped(p)}
    \cup {p \in [kind : {"transposed"}, cin : 1..2, len : 1..4, cout : 1..2, k : 1..4, stride : 1..3, pad : 0..2] : LongerBy(p) > 0}
    \cup {p \in [kind : {"plane"}, cin : {1, 2}, h : 1..3, w : 1..3, cout : {1, 2}, kh : {1, 3}, kw : {1, 3}, sh : 1..2, sw : {1, 2},
                  ph : 0..1, pw : 0..1] : p.h + 2 * p.ph >= p.kh /\ p.w + 2 * p.pw >= p.kw /\ p.sw <= p.kw /\ p.pw < p.kw}
    \cup [kind : {"product"}, m : 1..3, n : 1..3, k : 1..4]
    \cup [kind : {"attention"}, frames : 1..4, dim : 1..2, window : 0..4]
    \cup [kind : {"gather"}, op : {"transpose", "flip", "bias"}, rows : 1..3, cols : 1..3]
    \cup [kind : {"gather"}, op : {"concat"}, rows : 1..2, more : 1..2, cols : 1..2]
    \cup [kind : {"gather"}, op : {"slice"}, start : 0..2, count : 1..2, cols : 1..2]
    \cup [kind : {"gather"}, op : {"embedding"}, idx : [1..3 -> 0..1], cols : 1..2]
    \cup [kind : {"gather"}, op : {"frame"}, rows : 1..3, cols : 1..3, hop : 1..3]
    \cup {p \in [kind : {"gather"}, op : {"reflect"}, rows : 1..4, target : 1..7] : p.target > p.rows /\ p.target < 2 * p.rows}
=============================================================================
