------------------------------ MODULE Networks ------------------------------
(***************************************************************************)
(* One network, written three times: the joint trainer                     *)
(* (src/training/joint_trainer.cpp), the GAN trainer                       *)
(* (generator_trainer.cpp, posterior_encoder.cpp, discriminator.cpp) and   *)
(* the converter (src/synthesizer/synthesizer.cpp).  A checkpoint is       *)
(* loaded by a trainer, trained, exported and converted with: what was     *)
(* trained must be what is heard.                                          *)
(*                                                                         *)
(* Numbers are residues modulo a prime.  Every nonlinearity, the square    *)
(* root of a norm included, is some fixed function on them, and sums and   *)
(* products are exact: two formulas that agree here on arbitrary weights   *)
(* are one formula, up to rounding.  The sizes are those of Dims.          *)
(*                                                                         *)
(* Operators marked FAULT are wrong on purpose: nothing uses them, and the *)
(* project's mutants put them in place of the operator they precede.       *)
(***************************************************************************)
EXTENDS Integers, Sequences, FiniteSets, FiniteSetsExt, SequencesExt

CONSTANTS
    Dims,       \* the sizes of the networks
    Prime,      \* values are residues modulo Prime
    ClipFrames, \* frames of a clip
    SampleRate, \* phases are integers modulo it
    MaxIndex,   \* the largest 64-bit index of a draw
    MaxSteps    \* bound: updates and exports of a behaviour

VARIABLES
    checkpoint, \* the generator's checkpoint on disk
    trainer,    \* the trainer that is loaded
    at,         \* "start", "loaded", "updated" or "exported"
    steps       \* updates and exports so far

nvars == <<checkpoint, trainer, at, steps>>
Below(n) == 0..(n - 1)

----------------------------------------
(* Residues and tensors.                                                   *)

Mix(a, b, c) == LET x == (a * 7919 + b * 613 + c * 31 + 17) % 46337 IN ((x * x + 3 * x) % 46337) % Prime
Sum(n, term(_)) == LET s[i \in 0..n] == IF i = 0 THEN 0 ELSE (s[i - 1] + term(i - 1)) % Prime IN s[n]
\* n layers, one after the other.
Layers(n, first, layer(_, _)) == LET x[l \in 0..n] == IF l = 0 THEN first ELSE layer(x[l - 1], l - 1) IN x[n]
\* Functions nobody knows anything about.
Tanh(x) == (5 * x * x + 3 * x + 7) % Prime
Sigmoid(x) == (2 * x * x + 11 * x + 1) % Prime
Exp(x) == (3 * x * x + x + 1) % Prime
Relu(x) == (7 * x * x + 2 * x) % Prime
Leaky(slope, x) == ((slope + 4) * x * x + (slope + 2) * x) % Prime
Scalar(what) == CASE what = "root" -> 13 [] what = "third" -> 29 [] what = "dim" -> 37 [] what = "voiced" -> 41
                  [] what = "unvoiced" -> 43 [] what = "tone" -> 47 [] what = "spread" -> 53
Inverses == [n \in 1..(Prime - 1) |-> CHOOSE m \in 1..(Prime - 1) : (n * m) % Prime = 1]
\* The norm of a row is zero for a zero row only.
NormOf(row) == IF \A i \in DOMAIN row : row[i] = 0 THEN 0
               ELSE 1 + (Mix(Sum(Len(row), LAMBDA i : row[i + 1] * (i + 2)), Len(row), 5) % (Prime - 1))

Values(n, value(_)) == [i \in 1..n |-> value(i - 1)] \o << >>
Tensor(c, t, value(_, _)) == [c |-> c, t |-> t, v |-> Values(c * t, LAMBDA i : value(i \div t, i % t))]
Cell(x, c, t) == x.v[c * x.t + t + 1]
Rows(x, start, count) == [c |-> count, t |-> x.t, v |-> SubSeq(x.v, start * x.t + 1, (start + count) * x.t)]
Concat(x, y) == [c |-> x.c + y.c, t |-> x.t, v |-> x.v \o y.v]
Mapped(x, f(_)) == [x EXCEPT !.v = Values(Len(x.v), LAMBDA i : f(x.v[i + 1]))]
Cellwise(x, y, f(_, _)) == [x EXCEPT !.v = Values(Len(x.v), LAMBDA i : f(x.v[i + 1], y.v[i + 1]))]
Add(x, y) == Cellwise(x, y, LAMBDA a, b : (a + b) % Prime)
Mul(x, y) == Cellwise(x, y, LAMBDA a, b : (a * b) % Prime)
Scale(x, s) == Mapped(x, LAMBDA a : (a * s) % Prime)
Flip(x) == Tensor(x.c, x.t, LAMBDA c, t : Cell(x, x.c - 1 - c, t))
Transpose(x) == Tensor(x.t, x.c, LAMBDA c, t : Cell(x, t, c))
MatMul(x, y) == Tensor(x.c, y.t, LAMBDA r, s : Sum(x.t, LAMBDA i : Cell(x, r, i) * Cell(y, i, s)))
CutTime(x, start, count) == Tensor(x.c, count, LAMBDA c, t : Cell(x, c, start + t))
SumOf(xs) == LET s[i \in 1..Len(xs)] == IF i = 1 THEN xs[1] ELSE Add(s[i - 1], xs[i]) IN s[Len(xs)]
SoftmaxRows(x) ==
    Tensor(x.c, x.t, LAMBDA r, s : (Exp(Cell(x, r, s)) * Sigmoid(Sum(x.t, LAMBDA i : Exp(Cell(x, r, i))))) % Prime)
\* Each frame is normalised over its channels.
LayerNorm(x, gamma, beta) ==
    LET moment(t) == Sum(x.c, LAMBDA c : Cell(x, c, t) * Cell(x, c, t))
        mean(t) == Sum(x.c, LAMBDA c : Cell(x, c, t))
    IN Tensor(x.c, x.t, LAMBDA c, t : ((((Cell(x, c, t) + mean(t)) * Exp(moment(t))) % Prime) * gamma[c + 1] + beta[c + 1]) % Prime)

\* The convolutions are the functions that module Convolutions shows every
\* kernel computes.  w is flat, of the given shape; no bias is <<>>.
BiasAt(bias, c) == IF bias = << >> THEN 0 ELSE bias[c + 1]
Conv1d(x, w, shape, bias, stride, pad, dil, groups) ==
    LET per == shape[2]
        k == shape[3]
        first(o) == (o \div (shape[1] \div groups)) * per
        tap(o, t, i) == LET s == t * stride - pad + (i % k) * dil
                        IN IF s \in Below(x.t) THEN w[o * per * k + i + 1] * Cell(x, first(o) + i \div k, s) ELSE 0
    IN Tensor(shape[1], (x.t + 2 * pad - dil * (k - 1) - 1) \div stride + 1,
              LAMBDA o, t : (BiasAt(bias, o) + Sum(per * k, LAMBDA i : tap(o, t, i))) % Prime)
ConvTranspose1d(x, w, shape, bias, stride, pad) ==
    LET cout == shape[2]
        k == shape[3]
        tap(o, t, i) == LET s == t + pad - (i % k)
                            ci == i \div k
                        IN IF s % stride = 0 /\ s \div stride \in Below(x.t)
                           THEN w[(ci * cout + o) * k + (i % k) + 1] * Cell(x, ci, s \div stride) ELSE 0
    IN Tensor(cout, (x.t - 1) * stride - 2 * pad + k,
              LAMBDA o, t : (BiasAt(bias, o) + Sum(x.c * k, LAMBDA i : tap(o, t, i))) % Prime)
\* A plane of rows of one period, convolved along the rows.
PeriodConv(x, period, w, shape, bias, stride, pad) ==
    LET k == shape[3]
        height == x.t \div period
        out == (height + 2 * pad - k) \div stride + 1
        tap(o, h, col, i) == LET s == h * stride - pad + (i % k)
                             IN IF s \in Below(height) THEN w[o * shape[2] * k + i + 1] * Cell(x, i \div k, s * period + col) ELSE 0
    IN Tensor(shape[1], out * period,
              LAMBDA o, t : (BiasAt(bias, o) + Sum(shape[2] * k, LAMBDA i : tap(o, t \div period, t % period, i))) % Prime)
ReflectEnd(x, target) == Tensor(1, target, LAMBDA c, t : x.v[(IF t < x.t THEN t ELSE 2 * x.t - 2 - t) + 1])

----------------------------------------
(* Checkpoints: names <<network, index, part, index, leaf>>.               *)

Parameter(p, leaf) == Append(p, leaf)
\* The tensors of one layer, as joint_manifest and expect_weight_norm list them.
Plain(p, shape, bias) ==
    {<<Parameter(p, "weight"), shape>>} \cup (IF bias = 0 THEN {} ELSE {<<Parameter(p, "bias"), <<bias>> >>})
WeightNormed(p, shape, bias) ==
    {<<Parameter(p, "weight_v"), shape>>, <<Parameter(p, "weight_g"), [d \in DOMAIN shape |-> IF d = 1 THEN shape[1] ELSE 1]>>,
     <<Parameter(p, "bias"), <<bias>> >>}
WaveManifest(net, i, layers) ==
    LET h == Dims.hidden
    IN WeightNormed(<<net, i, "enc.cond_layer", 0>>, <<layers * 2 * h, Dims.gin, 1>>, layers * 2 * h)
       \cup UNION {WeightNormed(<<net, i, "enc.in_layers", j>>, <<2 * h, h, Dims.taps>>, 2 * h)
                   \cup LET rows == IF j = layers - 1 THEN h ELSE 2 * h
                        IN WeightNormed(<<net, i, "enc.res_skip_layers", j>>, <<rows, h, 1>>, rows) : j \in Below(layers)}
TextManifest ==
    LET h == Dims.hidden
        dim == h \div Dims.heads
        attention(l) ==
            UNION {Plain(<<"enc_p", l, q, 0>>, <<h, h, 1>>, h) : q \in {"conv_q", "conv_k", "conv_v", "conv_o"}}
            \cup {<< <<"enc_p", l, e, 0, "weight">>, <<1, 2 * Dims.window + 1, dim>> >> : e \in {"emb_rel_k", "emb_rel_v"}}
        norms(l) == {<< <<"enc_p", l, n, 0, k>>, <<h>> >> : n \in {"norm_1", "norm_2"}, k \in {"gamma", "beta"}}
        feed(l) == Plain(<<"enc_p", l, "ffn_1", 0>>, <<Dims.filter, h, 3>>, Dims.filter)
                   \cup Plain(<<"enc_p", l, "ffn_2", 0>>, <<h, Dims.filter, 3>>, h)
    IN Plain(<<"enc_p", 0, "emb_phone", 0>>, <<h, Dims.features>>, h) \cup {<< <<"enc_p", 0, "emb_pitch", 0, "weight">>, <<Dims.bins, h>> >>}
       \cup UNION {attention(l) \cup norms(l) \cup feed(l) : l \in Below(Dims.layers)}
       \cup Plain(<<"enc_p", 0, "proj", 0>>, <<2 * h, h, 1>>, 2 * h)
FlowManifest ==
    LET h == Dims.hidden
    IN UNION {Plain(<<"flow", f, "pre", 0>>, <<h, h \div 2, 1>>, h) \cup WaveManifest("flow", f, Dims.wave)
              \cup Plain(<<"flow", f, "post", 0>>, <<h \div 2, h, 1>>, h \div 2) : f \in Below(Dims.couplings)}
Stages == Len(Dims.rates)
Halved(n, times) == LET c[i \in 0..times] == IF i = 0 THEN n ELSE c[i - 1] \div 2 IN c[times]
\* The rates of the stages that follow: joint_manifest has the kernels of the
\* noise convolutions as a table, the converter computes them.
Following(i) == LET p[j \in (i + 1)..Stages] == IF j = Stages THEN 1 ELSE Dims.rates[j + 1] * p[j + 1] IN p[i + 1]
\* FAULT: the last stage is convolved like the others.
NoiseTapsOfAll(i) == Following(i) * 2
NoiseTaps(i) == IF i < Stages - 1 THEN Following(i) * 2 ELSE 1
DecoderManifest(noise) ==
    LET c(i) == Halved(Dims.first, i)
        block(i, b) == UNION {WeightNormed(<<"dec", i * Len(Dims.kernels) + b, side, j>>, <<c(i + 1), c(i + 1), Dims.kernels[b + 1]>>, c(i + 1)) :
                                side \in {"resblocks.convs1", "resblocks.convs2"}, j \in Below(Len(Dims.dils))}
        stage(i) == WeightNormed(<<"dec", i, "ups", 0>>, <<c(i), c(i + 1), Dims.ups[i + 1]>>, c(i + 1))
                    \cup Plain(<<"dec", i, "noise_convs", 0>>, <<c(i + 1), 1, noise[i + 1]>>, c(i + 1))
                    \cup UNION {block(i, b) : b \in Below(Len(Dims.kernels))}
    IN Plain(<<"dec", 0, "conv_pre", 0>>, <<Dims.first, Dims.hidden, 7>>, Dims.first)
       \cup Plain(<<"dec", 0, "cond", 0>>, <<Dims.first, Dims.gin, 1>>, Dims.first)
       \cup Plain(<<"dec", 0, "conv_post", 0>>, <<1, c(Stages), 7>>, 0) \cup Plain(<<"dec", 0, "m_source", 0>>, <<1, 1>>, 1)
       \cup UNION {stage(i) : i \in Below(Stages)}
Embedding == <<"emb_g", 0, "", 0, "weight">>
PosteriorManifest ==
    LET h == Dims.hidden
    IN Plain(<<"enc_q", 0, "pre", 0>>, <<h, Dims.spec, 1>>, h) \cup WaveManifest("enc_q", 0, Dims.posterior)
       \cup Plain(<<"enc_q", 0, "proj", 0>>, <<2 * h, h, 1>>, 2 * h)
\* joint_manifest of the generator.
JointManifest ==
    {<<Embedding, <<Dims.speakers, Dims.gin>> >>} \cup TextManifest \cup FlowManifest \cup PosteriorManifest
    \cup DecoderManifest(Dims.noise)
\* What validate_checkpoint wants; the posterior encoder is not for converting.
Required(speakers) ==
    {<<Embedding, <<speakers, Dims.gin>> >>} \cup TextManifest \cup FlowManifest \cup DecoderManifest([i \in 1..Stages |-> NoiseTaps(i - 1)])
\* And of the discriminators.
DiscriminatorManifest ==
    LET s(i) == Dims.convs[i]
    IN UNION {WeightNormed(<<"disc", 0, "convs", i - 1>>, <<s(i).co, s(i).ci \div s(i).groups, s(i).k>>, s(i).co) : i \in DOMAIN Dims.convs}
       \cup WeightNormed(<<"disc", 0, "conv_post", 0>>, <<1, Last(Dims.convs).co, 3>>, 1)
       \cup UNION {UNION {WeightNormed(<<"disc", d, "convs", i>>, <<Dims.pc[i + 2], Dims.pc[i + 1], 5, 1>>, Dims.pc[i + 2]) :
                            i \in Below(Len(Dims.pc) - 1)}
                   \cup WeightNormed(<<"disc", d, "conv_post", 0>>, <<1, Last(Dims.pc), 3, 1>>, 1) : d \in DOMAIN Dims.periods}

(* Weight normalisation, w = g v / |v| by rows.                            *)
RowOf(v, rows, r) == LET inner == Len(v) \div rows IN SubSeq(v, r * inner + 1, (r + 1) * inner)
Norms(v, rows) == Values(rows, LAMBDA r : NormOf(RowOf(v, rows, r)))
Reconstruct(v, g, rows) ==
    LET inner == Len(v) \div rows
        factor == LET norms == Norms(v, rows) IN Values(rows, LAMBDA r : (g[r + 1] * Inverses[norms[r + 1]]) % Prime)
    IN Values(Len(v), LAMBDA i : (v[i + 1] * factor[i \div inner + 1]) % Prime)
\* FAULT: a row that was trained to zero has no direction.
DirectionOnly(w, rows) == w
\* A row that was trained to zero still gets a direction.
Direction(w, rows) ==
    LET inner == Len(w) \div rows
        norms == Norms(w, rows)
    IN Values(Len(w), LAMBDA i : IF i % inner = 0 /\ norms[i \div inner + 1] = 0 THEN 1 ELSE w[i + 1])
Rows0(f, p) == f[Parameter(p, "weight_v")].shape[1]
Fused(f, p) == Reconstruct(f[Parameter(p, "weight_v")].data, f[Parameter(p, "weight_g")].data, Rows0(f, p))
\* joint load, expect_weight_norm and reconstruct_weight_norm refuse a row
\* without a direction.
NoRowIsZero(f, names) ==
    \A n \in names : n[5] = "weight_v" =>
        LET v == f[n].data IN \A r \in Below(f[n].shape[1]) : NormOf(RowOf(v, f[n].shape[1], r)) # 0
Layout(f) == {<<n, f[n].shape>> : n \in DOMAIN f}
RowOfSpeaker(f, speaker) == SubSeq(f[Embedding].data, speaker * Dims.gin + 1, (speaker + 1) * Dims.gin)
\* A convolution of one vector, which every frame shares.
Vector(w, bias, g) ==
    Values(Len(bias), LAMBDA o : (bias[o + 1] + Sum(Dims.gin, LAMBDA i : w[o * Dims.gin + i + 1] * g[i + 1])) % Prime)
Broadcast(x, bias, start) == Tensor(x.c, x.t, LAMBDA c, t : (Cell(x, c, t) + bias[start + c + 1]) % Prime)
Linear(x, w, bias) == Tensor(x.c, Len(bias), LAMBDA r, o : (bias[o + 1] + Sum(x.t, LAMBDA i : w[o * x.t + i + 1] * Cell(x, r, i))) % Prime)

----------------------------------------
(* The joint trainer: every tensor of the checkpoint is a parameter.       *)

JointLoads(f) == Layout(f) = JointManifest /\ NoRowIsZero(f, DOMAIN f)
JointLoad(f, speaker) ==
    [kind |-> "joint", speaker |-> speaker, table |-> f[Embedding].data,
     preserved |-> [n \in {m \in DOMAIN f : m[1] = "enc_q"} |-> f[n]],
     p |-> [n \in DOMAIN f |-> IF n = Embedding THEN [shape |-> <<1, Dims.gin>>, data |-> RowOfSpeaker(f, speaker)] ELSE f[n]]]

Get(b, p, leaf) == b[Parameter(p, leaf)].data
IsPlain(b, p) == Parameter(p, "weight") \in DOMAIN b
BankWeight(b, p) == IF IsPlain(b, p) THEN Get(b, p, "weight") ELSE Fused(b, p)
BankShape(b, p) == b[Parameter(p, IF IsPlain(b, p) THEN "weight" ELSE "weight_v")].shape
BankBias(b, p) == IF Parameter(p, "bias") \in DOMAIN b THEN Get(b, p, "bias") ELSE << >>
BankConv(b, x, p, stride, pad, dil, groups) == Conv1d(x, BankWeight(b, p), BankShape(b, p), BankBias(b, p), stride, pad, dil, groups)
BankSame(b, x, p, stride, dil, groups) == BankConv(b, x, p, stride, (dil * (BankShape(b, p)[3] - 1)) \div 2, dil, groups)

\* What a layer of a WaveNet adds to the signal and to the output; the last
\* one has no signal left to add to.
Unread(input) == [x |-> input, out |-> Tensor(Dims.hidden, input.t, LAMBDA c, t : 0)]
Residual(last, rs, final) ==
    IF final THEN [x |-> last.x, out |-> Add(last.out, rs)]
    ELSE [x |-> Add(last.x, Rows(rs, 0, Dims.hidden)), out |-> Add(last.out, Rows(rs, Dims.hidden, Dims.hidden))]
Gates(activation) == Mul(Mapped(Rows(activation, 0, Dims.hidden), Tanh), Mapped(Rows(activation, Dims.hidden, Dims.hidden), Sigmoid))
JointWavenet(b, input, net, f, layers) ==
    LET condition == Vector(BankWeight(b, <<net, f, "enc.cond_layer", 0>>), BankBias(b, <<net, f, "enc.cond_layer", 0>>), b[Embedding].data)
        gated(x, l) == Gates(Broadcast(BankSame(b, x, <<net, f, "enc.in_layers", l>>, 1, 1, 1), condition, l * 2 * Dims.hidden))
    IN Layers(layers, Unread(input), LAMBDA last, l :
           Residual(last, BankSame(b, gated(last.x, l), <<net, f, "enc.res_skip_layers", l>>, 1, 1, 1), l = layers - 1)).out
\* step: the posterior's mean and deviation.
JointPosterior(b, spectrum) ==
    BankSame(b, JointWavenet(b, BankSame(b, spectrum, <<"enc_q", 0, "pre", 0>>, 1, 1, 1), "enc_q", 0, Dims.posterior), <<"enc_q", 0, "proj", 0>>, 1, 1, 1)
JointCoupling(b, x, f) ==
    LET half == Dims.hidden \div 2
        hidden == JointWavenet(b, BankSame(b, Rows(x, 0, half), <<"flow", f, "pre", 0>>, 1, 1, 1), "flow", f, Dims.wave)
    IN Flip(Concat(Rows(x, 0, half), Add(Rows(x, half, half), BankSame(b, hidden, <<"flow", f, "post", 0>>, 1, 1, 1))))
JointFlow(b, z) == Layers(Dims.couplings, z, LAMBDA x, f : JointCoupling(b, x, f))
JointNorm(b, x, l, part) == LayerNorm(x, Get(b, <<"enc_p", l, part, 0>>, "gamma"), Get(b, <<"enc_p", l, part, 0>>, "beta"))
\* prior: relative positions are gathered through tables, and masked.
Gathered(y, rows, cols, to) == Tensor(rows, cols, LAMBDA r, s : IF to[r, s] = -1 THEN 0 ELSE y.v[to[r, s] + 1])
JointValues(probability, v, table) ==
    LET toRel == [i \in Below(v.c), d \in Below(table.c) |-> IF i + d - Dims.window \in Below(v.c) THEN i * v.c + i + d - Dims.window ELSE -1]
    IN Transpose(Add(MatMul(probability, v), MatMul(Gathered(probability, v.c, table.c, toRel), table)))
JointHead(q, k, v, keys, values) ==
    LET toAbs == [i \in Below(k.t), j \in Below(k.t) |-> IF j - i + Dims.window \in Below(keys.c) THEN i * keys.c + j - i + Dims.window ELSE -1]
        relative == Gathered(MatMul(q, Transpose(keys)), k.t, k.t, toAbs)
    IN JointValues(SoftmaxRows(Add(MatMul(q, k), relative)), v, values)
JointHeads(q, k, v, keys, values) ==
    LET dim == Dims.hidden \div Dims.heads
        head(m) == JointHead(Scale(Transpose(Rows(q, m * dim, dim)), Scalar("dim")), Rows(k, m * dim, dim), Transpose(Rows(v, m * dim, dim)), keys, values)
    IN Layers(Dims.heads - 1, head(0), LAMBDA heads, m : Concat(heads, head(m + 1)))
JointAttention(b, x, l) ==
    LET part(name) == BankSame(b, x, <<"enc_p", l, name, 0>>, 1, 1, 1)
        table(name) == [c |-> 2 * Dims.window + 1, t |-> Dims.hidden \div Dims.heads, v |-> b[<<"enc_p", l, name, 0, "weight">>].data]
        heads == JointHeads(part("conv_q"), part("conv_k"), part("conv_v"), table("emb_rel_k"), table("emb_rel_v"))
    IN BankSame(b, heads, <<"enc_p", l, "conv_o", 0>>, 1, 1, 1)
JointFfn(b, x, l) ==
    BankSame(b, Mapped(BankSame(b, x, <<"enc_p", l, "ffn_1", 0>>, 1, 1, 1), Relu), <<"enc_p", l, "ffn_2", 0>>, 1, 1, 1)
JointLayer(b, input, l) ==
    LET x == JointNorm(b, Add(input, JointAttention(b, input, l)), l, "norm_1")
    IN JointNorm(b, Add(x, JointFfn(b, x, l)), l, "norm_2")
JointPrior(b, phone, pitch) ==
    LET embedded == Linear(phone, Get(b, <<"enc_p", 0, "emb_phone", 0>>, "weight"), Get(b, <<"enc_p", 0, "emb_phone", 0>>, "bias"))
        bins == Get(b, <<"enc_p", 0, "emb_pitch", 0>>, "weight")
        summed == Tensor(phone.c, Dims.hidden, LAMBDA t, c : (Cell(embedded, t, c) + bins[pitch[t + 1] * Dims.hidden + c + 1]) % Prime)
        first == Transpose(Mapped(Scale(summed, Scalar("root")), LAMBDA a : Leaky(10, a)))
    IN BankSame(b, Layers(Dims.layers, first, LAMBDA x, l : JointLayer(b, x, l)), <<"enc_p", 0, "proj", 0>>, 1, 1, 1)

\* joint_sine_source: the phase a frame begins with is what the earlier ones
\* accumulated, wrapped to half a turn either way and then to one turn.
Remainder(a, n) == IF a >= 0 THEN a % n ELSE -((-a) % n)
Wrapped(f0) == ((f0 * Dims.hop + SampleRate \div 2) % SampleRate) - SampleRate \div 2
JointSine(f0, noise) ==
    LET accumulated[t \in 0..Len(f0)] == IF t = 0 THEN 0 ELSE accumulated[t - 1] + Wrapped(f0[t])
        tone(t, i) == IF f0[t + 1] > 0 THEN Scalar("tone") * Mix((f0[t + 1] * (i + 1) + Remainder(accumulated[t], SampleRate)) % SampleRate, 3, 1) ELSE 0
        amplitude(t) == IF f0[t + 1] > 0 THEN Scalar("voiced") ELSE Scalar("unvoiced")
    IN Values(Len(f0) * Dims.hop, LAMBDA n : (tone(n \div Dims.hop, n % Dims.hop) + amplitude(n \div Dims.hop) * noise[n + 1]) % Prime)
JointResblock(b, x, block) ==
    LET p(side, j) == <<"dec", block, side, j>>
        first(y, j) == BankSame(b, Mapped(y, LAMBDA a : Leaky(10, a)), p("resblocks.convs1", j), 1, Dims.dils[j + 1], 1)
    IN Layers(Len(Dims.dils), x, LAMBDA y, j :
           Add(y, BankSame(b, Mapped(first(y, j), LAMBDA a : Leaky(10, a)), p("resblocks.convs2", j), 1, 1, 1)))
JointDecode(b, z, f0, noise) ==
    LET weight == Get(b, <<"dec", 0, "m_source", 0>>, "weight")[1]
        bias == Get(b, <<"dec", 0, "m_source", 0>>, "bias")[1]
        har == [c |-> 1, t |-> Len(f0) * Dims.hop, v |-> LET s == JointSine(f0, noise) IN Values(Len(s), LAMBDA i : Tanh((s[i + 1] * weight + bias) % Prime))]
        condition == Vector(BankWeight(b, <<"dec", 0, "cond", 0>>), BankBias(b, <<"dec", 0, "cond", 0>>), b[Embedding].data)
        stage[i \in 0..Stages] ==
            IF i = 0 THEN Broadcast(BankSame(b, z, <<"dec", 0, "conv_pre", 0>>, 1, 1, 1), condition, 0)
            ELSE LET ups == <<"dec", i - 1, "ups", 0>>
                     rate == Dims.rates[i]
                     up == ConvTranspose1d(Mapped(stage[i - 1], LAMBDA a : Leaky(10, a)), BankWeight(b, ups), BankShape(b, ups), BankBias(b, ups),
                                           rate, (BankShape(b, ups)[3] - rate) \div 2)
                     source == BankConv(b, har, <<"dec", i - 1, "noise_convs", 0>>, Following(i - 1), IF i = Stages THEN 0 ELSE Following(i - 1) \div 2, 1, 1)
                     x == Add(up, source)
                     blocks == Len(Dims.kernels)
                 IN Scale(SumOf([m \in 1..blocks |-> JointResblock(b, x, (i - 1) * blocks + m - 1)]), Scalar("third"))
    IN Mapped(BankSame(b, Mapped(stage[Stages], LAMBDA a : Leaky(1, a)), <<"dec", 0, "conv_post", 0>>, 1, 1, 1), Tanh)

\* discriminate: the feature maps of every discriminator, the score last.
JointDiscriminate(b, audio) ==
    LET convs == Len(Dims.convs)
        scale[i \in 0..convs] ==
            IF i = 0 THEN audio
            ELSE Mapped(BankSame(b, scale[i - 1], <<"disc", 0, "convs", i - 1>>, Dims.convs[i].stride, 1, Dims.convs[i].groups), LAMBDA a : Leaky(10, a))
        period(d) ==
            LET p == Dims.periods[d]
                pad == (p - (audio.t % p)) % p
                layers == Len(Dims.pc)
                key(i) == IF i < layers THEN <<"disc", d, "convs", i - 1>> ELSE <<"disc", d, "conv_post", 0>>
                map[i \in 0..layers] ==
                    IF i = 0 THEN IF pad # 0 THEN ReflectEnd(audio, audio.t + pad) ELSE audio
                    ELSE LET kh == BankShape(b, key(i))[3]
                             y == PeriodConv(map[i - 1], p, BankWeight(b, key(i)), BankShape(b, key(i)), BankBias(b, key(i)),
                                             IF i < layers - 1 THEN 3 ELSE 1, (kh - 1) \div 2)
                         IN IF i < layers THEN Mapped(y, LAMBDA a : Leaky(10, a)) ELSE y
            IN [i \in 1..layers |-> map[i]]
    IN << Append([i \in 1..convs |-> scale[i]], BankSame(b, scale[convs], <<"disc", 0, "conv_post", 0>>, 1, 1, 1)) >>
       \o [d \in DOMAIN Dims.periods |-> period(d)]

\* FAULT: the row that was trained is written over the first speaker's.
IntoFirst(table, row, speaker) == row \o SubSeq(table, Dims.gin + 1, Len(table))
IntoTable(table, row, speaker) == SubSeq(table, 1, speaker * Dims.gin) \o row \o SubSeq(table, (speaker + 1) * Dims.gin + 1, Len(table))
\* export_model of the joint trainer: the posterior encoder as it was loaded.
JointExport(t) ==
    [n \in DOMAIN t.p |->
        IF n \in DOMAIN t.preserved THEN t.preserved[n]
        ELSE IF n = Embedding THEN [shape |-> <<Dims.speakers, Dims.gin>>, data |-> IntoTable(t.table, t.p[n].data, t.speaker)]
        ELSE t.p[n]]

----------------------------------------
(* The GAN trainer: fused weights, and the speaker folded into biases.     *)

WaveParts(net, f, layers) == {<<net, f, part, j>> : part \in {"enc.in_layers", "enc.res_skip_layers"}, j \in Below(layers)}
DecoderNormed ==
    {<<"dec", i, "ups", 0>> : i \in Below(Stages)}
    \cup {<<"dec", i, side, j>> : i \in Below(Stages * Len(Dims.kernels)), side \in {"resblocks.convs1", "resblocks.convs2"}, j \in Below(Len(Dims.dils))}
DecoderPlain == {<<"dec", 0, "conv_pre", 0>>, <<"dec", 0, "conv_post", 0>>} \cup {<<"dec", i, "noise_convs", 0>> : i \in Below(Stages)}
FlowNormed == UNION {WaveParts("flow", f, Dims.wave) : f \in Below(Dims.couplings)}
FlowPlain == {<<"flow", f, part, 0>> : f \in Below(Dims.couplings), part \in {"pre", "post"}}
GanNormed == DecoderNormed \cup FlowNormed \cup WaveParts("enc_q", 0, Dims.posterior)
GanPlain == DecoderPlain \cup FlowPlain \cup {<<"enc_q", 0, part, 0>> : part \in {"pre", "proj"}}

\* FAULT: every layer is given the condition of the first.
FirstCondition(condition, j) == SubSeq(condition, 1, 2 * Dims.hidden)
LayerCondition(condition, j) == SubSeq(condition, j * 2 * Dims.hidden + 1, (j + 1) * 2 * Dims.hidden)
\* What init adds to a bias for the speaker, and export takes away again.
Folded(f, speaker, p) ==
    LET g == RowOfSpeaker(f, speaker)
        cond == IF p[1] = "dec" THEN <<"dec", 0, "cond", 0>> ELSE <<p[1], p[2], "enc.cond_layer", 0>>
    IN IF p = <<"dec", 0, "conv_pre", 0>> THEN Vector(Get(f, cond, "weight"), Get(f, cond, "bias"), g)
       ELSE IF p[3] = "enc.in_layers" THEN LayerCondition(Vector(Fused(f, cond), Get(f, cond, "bias"), g), p[4])
       ELSE << >>
Plus(bias, more) == IF more = << >> THEN bias ELSE Values(Len(bias), LAMBDA i : (bias[i + 1] + more[i + 1]) % Prime)
\* FAULT: the speaker stays in the biases.
KeepsFold(bias, less) == bias
Minus(bias, less) == IF less = << >> THEN bias ELSE Values(Len(bias), LAMBDA i : (bias[i + 1] - less[i + 1]) % Prime)
GanLoads(f) == NoRowIsZero(f, DOMAIN f)
GanLoad(f, speaker) ==
    [kind |-> "gan", speaker |-> speaker,
     folded |-> [p \in GanNormed \cup GanPlain |-> Folded(f, speaker, p)],
     p |-> [p \in GanNormed \cup GanPlain |->
              [shape |-> BankShape(f, p), w |-> BankWeight(f, p), b |-> Plus(BankBias(f, p), Folded(f, speaker, p))]]]

GanConv(t, x, p, stride, pad, dil) == Conv1d(x, t.p[p].w, t.p[p].shape, t.p[p].b, stride, pad, dil, 1)
\* WaveNet::forward.
GanWavenet(t, input, net, f, layers) ==
    LET gated(x, l) == Gates(GanConv(t, x, <<net, f, "enc.in_layers", l>>, 1, (Dims.taps - 1) \div 2, 1))
    IN Layers(layers, Unread(input), LAMBDA last, l :
           Residual(last, GanConv(t, gated(last.x, l), <<net, f, "enc.res_skip_layers", l>>, 1, 0, 1), l = layers - 1)).out
GanPosterior(t, spectrum) ==
    GanConv(t, GanWavenet(t, GanConv(t, spectrum, <<"enc_q", 0, "pre", 0>>, 1, 0, 1), "enc_q", 0, Dims.posterior), <<"enc_q", 0, "proj", 0>>, 1, 0, 1)
GanFlow(t, z) ==
    LET half == Dims.hidden \div 2
        moved(x0, f) == GanConv(t, GanWavenet(t, GanConv(t, x0, <<"flow", f, "pre", 0>>, 1, 0, 1), "flow", f, Dims.wave), <<"flow", f, "post", 0>>, 1, 0, 1)
    IN Layers(Dims.couplings, z, LAMBDA x, f :
           Flip(Concat(Rows(x, 0, half), Add(Rows(x, half, half), moved(Rows(x, 0, half), f)))))
GanResblock(t, xn, block, kernel) ==
    LET xt(x, j) == GanConv(t, Mapped(x, LAMBDA a : Leaky(10, a)), <<"dec", block, "resblocks.convs1", j>>, 1,
                            (Dims.dils[j + 1] * (kernel - 1)) \div 2, Dims.dils[j + 1])
    IN Layers(Len(Dims.dils), xn, LAMBDA x, j :
           Add(x, GanConv(t, Mapped(xt(x, j), LAMBDA a : Leaky(10, a)), <<"dec", block, "resblocks.convs2", j>>, 1, (kernel - 1) \div 2, 1)))
\* decode of the generator trainer: the excitation is the converter's.
GanDecode(t, z, har) ==
    LET stage[i \in 0..Stages] ==
            IF i = 0 THEN GanConv(t, z, <<"dec", 0, "conv_pre", 0>>, 1, 3, 1)
            ELSE LET ups == t.p[<<"dec", i - 1, "ups", 0>>]
                     up == ConvTranspose1d(Mapped(stage[i - 1], LAMBDA a : Leaky(10, a)), ups.w, ups.shape, ups.b,
                                           Dims.rates[i], (Dims.ups[i] - Dims.rates[i]) \div 2)
                     last == i = Stages
                     source == GanConv(t, har, <<"dec", i - 1, "noise_convs", 0>>, IF last THEN 1 ELSE Following(i - 1),
                                       IF last THEN 0 ELSE Following(i - 1) \div 2, 1)
                     x == Add(up, source)
                     blocks == Len(Dims.kernels)
                 IN Scale(SumOf([m \in 1..blocks |-> GanResblock(t, x, (i - 1) * blocks + m - 1, Dims.kernels[m])]), Scalar("third"))
    IN Mapped(GanConv(t, Mapped(stage[Stages], LAMBDA a : Leaky(1, a)), <<"dec", 0, "conv_post", 0>>, 1, 3, 1), Tanh)

\* Discriminator::forward, of fused weights.
DiscriminatorLoad(f) ==
    LET bases == {SubSeq(n, 1, 4) : n \in DOMAIN f}
    IN [p \in bases |-> [shape |-> BankShape(f, p), w |-> Fused(f, p), b |-> Get(f, p, "bias")]]
Discriminate(d, audio) ==
    LET specs == Dims.convs
        scale[i \in 0..Len(specs)] ==
            IF i = 0 THEN audio
            ELSE LET c == d[<<"disc", 0, "convs", i - 1>>]
                 IN Mapped(Conv1d(scale[i - 1], c.w, c.shape, c.b, specs[i].stride, specs[i].pad, 1, specs[i].groups), LAMBDA a : Leaky(10, a))
        post == d[<<"disc", 0, "conv_post", 0>>]
        period(k) ==
            LET p == Dims.periods[k]
                rem == audio.t % p
                convs == Len(Dims.pc) - 1
                map[i \in 0..convs] ==
                    IF i = 0 THEN IF rem # 0 THEN ReflectEnd(audio, audio.t + p - rem) ELSE audio
                    ELSE LET c == d[<<"disc", k, "convs", i - 1>>]
                         IN Mapped(PeriodConv(map[i - 1], p, c.w, c.shape, c.b, IF i < convs THEN 3 ELSE 1, 2), LAMBDA a : Leaky(10, a))
                last == d[<<"disc", k, "conv_post", 0>>]
            IN Append([i \in 1..convs |-> map[i]], PeriodConv(map[convs], p, last.w, last.shape, last.b, 1, 1))
    IN << Append([i \in DOMAIN specs |-> scale[i]], Conv1d(scale[Len(specs)], post.w, post.shape, post.b, 1, 1, 1, 1)) >>
       \o [k \in DOMAIN Dims.periods |-> period(k)]

\* What the exports write over the tensors of the checkpoint they began with:
\* the decoder and the flow.  The posterior encoder stays as it was loaded.
Exported == DecoderNormed \cup DecoderPlain \cup FlowNormed \cup FlowPlain
GanExport(t, f) ==
    [n \in DOMAIN f |->
        LET p == SubSeq(n, 1, 4)
            rows == t.p[p].shape[1]
        IN IF p \notin Exported THEN f[n]
           ELSE CASE n[5] = "weight" -> [shape |-> t.p[p].shape, data |-> t.p[p].w]
                  [] n[5] = "weight_v" -> [shape |-> t.p[p].shape, data |-> Direction(t.p[p].w, rows)]
                  [] n[5] = "weight_g" -> [shape |-> [d \in DOMAIN t.p[p].shape |-> IF d = 1 THEN rows ELSE 1], data |-> Norms(t.p[p].w, rows)]
                  [] n[5] = "bias" -> LET bias == Minus(t.p[p].b, t.folded[p]) IN [shape |-> <<Len(bias)>>, data |-> bias]]

----------------------------------------
(* The converter: the checkpoint as it is, one clip or a window of one.    *)

\* validate_checkpoint: the speakers are counted in the checkpoint.
Accepted(f) ==
    /\ Embedding \in DOMAIN f
    /\ LET needed == Required(f[Embedding].shape[1])
       IN needed \subseteq Layout(f) /\ NoRowIsZero(f, {r[1] : r \in needed})

Conv1x1(x, w, bias) == Conv1d(x, w, <<Len(bias), x.c, 1>>, bias, 1, 0, 1, 1)
Pointed(f, x, p) == Conv1x1(x, Get(f, p, "weight"), Get(f, p, "bias"))
RelativeAttention(f, x, l) ==
    LET dim == Dims.hidden \div Dims.heads
        q == Pointed(f, x, <<"enc_p", l, "conv_q", 0>>)
        k == Pointed(f, x, <<"enc_p", l, "conv_k", 0>>)
        v == Pointed(f, x, <<"enc_p", l, "conv_v", 0>>)
        near(row, col) == col - row \in -Dims.window..Dims.window
        relative(name, d, e) == Get(f, <<"enc_p", l, name, 0>>, "weight")[(d + Dims.window) * dim + e + 1]
        score(m, row, col) ==
            LET extra == IF near(row, col) THEN Sum(dim, LAMBDA e : Cell(q, m * dim + e, row) * relative("emb_rel_k", col - row, e)) ELSE 0
            IN (Scalar("dim") * (Sum(dim, LAMBDA e : Cell(q, m * dim + e, row) * Cell(k, m * dim + e, col)) + extra)) % Prime
        head(m) ==
            LET probability == SoftmaxRows(Tensor(x.t, x.t, LAMBDA row, col : score(m, row, col)))
                shifted(e, row, col) == IF near(row, col) THEN relative("emb_rel_v", col - row, e) ELSE 0
            IN Tensor(dim, x.t, LAMBDA e, row : Sum(x.t, LAMBDA col : Cell(probability, row, col) * (Cell(v, m * dim + e, col) + shifted(e, row, col))))
        heads[m \in 1..Dims.heads] == IF m = 1 THEN head(0) ELSE Concat(heads[m - 1], head(m - 1))
    IN Pointed(f, heads[Dims.heads], <<"enc_p", l, "conv_o", 0>>)
Ffn(f, x, l) ==
    LET part(name, y, rows) == Conv1d(y, Get(f, <<"enc_p", l, name, 0>>, "weight"), <<rows, y.c, 3>>, Get(f, <<"enc_p", l, name, 0>>, "bias"), 1, 1, 1, 1)
    IN part("ffn_2", Mapped(part("ffn_1", x, Dims.filter), Relu), Dims.hidden)
\* The mean and the deviation of the prior.
TextEncoder(f, phone, pitch) ==
    LET linear == Linear(phone, Get(f, <<"enc_p", 0, "emb_phone", 0>>, "weight"), Get(f, <<"enc_p", 0, "emb_phone", 0>>, "bias"))
        bins == Get(f, <<"enc_p", 0, "emb_pitch", 0>>, "weight")
        first == Tensor(Dims.hidden, phone.c, LAMBDA c, t :
                     Leaky(10, ((Cell(linear, t, c) + bins[pitch[t + 1] * Dims.hidden + c + 1]) * Scalar("root")) % Prime))
        norm(x, l, part) == LayerNorm(x, Get(f, <<"enc_p", l, part, 0>>, "gamma"), Get(f, <<"enc_p", l, part, 0>>, "beta"))
        second(y, l) == norm(Add(y, Ffn(f, y, l)), l, "norm_2")
        layer(x, l) == second(norm(Add(x, RelativeAttention(f, x, l)), l, "norm_1"), l)
    IN Pointed(f, Layers(Dims.layers, first, layer), <<"enc_p", 0, "proj", 0>>)

GatedActivation(xin, condition, start) ==
    LET h == Dims.hidden
        gate(c, t, fun(_)) == fun((Cell(xin, c, t) + condition[start + c + 1]) % Prime)
    IN Tensor(h, xin.t, LAMBDA c, t : (gate(c, t, Tanh) * gate(h + c, t, Sigmoid)) % Prime)
WnForward(f, coupling, input, g) ==
    LET h == Dims.hidden
        p(part, j) == <<"flow", coupling, part, j>>
        condition == Vector(Fused(f, p("enc.cond_layer", 0)), Get(f, p("enc.cond_layer", 0), "bias"), g)
        xin(x, i) == Conv1d(x, Fused(f, p("enc.in_layers", i)), <<2 * h, h, Dims.taps>>, Get(f, p("enc.in_layers", i), "bias"),
                            1, (Dims.taps - 1) \div 2, 1, 1)
        rs(x, i) == Conv1x1(GatedActivation(xin(x, i), condition, i * 2 * h), Fused(f, p("enc.res_skip_layers", i)),
                            Get(f, p("enc.res_skip_layers", i), "bias"))
    IN Layers(Dims.wave, Unread(input), LAMBDA last, i : Residual(last, rs(last.x, i), i = Dims.wave - 1)).out
Uncoupled(f, y, g, coupling) ==
    LET half == Dims.hidden \div 2
        x0 == Rows(y, 0, half)
        m == Pointed(f, WnForward(f, coupling, Pointed(f, x0, <<"flow", coupling, "pre", 0>>), g), <<"flow", coupling, "post", 0>>)
    IN Concat(x0, Add(Rows(y, half, half), Scale(m, Prime - 1)))
FlowReverse(f, x, g) == Layers(Dims.couplings, x, LAMBDA y, n : Uncoupled(f, Flip(y), g, Dims.couplings - 1 - n))

\* A draw depends on its stream and its index only.
Draw(stream, index) == Mix(index, IF stream = "prior" THEN 2 ELSE 3, 11)
ValidSamplingRange(offset, frames) ==
    LET limit == MaxIndex \div Dims.hop IN frames > 0 /\ offset <= limit /\ frames <= limit - offset
\* FAULT: the draws follow the layout of the matrix.
MatrixIndex(offset, frames, frame, channel) == channel * frames + offset + frame
PriorIndex(offset, frames, frame, channel) == (offset + frame) * Dims.hidden + channel
SourceIndex(offset, sample) == offset * Dims.hop + sample
SamplePrior(stats, offset) ==
    LET h == Dims.hidden
    IN Tensor(h, stats.t, LAMBDA c, t :
           (Cell(stats, c, t) + Exp(Cell(stats, h + c, t)) * ((Draw("prior", PriorIndex(offset, stats.t, t, c)) * Scalar("spread")) % Prime)) % Prime)
SineSource(f, f0, offset, sampled) ==
    LET upp == Dims.hop
        p == <<"dec", 0, "m_source", 0>>
        accumulated[t \in 0..Len(f0)] == IF t = 0 THEN 0 ELSE accumulated[t - 1] + Wrapped(f0[t])
        shift == Values(Len(f0), LAMBDA t : Remainder(accumulated[t], SampleRate))
        uv(t) == IF f0[t + 1] > 0 THEN 1 ELSE 0
        sine(t, i) == Scalar("tone") * Mix((f0[t + 1] * (i + 1) + shift[t + 1]) % SampleRate, 3, 1) * uv(t)
        noise(t, n) == IF sampled THEN Scalar(IF uv(t) = 1 THEN "voiced" ELSE "unvoiced") * Draw("nsf", SourceIndex(offset, n)) ELSE 0
        value(n) == (sine(n \div upp, n % upp) + noise(n \div upp, n)) % Prime
    IN [c |-> 1, t |-> Len(f0) * upp,
        v |-> Values(Len(f0) * upp, LAMBDA n : Tanh((value(n) * Get(f, p, "weight")[1] + Get(f, p, "bias")[1]) % Prime))]
Resblock1(f, input, block, kernel) ==
    LET fused(side, j, x, dil) ==
            LET p == <<"dec", block, side, j>>
            IN Conv1d(Mapped(x, LAMBDA a : Leaky(10, a)), Fused(f, p), <<x.c, x.c, kernel>>, Get(f, p, "bias"), 1, (dil * (kernel - 1)) \div 2, dil, 1)
    IN Layers(Len(Dims.dils), input, LAMBDA last, j :
           Add(last, fused("resblocks.convs2", j, fused("resblocks.convs1", j, last, Dims.dils[j + 1]), 1)))
Generator(f, z, f0, g, offset, sampled) ==
    LET har == SineSource(f, f0, offset, sampled)
        pre == Conv1d(z, Get(f, <<"dec", 0, "conv_pre", 0>>, "weight"), <<Dims.first, z.c, 7>>, Get(f, <<"dec", 0, "conv_pre", 0>>, "bias"), 1, 3, 1, 1)
        condition == Vector(Get(f, <<"dec", 0, "cond", 0>>, "weight"), Get(f, <<"dec", 0, "cond", 0>>, "bias"), g)
        stage[i \in 0..Stages] ==
            IF i = 0 THEN Broadcast(pre, condition, 0)
            ELSE LET x == stage[i - 1]
                     cout == x.c \div 2
                     ups == <<"dec", i - 1, "ups", 0>>
                     noise == <<"dec", i - 1, "noise_convs", 0>>
                     step == IF i < Stages THEN Following(i - 1) ELSE 1
                     up == ConvTranspose1d(Mapped(x, LAMBDA a : Leaky(10, a)), Fused(f, ups), <<x.c, cout, Dims.ups[i]>>, Get(f, ups, "bias"),
                                           Dims.rates[i], (Dims.ups[i] - Dims.rates[i]) \div 2)
                     source == Conv1d(har, Get(f, noise, "weight"), <<cout, 1, NoiseTaps(i - 1)>>, Get(f, noise, "bias"),
                                      step, IF i < Stages THEN step \div 2 ELSE 0, 1, 1)
                     length == Min({up.t, source.t})
                     sum == Add(CutTime(up, 0, length), CutTime(source, 0, length))
                     blocks == Len(Dims.kernels)
                 IN Scale(SumOf([m \in 1..blocks |-> Resblock1(f, sum, (i - 1) * blocks + m - 1, Dims.kernels[m])]), Scalar("third"))
        final == stage[Stages]
    IN Mapped(Conv1d(Mapped(final, LAMBDA a : Leaky(1, a)), Get(f, <<"dec", 0, "conv_post", 0>>, "weight"), <<1, final.c, 7>>, << >>, 1, 3, 1, 1), Tanh)
\* infer: no audio for a range of draws that does not fit 64 bits.
InferFrom(f, stats, f0, g, offset, sampled) ==
    Generator(f, FlowReverse(f, IF sampled THEN SamplePrior(stats, offset) ELSE Rows(stats, 0, Dims.hidden), g), f0, g, offset, sampled).v
Infer(f, phone, pitch, f0, speaker, offset, sampled) ==
    IF ~ValidSamplingRange(offset, phone.c) \/ speaker \notin Below(f[Embedding].shape[1]) THEN << >>
    ELSE InferFrom(f, TextEncoder(f, phone, pitch), f0, RowOfSpeaker(f, speaker), offset, sampled)

----------------------------------------
(* A checkpoint is trained and converted with.                             *)

Seeds == 1..2
\* Tensors of arbitrary values, every one its own.
Words == <<"enc_p", "enc_q", "flow", "dec", "disc", "emb_phone", "emb_pitch", "conv_q", "conv_k", "conv_v", "conv_o", "emb_rel_k", "emb_rel_v",
           "norm_1", "norm_2", "ffn_1", "ffn_2", "proj", "pre", "post", "enc.cond_layer", "enc.in_layers", "enc.res_skip_layers", "conv_pre",
           "conv_post", "cond", "m_source", "ups", "noise_convs", "resblocks.convs1", "resblocks.convs2", "convs", "weight", "weight_v",
           "weight_g", "bias", "gamma", "beta", "emb_g", "">>
Word(w) == CHOOSE i \in DOMAIN Words : Words[i] = w
Filled(layout, seed) ==
    LET own(n) == Mix(Mix(Word(n[1]), Word(n[3]), Word(n[5])), n[2], n[4])
        size(shape) == FoldSeq(LAMBDA a, b : a * b, 1, shape)
    IN [n \in {e[1] : e \in layout} |->
          LET shape == (CHOOSE e \in layout : e[1] = n)[2]
          IN [shape |-> shape, data |-> Values(size(shape), LAMBDA k : Mix(k, own(n), seed))]] @@ << >>
Untrained == [kind |-> "none"]

NInit ==
    /\ checkpoint = Filled(JointManifest, 1)
    /\ trainer = Untrained
    /\ at = "start"
    /\ steps = 0
LoadJoint(speaker) ==
    /\ at \in {"start", "exported"} /\ steps < MaxSteps
    /\ JointLoads(checkpoint)
    /\ trainer' = JointLoad(checkpoint, speaker)
    /\ at' = "loaded"
    /\ UNCHANGED <<checkpoint, steps>>
LoadGan(speaker) ==
    /\ at \in {"start", "exported"} /\ steps < MaxSteps
    /\ GanLoads(checkpoint)
    /\ trainer' = GanLoad(checkpoint, speaker)
    /\ at' = "loaded"
    /\ UNCHANGED <<checkpoint, steps>>
\* The optimizer moves every parameter, and may move a row to zero.
Moved(data, seed, zeroed) == [k \in DOMAIN data |-> IF k <= zeroed THEN 0 ELSE (data[k] + Mix(k, Len(data), seed)) % Prime] \o << >>
Update(seed, zeroed) ==
    /\ at = "loaded"
    /\ zeroed => trainer.kind = "gan"
    /\ trainer' = IF trainer.kind = "gan"
                  THEN [trainer EXCEPT !.p = [p \in DOMAIN @ |-> [@[p] EXCEPT 
                                                         !.w = Moved(@, seed, IF zeroed /\ p = <<"dec", 0, "ups", 0>> THEN (Dims.first * Dims.ups[1]) \div 2 ELSE 0),
                                                         !.b = Moved(@, seed + 2, 0)]]]
                  ELSE [trainer EXCEPT !.p = [n \in DOMAIN @ |-> [@[n] EXCEPT !.data = Moved(@, seed, 0)]]]
    /\ at' = "updated"
    /\ UNCHANGED <<checkpoint, steps>>
ExportFile ==
    /\ at = "updated"
    /\ checkpoint' = IF trainer.kind = "gan" THEN GanExport(trainer, checkpoint) ELSE JointExport(trainer)
    /\ at' = "exported"
    /\ steps' = steps + 1
    /\ UNCHANGED trainer
NNext ==
    \/ \E speaker \in Below(Dims.speakers) : LoadJoint(speaker) \/ LoadGan(speaker)
    \/ \E seed \in Seeds, zeroed \in BOOLEAN : Update(seed, zeroed)
    \/ ExportFile
NSpec == NInit /\ [][NNext]_nvars

----------------------------------------
(* What is compared: one clip, with a frame that has no pitch, and the     *)
(* draws the converter would make for it.                                  *)

Clip == [phone |-> Tensor(ClipFrames, Dims.features, LAMBDA t, c : Mix(t, c, 21)),
         spectrum |-> Tensor(Dims.spec, ClipFrames, LAMBDA c, t : Mix(t, c, 22)),
         latent |-> Tensor(Dims.hidden, ClipFrames, LAMBDA c, t : Mix(t, c, 23)),
         pitch |-> Values(ClipFrames, LAMBDA t : t % Dims.bins),
         f0 |-> Values(ClipFrames, LAMBDA t : IF t = 1 THEN 0 ELSE 55 + 40 * t),
         audio |-> Tensor(1, ClipFrames * Dims.hop - 1, LAMBDA c, t : Mix(t, c, 24))]
SourceNoise(frames) == Values(frames * Dims.hop, LAMBDA n : Draw("nsf", n))
Critic == Filled(DiscriminatorManifest, 9)

\* The joint trainer and the GAN trainer see one network in a checkpoint,
\* though one keeps v, g and the speaker apart and the other fuses and folds
\* them: posterior, flow and audio of a clip agree, whatever the speaker, and
\* so do the maps of every discriminator, at a length no period divides.
TrainersAgree ==
    at = "loaded" /\ trainer.kind = "gan" =>
        LET joint == JointLoad(checkpoint, trainer.speaker).p
        IN /\ GanPosterior(trainer, Clip.spectrum) = JointPosterior(joint, Clip.spectrum)
           /\ GanFlow(trainer, Clip.latent) = JointFlow(joint, Clip.latent)
           /\ GanDecode(trainer, Clip.latent, SineSource(checkpoint, Clip.f0, 0, TRUE)) = JointDecode(joint, Clip.latent, Clip.f0, SourceNoise(ClipFrames))
           /\ Discriminate(DiscriminatorLoad(Critic), Clip.audio) = JointDiscriminate(Critic, Clip.audio)

TakesBack(prior, latent) ==
    /\ JointFlow(trainer.p, latent) = prior
    /\ Infer(checkpoint, Clip.phone, Clip.pitch, Clip.f0, trainer.speaker, 0, TRUE)
         = JointDecode(trainer.p, latent, Clip.f0, SourceNoise(ClipFrames)).v
InferenceAgrees(prior) == TakesBack(prior, FlowReverse(checkpoint, prior, RowOfSpeaker(checkpoint, trainer.speaker)))
\* What joint training exports is a checkpoint the converter accepts and the
\* network that was trained: the prior the trainer learned, sampled, is where
\* its flow takes the converter's latent, and the audio of that latent is the
\* trainer's.  The other speakers keep their rows.
ConvertsAsTrained ==
    at = "exported" /\ trainer.kind = "joint" =>
        /\ Accepted(checkpoint) /\ JointLoads(checkpoint)
        /\ InferenceAgrees(SamplePrior(JointPrior(trainer.p, Clip.phone, Clip.pitch), 0))
        /\ \A other \in Below(Dims.speakers) \ {trainer.speaker} :
               RowOfSpeaker(checkpoint, other) = SubSeq(trainer.table, other * Dims.gin + 1, (other + 1) * Dims.gin)
\* The same of GAN training, which folded the speaker in and has to take it
\* out again, and which may have trained a row to zero.
ExportsAsTrained ==
    at = "exported" /\ trainer.kind = "gan" =>
        /\ Accepted(checkpoint)
        /\ FlowReverse(checkpoint, GanFlow(trainer, Clip.latent), RowOfSpeaker(checkpoint, trainer.speaker)) = Clip.latent
        /\ Generator(checkpoint, Clip.latent, Clip.f0, RowOfSpeaker(checkpoint, trainer.speaker), 0, TRUE)
             = GanDecode(trainer, Clip.latent, SineSource(checkpoint, Clip.f0, 0, TRUE))
DrawsOfWindows(stats, whole, silent, source) ==
    \A start \in Below(ClipFrames) : \A count \in 1..(ClipFrames - start) :
        /\ SamplePrior(CutTime(stats, start, count), start) = CutTime(whole, start, count)
        /\ SineSource(checkpoint, SubSeq(silent, 1, count), start, TRUE) = CutTime(source, start * Dims.hop, count * Dims.hop)
DrawsOf(stats, silent) == DrawsOfWindows(stats, SamplePrior(stats, 0), silent, SineSource(checkpoint, silent, 0, TRUE))
\* A window of a clip is given the draws the clip gives its frames, and a
\* window is converted only if the index of every draw fits 64 bits.
DrawsArePositional ==
    at = "loaded" =>
        /\ DrawsOf(TextEncoder(checkpoint, Clip.phone, Clip.pitch), Values(ClipFrames, LAMBDA t : 0))
        /\ \A offset \in 0..(MaxIndex + 1), frames \in 0..ClipFrames :
               ValidSamplingRange(offset, frames) =>
                   /\ PriorIndex(offset, frames, frames - 1, Dims.hidden - 1) <= MaxIndex
                   /\ SourceIndex(offset, frames * Dims.hop - 1) <= MaxIndex

\* The three implementations are one network, for training and for conversion.
NetworksAgree == TrainersAgree /\ ConvertsAsTrained /\ ExportsAsTrained /\ DrawsArePositional
=============================================================================
