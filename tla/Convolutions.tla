---------------------------- MODULE Convolutions ----------------------------
(***************************************************************************)
(* The index arithmetic of the CUDA kernels: convolutions of the training  *)
(* graph (src/autograd/autograd.cu), of the synthesizer                    *)
(* (src/synthesizer/vits_ops.cu), of the pitch model (src/f0/rmvpe_ops.cu) *)
(* and of the content model (src/content/cuda/kernels.cu).                 *)
(*                                                                         *)
(* What a kernel computes is a sum of products for every output element.   *)
(* The model keeps which products those are and forgets their values: a    *)
(* kernel is a function from its iterations to <<output, input, weight>>,  *)
(* all flat indices.  Two kernels that add the same products, each once,   *)
(* agree on every tensor, up to the order of the additions; and a gradient *)
(* kernel is right when its products are those of the forward pass.        *)
(*                                                                         *)
(* Operators marked FAULT are wrong on purpose: nothing uses them, and the *)
(* project's mutants put them in place of the operator they precede.       *)
(***************************************************************************)
EXTENDS Integers, Sequences, FiniteSets, FiniteSetsExt, Functions

CONSTANTS
    Shapes,         \* the operations that are tried, with their dimensions
    Lanes,          \* 16 or 256, the width of a block of threads
    BlockLength,    \* 640, products added before the sum is rounded
    LargeInput,     \* 20480, input elements above which channels go last
    TileFrames,     \* kTileFrames
    ColumnElements, \* kColumnElements
    MinChannels     \* 8, channels from which the synthesizer uses cuBLAS

VARIABLES
    shape           \* the operation at hand

Upto(n) == 0..(n - 1)
\* The quotient of two C integers.
Trunc(a, b) == IF a >= 0 THEN a \div b ELSE -((-a) \div b)
\* The first coordinates of the tiles of a dimension.
Tiles(n, width) == {width * i : i \in Upto((n - 1) \div width + 1)}

\* The threads of a launch are whole blocks: the last reaches beyond the end.
Threads(n) == Upto(((n - 1) \div Lanes + 1) * Lanes)

\* The products of a kernel that goes through an intermediate matrix: use reads
\* its cells and fill makes them.
Through(use, fill) ==
    [e \in {d \in (DOMAIN use) \X (DOMAIN fill) : use[d[1]][2] = fill[d[2]][1]} |->
        <<use[e[1]][1], fill[e[2]][2], fill[e[2]][3]>>]
\* One of the operands of a matrix product is such a matrix, whose cells are
\* copies of input elements or zero.
TermsIn(products, copy) ==
    [e \in {d \in DOMAIN products : products[d][2] \in DOMAIN copy} |->
        <<products[e][1], copy[products[e][2]], products[e][3]>>]

----------------------------------------
(* cuBLAS: column-major op(A)[m,k] op(B)[k,n], and row-major through it.   *)

Sgemm(transA, transB, m, n, k, lda, ldb, ldc) ==
    [e \in Upto(m) \X Upto(n) \X Upto(k) |->
        << e[1] + e[2] * ldc,
           IF transA THEN e[3] + e[1] * lda ELSE e[1] + e[3] * lda,
           IF transB THEN e[2] + e[3] * ldb ELSE e[3] + e[2] * ldb >>]
\* gemm_rm: <<C, A, B>>.
GemmRowMajor(transA, transB, m, n, k) ==
    LET lda == IF transA THEN m ELSE k
        ldb == IF transB THEN k ELSE n
        swapped == Sgemm(transB, transA, n, m, k, ldb, lda, n)
    IN [e \in DOMAIN swapped |-> <<swapped[e][1], swapped[e][3], swapped[e][2]>>]

----------------------------------------
(* One-dimensional convolution: [cin, len, cout, k, stride, pad, dil,      *)
(* groups]; input [cin, len], weight [cout, cin / groups, k].              *)

PerGroup(p) == p.cin \div p.groups
Numerator(p) == p.len + 2 * p.pad - p.dil * (p.k - 1) - 1
OutLength(p) == Numerator(p) \div p.stride + 1
\* The definition: output frame ot sees input frame t through tap k.
Convolution(p) ==
    {<<e[1] * OutLength(p) + e[2],
       ((e[1] \div (p.cout \div p.groups)) * PerGroup(p) + e[3]) * p.len + e[4],
       (e[1] * PerGroup(p) + e[3]) * p.k + e[5]>> :
       e \in {d \in Upto(p.cout) \X Upto(OutLength(p)) \X Upto(PerGroup(p)) \X Upto(p.len) \X Upto(p.k) :
                d[4] + p.pad = d[2] * p.stride + d[5] * p.dil}}

\* k_conv1d_f: a thread for each output.
DirectForward(p) ==
    LET in(e) == e[2] * p.stride - p.pad + e[4] * p.dil
        first(co) == (co \div (p.cout \div p.groups)) * PerGroup(p)
    IN [e \in {d \in Upto(p.cout) \X Threads(OutLength(p)) \X Upto(PerGroup(p)) \X Upto(p.k) :
                 d[2] < OutLength(p) /\ in(d) \in Upto(p.len)} |->
          <<e[1] * OutLength(p) + e[2], (first(e[1]) + e[3]) * p.len + in(e), (e[1] * PerGroup(p) + e[3]) * p.k + e[4]>>]
\* The synthesizer's kernel is the same loop.
Conv1dKernel(p) == DirectForward(p)

\* k_im2col_1d.
ColumnsOf(p) ==
    LET row(i) == i \div OutLength(p)
        in(i) == (i % OutLength(p)) * p.stride - p.pad + (row(i) % p.k) * p.dil
    IN [i \in {j \in Upto(p.cin * p.k * OutLength(p)) : in(j) \in Upto(p.len)} |-> (row(i) \div p.k) * p.len + in(i)]

\* k_conv_columns_blocked: blocks of products, each block in tiles.
ColumnsBlocked(m, n, k) ==
    LET end(e) == Min({e[5] + BlockLength, k})
        tiles == (n - 1) \div Lanes + 1
        row(e) == (e[1] \div tiles) * Lanes + e[2]
        col(e) == (e[1] % tiles) * Lanes + e[3]
    IN [e \in {d \in Upto(((m - 1) \div Lanes + 1) * tiles) \X Upto(Lanes) \X Upto(Lanes) \X Upto(k) \X Tiles(k, BlockLength) :
                 row(d) < m /\ col(d) < n /\ d[5] <= d[4] /\ d[4] < end(d)} |->
          <<row(e) * n + col(e), e[4] * n + col(e), row(e) * k + e[4]>>]

\* FAULT: an output phase begins at the tap of its own number, not shifted by
\* the padding.
ResidueUnpadded(phase, pad, stride) == phase % stride
Residue(phase, pad, stride) == (phase + pad) % stride

\* FAULT: the columns of a plane are flattened into one line.
FlatSource(p, ot, tap, phases) == ot * p.stride - p.pad + tap * p.dil
PhaseSource(p, ot, tap, phases) == ((ot \div phases) * p.stride - p.pad + tap * p.dil) * phases + (ot % phases)

\* k_conv1d_channels_last: a thread for each output channel and frame, taps
\* before channels; phases are the columns of a plane, or those of a stride.
ChannelsLast(transposed, p, outLength, width) ==
    LET phases == IF transposed THEN Min({p.stride, outLength}) ELSE width
        tiles == IF transposed THEN ((outLength - 1) \div p.stride) \div Lanes + 1 ELSE (outLength \div width - 1) \div Lanes + 1
        tile(e) == e[1] % tiles
        phase(e) == (e[1] \div tiles) % phases
        co(e) == (e[1] \div (tiles * phases)) * Lanes + e[2]
        ot(e) == IF transposed THEN (tile(e) * Lanes + e[3]) * p.stride + phase(e)
                 ELSE (tile(e) * Lanes + e[3]) * phases + phase(e)
        residue(e) == IF transposed THEN Residue(phase(e), p.pad, p.stride) ELSE 0
        taps(e) == IF ~transposed THEN p.k
                   ELSE IF residue(e) < p.k THEN (p.k - 1 - residue(e)) \div p.stride + 1 ELSE 0
        k(e) == IF transposed THEN residue(e) + (taps(e) - 1 - e[4]) * p.stride ELSE e[4]
        source(e) == IF transposed THEN Trunc(ot(e) + p.pad - k(e), p.stride)
                     ELSE PhaseSource(p, ot(e), k(e), phases)
        blocks == ((p.cout - 1) \div Lanes + 1) * tiles * phases
    IN [e \in {d \in Upto(blocks) \X Upto(Lanes) \X Upto(Lanes) \X Upto(p.k) \X Upto(p.cin) :
                 d[4] < taps(d) /\ co(d) < p.cout /\ ot(d) < outLength /\ source(d) \in Upto(p.len)} |->
          <<co(e) * outLength + ot(e), e[5] * p.len + source(e),
            IF transposed THEN (e[5] * p.cout + co(e)) * p.k + k(e) ELSE (co(e) * p.cin + e[5]) * p.k + k(e)>>]

\* conv1d of the training graph.
TrainingForward(p) ==
    IF p.groups # 1 THEN DirectForward(p)
    ELSE IF p.cin * p.len > LargeInput THEN ChannelsLast(FALSE, p, OutLength(p), 1)
    ELSE TermsIn(ColumnsBlocked(p.cout, OutLength(p), p.cin * p.k), ColumnsOf(p))

\* FAULT: every tile begins at the first frame.
FrameWithinTile(start, tile, i) == i % tile
FrameOf(start, tile, i) == start + (i % tile)
\* conv_columns_kernel, for the frames of a tile.
TileColumns(p, group, start, tile) ==
    LET row(i) == i \div tile
        in(i) == FrameOf(start, tile, i) * p.stride - p.pad + (row(i) % p.k) * p.dil
    IN [i \in {j \in Upto(PerGroup(p) * p.k * tile) : in(j) \in Upto(p.len)} |->
          group * PerGroup(p) * p.len + (row(i) \div p.k) * p.len + in(i)]
\* conv1d of the synthesizer: cuBLAS on tiles of frames, where it is worth it.
SynthesizerForward(p) ==
    LET rows == PerGroup(p) * p.k
        channels == p.cout \div p.groups
        capacity == Min({OutLength(p), TileFrames, ColumnElements \div rows})
        tile(start) == Min({capacity, OutLength(p) - start})
        part(group, start) ==
            TermsIn(Sgemm(FALSE, FALSE, tile(start), channels, rows, tile(start), rows, OutLength(p)),
                     TileColumns(p, group, start, tile(start)))
        parts == [gs \in Upto(p.groups) \X Tiles(OutLength(p), capacity) |-> part(gs[1], gs[2])]
    IN IF PerGroup(p) < MinChannels \/ channels < MinChannels \/ rows > ColumnElements THEN Conv1dKernel(p)
       ELSE [e \in UNION {{gs} \X (DOMAIN parts[gs]) : gs \in DOMAIN parts} |->
               LET product == parts[e[1]][e[2]]
               IN <<product[1] + e[1][1] * channels * OutLength(p) + e[1][2], product[2], product[3] + e[1][1] * channels * rows>>]
\* conv1d_strided of the content model: no padding, no groups.
StridedKernel(p, outLength, threads) ==
    [e \in {d \in Upto(p.cout) \X threads \X Upto(p.cin) \X Upto(p.k) : d[2] < outLength} |->
        <<e[1] * outLength + e[2], e[3] * p.len + e[2] * p.stride + e[4], (e[1] * p.cin + e[3]) * p.k + e[4]>>]
StridedForward(p) ==
    LET outLength == (p.len - p.k) \div p.stride + 1 IN StridedKernel(p, outLength, Threads(outLength))
\* And conv1d_grouped: no dilation.
GroupedKernel(p, outLength, threads) ==
    LET in(e) == e[2] * p.stride - p.pad + e[4]
        first(o) == (o \div (p.cout \div p.groups)) * PerGroup(p)
    IN [e \in {d \in Upto(p.cout) \X threads \X Upto(PerGroup(p)) \X Upto(p.k) : d[2] < outLength /\ in(d) \in Upto(p.len)} |->
          <<e[1] * outLength + e[2], (first(e[1]) + e[3]) * p.len + in(e), (e[1] * PerGroup(p) + e[3]) * p.k + e[4]>>]
GroupedForward(p) ==
    LET outLength == (p.len + 2 * p.pad - p.k) \div p.stride + 1 IN GroupedKernel(p, outLength, Threads(outLength))

\* The gradients: of the input, <<dout, dx, w>>; of the weight, <<dout, x, dw>>.
\* k_conv1d_dx walks the products of the forward pass again.
GroupedInputGradient(p) == DirectForward(p)
\* k_conv1d_dw: a thread for each weight.
GroupedWeightGradient(p) ==
    LET in(e) == e[2] * p.stride - p.pad + (e[1] % p.k) * p.dil
        co(e) == e[1] \div (p.k * PerGroup(p))
        ci(e) == (co(e) \div (p.cout \div p.groups)) * PerGroup(p) + ((e[1] \div p.k) % PerGroup(p))
    IN [e \in {d \in Upto(p.cout * PerGroup(p) * p.k) \X Upto(OutLength(p)) : in(d) \in Upto(p.len)} |->
          <<co(e) * OutLength(p) + e[2], ci(e) * p.len + in(e), e[1]>>]
InputGradient(p) ==
    LET dcol == GemmRowMajor(TRUE, FALSE, p.cin * p.k, OutLength(p), p.cout)   \* <<dcol, w, dout>>
        asUse == [e \in DOMAIN dcol |-> <<dcol[e][3], dcol[e][1], dcol[e][2]>>]
    IN IF p.groups = 1 THEN TermsIn(asUse, ColumnsOf(p)) ELSE GroupedInputGradient(p)
\* FAULT: the columns are read as they are, not transposed.
WeightGradientStraight(p) ==
    LET dw == GemmRowMajor(FALSE, FALSE, p.cout, p.cin * p.k, OutLength(p))
    IN TermsIn([e \in DOMAIN dw |-> <<dw[e][2], dw[e][3], dw[e][1]>>], ColumnsOf(p))
WeightGradient(p) ==
    LET dw == GemmRowMajor(FALSE, TRUE, p.cout, p.cin * p.k, OutLength(p))     \* <<dw, dout, col>>
    IN IF p.groups = 1 THEN TermsIn([e \in DOMAIN dw |-> <<dw[e][2], dw[e][3], dw[e][1]>>], ColumnsOf(p))
       ELSE GroupedWeightGradient(p)

----------------------------------------
(* Transposed convolution: [cin, len, cout, k, stride, pad]; weight        *)
(* [cin, cout, k].                                                         *)

LongerBy(p) == (p.len - 1) * p.stride - 2 * p.pad + p.k
\* The definition: input frame t reaches output frame t * stride - pad + k.
Transposition(p) ==
    {<<e[2] * LongerBy(p) + e[3], e[1] * p.len + e[4], (e[1] * p.cout + e[2]) * p.k + e[5]>> :
       e \in {d \in Upto(p.cin) \X Upto(p.cout) \X Upto(LongerBy(p)) \X Upto(p.len) \X Upto(p.k) :
                d[3] + p.pad = d[4] * p.stride + d[5]}}

\* What a thread of an output frame gathers: tap k has a source when the
\* stride divides its distance.
Source(p, t, k) == IF (t + p.pad - k) % p.stride # 0 THEN -1 ELSE Trunc(t + p.pad - k, p.stride)
\* k_convt_columns and k_convt_from_columns.
TransposedColumns(p) ==
    [e \in Upto(p.cout * p.k) \X Upto(p.len) \X Upto(p.cin) |->
        <<e[1] * p.len + e[2], e[3] * p.len + e[2], e[3] * p.cout * p.k + e[1]>>]
FromColumns(p) ==
    [e \in {d \in Upto(p.cout) \X Upto(LongerBy(p)) \X Upto(p.k) : Source(p, d[2], d[3]) \in Upto(p.len)} |->
        <<e[1] * LongerBy(p) + e[2], (e[1] * p.k + e[3]) * p.len + Source(p, e[2], e[3])>>]
TrainingTransposed(p) ==
    IF p.cin * p.len > LargeInput THEN ChannelsLast(TRUE, p, LongerBy(p), 1)
    ELSE Through(FromColumns(p), TransposedColumns(p))

\* The direct kernel of the synthesizer.
DirectTransposed(p) ==
    [e \in {d \in Upto(p.cout) \X Upto(LongerBy(p)) \X Upto(p.k) \X Upto(p.cin) : Source(p, d[2], d[3]) \in Upto(p.len)} |->
        <<e[1] * LongerBy(p) + e[2], e[4] * p.len + Source(p, e[2], e[3]), (e[4] * p.cout + e[1]) * p.k + e[3]>>]
\* The input frames that a tile of output frames needs.
TileCapacity(p) == Min({TileFrames, ColumnElements \div (p.cout * p.k)})
TileLimit(p) == Min({LongerBy(p), (TileCapacity(p) - p.k) * p.stride})
\* FAULT: a tap that reaches back over the tile's beginning is forgotten.
FirstInputOfFrame(p, start) == Max({0, Trunc(start + p.pad, p.stride)})
FirstInput(p, start) ==
    LET lower == start + p.pad - (p.k - 1)
    IN Max({0, IF lower > 0 THEN (lower + p.stride - 1) \div p.stride ELSE Trunc(lower, p.stride)})
TileOf(p, start) == Min({TileLimit(p), LongerBy(p) - start})
Inputs(p, start) ==
    Max({0, Min({p.len - 1, (start + TileOf(p, start) - 1 + p.pad) \div p.stride}) - FirstInput(p, start) + 1})
TiledTransposed(p) == p.cin >= MinChannels /\ p.cout >= MinChannels /\ TileCapacity(p) > p.k
\* transpose_gather_kernel over the columns of one tile.
TileGather(p, start) ==
    LET n == Inputs(p, start)
        it(e) == Trunc(start + e[2] + p.pad - e[3], p.stride) - FirstInput(p, start)
        gather == [e \in {d \in Upto(p.cout) \X Upto(TileOf(p, start)) \X Upto(p.k) :
                            (start + d[2] + p.pad - d[3]) % p.stride = 0 /\ it(d) \in Upto(n)} |->
                     <<e[1] * LongerBy(p) + start + e[2], (e[1] * p.k + e[3]) * n + it(e)>>]
        product == Sgemm(FALSE, TRUE, n, p.cout * p.k, p.cin, p.len, p.cout * p.k, n)
    IN Through(gather, [e \in DOMAIN product |-> <<product[e][1], product[e][2] + FirstInput(p, start), product[e][3]>>])
SynthesizerTransposed(p) ==
    LET parts == [start \in Tiles(LongerBy(p), TileLimit(p)) |-> TileGather(p, start)]
    IN IF ~TiledTransposed(p) THEN DirectTransposed(p)
       ELSE [e \in UNION {{s} \X (DOMAIN parts[s]) : s \in DOMAIN parts} |-> parts[e[1]][e[2]]]

\* k_convt_dx and k_convt_dw: <<dout, dx, w>> and <<dout, x, dw>>.
TransposedInputGradient(p) ==
    LET out(e) == e[2] * p.stride - p.pad + e[3]
    IN [e \in {d \in Upto(p.cin) \X Upto(p.len) \X Upto(p.k) \X Upto(p.cout) : out(d) \in Upto(LongerBy(p))} |->
          <<e[4] * LongerBy(p) + out(e), e[1] * p.len + e[2], (e[1] * p.cout + e[4]) * p.k + e[3]>>]
TransposedWeightGradient(p) ==
    LET out(e) == e[2] * p.stride - p.pad + (e[1] % p.k)
        co(e) == (e[1] \div p.k) % p.cout
    IN [e \in {d \in Upto(p.cin * p.cout * p.k) \X Upto(p.len) : out(d) \in Upto(LongerBy(p))} |->
          <<co(e) * LongerBy(p) + out(e), (e[1] \div (p.k * p.cout)) * p.len + e[2], e[1]>>]

----------------------------------------
(* Planes: [cin, h, w, cout, kh, kw, sh, sw, ph, pw].                      *)

OutHeight(p) == (p.h + 2 * p.ph - p.kh) \div p.sh + 1
OutWidth(p) == (p.w + 2 * p.pw - p.kw) \div p.sw + 1
PlaneIndex(height, width, channel, row, col) == (channel * height + row) * width + col
\* The definition, in both directions of the plane.
PlaneConvolution(p) ==
    {<<PlaneIndex(OutHeight(p), OutWidth(p), e[1], e[2], e[3]), PlaneIndex(p.h, p.w, e[4], e[5], e[6]),
       PlaneIndex(p.kh, p.kw, e[1] * p.cin + e[4], e[5] + p.ph - e[2] * p.sh, e[6] + p.pw - e[3] * p.sw)>> :
       e \in {d \in Upto(p.cout) \X Upto(OutHeight(p)) \X Upto(OutWidth(p)) \X Upto(p.cin) \X Upto(p.h) \X Upto(p.w) :
                d[5] + p.ph - d[2] * p.sh \in Upto(p.kh) /\ d[6] + p.pw - d[3] * p.sw \in Upto(p.kw)}}

\* k_im2col_2d.
PlaneColumns(p) ==
    LET cols == OutHeight(p) * OutWidth(p)
        row(i) == ((i % cols) \div OutWidth(p)) * p.sh - p.ph + (((i \div cols) \div p.kw) % p.kh)
        col(i) == ((i % cols) % OutWidth(p)) * p.sw - p.pw + ((i \div cols) % p.kw)
    IN [i \in {j \in Upto(p.cin * p.kh * p.kw * cols) : row(j) \in Upto(p.h) /\ col(j) \in Upto(p.w)} |->
          PlaneIndex(p.h, p.w, (i \div cols) \div (p.kw * p.kh), row(i), col(i))]
\* conv2d of the training graph; the periods of a discriminator go last.
TrainingPlane(p) ==
    LET rows == p.cin * p.kh * p.kw
        cols == OutHeight(p) * OutWidth(p)
        period == p.kw = 1 /\ p.sw = 1 /\ p.pw = 0
        product == GemmRowMajor(FALSE, FALSE, p.cout, cols, rows)
    IN IF period /\ p.cin * p.h * p.w > LargeInput
       THEN ChannelsLast(FALSE, [cin |-> p.cin, len |-> p.h * p.w, cout |-> p.cout, k |-> p.kh, stride |-> p.sh,
                                 pad |-> p.ph, dil |-> 1], cols, p.w)
       ELSE TermsIn(IF period THEN ColumnsBlocked(p.cout, cols, rows)
                     ELSE [e \in DOMAIN product |-> <<product[e][1], product[e][3], product[e][2]>>], PlaneColumns(p))
PlaneInputGradient(p) ==
    LET dcol == GemmRowMajor(TRUE, FALSE, p.cin * p.kh * p.kw, OutHeight(p) * OutWidth(p), p.cout)
    IN TermsIn([e \in DOMAIN dcol |-> <<dcol[e][3], dcol[e][1], dcol[e][2]>>], PlaneColumns(p))
PlaneWeightGradient(p) ==
    LET dw == GemmRowMajor(FALSE, TRUE, p.cout, p.cin * p.kh * p.kw, OutHeight(p) * OutWidth(p))
    IN TermsIn([e \in DOMAIN dw |-> <<dw[e][2], dw[e][3], dw[e][1]>>], PlaneColumns(p))

\* conv2d_generic of the pitch model: square, as large as its input.
SamePlane(p, rows, cols) ==
    LET ih(e) == e[2] + e[5] - p.ph
        iw(e) == e[3] + e[6] - p.ph
    IN [e \in {d \in Upto(p.cout) \X rows \X cols \X Upto(p.cin) \X Upto(p.kh) \X Upto(p.kh) :
                 d[2] < p.h /\ d[3] < p.w /\ ih(d) \in Upto(p.h) /\ iw(d) \in Upto(p.w)} |->
          <<PlaneIndex(p.h, p.w, e[1], e[2], e[3]), PlaneIndex(p.h, p.w, e[4], ih(e), iw(e)),
            PlaneIndex(p.kh, p.kh, e[1] * p.cin + e[4], e[5], e[6])>>]
Conv2dGeneric(p) == SamePlane(p, Threads(p.h), Threads(p.w))

\* conv_transpose2d_s2: twice as large, kernel 3, padding 1.
Doubling(p) ==
    {<<PlaneIndex(2 * p.h, 2 * p.w, e[2], e[3] * 2 - 1 + e[5], e[4] * 2 - 1 + e[6]), PlaneIndex(p.h, p.w, e[1], e[3], e[4]),
       PlaneIndex(3, 3, e[1] * p.cout + e[2], e[5], e[6])>> :
       e \in {d \in Upto(p.cin) \X Upto(p.cout) \X Upto(p.h) \X Upto(p.w) \X Upto(3) \X Upto(3) :
                d[3] * 2 - 1 + d[5] \in Upto(2 * p.h) /\ d[4] * 2 - 1 + d[6] \in Upto(2 * p.w)}}
HalvedPlane(n) == IF n % 2 # 0 THEN -1 ELSE Trunc(n, 2)
DoublePlane(p, rows, cols) ==
    [e \in {d \in Upto(p.cout) \X rows \X cols \X Upto(3) \X Upto(3) \X Upto(p.cin) :
              /\ d[2] < 2 * p.h /\ d[3] < 2 * p.w
              /\ HalvedPlane(d[2] + 1 - d[4]) \in Upto(p.h) /\ HalvedPlane(d[3] + 1 - d[5]) \in Upto(p.w)} |->
        <<PlaneIndex(2 * p.h, 2 * p.w, e[1], e[2], e[3]),
          PlaneIndex(p.h, p.w, e[6], HalvedPlane(e[2] + 1 - e[4]), HalvedPlane(e[3] + 1 - e[5])),
          PlaneIndex(3, 3, e[6] * p.cout + e[1], e[4], e[5])>>]
ConvTranspose2d(p) == DoublePlane(p, Threads(2 * p.h), Threads(2 * p.w))
\* avgpool2d: <<output, input>>, and whatever does not fill a window is dropped.
Pooled(p, height, width) ==
    [e \in {d \in Upto(p.cin) \X Threads(height) \X Threads(width) \X Upto(p.kh) \X Upto(p.kw) : d[2] < height /\ d[3] < width} |->
        <<PlaneIndex(height, width, e[1], e[2], e[3]), PlaneIndex(p.h, p.w, e[1], e[2] * p.kh + e[4], e[3] * p.kw + e[5])>>]
AvgPool2d(p) == Pooled(p, p.h \div p.kh, p.w \div p.kw)

----------------------------------------
(* The products of matrices, and relative attention.                       *)

Product(p, transB) ==
    {<<e[1] * p.n + e[2], e[1] * p.k + e[3], IF transB THEN e[2] * p.k + e[3] ELSE e[3] * p.n + e[2]>> :
        e \in Upto(p.m) \X Upto(p.n) \X Upto(p.k)}
\* k_linear_single_row: four accumulators side by side.
SingleRow(p) == [e \in Upto(p.n) \X Tiles(p.k, 4) \X Upto(4) |-> <<e[1], e[2] + e[3], e[1] * p.k + e[2] + e[3]>>]
Reordered(f, a, b, c) == [e \in DOMAIN f |-> <<f[e][a], f[e][b], f[e][c]>>]
MatmulKernels(p) ==
    {GemmRowMajor(FALSE, FALSE, p.m, p.n, p.k),
     Reordered(GemmRowMajor(FALSE, TRUE, p.m, p.k, p.n), 2, 1, 3),       \* dA += dO B^T
     Reordered(GemmRowMajor(TRUE, FALSE, p.k, p.n, p.m), 3, 2, 1)}       \* dB += A^T dO
LinearKernels(p) ==
    {IF p.m = 1 /\ p.k >= 4 /\ p.k % 4 = 0 THEN SingleRow(p) ELSE GemmRowMajor(FALSE, TRUE, p.m, p.n, p.k),
     Reordered(GemmRowMajor(FALSE, FALSE, p.m, p.k, p.n), 2, 1, 3),
     Reordered(GemmRowMajor(TRUE, FALSE, p.n, p.k, p.m), 2, 3, 1)}

\* FAULT: positions are counted from the key to the query.
RelativeReversed(p, row, col) == row - col + p.window
Relative(p, row, col) == col - row + p.window
\* One head: q, k, v are [dim, frames], the relative tables [2 window + 1, dim].
Scores(p) == Reordered(Sgemm(FALSE, TRUE, p.frames, p.frames, p.dim, p.frames, p.frames, p.frames), 1, 3, 2)
RelativeScores(p) ==
    [e \in {d \in Upto(p.frames) \X Upto(p.frames) \X Upto(p.dim) : d[2] - d[1] \in (-p.window)..p.window} |->
        <<e[1] * p.frames + e[2], e[3] * p.frames + e[1], Relative(p, e[1], e[2]) * p.dim + e[3]>>]
ValueSums(p) == Sgemm(TRUE, FALSE, p.frames, p.dim, p.frames, p.frames, p.frames, p.frames)
RelativeValues(p) ==
    LET row(i) == i % p.frames
    IN [e \in {d \in Upto(p.frames * p.dim) \X Upto(p.frames) :
                 d[2] >= Max({0, row(d[1]) - p.window}) /\ d[2] <= Min({p.frames - 1, row(d[1]) + p.window})} |->
          <<e[1], row(e[1]) * p.frames + e[2], Relative(p, row(e[1]), e[2]) * p.dim + e[1] \div p.frames>>]

----------------------------------------
(* Operations that only move elements: <<output, input>> forward, and      *)
(* <<dout, dx>> of the backward kernel.                                    *)

\* FAULT: two outputs of one input overwrite each other's gradient.
OnceOnly(f) == [i \in {j \in DOMAIN f : \A k \in DOMAIN f : f[k][2] = f[j][2] => k <= j} |-> f[i]]
\* Gradients are added, in any order, where several outputs read one input.
Added(f) == f
Moves(forward, backward) == [forward |-> forward, backward |-> backward]

Cells(p) == Upto(p.rows * p.cols)
Transposed2d(p) ==
    LET there == [i \in Cells(p) |-> <<(i % p.cols) * p.rows + i \div p.cols, i>>] IN Moves(there, there)
ConcatRows(p) ==
    LET first == p.rows * p.cols
        places == {"a"} \X Upto(first) \cup {"b"} \X Upto(p.more * p.cols)
    IN Moves([e \in places |-> <<IF e[1] = "a" THEN e[2] ELSE first + e[2], e>>],
             [e \in places |-> <<IF e[1] = "a" THEN e[2] ELSE e[2] + first, e>>])
SliceRows(p) ==
    Moves([i \in Upto(p.count * p.cols) |-> <<i, p.start * p.cols + i>>],
          [i \in Upto(p.count * p.cols) |-> <<i, i + p.start * p.cols>>])
EmbeddingRows(p) ==
    LET table(i) == p.idx[i \div p.cols + 1] * p.cols + (i % p.cols)
    IN Moves([i \in Upto(Len(p.idx) * p.cols) |-> <<i, table(i)>>], Added([i \in Upto(Len(p.idx) * p.cols) |-> <<i, table(i)>>]))
Frame(p) ==
    LET sample(i) == (i \div p.cols) * p.hop + (i % p.cols)
    IN Moves([i \in Cells(p) |-> <<i, sample(i)>>], Added([i \in Cells(p) |-> <<i, sample(i)>>]))
FlipRows(p) ==
    LET other(i) == (p.rows - 1 - i \div p.cols) * p.cols + (i % p.cols)
    IN Moves([i \in Cells(p) |-> <<i, other(i)>>], [i \in Cells(p) |-> <<other(i), i>>])
ReflectPadEnd(p) ==
    LET src(i) == IF i < p.rows THEN i ELSE 2 * p.rows - 2 - i
    IN Moves([i \in Upto(p.target) |-> <<i, src(i)>>], Added([i \in Upto(p.target) |-> <<i, src(i)>>]))
AddBias(p) ==
    Moves([i \in Cells(p) |-> <<i, i % p.cols>>], [e \in Upto(p.cols) \X Upto(p.rows) |-> <<e[2] * p.cols + e[1], e[1]>>])
MovesOf(p) ==
    CASE p.op = "transpose" -> Transposed2d(p)
      [] p.op = "concat" -> ConcatRows(p)
      [] p.op = "slice" -> SliceRows(p)
      [] p.op = "embedding" -> EmbeddingRows(p)
      [] p.op = "frame" -> Frame(p)
      [] p.op = "flip" -> FlipRows(p)
      [] p.op = "reflect" -> ReflectPadEnd(p)
      [] p.op = "bias" -> AddBias(p)

----------------------------------------
Absent == [kind |-> "none"]
KInit == shape = Absent
Run == shape = Absent /\ shape' \in Shapes
KSpec == KInit /\ [][Run]_shape

\* A kernel adds just these products, and no product twice.
Computes(kernel, products) ==
    Range(kernel) = products /\ Cardinality(DOMAIN kernel) = Cardinality(products)

\* The four convolutions of the program are one function: blocked columns,
\* channels last, tiles of frames through cuBLAS and the direct loops add the
\* same products, whatever the stride, the padding, the dilation and the
\* groups, the last tile and the padded ends included (conv1d of autograd.cu
\* and vits_ops.cu, conv1d_strided and conv1d_grouped of kernels.cu).
ConvolutionsAgree ==
    shape.kind = "conv" =>
        /\ Computes(TrainingForward(shape), Convolution(shape))
        /\ Computes(SynthesizerForward(shape), Convolution(shape))
        /\ shape.pad = 0 /\ shape.groups = 1 /\ shape.dil = 1 => Computes(StridedForward(shape), Convolution(shape))
        /\ shape.dil = 1 => Computes(GroupedForward(shape), Convolution(shape))

\* So are the transposed ones, by columns, by phases of the stride and by tiles
\* of output frames; and no tile needs more columns than its workspace has
\* (conv_transpose1d of autograd.cu and vits_ops.cu).
TranspositionsAgree ==
    shape.kind = "transposed" =>
        /\ Computes(TrainingTransposed(shape), Transposition(shape))
        /\ Computes(SynthesizerTransposed(shape), Transposition(shape))
        /\ TiledTransposed(shape) => \A start \in Tiles(LongerBy(shape), TileLimit(shape)) : Inputs(shape, start) <= TileCapacity(shape)

\* And those of planes: the discriminators' periods are convolved column by
\* column, and never across the end of a row (conv2d of autograd.cu and
\* rmvpe_ops.cu, conv_transpose2d_s2, avgpool2d).
PlanesAgree ==
    shape.kind = "plane" =>
        /\ Computes(TrainingPlane(shape), PlaneConvolution(shape))
        /\ shape.sh = 1 /\ shape.sw = 1 /\ shape.kh = shape.kw /\ shape.ph = shape.pw /\ shape.kh = 2 * shape.ph + 1 =>
             Computes(Conv2dGeneric(shape), PlaneConvolution(shape))
        /\ Computes(ConvTranspose2d(shape), Doubling(shape))
        /\ shape.kh <= shape.h /\ shape.kw <= shape.w =>
             LET pooled == AvgPool2d(shape)
             IN \A a, b \in DOMAIN pooled :
                  /\ pooled[a][2] = pooled[b][2] => a = b
                  /\ pooled[a][1] = pooled[b][1] <=> a[1] = b[1] /\ a[2] = b[2] /\ a[3] = b[3]

\* A score of relative attention is that of the key plus that of its distance,
\* for distances inside the window, and a value likewise: the two cuBLAS calls
\* and the two kernels agree on the layouts (relative_attention of vits_ops.cu).
AttentionIsRelative ==
    shape.kind = "attention" =>
        LET T == shape.frames
            D == shape.dim
            pairs == Upto(T) \X Upto(T) \X Upto(D)
            near == {e \in pairs : e[2] - e[1] \in (-shape.window)..shape.window}
        IN /\ Computes(Scores(shape), {<<e[1] * T + e[2], e[3] * T + e[1], e[3] * T + e[2]>> : e \in pairs})
           /\ Computes(RelativeScores(shape),
                       {<<e[1] * T + e[2], e[3] * T + e[1], (e[2] - e[1] + shape.window) * D + e[3]>> : e \in near})
           /\ Computes(ValueSums(shape), {<<e[3] * T + e[1], e[1] * T + e[2], e[3] * T + e[2]>> : e \in pairs})
           /\ Computes(RelativeValues(shape),
                       {<<e[3] * T + e[1], e[1] * T + e[2], (e[2] - e[1] + shape.window) * D + e[3]>> : e \in near})

\* Every gradient is the derivative of what was computed: the backward kernels
\* of an operation add, for each product of the forward pass, that product's
\* share to the gradients of both of its factors, and nothing else.
GradientsAreAdjoint ==
    /\ shape.kind = "conv" => Computes(InputGradient(shape), Convolution(shape)) /\ Computes(WeightGradient(shape), Convolution(shape))
    /\ shape.kind = "transposed" => /\ Computes(TransposedInputGradient(shape), Transposition(shape))
                                    /\ Computes(TransposedWeightGradient(shape), Transposition(shape))
    /\ shape.kind = "plane" => /\ Computes(PlaneInputGradient(shape), PlaneConvolution(shape))
                               /\ Computes(PlaneWeightGradient(shape), PlaneConvolution(shape))
    /\ shape.kind = "product" => /\ \A kernel \in MatmulKernels(shape) : Computes(kernel, Product(shape, FALSE))
                                 /\ \A kernel \in LinearKernels(shape) : Computes(kernel, Product(shape, TRUE))
    /\ shape.kind = "gather" => Computes(MovesOf(shape).backward, Range(MovesOf(shape).forward))

\* Every kernel adds the products of the operation it stands for, each once,
\* whatever layout, tile or direction it works in.
KernelsAgree ==
    /\ ConvolutionsAgree /\ TranspositionsAgree /\ PlanesAgree
    /\ AttentionIsRelative /\ GradientsAreAdjoint
=============================================================================
