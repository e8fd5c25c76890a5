------------------------------ MODULE Formats ------------------------------
(***************************************************************************)
(* What the program reads from the outside: WAV files (src/io/audio_io.cpp *)
(* and bounded_audio_io.cpp), safetensors headers (src/io/safetensors.cpp) *)
(* and HTTP bodies, parameters, numbers and byte ranges                    *)
(* (tools/web/http_transport.cpp).  Text is a sequence of symbols, one for *)
(* each class of characters that the parser tells apart; widths are        *)
(* scaled down.  A case is one input; Parse runs the parser on it.         *)
(*                                                                         *)
(* Operators marked FAULT are wrong on purpose: nothing uses them, and the *)
(* project's mutants put them in place of the operator they precede.       *)
(***************************************************************************)
EXTENDS Integers, Sequences, FiniteSets, FiniteSetsExt, SequencesExt, Loops

CONSTANTS
    Cases,      \* the inputs that are tried
    Max32,      \* the largest 32-bit size of a WAV header
    MaxSize,    \* the largest std::size_t
    Full,       \* 32768, the magnitude of the lowest PCM16 sample
    MaxParts,   \* kMaxMultipartParts
    MaxField,   \* kMaxFieldBytes
    MaxFile     \* kMaxFileBytes

ASSUME FormatsAssumption == {Max32, MaxSize, MaxParts, MaxField, MaxFile} \subseteq Nat /\ Full \in Nat \ {0}

VARIABLES
    input,      \* the case
    output      \* what the parser made of it
fvars == <<input, output>>

Bad == [ok |-> FALSE]
Good(v) == [ok |-> TRUE, v |-> v]

----------------------------------------
(* WAV.  A file is its size, the size in the RIFF header and its chunks;   *)
(* a format is good or not, and has a block align.                         *)

ChunkHeader == 8
\* FAULT: the byte that pads an odd chunk is not skipped.
PaddedOdd(size) == size
Padded(size) == size + (size % 2)
ReadChunk(st, chunk) ==
    LET start == st.cursor + ChunkHeader
        end == start + chunk.size
    IN IF ~st.ok \/ st.cursor >= st.riffEnd THEN st
       ELSE IF start > st.riffEnd \/ end > st.riffEnd \/ start + Padded(chunk.size) > st.riffEnd
               \/ (chunk.id = "fmt" /\ (st.fmt # 0 \/ chunk.size < 16 \/ chunk.align = 0))
               \/ (chunk.id = "data" /\ st.data # -1)
       THEN [st EXCEPT !.ok = FALSE]
       ELSE [st EXCEPT !.cursor = start + Padded(chunk.size),
                       !.fmt = IF chunk.id = "fmt" THEN chunk.align ELSE @,
                       !.data = IF chunk.id = "data" THEN start ELSE @,
                       !.bytes = IF chunk.id = "data" THEN chunk.size ELSE @]
\* WavChunkReader::open and read_wav; a short file ends the loop in an error.
ParseWav(f) ==
    LET first == [ok |-> TRUE, cursor |-> 12, riffEnd |-> 8 + f.riff, fmt |-> 0, data |-> -1, bytes |-> 0]
        st == Iterated(LAMBDA s, k : ReadChunk(s, f.chunks[k]), first, Len(f.chunks))
    IN IF f.size < 12 \/ f.riff < 4 \/ 8 + f.riff > f.size \/ ~st.ok \/ st.cursor # st.riffEnd
          \/ st.fmt = 0 \/ st.data = -1
       THEN Bad
       ELSE IF st.bytes % st.fmt # 0 THEN Bad
       ELSE Good([offset |-> st.data, bytes |-> st.bytes, frames |-> st.bytes \div st.fmt])

\* wav_output_layout and validate_wav_output, then the file they describe.
WriteWav(samples, width) ==
    IF samples * width > Max32 \/ 36 + samples * width > Max32 THEN Bad
    ELSE Good([size |-> 44 + samples * width, riff |-> 36 + samples * width,
               chunks |-> <<[id |-> "fmt", size |-> 16, align |-> width],
                            [id |-> "data", size |-> samples * width, align |-> 0]>>])

\* Samples.  x is a fraction of 2 * Full; static_cast truncates.
Truncate(a, b) == IF a >= 0 THEN a \div b ELSE -((-a) \div b)
Clamped(x) == Max({-2 * Full, Min({2 * Full, x})})
EncodePcm16(x) == Truncate(Clamped(x) * (Full - 1), 2 * Full)
EncodeExact(x) ==
    IF x < -2 * Full \/ x > 2 * (Full - 1) \/ x % 2 # 0 THEN Bad ELSE Good(Truncate(x * Full, 2 * Full))
DecodePcm16(p) == 2 * p
\* A sample as two bytes, and back (read_u16_le and the sign).
ToBits(p) == p % (2 * Full)
\* FAULT: the lowest sample is read as a positive one.
FromBitsAbove(bits) == IF bits > Full THEN bits - 2 * Full ELSE bits
FromBits(bits) == IF bits >= Full THEN bits - 2 * Full ELSE bits

----------------------------------------
(* Safetensors.  A header lists tensors; "other" keys are skipped.         *)

CheckedMul(a, b) == IF a # 0 /\ b > MaxSize \div a THEN -1 ELSE a * b
\* The stride of each dimension, from the last, which fits an int64_t; the one
\* before the first dimension is the size of the tensor.
NextStride(stride, dim) == IF stride = -1 \/ stride > MaxSize \div 2 THEN -1 ELSE CheckedMul(stride, dim)
Bytes(shape) == Iterated(LAMBDA stride, k : NextStride(stride, shape[Len(shape) + 1 - k]), 4, Len(shape))
ParseTensor(t, section) ==
    /\ t.dtype = "F32" /\ t.start <= t.finish /\ t.finish <= section
    /\ Bytes(t.shape) # -1 /\ t.finish - t.start = Bytes(t.shape)
Earlier(a, b) == a.start < b.start \/ (a.start = b.start /\ a.finish <= b.finish)
\* FAULT: tensors may overlap.
FollowsLoosely(range, covered) == range.start <= covered
Follows(range, covered) == range.start = covered
Cover(covered, range) == IF covered # -1 /\ Follows(range, covered) THEN range.finish ELSE -1
\* std::sort.
Sorted(ranges) ==
    LET place == DOMAIN ranges
        order == CHOOSE p \in Bijection(place, place) : \A i, j \in place : i < j => Earlier(ranges[p[i]], ranges[p[j]])
    IN [i \in place |-> ranges[order[i]]]
CoveredTo(ranges) == Iterated(LAMBDA covered, k : Cover(covered, ranges[k]), 0, Len(ranges))
ParseHeader(tensors, section) ==
    IF (\E i, j \in DOMAIN tensors : i # j /\ tensors[i].name = tensors[j].name)
       \/ (\E i \in DOMAIN tensors : ~ParseTensor(tensors[i], section))
       \/ CoveredTo(Sorted(tensors)) # section
    THEN Bad ELSE Good(tensors)

----------------------------------------
(* Numbers and byte ranges.                                                *)

\* FAULT: the overflow is looked for after it happened.
OverflowsLate(parsed, digit) == (parsed * 10 + digit) % (MaxSize + 1) < 0
Overflows(parsed, digit) == parsed > (MaxSize - digit) \div 10
Digit(st, d) ==
    IF ~st.ok \/ d \notin 0..9 \/ Overflows(st.v, d) THEN Bad ELSE Good((st.v * 10 + d) % (MaxSize + 1))
ParseSize(digits) ==
    IF digits = <<>> THEN Bad ELSE Iterated(LAMBDA st, k : Digit(st, digits[k]), Good(0), Len(digits))

\* FAULT: the end of the range is not cut to the file.
LastAsGiven(last, size) == last
LastInFile(last, size) == Min({last, size - 1})
\* What send_audio_file sends of a file: 0 stands for a number left out.
AudioRange(r, size) ==
    CASE r.form = "none" -> Good([first |-> 0, last |-> size - 1])
      [] r.form = "bad" -> Bad
      [] r.form = "suffix" -> IF r.count = 0 THEN Bad ELSE Good([first |-> size - Min({size, r.count}), last |-> size - 1])
      [] r.form = "from" -> IF r.first >= size THEN Bad ELSE Good([first |-> r.first, last |-> size - 1])
      [] r.form = "both" -> IF r.first >= size \/ r.last < r.first THEN Bad
                            ELSE Good([first |-> r.first, last |-> LastInFile(r.last, size)])

----------------------------------------
(* Parameters of a header.  "t" is a token character, "x" one that is in   *)
(* no token.                                                               *)

ByteAt(s, i) == IF i \in DOMAIN s THEN s[i] ELSE "end"
\* skip_space, a byte at a time: comments nest, and a backslash hides a byte.
Skip(s, st, comments) ==
    LET byte == ByteAt(s, st.at)
    IN IF st.depth = 0
       THEN IF byte = "space" THEN [st EXCEPT !.at = @ + 1]
            ELSE IF byte = "(" /\ comments THEN [at |-> st.at + 1, depth |-> 1] ELSE st
       ELSE IF byte = "end" THEN st
       ELSE IF byte = "\\" THEN [st EXCEPT !.at = @ + 2]
       ELSE [at |-> st.at + 1, depth |-> IF byte = "(" THEN st.depth + 1 ELSE IF byte = ")" THEN st.depth - 1 ELSE st.depth]
\* The position behind white space and, where they count, comments; 0 if a
\* comment is not closed.
SkipSpace(s, i, comments) ==
    LET st == Iterated(LAMBDA st, k : Skip(s, st, comments), [at |-> i, depth |-> 0], Len(s) + 1)
    IN IF st.depth = 0 THEN st.at ELSE 0
TokenEnd(s, i) == First({j \in i..(Len(s) + 1) : ByteAt(s, j) \notin {"t", "name", "file"}})
\* FAULT: a backslash is an ordinary character.
EscapedNot(s, i) == FALSE
Escaped(s, i) == ByteAt(s, i) = "\\"
\* The text up to the closing quote.
Unquote(s, st) ==
    IF st.closed \/ ByteAt(s, st.at) = "end" THEN st
    ELSE IF ByteAt(s, st.at) = "quote" THEN [st EXCEPT !.at = @ + 1, !.closed = TRUE]
    ELSE IF ~Escaped(s, st.at) THEN [st EXCEPT !.at = @ + 1, !.text = Append(@, s[st.at])]
    ELSE IF ByteAt(s, st.at + 1) = "end" THEN [st EXCEPT !.at = @ + 1]
    ELSE [st EXCEPT !.at = @ + 2, !.text = Append(@, s[st.at + 1])]
Quoted(s, i) ==
    Iterated(LAMBDA st, k : Unquote(s, st), [at |-> i, text |-> <<>>, closed |-> FALSE], Len(s) + 1)

\* parse_disposition behind "form-data", where there may be comments, and
\* extract_boundary behind the media type, whose value is not empty: a list of
\* ; name = value.  The parameters that count occur once.
ReadParameter(s, st, comments) ==
    LET start == SkipSpace(s, st.at + 1, comments)
        nameEnd == TokenEnd(s, start)
        name == SubSeq(s, start, nameEnd - 1)
        equals == SkipSpace(s, nameEnd, comments)
        value == SkipSpace(s, equals + 1, comments)
        isQuoted == ByteAt(s, value) = "quote"
        quoted == Quoted(s, value + 1)
        tokenEnd == TokenEnd(s, value)
        text == IF isQuoted THEN quoted.text ELSE SubSeq(s, value, tokenEnd - 1)
        end == SkipSpace(s, IF isQuoted THEN quoted.at ELSE tokenEnd, comments)
        known == name = <<"name">> \/ (comments /\ name = <<"file">>)
        refusal == [ok |-> FALSE, at |-> st.at, found |-> st.found]
    IN IF ~st.ok \/ st.at = Len(s) + 1 THEN st
       ELSE IF ByteAt(s, st.at) # "semicolon" \/ start = 0 \/ name = <<>> \/ equals = 0 THEN refusal
       ELSE IF ByteAt(s, equals) # "=" \/ value = 0 THEN refusal
       ELSE IF (isQuoted /\ ~quoted.closed) \/ (~isQuoted /\ tokenEnd = value) \/ (~comments /\ known /\ text = <<>>) THEN refusal
       ELSE IF end = 0 \/ ByteAt(s, end) \notin {"semicolon", "end"} \/ (known /\ \E p \in st.found : p.name = name) THEN refusal
       ELSE [ok |-> TRUE, at |-> end, found |-> IF known THEN st.found \cup {[name |-> name, text |-> text]} ELSE st.found]
Parameters(s, i, comments) ==
    LET st == Iterated(LAMBDA st, k : ReadParameter(s, st, comments), [ok |-> TRUE, at |-> i, found |-> {}], Len(s) + 1)
    IN IF st.ok /\ (\E p \in st.found : p.name = <<"name">>) THEN Good(st.found) ELSE Bad

\* What a client writes: the value in quotes.
EscapedByte(c) == IF c \in {"quote", "\\"} THEN <<"\\", c>> ELSE <<c>>
QuotedBytes(text, n) == Iterated(LAMBDA out, k : out \o EscapedByte(text[k]), <<>>, n)
Quote(text) == <<"quote">> \o QuotedBytes(text, Len(text)) \o <<"quote">>

----------------------------------------
(* Multipart bodies.  "B" is the delimiter --boundary, "-" two dashes, "n" *)
(* a line end, "f" and "u" the headers of a field and of an upload, "g" a  *)
(* header of another kind, "c" the continuation of one.                    *)

Is(s, i, what) == i + Len(what) - 1 <= Len(s) /\ SubSeq(s, i, i + Len(what) - 1) = what
Seek(s, what, i) == First({j \in i..Len(s) : Is(s, j, what)})

\* parse_part_headers: one disposition, and no continuation before a header.
Dispositions(s) == {i \in DOMAIN s : s[i] \in {"f", "u"}}
PartKind(s) ==
    IF Len(s) % 2 = 0 \/ (\E i \in DOMAIN s : (i % 2 = 0) # (s[i] = "n")) \/ s[1] = "c"
       \/ (\E i \in DOMAIN s : s[i] \in {"x", "-", "B"}) \/ ~(\E i \in DOMAIN s : Dispositions(s) = {i})
    THEN "bad" ELSE IF \E i \in DOMAIN s : s[i] = "f" THEN "f" ELSE "u"

\* FAULT: anything that starts like the delimiter ends the part.
EndsPartEarly(s, suffix) == TRUE
\* A whole delimiter line ends the part; what only begins like one is content.
EndsPart(s, suffix) ==
    \/ Is(s, suffix, <<"n">>)
    \/ Is(s, suffix, <<"-">>) /\ (suffix + 1 = Len(s) + 1 \/ Is(s, suffix + 1, <<"n">>))
\* The code goes on behind a marker that does not: two markers never overlap.
NextMarker(s, i) == First({j \in i..Len(s) : Is(s, j, <<"n", "B">>) /\ EndsPart(s, j + 2)})

ReadPart(s, st) ==
    LET after == st.at + 1
        header == Seek(s, <<"n", "n">>, after + 1)
        kind == PartKind(SubSeq(s, after + 1, header - 1))
        marker == NextMarker(s, header + 2)
        size == marker - header - 2
        closing == Is(s, after, <<"-">>)
        part == [header |-> SubSeq(s, after + 1, header - 1), data |-> SubSeq(s, header + 2, marker - 1)]
    IN IF st.over THEN st
       ELSE IF closing THEN [st EXCEPT !.over = TRUE, !.ok = after = Len(s) \/ (after + 1 = Len(s) /\ s[Len(s)] = "n")]
       ELSE IF ~Is(s, after, <<"n">>) \/ header = 0 THEN [st EXCEPT !.over = TRUE]
       ELSE IF marker = 0 \/ Len(st.parts) >= MaxParts \/ kind = "bad" THEN [st EXCEPT !.over = TRUE]
       ELSE IF size > (IF kind = "f" THEN MaxField ELSE MaxFile) THEN [st EXCEPT !.over = TRUE]
       ELSE [st EXCEPT !.at = marker + 1, !.parts = Append(@, part)]
ParseMultipart(s) ==
    LET st == Iterated(LAMBDA st, k : ReadPart(s, st), [at |-> 1, parts |-> <<>>, over |-> ~Is(s, 1, <<"B">>), ok |-> FALSE], Len(s))
    IN IF st.ok THEN Good(st.parts) ELSE Bad

\* What a client writes.
WrittenPart(p) == <<"B", "n">> \o p.header \o <<"n", "n">> \o p.data \o <<"n">>
WrittenParts(parts, n) == Iterated(LAMBDA out, k : out \o WrittenPart(parts[k]), <<>>, n)
WriteMultipart(parts) == WrittenParts(parts, Len(parts)) \o <<"B", "-">>

----------------------------------------
Result(c) ==
    CASE c.kind = "wav" -> ParseWav(c)
      [] c.kind = "pcm" -> FromBits(ToBits(EncodePcm16(c.x)))
      [] c.kind = "exact" -> LET p == EncodeExact(DecodePcm16(c.p)) IN IF p.ok THEN FromBits(ToBits(p.v)) ELSE Full
      [] c.kind = "output" -> WriteWav(c.samples, c.width)
      [] c.kind = "tensors" -> ParseHeader(c.tensors, c.section)
      [] c.kind = "number" -> ParseSize(c.digits)
      [] c.kind = "range" -> AudioRange(c, c.size)
      [] c.kind = "quoted" -> Parameters(<<"semicolon", "name", "=">> \o c.note \o Quote(c.text) \o c.rest, 1, c.comments)
      [] c.kind = "body" -> ParseMultipart(c.body)
      [] c.kind = "upload" -> ParseMultipart(WriteMultipart(c.parts))

----------------------------------------
(* The inputs.                                                             *)

\* Comments, one after the other: they nest, and a backslash hides a byte.
Nest(st, byte) ==
    IF st.hidden THEN [st EXCEPT !.hidden = FALSE]
    ELSE IF byte = "(" THEN [st EXCEPT !.depth = @ + 1]
    ELSE IF st.depth = 0 THEN st
    ELSE IF byte = ")" THEN [st EXCEPT !.depth = @ - 1]
    ELSE [st EXCEPT !.hidden = (byte = "\\")]
Nesting(note, n) == Iterated(LAMBDA st, k : Nest(st, note[k]), [depth |-> 0, hidden |-> FALSE], n)
AreComments(note) ==
    /\ Nesting(note, Len(note)) = [depth |-> 0, hidden |-> FALSE]
    /\ \A k \in DOMAIN note : Nesting(note, k - 1).depth = 0 => note[k] = "("
\* A client picks a boundary such that no line of a file is a delimiter, with
\* two dashes behind it or without.
Delimits(s, e) == Is(s, e, <<"n">>) \/ (Is(s, e, <<"-">>) /\ (e = Len(s) \/ Is(s, e + 1, <<"n">>)))
Bounded(data) ==
    LET s == data \o <<"n", "B">>
    IN \A j \in DOMAIN data : Is(s, j, <<"n", "B">>) => ~Delimits(s, j + 2)

Text == {"space", "t", "name", "file", "quote", "\\", "semicolon", "=", "(", ")", "x"}
Bodies == {"B", "n", "-", "f", "u", "g", "c", "x"}
\* A number may have a byte that is no digit, 10; a file that is sent has at
\* least one byte (the service refuses an empty one before).
CaseFits(c) ==
    /\ c.kind \in {"wav", "pcm", "exact", "output", "tensors", "number", "range", "quoted", "body", "upload"}
    /\ c.kind = "wav" =>
         {c.size, c.riff} \subseteq Nat /\ c.chunks \in Seq([id : {"fmt", "data", "junk"}, size : Nat, align : Nat])
    /\ c.kind = "pcm" => c.x \in Int
    /\ c.kind = "exact" => c.p \in (-Full)..(Full - 1)
    /\ c.kind = "output" => c.samples \in Nat /\ c.width \in {2, 4}
    /\ c.kind = "tensors" =>
         /\ c.section \in Nat
         /\ c.tensors \in Seq([name : STRING, dtype : STRING, start : Nat, finish : Nat, shape : Seq(Nat)])
    /\ c.kind = "number" => c.digits \in Seq(0..10)
    /\ c.kind = "range" =>
         /\ c.form \in {"none", "bad", "suffix", "from", "both"}
         /\ {c.first, c.last, c.count} \subseteq Nat /\ c.size \in Nat \ {0}
    /\ c.kind = "quoted" =>
         /\ {c.text, c.note, c.rest} \subseteq Seq(Text) /\ c.comments \in BOOLEAN
         /\ AreComments(c.note) /\ (c.rest # <<>> => c.rest[1] \notin {"space", "(", "semicolon"})
    /\ c.kind = "body" => c.body \in Seq(Bodies)
    /\ c.kind = "upload" =>
         /\ c.parts \in Seq([header : Seq(Bodies), data : Seq(Bodies)])
         /\ \A i \in DOMAIN c.parts : PartKind(c.parts[i].header) # "bad" /\ Bounded(c.parts[i].data)
ASSUME CasesAssumption == \A c \in Cases : CaseFits(c)

FInit == input \in Cases /\ output = [read |-> FALSE]
Parse == ~output.read /\ output' = [read |-> TRUE, got |-> Result(input)] /\ UNCHANGED input
FormatsSpec == FInit /\ [][Parse]_fvars

----------------------------------------
(* What the parsers promise.                                               *)

Parsed(kind) == output.read /\ input.kind = kind

Chunks(f, id) == {i \in DOMAIN f.chunks : f.chunks[i].id = id}
\* Where the chunk behind the first n begins.
Behind(chunks, n) == Iterated(LAMBDA at, k : at + 8 + 2 * ((chunks[k].size + 1) \div 2), 12, n)
WellFormed(f, format, data) ==
    /\ Chunks(f, "fmt") = {format} /\ f.chunks[format].size >= 16 /\ f.chunks[format].align > 0
    /\ Chunks(f, "data") = {data} /\ f.chunks[data].size % f.chunks[format].align = 0
    /\ f.size = 8 + f.riff /\ f.size = Behind(f.chunks, Len(f.chunks))

\* A WAV that is accepted has one format and whole frames inside the file, those
\* of its data chunk; every well-formed one is accepted, wherever its chunks
\* are and however odd (WavChunkReader::open, read_wav); and every file a writer
\* can describe in 32 bits is read back as it was written.
WavIsRead ==
    /\ Parsed("wav") =>
        /\ output.got.ok =>
             /\ output.got.v.offset + output.got.v.bytes <= input.size
             /\ \E format \in Chunks(input, "fmt"), data \in Chunks(input, "data") :
                  /\ output.got.v.offset = Behind(input.chunks, data - 1) + 8
                  /\ output.got.v.bytes = input.chunks[data].size
                  /\ output.got.v.frames * input.chunks[format].align = output.got.v.bytes
        /\ \A format, data \in DOMAIN input.chunks : WellFormed(input, format, data) => output.got.ok
    /\ Parsed("output") /\ output.got.ok =>
        /\ output.got.v.riff <= Max32
        /\ ParseWav(output.got.v) = Good([offset |-> 44, bytes |-> input.samples * input.width, frames |-> input.samples])

\* A sample that was read as PCM16 is written back bit for bit by
\* append_decoded_pcm16, the lowest one included; and no sample of any size
\* changes its sign or wraps when it is written.
SamplesSurvive ==
    /\ Parsed("exact") => output.got = input.p
    /\ Parsed("pcm") => /\ output.got \in -(Full - 1)..(Full - 1)
                        /\ (input.x >= 0 => output.got >= 0) /\ (input.x <= 0 => output.got <= 0)

Size(shape) == Iterated(LAMBDA n, k : n * shape[Len(shape) + 1 - k], 4, Len(shape))

\* Every byte of the data belongs to exactly one tensor of an accepted header,
\* whatever its order, and each tensor is as long as its shape says; no product
\* of dimensions wraps (parse_header, parse_tensor).
TensorsPartition ==
    Parsed("tensors") /\ output.got.ok =>
        /\ \A b \in 0..(input.section - 1) :
             Cardinality({i \in DOMAIN input.tensors : input.tensors[i].start <= b /\ b < input.tensors[i].finish}) = 1
        /\ \A i \in DOMAIN input.tensors :
             input.tensors[i].finish - input.tensors[i].start
                = Size(input.tensors[i].shape)

ValueOf(digits, n) == Iterated(LAMBDA v, k : v * 10 + digits[k], 0, n)

\* A length is its value or refused, at the limit of its type; a range is part
\* of the file and starts where it was asked to.
NumbersAreExact ==
    /\ Parsed("number") =>
        LET value == ValueOf(input.digits, Len(input.digits))
        IN output.got = (IF input.digits = <<>> \/ (\E k \in DOMAIN input.digits : input.digits[k] = 10) \/ value > MaxSize
                         THEN Bad ELSE Good(value))
    /\ Parsed("range") /\ output.got.ok =>
        /\ 0 <= output.got.v.first /\ output.got.v.first <= output.got.v.last /\ output.got.v.last < input.size
        /\ input.form \in {"from", "both"} => output.got.v.first = input.first

\* Whatever name a client quotes is read as that name, and nothing in it is
\* taken for a parameter, nor anything in a comment before it (parse_disposition,
\* which knows comments, and extract_boundary, which refuses them and an empty
\* name).
ParametersAreQuoted ==
    Parsed("quoted") =>
        output.got = (IF input.rest # <<>> \/ (~input.comments /\ (input.note # <<>> \/ input.text = <<>>)) THEN Bad
                      ELSE Good({[name |-> <<"name">>, text |-> input.text]}))

\* The files of an upload arrive byte for byte, those that contain the
\* beginning of a delimiter included; and a body that is accepted is the
\* encoding of its parts and nothing else (parse_multipart).
UploadIsExact ==
    /\ Parsed("upload") =>
        output.got = (IF Len(input.parts) > MaxParts
                         \/ \E i \in DOMAIN input.parts : Len(input.parts[i].data)
                                > (IF "f" \in ToSet(input.parts[i].header) THEN MaxField ELSE MaxFile)
                      THEN Bad ELSE Good(input.parts))
    /\ Parsed("body") /\ output.got.ok =>
        input.body \in {WriteMultipart(output.got.v), Append(WriteMultipart(output.got.v), "n")}

\* Whatever is read from outside is what was written there or is refused, up to
\* the last representable size.
InputIsExact ==
    /\ WavIsRead /\ SamplesSurvive /\ TensorsPartition
    /\ NumbersAreExact /\ ParametersAreQuoted /\ UploadIsExact
=============================================================================
