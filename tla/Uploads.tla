------------------------------- MODULE Uploads ------------------------------
(***************************************************************************)
(* collect_uploads and normalize_uploads (tools/web/workflow_support.cpp): *)
(* a batch of recordings becomes WAV files in a staging directory.  A WAV  *)
(* file is kept as it is; anything else goes through a decoder, a child    *)
(* with a limit on what it may write, one batch at a time.  One action is  *)
(* one file.  A decoder that reaches its limit (-fs) stops as if it were   *)
(* done, at the limit or a packet later; one that fails may leave a file   *)
(* of any size; a damaged recording leaves a broken header.                *)
(*                                                                         *)
(* Abstracted: sizes are units with a header of one, a recording is its    *)
(* name, its format and its decoded size.  Which status a failed child     *)
(* ended with, and the lists of formats, are left out.                     *)
(* Operators marked FAULT are wrong on purpose: no action uses them, and   *)
(* the project's mutants put them in place of the operator they precede.   *)
(***************************************************************************)
EXTENDS Integers, Sequences, FiniteSets, SequencesExt

CONSTANTS
    Stems,        \* names without their extension
    Sizes,        \* decoded sizes of recordings
    MonoLimit,    \* file_limit of a mono upload
    StereoLimit,  \* kMaxStereoUploadBytes
    StereoFrames, \* kMaxStereoUploadFrames
    BatchLimit,   \* batch_limit
    Packet        \* by how much a decoder may overshoot its limit

ASSUME UploadsAssumption ==
    Sizes \subseteq Nat /\ {MonoLimit, StereoLimit, StereoFrames, BatchLimit, Packet} \subseteq Nat

\* A WAV file is not looked into.
Recordings ==
    {r \in [stem : Stems, compressed : BOOLEAN, size : Sizes, sound : BOOLEAN] : r.compressed \/ r.sound}
Batches == UNION {[1..n -> Recordings] : n \in 0..2}

VARIABLES
    batch,    \* the recordings of the request
    stereo,   \* preserve_stereo
    working,  \* whether a copy goes to the work directory
    desk      \* the handler: next file, decoded_bytes, the directories, the answer

uploadVars == <<batch, stereo, working, desk>>

UploadsInit ==
    /\ batch \in Batches /\ stereo \in BOOLEAN /\ working \in BOOLEAN
    /\ desk = [pc |-> "collect", next |-> 1, decoded |-> 0,
               raw |-> [s \in Stems |-> {}], work |-> [s \in Stems |-> {}]]

Reply(status) == desk' = [desk EXCEPT !.pc = status]
FileLimit == IF stereo THEN StereoLimit ELSE MonoLimit
\* A file: whose recording it is, how long it is, and whether it has a whole header.
Wav(i, size, whole) == [of |-> batch[i], size |-> size, whole |-> whole]

\* FAULT: names are compared before the extension is replaced.
NameAsSent(i) == <<batch[i].stem, batch[i].compressed>>
\* The name a file is stored under: its extension becomes .wav.
StoredName(i) == batch[i].stem
Collect ==
    /\ desk.pc = "collect"
    /\ IF batch = <<>> \/ Cardinality({StoredName(i) : i \in DOMAIN batch}) < Len(batch) THEN Reply("400")
       ELSE \/ Reply("files")
            \* The decoder is busy, or one of its programs is missing.
            \/ (\E i \in DOMAIN batch : batch[i].compressed) /\ \E status \in {"409", "503"} : Reply(status)

\* The directories after file i was written and, if there is a work set, copied.
Written(i, wav, bytes) ==
    desk' = [desk EXCEPT !.raw[batch[i].stem] = {wav}, !.next = i + 1, !.decoded = @ + bytes,
                         !.work[batch[i].stem] = IF working THEN {wav} ELSE @,
                         !.pc = IF i = Len(batch) THEN "200" ELSE "files"]
\* A file or its copy could not be written.
WriteFails(i, wav) ==
    \E there \in {{}, {wav}} : desk' = [desk EXCEPT !.raw[batch[i].stem] = there, !.pc = "500"]

\* write_uploads.
Store ==
    /\ desk.pc = "files" /\ ~batch[desk.next].compressed
    /\ LET wav == Wav(desk.next, batch[desk.next].size, TRUE)
       IN Written(desk.next, wav, 0) \/ WriteFails(desk.next, wav)

\* FAULT: the decoder stops at the size that is still accepted.
DecoderLimitAt == FileLimit
\* -fs: one more than what is accepted.
DecoderLimit == FileLimit + 1
\* What a decoder may leave when it ends with success: all of the recording, or
\* as much as its limit let through.
Decodings(i) ==
    IF batch[i].size <= DecoderLimit THEN {Wav(i, batch[i].size, batch[i].sound)}
    ELSE {Wav(i, size, batch[i].sound) : size \in DecoderLimit..(DecoderLimit + Packet)}
\* decoded_wav_frames.
HasFrames(wav) == wav.whole /\ wav.size > 1
Frames(wav) == wav.size - 1

\* FAULT: each file is compared with the batch limit alone.
BatchRoomEach == BatchLimit
BatchRoom == BatchLimit - desk.decoded

\* FAULT: the header of what a decoder leaves is not read.
RefusalTrusting(wav, success) ==
    IF wav.size > FileLimit \/ wav.size > BatchRoom THEN "413"
    ELSE IF ~success THEN "400"
    ELSE "none"
\* The first test that fails decides, in the order of the code.
Refusal(wav, success) ==
    CASE wav.size > FileLimit \/ wav.size > BatchRoom -> "413"
      [] ~success -> "400"
      [] ~HasFrames(wav) -> "400"
      [] stereo /\ Frames(wav) > StereoFrames -> "413"
      [] OTHER -> "none"

\* What the decoder has left stays in the directory, whatever becomes of it.
Left(wav, status) == desk' = [desk EXCEPT !.raw[batch[desk.next].stem] = {wav}, !.pc = status]
Judged(wav, success) ==
    IF Refusal(wav, success) # "none" THEN Left(wav, Refusal(wav, success))
    ELSE Written(desk.next, wav, wav.size) \/ (working /\ Left(wav, "500"))
Decode ==
    /\ desk.pc = "files" /\ batch[desk.next].compressed
    /\ \/ \E wav \in Decodings(desk.next) : Judged(wav, TRUE)
       \/ \E size \in 0..batch[desk.next].size : Judged(Wav(desk.next, size, FALSE), FALSE)
       \/ Reply("503") \/ Reply("500")

UploadsNext == (Collect \/ Store \/ Decode) /\ UNCHANGED <<batch, stereo, working>>

----------------------------------------
(* Properties.                                                             *)

\* A batch that is accepted has become one file per recording, each with the
\* whole of it: none has replaced another or was cut off by the decoder's own
\* limit, and what was decoded is within the limits of a file and of a batch.
UploadsAreWhole ==
    desk.pc = "200" =>
        /\ \A i \in DOMAIN batch :
             /\ desk.raw[batch[i].stem] = {Wav(i, batch[i].size, TRUE)}
             /\ working => desk.work[batch[i].stem] = desk.raw[batch[i].stem]
             /\ batch[i].compressed =>
                  batch[i].sound /\ batch[i].size <= FileLimit /\ (stereo => batch[i].size - 1 <= StereoFrames)
        /\ FoldLeft(LAMBDA sum, r : sum + IF r.compressed THEN r.size ELSE 0, 0, batch) <= BatchLimit
=============================================================================
