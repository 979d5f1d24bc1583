---------------------------- MODULE FilterGraph ----------------------------
(***************************************************************************)
(* video/compile.py: the filter graph of a reel and the inputs and maps of *)
(* the ffmpeg command around it.  A clip is a record of its duration, a    *)
(* multiple of some unit of time, and whether it gets a date label.  A     *)
(* filter is a record of the labels it reads, the label it writes and how  *)
(* it is called; a label is a pair of an input's index and a stage.        *)
(* Indices start at 0, as ffmpeg's do.  Ratios are pairs <<numerator,      *)
(* denominator>>.                                                          *)
(***************************************************************************)
EXTENDS Naturals, SequencesExt

CONSTANT Precision     \* 10^6: a speed is written `:.6f`, and compared to 1e-6

ASSUME PrecisionAssumption == Precision \in Nat \ {0}

\* p / q as it is written, in Precision-ths: the nearest, and the upper one of
\* two as near.
Written(p, q) == (2 * p * Precision + q) \div (2 * q)

\* How far two numbers are apart, in Precision-ths.
Apart(a, b) == Precision * (IF a > b THEN a - b ELSE b - a)

Filter(ins, op, out) == [ins |-> ins, op |-> op, out |-> out]

Label(i, stage) == <<i, stage>>
OutV == Label(0, "outv")

\* duration / (target / n), and whether it is more than 1.0 + 1e-6.
Speed(clips, target, i) == <<clips[i].duration * Len(clips), target>>
TooFast_Slip(s) == s[1] # s[2]          \* also slows short clips down
TooFast(s)      == s[1] * Precision > s[2] * (Precision + 1)

\* The filters of clip i, in the order they are appended.
Scale(i) == <<Filter(<<Label(i - 1, "v")>>, "scale", Label(i - 1, "n"))>>
SpeedUp(clips, target, i) ==
    IF TooFast(Speed(clips, target, i))
    THEN <<Filter(<<Label(i - 1, "n")>>, "setpts", Label(i - 1, "s"))>>
    ELSE <<>>

\* The label the next filter of clip i has to read.
AfterSpeed(clips, target, i) ==
    IF TooFast(Speed(clips, target, i)) THEN Label(i - 1, "s") ELSE Label(i - 1, "n")
DrawText_Slip(clips, target, i) ==      \* v_label is not updated by the speedup
    IF clips[i].dated
    THEN <<Filter(<<Label(i - 1, "n")>>, "drawtext", Label(i - 1, "t"))>>
    ELSE <<>>

DrawText(clips, target, i) ==
    IF clips[i].dated
    THEN <<Filter(<<AfterSpeed(clips, target, i)>>, "drawtext", Label(i - 1, "t"))>>
    ELSE <<>>

ConcatInput(clips, target, i) ==
    IF clips[i].dated THEN Label(i - 1, "t") ELSE AfterSpeed(clips, target, i)

\* build_filter_complex, of at least one clip and a positive target.
BuildFilterComplex(clips, target) ==
    LET OfClip(i) == Scale(i) \o SpeedUp(clips, target, i) \o DrawText(clips, target, i)
        Concat    == Filter([i \in 1..Len(clips) |-> ConcatInput(clips, target, i)],
                            "concat", OutV)
    IN  Append(FlattenSeq([i \in 1..Len(clips) |-> OfClip(i)]), Concat)

\* build_ffmpeg_args: one input per clip, then the endless silence, and what
\* is mapped into the file.  -shortest ends the file with the video.
Inputs(clips)      == [i \in 1..Len(clips) |-> "clip"] \o <<"silence">>
SilentInput(clips) == Len(clips)
Maps(clips)        == <<OutV, Label(SilentInput(clips), "a")>>

\* How long clip i is in the reel: setpts=PTS/1.250000 divides its times by the
\* speed that is written, not by the one it was written for.
InReel(clips, target, i) ==
    LET s == Speed(clips, target, i)
    IN  IF TooFast(s) THEN <<clips[i].duration * Precision, Written(s[1], s[2])>>
                      ELSE <<clips[i].duration, 1>>

-----------------------------------------------------------------------------
(* atempo_chain: factors ffmpeg accepts whose product is close to the speed. *)

Pow2[k \in Nat] == IF k = 0 THEN 1 ELSE 2 * Pow2[k - 1]

\* How often speed is halved until it is at most 2, or doubled until it is at
\* least 1/2.
Halvings(p, q)  == CHOOSE k \in 0..p : p <= 2 * q * Pow2[k] /\ (k = 0 \/ p > q * Pow2[k])
Doublings(p, q) == CHOOSE k \in 0..q : p * 2 * Pow2[k] >= q /\ (k = 0 \/ p * Pow2[k] < q)

Times(k, factor) == [j \in 1..k |-> factor]

AtempoChain_Slip(p, q) ==               \* `while remaining >= 4.0`
    IF p = q THEN <<>> ELSE
    LET k == IF p >= 4 * q THEN Halvings(p, q) ELSE 0
    IN  Append(Times(k, <<2, 1>>), <<Written(p, q * Pow2[k]), Precision>>)

\* For speed = p / q.  The chain is empty within the tolerance of 1, and the
\* last factor is left out within it.  2.000000 and 0.500000 are exact.
AtempoChain(p, q) ==
    LET k == Halvings(p, q)
        d == Doublings(p, q)
        Factor(a, b) == <<<<Written(a, b), Precision>>>>
        Rest(a, b)   == IF Apart(a, b) > b THEN Factor(a, b) ELSE <<>>
    IN  IF p > 2 * q THEN Times(k, <<2, 1>>) \o Rest(p, q * Pow2[k])
        ELSE IF 2 * p < q THEN Times(d, <<1, 2>>) \o Rest(p * Pow2[d], q)
        ELSE IF Apart(p, q) < q THEN <<>>
        ELSE Factor(p, q)
=============================================================================
