------------------------------- MODULE Names -------------------------------
(***************************************************************************)
(* How a caption becomes hashtags, hashtags a storage key, and the name of *)
(* the stored file hashtags again: parse_hashtags, build_storage_key and   *)
(* parse_video_filename.  Characters are members of a small alphabet that  *)
(* has one of each kind the code tells apart; a text is a sequence of      *)
(* them.  "A" is a capital with one small letter, "a"; "D" is the dotted   *)
(* capital I, whose small form is two characters, "a" for the i and "^"    *)
(* for the combining dot, which \w does not match; "S" is the capital      *)
(* sigma, which is "z" at the end of a word and "s" elsewhere.  A UUID has *)
(* the one shape "h-h", h for any run of hex digits.                       *)
(***************************************************************************)
EXTENDS Sorting, SequencesExt

Small      == {"a", "h", "s", "z"}
Capitals   == {"A", "D", "S"}
Cased      == (Small \cup Capitals) \ {"h"}             \* digits are not
Word       == Small \cup Capitals \cup {"_"}            \* \w
Characters == Word \cup {"#", "-", ".", "^"}

HashtagChar_Slip(c) == c \in Word \cup {"-", "."}
HashtagChar(c)      == c \in Word \cup {"-"}

\* What lower() and replace("-", "_") make of the k-th character of a run, a
\* text; a sigma is final after a cased letter when none follows it.
FinalSigma(run, k) ==
    /\ k > 1 /\ run[k - 1] \in Cased
    /\ k = Len(run) \/ run[k + 1] \notin Cased
Canonical_Slip(run, k) ==                                \* no lower()
    IF run[k] = "-" THEN <<"_">> ELSE <<run[k]>>

Canonical(run, k) ==
    CASE run[k] = "A" -> <<"a">>
      [] run[k] = "D" -> <<"a", "^">>
      [] run[k] = "S" -> IF FinalSigma(run, k) THEN <<"z">> ELSE <<"s">>
      [] run[k] = "-" -> <<"_">>
      [] OTHER        -> <<run[k]>>

\* finditer of #([\w-]+): from each "#" that has one, the longest run.
TagStarts(caption) ==
    {i \in 1..(Len(caption) - 1) : caption[i] = "#" /\ HashtagChar(caption[i + 1])}
TagEnd(caption, i) ==
    CHOOSE j \in (i + 1)..Len(caption) :
        /\ \A k \in (i + 1)..j : HashtagChar(caption[k])
        /\ j = Len(caption) \/ ~HashtagChar(caption[j + 1])
Lowered(run)      == FlattenSeq([k \in 1..Len(run) |-> Canonical(run, k)])
TagAt(caption, i) == Lowered(SubSeq(caption, i + 1, TagEnd(caption, i)))

\* In order of first appearance, each name once.
ParseHashtags(caption) ==
    LET first == {i \in TagStarts(caption) :
                    \A j \in TagStarts(caption) :
                        j < i => TagAt(caption, j) # TagAt(caption, i)}
        order == Order(first)
    IN  [n \in 1..Cardinality(first) |-> TagAt(caption, order[n])]

\* sorted(): by code point, a prefix before what it is a prefix of.
CodePoint(c) == CASE c = "A" -> 65  [] c = "D" -> 304 [] c = "S" -> 931 [] c = "_" -> 95
                  [] c = "a" -> 97  [] c = "h" -> 104 [] c = "s" -> 963 [] c = "z" -> 962
                  [] c = "-" -> 45  [] c = "." -> 46  [] c = "#" -> 35  [] c = "^" -> 775
Less(s, t) ==
    \E i \in 1..(Len(s) + 1) :
        /\ i <= Len(t)
        /\ SubSeq(s, 1, i - 1) = SubSeq(t, 1, i - 1)
        /\ i = Len(s) + 1 \/ CodePoint(s[i]) < CodePoint(t[i])

InOrder(S) == CHOOSE f \in [1..Cardinality(S) -> S] :
                  \A i, j \in 1..Cardinality(S) : i < j => Less(f[i], f[j])

SortedTags_Slip(tags) == tags                            \* no sorted(set())
SortedTags(tags)      == InOrder(ToSet(tags))

Uuid == <<"h", "-", "h">>

\* The file name of build_storage_key, before ".mp4"; the directory is the
\* user.  It raises, and is not called, when there is no hashtag.
BuildStem(tags) ==
    FlattenSeq([n \in 1..Len(SortedTags(tags)) |-> Append(SortedTags(tags)[n], ".")])
        \o Uuid

NoName == [tags |-> <<>>, uuid |-> <<>>]

\* split("."): the parts between the dots.
Parts(stem) ==
    LET dots == {0, Len(stem) + 1} \cup {i \in 1..Len(stem) : stem[i] = "."}
        cut  == Order(dots)
    IN  [n \in 1..(Cardinality(dots) - 1) |-> SubSeq(stem, cut[n] + 1, cut[n + 1] - 1)]

\* parse_video_filename, of a name that ends in ".mp4".
ParseStem(stem) ==
    LET parts == Parts(stem)
        last  == Len(parts)
    IN  IF last >= 2 /\ parts[last] = Uuid /\ \A n \in 1..(last - 1) : parts[n] # <<>>
        THEN [tags |-> Front(parts), uuid |-> parts[last]]
        ELSE NoName
=============================================================================
