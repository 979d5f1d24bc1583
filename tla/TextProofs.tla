----------------------------- MODULE TextProofs -----------------------------
(***************************************************************************)
(* The text side of MCPure, for texts of any length: both fetchers name    *)
(* the same file for a path of getFile; the hashtags of a caption do not   *)
(* depend on capitals and dashes; and the name of a stored file does not   *)
(* depend on their order and gives them back.                              *)
(***************************************************************************)
EXTENDS VideoProofs

-----------------------------------------------------------------------------
(***************************************************************************)
(* What pathlib makes of a path.                                           *)
(***************************************************************************)

\* kept[i] is what pathlib keeps of the first i segments.
Silent == {"", "."}

Kept(segments, kept, A) ==
    /\ kept \in [0..Len(segments) -> Seq(A)]
    /\ kept[0] = <<>>
    /\ \A i \in 1..Len(segments) :
          kept[i] = IF segments[i] \in Silent THEN kept[i - 1]
                    ELSE Append(kept[i - 1], segments[i])

\* Pure is the last of them.
LEMMA PureKept ==
    ASSUME NEW A, NEW segments \in Seq(A)
    PROVE  \E kept : Kept(segments, kept, A) /\ Pure(segments) = kept[Len(segments)]
<1> DEFINE n == Len(segments)
           S == Seq(A)
           next(x, i) == IF segments[i] \in Silent THEN x ELSE Append(x, segments[i])
           step == [xi \in S \X (1..n) |-> next(xi[1], xi[2])]
           body(f) == [i \in 0..n |->
                          IF i = 0 THEN <<>>
                          ELSE IF segments[i] \in Silent THEN f[i - 1]
                          ELSE Append(f[i - 1], segments[i])]
           kept == CHOOSE g : g = body(g)
<1>1. n \in Nat /\ \A i \in 1..n : segments[i] \in A
  OBVIOUS
<1>2. \A x \in S, i \in 1..n : next(x, i) \in S
  <2> SUFFICES ASSUME NEW x \in S, NEW i \in 1..n PROVE next(x, i) \in S
    OBVIOUS
  <2>1. segments[i] \in A
    BY <1>1
  <2>2. Append(x, segments[i]) \in S
    BY <2>1
  <2> QED BY <2>2
<1>3. Pure(segments) = kept[n]
  BY DEF Pure, Silent
<1>4. \A f : body(f) = [i \in 0..n |-> IF i = 0 THEN <<>> ELSE next(f[i - 1], i)]
  OBVIOUS
<1> HIDE DEF n, S, next, body, kept
<1>5. step \in [S \X (1..n) -> S]
  BY <1>2
<1>6. \A x \in S, i \in 1..n : step[<<x, i>>] = next(x, i)
  OBVIOUS
<1> HIDE DEF step
<1>7. PICK f \in [0..n -> S] : f[0] = <<>> /\ \A i \in 1..n : f[i] = step[<<f[i - 1], i>>]
  <2>1. <<>> \in S
    BY DEF S
  <2> DEFINE c == <<>>
  <2> HIDE DEF c
  <2>2. c \in S
    BY <2>1 DEF c
  <2>3. \E f : Built(f, S, c, step, n)
    BY <1>1, <1>5, <2>2, RecursionUpTo
  <2> QED BY <2>3 DEF c, Built
<1>8. ASSUME NEW i \in 1..n PROVE f[i] = next(f[i - 1], i)
  <2>1. i - 1 \in 0..n
    BY <1>1
  <2> QED BY <2>1, <1>6, <1>7
<1>9. f = body(f)
  <2>1. f = [i \in 0..n |-> IF i = 0 THEN <<>> ELSE next(f[i - 1], i)]
    BY <1>1, <1>7, <1>8
  <2> QED BY <2>1, <1>4
<1>10. kept = body(kept)
  BY <1>9 DEF kept
<1>11. \A i \in 0..n : kept[i] = IF i = 0 THEN <<>> ELSE next(kept[i - 1], i)
  <2>1. kept = [i \in 0..n |-> IF i = 0 THEN <<>> ELSE next(kept[i - 1], i)]
    BY <1>4, <1>10
  <2> HIDE DEF kept
  <2> QED BY <2>1
<1>12. kept = [i \in 0..n |-> kept[i]]
  BY <1>4, <1>10
<1>13. \A i \in Nat : i \in {j \in Nat : j <= n => kept[j] \in S}
  <2> DEFINE G == {j \in Nat : j <= n => kept[j] \in S}
  <2>1. 0 \in G
    <3>1. kept[0] = <<>> /\ <<>> \in Seq(A)
      BY <1>1, <1>11
    <3> QED BY <3>1 DEF S
  <2>2. ASSUME NEW i \in Nat, i \in G PROVE i + 1 \in G
    <3> SUFFICES ASSUME i + 1 <= n PROVE kept[i + 1] \in S
      OBVIOUS
    <3>1. i + 1 \in 1..n /\ i + 1 \in 0..n /\ (i + 1) - 1 = i /\ kept[i] \in S
      BY <1>1, <2>2
    <3> QED BY <3>1, <1>2, <1>11
  <2> HIDE DEF G
  <2>3. \A i \in Nat : i \in G
    BY <2>1, <2>2, Induction
  <2> QED BY <2>3 DEF G
<1>14. kept \in [0..n -> S]
  BY <1>1, <1>12, <1>13
<1>15. kept[0] = <<>> /\ \A i \in 1..n : kept[i] = next(kept[i - 1], i)
  BY <1>1, <1>11
<1> QED BY <1>3, <1>14, <1>15 DEF n, S, next, Kept

\* A prefix without such segments stays in front of what is kept of the rest.
LEMMA PureAfter ==
    ASSUME NEW A, NEW p \in Seq(A), NEW r \in Seq(A),
           \A i \in 1..Len(p) : p[i] \notin Silent
    PROVE  Pure(p \o r) = p \o Pure(r)
<1> DEFINE s == p \o r
           k == Len(p)
           m == Len(r)
<1>0. \A q \in Seq(A), x \in A : p \o Append(q, x) = Append(p \o q, x)
  BY AppendToSecond
<1>1. s \in Seq(A) /\ Len(s) = k + m /\ k \in Nat /\ m \in Nat
  OBVIOUS
<1>2. (\A i \in 1..k : s[i] = p[i]) /\ (\A i \in 1..m : s[k + i] = r[i])
  OBVIOUS
<1> HIDE DEF s
<1>3. PICK all : Kept(s, all, A) /\ Pure(s) = all[k + m]
  BY <1>1, PureKept
<1>4. PICK own : Kept(r, own, A) /\ Pure(r) = own[m]
  BY PureKept
<1>5. /\ all \in [0..(k + m) -> Seq(A)] /\ all[0] = <<>>
      /\ \A i \in 1..(k + m) : all[i] = IF s[i] \in Silent THEN all[i - 1]
                                        ELSE Append(all[i - 1], s[i])
  BY <1>1, <1>3 DEF Kept
<1>6. /\ own \in [0..m -> Seq(A)] /\ own[0] = <<>>
      /\ \A i \in 1..m : own[i] = IF r[i] \in Silent THEN own[i - 1]
                                  ELSE Append(own[i - 1], r[i])
  BY <1>4 DEF Kept
<1>7. all[k] = p
  <2> DEFINE G == {i \in Nat : i <= k => all[i] = SubSeq(p, 1, i)}
  <2>1. 0 \in G
    BY <1>5, NoSubSeq
  <2>2. ASSUME NEW i \in Nat, i \in G PROVE i + 1 \in G
    <3> SUFFICES ASSUME i + 1 <= k PROVE all[i + 1] = SubSeq(p, 1, i + 1)
      OBVIOUS
    <3>1. /\ i + 1 \in 1..k /\ i + 1 \in 1..(k + m) /\ (i + 1) - 1 = i
          /\ all[i] = SubSeq(p, 1, i)
      BY <1>1, <2>2
    <3>2. all[i + 1] = Append(all[i], p[i + 1])
      BY <1>2, <1>5, <3>1
    <3>3. SubSeq(p, 1, i + 1) = Append(SubSeq(p, 1, i), p[i + 1])
      BY <3>1
    <3> QED BY <3>1, <3>2, <3>3
  <2>3. k \in G
    <3> HIDE DEF G, k
    <3> QED BY <1>1, <2>1, <2>2, Induction
  <2>4. SubSeq(p, 1, k) = p
    OBVIOUS
  <2> QED BY <1>1, <2>3, <2>4
<1>8. all[k + m] = p \o own[m]
  <2> DEFINE G == {i \in Nat : i <= m => all[k + i] = p \o own[i]}
  <2>1. 0 \in G
    <3>1. k + 0 = k /\ p \o <<>> = p
      BY <1>1
    <3> QED BY <1>6, <1>7, <3>1
  <2>2. ASSUME NEW i \in Nat, i \in G PROVE i + 1 \in G
    <3> SUFFICES ASSUME i + 1 <= m PROVE all[k + (i + 1)] = p \o own[i + 1]
      OBVIOUS
    <3>1. /\ i + 1 \in 1..m /\ k + (i + 1) \in 1..(k + m) /\ i \in 0..m
          /\ (i + 1) - 1 = i /\ (k + (i + 1)) - 1 = k + i
          /\ all[k + i] = p \o own[i] /\ s[k + (i + 1)] = r[i + 1]
      BY <1>1, <1>2, <2>2
    <3>2. all[k + (i + 1)] = IF r[i + 1] \in Silent THEN all[k + i]
                             ELSE Append(all[k + i], r[i + 1])
      BY <1>5, <3>1
    <3>3. own[i + 1] = IF r[i + 1] \in Silent THEN own[i] ELSE Append(own[i], r[i + 1])
      BY <1>6, <3>1
    <3>4. CASE r[i + 1] \in Silent
      BY <3>1, <3>2, <3>3, <3>4
    <3>5. CASE r[i + 1] \notin Silent
      <4>1. own[i] \in Seq(A)
        BY <1>6, <3>1
      <4>2. p \o Append(own[i], r[i + 1]) = Append(p \o own[i], r[i + 1])
        <5>1. r[i + 1] \in A
          BY <3>1
        <5> QED BY <4>1, <5>1, <1>0
      <4> QED BY <3>1, <3>2, <3>3, <3>5, <4>2
    <3> QED BY <3>4, <3>5
  <2>3. m \in G
    <3> HIDE DEF G, m
    <3> QED BY <1>1, <2>1, <2>2, Induction
  <2> QED BY <1>1, <2>3
<1> QED BY <1>3, <1>4, <1>8 DEF s

-----------------------------------------------------------------------------
(***************************************************************************)
(* The paths that are accepted.                                            *)
(***************************************************************************)

\* What follows n segments is a sequence of segments.
LEMMA RestIsSeq ==
    ASSUME NEW A, NEW segments \in Seq(A), NEW n \in Nat, n <= Len(segments)
    PROVE  /\ Rest(segments, n) \in Seq(A)
           /\ segments = SubSeq(segments, 1, n) \o Rest(segments, n)
<1>1. Rest(segments, n) \in Seq(A)
  BY DEF Rest
<1> DEFINE front == SubSeq(segments, 1, n)
           back  == SubSeq(segments, n + 1, Len(segments))
           m     == Len(segments)
<1>2. m \in Nat /\ front \in Seq(A) /\ Len(front) = n /\ \A i \in 1..n : front[i] = segments[i]
  OBVIOUS
<1>3. /\ back \in Seq(A) /\ Len(back) = m - n
      /\ \A i \in 1..(m - n) : back[i] = segments[n + i]
  OBVIOUS
<1>4. segments \in Seq(A) /\ Len(segments) = m /\ n <= m
  OBVIOUS
<1> HIDE DEF front, back, m
<1>5. front \o back \in Seq(A) /\ Len(front \o back) = m
  BY <1>2, <1>3, <1>4
<1>6. ASSUME NEW i \in 1..m PROVE (front \o back)[i] = segments[i]
  <2>1. CASE i <= n
    BY <1>2, <1>3, <2>1
  <2>2. CASE i > n
    <3>1. i - n \in 1..(m - n) /\ n + (i - n) = i
      BY <1>2, <2>2
    <3>2. (front \o back)[i] = back[i - n]
      BY <1>2, <1>3, <2>2, <3>1
    <3> QED BY <1>3, <3>1, <3>2
  <2>3. i <= n \/ i > n
    BY <1>2
  <2> QED BY <2>1, <2>2, <2>3
<1>7. segments = front \o back
  <2> DEFINE both == front \o back
  <2>1. both \in Seq(A) /\ Len(both) = m /\ \A i \in 1..m : both[i] = segments[i]
    BY <1>5, <1>6
  <2> HIDE DEF both
  <2>2. Len(segments) = Len(both) /\ \A i \in 1..Len(segments) : segments[i] = both[i]
    BY <1>4, <2>1
  <2>3. segments = both
    BY <2>1, <2>2, SameSeq
  <2> QED BY <2>3 DEF both
<1> QED BY <1>1, <1>7 DEF Rest, front, back, m

\* The directory of the bot has segments that pathlib keeps.
LEMMA DirectoryIsClean ==
    /\ BotDirectory \in Seq(STRING) /\ Len(BotDirectory) \in Nat
    /\ \A i \in 1..Len(BotDirectory) : BotDirectory[i] \notin Silent
<1> DEFINE Clean == STRING \ {"", ".", ".."}
<1>1. \A s \in Clean : s \in STRING /\ s \notin Silent
  BY DEF Silent
<1>2. BotDirectory \in Seq(Clean)
  BY BotDirectoryAssumption
<1> HIDE DEF Clean
<1>3. Clean \subseteq STRING
  BY <1>1
<1>4. BotDirectory \in Seq(STRING)
  BY <1>2, <1>3, LargerAlphabet
<1>5. Len(BotDirectory) \in Nat /\ \A i \in 1..Len(BotDirectory) : BotDirectory[i] \in Clean
  BY <1>2
<1> QED BY <1>1, <1>4, <1>5, Zenon

\* What normalize_remote_file_path accepts is the path itself, which was
\* relative, or what follows the directory of the bot in it.
LEMMA NormalizeAccepts ==
    ASSUME NEW path \in PathText, Normalize(path).accepted
    PROVE  LET rest == Normalize(path).segments
               n    == Len(BotDirectory)
           IN  /\ rest \in Seq(STRING) /\ ".." \notin ToSet(Pure(rest))
               /\ path.absolute => path.segments = BotDirectory \o rest
<1> DEFINE n        == Len(BotDirectory)
           segments == path.segments
           stripped == path.absolute /\ Len(segments) > n /\ SubSeq(segments, 1, n) = BotDirectory
           rest     == IF stripped THEN Rest(segments, n) ELSE segments
           rooted   == IF stripped THEN Len(rest) > 1 /\ rest[1] = "" ELSE path.absolute
           dotted   == ".." \in ToSet(Pure(rest))
<1>1. Normalize(path) = IF rooted \/ dotted THEN Refused ELSE Accepted(rest)
  BY Zenon DEF Normalize
<1>2. n \in Nat /\ segments \in Seq(STRING)
  BY DirectoryIsClean DEF PathText
<1> DEFINE S == STRING
<1> HIDE DEF rest, n, segments, rooted, dotted, stripped, S
<1>3. ~rooted /\ ~dotted /\ Normalize(path).segments = rest
  BY <1>1 DEF Refused, Accepted
<1>4. segments \in Seq(S)
  BY <1>2, Zenon DEF S
<1>5. CASE stripped
  <2>1. rest = Rest(segments, n) /\ Len(segments) > n /\ SubSeq(segments, 1, n) = BotDirectory
    BY <1>5, Zenon DEF rest, stripped, n, segments
  <2>2. n <= Len(segments)
    BY <1>2, <1>4, <2>1
  <2>3. rest \in Seq(S) /\ segments = BotDirectory \o rest
    BY <1>2, <1>4, <2>1, <2>2, RestIsSeq
  <2> QED BY <1>3, <2>3, Zenon DEF S, segments, dotted
<1>6. CASE ~stripped
  <2>1. rest = segments /\ ~path.absolute
    BY <1>3, <1>6, Zenon DEF rest, rooted, stripped, n, segments
  <2> QED BY <1>2, <1>3, <2>1, Zenon DEF dotted
<1> QED BY <1>5, <1>6

\* What validate_local_file_path accepts is an absolute path below the
\* directory of the bot.
LEMMA LocalAccepts ==
    ASSUME NEW path \in PathText, ValidateLocal(path).accepted
    PROVE  /\ path.absolute /\ ValidateLocal(path).segments = path.segments
           /\ ".." \notin ToSet(Pure(path.segments))
           /\ IsPrefix(BotDirectory, Pure(path.segments))
<1> DEFINE fine == /\ path.absolute /\ ~OtherRoot(path)
                   /\ ".." \notin ToSet(Pure(path.segments))
                   /\ IsPrefix(BotDirectory, Pure(path.segments))
<1>1. ValidateLocal(path) = IF fine THEN Accepted(path.segments) ELSE Refused
  BY Zenon DEF ValidateLocal
<1> HIDE DEF fine
<1>2. fine /\ ValidateLocal(path).segments = path.segments
  BY <1>1 DEF Refused, Accepted
<1> QED BY <1>2, Zenon DEF fine

\* Whatever path a server in --local mode answers: if both fetchers accept it,
\* the URL of one and the file of the other are the same file.
THEOREM FetchersNameOneFile == Spec => []FetchersAgree
<1>1. ASSUME NEW path \in PathText, ValidateLocal(path).accepted, Normalize(path).accepted
      PROVE  BotDirectory \o Pure(Normalize(path).segments) = Pure(ValidateLocal(path).segments)
  <2> DEFINE rest == Normalize(path).segments
  <2>1. rest \in Seq(STRING) /\ path.segments = BotDirectory \o rest
    BY <1>1, LocalAccepts, NormalizeAccepts, Zenon
  <2>2. Pure(BotDirectory \o rest) = BotDirectory \o Pure(rest)
    BY <2>1, DirectoryIsClean, PureAfter, Zenon
  <2> QED BY <1>1, <2>1, <2>2, LocalAccepts, Zenon
<1>2. CallTypeOK => FetchersAgree
  <2> SUFFICES ASSUME CallTypeOK, call.fn = "file_path" PROVE FetchersAgree
    BY DEF FetchersAgree
  <2>1. call.path \in PathText
    BY Zenon DEF CallTypeOK
  <2> QED BY <1>1, <2>1, Zenon DEF FetchersAgree
<1> QED BY <1>2, CallsAreTyped, PTL

-----------------------------------------------------------------------------
(***************************************************************************)
(* The hashtags of a caption.                                              *)
(***************************************************************************)
Plain    == Small \cup {"_"}
TagChars == Plain \cup {"^"}
Tags     == {t \in Seq(TagChars) : t # <<>> /\ t[1] # "^"}

\* The plain characters of a tag are hashtag characters.
LEMMA PlainIs ==
    /\ Plain \subseteq TagChars
    /\ \A c \in Plain : HashtagChar(c) /\ c # "^"
    /\ \A c \in TagChars : c # "#" /\ c # "."
    /\ \A c \in TagChars : ~HashtagChar(c) => c = "^"
    /\ ~HashtagChar("^")
<1>1. \A c \in Plain : c \in {"a", "h", "s", "z", "_"}
  BY DEF Plain, Small
<1>2. \A c \in Plain : HashtagChar(c) /\ c # "^" /\ c # "#" /\ c # "."
  BY <1>1 DEF HashtagChar, Word, Small, Capitals
<1>3. ~HashtagChar("^")
  BY DEF HashtagChar, Word, Small, Capitals
<1>4. \A c \in TagChars : c \in Plain \/ c = "^"
  BY DEF TagChars
<1>5. \A c \in TagChars : c # "#" /\ c # "."
  BY <1>2, <1>4
<1> QED BY <1>2, <1>3, <1>4, <1>5 DEF TagChars

\* A plain character is a tag, and so is one before the combining dot.
LEMMA ShortTags ==
    /\ \A c \in Plain : <<c>> \in Seq(Plain) /\ <<c>> \in Tags
    /\ \A c \in Plain : <<c, "^">> \in Tags
<1> DEFINE dot == "^"
<1>1. dot \in TagChars /\ Plain \subseteq TagChars /\ \A c \in Plain : c # dot
  BY PlainIs DEF TagChars
<1>2. \A t \in Seq(TagChars) : Len(t) > 0 /\ t[1] # dot => t \in Tags
  <2> SUFFICES ASSUME NEW t \in Seq(TagChars), Len(t) > 0, t[1] # dot PROVE t \in Tags
    OBVIOUS
  <2>1. t # <<>>
    OBVIOUS
  <2> QED BY <2>1, Zenon DEF Tags
<1> HIDE DEF dot
<1>3. ASSUME NEW c \in Plain PROVE <<c>> \in Seq(Plain) /\ <<c>> \in Tags
  <2>1. <<c>> \in Seq(Plain) /\ <<c>> \in Seq(TagChars) /\ Len(<<c>>) > 0 /\ <<c>>[1] = c
    BY <1>1
  <2> QED BY <1>1, <1>2, <2>1
<1>4. ASSUME NEW c \in Plain PROVE <<c, dot>> \in Tags
  <2>1. <<c, dot>> \in Seq(TagChars) /\ Len(<<c, dot>>) > 0 /\ <<c, dot>>[1] = c
    BY <1>1
  <2> QED BY <1>1, <1>2, <2>1
<1> QED BY <1>3, <1>4 DEF dot

\* What a hashtag makes of one of its characters is a tag; only the dotted
\* capital makes another character than a plain one, and a plain one stays.
LEMMA CanonicalIs ==
    ASSUME NEW run, NEW k, HashtagChar(run[k])
    PROVE  /\ Canonical(run, k) \in Tags
           /\ run[k] # "D" => Canonical(run, k) \in Seq(Plain)
           /\ run[k] \in Plain => Canonical(run, k) = <<run[k]>>
<1> DEFINE c == run[k]
           text == Canonical(run, k)
<1>1. c \in {"A", "D", "S", "-"} \/ c \in Plain
  BY DEF HashtagChar, Word, Small, Capitals, Plain
<1>2. {"a", "s", "z", "_"} \subseteq Plain
  BY DEF Plain, Small
<1>3. c \in Plain => c # "A" /\ c # "D" /\ c # "S" /\ c # "-"
  BY DEF Plain, Small
<1>4. CASE c = "A"
  <2>1. text = <<"a">> /\ c # "D" /\ c \notin Plain
    BY <1>3, <1>4, Zenon DEF Canonical
  <2> QED BY <1>2, <2>1, ShortTags, Zenon
<1>5. CASE c = "D"
  <2>1. text = <<"a", "^">> /\ c \notin Plain
    <3>1. c # "A"
      BY <1>5
    <3> QED BY <1>3, <1>5, <3>1 DEF Canonical
  <2>2. "a" \in Plain
    BY <1>2
  <2> QED BY <1>5, <2>1, <2>2, ShortTags, Zenon
<1>6. CASE c = "S"
  <2>1. text = <<"z">> \/ text = <<"s">>
    BY <1>6 DEF Canonical
  <2>2. "z" \in Plain /\ "s" \in Plain /\ c \notin Plain
    BY <1>2, <1>3, <1>6
  <2> QED BY <2>1, <2>2, ShortTags, Zenon
<1>7. CASE c = "-"
  <2>1. text = <<"_">>
    BY <1>7 DEF Canonical
  <2>2. "_" \in Plain /\ c \notin Plain
    BY <1>2, <1>3, <1>7
  <2> QED BY <2>1, <2>2, ShortTags, Zenon
<1>8. CASE c \in Plain
  <2>1. text = <<c>>
    BY <1>3, <1>8 DEF Canonical
  <2> QED BY <1>8, <2>1, ShortTags, Zenon
<1> QED BY <1>1, <1>4, <1>5, <1>6, <1>7, <1>8

\* What texts are joined to is a text of the same characters.
LEMMA FlatIs ==
    ASSUME NEW A, NEW seqs \in Seq(Seq(A)), seqs # <<>>
    PROVE  FlattenSeq(seqs) \in Seq(A)
<1>1. PICK f : Joins(f, seqs, A) /\ FlattenSeq(seqs) = f[Len(seqs)]
  BY FlattenJoins
<1>2. Len(seqs) \in 0..Len(seqs)
  OBVIOUS
<1> QED BY <1>1, <1>2 DEF Joins

\* It begins as the first of them.
LEMMA FlatStarts ==
    ASSUME NEW A, NEW seqs \in Seq(Seq(A)), seqs # <<>>, Len(seqs[1]) > 0
    PROVE  FlattenSeq(seqs) # <<>> /\ FlattenSeq(seqs)[1] = seqs[1][1]
<1> DEFINE n == Len(seqs)
           S == Seq(A)
           first == seqs[1]
<1>1. PICK f : Joins(f, seqs, A) /\ FlattenSeq(seqs) = f[n]
  BY FlattenJoins
<1>2. n \in Nat /\ n > 0 /\ first \in S /\ \A i \in 1..n : seqs[i] \in S
  OBVIOUS
<1>3. f \in [0..n -> S] /\ f[0] = <<>> /\ \A i \in 1..n : f[i] = f[i - 1] \o seqs[i]
  BY <1>1 DEF Joins
<1> DEFINE G == {i \in Nat : i + 1 <= n => Len(f[i + 1]) > 0 /\ f[i + 1][1] = first[1]}
<1> HIDE DEF n, first
<1>4. 0 \in G
  <2>1. 1 \in 1..n /\ 0 + 1 = 1 /\ 1 - 1 = 0
    BY <1>2
  <2>2. f[1] = <<>> \o first
    BY <1>3, <2>1 DEF first
  <2>3. f[1] = first
    BY <1>2, <2>2
  <2>4. Len(first) > 0
    BY DEF first
  <2> QED BY <2>1, <2>3, <2>4
<1>5. ASSUME NEW i \in Nat, i \in G PROVE i + 1 \in G
  <2> SUFFICES ASSUME (i + 1) + 1 <= n
               PROVE  Len(f[(i + 1) + 1]) > 0 /\ f[(i + 1) + 1][1] = first[1]
    OBVIOUS
  <2> DEFINE j == (i + 1) + 1
             x == f[i + 1]
             y == seqs[j]
  <2>1. j \in 1..n /\ j - 1 = i + 1 /\ i + 1 \in 0..n
    BY <1>2
  <2>2. Len(x) > 0 /\ x[1] = first[1] /\ x \in S /\ y \in S /\ f[j] = x \o y
    <3>1. i + 1 <= n
      BY <1>2, <2>1
    <3>2. Len(x) > 0 /\ x[1] = first[1]
      BY <1>5, <3>1
    <3> HIDE DEF j
    <3>3. f[j] = f[j - 1] \o seqs[j] /\ seqs[j] \in S /\ f[i + 1] \in S
      BY <1>2, <1>3, <2>1
    <3> QED BY <2>1, <3>2, <3>3
  <2> HIDE DEF x, y, j
  <2>3. Len(x \o y) > 0 /\ (x \o y)[1] = x[1]
    <3>1. Len(x) \in Nat /\ Len(y) \in Nat
      BY <2>2
    <3> QED BY <2>2, <3>1
  <2> QED BY <2>2, <2>3 DEF j
<1>6. Len(f[n]) > 0 /\ f[n][1] = first[1]
  <2>1. n - 1 \in Nat /\ (n - 1) + 1 = n
    BY <1>2
  <2> HIDE DEF G
  <2>2. n - 1 \in G
    BY <1>4, <1>5, <2>1, Induction
  <2> QED BY <2>1, <2>2 DEF G
<1>7. f[n] # <<>>
  BY <1>6
<1> QED BY <1>1, <1>6, <1>7 DEF n, first

\* The characters of a text, each on its own, join to it.
LEMMA FlatOfOnes ==
    ASSUME NEW A, NEW t \in Seq(A), t # <<>>
    PROVE  FlattenSeq([k \in 1..Len(t) |-> <<t[k]>>]) = t
<1> DEFINE n == Len(t)
           S == Seq(A)
           one(k) == <<t[k]>>
           seqs == [k \in 1..n |-> one(k)]
<1>1. n \in Nat /\ n # 0 /\ \A k \in 1..n : t[k] \in A /\ one(k) \in S
  OBVIOUS
<1>2. \A k \in 1..n : one(k) \in S
  BY <1>1
<1>3. \A k \in 1..n : SubSeq(t, 1, k) = SubSeq(t, 1, k - 1) \o one(k)
  <2> TAKE k \in 1..n
  <2> DEFINE p == SubSeq(t, 1, k - 1)
             q == SubSeq(t, 1, k)
             x == t[k]
             z == p \o <<x>>
  <2>1. /\ k \in Nat /\ p \in S /\ Len(p) = k - 1 /\ q \in S /\ Len(q) = k /\ x \in A
        /\ (\A i \in 1..(k - 1) : p[i] = t[i]) /\ (\A i \in 1..k : q[i] = t[i])
    BY <1>1
  <2> HIDE DEF p, q, S
  <2>2. z \in Seq(A) /\ Len(z) = k /\ (\A i \in 1..(k - 1) : z[i] = p[i]) /\ z[k] = x
    <3>1. IsOneMore(z, p, x, A)
      BY <2>1, OneMore DEF S
    <3>2. (k - 1) + 1 = k
      BY <2>1
    <3> HIDE DEF z
    <3> QED BY <2>1, <3>1, <3>2 DEF IsOneMore
  <2> HIDE DEF z
  <2>3. \A i \in 1..k : z[i] = q[i]
    <3> TAKE i \in 1..k
    <3>1. CASE i = k
      BY <2>1, <2>2, <3>1 DEF x
    <3>2. CASE i # k
      <4>1. i \in 1..(k - 1)
        BY <2>1, <3>2
      <4> QED BY <2>1, <2>2, <4>1
    <3> QED BY <3>1, <3>2
  <2>4. z = q
    BY <2>1, <2>2, <2>3, SameSeq DEF S
  <2> QED BY <2>4 DEF z, p, q, x
<1>4. SubSeq(t, 1, n) = t /\ SubSeq(t, 1, 0) = <<>>
  OBVIOUS
<1> DEFINE head(k) == SubSeq(t, 1, k)
<1> HIDE DEF n, S, one
<1>5. seqs \in Seq(S) /\ Len(seqs) = n /\ seqs # <<>> /\ \A k \in 1..n : seqs[k] = one(k)
  BY <1>1, <1>2
<1> HIDE DEF seqs
<1>6. PICK f : Joins(f, seqs, A) /\ FlattenSeq(seqs) = f[n]
  <2>1. seqs \in Seq(Seq(A))
    BY <1>5 DEF S
  <2> QED BY <1>5, <2>1, FlattenJoins
<1>7. f[0] = <<>> /\ \A i \in 1..n : f[i] = f[i - 1] \o one(i)
  BY <1>5, <1>6 DEF Joins
<1>8. head(0) = <<>> /\ head(n) = t /\ \A k \in 1..n : head(k) = head(k - 1) \o one(k)
  BY <1>3, <1>4
<1> HIDE DEF head
<1> DEFINE G == {i \in Nat : i <= n => f[i] = head(i)}
<1>9. 0 \in G
  BY <1>7, <1>8
<1>10. ASSUME NEW i \in Nat, i \in G PROVE i + 1 \in G
  <2> SUFFICES ASSUME i + 1 <= n PROVE f[i + 1] = head(i + 1)
    OBVIOUS
  <2>1. i + 1 \in 1..n /\ (i + 1) - 1 = i /\ f[i] = head(i)
    BY <1>1, <1>10
  <2> QED BY <1>7, <1>8, <2>1
<1>11. n \in G
  <2> HIDE DEF G
  <2> QED BY <1>1, <1>9, <1>10, Induction
<1>12. FlattenSeq(seqs) = t
  BY <1>1, <1>6, <1>8, <1>11
<1> QED BY <1>12 DEF seqs, one, n

\* The canonical form of a run is a tag; without a dotted capital it is plain,
\* and that of a plain run is the run.
LEMMA LoweredIs ==
    ASSUME NEW A, NEW run \in Seq(A), run # <<>>, \A k \in 1..Len(run) : HashtagChar(run[k])
    PROVE  /\ Lowered(run) \in Tags
           /\ (\A k \in 1..Len(run) : run[k] # "D") => Lowered(run) \in Seq(Plain)
           /\ (\A k \in 1..Len(run) : run[k] \in Plain) => Lowered(run) = run
<1> DEFINE n == Len(run)
           text(k) == Canonical(run, k)
           seqs == [k \in 1..n |-> text(k)]
           dotted(k) == run[k] = "D"
           dot == "^"
<1>1. n \in Nat /\ 1 \in 1..n /\ Lowered(run) = FlattenSeq(seqs)
  <2>1. n # 0
    OBVIOUS
  <2> QED BY <2>1 DEF Lowered
<1>2. \A k \in 1..n : /\ text(k) \in Tags
                      /\ ~dotted(k) => text(k) \in Seq(Plain)
                      /\ run[k] \in Plain => text(k) = <<run[k]>>
  BY CanonicalIs
<1>3. \A t : t \in Tags <=> t \in Seq(TagChars) /\ t # <<>> /\ t[1] # dot
  BY Zenon DEF Tags
<1> HIDE DEF text, dotted, dot
<1>4. \A S : (\A k \in 1..n : text(k) \in S) => seqs \in Seq(S) /\ seqs # <<>>
  BY <1>1
<1>5. seqs[1] = text(1)
  BY <1>1
<1>6. Lowered(run) \in Tags
  <2>1. \A k \in 1..n : text(k) \in Seq(TagChars)
    BY <1>2, <1>3
  <2> DEFINE S == Seq(TagChars)
  <2> HIDE DEF S
  <2>2. seqs \in Seq(S) /\ seqs # <<>>
    BY <1>4, <2>1 DEF S
  <2> HIDE DEF seqs
  <2>3. Len(seqs[1]) > 0 /\ seqs[1][1] # dot
    <3>1. seqs[1] \in Seq(TagChars) /\ seqs[1] # <<>> /\ seqs[1][1] # dot
      BY <1>1, <1>2, <1>3, <1>5
    <3>2. \A t \in Seq(TagChars) : t # <<>> => Len(t) > 0
      OBVIOUS
    <3> QED BY <3>1, <3>2
  <2>4. FlattenSeq(seqs) \in Seq(TagChars)
    BY <2>2, FlatIs DEF S
  <2>5. FlattenSeq(seqs) # <<>> /\ FlattenSeq(seqs)[1] = seqs[1][1]
    BY <2>2, <2>3, FlatStarts DEF S
  <2> QED BY <1>1, <1>3, <2>3, <2>4, <2>5
<1>7. ASSUME \A k \in 1..n : ~dotted(k) PROVE Lowered(run) \in Seq(Plain)
  <2> DEFINE S == Seq(Plain)
  <2>1. \A k \in 1..n : text(k) \in S
    BY <1>2, <1>7
  <2> HIDE DEF S
  <2>2. seqs \in Seq(S) /\ seqs # <<>>
    BY <1>4, <2>1
  <2> HIDE DEF seqs
  <2>3. FlattenSeq(seqs) \in Seq(Plain)
    BY <2>2, FlatIs DEF S
  <2> QED BY <1>1, <2>3
<1>8. ASSUME \A k \in 1..n : run[k] \in Plain PROVE Lowered(run) = run
  <2>1. seqs = [k \in 1..n |-> <<run[k]>>]
    BY <1>2, <1>8
  <2> HIDE DEF seqs
  <2>2. FlattenSeq([k \in 1..n |-> <<run[k]>>]) = run
    BY FlatOfOnes
  <2> QED BY <1>1, <2>1, <2>2
<1> QED BY <1>6, <1>7, <1>8 DEF n, dotted

\* j is where the run of hashtag characters after i ends.
EndsRun(caption, i, j) ==
    /\ j \in (i + 1)..Len(caption)
    /\ \A k \in (i + 1)..j : HashtagChar(caption[k])
    /\ j = Len(caption) \/ ~HashtagChar(caption[j + 1])

\* A hashtag has one end, and TagEnd is it.
LEMMA TagEndIs ==
    ASSUME NEW A, NEW caption \in Seq(A), NEW i \in TagStarts(caption)
    PROVE  /\ i \in 1..Len(caption) /\ EndsRun(caption, i, TagEnd(caption, i))
           /\ \A j : EndsRun(caption, i, j) => j = TagEnd(caption, i)
<1> DEFINE n    == Len(caption)
           Stop == {j \in (i + 1)..n : j = n \/ ~HashtagChar(caption[j + 1])}
<1>1. n \in Nat /\ i \in 1..(n - 1) /\ HashtagChar(caption[i + 1])
  BY DEF TagStarts
<1> HIDE DEF n
<1>2. n \in Stop /\ Stop \in SUBSET Nat
  BY <1>1
<1>3. PICK j \in Stop : \A l \in Stop : j <= l
  BY <1>2, Minimum
<1>4. ASSUME NEW k \in (i + 1)..j PROVE HashtagChar(caption[k])
  <2>1. CASE k = i + 1
    BY <1>1, <2>1
  <2>2. CASE k # i + 1
    <3>1. k - 1 \in (i + 1)..n /\ ~(j <= k - 1) /\ (k - 1) + 1 = k
      BY <1>1, <1>3, <2>2
    <3>2. k - 1 \notin Stop
      BY <1>3, <3>1
    <3> QED BY <3>1, <3>2
  <2> QED BY <2>1, <2>2
<1>5. EndsRun(caption, i, j)
  BY <1>3, <1>4 DEF EndsRun, n
<1>6. EndsRun(caption, i, TagEnd(caption, i))
  <2>1. \E l \in (i + 1)..Len(caption) :
           /\ \A k \in (i + 1)..l : HashtagChar(caption[k])
           /\ l = Len(caption) \/ ~HashtagChar(caption[l + 1])
    BY <1>5 DEF EndsRun
  <2> QED BY <2>1 DEF TagEnd, EndsRun
<1>7. ASSUME NEW j1, NEW j2, EndsRun(caption, i, j1), EndsRun(caption, i, j2)
      PROVE  ~(j1 < j2)
  <2>1. /\ j1 \in (i + 1)..n /\ j2 \in (i + 1)..n
        /\ \A k \in (i + 1)..j2 : HashtagChar(caption[k])
        /\ j1 = n \/ ~HashtagChar(caption[j1 + 1])
    BY <1>7 DEF EndsRun, n
  <2> SUFFICES ASSUME j1 < j2 PROVE FALSE
    OBVIOUS
  <2>2. j1 + 1 \in (i + 1)..j2 /\ j1 # n
    BY <1>1, <2>1
  <2> QED BY <2>1, <2>2
<1>8. ASSUME NEW l, EndsRun(caption, i, l) PROVE l = TagEnd(caption, i)
  <2>1. l \in Int /\ TagEnd(caption, i) \in Int
    BY <1>1, <1>6, <1>8 DEF EndsRun, n
  <2>2. ~(l < TagEnd(caption, i)) /\ ~(TagEnd(caption, i) < l)
    BY <1>6, <1>7, <1>8
  <2> QED BY <2>1, <2>2
<1> QED BY <1>1, <1>6, <1>8 DEF n

\* The characters of the hashtag at i.
RunAt(caption, i) == SubSeq(caption, i + 1, TagEnd(caption, i))

\* A hashtag is the canonical form of its run, and a tag.
LEMMA TagAtIs ==
    ASSUME NEW A, NEW caption \in Seq(A), NEW i \in TagStarts(caption)
    PROVE  LET n   == TagEnd(caption, i) - i
               run == RunAt(caption, i)
           IN  /\ n \in Nat \ {0} /\ run \in Seq(A) /\ run # <<>> /\ Len(run) = n
               /\ \A k \in 1..n : run[k] = caption[i + k] /\ HashtagChar(run[k])
               /\ TagAt(caption, i) = Lowered(run)
               /\ TagAt(caption, i) \in Tags
<1> DEFINE e   == TagEnd(caption, i)
           run == SubSeq(caption, i + 1, e)
           n   == e - i
<1>1. i \in 1..Len(caption) /\ EndsRun(caption, i, e)
  BY TagEndIs
<1>2. e \in (i + 1)..Len(caption) /\ \A k \in (i + 1)..e : HashtagChar(caption[k])
  BY <1>1 DEF EndsRun
<1>3. TagAt(caption, i) = Lowered(run) /\ RunAt(caption, i) = run
  BY DEF TagAt, RunAt
<1> HIDE DEF e
<1>4. n \in Nat \ {0}
  BY <1>1, <1>2
<1>5. run \in Seq(A) /\ Len(run) = n /\ \A k \in 1..n : run[k] = caption[i + k]
  BY <1>1, <1>2
<1>6. run # <<>>
  BY <1>4, <1>5
<1> HIDE DEF run
<1>7. \A k \in 1..n : HashtagChar(run[k])
  <2> TAKE k \in 1..n
  <2>1. i + k \in (i + 1)..e
    BY <1>1, <1>2 DEF n
  <2> QED BY <2>1, <1>2, <1>5
<1> HIDE DEF n
<1>8. Lowered(run) \in Tags
  BY <1>5, <1>6, <1>7, LoweredIs
<1> QED BY <1>3, <1>4, <1>5, <1>6, <1>7, <1>8 DEF n, e

\* The places where a hashtag appears for the first time.
FirstPlaces(caption) ==
    {i \in TagStarts(caption) :
        \A j \in TagStarts(caption) : j < i => TagAt(caption, j) # TagAt(caption, i)}

\* The hashtags of a caption are those of its first places, in order.
LEMMA ParseIs ==
    ASSUME NEW A, NEW caption \in Seq(A)
    PROVE  LET first == FirstPlaces(caption)
               k     == Cardinality(first)
               order == Order(first)
           IN  /\ first \subseteq TagStarts(caption) /\ k \in Nat /\ Lists(order, first)
               /\ ParseHashtags(caption) = [n \in 1..k |-> TagAt(caption, order[n])]
<1> DEFINE first == FirstPlaces(caption)
<1>1. first \subseteq TagStarts(caption)
  BY DEF FirstPlaces
<1>2. TagStarts(caption) \subseteq 1..(Len(caption) - 1) /\ Len(caption) \in Nat
  BY DEF TagStarts
<1> DEFINE m == Len(caption) - 1
<1>3. m \in Int /\ first \subseteq 1..m
  BY <1>1, <1>2
<1> HIDE DEF m
<1>4. IsFiniteSet(1..m)
  BY <1>3, FS_Interval
<1>5. IsFiniteSet(first)
  BY <1>3, <1>4, FS_Subset
<1>6. first \in SUBSET Nat
  BY <1>3
<1>7. Lists(Order(first), first) /\ Cardinality(first) \in Nat
  <2> HIDE DEF first
  <2> QED BY <1>5, <1>6, OrderLists, FS_CardinalityType
<1>8. ParseHashtags(caption)
         = [n \in 1..Cardinality(first) |-> TagAt(caption, Order(first)[n])]
  BY Zenon DEF ParseHashtags, FirstPlaces
<1> QED BY <1>1, <1>7, <1>8

\* They are tags, each once.
LEMMA ParseGives ==
    ASSUME NEW A, NEW caption \in Seq(A)
    PROVE  ParseHashtags(caption) \in Seq(Tags) /\ IsInjective(ParseHashtags(caption))
<1> DEFINE first == FirstPlaces(caption)
           k     == Cardinality(first)
           order == Order(first)
           tags  == ParseHashtags(caption)
<1>1. /\ first \subseteq TagStarts(caption) /\ k \in Nat
      /\ tags = [n \in 1..k |-> TagAt(caption, order[n])]
  BY ParseIs
<1>2. order \in [1..k -> first] /\ \A i, j \in 1..k : i < j => order[i] < order[j]
  BY ParseIs DEF Lists
<1> HIDE DEF k, order, tags
<1>3. ASSUME NEW n \in 1..k
      PROVE  order[n] \in first /\ tags[n] = TagAt(caption, order[n]) /\ tags[n] \in Tags
  <2>1. order[n] \in first
    BY <1>2
  <2>2. order[n] \in TagStarts(caption)
    BY <2>1, <1>1
  <2>3. TagAt(caption, order[n]) \in Tags
    BY <2>2, TagAtIs
  <2>4. tags[n] = TagAt(caption, order[n])
    BY <1>1
  <2> HIDE DEF first
  <2> QED BY <2>1, <2>3, <2>4
<1> HIDE DEF first
<1>4. tags \in Seq(Tags) /\ DOMAIN tags = 1..k
  <2>1. \A n \in 1..k : TagAt(caption, order[n]) \in Tags
    BY <1>3
  <2>2. [n \in 1..k |-> TagAt(caption, order[n])] \in Seq(Tags)
    BY <1>1, <2>1
  <2> QED BY <1>1, <2>2
<1>5. ASSUME NEW i \in 1..k, NEW j \in 1..k, i < j PROVE tags[i] # tags[j]
  <2>1. order[i] < order[j] /\ order[i] \in TagStarts(caption) /\ order[j] \in first
    BY <1>1, <1>2, <1>3, <1>5
  <2>2. TagAt(caption, order[i]) # TagAt(caption, order[j])
    BY <2>1 DEF FirstPlaces, first
  <2> QED BY <2>2, <1>3
<1>6. ASSUME NEW i \in 1..k, NEW j \in 1..k, tags[i] = tags[j] PROVE i = j
  <2>1. ~(i < j) /\ ~(j < i)
    BY <1>5, <1>6
  <2> QED BY <2>1, <1>1
<1>7. IsInjective(tags)
  BY <1>4, <1>6 DEF IsInjective
<1> QED BY <1>4, <1>7 DEF tags

\* A sequence has the same elements from its end to its start.
LEMMA SetOfReverse ==
    ASSUME NEW A, NEW seq \in Seq(A)
    PROVE  ToSet(Reverse(seq)) = ToSet(seq)
<1> DEFINE n == Len(seq)
           back == [i \in 1..n |-> seq[(n - i) + 1]]
<1>1. Reverse(seq) = back /\ n \in Nat /\ seq \in [1..n -> A]
  BY DEF Reverse
<1> HIDE DEF n
<1>2. DOMAIN back = 1..n /\ \A i \in 1..n : back[i] = seq[(n - i) + 1]
  OBVIOUS
<1>3. \A i \in 1..n : (n - i) + 1 \in 1..n /\ (n - ((n - i) + 1)) + 1 = i
  BY <1>1
<1> HIDE DEF back
<1>4. \A y : y \in ToSet(back) <=> \E i \in 1..n : back[i] = y
  BY <1>2 DEF ToSet
<1>5. \A y : y \in ToSet(seq) <=> \E i \in 1..n : seq[i] = y
  BY <1>1 DEF ToSet
<1>6. ASSUME NEW y PROVE y \in ToSet(back) <=> y \in ToSet(seq)
  <2>1. ASSUME NEW i \in 1..n, back[i] = y PROVE y \in ToSet(seq)
    BY <2>1, <1>2, <1>3, <1>5
  <2>2. ASSUME NEW i \in 1..n, seq[i] = y PROVE y \in ToSet(back)
    <3>1. (n - i) + 1 \in 1..n /\ back[(n - i) + 1] = seq[(n - ((n - i) + 1)) + 1]
      BY <1>2, <1>3
    <3> QED BY <3>1, <2>2, <1>3, <1>4
  <2> QED BY <2>1, <2>2, <1>4, <1>5
<1> QED BY <1>1, <1>6

\* Whatever the caption: no hashtag counts twice and the name of the file does
\* not depend on the order the hashtags were typed in.
THEOREM KeysIgnoreOrder == Spec => []KeyIgnoresOrder
<1>1. CallTypeOK => KeyIgnoresOrder
  <2> SUFFICES ASSUME CallTypeOK, call.fn = "parse_hashtags" PROVE KeyIgnoresOrder
    BY DEF KeyIgnoresOrder
  <2> DEFINE tags == ParseHashtags(call.caption)
  <2>1. call.caption \in Seq(Characters)
    BY Zenon DEF CallTypeOK
  <2>2. tags \in Seq(Tags) /\ IsInjective(tags)
    BY <2>1, ParseGives, Zenon
  <2>3. SortedTags(Reverse(tags)) = SortedTags(tags)
    <3> HIDE DEF tags
    <3> QED BY <2>2, SetOfReverse, Zenon DEF SortedTags
  <2>4. BuildStem(Reverse(tags)) = BuildStem(tags)
    BY <2>3, Zenon DEF BuildStem
  <2> QED BY <2>2, <2>4, Zenon DEF KeyIgnoresOrder
<1> QED BY <1>1, CallsAreTyped, PTL

\* Two captions that differ only in how the characters of their hashtags are
\* typed.
AlikeTyped(c, d) == d = c \/ (c = "A" /\ d = "a") \/ (c = "_" /\ d = "-")

\* Such characters are of one kind.
LEMMA AlikeIs ==
    ASSUME NEW c, NEW d, AlikeTyped(c, d)
    PROVE  /\ HashtagChar(d) <=> HashtagChar(c)
           /\ d = "#" <=> c = "#"
           /\ d \in Cased <=> c \in Cased
<1>1. CASE d = c
  BY <1>1
<1>2. CASE c = "A" /\ d = "a"
  BY <1>2 DEF HashtagChar, Word, Small, Capitals, Cased
<1>3. CASE c = "_" /\ d = "-"
  BY <1>3 DEF HashtagChar, Word, Small, Capitals, Cased
<1> QED BY <1>1, <1>2, <1>3 DEF AlikeTyped

\* Two runs of them have the same canonical form.
LEMMA AlikeLowered ==
    ASSUME NEW A, NEW p \in Seq(A), NEW q \in Seq(A), Len(p) = Len(q),
           \A k \in 1..Len(p) : AlikeTyped(p[k], q[k])
    PROVE  Lowered(p) = Lowered(q)
<1> DEFINE n == Len(p)
<1>1. n \in Nat /\ Len(q) = n
  OBVIOUS
<1>2. ASSUME NEW k \in 1..n PROVE Canonical(p, k) = Canonical(q, k)
  <2>1. AlikeTyped(p[k], q[k])
    BY <1>2
  <2>2. FinalSigma(p, k) <=> FinalSigma(q, k)
    <3>1. k > 1 => (p[k - 1] \in Cased <=> q[k - 1] \in Cased)
      <4> SUFFICES ASSUME k > 1 PROVE p[k - 1] \in Cased <=> q[k - 1] \in Cased
        OBVIOUS
      <4>1. k - 1 \in 1..n
        BY <1>1
      <4> QED BY <4>1, AlikeIs
    <3>2. k # n => (p[k + 1] \in Cased <=> q[k + 1] \in Cased)
      <4> SUFFICES ASSUME k # n PROVE p[k + 1] \in Cased <=> q[k + 1] \in Cased
        OBVIOUS
      <4>1. k + 1 \in 1..n
        BY <1>1
      <4> QED BY <4>1, AlikeIs
    <3> QED BY <3>1, <3>2, Zenon DEF FinalSigma
  <2>3. CASE p[k] = q[k]
    BY <2>2, <2>3, Zenon DEF Canonical
  <2>4. CASE p[k] = "A" /\ q[k] = "a"
    BY <2>4 DEF Canonical
  <2>5. CASE p[k] = "_" /\ q[k] = "-"
    BY <2>5 DEF Canonical
  <2> QED BY <2>1, <2>3, <2>4, <2>5 DEF AlikeTyped
<1> QED BY <1>1, <1>2 DEF Lowered

\* They have the same hashtags.
LEMMA AlikeIsSame ==
    ASSUME NEW A, NEW s \in Seq(A), NEW t \in Seq(A), Len(s) = Len(t),
           \A i \in 1..Len(s) : AlikeTyped(s[i], t[i])
    PROVE  ParseHashtags(s) = ParseHashtags(t)
<1>0. Len(s) \in Nat
  OBVIOUS
<1>1. TagStarts(s) = TagStarts(t)
  <2>1. ASSUME NEW i \in 1..(Len(s) - 1)
        PROVE  s[i] = "#" /\ HashtagChar(s[i + 1]) <=> t[i] = "#" /\ HashtagChar(t[i + 1])
    <3>1. i \in 1..Len(s) /\ i + 1 \in 1..Len(s)
      BY <1>0
    <3>2. AlikeTyped(s[i], t[i]) /\ AlikeTyped(s[i + 1], t[i + 1])
      BY <3>1
    <3> QED BY <3>2, AlikeIs
  <2> QED BY <2>1, Zenon DEF TagStarts
<1>2. ASSUME NEW i \in TagStarts(s) PROVE TagAt(s, i) = TagAt(t, i)
  <2> DEFINE e == TagEnd(s, i)
             n == e - i
  <2>1. i \in 1..Len(s) /\ EndsRun(s, i, e)
    BY TagEndIs
  <2>2. /\ e \in (i + 1)..Len(s) /\ (\A k \in (i + 1)..e : HashtagChar(s[k]))
        /\ e = Len(s) \/ ~HashtagChar(s[e + 1])
    BY <2>1 DEF EndsRun
  <2>4. i \in TagStarts(t)
    BY <1>1
  <2> DEFINE p == RunAt(s, i)
             q == RunAt(t, i)
  <2>3. /\ n \in Nat \ {0} /\ p \in Seq(A) /\ Len(p) = n
        /\ (\A k \in 1..n : p[k] = s[i + k]) /\ TagAt(s, i) = Lowered(p)
    BY TagAtIs
  <2> HIDE DEF e
  <2>5. \A k \in (i + 1)..e : k \in 1..Len(s) /\ HashtagChar(t[k])
    <3> TAKE k \in (i + 1)..e
    <3>1. k \in 1..Len(s)
      BY <2>1, <2>2
    <3>2. HashtagChar(s[k]) /\ AlikeTyped(s[k], t[k])
      BY <2>2, <3>1
    <3> QED BY <3>1, <3>2, AlikeIs
  <2>6. e = Len(t) \/ ~HashtagChar(t[e + 1])
    <3>1. CASE e = Len(s)
      BY <3>1
    <3>2. CASE e # Len(s)
      <4>1. e + 1 \in 1..Len(s)
        BY <2>1, <2>2, <3>2
      <4>2. ~HashtagChar(s[e + 1]) /\ AlikeTyped(s[e + 1], t[e + 1])
        BY <2>2, <3>2, <4>1
      <4> QED BY <4>2, AlikeIs
    <3> QED BY <3>1, <3>2
  <2>7. EndsRun(t, i, e)
    BY <2>2, <2>5, <2>6 DEF EndsRun
  <2>8. e = TagEnd(t, i)
    BY <2>4, <2>7, TagEndIs
  <2>9. /\ q \in Seq(A) /\ Len(q) = n
        /\ (\A k \in 1..n : q[k] = t[i + k]) /\ TagAt(t, i) = Lowered(q)
    BY <2>4, <2>8, TagAtIs
  <2>10. \A k \in 1..n : AlikeTyped(p[k], q[k])
    <3> TAKE k \in 1..n
    <3>1. i + k \in 1..Len(s)
      BY <2>1, <2>2
    <3>2. AlikeTyped(s[i + k], t[i + k])
      BY <3>1
    <3> QED BY <2>3, <2>9, <3>2
  <2> HIDE DEF n, p, q
  <2>11. Lowered(p) = Lowered(q)
    BY <2>3, <2>9, <2>10, AlikeLowered
  <2> QED BY <2>3, <2>9, <2>11
<1>3. FirstPlaces(s) = FirstPlaces(t)
  <2>1. ASSUME NEW i \in TagStarts(s)
        PROVE  (\A j \in TagStarts(s) : j < i => TagAt(s, j) # TagAt(s, i))
                  <=> (\A j \in TagStarts(s) : j < i => TagAt(t, j) # TagAt(t, i))
    BY <1>2
  <2> QED BY <1>1, <2>1, Zenon DEF FirstPlaces
<1>4. \A i \in FirstPlaces(s) : TagAt(s, i) = TagAt(t, i)
  BY <1>2 DEF FirstPlaces
<1> DEFINE first == FirstPlaces(s)
           k == Cardinality(first)
           order == Order(first)
<1>5. /\ ParseHashtags(s) = [n \in 1..k |-> TagAt(s, order[n])]
      /\ order \in [1..k -> first]
  BY ParseIs DEF Lists
<1>6. ParseHashtags(t) = [n \in 1..k |-> TagAt(t, order[n])]
  <2>1. ParseHashtags(t) = [n \in 1..Cardinality(FirstPlaces(t))
                              |-> TagAt(t, Order(FirstPlaces(t))[n])]
    BY ParseIs
  <2> QED BY <1>3, <2>1
<1> HIDE DEF k, order
<1>7. \A n \in 1..k : TagAt(s, order[n]) = TagAt(t, order[n])
  BY <1>4, <1>5
<1> QED BY <1>5, <1>6, <1>7

\* The only place of a single place is the first.
LEMMA OrderOfOne == Order({1})[1] = 1 /\ Cardinality({1}) = 1
<1>1. IsFiniteSet({1}) /\ Cardinality({1}) = 1 /\ {1} \in SUBSET Nat
  BY FS_Singleton
<1>2. Lists(Order({1}), {1})
  BY <1>1, OrderLists
<1> QED BY <1>1, <1>2 DEF Lists

\* The tag t, written as a hashtag, is its first n characters: all, or those
\* before a combining dot.
GivesBack(t, n) ==
    /\ ParseHashtags(<<"#">> \o t) = <<SubSeq(t, 1, n)>>
    /\ \A k \in 1..n : t[k] # "^"
    /\ n = Len(t) \/ t[n + 1] = "^"

\* What a caption with one hashtag gives.
LEMMA OneHashtag ==
    ASSUME NEW A, NEW s \in Seq(A), TagStarts(s) = {1}
    PROVE  ParseHashtags(s) = <<TagAt(s, 1)>>
<1>1. FirstPlaces(s) = {1}
  BY DEF FirstPlaces
<1>2. ParseHashtags(s) = [m \in 1..1 |-> TagAt(s, Order({1})[m])]
  <2>1. ParseHashtags(s) = [m \in 1..Cardinality(FirstPlaces(s))
                              |-> TagAt(s, Order(FirstPlaces(s))[m])]
    BY ParseIs
  <2> QED BY <1>1, <2>1, OrderOfOne
<1>3. ParseHashtags(s) = [m \in 1..1 |-> TagAt(s, 1)]
  BY <1>2, OrderOfOne
<1> QED BY <1>3

\* Every tag is given back this way.
LEMMA TagOfTag ==
    ASSUME NEW t \in Tags
    PROVE  \E n \in 1..Len(t) : GivesBack(t, n)
<1> DEFINE Both == TagChars \cup {"#"}
           hash == "#"
           dot  == "^"
           s == <<hash>> \o t
           m == Len(t)
<1>1. t \in Seq(TagChars) /\ t # <<>> /\ t[1] # dot
  BY Zenon DEF Tags
<1>2. m \in Nat \ {0} /\ \A k \in 1..m : t[k] \in TagChars
  BY <1>1
<1>3. s \in Seq(Both)
  <2>1. TagChars \subseteq Both /\ hash \in Both
    OBVIOUS
  <2> HIDE DEF Both, hash
  <2>2. t \in Seq(Both)
    BY <1>1, <2>1, LargerAlphabet, Zenon
  <2>3. <<hash>> \in Seq(Both)
    BY <2>1
  <2> QED BY <2>2, <2>3
<1> HIDE DEF hash, dot
<1>4. Len(s) = m + 1 /\ s[1] = hash /\ \A k \in 1..m : s[1 + k] = t[k]
  BY <1>1
<1>5. /\ \A c \in TagChars : c # hash /\ (~HashtagChar(c) => c = dot)
      /\ \A c \in TagChars : HashtagChar(c) => c \in Plain /\ c # dot
      /\ ~HashtagChar(dot)
  BY PlainIs DEF hash, dot, TagChars
<1>6. \A k \in 1..m : t[k] # hash /\ (HashtagChar(t[k]) <=> t[k] # dot)
  BY <1>2, <1>5
<1> HIDE DEF s, m, Both
<1>7. TagStarts(s) = {1}
  <2>1. \A i : i \in TagStarts(s) <=> i \in 1..m /\ s[i] = hash /\ HashtagChar(s[i + 1])
    <3>1. TagStarts(s) = {i \in 1..(Len(s) - 1) : s[i] = hash /\ HashtagChar(s[i + 1])}
      BY Zenon DEF TagStarts, hash
    <3>2. Len(s) - 1 = m
      BY <1>2, <1>4
    <3> QED BY <3>1, <3>2
  <2>2. 1 \in 1..m /\ s[1 + 1] = t[1] /\ HashtagChar(t[1])
    BY <1>1, <1>2, <1>4, <1>6
  <2>3. ASSUME NEW i \in 1..m, s[i] = hash PROVE i = 1
    <3>1. ASSUME i # 1 PROVE FALSE
      <4>1. i - 1 \in 1..m /\ 1 + (i - 1) = i
        BY <1>2, <3>1
      <4> QED BY <1>4, <1>6, <2>3, <4>1
    <3> QED BY <3>1
  <2> QED BY <1>4, <2>1, <2>2, <2>3
<1> DEFINE n   == TagEnd(s, 1) - 1
           run == RunAt(s, 1)
           top == SubSeq(t, 1, n)
<1>8. /\ n \in Nat \ {0} /\ run \in Seq(Both) /\ run # <<>> /\ Len(run) = n
      /\ \A k \in 1..n : run[k] = s[1 + k] /\ HashtagChar(run[k])
      /\ TagAt(s, 1) = Lowered(run)
  BY <1>3, <1>7, TagAtIs
<1>9. /\ TagEnd(s, 1) \in (1 + 1)..Len(s)
      /\ TagEnd(s, 1) = Len(s) \/ ~HashtagChar(s[TagEnd(s, 1) + 1])
  BY <1>3, <1>7, TagEndIs DEF EndsRun
<1>10. n \in 1..m /\ TagEnd(s, 1) = n + 1
  BY <1>2, <1>4, <1>9
<1> HIDE DEF n, run
<1>11. \A k \in 1..n : k \in 1..m /\ run[k] = t[k] /\ run[k] \in Plain /\ t[k] # dot
  <2> TAKE k \in 1..n
  <2>1. k \in 1..m
    BY <1>2, <1>10
  <2>2. run[k] = t[k] /\ HashtagChar(t[k]) /\ t[k] \in TagChars
    BY <1>2, <1>4, <1>8, <2>1
  <2> QED BY <1>5, <2>1, <2>2
<1>12. Lowered(run) = run
  BY <1>8, <1>11, LoweredIs
<1>13. top \in Seq(TagChars) /\ Len(top) = n /\ \A k \in 1..n : top[k] = t[k]
  BY <1>1, <1>2, <1>10 DEF m
<1>14. run = top
  <2> HIDE DEF top
  <2>1. run \in Seq(TagChars)
    <3>1. \A k \in 1..n : run[k] \in TagChars
      BY <1>2, <1>11
    <3>2. run = [k \in 1..n |-> run[k]]
      BY <1>8
    <3> QED BY <1>8, <3>1, <3>2
  <2>2. top \in Seq(TagChars) /\ Len(run) = Len(top)
    BY <1>8, <1>13
  <2>3. \A k \in 1..Len(run) : run[k] = top[k]
    BY <1>8, <1>11, <1>13
  <2> QED BY <2>1, <2>2, <2>3, SameSeq
<1>15. ParseHashtags(s) = <<top>>
  BY <1>3, <1>7, <1>8, <1>12, <1>14, OneHashtag
<1>16. n = m \/ t[n + 1] = dot
  <2> SUFFICES ASSUME n # m PROVE t[n + 1] = dot
    OBVIOUS
  <2>1. n + 1 \in 1..m /\ (n + 1) + 1 = 1 + (n + 1) /\ n + 1 # m + 1
    BY <1>2, <1>10
  <2>2. ~HashtagChar(s[(n + 1) + 1]) /\ s[(n + 1) + 1] = t[n + 1]
    BY <1>4, <1>9, <1>10, <2>1
  <2> QED BY <1>6, <2>1, <2>2
<1>17. GivesBack(t, n)
  BY <1>11, <1>15, <1>16, Zenon DEF GivesBack, s, m, top, hash, dot
<1> QED BY <1>10, <1>17 DEF m

\* The tags of a caption without a dotted capital are plain.
LEMMA TagsArePlain ==
    ASSUME NEW A, NEW caption \in Seq(A), "D" \notin ToSet(caption),
           NEW t \in ToSet(ParseHashtags(caption))
    PROVE  \A k \in 1..Len(t) : t[k] # "^"
<1> DEFINE first == FirstPlaces(caption)
           tags  == ParseHashtags(caption)
           capital == "D"
           dot == "^"
<1>1. /\ first \subseteq TagStarts(caption)
      /\ tags = [n \in 1..Cardinality(first) |-> TagAt(caption, Order(first)[n])]
      /\ Order(first) \in [1..Cardinality(first) -> first]
  BY ParseIs DEF Lists
<1>2. PICK n \in DOMAIN tags : tags[n] = t
  BY DEF ToSet
<1>3. PICK i \in TagStarts(caption) : t = TagAt(caption, i)
  <2> HIDE DEF first
  <2>1. n \in 1..Cardinality(first) /\ tags[n] = TagAt(caption, Order(first)[n])
    BY <1>1, <1>2
  <2> QED BY <1>1, <1>2, <2>1
<1>4. \A k \in 1..Len(caption) : caption[k] # capital
  BY InSeq
<1> DEFINE run == RunAt(caption, i)
           len == TagEnd(caption, i) - i
<1>5. /\ run \in Seq(A) /\ run # <<>> /\ Len(run) = len /\ t = Lowered(run)
      /\ \A k \in 1..len : run[k] = caption[i + k] /\ HashtagChar(run[k])
  BY <1>3, TagAtIs
<1>6. TagEnd(caption, i) \in (i + 1)..Len(caption) /\ i \in 1..Len(caption)
  BY TagEndIs DEF EndsRun
<1>7. \A k \in 1..len : run[k] # capital
  <2> TAKE k \in 1..len
  <2>1. i + k \in 1..Len(caption)
    BY <1>6
  <2> HIDE DEF run, len, capital
  <2> QED BY <1>4, <1>5, <2>1
<1> HIDE DEF run, len
<1>8. t \in Seq(Plain)
  BY <1>5, <1>7, LoweredIs
<1> HIDE DEF capital, dot
<1>9. \A k \in 1..Len(t) : t[k] \in Plain
  BY <1>8
<1>10. \A c \in Plain : c # dot
  BY PlainIs DEF dot
<1> QED BY <1>9, <1>10 DEF dot

\* However the letters and dashes of a caption are typed, it has the same
\* hashtags, and a tag is the hashtag of its own name, up to a combining dot,
\* which only a dotted capital leaves in it.
THEOREM TagsAreStable == Spec => []NamesAreStable
<1> DEFINE Typed(c) == CASE c = "A" -> "a" [] c = "_" -> "-" [] OTHER -> c
<1>1. \A c : AlikeTyped(c, Typed(c))
  <2> TAKE c
  <2>1. CASE c = "A"
    BY <2>1 DEF AlikeTyped
  <2>2. CASE c = "_"
    BY <2>2 DEF AlikeTyped
  <2>3. CASE c # "A" /\ c # "_"
    BY <2>3 DEF AlikeTyped
  <2> QED BY <2>1, <2>2, <2>3
<1>2. \A c \in Characters : Typed(c) \in Characters \cup {"a", "-"}
  OBVIOUS
<1> HIDE DEF Typed
<1>3. ASSUME NEW caption \in Seq(Characters)
      PROVE  ParseHashtags([i \in DOMAIN caption |-> Typed(caption[i])]) = ParseHashtags(caption)
  <2> DEFINE More == Characters \cup {"a", "-"}
             typed == [i \in DOMAIN caption |-> Typed(caption[i])]
  <2>1. Characters \subseteq More
    OBVIOUS
  <2>2. \A c \in Characters : Typed(c) \in More
    BY <1>2
  <2> HIDE DEF More
  <2>3. caption \in Seq(More)
    BY <2>1, LargerAlphabet
  <2>4. typed \in Seq(More) /\ Len(typed) = Len(caption)
    BY <2>2
  <2>5. \A i \in 1..Len(caption) : AlikeTyped(caption[i], typed[i])
    BY <1>1
  <2> HIDE DEF typed
  <2>6. ParseHashtags(typed) = ParseHashtags(caption)
    BY <2>3, <2>4, <2>5, AlikeIsSame
  <2> QED BY <2>6 DEF typed
<1>4. ASSUME NEW caption \in Seq(Characters), NEW t \in ToSet(ParseHashtags(caption))
      PROVE  \E n \in 1..Len(t) :
                GivesBack(t, n) /\ ("D" \notin ToSet(caption) => n = Len(t))
  <2>1. ParseHashtags(caption) \in Seq(Tags)
    BY ParseGives
  <2>2. t \in Tags
    BY <2>1, InSeq
  <2>3. t \in Seq(TagChars)
    BY <2>2 DEF Tags
  <2>4. PICK n \in 1..Len(t) : GivesBack(t, n)
    BY <2>2, TagOfTag
  <2>5. ASSUME "D" \notin ToSet(caption) PROVE n = Len(t)
    <3>1. \A k \in 1..Len(t) : t[k] # "^"
      BY <2>5, TagsArePlain
    <3>2. n = Len(t) \/ t[n + 1] = "^"
      BY <2>4, Zenon DEF GivesBack
    <3>3. n # Len(t) => n + 1 \in 1..Len(t)
      BY <2>3
    <3> QED BY <3>1, <3>2, <3>3, Zenon
  <2> QED BY <2>4, <2>5, Zenon
<1>5. CallTypeOK => NamesAreStable
  <2> SUFFICES ASSUME CallTypeOK, call.fn = "parse_hashtags" PROVE NamesAreStable
    BY DEF NamesAreStable
  <2>1. call.caption \in Seq(Characters)
    BY Zenon DEF CallTypeOK
  <2>2. \A t \in ToSet(ParseHashtags(call.caption)) : \E n \in 1..Len(t) :
           GivesBack(t, n) /\ ("D" \notin ToSet(call.caption) => n = Len(t))
    BY <1>4, <2>1, Zenon
  <2> QED BY <1>3, <2>1, <2>2, Zenon DEF NamesAreStable, Typed, GivesBack
<1> QED BY <1>5, CallsAreTyped, PTL

-----------------------------------------------------------------------------
(***************************************************************************)
(* The order of tags, and their line.                                      *)
(***************************************************************************)

\* s comes before t at the place i: s ends there, or has the smaller character.
Precedes(s, t, code, i) ==
    /\ i \in 1..(Len(s) + 1) /\ i <= Len(t)
    /\ \A k \in 1..(i - 1) : s[k] = t[k]
    /\ i = Len(s) + 1 \/ code[s[i]] < code[t[i]]

IsBefore(s, t, code) == \E i : Precedes(s, t, code, i)

\* Of three texts in a row the first comes before the last.
LEMMA BeforeIsTransitive ==
    ASSUME NEW A, NEW code \in [A -> Nat], NEW s \in Seq(A), NEW t \in Seq(A), NEW u \in Seq(A),
           IsBefore(s, t, code), IsBefore(t, u, code)
    PROVE  IsBefore(s, u, code)
<1> DEFINE a == Len(s)
           b == Len(t)
           c == Len(u)
           S(k) == code[s[k]]
           T(k) == code[t[k]]
           U(k) == code[u[k]]
<1>1. /\ a \in Nat /\ b \in Nat /\ c \in Nat
      /\ (\A k \in 1..a : S(k) \in Nat) /\ (\A k \in 1..b : T(k) \in Nat)
      /\ (\A k \in 1..c : U(k) \in Nat)
  OBVIOUS
<1>2. PICK i : Precedes(s, t, code, i)
  BY DEF IsBefore
<1>3. PICK j : Precedes(t, u, code, j)
  BY DEF IsBefore
<1>4. /\ i \in 1..(a + 1) /\ i <= b /\ \A k \in 1..(i - 1) : s[k] = t[k]
      /\ i = a + 1 \/ S(i) < T(i)
  BY <1>2 DEF Precedes
<1>5. /\ j \in 1..(b + 1) /\ j <= c /\ \A k \in 1..(j - 1) : t[k] = u[k]
      /\ j = b + 1 \/ T(j) < U(j)
  BY <1>3 DEF Precedes
<1>6. SUFFICES \E l \in 1..(a + 1) : /\ l <= c /\ \A k \in 1..(l - 1) : s[k] = u[k]
                                     /\ l = a + 1 \/ S(l) < U(l)
  BY DEF IsBefore, Precedes
<1>7. \A k : t[k] = u[k] => T(k) = U(k)
  OBVIOUS
<1>8. \A k : s[k] = t[k] => S(k) = T(k)
  OBVIOUS
<1> HIDE DEF a, b, c, S, T, U
<1>9. CASE i < j
  <2>1. i <= c /\ i \in 1..(j - 1) /\ T(i) = U(i)
    BY <1>1, <1>4, <1>5, <1>7, <1>9
  <2>2. \A k \in 1..(i - 1) : s[k] = u[k]
    <3>1. \A k \in 1..(i - 1) : k \in 1..(j - 1)
      BY <1>1, <1>4, <1>5, <1>9
    <3> QED BY <1>4, <1>5, <3>1
  <2> QED BY <1>4, <2>1, <2>2
<1>10. CASE j < i
  <2>1. j \in 1..(a + 1) /\ j # b + 1 /\ j \in 1..(i - 1) /\ S(j) = T(j)
    BY <1>1, <1>4, <1>5, <1>8, <1>10
  <2>2. \A k \in 1..(j - 1) : s[k] = u[k]
    <3>1. \A k \in 1..(j - 1) : k \in 1..(i - 1)
      BY <1>1, <1>4, <1>5, <1>10
    <3> QED BY <1>4, <1>5, <3>1
  <2> QED BY <1>5, <2>1, <2>2
<1>11. CASE i = j
  <2>1. j # b + 1 /\ T(i) < U(i) /\ i <= c
    BY <1>1, <1>4, <1>5, <1>11
  <2>2. \A k \in 1..(i - 1) : s[k] = u[k]
    BY <1>4, <1>5, <1>11
  <2>3. i = a + 1 \/ S(i) < U(i)
    <3>1. CASE i # a + 1
      <4>1. i \in 1..a /\ i \in 1..b /\ i \in 1..c
        BY <1>1, <1>4, <2>1, <3>1
      <4>2. S(i) \in Nat /\ T(i) \in Nat /\ U(i) \in Nat
        BY <1>1, <4>1
      <4> QED BY <1>4, <2>1, <3>1, <4>2
    <3> QED BY <3>1
  <2> QED BY <1>4, <2>1, <2>2, <2>3
<1>12. i \in Int /\ j \in Int
  BY <1>1, <1>4, <1>5
<1> QED BY <1>9, <1>10, <1>11, <1>12

\* Of two texts one comes before the other.
LEMMA BeforeIsTotal ==
    ASSUME NEW A, NEW code \in [A -> Nat], \A c, d \in A : code[c] = code[d] => c = d,
           NEW s \in Seq(A), NEW t \in Seq(A), s # t
    PROVE  IsBefore(s, t, code) \/ IsBefore(t, s, code)
<1> DEFINE a == Len(s)
           b == Len(t)
           S(k) == code[s[k]]
           T(k) == code[t[k]]
           Differ == {k \in Nat : k # 0 /\ (k > a \/ k > b \/ s[k] # t[k])}
<1>1. a \in Nat /\ b \in Nat
  OBVIOUS
<1>2. \A k \in 1..a : \A l \in 1..b :
         S(k) \in Nat /\ T(l) \in Nat /\ (S(k) = T(l) => s[k] = t[l])
  <2> SUFFICES ASSUME NEW k \in 1..a, NEW l \in 1..b
               PROVE  S(k) \in Nat /\ T(l) \in Nat /\ (S(k) = T(l) => s[k] = t[l])
    OBVIOUS
  <2>1. s[k] \in A /\ t[l] \in A
    OBVIOUS
  <2> QED BY <2>1
<1>3. PICK d \in Differ : \A k \in Differ : d <= k
  <2>1. a + 1 \in Differ
    BY <1>1
  <2> QED BY <2>1, Minimum
<1>4. a + 1 \in Differ /\ b + 1 \in Differ
  BY <1>1
<1>5. /\ d \in 1..(a + 1) /\ d \in 1..(b + 1)
      /\ d > a \/ d > b \/ s[d] # t[d]
  <2>1. d <= a + 1 /\ d <= b + 1
    BY <1>3, <1>4
  <2>2. d \in Nat /\ d # 0 /\ (d > a \/ d > b \/ s[d] # t[d])
    BY <1>3
  <2> HIDE DEF Differ
  <2> QED BY <1>1, <2>1, <2>2
<1>6. \A k \in 1..(d - 1) : s[k] = t[k]
  <2> SUFFICES ASSUME NEW k \in 1..(d - 1) PROVE s[k] = t[k]
    OBVIOUS
  <2>1. k \in Nat /\ k # 0 /\ ~(d <= k)
    BY <1>5
  <2>2. k \notin Differ
    BY <1>3, <2>1
  <2> QED BY <2>1, <2>2
<1>7. ~(d > a /\ d > b)
  <2>1. ASSUME d > a, d > b PROVE FALSE
    <3>1. a = b /\ d - 1 = a
      BY <1>1, <1>5, <2>1
    <3>2. s = t
      BY <1>6, <3>1, SameSeq
    <3> QED BY <3>2
  <2> QED BY <2>1
<1>8. /\ (\E l \in 1..(a + 1) : /\ l <= b /\ \A k \in 1..(l - 1) : s[k] = t[k]
                                /\ l = a + 1 \/ S(l) < T(l)) => IsBefore(s, t, code)
      /\ (\E l \in 1..(b + 1) : /\ l <= a /\ \A k \in 1..(l - 1) : t[k] = s[k]
                                /\ l = b + 1 \/ T(l) < S(l)) => IsBefore(t, s, code)
  <2>1. ASSUME NEW l \in 1..(a + 1), l <= b, \A k \in 1..(l - 1) : s[k] = t[k],
               l = a + 1 \/ S(l) < T(l)
        PROVE  IsBefore(s, t, code)
    <3>1. Precedes(s, t, code, l)
      BY <2>1 DEF Precedes
    <3> QED BY <3>1 DEF IsBefore
  <2>2. ASSUME NEW l \in 1..(b + 1), l <= a, \A k \in 1..(l - 1) : t[k] = s[k],
               l = b + 1 \/ T(l) < S(l)
        PROVE  IsBefore(t, s, code)
    <3>1. Precedes(t, s, code, l)
      BY <2>2 DEF Precedes
    <3> QED BY <3>1 DEF IsBefore
  <2> QED BY <2>1, <2>2
<1> HIDE DEF a, b, S, T, Differ
<1>9. CASE d > a
  <2>1. d = a + 1 /\ d <= b
    BY <1>1, <1>5, <1>7, <1>9
  <2> QED BY <1>5, <1>6, <1>8, <2>1
<1>10. CASE d > b
  <2>1. d = b + 1 /\ d <= a
    BY <1>1, <1>5, <1>7, <1>10
  <2> QED BY <1>5, <1>6, <1>8, <2>1
<1>11. CASE ~(d > a) /\ ~(d > b)
  <2>1. d \in 1..a /\ d \in 1..b /\ s[d] # t[d]
    BY <1>1, <1>5, <1>11
  <2>2. S(d) < T(d) \/ T(d) < S(d)
    BY <1>2, <2>1
  <2>3. d <= a /\ d <= b
    BY <2>1
  <2> QED BY <1>5, <1>6, <1>8, <2>2, <2>3
<1> QED BY <1>9, <1>10, <1>11

\* Two texts begin the same way when they have the same characters there.
LEMMA SameStart ==
    ASSUME NEW A, NEW s \in Seq(A), NEW t \in Seq(A), NEW n \in Nat, n <= Len(s), n <= Len(t)
    PROVE  SubSeq(s, 1, n) = SubSeq(t, 1, n) <=> \A k \in 1..n : s[k] = t[k]
<1> DEFINE p == SubSeq(s, 1, n)
           q == SubSeq(t, 1, n)
<1>1. /\ p \in Seq(A) /\ q \in Seq(A) /\ Len(p) = n /\ Len(q) = n
      /\ \A k \in 1..n : p[k] = s[k] /\ q[k] = t[k]
  OBVIOUS
<1> HIDE DEF p, q
<1>2. ASSUME p = q PROVE \A k \in 1..n : s[k] = t[k]
  BY <1>1, <1>2
<1>3. ASSUME \A k \in 1..n : s[k] = t[k] PROVE p = q
  <2>1. \A k \in 1..Len(p) : p[k] = q[k]
    BY <1>1, <1>3
  <2> QED BY <1>1, <2>1, SameSeq
<1> QED BY <1>2, <1>3 DEF p, q

\* The code points of what tags are made of, which tell them apart.
Codes == [c \in TagChars |-> CodePoint(c)]

\* They are numbers.
LEMMA CodesAre ==
    Codes \in [TagChars -> Nat] /\ \A c, d \in TagChars : Codes[c] = Codes[d] => c = d
<1> DEFINE a == "a"
           h == "h"
           s == "s"
           z == "z"
           u == "_"
           dot == "^"
           Known(c) == \/ c = a /\ Codes[c] = 97
                       \/ c = h /\ Codes[c] = 104
                       \/ c = s /\ Codes[c] = 963
                       \/ c = z /\ Codes[c] = 962
                       \/ c = u /\ Codes[c] = 95
                       \/ c = dot /\ Codes[c] = 775
<1>1. ASSUME NEW c \in TagChars PROVE Known(c)
  <2>1. c = "a" \/ c = "h" \/ c = "s" \/ c = "z" \/ c = "_" \/ c = "^"
    BY DEF TagChars, Plain, Small
  <2>2. Codes[c] = CodePoint(c)
    BY DEF Codes
  <2>3. CASE c = "a"
    <3>1. CodePoint("a") = 97
      BY SMTT(20) DEF CodePoint
    <3>2. Codes[c] = 97
      BY <2>2, <2>3, <3>1
    <3>3. c = a
      BY <2>3
    <3> QED BY <3>2, <3>3
  <2>4. CASE c = "h"
    <3>1. CodePoint("h") = 104
      BY SMTT(20) DEF CodePoint
    <3>2. Codes[c] = 104
      BY <2>2, <2>4, <3>1
    <3>3. c = h
      BY <2>4
    <3> QED BY <3>2, <3>3
  <2>5. CASE c = "s"
    <3>1. CodePoint("s") = 963
      BY SMTT(20) DEF CodePoint
    <3>2. Codes[c] = 963
      BY <2>2, <2>5, <3>1
    <3>3. c = s
      BY <2>5
    <3> QED BY <3>2, <3>3
  <2>6. CASE c = "z"
    <3>1. CodePoint("z") = 962
      BY SMTT(20) DEF CodePoint
    <3>2. Codes[c] = 962
      BY <2>2, <2>6, <3>1
    <3>3. c = z
      BY <2>6
    <3> QED BY <3>2, <3>3
  <2>7. CASE c = "_"
    <3>1. CodePoint("_") = 95
      BY SMTT(20) DEF CodePoint
    <3>2. Codes[c] = 95
      BY <2>2, <2>7, <3>1
    <3>3. c = u
      BY <2>7
    <3> QED BY <3>2, <3>3
  <2>8. CASE c = "^"
    <3>1. CodePoint("^") = 775
      BY SMTT(20) DEF CodePoint
    <3>2. Codes[c] = 775
      BY <2>2, <2>8, <3>1
    <3>3. c = dot
      BY <2>8
    <3> QED BY <3>2, <3>3
  <2> HIDE DEF Known
  <2> QED BY <2>1, <2>3, <2>4, <2>5, <2>6, <2>7, <2>8
<1> HIDE DEF a, h, s, z, u, dot
<1>3. ASSUME NEW c \in TagChars PROVE Codes[c] \in Nat
  BY <1>1
<1>4. ASSUME NEW c \in TagChars, NEW d \in TagChars, Codes[c] = Codes[d] PROVE c = d
  BY <1>1, <1>4
<1>5. Codes = [c \in TagChars |-> Codes[c]]
  BY DEF Codes
<1> QED BY <1>3, <1>4, <1>5

\* The order of sorted() is this one.
LEMMA LessIsBefore ==
    ASSUME NEW s \in Seq(TagChars), NEW t \in Seq(TagChars)
    PROVE  Less(s, t) <=> IsBefore(s, t, Codes)
<1> DEFINE a == Len(s)
           b == Len(t)
           Same(i) == SubSeq(s, 1, i - 1) = SubSeq(t, 1, i - 1)
           Smaller(i) == CodePoint(s[i]) < CodePoint(t[i])
           Code(i) == Codes[s[i]] < Codes[t[i]]
<1>1. a \in Nat /\ b \in Nat
  OBVIOUS
<1>2. \A i \in 1..(a + 1) : i <= b => (Same(i) <=> \A k \in 1..(i - 1) : s[k] = t[k])
  <2> SUFFICES ASSUME NEW i \in 1..(a + 1), i <= b
               PROVE  Same(i) <=> \A k \in 1..(i - 1) : s[k] = t[k]
    OBVIOUS
  <2> DEFINE n == i - 1
  <2>1. n \in Nat /\ n <= a /\ n <= b
    BY <1>1
  <2> HIDE DEF n
  <2>2. SubSeq(s, 1, n) = SubSeq(t, 1, n) <=> \A k \in 1..n : s[k] = t[k]
    BY <2>1, SameStart
  <2> QED BY <2>2 DEF n
<1>3. \A i \in 1..a : i <= b => (Smaller(i) <=> Code(i))
  <2> SUFFICES ASSUME NEW i \in 1..a, i <= b PROVE Smaller(i) <=> Code(i)
    OBVIOUS
  <2>1. i \in 1..b
    BY <1>1
  <2>2. s[i] \in TagChars /\ t[i] \in TagChars
    BY <2>1
  <2>3. Codes[s[i]] = CodePoint(s[i]) /\ Codes[t[i]] = CodePoint(t[i])
    BY <2>2 DEF Codes
  <2> QED BY <2>3
<1>4. \A i : Precedes(s, t, Codes, i) <=> /\ i \in 1..(a + 1) /\ i <= b
                                          /\ \A k \in 1..(i - 1) : s[k] = t[k]
                                          /\ i = a + 1 \/ Code(i)
  BY DEF Precedes
<1>5. Less(s, t) <=> \E i \in 1..(a + 1) : i <= b /\ Same(i) /\ (i = a + 1 \/ Smaller(i))
  BY Zenon DEF Less
<1> HIDE DEF a, b, Same, Smaller, Code
<1>6. \A i \in 1..(a + 1) : i # a + 1 => i \in 1..a
  BY <1>1
<1>7. ASSUME NEW i \in 1..(a + 1), i <= b
      PROVE  Same(i) /\ (i = a + 1 \/ Smaller(i)) <=> Precedes(s, t, Codes, i)
  BY <1>2, <1>3, <1>4, <1>6, <1>7, Zenon
<1>8. \A i : Precedes(s, t, Codes, i) => i \in 1..(a + 1) /\ i <= b
  BY <1>4, Zenon
<1> QED BY <1>5, <1>7, <1>8, Zenon DEF IsBefore

\* So tags are totally ordered.
LEMMA TagsAreOrdered ==
    Totals({ss \in Tags \X Tags : Less(ss[1], ss[2])}, Tags)
<1> DEFINE L == {ss \in Tags \X Tags : Less(ss[1], ss[2])}
<1>1. \A s, t \in Tags : <<s, t>> \in L <=> Less(s, t)
  OBVIOUS
<1> HIDE DEF L
<1>2. \A s \in Tags : s \in Seq(TagChars)
  BY DEF Tags
<1>3. \A s, t \in Tags : <<s, t>> \in L <=> IsBefore(s, t, Codes)
  BY <1>1, <1>2, LessIsBefore
<1>4. ASSUME NEW s \in Tags, NEW t \in Tags, NEW u \in Tags, <<s, t>> \in L, <<t, u>> \in L
      PROVE  <<s, u>> \in L
  <2>1. IsBefore(s, t, Codes) /\ IsBefore(t, u, Codes)
    BY <1>3, <1>4
  <2>2. s \in Seq(TagChars) /\ t \in Seq(TagChars) /\ u \in Seq(TagChars)
    BY <1>2
  <2>3. IsBefore(s, u, Codes)
    BY <2>1, <2>2, CodesAre, BeforeIsTransitive
  <2> QED BY <1>3, <2>3
<1>5. ASSUME NEW s \in Tags, NEW t \in Tags, s # t
      PROVE  <<s, t>> \in L \/ <<t, s>> \in L
  <2>1. s \in Seq(TagChars) /\ t \in Seq(TagChars)
    BY <1>2
  <2>2. IsBefore(s, t, Codes) \/ IsBefore(t, s, Codes)
    BY <1>5, <2>1, CodesAre, BeforeIsTotal
  <2> QED BY <1>3, <2>2
<1> QED BY <1>4, <1>5, Zenon DEF Totals, L

\* The sorted tags of a key are tags, at least one.
LEMMA SortedTagsAre ==
    ASSUME NEW tags \in Seq(Tags), tags # <<>>
    PROVE  LET s == SortedTags(tags)
           IN  s \in Seq(Tags) /\ Len(s) \in Nat /\ Len(s) > 0 /\ s = [k \in 1..Len(s) |-> s[k]]
<1> DEFINE S == ToSet(tags)
           L == {ss \in Tags \X Tags : Less(ss[1], ss[2])}
           k == Cardinality(S)
           place == [i \in 1..Len(tags) |-> tags[i]]
<1>1. \A x, y \in Tags : <<x, y>> \in L <=> Less(x, y)
  OBVIOUS
<1>2. Totals(L, Tags)
  BY TagsAreOrdered
<1>3. S \subseteq Tags /\ Len(tags) \in Nat /\ \A y : y \in S <=> \E i \in 1..Len(tags) : tags[i] = y
  BY InSeq
<1>4. Len(tags) > 0
  <2>1. Len(tags) # 0
    OBVIOUS
  <2> QED BY <1>3, <2>1
<1> HIDE DEF L, S
<1>5. IsFiniteSet(S) /\ S # {}
  <2>1. place \in Surjection(1..Len(tags), S)
    <3>1. place \in [1..Len(tags) -> S] /\ \A y \in S : \E i \in 1..Len(tags) : place[i] = y
      BY <1>3
    <3> QED BY <3>1 DEF Surjection
  <2>2. IsFiniteSet(1..Len(tags))
    BY <1>3, FS_Interval
  <2>3. 1 \in 1..Len(tags)
    BY <1>3, <1>4
  <2> QED BY <1>3, <2>1, <2>2, <2>3, FS_Surjection
<1>6. k \in Nat /\ k > 0
  BY <1>5, FS_CardinalityType, FS_EmptySet
<1>7. Totals(L, S)
  BY <1>2, <1>3 DEF Totals
<1>8. PICK f : InLine(f, S, L)
  BY <1>5, <1>7, AllCanLine DEF CanLine
<1>9. f \in [1..k -> S] /\ \A i, j \in 1..k : i < j => <<f[i], f[j]>> \in L
  BY <1>8 DEF InLine
<1> HIDE DEF k
<1>10. \A i, j \in 1..k : i < j => Less(f[i], f[j])
  <2>1. \A i \in 1..k : f[i] \in Tags
    BY <1>3, <1>9
  <2> QED BY <1>1, <1>9, <2>1
<1>11. InOrder(S) \in [1..k -> S]
  BY <1>9, <1>10 DEF InOrder, k
<1>12. SortedTags(tags) = InOrder(S)
  BY DEF SortedTags, S
<1> DEFINE s == SortedTags(tags)
<1>13. s \in [1..k -> Tags]
  BY <1>3, <1>11, <1>12
<1> HIDE DEF s
<1>14. s \in Seq(Tags) /\ Len(s) = k
  BY <1>6, <1>13
<1>15. s = [i \in 1..Len(s) |-> s[i]]
  BY <1>13, <1>14
<1> QED BY <1>6, <1>14, <1>15 DEF s

-----------------------------------------------------------------------------
(***************************************************************************)
(* The parts of the name of a file.                                        *)
(***************************************************************************)

\* What grows at every step grows over several.
LEMMA Grows ==
    ASSUME NEW m \in Nat, NEW e \in [0..m -> Nat], \A k \in 1..m : e[k - 1] < e[k]
    PROVE  \A i, j \in 0..m : i < j => e[i] < e[j]
<1> DEFINE G == {j \in Nat : j \in 0..m => \A i \in 0..m : i < j => e[i] < e[j]}
<1>1. 0 \in G
  OBVIOUS
<1>2. ASSUME NEW j \in Nat, j \in G PROVE j + 1 \in G
  <2> SUFFICES ASSUME j + 1 \in 0..m, NEW i \in 0..m, i < j + 1 PROVE e[i] < e[j + 1]
    OBVIOUS
  <2>1. j \in 0..m /\ j + 1 \in 1..m /\ (j + 1) - 1 = j
    OBVIOUS
  <2>2. e[j] < e[j + 1] /\ e[j] \in Nat /\ e[j + 1] \in Nat /\ e[i] \in Nat
    BY <2>1
  <2>3. CASE i = j
    BY <2>2, <2>3
  <2>4. CASE i < j
    <3>1. e[i] < e[j]
      BY <1>2, <2>1, <2>4
    <3> QED BY <2>2, <3>1
  <2> QED BY <2>3, <2>4
<1>3. \A j \in Nat : j \in G
  <2> HIDE DEF G
  <2> QED BY <1>1, <1>2, Induction
<1> QED BY <1>3

\* f goes up, through all the members of S.
GoesThrough(f, S, c) ==
    /\ f \in [1..c -> S] /\ \A y \in S : \E i \in 1..c : f[i] = y
    /\ \A i, j \in 1..c : i < j => f[i] < f[j]

\* Only one function does: at its first difference from another one, each of the
\* two would have to come later in the other.
LEMMA OneGoesThrough ==
    ASSUME NEW S \in SUBSET Nat, NEW c \in Nat, NEW f, NEW g,
           GoesThrough(f, S, c), GoesThrough(g, S, c)
    PROVE  f = g
<1> DEFINE Bad == {k \in 1..c : f[k] # g[k]}
<1>1. /\ f \in [1..c -> S] /\ (\A y \in S : \E i \in 1..c : f[i] = y)
      /\ \A i, j \in 1..c : i < j => f[i] < f[j]
  BY DEF GoesThrough
<1>2. /\ g \in [1..c -> S] /\ (\A y \in S : \E i \in 1..c : g[i] = y)
      /\ \A i, j \in 1..c : i < j => g[i] < g[j]
  BY DEF GoesThrough
<1>3. ASSUME Bad # {} PROVE FALSE
  <2>1. PICK k \in Bad : \A x \in Bad : k <= x
    <3>1. Bad \in SUBSET Nat
      OBVIOUS
    <3> QED BY <1>3, <3>1, Minimum
  <2>2. \A x \in 1..c : x < k => f[x] = g[x]
    BY <2>1
  <2>3. k \in 1..c /\ f[k] # g[k] /\ f[k] \in S /\ g[k] \in S
    BY <1>1, <1>2, <2>1
  <2>4. f[k] \in Nat /\ g[k] \in Nat
    BY <2>3
  <2> HIDE DEF Bad
  <2>5. PICK i \in 1..c : g[i] = f[k]
    BY <1>2, <2>3
  <2>6. PICK j \in 1..c : f[j] = g[k]
    BY <1>1, <2>3
  <2>7. i # k /\ j # k
    BY <2>3, <2>5, <2>6
  <2>8. ~(i < k)
    <3>1. ASSUME i < k PROVE FALSE
      <4>1. f[i] = f[k] /\ f[i] < f[k]
        BY <1>1, <2>2, <2>3, <2>5, <3>1
      <4> QED BY <2>4, <4>1
    <3> QED BY <3>1
  <2>9. ~(j < k)
    <3>1. ASSUME j < k PROVE FALSE
      <4>1. g[j] = g[k] /\ g[j] < g[k]
        BY <1>2, <2>2, <2>3, <2>6, <3>1
      <4> QED BY <2>4, <4>1
    <3> QED BY <3>1
  <2>10. k < i /\ k < j
    BY <2>3, <2>7, <2>8, <2>9
  <2>11. g[k] < g[i] /\ f[k] < f[j]
    BY <1>1, <1>2, <2>3, <2>10
  <2> QED BY <2>4, <2>5, <2>6, <2>11
<1>4. \A k \in 1..c : f[k] = g[k]
  BY <1>3
<1> HIDE DEF Bad
<1> QED BY <1>1, <1>2, <1>4

\* So a function that does is the order of S.
LEMMA OrderIs ==
    ASSUME NEW S \in SUBSET Nat, NEW c \in Nat, NEW f, GoesThrough(f, S, c)
    PROVE  Cardinality(S) = c /\ Order(S) = f
<1>1. /\ f \in [1..c -> S] /\ (\A y \in S : \E i \in 1..c : f[i] = y)
      /\ \A i, j \in 1..c : i < j => f[i] < f[j]
  BY DEF GoesThrough
<1>2. ASSUME NEW h \in [1..c -> S], \A i, j \in 1..c : i < j => h[i] < h[j]
      PROVE  h \in Injection(1..c, S)
  <2>1. ASSUME NEW i \in 1..c, NEW j \in 1..c, h[i] = h[j] PROVE i = j
    <3>1. h[i] \in S /\ h[j] \in S
      OBVIOUS
    <3>2. h[i] \in Nat /\ h[j] \in Nat /\ i \in Int /\ j \in Int
      <4>1. \A x \in S : x \in Nat
        OBVIOUS
      <4>2. h[i] \in Nat /\ h[j] \in Nat
        BY <3>1, <4>1
      <4>3. i \in Int /\ j \in Int
        OBVIOUS
      <4> QED BY <4>2, <4>3
    <3>3. ~(h[i] < h[j]) /\ ~(h[j] < h[i])
      BY <2>1, <3>2
    <3> QED BY <1>2, <3>2, <3>3
  <2> QED BY <2>1 DEF Injection, IsInjective
<1>3. f \in Injection(1..c, S) /\ f \in Surjection(1..c, S)
  BY <1>1, <1>2 DEF Surjection
<1>4. IsFiniteSet(1..c) /\ Cardinality(1..c) = c
  BY FS_Interval
<1>5. IsFiniteSet(S) /\ Cardinality(S) = c
  BY <1>3, <1>4, FS_Surjection
<1> DEFINE g == Order(S)
<1>6. g \in [1..c -> S] /\ \A i, j \in 1..c : i < j => g[i] < g[j]
  BY <1>5, OrderLists DEF Lists
<1> HIDE DEF g
<1>7. g \in Surjection(1..c, S)
  <2>1. g \in Injection(1..c, S)
    BY <1>2, <1>6
  <2> QED BY <1>4, <1>5, <2>1, FS_Injection
<1>8. GoesThrough(g, S, c)
  BY <1>6, <1>7 DEF GoesThrough, Surjection
<1>9. g = f
  BY <1>8, OneGoesThrough
<1> QED BY <1>5, <1>9 DEF g

\* The text is spelled by the m parts p with dots between them; part k ends
\* before the place e[k].
Spelled(text, p, m, e) ==
    /\ m \in Nat /\ m > 0 /\ e \in [0..m -> Nat] /\ e[0] = 0
    /\ \A k \in 1..m : Len(p[k]) \in Nat /\ e[k] = e[k - 1] + Len(p[k]) + 1
    /\ Len(text) = e[m] - 1
    /\ \A k \in 1..m : \A i \in 1..Len(p[k]) : text[e[k - 1] + i] = p[k][i] /\ p[k][i] # "."
    /\ \A k \in 1..m : k < m => text[e[k]] = "."

\* Where a text has dots, its two ends among them.
Dots(text) == {0, Len(text) + 1} \cup {i \in 1..Len(text) : text[i] = "."}

\* The dots of such a text are where its parts end.
LEMMA DotsAre ==
    ASSUME NEW text, NEW p, NEW m, NEW e, Spelled(text, p, m, e)
    PROVE  /\ \A i : i \in Dots(text) <=> \E k \in 0..m : i = e[k]
           /\ \A i, j \in 0..m : i < j => e[i] < e[j]
<1> DEFINE n == Len(text)
           len(k) == Len(p[k])
           IsDot(i) == text[i] = "."
           In(k, i) == text[e[k - 1] + i] = p[k][i] /\ p[k][i] # "."
<1>1. /\ m \in Nat /\ m > 0 /\ e \in [0..m -> Nat] /\ e[0] = 0
      /\ \A k \in 1..m : len(k) \in Nat /\ e[k] = e[k - 1] + len(k) + 1
      /\ n = e[m] - 1
      /\ \A k \in 1..m : k < m => IsDot(e[k])
  BY DEF Spelled
<1>2. \A k \in 1..m : \A i \in 1..len(k) : ~IsDot(e[k - 1] + i)
  <2>1. \A k \in 1..m : \A i \in 1..len(k) : In(k, i)
    BY DEF Spelled
  <2> QED BY <2>1, Zenon
<1>3. \A i : i \in Dots(text) <=> i = 0 \/ i = n + 1 \/ (i \in 1..n /\ IsDot(i))
  BY DEF Dots
<1> HIDE DEF n, len, IsDot
<1>4. \A k \in 1..m : k - 1 \in 0..m /\ k \in 0..m
  BY <1>1
<1>5. ASSUME NEW k \in 1..m PROVE e[k - 1] < e[k]
  <2>1. e[k - 1] \in Nat /\ len(k) \in Nat /\ e[k] = e[k - 1] + len(k) + 1
    BY <1>1, <1>4
  <2> QED BY <2>1
<1>6. \A i, j \in 0..m : i < j => e[i] < e[j]
  BY <1>1, <1>5, Grows
<1>7. m \in 0..m /\ 0 \in 0..m
  BY <1>1
<1>8. n + 1 = e[m] /\ n \in Nat
  <2>1. e[m] \in Nat /\ e[0] < e[m]
    BY <1>1, <1>6, <1>7
  <2> QED BY <1>1, <2>1
<1>9. ASSUME NEW k \in 0..m PROVE e[k] = 0 \/ e[k] = n + 1 \/ (e[k] \in 1..n /\ IsDot(e[k]))
  <2>1. CASE k = 0
    BY <1>1, <2>1
  <2>2. CASE k = m
    BY <1>8, <2>2
  <2>3. CASE k # 0 /\ k # m
    <3>1. k \in 1..m /\ k < m /\ 0 < k
      BY <1>1, <2>3
    <3>2. e[0] < e[k] /\ e[k] < e[m] /\ e[k] \in Nat
      <4>1. e[k] \in Nat
        BY <1>1
      <4> QED BY <1>6, <1>7, <3>1, <4>1
    <3>3. e[k] \in 1..n
      <4>1. e[0] = 0 /\ e[m] = n + 1 /\ n \in Nat
        BY <1>1, <1>8
      <4> HIDE DEF n
      <4>2. 0 < e[k] /\ e[k] < n + 1 /\ e[k] \in Nat
        BY <3>2, <4>1
      <4> QED BY <4>1, <4>2
    <3>4. IsDot(e[k])
      BY <1>1, <3>1
    <3> QED BY <3>3, <3>4
  <2> QED BY <2>1, <2>2, <2>3
<1>10. ASSUME NEW i \in 1..n, IsDot(i) PROVE \E k \in 0..m : i = e[k]
  <2> DEFINE From == {k \in 0..m : i <= e[k]}
  <2>1. m \in From
    <3>1. i <= e[m]
      BY <1>8
    <3> QED BY <1>7, <3>1
  <2>2. PICK k \in From : \A x \in From : k <= x
    <3>1. From \in SUBSET Nat
      OBVIOUS
    <3> QED BY <2>1, <3>1, Minimum
  <2>3. k \in 0..m /\ i <= e[k] /\ \A x \in 0..m : x < k => ~(i <= e[x])
    BY <2>2
  <2> HIDE DEF From
  <2>4. k # 0
    BY <1>1, <2>3
  <2>5. k \in 1..m /\ k - 1 \in 0..m /\ k - 1 < k
    BY <1>1, <2>3, <2>4
  <2>6. e[k - 1] < i /\ e[k] = e[k - 1] + len(k) + 1 /\ e[k - 1] \in Nat /\ len(k) \in Nat
    <3>1. ~(i <= e[k - 1]) /\ e[k - 1] \in Nat
      BY <1>1, <2>3, <2>5
    <3> QED BY <1>1, <1>8, <2>5, <3>1
  <2>7. ASSUME i # e[k] PROVE FALSE
    <3> DEFINE x == i - e[k - 1]
    <3>1. x \in 1..len(k) /\ e[k - 1] + x = i
      BY <1>8, <2>3, <2>6, <2>7
    <3> HIDE DEF x
    <3>2. ~IsDot(e[k - 1] + x)
      BY <1>2, <2>5, <3>1
    <3> QED BY <1>10, <3>1, <3>2
  <2> QED BY <2>3, <2>7
<1>11. ASSUME NEW i PROVE i \in Dots(text) <=> \E k \in 0..m : i = e[k]
  <2>1. ASSUME i \in Dots(text) PROVE \E k \in 0..m : i = e[k]
    <3>1. CASE i = 0
      BY <1>1, <1>7, <3>1
    <3>2. CASE i = n + 1
      BY <1>7, <1>8, <3>2
    <3>3. CASE i \in 1..n /\ IsDot(i)
      BY <1>10, <3>3
    <3> QED BY <1>3, <2>1, <3>1, <3>2, <3>3
  <2>2. ASSUME NEW k \in 0..m, i = e[k] PROVE i \in Dots(text)
    BY <1>3, <1>9, <2>2
  <2> QED BY <2>1, <2>2
<1> QED BY <1>6, <1>11

\* A part of a text, character by character.
LEMMA SubSeqIs ==
    ASSUME NEW A, NEW text \in Seq(A), NEW a \in Nat, NEW l \in Nat, NEW b, b = a + l + 1,
           b - 1 <= Len(text)
    PROVE  LET q == SubSeq(text, a + 1, b - 1)
           IN  q \in Seq(A) /\ Len(q) = l /\ \A i \in 1..l : q[i] = text[a + i]
<1>1. b - 1 = a + l /\ a + l <= Len(text)
  OBVIOUS
<1> DEFINE q == SubSeq(text, a + 1, a + l)
<1>2. q \in Seq(A)
  BY <1>1
<1>3. Len(q) = l
  BY <1>1
<1>4. \A i \in 1..l : q[i] = text[a + i]
  BY <1>1
<1> QED BY <1>1, <1>2, <1>3, <1>4

\* And split(".") gives the parts back.
LEMMA PartsAre ==
    ASSUME NEW A, NEW text \in Seq(A), NEW p, NEW m, NEW e, Spelled(text, p, m, e),
           \A k \in 1..m : p[k] \in Seq(A)
    PROVE  Parts(text) = [k \in 1..m |-> p[k]]
<1> DEFINE cut == [k \in 1..(m + 1) |-> e[k - 1]]
           D   == Dots(text)
           len(k) == Len(p[k])
<1>1. /\ m \in Nat /\ m > 0 /\ e \in [0..m -> Nat]
      /\ \A k \in 1..m : len(k) \in Nat /\ e[k] = e[k - 1] + len(k) + 1
      /\ Len(text) = e[m] - 1
      /\ \A k \in 1..m : \A i \in 1..len(k) : text[e[k - 1] + i] = p[k][i]
  BY DEF Spelled
<1>2. /\ \A i : i \in D <=> \E k \in 0..m : i = e[k]
      /\ \A i, j \in 0..m : i < j => e[i] < e[j]
  BY DotsAre
<1> HIDE DEF D, len
<1>3. /\ \A k \in 1..(m + 1) : k - 1 \in 0..m /\ cut[k] = e[k - 1]
      /\ \A k \in 0..m : k + 1 \in 1..(m + 1) /\ (k + 1) - 1 = k
  BY <1>1
<1>4. D \in SUBSET Nat
  BY <1>1, <1>2
<1>5. GoesThrough(cut, D, m + 1)
  <2>1. cut \in [1..(m + 1) -> D]
    BY <1>2, <1>3
  <2>2. ASSUME NEW y \in D PROVE \E i \in 1..(m + 1) : cut[i] = y
    <3>1. PICK k \in 0..m : y = e[k]
      BY <1>2
    <3>2. k + 1 \in 1..(m + 1) /\ cut[k + 1] = e[(k + 1) - 1] /\ (k + 1) - 1 = k
      BY <1>3
    <3> QED BY <3>1, <3>2
  <2>3. ASSUME NEW i \in 1..(m + 1), NEW j \in 1..(m + 1), i < j PROVE cut[i] < cut[j]
    <3>1. i - 1 \in 0..m /\ j - 1 \in 0..m
      BY <1>3
    <3>2. i - 1 < j - 1
      BY <1>1, <2>3
    <3> QED BY <1>2, <1>3, <3>1, <3>2
  <2> QED BY <2>1, <2>2, <2>3 DEF GoesThrough
<1>6. Cardinality(D) = m + 1 /\ Order(D) = cut
  <2>1. m + 1 \in Nat
    BY <1>1
  <2> HIDE DEF cut
  <2> QED BY <1>4, <1>5, <2>1, OrderIs
<1>7. Parts(text) = [k \in 1..(Cardinality(D) - 1) |->
                        SubSeq(text, Order(D)[k] + 1, Order(D)[k + 1] - 1)]
  BY Zenon DEF Parts, Dots, D
<1>8. ASSUME NEW k \in 1..m PROVE SubSeq(text, cut[k] + 1, cut[k + 1] - 1) = p[k]
  <2> DEFINE a == e[k - 1]
             b == e[k]
             q == SubSeq(text, a + 1, b - 1)
             l == len(k)
  <2>1. cut[k] = a /\ cut[k + 1] = b
    <3>1. k \in 1..(m + 1) /\ k + 1 \in 1..(m + 1) /\ (k + 1) - 1 = k
      BY <1>1
    <3> QED BY <1>3, <3>1
  <2>2. a \in Nat /\ b = a + l + 1 /\ l \in Nat /\ Len(text) \in Nat /\ b \in Nat
    <3>1. k - 1 \in 0..m /\ k \in 0..m
      BY <1>1
    <3>2. a \in Nat /\ b \in Nat
      BY <1>1, <3>1
    <3>3. l \in Nat /\ b = a + l + 1
      BY <1>1
    <3> QED BY <3>2, <3>3
  <2>3. b - 1 <= Len(text)
    <3>1. CASE k = m
      BY <1>1, <3>1
    <3>2. CASE k < m
      <4>1. e[k] < e[m] /\ e[m] \in Nat
        <5>1. k \in 0..m /\ m \in 0..m
          BY <1>1
        <5> QED BY <1>1, <1>2, <3>2, <5>1
      <4>2. b \in Nat /\ b < e[m] /\ Len(text) = e[m] - 1
        BY <1>1, <2>2, <4>1
      <4> HIDE DEF b
      <4> QED BY <4>1, <4>2
    <3> QED BY <1>1, <3>1, <3>2
  <2>4. \A i \in 1..l : text[a + i] = p[k][i]
    BY <1>1
  <2>5. p[k] \in Seq(A) /\ Len(p[k]) = l
    BY DEF len
  <2> HIDE DEF a, b, l
  <2>6. /\ q \in Seq(A) /\ Len(q) = l
        /\ \A i \in 1..l : q[i] = text[a + i]
    BY <2>2, <2>3, SubSeqIs
  <2> HIDE DEF q
  <2>7. \A i \in 1..Len(q) : q[i] = p[k][i]
    BY <2>4, <2>6
  <2>8. q = p[k]
    BY <2>5, <2>6, <2>7, SameSeq
  <2> QED BY <2>1, <2>8 DEF q
<1>9. Cardinality(D) - 1 = m
  BY <1>1, <1>6
<1> HIDE DEF cut
<1> QED BY <1>6, <1>7, <1>8, <1>9

\* Each of the joins f of the n sequences of seqs ends with one of these, and
\* the last join begins with all of them.
JoinsLine(f, seqs, n, A) ==
    /\ \A k \in 0..n : f[k] \in Seq(A) /\ Len(f[k]) \in Nat
    /\ f[0] = <<>>
    /\ \A k \in 1..n :
          /\ Len(f[k]) = Len(f[k - 1]) + Len(seqs[k])
          /\ \A i \in 1..Len(seqs[k]) : f[k][Len(f[k - 1]) + i] = seqs[k][i]
    /\ \A k \in 0..n : Len(f[k]) <= Len(f[n]) /\ \A i \in 1..Len(f[k]) : f[n][i] = f[k][i]

\* That is what joining does.
LEMMA JoinsGrow ==
    ASSUME NEW A, NEW seqs \in Seq(Seq(A)), NEW f, Joins(f, seqs, A)
    PROVE  JoinsLine(f, seqs, Len(seqs), A)
<1> DEFINE n == Len(seqs)
           len(k) == Len(f[k])
           part(k) == seqs[k]
           G == {m \in Nat : m <= n => \A k \in 0..m :
                    len(k) <= len(m) /\ \A i \in 1..len(k) : f[m][i] = f[k][i]}
<1>1. /\ f \in [0..n -> Seq(A)] /\ f[0] = <<>> /\ \A k \in 1..n : f[k] = f[k - 1] \o part(k)
  BY DEF Joins
<1>2. n \in Nat /\ \A k \in 1..n : part(k) \in Seq(A) /\ Len(part(k)) \in Nat
  OBVIOUS
<1>3. \A k \in 0..n : f[k] \in Seq(A) /\ len(k) \in Nat
  BY <1>1
<1> HIDE DEF n
<1>4. \A k \in 1..n : k - 1 \in 0..n /\ k \in 0..n
  BY <1>2
<1> HIDE DEF part
<1>5. ASSUME NEW k \in 1..n
      PROVE  /\ len(k) = len(k - 1) + Len(part(k))
             /\ \A i \in 1..Len(part(k)) : f[k][len(k - 1) + i] = part(k)[i]
             /\ \A i \in 1..len(k - 1) : f[k][i] = f[k - 1][i]
  <2>1. f[k - 1] \in Seq(A) /\ part(k) \in Seq(A) /\ f[k] = f[k - 1] \o part(k)
    BY <1>1, <1>2, <1>3, <1>4
  <2> QED BY <2>1, ConcatPlaces
<1> HIDE DEF len
<1>6. 0 \in G
  <2>1. len(0) <= len(0)
    BY <1>2, <1>3
  <2>2. \A k \in 0..0 : k = 0
    OBVIOUS
  <2> QED BY <2>1, <2>2
<1>7. ASSUME NEW m \in Nat, m \in G PROVE m + 1 \in G
  <2> SUFFICES ASSUME m + 1 <= n, NEW k \in 0..(m + 1)
               PROVE  len(k) <= len(m + 1) /\ \A i \in 1..len(k) : f[m + 1][i] = f[k][i]
    OBVIOUS
  <2>1. m <= n /\ m + 1 \in 1..n /\ (m + 1) - 1 = m /\ k \in 0..n
    BY <1>2
  <2>2. CASE k = m + 1
    <3>1. len(k) <= len(m + 1)
      BY <1>3, <2>1, <2>2
    <3> QED BY <2>2, <3>1
  <2>3. CASE k # m + 1
    <3>1. k \in 0..m
      BY <2>3
    <3>2. len(k) <= len(m) /\ \A i \in 1..len(k) : f[m][i] = f[k][i]
      BY <1>7, <2>1, <3>1
    <3>3. /\ len(m + 1) = len(m) + Len(part(m + 1))
          /\ \A i \in 1..len(m) : f[m + 1][i] = f[m][i]
      BY <1>5, <2>1
    <3>4. len(m) \in Nat /\ Len(part(m + 1)) \in Nat /\ len(k) \in Nat
      BY <1>2, <1>3, <1>4, <2>1
    <3>5. \A i \in 1..len(k) : i \in 1..len(m)
      BY <3>2, <3>4
    <3> QED BY <3>2, <3>3, <3>4, <3>5
  <2> QED BY <2>2, <2>3
<1>8. \A m \in Nat : m \in G
  <2> HIDE DEF G
  <2> QED BY <1>6, <1>7, Induction
<1>9. \A k \in 0..n : len(k) <= len(n) /\ \A i \in 1..len(k) : f[n][i] = f[k][i]
  BY <1>2, <1>8
<1> QED BY <1>1, <1>2, <1>3, <1>5, <1>9, Zenon DEF JoinsLine, n, len, part

\* Parts that are joined with a dot after each, and u after them, are spelled.
LEMMA JoinIsSpelled ==
    ASSUME NEW A, "." \in A, NEW s \in Seq(Seq(A)), s # <<>>, NEW u \in Seq(A),
           \A k \in 1..Len(s) : \A i \in 1..Len(s[k]) : s[k][i] # ".",
           \A i \in 1..Len(u) : u[i] # "."
    PROVE  LET n    == Len(s)
               text == FlattenSeq([k \in 1..n |-> Append(s[k], ".")]) \o u
               p    == [k \in 1..(n + 1) |-> IF k <= n THEN s[k] ELSE u]
           IN  text \in Seq(A) /\ \E e : Spelled(text, p, n + 1, e)
<1> DEFINE n    == Len(s)
           dot  == "."
           part(k) == s[k]
           seqs == [k \in 1..n |-> Append(part(k), dot)]
           flat == FlattenSeq(seqs)
           text == flat \o u
           p    == [k \in 1..(n + 1) |-> IF k <= n THEN part(k) ELSE u]
<1>1. n \in Nat /\ n > 0 /\ \A k \in 1..n : part(k) \in Seq(A) /\ Len(part(k)) \in Nat
  OBVIOUS
<1>2. /\ dot \in A
      /\ \A k \in 1..n : \A i \in 1..Len(part(k)) : part(k)[i] # dot
      /\ \A i \in 1..Len(u) : u[i] # dot
  OBVIOUS
<1>3. u \in Seq(A) /\ Len(u) \in Nat
  OBVIOUS
<1> HIDE DEF n, part, dot
<1>4. \A k \in 1..n : /\ seqs[k] \in Seq(A) /\ Len(seqs[k]) = Len(part(k)) + 1
                      /\ seqs[k][Len(part(k)) + 1] = dot
                      /\ \A i \in 1..Len(part(k)) : seqs[k][i] = part(k)[i]
  BY <1>1, <1>2
<1>5. seqs \in Seq(Seq(A)) /\ Len(seqs) = n /\ seqs # <<>>
  <2>1. \A k \in 1..n : Append(part(k), dot) \in Seq(A)
    BY <1>1, <1>2
  <2>2. seqs \in Seq(Seq(A)) /\ Len(seqs) = n
    BY <1>1, <2>1
  <2> HIDE DEF seqs
  <2> QED BY <1>1, <2>2
<1> HIDE DEF seqs
<1>6. PICK f : Joins(f, seqs, A) /\ flat = f[n]
  <2>1. \E f : Joins(f, seqs, A) /\ flat = f[Len(seqs)]
    BY <1>5, FlattenJoins
  <2> QED BY <1>5, <2>1
<1> DEFINE len(k) == Len(f[k])
<1>7. /\ \A k \in 0..n : f[k] \in Seq(A) /\ len(k) \in Nat
      /\ f[0] = <<>>
      /\ \A k \in 1..n : /\ len(k) = len(k - 1) + Len(seqs[k])
                         /\ \A i \in 1..Len(seqs[k]) : f[k][len(k - 1) + i] = seqs[k][i]
      /\ \A k \in 0..n : len(k) <= len(n) /\ \A i \in 1..len(k) : f[n][i] = f[k][i]
  <2>1. JoinsLine(f, seqs, n, A)
    BY <1>5, <1>6, JoinsGrow
  <2> QED BY <2>1, Zenon DEF JoinsLine
<1> HIDE DEF flat
<1>8. /\ text \in Seq(A) /\ Len(text) = len(n) + Len(u)
      /\ \A i \in 1..len(n) : text[i] = f[n][i]
      /\ \A i \in 1..Len(u) : text[len(n) + i] = u[i]
  <2>1. n \in 0..n
    BY <1>1
  <2>2. flat \in Seq(A) /\ Len(flat) = len(n) /\ flat = f[n]
    BY <1>6, <1>7, <2>1
  <2> QED BY <1>3, <2>2, ConcatPlaces
<1>9. len(0) = 0
  BY <1>7
<1> HIDE DEF text, len
<1> DEFINE e == [k \in 0..(n + 1) |-> IF k <= n THEN len(k) ELSE len(n) + Len(u) + 1]
<1>10. /\ \A k \in 0..n : e[k] = len(k) /\ k \in 0..(n + 1)
       /\ e[n + 1] = len(n) + Len(u) + 1
       /\ \A k \in 1..n : p[k] = part(k) /\ k - 1 \in 0..n /\ k \in 0..n
       /\ p[n + 1] = u
  BY <1>1
<1>11. e \in [0..(n + 1) -> Nat]
  <2>1. len(n) \in Nat /\ \A k \in 0..(n + 1) : k <= n => len(k) \in Nat
    BY <1>1, <1>7
  <2>2. len(n) + Len(u) + 1 \in Nat
    BY <1>3, <2>1
  <2> QED BY <2>1, <2>2
<1> HIDE DEF e, p
<1>12. ASSUME NEW k \in 1..n
       PROVE  /\ Len(p[k]) \in Nat /\ e[k] = e[k - 1] + Len(p[k]) + 1
              /\ text[e[k]] = dot
              /\ \A i \in 1..Len(p[k]) : text[e[k - 1] + i] = p[k][i] /\ p[k][i] # dot
  <2> DEFINE a == len(k - 1)
             l == Len(part(k))
  <2>1. a \in Nat /\ l \in Nat /\ len(k) = a + l + 1 /\ len(k) \in Nat
    <3>1. k - 1 \in 0..n /\ k \in 0..n
      BY <1>10
    <3>2. a \in Nat /\ l \in Nat /\ len(k) \in Nat
      BY <1>1, <1>7, <3>1
    <3>3. len(k) = a + Len(seqs[k]) /\ Len(seqs[k]) = l + 1
      BY <1>4, <1>7
    <3> QED BY <3>2, <3>3
  <2>2. e[k] = len(k) /\ e[k - 1] = a /\ p[k] = part(k)
    BY <1>10
  <2>3. \A i \in 1..(l + 1) : f[k][a + i] = seqs[k][i]
    BY <1>4, <1>7
  <2>4. \A i \in 1..len(k) : text[i] = f[k][i]
    <3>1. len(k) <= len(n) /\ \A i \in 1..len(k) : f[n][i] = f[k][i]
      BY <1>7, <1>10
    <3>2. len(n) \in Nat
      BY <1>1, <1>7
    <3>3. \A i \in 1..len(k) : i \in 1..len(n)
      BY <2>1, <3>1, <3>2
    <3> QED BY <1>8, <3>1, <3>3
  <2>5. seqs[k][l + 1] = dot /\ \A i \in 1..l : seqs[k][i] = part(k)[i] /\ part(k)[i] # dot
    BY <1>2, <1>4
  <2> HIDE DEF a, l
  <2>6. \A i \in 1..(l + 1) : a + i \in 1..len(k)
    BY <2>1
  <2>7. \A i \in 1..(l + 1) : text[a + i] = seqs[k][i]
    BY <2>3, <2>4, <2>6
  <2>8. text[len(k)] = dot
    <3>1. l + 1 \in 1..(l + 1) /\ a + (l + 1) = len(k)
      BY <2>1
    <3> QED BY <2>5, <2>7, <3>1
  <2>9. \A i \in 1..l : i \in 1..(l + 1)
    BY <2>1
  <2>10. \A i \in 1..l : text[a + i] = part(k)[i] /\ part(k)[i] # dot
    BY <2>5, <2>7, <2>9
  <2> QED BY <2>1, <2>2, <2>8, <2>10 DEF l
<1>13. /\ e[n + 1] = e[n] + Len(p[n + 1]) + 1 /\ Len(text) = e[n + 1] - 1
       /\ \A i \in 1..Len(p[n + 1]) : text[e[n] + i] = p[n + 1][i] /\ p[n + 1][i] # dot
  <2>1. e[n] = len(n) /\ len(n) \in Nat
    <3>1. n \in 0..n
      BY <1>1
    <3> QED BY <1>7, <1>10, <3>1, Zenon
  <2> QED BY <1>2, <1>3, <1>8, <1>10, <2>1
<1> DEFINE m == n + 1
<1>14. /\ m \in Nat /\ m > 0 /\ m - 1 = n
       /\ \A k \in 1..m : k # m => k \in 1..n /\ k < m
       /\ \A k \in 1..m : k < m => k \in 1..n
  BY <1>1
<1>15. e[0] = 0
  BY <1>1, <1>9, <1>10
<1>16. Spelled(text, p, m, e)
  <2>1. /\ e \in [0..m -> Nat] /\ e[m] = e[m - 1] + Len(p[m]) + 1 /\ Len(text) = e[m] - 1
        /\ Len(p[m]) \in Nat
        /\ \A i \in 1..Len(p[m]) : text[e[m - 1] + i] = p[m][i] /\ p[m][i] # dot
    BY <1>3, <1>10, <1>11, <1>13, <1>14
  <2> HIDE DEF m
  <2>2. \A k \in 1..m : Len(p[k]) \in Nat /\ e[k] = e[k - 1] + Len(p[k]) + 1
    BY <1>12, <1>14, <2>1
  <2>3. \A k \in 1..m : \A i \in 1..Len(p[k]) : text[e[k - 1] + i] = p[k][i] /\ p[k][i] # dot
    BY <1>12, <1>14, <2>1
  <2>4. \A k \in 1..m : k < m => text[e[k]] = dot
    BY <1>12, <1>14
  <2> QED BY <1>14, <1>15, <2>1, <2>2, <2>3, <2>4, Zenon DEF Spelled, dot
<1> QED BY <1>8, <1>16, Zenon DEF n, text, flat, seqs, p, part, dot

\* The characters of the name of a file.
NameChars == TagChars \cup {"-", "."}

\* The UUID is made of them and has no dot, and no tag has one.
LEMMA NoDots ==
    /\ TagChars \subseteq NameChars /\ "." \in NameChars
    /\ Uuid \in Seq(NameChars) /\ Uuid # <<>> /\ \A i \in 1..Len(Uuid) : Uuid[i] # "."
    /\ \A c \in TagChars : c # "."
<1> DEFINE H == {"h", "-"}
<1>1. TagChars \subseteq NameChars /\ "." \in NameChars
  BY DEF NameChars
<1>2. Uuid \in Seq(H) /\ Len(Uuid) = 3
  BY DEF Uuid
<1>3. H \subseteq NameChars
  BY DEF NameChars, TagChars, Plain, Small
<1>4. \A c \in H : c # "."
  OBVIOUS
<1>5. \A c \in TagChars : c # "."
  BY PlainIs
<1> HIDE DEF H
<1>6. Uuid \in Seq(NameChars)
  BY <1>2, <1>3, LargerAlphabet
<1>7. \A i \in 1..Len(Uuid) : Uuid[i] # "."
  <2>1. Uuid \in Seq(H)
    BY <1>2
  <2>2. \A i \in 1..Len(Uuid) : Uuid[i] \in H
    BY <2>1
  <2> QED BY <1>4, <2>2, Zenon
<1>8. Uuid # <<>>
  BY <1>2
<1> QED BY <1>1, <1>5, <1>6, <1>7, <1>8

\* A sequence without the last of its elements.
LEMMA FrontIs ==
    ASSUME NEW A, NEW s \in Seq(A), NEW p \in Seq(A), Len(p) = Len(s) + 1,
           \A k \in 1..Len(s) : p[k] = s[k]
    PROVE  Front(p) = s
<1> DEFINE n == Len(s)
           q == SubSeq(p, 1, n)
<1>1. n \in Nat
  OBVIOUS
<1>2. q \in Seq(A) /\ Len(q) = n /\ \A k \in 1..n : q[k] = p[k]
  BY <1>1
<1>3. Front(p) = q
  BY <1>1 DEF Front
<1> HIDE DEF q
<1>4. q = s
  BY <1>2, SameSeq
<1> QED BY <1>3, <1>4

\* The name of a file that is made of tags is parsed into these tags.
LEMMA StemParses ==
    ASSUME NEW s \in Seq(Tags), s # <<>>
    PROVE  ParseStem(FlattenSeq([k \in 1..Len(s) |-> Append(s[k], ".")]) \o Uuid)
              = [tags |-> s, uuid |-> Uuid]
<1> DEFINE A    == NameChars
           n    == Len(s)
           m    == n + 1
           u    == Uuid
           text == FlattenSeq([k \in 1..n |-> Append(s[k], ".")]) \o u
           p    == [k \in 1..(n + 1) |-> IF k <= n THEN s[k] ELSE u]
           none == <<>>
<1>1. n \in Nat /\ n > 0 /\ \A k \in 1..n : s[k] \in Tags
  OBVIOUS
<1>2. /\ "." \in A /\ u \in Seq(A) /\ u # <<>>
      /\ \A i \in 1..Len(u) : u[i] # "."
  BY NoDots
<1>3. ASSUME NEW t \in Tags
      PROVE  t \in Seq(A) /\ t # none /\ \A i \in 1..Len(t) : t[i] # "."
  <2>1. t \in Seq(TagChars) /\ t # none
    BY DEF Tags
  <2>2. t \in Seq(A)
    BY <2>1, NoDots, LargerAlphabet
  <2>3. \A i \in 1..Len(t) : t[i] \in TagChars
    BY <2>1
  <2> QED BY <2>1, <2>2, <2>3, NoDots
<1> HIDE DEF A, u, none
<1>4. s \in Seq(Seq(A))
  <2>1. Tags \subseteq Seq(A)
    BY <1>3
  <2> QED BY <2>1, LargerAlphabet
<1>5. \A k \in 1..Len(s) : \A i \in 1..Len(s[k]) : s[k][i] # "."
  BY <1>1, <1>3
<1>6. text \in Seq(A) /\ \E e : Spelled(text, p, n + 1, e)
  BY <1>2, <1>4, <1>5, JoinIsSpelled
<1>7. PICK e : Spelled(text, p, m, e)
  BY <1>6
<1> HIDE DEF text, n
<1>8. /\ m \in Nat /\ m >= 2 /\ m - 1 = n
      /\ \A k \in 1..m : p[k] = IF k <= n THEN s[k] ELSE u
      /\ \A k \in 1..n : k \in 1..m /\ p[k] = s[k]
      /\ p[m] = u
  BY <1>1
<1>9. \A k \in 1..m : p[k] \in Seq(A)
  BY <1>1, <1>2, <1>3
<1>10. p = [k \in 1..m |-> p[k]] /\ p \in Seq(Seq(A)) /\ Len(p) = m
  <2>1. p = [k \in 1..m |-> p[k]]
    BY <1>8
  <2> DEFINE S == Seq(A)
  <2>2. m \in Nat /\ \A k \in 1..m : p[k] \in S
    BY <1>8, <1>9
  <2> HIDE DEF p, m, S
  <2>3. [k \in 1..m |-> p[k]] \in Seq(S) /\ Len([k \in 1..m |-> p[k]]) = m
    BY <2>2
  <2> QED BY <2>1, <2>3 DEF S
<1> HIDE DEF p, m
<1>11. Parts(text) = p
  <2>1. Parts(text) = [k \in 1..m |-> p[k]]
    BY <1>6, <1>7, <1>9, PartsAre
  <2> QED BY <1>10, <2>1
<1>12. Front(p) = s
  <2>1. Len(p) = Len(s) + 1 /\ \A k \in 1..Len(s) : p[k] = s[k]
    BY <1>8, <1>10 DEF n, m
  <2> QED BY <1>4, <1>10, <2>1, FrontIs
<1>13. \A k \in 1..(m - 1) : p[k] # none
  BY <1>1, <1>3, <1>8
<1>14. ParseStem(text) = [tags |-> Front(p), uuid |-> p[m]]
  <2> DEFINE parts == Parts(text)
             last  == Len(parts)
  <2>1. last = m /\ last >= 2 /\ parts[last] = Uuid /\ \A k \in 1..(last - 1) : parts[k] # <<>>
    BY <1>8, <1>10, <1>11, <1>13 DEF u, none
  <2>2. ParseStem(text) = [tags |-> Front(parts), uuid |-> parts[last]]
    BY <2>1, Zenon DEF ParseStem
  <2> QED BY <1>11, <2>1, <2>2
<1>15. ParseStem(text) = [tags |-> s, uuid |-> Uuid]
  BY <1>8, <1>12, <1>14 DEF u
<1> QED BY <1>15 DEF text, n, u

\* Whatever the caption and however many its hashtags: parsing the name of the
\* file gives the sorted tags of its key and its UUID back (build_storage_key,
\* parse_video_filename).
THEOREM NamesComeBack == Spec => []NamesRoundTrip
<1>1. ASSUME NEW tags \in Seq(Tags), tags # <<>>
      PROVE  ParseStem(BuildStem(tags)) = [tags |-> SortedTags(tags), uuid |-> Uuid]
  <2> DEFINE s == SortedTags(tags)
  <2>1. s \in Seq(Tags) /\ s # <<>>
    <3>1. s \in Seq(Tags) /\ Len(s) > 0
      BY <1>1, SortedTagsAre
    <3> HIDE DEF s
    <3>2. Len(s) # 0
      BY <3>1
    <3> QED BY <3>1, <3>2
  <2>2. BuildStem(tags) = FlattenSeq([k \in 1..Len(s) |-> Append(s[k], ".")]) \o Uuid
    BY Zenon DEF BuildStem
  <2> HIDE DEF s
  <2>3. ParseStem(BuildStem(tags)) = [tags |-> s, uuid |-> Uuid]
    BY <2>1, <2>2, StemParses
  <2> QED BY <2>3 DEF s
<1>2. CallTypeOK => NamesRoundTrip
  <2> SUFFICES ASSUME CallTypeOK, call.fn = "parse_hashtags" PROVE NamesRoundTrip
    BY DEF NamesRoundTrip
  <2>1. call.caption \in Seq(Characters)
    BY Zenon DEF CallTypeOK
  <2> DEFINE tags == ParseHashtags(call.caption)
  <2>2. tags \in Seq(Tags)
    BY <2>1, ParseGives
  <2> HIDE DEF tags
  <2>3. tags # <<>> => ParseStem(BuildStem(tags)) = [tags |-> SortedTags(tags), uuid |-> Uuid]
    BY <1>1, <2>2, Zenon
  <2> QED BY <2>3, Zenon DEF NamesRoundTrip, tags
<1> QED BY <1>2, CallsAreTyped, PTL
=============================================================================
