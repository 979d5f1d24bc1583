------------------------------- MODULE MCPure -------------------------------
(***************************************************************************)
(* The pure functions of the bot over bounded inputs: each behaviour makes *)
(* one call, and the invariants say what its result has to be.             *)
(***************************************************************************)
EXTENDS Selection, FilterGraph, Names, Paths, TLC, SequencesExt, FiniteSetsExt

CONSTANTS
    MaxClips,      \* clips that match a reel
    MaxGraph,      \* clips in a filter graph
    Durations,     \* of a clip, in seconds
    Targets,       \* of a reel, in seconds
    MaxRatio,      \* numerator and denominator of a speed
    MaxCaption,    \* characters of a caption
    Segments,      \* of a path
    MaxPath        \* segments after the directory of the bot

\* What the calls are made of: a target is positive, one of the choices of
\* the dialog.
ASSUME CallsAssumption ==
    /\ {MaxClips, MaxGraph, MaxRatio, MaxCaption, MaxPath} \subseteq Nat
    /\ Durations \subseteq Nat
    /\ Targets \subseteq Nat \ {0}
    /\ Segments \subseteq STRING

\* One segment stands for /var/lib/telegram-bot-api.
MCLocalRoot == <<"lib">>

VARIABLE call

NoCall == [fn |-> "none"]
Init == call = NoCall

SelectCall == \E n \in 0..MaxClips : call' = [fn |-> "select_clips", n |-> n]

\* The number of clips varies with select_clips: at least one.
GraphCall ==
    \E n \in 1..MaxGraph, target \in Targets :
        \E clips \in [1..n -> [duration : Durations, dated : BOOLEAN]] :
            call' = [fn |-> "build_filter_complex", clips |-> clips, target |-> target]

TempoCall == \E p, q \in 1..MaxRatio : call' = [fn |-> "atempo_chain", p |-> p, q |-> q]

CaptionCall ==
    \E n \in 0..MaxCaption : \E caption \in [1..n -> Characters] :
        call' = [fn |-> "parse_hashtags", caption |-> caption]

\* Paths near the directory of the bot, and any short one.
PathCall ==
    \E n \in 0..MaxPath, near, absolute \in BOOLEAN : \E rest \in [1..n -> Segments] :
        LET segments == (IF near THEN BotDirectory ELSE <<>>) \o rest
        IN  /\ ~absolute /\ Len(segments) > 1 => segments[1] # ""
            /\ call' = [fn |-> "file_path", path |-> Path(absolute, segments)]

Next == call = NoCall /\ (SelectCall \/ GraphCall \/ TempoCall \/ CaptionCall \/ PathCall)

Spec == Init /\ [][Next]_call
-----------------------------------------------------------------------------
\* The table of video/select.py's docstring.
SelectedCount(n) == IF n <= 4 THEN n ELSE IF n <= 9 THEN 4 ELSE 5

Ascending(seq) == \A i, j \in DOMAIN seq : i < j => seq[i] < seq[j]

\* However many clips match, the sample fits the pool, the reel has as many
\* clips as the table in video/select.py says, the oldest and the newest among
\* them, each once and in order.
SelectionIsRight ==
    call.fn = "select_clips" =>
        LET n == call.n
            results == SelectClips([i \in 1..n |-> i])
        IN  /\ results # {}
            /\ \A r \in results :
                  /\ Len(r) = SelectedCount(n) /\ Ascending(r)
                  /\ n > 0 => r[1] = 1 /\ r[Len(r)] = n

\* The labels of the filter graph link up: a filter reads only sources and
\* what an earlier filter wrote, nothing is written or read twice or left
\* over, and concat gets one stream per clip, made of that clip, in order.  A
\* source is a video input of the command and the mapped audio its silence.
GraphLinksUp ==
    call.fn = "build_filter_complex" =>
        LET clips  == call.clips
            g      == BuildFilterComplex(clips, call.target)
            reads  == UNION {ToSet(g[k].ins) : k \in 1..Len(g)}
            source(l) == l[2] = "v"
            earlier(k) == {g[j].out : j \in 1..(k - 1)}
        IN  /\ \A k \in 1..Len(g) : \A l \in ToSet(g[k].ins) :
                  IF source(l) THEN Inputs(clips)[l[1] + 1] = "clip" ELSE l \in earlier(k)
            /\ \A j, k \in 1..Len(g) : \A a \in DOMAIN g[j].ins, b \in DOMAIN g[k].ins :
                  g[j].ins[a] = g[k].ins[b] => j = k /\ a = b
            /\ IsInjective([k \in 1..Len(g) |-> g[k].out])
            /\ {g[k].out : k \in 1..Len(g)} \ reads = {OutV}
            /\ {l \in reads : source(l)} = {Label(i - 1, "v") : i \in 1..Len(clips)}
            /\ [i \in 1..Len(clips) |-> Last(g).ins[i][1]] = [i \in 1..Len(clips) |-> i - 1]
            /\ \A k \in 1..(Len(g) - 1) : g[k].ins[1][1] = g[k].out[1]
            /\ Inputs(clips)[Maps(clips)[2][1] + 1] = "silence"

\* Whatever the mix of short, long and empty clips, and with the speed rounded
\* to what is written into the filter: each of the n clips gets its n-th part
\* of the target, none of them more by over a Precision-th of the part, so
\* neither is the reel over its target; a clip as long as its part or longer
\* fills it to within a Precision-th; and no clip is slowed down
\* (build_filter_complex).
ReelFitsTarget ==
    call.fn = "build_filter_complex" =>
        \A i \in 1..Len(call.clips) :
            LET whole  == call.clips[i].duration
                long   == InReel(call.clips, call.target, i)
                shared == long[1] * Len(call.clips)
                part   == long[2] * call.target   \* shared : part = long : target / n
            IN  /\ long[1] <= whole * long[2]
                /\ shared * Precision <= part * (Precision + 1)
                /\ whole * Len(call.clips) >= call.target
                      => part * (Precision - 1) <= shared * Precision

\* Every factor is one that ffmpeg's atempo accepts and their product differs
\* from the speed by at most a Precision-th of it, at the boundaries 1/2, 1, 2,
\* near them and at powers of two too (atempo_chain).
TempoIsClose ==
    call.fn = "atempo_chain" =>
        LET chain == AtempoChain(call.p, call.q)
            num[i \in 0..Len(chain)] == IF i = 0 THEN 1 ELSE num[i - 1] * chain[i][1]
            den[i \in 0..Len(chain)] == IF i = 0 THEN 1 ELSE den[i - 1] * chain[i][2]
            product == num[Len(chain)] * call.q
        IN  /\ Apart(product, den[Len(chain)] * call.p) <= product
            /\ \A f \in ToSet(chain) : f[1] <= 2 * f[2] /\ f[2] <= 2 * f[1]

\* The tags of a stored file come back from its name as they went in, and with
\* its UUID (build_storage_key, parse_video_filename): recovery without a
\* manifest depends on it.
NamesRoundTrip ==
    call.fn = "parse_hashtags" =>
        LET tags == ParseHashtags(call.caption)
        IN  tags # <<>> => ParseStem(BuildStem(tags))
                              = [tags |-> SortedTags(tags), uuid |-> Uuid]

\* A plain capital or its small letter, a dash or an underscore make the same
\* tags, and a tag written as a hashtag is that tag again, cut where it has a
\* combining dot, which only the dotted capital I brings in: the rows that
\* recovery makes from file names are those the next upload with the hashtag
\* finds (parse_hashtags, TagRepo.upsert_many).
NamesAreStable ==
    call.fn = "parse_hashtags" =>
        LET tags  == ParseHashtags(call.caption)
            typed == [i \in DOMAIN call.caption |->
                        CASE call.caption[i] = "A" -> "a"
                          [] call.caption[i] = "_" -> "-"
                          [] OTHER -> call.caption[i]]
        IN  /\ ParseHashtags(typed) = tags
            /\ \A t \in ToSet(tags) : \E n \in 1..Len(t) :
                  /\ ParseHashtags(<<"#">> \o t) = <<SubSeq(t, 1, n)>>
                  /\ \A k \in 1..n : t[k] # "^"
                  /\ n = Len(t) \/ t[n + 1] = "^"
                  /\ "D" \notin ToSet(call.caption) => n = Len(t)

\* The file name depends on which hashtags a caption has, not on their order.
KeyIgnoresOrder ==
    call.fn = "parse_hashtags" =>
        LET tags == ParseHashtags(call.caption)
        IN  BuildStem(Reverse(tags)) = BuildStem(tags) /\ IsInjective(tags)

\* What a server in --local mode returns names one file for both fetchers: the
\* URL of the remote one, served from the bot's directory, and the path of the
\* local one (fetcher.py).
FetchersAgree ==
    call.fn = "file_path" =>
        LET local  == ValidateLocal(call.path)
            remote == Normalize(call.path)
        IN  local.accepted /\ remote.accepted
               => BotDirectory \o Pure(remote.segments) = Pure(local.segments)
=============================================================================
