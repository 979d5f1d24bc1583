------------------------------- MODULE Paths -------------------------------
(***************************************************************************)
(* bot_api/files.py: what the two fetchers make of a path that getFile     *)
(* returns.  A text is a record: whether it begins with "/", and the       *)
(* segments between its slashes, "" for two slashes in a row.              *)
(***************************************************************************)
EXTENDS Naturals, SequencesExt

CONSTANTS
    LocalRoot,   \* segments of _LOCAL_ROOT, where telegram-bot-api keeps files
    Token        \* the bot's token, a directory under it

Path(absolute, segments) == [absolute |-> absolute, segments |-> segments]

BotDirectory == Append(LocalRoot, Token)

\* The root is a literal of files.py and the token comes from BotFather: no
\* part of them is empty or made of dots.
ASSUME BotDirectoryAssumption == BotDirectory \in Seq(STRING \ {"", ".", ".."})

\* What pathlib makes of a text: empty and "." segments go, ".." stays.
Pure(segments) ==
    LET kept[i \in 0..Len(segments)] ==
            IF i = 0 THEN <<>>
            ELSE IF segments[i] \in {"", "."} THEN kept[i - 1]
            ELSE Append(kept[i - 1], segments[i])
    IN  kept[Len(segments)]

Refused == [accepted |-> FALSE, segments |-> <<>>]
Accepted(segments) == [accepted |-> TRUE, segments |-> segments]

\* A text that begins with exactly two slashes has a root of its own.
OtherRoot(path) ==
    path.absolute /\ Len(path.segments) > 1 /\ path.segments[1] = "" /\ path.segments[2] # ""

\* normalize_remote_file_path: the prefix is compared as text and stripped,
\* what is left must be relative and without "..".  It begins with "/" when
\* two slashes followed the prefix.
Rest(segments, n) == SubSeq(segments, n + 1, Len(segments))

Normalize_Slip(path) ==          \* the prefix without the token
    LET n == Len(LocalRoot)
    IN  IF ~path.absolute THEN Accepted(path.segments)
        ELSE IF SubSeq(path.segments, 1, n) = LocalRoot THEN Accepted(Rest(path.segments, n))
        ELSE Refused

Normalize(path) ==
    LET n        == Len(BotDirectory)
        stripped == path.absolute /\ Len(path.segments) > n
                       /\ SubSeq(path.segments, 1, n) = BotDirectory
        rest     == IF stripped THEN Rest(path.segments, n) ELSE path.segments
        rooted   == IF stripped THEN Len(rest) > 1 /\ rest[1] = "" ELSE path.absolute
    IN  IF rooted \/ ".." \in ToSet(Pure(rest)) THEN Refused ELSE Accepted(rest)

\* validate_local_file_path, with its root at LocalRoot: not empty, absolute,
\* without "..", in the directory of the bot.
ValidateLocal(path) ==
    IF /\ path.absolute /\ ~OtherRoot(path)
       /\ ".." \notin ToSet(Pure(path.segments))
       /\ IsPrefix(BotDirectory, Pure(path.segments))
    THEN Accepted(path.segments) ELSE Refused
=============================================================================
