------------------------------- MODULE Listing -------------------------------
(***************************************************************************)
(* The listing of the /delete dialog: one message per clip, with the       *)
(* button Delete, which becomes Confirm and Cancel.  Every tap is an       *)
(* update with a handler and a transaction of its own, and the handlers of *)
(* one user run concurrently: each call to the database or to Telegram     *)
(* suspends a handler, and what another one did to the same message or to  *)
(* the same row meets it when it goes on.                                  *)
(*                                                                         *)
(* A DELETE waits for the transaction that has deleted the row and not     *)
(* ended.  Telegram rejects an edit that changes nothing, and any call may *)
(* raise, also after Telegram has done what it was asked.  An operator     *)
(* called X_Slip is X with a plausible mistake.                            *)
(***************************************************************************)
EXTENDS Naturals, Sequences

LOCAL INSTANCE SequencesExt

CONSTANTS
    Clips,       \* of one user and one tag: numbers, in order of created_at
    Cached,      \* clips whose row has a telegram_file_id; recovered rows have none
    Listings,    \* handlers of /delete, each of which lists once
    Handlers,    \* taps that can be in flight at the same time
    Limit        \* _LISTING_LIMIT

ASSUME ListingAssumption ==
    /\ Clips \subseteq Nat /\ Cached \subseteq Clips /\ Limit \in Nat \ {0}
    /\ Clips # {} /\ Listings # {}

Messages == Listings \X Clips
ClipOf(m) == m[2]

VARIABLES
    rows,        \* clips with a committed row
    files,       \* clips with a file
    fsm,         \* "browsing", or "none" for any other FSM state
    listing,     \* listing[l]: where the handler is, and what it has yet to send
    screen,      \* screen[m]: the keyboard of message m and the end of its caption
    job,         \* job[h]: where the handler of a tap is suspended
    aborted      \* history: clips for which a confirmed deletion has raised

vars == <<rows, files, fsm, listing, screen, job, aborted>>

Keyboards == {"unsent", "none", "delete", "confirm"}
Captions  == {"plain", "deleted", "gone"}
Places    == {"idle", "swap", "restore", "delete", "mark", "caption", "answer"}
Jobs      == [at : Places, on : Messages, found : BOOLEAN]
Idle      == [at |-> "idle", on |-> CHOOSE m \in Messages : TRUE, found |-> FALSE]

Init ==
    /\ rows = Clips /\ files = Clips
    /\ fsm = "none"
    /\ listing = [l \in Listings |-> [at |-> "todo", left |-> <<>>]]
    /\ screen = [m \in Messages |-> [kb |-> "unsent", caption |-> "plain"]]
    /\ job = [h \in Handlers |-> Idle]
    /\ aborted = {}

-----------------------------------------------------------------------------
(* _open_listing and _send_listing *)

clipVars == <<rows, files, aborted>>

NewestFirst(clips) == LET all == SetToSortSeq(clips, >)
                      IN  SubSeq(all, 1, IF Len(all) < Limit THEN Len(all) ELSE Limit)

OpenListing(l) ==
    /\ listing[l].at = "todo"
    /\ listing' = [listing EXCEPT ![l] =
                     [at |-> IF rows = {} THEN "empty" ELSE "sending", left |-> NewestFirst(rows)]]
    /\ UNCHANGED <<clipVars, fsm, screen, job>>

\* From Telegram's cache, or from the local copy.
SendVideo(l) ==
    LET clip == Head(listing[l].left) IN
    /\ listing[l].at = "sending" /\ listing[l].left # <<>>
    /\ clip \in Cached \cup files
    /\ screen' = [screen EXCEPT ![<<l, clip>>].kb = "delete"]
    /\ listing' = [listing EXCEPT ![l].left = Tail(@)]
    /\ UNCHANGED <<clipVars, fsm, job>>

\* All clips are sent, or there were none.
EndListing(l) ==
    /\ \/ listing[l].at = "sending" /\ listing[l].left = <<>> /\ fsm' = "browsing"
       \/ listing[l].at = "empty" /\ fsm' = "none"
    /\ listing' = [listing EXCEPT ![l].at = "done"]
    /\ UNCHANGED <<clipVars, screen, job>>

\* Telegram fails, or the clip has neither a file_id nor a file: the clips
\* after it are not sent and the state is not set.
ListingRaises(l) ==
    /\ listing[l].at \in {"sending", "empty"}
    /\ listing' = [listing EXCEPT ![l] = [at |-> "done", left |-> <<>>]]
    /\ UNCHANGED <<clipVars, fsm, screen, job>>

\* Another command of the user.  Bound: only while a listing is to come,
\* after the last one it would only put an end to the taps.
LeaveDialog ==
    /\ fsm = "browsing" /\ fsm' = "none"
    /\ \E l \in Listings : listing[l].at = "todo"
    /\ UNCHANGED <<clipVars, listing, screen, job>>

-----------------------------------------------------------------------------
(* Taps *)

At(h, where) == job[h].at = where
Message(h)   == job[h].on
Clip(h)      == ClipOf(job[h].on)

Goto(h, where) == job' = [job EXCEPT ![h].at = where]
End(h)         == job' = [job EXCEPT ![h] = Idle]

\* StateFilter(browsing), and the button the message has.
Tap(h, m) ==
    /\ At(h, "idle") /\ fsm = "browsing"
    /\ \E where \in {"swap", "restore", "delete"} :
          /\ screen[m].kb = IF where = "swap" THEN "delete" ELSE "confirm"
          /\ job' = [job EXCEPT ![h] = [at |-> where, on |-> m, found |-> FALSE]]
    /\ UNCHANGED <<clipVars, fsm, listing, screen>>

\* edit_reply_markup, which Telegram rejects when nothing would change.
EditReplyMarkup(h, kb) ==
    /\ screen[Message(h)].kb # kb
    /\ screen' = [screen EXCEPT ![Message(h)].kb = kb]
    /\ UNCHANGED <<clipVars, fsm, listing>>

\* The call.answer that follows, here and in on_confirm for a clip that was
\* not found, changes nothing: the handler is at its end.
OnDeleteButton(h)  == At(h, "swap") /\ EditReplyMarkup(h, "confirm") /\ End(h)
OnCancelConfirm(h) == At(h, "restore") /\ EditReplyMarkup(h, "delete") /\ End(h)

\* h has deleted the row of clip c and not ended.
Holds(h, c) == job[h].found /\ Clip(h) = c

\* on_confirm up to delete_video: the row, then the file, which may stay.
DeleteVideo_Slip(h) ==           \* does not wait: SKIP LOCKED
    /\ At(h, "delete")
    /\ \/ /\ Clip(h) \in rows /\ \A g \in Handlers : ~Holds(g, Clip(h))
          /\ job' = [job EXCEPT ![h] = [at |-> "mark", on |-> Message(h), found |-> TRUE]]
          /\ files' \in {files, files \ {Clip(h)}}
       \/ /\ Clip(h) \notin rows \/ \E g \in Handlers : Holds(g, Clip(h))
          /\ Goto(h, "mark") /\ UNCHANGED files
    /\ UNCHANGED <<rows, fsm, listing, screen, aborted>>

DeleteVideo_Slip2(h) ==          \* removes the file, then asks who owns the row
    /\ At(h, "delete")
    /\ \A g \in Handlers : ~Holds(g, Clip(h))
    /\ Goto(h, "mark") /\ files' = files \ {Clip(h)}
    /\ UNCHANGED <<rows, fsm, listing, screen, aborted>>

DeleteVideo(h) ==
    /\ At(h, "delete")
    /\ \A g \in Handlers : ~Holds(g, Clip(h))
    /\ \/ /\ Clip(h) \in rows
          /\ job' = [job EXCEPT ![h] = [at |-> "mark", on |-> Message(h), found |-> TRUE]]
          /\ files' \in {files, files \ {Clip(h)}}
       \/ /\ Clip(h) \notin rows
          /\ Goto(h, "mark") /\ UNCHANGED files
    /\ UNCHANGED <<rows, fsm, listing, screen, aborted>>

Mark(h) == At(h, "mark") /\ EditReplyMarkup(h, "none") /\ Goto(h, "caption")

Captioned(h) == IF job[h].found THEN Goto(h, "answer") ELSE End(h)

\* edit_caption: without a keyboard of its own it takes away the message's.
EditCaption(h) ==
    /\ At(h, "caption")
    /\ screen' = [screen EXCEPT ![Message(h)] =
                    [kb |-> "none", caption |-> IF job[h].found THEN "deleted" ELSE "gone"]]
    /\ Captioned(h)
    /\ UNCHANGED <<clipVars, fsm, listing>>

\* It is refused and a reply sent in its place.
ReplyInstead(h) ==
    /\ At(h, "caption") /\ Captioned(h)
    /\ UNCHANGED <<clipVars, fsm, listing, screen>>

\* call.answer, and the commit of the middleware.
Finish_Slip(h) ==                \* the middleware commits nothing
    /\ At(h, "answer") /\ End(h)
    /\ UNCHANGED <<clipVars, fsm, listing, screen>>

Finish(h) ==
    /\ At(h, "answer") /\ End(h)
    /\ rows' = rows \ {Clip(h)}
    /\ UNCHANGED <<files, fsm, listing, screen, aborted>>

\* Any call raises and the middleware rolls back.
Raise(h) ==
    /\ ~At(h, "idle") /\ End(h)
    /\ aborted' = IF job[h].found \/ At(h, "delete") THEN aborted \cup {Clip(h)} ELSE aborted
    /\ UNCHANGED <<rows, files, fsm, listing, screen>>

Step(h) ==
    \/ OnDeleteButton(h) \/ OnCancelConfirm(h) \/ DeleteVideo(h) \/ Mark(h)
    \/ EditCaption(h) \/ ReplyInstead(h) \/ Finish(h) \/ Raise(h)

Next ==
    \/ \E l \in Listings : \/ OpenListing(l) \/ SendVideo(l) \/ EndListing(l)
                           \/ ListingRaises(l)
    \/ LeaveDialog
    \/ \E h \in Handlers : Step(h) \/ \E m \in Messages : Tap(h, m)

\* A handler goes on as long as the event loop runs, except that a DELETE waits
\* for the transaction that holds the row: Postgres sets no limit to that, so
\* nothing obliges it to take a step (it may still raise, or be answered).
Waits(h) == At(h, "delete") /\ \E g \in Handlers : Holds(g, Clip(h))
GoOn(h)  == ~Waits(h) /\ Step(h)

Spec == Init /\ [][Next]_vars /\ \A h \in Handlers : WF_vars(GoOn(h))

-----------------------------------------------------------------------------
(* Properties *)

\* Every variable but `listing`, which only says what is sent next, stays in
\* its domain.
TypeOK ==
    /\ rows \subseteq Clips /\ files \subseteq Clips /\ aborted \subseteq Clips
    /\ fsm \in {"none", "browsing"}
    /\ screen \in [Messages -> [kb : Keyboards, caption : Captions]]
    /\ job \in [Handlers -> Jobs]

\* "Couldn't delete (already gone?)" is said only of a clip that is gone, and
\* stays so: also when two taps on Confirm race, in one message or in the
\* messages of two listings, and the first of them fails in the end (on_confirm).
GoneIsGone == \A m \in Messages : screen[m].caption = "gone" => ClipOf(m) \notin rows

\* A clip that the library still lists has its file and no message calls it
\* deleted, unless its deletion is under way or has raised
\* (delete_video removes the file before the commit; on_confirm marks the
\* message before it).
LossNeedsFailure ==
    \A c \in rows :
        c \notin files \/ (\E m \in Messages : ClipOf(m) = c /\ screen[m].caption = "deleted")
            => c \in aborted \/ \E h \in Handlers : Holds(h, c)

\* A tap on Confirm ends with the clip gone, unless a call raised for it: the
\* handlers that wait for each other's row, and the edits that Telegram
\* rejects because another handler was faster, do not leave it hanging.
ConfirmSettles ==
    \A c \in Clips :
        (\E h \in Handlers : At(h, "delete") /\ Clip(h) = c) ~> c \notin rows \/ c \in aborted

\* The dialog keeps the library's promise (ClipCustody) with its own means,
\* messages and taps: a clip is owed to the user until a confirmed deletion has
\* its row or has raised; bytes go only with that step, and a row only after it
\* (on_confirm, delete_video, the middleware's commit).
Kept == {c \in rows : c \notin aborted /\ \A h \in Handlers : ~Holds(h, c)}

Promise == INSTANCE ClipCustody WITH
    Clips <- Clips, custody <- Kept, store <- files, list <- rows

KeepsPromise == [][Promise!CustodyNext]_<<Kept, files, rows>>

(* Why the safety properties hold *)

\* A row has one deletion under way at most, and it is still there; whoever
\* has not found it goes on because it is gone.
TapsSound ==
    \A h \in Handlers :
        /\ job[h].at \in {"idle", "swap", "restore", "delete"} => ~job[h].found
        /\ job[h].at = "answer" => job[h].found
        /\ job[h].found => /\ Clip(h) \in rows
                          /\ \A g \in Handlers : Holds(g, Clip(h)) => g = h
        /\ job[h].at \in {"mark", "caption"} /\ ~job[h].found => Clip(h) \notin rows

IInv == TypeOK /\ TapsSound /\ GoneIsGone /\ LossNeedsFailure
=============================================================================
