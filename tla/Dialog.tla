------------------------------- MODULE Dialog -------------------------------
(***************************************************************************)
(* One user's conversation with the bot.  The /compile and the /delete     *)
(* dialogs share one FSM state and one FSM data dictionary (their key is   *)
(* the user in the private chat).  Every command and every tap on a button *)
(* is an update with a handler of its own.  A handler reads and writes FSM *)
(* storage without a suspension (MemoryStorage), but each database query   *)
(* and each Telegram call suspends it, and other handlers run in between.  *)
(*                                                                         *)
(* The listing of a tag is abstracted to its two outcomes, some clips or   *)
(* none.  An operator called X_Slip is not part of the specification: it   *)
(* is X with a plausible mistake, kept to test that a property notices.    *)
(***************************************************************************)
CONSTANTS
    Handlers,    \* updates of this user that can be in flight at the same time
    Messages,    \* the bot's messages within the user's reach in the chat
    Tags,        \* hashtags
    Ranges, Durations, Overlays,    \* the choices the keyboards offer
    Unset,       \* a key that is not in the FSM data
    NoMessage

ASSUME UnsetAssumption == Unset \notin Tags \cup Ranges \cup Durations \cup Overlays
ASSUME MessagesAssumption == NoMessage \notin Messages

VARIABLES
    tags,        \* the user's rows of `tags`; uploads add to them, nothing removes
    fsm,         \* the FSM state, "none" when cleared
    data,        \* the FSM data
    screen,      \* screen[m]: the keyboard of message m
    job,         \* job[h]: where handler h is suspended and what it does next
    summary,     \* history: the last summary sent
    reel,        \* history: the parameters of the last compile task started
    keyError,    \* history: a handler has read a key that is not there
    cancelled    \* history: /cancel was acknowledged and nothing asked since

vars == <<tags, fsm, data, screen, job, summary, reel, keyError, cancelled>>

Data    == [tag      : Tags \cup {Unset},
            range    : Ranges \cup {Unset},
            duration : Durations \cup {Unset},
            overlay  : Overlays \cup {Unset}]
Cleared == [tag |-> Unset, range |-> Unset, duration |-> Unset, overlay |-> Unset]

Keyboards == {"none", "tag", "range", "duration", "overlay", "confirm", "deleteTag"}
Waiting   == {"waiting_tag", "waiting_range", "waiting_duration", "waiting_overlay",
              "confirming", "delete_waiting_tag", "browsing"}
States    == Waiting \cup {"none"}

\* "query" waits for the database, "call" for Telegram to show keyboard kb on
\* message `on`, "resume" for Telegram's answer.
Queries == {"compile", "delete", "tag", "deleteTag", "listing", "go"}
Ends    == Waiting \cup {"clear", "reel"}
Idle    == [at |-> "idle", do |-> "clear", on |-> NoMessage, kb |-> "none",
            with |-> Cleared]
Jobs    == [at : {"idle", "query", "call", "resume"}, do : Queries \cup Ends,
            on : Messages \cup {NoMessage}, kb : Keyboards, with : Data]

Init ==
    /\ tags = {}
    /\ fsm = "none" /\ data = Cleared
    /\ screen = [m \in Messages |-> "none"]
    /\ job = [h \in Handlers |-> Idle]
    /\ summary = Cleared /\ reel = Cleared
    /\ keyError = FALSE /\ cancelled = FALSE

-----------------------------------------------------------------------------
(* The three ways a handler goes on *)

Ask(h, query, m, with) ==
    job' = [job EXCEPT ![h] = [at |-> "query", do |-> query, on |-> m,
                               kb |-> "none", with |-> with]]

\* message.edit_text (or answer) with keyboard kb, and `end` once it is done.
Show(h, m, kb, with, end) ==
    job' = [job EXCEPT ![h] = [at |-> "call", do |-> end, on |-> m, kb |-> kb,
                               with |-> with]]

\* message.answer: a new message; the user loses one of the older from reach.
ShowNew(h, kb, end) == \E m \in Messages : Show(h, m, kb, Cleared, end)

Free(h)       == job[h].at = "idle"
At(h, query)  == job[h].at = "query" /\ job[h].do = query

\* A tap is routed by its button and, through StateFilter, by the FSM state.
Tapped(h, m, kb, state) == Free(h) /\ screen[m] = kb /\ fsm = state

historyVars == <<summary, reel, keyError, cancelled>>

-----------------------------------------------------------------------------
\* An upload with a new hashtag commits in the meantime.
TagAdded(t) ==
    /\ t \notin tags /\ tags' = tags \cup {t}
    /\ UNCHANGED <<fsm, data, screen, job, historyVars>>

(* Commands *)

Command(h, command) ==
    /\ Free(h)
    /\ Ask(h, command, NoMessage, Cleared)
    /\ cancelled' = FALSE
    /\ UNCHANGED <<tags, fsm, data, screen, summary, reel, keyError>>

\* on_compile, once the tags are listed.
CompileTags(h) ==
    /\ At(h, "compile")
    /\ \/ /\ tags = {}
          /\ ShowNew(h, "none", "clear") /\ UNCHANGED data
       \/ \E only \in Tags :
            /\ tags = {only}
            /\ data' = [data EXCEPT !.tag = only]
            /\ ShowNew(h, "range", "waiting_range")
       \/ /\ \E s, t \in tags : s # t
          /\ ShowNew(h, "tag", "waiting_tag") /\ UNCHANGED data
    /\ UNCHANGED <<tags, fsm, screen, historyVars>>

\* on_delete, once the tags are listed; a single tag goes on to its listing.
DeleteTags(h) ==
    /\ At(h, "delete")
    /\ \/ /\ tags = {}
          /\ ShowNew(h, "none", "clear") /\ UNCHANGED data
       \/ \E only \in Tags :
            /\ tags = {only}
            /\ data' = [data EXCEPT !.tag = only]
            /\ Ask(h, "listing", NoMessage, Cleared)
       \/ /\ \E s, t \in tags : s # t
          /\ ShowNew(h, "deleteTag", "delete_waiting_tag") /\ UNCHANGED data
    /\ UNCHANGED <<tags, fsm, screen, historyVars>>

\* on_cancel: state.clear() comes before anything is awaited.
OnCancel_Slip(h) ==              \* set_data({}) for clear()
    /\ Free(h) /\ fsm # "none"
    /\ data' = Cleared /\ cancelled' = TRUE
    /\ UNCHANGED <<tags, fsm, screen, job, summary, reel, keyError>>

OnCancel(h) ==
    /\ Free(h) /\ fsm # "none"
    /\ fsm' = "none" /\ data' = Cleared
    /\ cancelled' = TRUE
    /\ UNCHANGED <<tags, screen, job, summary, reel, keyError>>

-----------------------------------------------------------------------------
(* Taps *)

\* on_tag_selected of either dialog: the tag is read first.
TapTag(h, m, t) ==
    /\ \/ Tapped(h, m, "tag", "waiting_tag")
          /\ Ask(h, "tag", m, [Cleared EXCEPT !.tag = t])
       \/ Tapped(h, m, "deleteTag", "delete_waiting_tag")
          /\ Ask(h, "deleteTag", m, [Cleared EXCEPT !.tag = t])
    /\ UNCHANGED <<tags, fsm, data, screen, historyVars>>

TagRead(h) ==
    /\ data' = [data EXCEPT !.tag = job[h].with.tag]
    /\ \/ At(h, "tag") /\ Show(h, job[h].on, "range", Cleared, "waiting_range")
       \/ At(h, "deleteTag") /\ Ask(h, "listing", NoMessage, Cleared)
    /\ UNCHANGED <<tags, fsm, screen, historyVars>>

\* _open_listing: the clips are sent, then the state set; or it is cleared.
OpenListing(h) ==
    /\ At(h, "listing")
    /\ ShowNew(h, "none", "browsing") \/ ShowNew(h, "none", "clear")
    /\ UNCHANGED <<tags, fsm, data, screen, historyVars>>

OnRangeSelected(h, m, r) ==
    /\ Tapped(h, m, "range", "waiting_range")
    /\ data' = [data EXCEPT !.range = r]
    /\ Show(h, m, "duration", Cleared, "waiting_duration")
    /\ UNCHANGED <<tags, fsm, screen, historyVars>>

OnDurationSelected(h, m, d) ==
    /\ Tapped(h, m, "duration", "waiting_duration")
    /\ data' = [data EXCEPT !.duration = d]
    /\ Show(h, m, "overlay", Cleared, "waiting_overlay")
    /\ UNCHANGED <<tags, fsm, screen, historyVars>>

OnOverlaySelected_Slip(h, m, o) ==   \* get_data before update_data
    /\ Tapped(h, m, "overlay", "waiting_overlay")
    /\ data' = [data EXCEPT !.overlay = o]
    /\ Show(h, m, "confirm", data, "confirming")
    /\ UNCHANGED <<tags, fsm, screen, historyVars>>

OnOverlaySelected(h, m, o) ==
    /\ Tapped(h, m, "overlay", "waiting_overlay")
    /\ data' = [data EXCEPT !.overlay = o]
    /\ Show(h, m, "confirm", data', "confirming")
    /\ UNCHANGED <<tags, fsm, screen, historyVars>>

\* on_confirm, "Cancel".
OnConfirmCancel(h, m) ==
    /\ Tapped(h, m, "confirm", "confirming")
    /\ Show(h, m, "none", Cleared, "clear")
    /\ UNCHANGED <<tags, fsm, data, screen, historyVars>>

\* on_confirm, "Generate": data["tag_id"] raises when it is not there.
OnConfirm(h, m) ==
    /\ Tapped(h, m, "confirm", "confirming")
    /\ IF data.tag = Unset THEN keyError' = TRUE /\ UNCHANGED job
                           ELSE Ask(h, "go", m, data) /\ UNCHANGED keyError
    /\ UNCHANGED <<tags, fsm, data, screen, summary, reel, cancelled>>

\* The candidates are listed: some, or none.
Candidates(h) ==
    /\ At(h, "go")
    /\ \E end \in {"reel", "clear"} : Show(h, job[h].on, "none", job[h].with, end)
    /\ UNCHANGED <<tags, fsm, data, screen, historyVars>>

-----------------------------------------------------------------------------
(* The rest of every handler *)

\* Telegram shows what the handler sent.
Deliver(h) ==
    LET j == job[h] IN
    /\ j.at = "call"
    /\ screen' = [screen EXCEPT ![j.on] = j.kb]
    /\ summary' = IF j.kb = "confirm" THEN j.with ELSE summary
    /\ job' = [job EXCEPT ![h].at = "resume"]
    /\ UNCHANGED <<tags, fsm, data, reel, keyError, cancelled>>

\* Its answer is back: set_state, or clear; for a reel, clear and then start
\* the task, whose int(data["duration"]) raises when it is not there.
Resume(h) ==
    LET j == job[h] IN
    /\ j.at = "resume"
    /\ job' = [job EXCEPT ![h] = Idle]
    /\ IF j.do \in Waiting THEN fsm' = j.do /\ UNCHANGED data
                           ELSE fsm' = "none" /\ data' = Cleared
    /\ IF j.do = "reel" THEN IF j.with.duration = Unset
                             THEN keyError' = TRUE /\ UNCHANGED reel
                             ELSE reel' = j.with /\ UNCHANGED keyError
                        ELSE UNCHANGED <<reel, keyError>>
    /\ UNCHANGED <<tags, screen, summary, cancelled>>

\* The query or the call raises: the handler ends where it is.  A call may
\* raise although Telegram has done what it was asked.
Raise(h) ==
    /\ ~Free(h)
    /\ job' = [job EXCEPT ![h] = Idle]
    /\ UNCHANGED <<tags, fsm, data, screen, historyVars>>

Tap(h, m) ==
    \/ \E t \in tags : TapTag(h, m, t)
    \/ \E r \in Ranges : OnRangeSelected(h, m, r)
    \/ \E d \in Durations : OnDurationSelected(h, m, d)
    \/ \E o \in Overlays : OnOverlaySelected(h, m, o)
    \/ OnConfirm(h, m) \/ OnConfirmCancel(h, m)

Next ==
    \/ \E t \in Tags : TagAdded(t)
    \/ \E h \in Handlers :
        \/ \E command \in {"compile", "delete"} : Command(h, command)
        \/ OnCancel(h)
        \/ \E m \in Messages : Tap(h, m)
        \/ CompileTags(h) \/ DeleteTags(h) \/ TagRead(h) \/ OpenListing(h)
        \/ Candidates(h) \/ Deliver(h) \/ Resume(h) \/ Raise(h)

Spec == Init /\ [][Next]_vars

-----------------------------------------------------------------------------
(* Properties *)

TypeOK ==
    /\ tags \subseteq Tags
    /\ fsm \in States /\ data \in Data
    /\ screen \in [Messages -> Keyboards]
    /\ job \in [Handlers -> Jobs]
    /\ summary \in Data /\ reel \in Data
    /\ keyError \in BOOLEAN /\ cancelled \in BOOLEAN

\* "Generate" never meets FSM data without a tag or a duration, whatever old
\* keyboards the user taps, however /compile and /delete are mixed and
\* wherever a handler raises half-way (on_confirm).  Holds while the user's
\* updates are handled one at a time.
NoKeyError == ~keyError

\* The reel that is made is the one the last summary described, also when the
\* tap is on an older "Ready to compile" message, or the dialog was left for
\* /delete and entered again (on_overlay_selected, on_confirm).  Holds while
\* the user's updates are handled one at a time.
ReelMatchesLastSummary == [][reel' # reel => reel' = summary]_vars

\* "/cancel from any state clears FSM data and acknowledges"
\* (compile_flow.py, on_cancel): after it there is no dialog until the user
\* gives a command.
CancelSticks == cancelled => fsm = "none" /\ data = Cleared

\* What makes the two promises above inductive while one handler runs at a
\* time: a state past the tag (the duration) has a tag (a duration) in the data,
\* and in `confirming` the data are the last summary.
PastTag      == {"waiting_range", "waiting_duration", "waiting_overlay", "confirming"}
PastDuration == {"waiting_overlay", "confirming"}

DialogSound ==
    /\ data.tag \in tags \cup {Unset}
    /\ fsm \in PastTag => data.tag # Unset
    /\ fsm \in PastDuration => data.duration # Unset
    /\ fsm = "confirming" => data = summary

\* A suspended handler knows what it has written and what it goes on to write.
JobSound(h) ==
    LET j == job[h] IN
    /\ j.at \in {"call", "resume"} =>
        /\ j.do \in PastTag => data.tag # Unset
        /\ j.do \in PastDuration => data.duration # Unset
        /\ j.do = "reel" => j.kb = "none" /\ j.with = summary /\ j.with.duration # Unset
    /\ j.at = "call" => (j.kb = "confirm" <=> j.do = "confirming")
    /\ j.at = "call" /\ j.do = "confirming" => j.with = data
    /\ j.at = "resume" /\ j.do = "confirming" => data = summary
    /\ At(h, "go") => j.with = summary /\ j.with.duration # Unset
    /\ At(h, "tag") => j.with.tag \in tags /\ fsm = "waiting_tag"
    /\ At(h, "deleteTag") => j.with.tag \in tags /\ fsm = "delete_waiting_tag"

\* What the bot relies on between two steps of the one handler that runs (every
\* handler of the two dialogs): nothing it suspended over has become stale.
IInv == TypeOK /\ DialogSound /\ (\A h \in Handlers : JobSound(h)) /\ NoKeyError
=============================================================================
