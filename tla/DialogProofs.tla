---------------------------- MODULE DialogProofs ----------------------------
(***************************************************************************)
(* What is proved of Dialog, for any messages, tags and choices.  Types    *)
(* hold for any number of handlers in flight.  The two promises about the  *)
(* reel need the user's updates to be handled one at a time (OneAtATime):  *)
(* IInv says what a suspended handler still knows when it goes on, and     *)
(* another handler in between could make any of it stale.                  *)
(***************************************************************************)
EXTENDS Dialog, TLAPS

\* At most one update of the user is handled at a time.
OneAtATime == \A g, h \in Handlers : g = h

-----------------------------------------------------------------------------
(* The records *)

\* FSM data with one key written are FSM data.
LEMMA DataWritten ==
    ASSUME NEW d \in Data
    PROVE  /\ \A t \in Tags : [d EXCEPT !.tag = t] \in Data
           /\ \A r \in Ranges : [d EXCEPT !.range = r] \in Data
           /\ \A n \in Durations : [d EXCEPT !.duration = n] \in Data
           /\ \A o \in Overlays : [d EXCEPT !.overlay = o] \in Data
BY DEF Data

\* The cleared data are FSM data, and so is what a tapped tag carries.
LEMMA ClearedIsData ==
    Cleared \in Data /\ \A t \in Tags : [Cleared EXCEPT !.tag = t] \in Data
<1>1. Cleared \in Data
  BY DEF Cleared, Data
<1> QED
  BY <1>1, DataWritten

\* What a suspended handler remembers, put together from its parts.
LEMMA JobMade ==
    ASSUME NEW at \in {"idle", "query", "call", "resume"}, NEW do \in Queries \cup Ends,
           NEW m \in Messages \cup {NoMessage}, NEW kb \in Keyboards, NEW with \in Data
    PROVE  [at |-> at, do |-> do, on |-> m, kb |-> kb, with |-> with] \in Jobs
BY DEF Jobs

\* A handler that is not running has a place in the domain.
LEMMA IdleIsJob == Idle \in Jobs
BY ClearedIsData, JobMade DEF Idle, Ends, Keyboards

\* Waiting for the database, or for Telegram, keeps the handlers typed.
LEMMA AskTyped ==
    ASSUME job \in [Handlers -> Jobs], NEW h \in Handlers, NEW query \in Queries,
           NEW m \in Messages \cup {NoMessage}, NEW with \in Data, Ask(h, query, m, with)
    PROVE  job' \in [Handlers -> Jobs]
<1>1. [at |-> "query", do |-> query, on |-> m, kb |-> "none", with |-> with] \in Jobs
  BY JobMade DEF Keyboards
<1> QED
  BY <1>1 DEF Ask

LEMMA ShowTyped ==
    ASSUME job \in [Handlers -> Jobs], NEW h \in Handlers, NEW end \in Ends,
           NEW m \in Messages \cup {NoMessage}, NEW kb \in Keyboards, NEW with \in Data,
           Show(h, m, kb, with, end)
    PROVE  job' \in [Handlers -> Jobs]
<1>1. [at |-> "call", do |-> end, on |-> m, kb |-> kb, with |-> with] \in Jobs
  BY JobMade
<1> QED
  BY <1>1 DEF Show

LEMMA ShowNewTyped ==
    ASSUME job \in [Handlers -> Jobs], NEW h \in Handlers, NEW end \in Ends,
           NEW kb \in Keyboards, ShowNew(h, kb, end)
    PROVE  job' \in [Handlers -> Jobs]
BY ShowTyped, ClearedIsData DEF ShowNew

-----------------------------------------------------------------------------
(* Types, for any number of handlers *)

\* Commands, and what follows the list of tags.
LEMMA TagsTyped ==
    ASSUME TypeOK, NEW h \in Handlers,
           \/ \E command \in {"compile", "delete"} : Command(h, command)
           \/ OnCancel(h) \/ CompileTags(h) \/ DeleteTags(h)
    PROVE  TypeOK'
<1> USE DEF TypeOK
<1>1. CASE \E command \in {"compile", "delete"} : Command(h, command)
  <2>1. PICK command \in {"compile", "delete"} : Command(h, command)
    BY <1>1
  <2>2. Ask(h, command, NoMessage, Cleared) /\ command \in Queries
    BY <2>1 DEF Command, Queries
  <2>3. job \in [Handlers -> Jobs]
    OBVIOUS
  <2>4. job' \in [Handlers -> Jobs]
    <3> HIDE DEF TypeOK
    <3> QED BY <2>2, <2>3, AskTyped, ClearedIsData
  <2> QED
    BY <2>1, <2>4 DEF Command
<1>2. CASE OnCancel(h)
  BY <1>2, ClearedIsData DEF OnCancel, States
<1>3. CASE CompileTags(h)
  <2>1. data' \in Data
    BY <1>3, DataWritten DEF CompileTags
  <2>2. job' \in [Handlers -> Jobs]
    BY <1>3, ShowNewTyped DEF CompileTags, Keyboards, Ends, Waiting
  <2> QED
    BY <1>3, <2>1, <2>2 DEF CompileTags, historyVars
<1>4. CASE DeleteTags(h)
  <2>1. data' \in Data
    BY <1>4, DataWritten DEF DeleteTags
  <2>2. job' \in [Handlers -> Jobs]
    BY <1>4, ShowNewTyped, AskTyped, ClearedIsData
    DEF DeleteTags, Keyboards, Ends, Waiting, Queries
  <2> QED
    BY <1>4, <2>1, <2>2 DEF DeleteTags, historyVars
<1> QED
  BY <1>1, <1>2, <1>3, <1>4

\* Taps on the keyboards.
LEMMA TapTyped == ASSUME TypeOK, NEW h \in Handlers, NEW m \in Messages, Tap(h, m) PROVE TypeOK'
<1> USE DEF TypeOK
<1>1. CASE \E t \in tags : TapTag(h, m, t)
  <2>1. job' \in [Handlers -> Jobs]
    BY <1>1, AskTyped, ClearedIsData DEF TapTag, Queries
  <2> QED
    BY <1>1, <2>1 DEF TapTag, historyVars
<1>2. CASE \E r \in Ranges : OnRangeSelected(h, m, r)
  <2>1. data' \in Data
    BY <1>2, DataWritten DEF OnRangeSelected
  <2>2. job' \in [Handlers -> Jobs]
    BY <1>2, ShowTyped, ClearedIsData DEF OnRangeSelected, Keyboards, Ends, Waiting
  <2> QED
    BY <1>2, <2>1, <2>2 DEF OnRangeSelected, historyVars
<1>3. CASE \E d \in Durations : OnDurationSelected(h, m, d)
  <2>1. data' \in Data
    BY <1>3, DataWritten DEF OnDurationSelected
  <2>2. job' \in [Handlers -> Jobs]
    BY <1>3, ShowTyped, ClearedIsData DEF OnDurationSelected, Keyboards, Ends, Waiting
  <2> QED
    BY <1>3, <2>1, <2>2 DEF OnDurationSelected, historyVars
<1>4. CASE \E o \in Overlays : OnOverlaySelected(h, m, o)
  <2>1. data' \in Data
    BY <1>4, DataWritten DEF OnOverlaySelected
  <2>2. job' \in [Handlers -> Jobs]
    BY <1>4, <2>1, ShowTyped DEF OnOverlaySelected, Keyboards, Ends, Waiting
  <2> QED
    BY <1>4, <2>1, <2>2 DEF OnOverlaySelected, historyVars
<1>5. CASE OnConfirm(h, m)
  <2>1. job' \in [Handlers -> Jobs] /\ keyError' \in BOOLEAN
    BY <1>5, AskTyped DEF OnConfirm, Queries
  <2> QED
    BY <1>5, <2>1 DEF OnConfirm
<1>6. CASE OnConfirmCancel(h, m)
  <2>1. job' \in [Handlers -> Jobs]
    BY <1>6, ShowTyped, ClearedIsData DEF OnConfirmCancel, Keyboards, Ends
  <2> QED
    BY <1>6, <2>1 DEF OnConfirmCancel, historyVars
<1> QED
  BY <1>1, <1>2, <1>3, <1>4, <1>5, <1>6 DEF Tap

\* The rest of the handlers, once an answer is there.
LEMMA AnswerTyped ==
    ASSUME TypeOK, NEW h \in Handlers,
           TagRead(h) \/ OpenListing(h) \/ Candidates(h) \/ Raise(h)
    PROVE  TypeOK'
<1> USE DEF TypeOK
<1>1. job[h] \in Jobs /\ job[h].on \in Messages \cup {NoMessage} /\ job[h].with \in Data
  BY DEF Jobs
<1>2. CASE TagRead(h)
  <2>1. job[h].with.tag \in Tags \cup {Unset}
    BY <1>1 DEF Data
  <2>2. data' \in Data
    BY <1>2, <2>1 DEF TagRead, Data
  <2>3. job' \in [Handlers -> Jobs]
    BY <1>1, <1>2, ShowTyped, AskTyped, ClearedIsData
    DEF TagRead, Queries, Keyboards, Ends, Waiting
  <2> QED
    BY <1>2, <2>2, <2>3 DEF TagRead, historyVars
<1>3. CASE OpenListing(h)
  <2>1. job' \in [Handlers -> Jobs]
    BY <1>3, ShowNewTyped DEF OpenListing, Keyboards, Ends, Waiting
  <2> QED
    BY <1>3, <2>1 DEF OpenListing, historyVars
<1>4. CASE Candidates(h)
  <2>1. job' \in [Handlers -> Jobs]
    BY <1>1, <1>4, ShowTyped DEF Candidates, Keyboards, Ends
  <2> QED
    BY <1>4, <2>1 DEF Candidates, historyVars
<1>5. CASE Raise(h)
  BY <1>5, IdleIsJob DEF Raise, historyVars
<1> QED
  BY <1>2, <1>3, <1>4, <1>5

\* Telegram's answer: the keyboard is shown, and the FSM written.
LEMMA DeliverTyped == ASSUME TypeOK, NEW h \in Handlers, Deliver(h) PROVE TypeOK'
<1> USE DEF TypeOK
<1>1. job[h] \in Jobs /\ job[h].kb \in Keyboards /\ job[h].with \in Data
  BY DEF Jobs
<1>2. [job[h] EXCEPT !.at = "resume"] \in Jobs
  BY <1>1 DEF Jobs
<1>3. job' \in [Handlers -> Jobs]
  BY <1>2 DEF Deliver
<1>4. screen' \in [Messages -> Keyboards]
  BY <1>1 DEF Deliver
<1>5. summary' \in Data
  BY <1>1 DEF Deliver
<1> QED
  BY <1>3, <1>4, <1>5 DEF Deliver

LEMMA ResumeTyped == ASSUME TypeOK, NEW h \in Handlers, Resume(h) PROVE TypeOK'
<1> USE DEF TypeOK
<1>1. job[h] \in Jobs /\ job[h].with \in Data
  BY DEF Jobs
<1>2. job' \in [Handlers -> Jobs]
  BY IdleIsJob DEF Resume
<1>3. fsm' \in States /\ data' \in Data
  BY ClearedIsData DEF Resume, States
<1>4. reel' \in Data /\ keyError' \in BOOLEAN
  BY <1>1 DEF Resume
<1> QED
  BY <1>2, <1>3, <1>4 DEF Resume

\* Every step keeps the types.
LEMMA TypeStep == ASSUME TypeOK, [Next]_vars PROVE TypeOK'
<1>1. CASE UNCHANGED vars
  BY <1>1 DEF TypeOK, vars
<1>2. ASSUME NEW t \in Tags, TagAdded(t) PROVE TypeOK'
  BY <1>2 DEF TagAdded, TypeOK, historyVars
<1> QED
  BY <1>1, <1>2, TagsTyped, TapTyped, AnswerTyped, DeliverTyped, ResumeTyped DEF Next

\* Dialog.TypeOK, for every number of handlers in flight and messages in reach.
THEOREM TypeCorrect == Spec => []TypeOK
<1>1. Init => TypeOK
  BY ClearedIsData, IdleIsJob DEF Init, TypeOK, States, Keyboards
<1> QED
  BY <1>1, TypeStep, PTL DEF Spec

-----------------------------------------------------------------------------
(* The invariant, one handler at a time *)

\* The first states satisfy the invariant.
LEMMA InitIInv == Init => IInv
<1> SUFFICES ASSUME Init PROVE IInv
  OBVIOUS
<1>1. TypeOK
  BY ClearedIsData, IdleIsJob DEF Init, TypeOK, States, Keyboards
<1>2. DialogSound /\ NoKeyError
  BY DEF Init, DialogSound, NoKeyError, Cleared, PastTag, PastDuration
<1>3. \A h \in Handlers : JobSound(h)
  BY DEF Init, JobSound, Idle, At
<1> QED
  BY <1>1, <1>2, <1>3 DEF IInv

\* A handler's soundness is a matter of its own record; nobody else has one.
LEMMA OnlyHandler ==
    ASSUME OneAtATime, NEW h \in Handlers, DialogSound', JobSound(h)', NoKeyError', TypeOK'
    PROVE  IInv'
BY DEF OneAtATime, IInv

\* An upload commits: a known tag stays known.
LEMMA TagAddedStep == ASSUME IInv, NEW t \in Tags, TagAdded(t) PROVE IInv'
<1>1. TypeOK' /\ DialogSound' /\ NoKeyError'
  BY DEF IInv, TagAdded, TypeOK, DialogSound, NoKeyError, historyVars
<1>2. \A h \in Handlers : JobSound(h)'
  BY DEF IInv, TagAdded, JobSound, At, historyVars
<1> QED
  BY <1>1, <1>2 DEF IInv

\* A message that is neither a summary nor the start of a reel leaves its
\* handler sound when what its end promises of the data is true.
LEMMA ShowSound ==
    ASSUME TypeOK, NEW h \in Handlers, NEW m, NEW kb, NEW with, NEW end,
           Show(h, m, kb, with, end), kb # "confirm", end \notin {"confirming", "reel"},
           end \in PastTag => data'.tag # Unset,
           end \in PastDuration => data'.duration # Unset
    PROVE  JobSound(h)'
<1>1. job'[h] = [at |-> "call", do |-> end, on |-> m, kb |-> kb, with |-> with]
  BY DEF Show, TypeOK
<1> QED
  BY <1>1 DEF JobSound, At

\* A new message says less: no end of it comes after the duration.
LEMMA ShowNewSound ==
    ASSUME TypeOK, NEW h \in Handlers, NEW kb \in {"none", "tag", "range", "deleteTag"},
           NEW end \in {"clear", "waiting_tag", "waiting_range", "delete_waiting_tag", "browsing"},
           ShowNew(h, kb, end), end = "waiting_range" => data'.tag # Unset
    PROVE  JobSound(h)'
BY ShowSound DEF ShowNew, PastTag, PastDuration

\* A query of these kinds carries nothing that could become stale.
LEMMA AskSound ==
    ASSUME TypeOK, NEW h \in Handlers, NEW m, NEW with,
           NEW query \in {"compile", "delete", "listing"}, Ask(h, query, m, with)
    PROVE  JobSound(h)'
<1>1. job'[h] = [at |-> "query", do |-> query, on |-> m, kb |-> "none", with |-> with]
  BY DEF Ask, TypeOK
<1> QED
  BY <1>1 DEF JobSound, At

\* The dialog stays sound when nothing is written, and when the only tag is
\* written: over the same tag, if the dialog was past its tag.
LEMMA NothingWritten ==
    ASSUME DialogSound, UNCHANGED <<tags, fsm, data, summary>> PROVE DialogSound'
BY DEF DialogSound

LEMMA OnlyTagWritten ==
    ASSUME TypeOK, DialogSound, UNCHANGED <<tags, fsm, summary>>, NEW only \in Tags,
           tags = {only}, data' = [data EXCEPT !.tag = only]
    PROVE  DialogSound' /\ data'.tag # Unset
<1>1. /\ data'.tag = only /\ only # Unset /\ data'.duration = data.duration
      /\ data.tag # Unset => data' = data
  BY UnsetAssumption DEF TypeOK, Data, DialogSound
<1> QED
  BY <1>1 DEF DialogSound, PastTag, PastDuration

\* Commands, and what follows the list of tags.
LEMMA TagsStep ==
    ASSUME OneAtATime, IInv, TypeOK', NEW h \in Handlers,
           \/ \E command \in {"compile", "delete"} : Command(h, command)
           \/ OnCancel(h) \/ CompileTags(h) \/ DeleteTags(h)
    PROVE  IInv'
<1>1. TypeOK /\ DialogSound /\ ~keyError
  BY DEF IInv, NoKeyError
<1>2. CASE \E command \in {"compile", "delete"} : Command(h, command)
  <2>1. DialogSound' /\ NoKeyError'
    BY <1>1, <1>2, NothingWritten DEF Command, NoKeyError
  <2>2. JobSound(h)'
    BY <1>1, <1>2, AskSound DEF Command
  <2> QED
    BY <2>1, <2>2, OnlyHandler
<1>3. CASE OnCancel(h)
  <2>1. DialogSound' /\ NoKeyError'
    BY <1>1, <1>3 DEF OnCancel, DialogSound, NoKeyError, Cleared, PastTag, PastDuration
  <2>2. JobSound(h)'
    BY <1>3 DEF OnCancel, Free, JobSound, At
  <2> QED
    BY <2>1, <2>2, OnlyHandler
<1>4. CASE CompileTags(h)
  <2>1. UNCHANGED <<tags, fsm, summary, keyError>>
    BY <1>4 DEF CompileTags, historyVars
  <2>2. DialogSound' /\ JobSound(h)'
    <3>1. CASE UNCHANGED data /\ (ShowNew(h, "none", "clear") \/ ShowNew(h, "tag", "waiting_tag"))
      BY <1>1, <2>1, <3>1, NothingWritten, ShowNewSound
    <3>2. CASE /\ \E only \in Tags : tags = {only} /\ data' = [data EXCEPT !.tag = only]
               /\ ShowNew(h, "range", "waiting_range")
      BY <1>1, <2>1, <3>2, OnlyTagWritten, ShowNewSound
    <3> QED
      BY <1>4, <3>1, <3>2 DEF CompileTags
  <2> QED
    BY <1>1, <2>1, <2>2, OnlyHandler DEF NoKeyError
<1>5. CASE DeleteTags(h)
  <2>1. UNCHANGED <<tags, fsm, summary, keyError>>
    BY <1>5 DEF DeleteTags, historyVars
  <2>2. DialogSound' /\ JobSound(h)'
    <3>1. CASE /\ UNCHANGED data
               /\ ShowNew(h, "none", "clear") \/ ShowNew(h, "deleteTag", "delete_waiting_tag")
      BY <1>1, <2>1, <3>1, NothingWritten, ShowNewSound
    <3>2. CASE /\ \E only \in Tags : tags = {only} /\ data' = [data EXCEPT !.tag = only]
               /\ Ask(h, "listing", NoMessage, Cleared)
      BY <1>1, <2>1, <3>2, OnlyTagWritten, AskSound
    <3> QED
      BY <1>5, <3>1, <3>2 DEF DeleteTags
  <2> QED
    BY <1>1, <2>1, <2>2, OnlyHandler DEF NoKeyError
<1> QED
  BY <1>2, <1>3, <1>4, <1>5

\* Taps: each is routed by the FSM state, which says what the data hold.
LEMMA TapStep ==
    ASSUME OneAtATime, IInv, TypeOK', NEW h \in Handlers, NEW m \in Messages, Tap(h, m)
    PROVE  IInv'
<1>1. TypeOK /\ DialogSound /\ ~keyError
  BY DEF IInv, NoKeyError
<1>2. ASSUME NEW t \in tags, TapTag(h, m, t) PROVE IInv'
  <2>1. DialogSound' /\ NoKeyError'
    BY <1>1, <1>2, NothingWritten DEF TapTag, NoKeyError, historyVars
  <2>2. JobSound(h)'
    <3>1. [Cleared EXCEPT !.tag = t].tag = t
      BY DEF Cleared
    <3>2. \E query \in {"tag", "deleteTag"} :
            /\ job'[h].at = "query" /\ job'[h].do = query
            /\ job'[h].with = [Cleared EXCEPT !.tag = t]
            /\ fsm = (IF query = "tag" THEN "waiting_tag" ELSE "delete_waiting_tag")
      BY <1>1, <1>2 DEF TapTag, Tapped, Ask, TypeOK
    <3> QED
      BY <1>2, <3>1, <3>2 DEF TapTag, JobSound, At
  <2> QED
    BY <2>1, <2>2, OnlyHandler
<1>3. ASSUME NEW r \in Ranges, OnRangeSelected(h, m, r) PROVE IInv'
  <2>1. fsm = "waiting_range" /\ data.tag # Unset
    BY <1>1, <1>3 DEF OnRangeSelected, Tapped, DialogSound, PastTag
  <2>2. data'.tag = data.tag /\ data'.duration = data.duration
    BY <1>1, <1>3 DEF OnRangeSelected, TypeOK, Data
  <2>3. DialogSound' /\ NoKeyError'
    BY <1>1, <1>3, <2>1, <2>2
    DEF OnRangeSelected, DialogSound, NoKeyError, historyVars, PastTag, PastDuration
  <2>4. JobSound(h)'
    BY <1>1, <1>3, <2>1, <2>2, ShowSound DEF OnRangeSelected, PastTag, PastDuration
  <2> QED
    BY <2>3, <2>4, OnlyHandler
<1>4. ASSUME NEW d \in Durations, OnDurationSelected(h, m, d) PROVE IInv'
  <2>1. fsm = "waiting_duration" /\ data.tag # Unset
    BY <1>1, <1>4 DEF OnDurationSelected, Tapped, DialogSound, PastTag
  <2>2. data'.tag = data.tag /\ data'.duration # Unset
    BY <1>1, <1>4, UnsetAssumption DEF OnDurationSelected, TypeOK, Data
  <2>3. DialogSound' /\ NoKeyError'
    BY <1>1, <1>4, <2>1, <2>2
    DEF OnDurationSelected, DialogSound, NoKeyError, historyVars, PastTag, PastDuration
  <2>4. JobSound(h)'
    BY <1>1, <1>4, <2>1, <2>2, ShowSound DEF OnDurationSelected, PastTag, PastDuration
  <2> QED
    BY <2>3, <2>4, OnlyHandler
<1>5. ASSUME NEW o \in Overlays, OnOverlaySelected(h, m, o) PROVE IInv'
  <2>1. fsm = "waiting_overlay" /\ data.tag # Unset /\ data.duration # Unset
    BY <1>1, <1>5 DEF OnOverlaySelected, Tapped, DialogSound, PastTag, PastDuration
  <2>2. data'.tag = data.tag /\ data'.duration = data.duration
    BY <1>1, <1>5 DEF OnOverlaySelected, TypeOK, Data
  <2>3. DialogSound' /\ NoKeyError'
    BY <1>1, <1>5, <2>1, <2>2
    DEF OnOverlaySelected, DialogSound, NoKeyError, historyVars, PastTag, PastDuration
  <2>4. job'[h] = [at |-> "call", do |-> "confirming", on |-> m, kb |-> "confirm", with |-> data']
    BY <1>1, <1>5 DEF OnOverlaySelected, Show, TypeOK
  <2>5. JobSound(h)'
    BY <2>1, <2>2, <2>4 DEF JobSound, At
  <2> QED
    BY <2>3, <2>5, OnlyHandler
<1>6. CASE OnConfirm(h, m)
  <2>1. fsm = "confirming" /\ data.tag # Unset /\ data.duration # Unset /\ data = summary
    BY <1>1, <1>6 DEF OnConfirm, Tapped, DialogSound, PastTag, PastDuration
  <2>2. DialogSound' /\ NoKeyError'
    BY <1>1, <1>6, <2>1, NothingWritten DEF OnConfirm, NoKeyError
  <2>3. job'[h] = [at |-> "query", do |-> "go", on |-> m, kb |-> "none", with |-> data]
    BY <1>1, <1>6, <2>1 DEF OnConfirm, Ask, TypeOK
  <2>4. JobSound(h)'
    BY <1>6, <2>1, <2>3 DEF OnConfirm, JobSound, At
  <2> QED
    BY <2>2, <2>4, OnlyHandler
<1>7. CASE OnConfirmCancel(h, m)
  <2>1. DialogSound' /\ NoKeyError'
    BY <1>1, <1>7, NothingWritten DEF OnConfirmCancel, NoKeyError, historyVars
  <2>2. JobSound(h)'
    BY <1>1, <1>7, ShowSound DEF OnConfirmCancel, PastTag, PastDuration
  <2> QED
    BY <2>1, <2>2, OnlyHandler
<1> QED
  BY <1>2, <1>3, <1>4, <1>5, <1>6, <1>7 DEF Tap

\* The answers of the database.
LEMMA AnswerStep ==
    ASSUME OneAtATime, IInv, TypeOK', NEW h \in Handlers,
           TagRead(h) \/ OpenListing(h) \/ Candidates(h) \/ Raise(h)
    PROVE  IInv'
<1>1. TypeOK /\ DialogSound /\ JobSound(h) /\ ~keyError
  BY DEF IInv, NoKeyError
<1>2. CASE TagRead(h)
  <2>1. /\ fsm \in {"waiting_tag", "delete_waiting_tag"} /\ job[h].with.tag \in tags
        /\ job[h].with.tag # Unset
    BY <1>1, <1>2, UnsetAssumption DEF TagRead, At, JobSound, TypeOK
  <2>2. data'.tag = job[h].with.tag
    BY <1>1, <1>2 DEF TagRead, TypeOK, Data
  <2>3. DialogSound' /\ NoKeyError'
    BY <1>1, <1>2, <2>1, <2>2
    DEF TagRead, DialogSound, NoKeyError, historyVars, PastTag, PastDuration
  <2>4. JobSound(h)'
    <3>1. CASE Show(h, job[h].on, "range", Cleared, "waiting_range")
      BY <1>1, <2>1, <2>2, <3>1, ShowSound DEF PastTag, PastDuration
    <3>2. CASE Ask(h, "listing", NoMessage, Cleared)
      BY <1>1, <3>2, AskSound
    <3> QED
      BY <1>2, <3>1, <3>2 DEF TagRead
  <2> QED
    BY <2>3, <2>4, OnlyHandler
<1>3. CASE OpenListing(h)
  <2>1. DialogSound' /\ NoKeyError'
    BY <1>1, <1>3, NothingWritten DEF OpenListing, NoKeyError, historyVars
  <2>2. JobSound(h)'
    BY <1>1, <1>3, ShowNewSound DEF OpenListing
  <2> QED
    BY <2>1, <2>2, OnlyHandler
<1>4. CASE Candidates(h)
  <2>1. DialogSound' /\ NoKeyError'
    BY <1>1, <1>4, NothingWritten DEF Candidates, NoKeyError, historyVars
  <2>2. job[h].with = summary /\ job[h].with.duration # Unset
    BY <1>1, <1>4 DEF Candidates, JobSound
  <2>3. \E end \in {"reel", "clear"} :
          job'[h] = [at |-> "call", do |-> end, on |-> job[h].on, kb |-> "none", with |-> job[h].with]
    BY <1>1, <1>4 DEF Candidates, Show, TypeOK
  <2>4. JobSound(h)'
    BY <1>4, <2>2, <2>3 DEF Candidates, historyVars, JobSound, At, PastTag, PastDuration
  <2> QED
    BY <2>1, <2>4, OnlyHandler
<1>5. CASE Raise(h)
  <2>1. DialogSound' /\ NoKeyError'
    BY <1>1, <1>5, NothingWritten DEF Raise, NoKeyError, historyVars
  <2>2. job'[h] = Idle
    BY <1>1, <1>5 DEF Raise, TypeOK
  <2>3. JobSound(h)'
    BY <2>2 DEF Idle, JobSound, At
  <2> QED
    BY <2>1, <2>3, OnlyHandler
<1> QED
  BY <1>2, <1>3, <1>4, <1>5

\* Telegram shows a message; a summary shown is of the data as they are.
LEMMA DeliverStep == ASSUME OneAtATime, IInv, TypeOK', NEW h \in Handlers, Deliver(h) PROVE IInv'
<1>1. TypeOK /\ DialogSound /\ JobSound(h) /\ ~keyError
  BY DEF IInv, NoKeyError
<1>2. /\ job[h].at = "call" /\ UNCHANGED <<tags, fsm, data, keyError>>
      /\ job[h].kb = "confirm" => summary' = data
      /\ job[h].kb # "confirm" => summary' = summary
  BY <1>1 DEF Deliver, JobSound
<1>3. DialogSound' /\ NoKeyError'
  BY <1>1, <1>2 DEF DialogSound, NoKeyError
<1>4. /\ job'[h].at = "resume" /\ job'[h].do = job[h].do
      /\ job'[h].kb = job[h].kb /\ job'[h].with = job[h].with
  BY <1>1 DEF Deliver, TypeOK, Jobs
<1>5. JobSound(h)'
  BY <1>1, <1>2, <1>4 DEF JobSound, At
<1> QED
  BY <1>3, <1>5, OnlyHandler

\* Its answer is back: the state is set to what the data are ready for, or
\* both are cleared.
LEMMA ResumeStep == ASSUME OneAtATime, IInv, TypeOK', NEW h \in Handlers, Resume(h) PROVE IInv'
<1>1. TypeOK /\ DialogSound /\ JobSound(h) /\ ~keyError
  BY DEF IInv, NoKeyError
<1>2. job[h].at = "resume" /\ UNCHANGED <<tags, summary>> /\ job'[h] = Idle
  BY <1>1 DEF Resume, TypeOK
<1>3. NoKeyError'
  BY <1>1, <1>2 DEF Resume, JobSound, NoKeyError
<1>4. DialogSound'
  <2>1. CASE fsm' = job[h].do /\ UNCHANGED data
    BY <1>1, <1>2, <2>1 DEF JobSound, DialogSound
  <2>2. CASE fsm' = "none" /\ data' = Cleared
    BY <2>2 DEF DialogSound, Cleared, PastTag, PastDuration
  <2> QED
    BY <2>1, <2>2 DEF Resume
<1>5. JobSound(h)'
  BY <1>2 DEF Idle, JobSound, At
<1> QED
  BY <1>3, <1>4, <1>5, OnlyHandler

\* The invariant is inductive.
THEOREM Invariance == ASSUME OneAtATime PROVE Spec => []IInv
<1>1. ASSUME IInv, [Next]_vars PROVE IInv'
  <2>1. TypeOK'
    BY <1>1, TypeStep DEF IInv
  <2>2. CASE UNCHANGED vars
    BY <1>1, <2>2 DEF vars, IInv, TypeOK, DialogSound, JobSound, At, NoKeyError
  <2>3. ASSUME NEW t \in Tags, TagAdded(t) PROVE IInv'
    BY <1>1, <2>3, TagAddedStep
  <2> QED
    BY <1>1, <2>1, <2>2, <2>3, TagsStep, TapStep, AnswerStep, DeliverStep, ResumeStep DEF Next
<1> QED
  BY <1>1, InitIInv, PTL DEF Spec

\* Dialog.NoKeyError: "Generate" never meets data without a tag or a duration.
THEOREM NoKeyErrors == ASSUME OneAtATime PROVE Spec => []NoKeyError
BY Invariance, PTL DEF IInv

\* Dialog.ReelMatchesLastSummary: the reel made is the one last summarised.
THEOREM ReelsMatchSummaries == ASSUME OneAtATime PROVE Spec => ReelMatchesLastSummary
<1> DEFINE Claim == reel' # reel => reel' = summary
<1>1. ASSUME IInv, Next PROVE Claim
  <2>1. ASSUME NEW h \in Handlers, Resume(h) PROVE Claim
    BY <1>1, <2>1 DEF Resume, IInv, JobSound
  <2>2. ASSUME NEW t \in Tags, TagAdded(t) PROVE UNCHANGED reel
    BY <2>2 DEF TagAdded, historyVars
  <2>3. ASSUME NEW h \in Handlers, NEW m \in Messages, Tap(h, m) PROVE UNCHANGED reel
    BY <2>3 DEF Tap, TapTag, OnRangeSelected, OnDurationSelected, OnOverlaySelected,
                OnConfirm, OnConfirmCancel, historyVars
  <2>4. ASSUME NEW h \in Handlers,
               \/ \E command \in {"compile", "delete"} : Command(h, command)
               \/ OnCancel(h) \/ CompileTags(h) \/ DeleteTags(h)
        PROVE  UNCHANGED reel
    BY <2>4 DEF Command, OnCancel, CompileTags, DeleteTags, historyVars
  <2>5. ASSUME NEW h \in Handlers,
               TagRead(h) \/ OpenListing(h) \/ Candidates(h) \/ Deliver(h) \/ Raise(h)
        PROVE  UNCHANGED reel
    BY <2>5 DEF TagRead, OpenListing, Candidates, Deliver, Raise, historyVars
  <2> HIDE DEF Claim
  <2>6. UNCHANGED reel => Claim
    BY DEF Claim
  <2> QED
    BY <1>1, <2>1, <2>2, <2>3, <2>4, <2>5, <2>6 DEF Next
<1>2. IInv /\ [Next]_vars => [Claim]_vars
  BY <1>1
<1> QED
  BY <1>2, Invariance, PTL DEF Spec, ReelMatchesLastSummary
=============================================================================
