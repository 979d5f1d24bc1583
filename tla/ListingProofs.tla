---------------------------- MODULE ListingProofs ----------------------------
(***************************************************************************)
(* What is proved of Listing, for any clips, listings and taps in flight.  *)
(* The invariant IInv is inductive: the lock that a DELETE takes on its    *)
(* row is what makes "already gone" true, and a clip whose file is away or *)
(* whose message says "deleted" has a handler that answers for it.         *)
(***************************************************************************)
EXTENDS Listing, TLAPS

\* A handler that is not busy has a place in its domain: there are messages.
LEMMA IdleIsJob == Idle \in Jobs
<1>1. PICK l \in Listings, c \in Clips : TRUE
  BY ListingAssumption
<1>2. <<l, c>> \in Messages
  BY <1>1 DEF Messages
<1>3. (CHOOSE m \in Messages : TRUE) \in Messages
  BY <1>2
<1> QED
  BY <1>3 DEF Idle, Jobs, Places

\* A handler that moves on keeps the rest of its record.
LEMMA JobMoved ==
    ASSUME NEW j \in Jobs, NEW where \in Places
    PROVE  LET k == [j EXCEPT !.at = where]
           IN  k \in Jobs /\ k.at = where /\ k.on = j.on /\ k.found = j.found
BY DEF Jobs

\* The record of a handler, put together from its parts.
LEMMA JobMade ==
    ASSUME NEW where \in Places, NEW m \in Messages, NEW found \in BOOLEAN
    PROVE  [at |-> where, on |-> m, found |-> found] \in Jobs
BY DEF Jobs

\* The first states satisfy the invariant.
LEMMA InitIInv == Init => IInv
<1> SUFFICES ASSUME Init PROVE IInv
  OBVIOUS
<1>1. TypeOK
  BY IdleIsJob DEF Init, TypeOK, Keyboards, Captions
<1>2. TapsSound
  BY DEF Init, TapsSound, Idle
<1>3. GoneIsGone /\ LossNeedsFailure
  BY DEF Init, GoneIsGone, LossNeedsFailure
<1> QED
  BY <1>1, <1>2, <1>3 DEF IInv

\* What is sent, and other commands, leave taps and clips alone; a new message
\* says nothing of its clip.
LEMMA ListingStep ==
    ASSUME IInv,
           \/ \E l \in Listings : \/ OpenListing(l) \/ SendVideo(l) \/ EndListing(l)
                                  \/ ListingRaises(l)
           \/ LeaveDialog
    PROVE  IInv'
<1>1. UNCHANGED <<rows, files, aborted, job>> /\ fsm' \in {"none", "browsing"}
  BY DEF OpenListing, SendVideo, EndListing, ListingRaises, LeaveDialog, clipVars,
         IInv, TypeOK
<1>2. /\ screen' \in [Messages -> [kb : Keyboards, caption : Captions]]
      /\ \A m \in Messages : screen'[m].caption = screen[m].caption
  <2>1. CASE UNCHANGED screen
    BY <2>1 DEF IInv, TypeOK
  <2>2. CASE \E l \in Listings : SendVideo(l)
    <3>1. PICK l \in Listings : SendVideo(l)
      BY <2>2
    <3>2. screen' = [screen EXCEPT ![<<l, Head(listing[l].left)>>].kb = "delete"]
      BY <3>1 DEF SendVideo
    <3> QED
      BY <3>2 DEF IInv, TypeOK, Keyboards
  <2> QED
    BY <2>1, <2>2 DEF OpenListing, EndListing, ListingRaises, LeaveDialog
<1>3. TypeOK' /\ TapsSound'
  BY <1>1, <1>2 DEF IInv, TypeOK, TapsSound, Holds, Clip
<1>4. GoneIsGone' /\ LossNeedsFailure'
  BY <1>1, <1>2 DEF IInv, GoneIsGone, LossNeedsFailure, Holds, Clip
<1> QED
  BY <1>3, <1>4 DEF IInv

\* Taps, and edits of keyboards alone.
LEMMA KeyboardStep ==
    ASSUME IInv, NEW h \in Handlers,
           \/ \E m \in Messages : Tap(h, m)
           \/ OnDeleteButton(h) \/ OnCancelConfirm(h) \/ Mark(h)
    PROVE  IInv'
<1> USE DEF IInv, TypeOK
<1>1. UNCHANGED <<rows, files, aborted, fsm>>
  BY DEF Tap, OnDeleteButton, OnCancelConfirm, Mark, EditReplyMarkup, clipVars
<1>2. /\ screen' \in [Messages -> [kb : Keyboards, caption : Captions]]
      /\ \A m \in Messages : screen'[m].caption = screen[m].caption
  <2>1. UNCHANGED screen \/ \E kb \in Keyboards, m \in Messages :
                              screen' = [screen EXCEPT ![m].kb = kb]
    <3>1. Message(h) \in Messages
      BY DEF Message, Jobs
    <3> QED
      BY <3>1 DEF Tap, OnDeleteButton, OnCancelConfirm, Mark, EditReplyMarkup, Keyboards
  <2> QED
    BY <2>1
<1>3. job[h] \in Jobs /\ Idle \in Jobs /\ Idle.at = "idle" /\ ~Idle.found
  BY IdleIsJob DEF Idle
<1>4. \E j \in Jobs :
        /\ job' = [job EXCEPT ![h] = j] /\ j.found = job[h].found
        /\ \/ j.at \in {"idle", "swap", "restore", "delete"} /\ ~j.found
           \/ j.at = "caption" /\ job[h].at = "mark" /\ j.on = job[h].on
  <2>1. CASE \E m \in Messages : Tap(h, m)
    <3>1. PICK m \in Messages, where \in {"swap", "restore", "delete"} :
            job' = [job EXCEPT ![h] = [at |-> where, on |-> m, found |-> FALSE]]
      BY <2>1 DEF Tap
    <3>2. job[h].found = FALSE
      BY <2>1, <1>3 DEF Tap, At, TapsSound, Jobs
    <3> QED
      BY <3>1, <3>2, JobMade DEF Places
  <2>2. CASE OnDeleteButton(h) \/ OnCancelConfirm(h)
    BY <2>2, <1>3 DEF OnDeleteButton, OnCancelConfirm, End, At, TapsSound, Jobs
  <2>3. CASE Mark(h)
    <3> DEFINE j == [job[h] EXCEPT !.at = "caption"]
    <3>1. j \in Jobs /\ j.at = "caption" /\ j.on = job[h].on /\ j.found = job[h].found
      BY <1>3, JobMoved DEF Places
    <3>2. job' = [job EXCEPT ![h] = j] /\ job[h].at = "mark"
      BY <2>3 DEF Mark, Goto, At
    <3> QED
      BY <3>1, <3>2
  <2> QED
    BY <2>1, <2>2, <2>3
<1>5. job' \in [Handlers -> Jobs]
  BY <1>4
<1>6. \A g \in Handlers : /\ job'[g].found = job[g].found
                          /\ job[g].found => job'[g].on = job[g].on
  BY <1>4
<1>7. TapsSound'
  BY <1>1, <1>4, <1>6 DEF TapsSound, Holds, Clip
<1>8. GoneIsGone' /\ LossNeedsFailure'
  BY <1>1, <1>2, <1>6 DEF GoneIsGone, LossNeedsFailure, Holds, Clip
<1> QED
  BY <1>1, <1>2, <1>5, <1>7, <1>8

\* delete_video: h is alone with the row, and takes it or finds it gone.
LEMMA DeleteVideoStep == ASSUME IInv, NEW h \in Handlers, DeleteVideo(h) PROVE IInv'
<1> USE DEF IInv, TypeOK
<1>1. UNCHANGED <<rows, fsm, screen, aborted>>
  BY DEF DeleteVideo
<1>2. job[h] \in Jobs /\ job[h].at = "delete" /\ ~job[h].found
  BY DEF DeleteVideo, At, TapsSound
<1>3. \A g \in Handlers : ~Holds(g, Clip(h))
  BY DEF DeleteVideo
<1>4. /\ job' \in [Handlers -> Jobs]
      /\ job'[h].at = "mark" /\ job'[h].on = job[h].on
      /\ job'[h].found => Clip(h) \in rows
      /\ ~job'[h].found => Clip(h) \notin rows /\ UNCHANGED files
      /\ \A g \in Handlers : g # h => job'[g] = job[g]
  <2>1. CASE Clip(h) \in rows
    <3> DEFINE j == [at |-> "mark", on |-> job[h].on, found |-> TRUE]
    <3>1. job' = [job EXCEPT ![h] = j]
      BY <2>1 DEF DeleteVideo, Message
    <3>2. j \in Jobs /\ j.at = "mark" /\ j.on = job[h].on /\ j.found
      BY <1>2 DEF Jobs, Places
    <3> QED
      BY <2>1, <3>1, <3>2
  <2>2. CASE Clip(h) \notin rows
    <3> DEFINE j == [job[h] EXCEPT !.at = "mark"]
    <3>1. job' = [job EXCEPT ![h] = j] /\ UNCHANGED files
      BY <2>2 DEF DeleteVideo, Goto
    <3>2. j \in Jobs /\ j.at = "mark" /\ j.on = job[h].on /\ ~j.found
      BY <1>2, JobMoved DEF Places
    <3> QED
      BY <2>2, <3>1, <3>2
  <2> QED
    BY <2>1, <2>2
<1>5. files' \subseteq files /\ \A c \in files : c \in files' \/ c = Clip(h)
  BY DEF DeleteVideo
<1>6. \A g \in Handlers, c \in Clips : Holds(g, c) => Holds(g, c)'
  BY <1>2, <1>4 DEF Holds, Clip
<1>7. TapsSound'
  <2> SUFFICES ASSUME NEW g \in Handlers
               PROVE  TapsSound!(g)'
    BY DEF TapsSound
  <2>1. CASE g = h
    BY <2>1, <1>1, <1>3, <1>4 DEF Holds, Clip
  <2>2. CASE g # h
    BY <2>2, <1>1, <1>3, <1>4 DEF TapsSound, Holds, Clip
  <2> QED
    BY <2>1, <2>2
<1>8. GoneIsGone'
  BY <1>1 DEF GoneIsGone
<1>9. LossNeedsFailure'
  <2> SUFFICES ASSUME NEW c \in rows,
                      \/ c \notin files'
                      \/ \E m \in Messages : ClipOf(m) = c /\ screen[m].caption = "deleted"
               PROVE  c \in aborted \/ \E g \in Handlers : Holds(g, c)'
    BY <1>1 DEF LossNeedsFailure
  <2>1. CASE c \in files /\ c \notin files'
    BY <2>1, <1>4, <1>5 DEF Holds, Clip
  <2>2. CASE ~(c \in files /\ c \notin files')
    BY <2>2, <1>5, <1>6 DEF LossNeedsFailure
  <2> QED
    BY <2>1, <2>2
<1> QED
  BY <1>1, <1>4, <1>5, <1>7, <1>8, <1>9

\* The caption is edited, or a reply sent in its place: what it says of the
\* clip is what h has found, which nobody has changed since.
LEMMA CaptionStep ==
    ASSUME IInv, NEW h \in Handlers, EditCaption(h) \/ ReplyInstead(h) PROVE IInv'
<1> USE DEF IInv, TypeOK
<1>1. UNCHANGED <<rows, files, aborted, fsm>>
  BY DEF EditCaption, ReplyInstead, clipVars
<1>2. job[h] \in Jobs /\ job[h].at = "caption" /\ Idle \in Jobs /\ ~Idle.found
      /\ Idle.at = "idle"
  BY IdleIsJob DEF EditCaption, ReplyInstead, At, Idle
<1>3. \E j \in Jobs :
        /\ job' = [job EXCEPT ![h] = j] /\ j.found = job[h].found
        /\ IF j.found THEN j.at = "answer" /\ j.on = job[h].on ELSE j.at = "idle"
  <2>1. CASE job[h].found
    <3> DEFINE j == [job[h] EXCEPT !.at = "answer"]
    <3>1. j \in Jobs /\ j.at = "answer" /\ j.on = job[h].on /\ j.found = job[h].found
      BY <1>2, JobMoved DEF Places
    <3>2. job' = [job EXCEPT ![h] = j]
      BY <2>1 DEF EditCaption, ReplyInstead, Captioned, Goto
    <3> QED
      BY <2>1, <3>1, <3>2
  <2>2. CASE ~job[h].found
    BY <2>2, <1>2 DEF EditCaption, ReplyInstead, Captioned, End, Jobs
  <2> QED
    BY <2>1, <2>2
<1>4. job' \in [Handlers -> Jobs]
  BY <1>3
<1>5. \A g \in Handlers : /\ job'[g].found = job[g].found
                          /\ job[g].found => job'[g].on = job[g].on
  BY <1>3
<1>6. TapsSound'
  BY <1>1, <1>3, <1>5 DEF TapsSound, Holds, Clip
<1>7. /\ screen' \in [Messages -> [kb : Keyboards, caption : Captions]]
      /\ \A m \in Messages :
            \/ screen'[m].caption = screen[m].caption
            \/ /\ m = job[h].on
               /\ screen'[m].caption = IF job[h].found THEN "deleted" ELSE "gone"
  BY <1>2 DEF EditCaption, ReplyInstead, Message, Jobs, Keyboards, Captions
<1>8. GoneIsGone'
  BY <1>1, <1>2, <1>7 DEF GoneIsGone, TapsSound, Clip
<1>9. LossNeedsFailure'
  BY <1>1, <1>5, <1>7 DEF LossNeedsFailure, Holds, Clip
<1> QED
  BY <1>1, <1>4, <1>6, <1>7, <1>8, <1>9

\* The transaction of h ends: its row goes, or h answers for what it has left.
LEMMA EndStep == ASSUME IInv, NEW h \in Handlers, Finish(h) \/ Raise(h) PROVE IInv'
<1> USE DEF IInv, TypeOK
<1>1. UNCHANGED <<files, fsm, screen>> /\ rows' \subseteq rows
  BY DEF Finish, Raise
<1>2. job[h] \in Jobs /\ Idle \in Jobs /\ ~Idle.found /\ Idle.at = "idle"
  BY IdleIsJob DEF Idle
<1>3. job' = [job EXCEPT ![h] = Idle]
  BY DEF Finish, Raise, End
<1>4. aborted' \subseteq Clips /\ aborted \subseteq aborted'
  BY <1>2 DEF Finish, Raise, Clip, ClipOf, Jobs, Messages
<1>5. job[h].found => Clip(h) \notin rows' \/ Clip(h) \in aborted'
  BY DEF Finish, Raise
<1>6. \A c \in rows : c \in rows' \/ (c = Clip(h) /\ job[h].found)
  BY DEF Finish, Raise, At, TapsSound
<1>7. \A g \in Handlers : g # h => job'[g] = job[g]
  BY <1>3
<1>8. TapsSound'
  BY <1>1, <1>2, <1>3, <1>6, <1>7 DEF TapsSound, Holds, Clip
<1>9. GoneIsGone'
  BY <1>1 DEF GoneIsGone
<1>10. LossNeedsFailure'
  BY <1>1, <1>4, <1>5, <1>7 DEF LossNeedsFailure, Holds, Clip
<1> QED
  BY <1>1, <1>2, <1>3, <1>4, <1>8, <1>9, <1>10

\* A step that changes nothing keeps the invariant.
LEMMA StutterStep == ASSUME IInv, UNCHANGED vars PROVE IInv'
BY DEF IInv, TypeOK, TapsSound, GoneIsGone, LossNeedsFailure, Holds, Clip, vars

\* The inductive invariant holds in every reachable state, whatever handlers
\* race and whichever calls raise.
THEOREM Invariance == Spec => []IInv
<1>1. Init => IInv
  BY InitIInv
<1>2. IInv /\ [Next]_vars => IInv'
  <2> SUFFICES ASSUME IInv, [Next]_vars PROVE IInv'
    OBVIOUS
  <2>1. CASE UNCHANGED vars
    BY <2>1, StutterStep
  <2>2. CASE Next
    BY <2>2, ListingStep, KeyboardStep, DeleteVideoStep, CaptionStep, EndStep DEF Next, Step
  <2> QED
    BY <2>1, <2>2
<1> QED
  BY <1>1, <1>2, PTL DEF Spec

\* "Couldn't delete (already gone?)" is true whenever it is on a message.
THEOREM GoneMessagesAreTrue == Spec => []GoneIsGone
<1>1. IInv => GoneIsGone
  BY DEF IInv
<1> QED
  BY <1>1, Invariance, PTL

\* A listed clip without its file, or called deleted, has a failed or
\* unfinished deletion behind it.
THEOREM LossesHaveFailures == Spec => []LossNeedsFailure
<1>1. IInv => LossNeedsFailure
  BY DEF IInv
<1> QED
  BY <1>1, Invariance, PTL

-----------------------------------------------------------------------------
(* The promise *)

\* A step that neither starts nor ends a deletion leaves what is owed alone.
LEMMA KeptUnchanged ==
    ASSUME UNCHANGED <<rows, aborted>>,
           \A g \in Handlers : job[g].found = job'[g].found /\ (job[g].found => job'[g].on = job[g].on)
    PROVE  Kept' = Kept
BY DEF Kept, Holds, Clip

\* delete_video: the clip is no longer owed in the step that may remove its
\* bytes; a clip whose row is gone is left alone.
LEMMA DeleteVideoKeeps ==
    ASSUME IInv, NEW h \in Handlers, DeleteVideo(h)
    PROVE  Promise!CustodyNext \/ UNCHANGED <<Kept, files, rows>>
<1> DEFINE c == Clip(h)
<1>1. job \in [Handlers -> Jobs] /\ job[h] \in Jobs /\ c \in Clips
  BY DEF IInv, TypeOK, Jobs, Messages, Clip, ClipOf
<1>2. UNCHANGED <<rows, aborted>> /\ ~job[h].found
  BY DEF DeleteVideo, IInv, TapsSound, At
<1>3. CASE /\ c \in rows /\ files' \in {files, files \ {c}}
           /\ job' = [job EXCEPT ![h] = [at |-> "mark", on |-> Message(h), found |-> TRUE]]
  <2>1. Holds(h, c)' /\ \A d : Holds(h, d)' => d = c
    BY <1>1, <1>3 DEF Holds, Clip, Message
  <2>2. \A g \in Handlers : \A d : g # h => (Holds(g, d)' <=> Holds(g, d))
    BY <1>1, <1>3 DEF Holds, Clip
  <2>3. Kept' = Kept \ {c}
    <3>1. \A d : ~Holds(h, d)
      BY <1>2 DEF Holds
    <3> QED
      BY <1>2, <2>1, <2>2, <3>1 DEF Kept
  <2>4. Promise!Release(c)
    BY <1>2, <1>3, <2>3 DEF Promise!Release
  <2> QED
    BY <1>1, <2>4 DEF Promise!CustodyNext
<1>4. CASE UNCHANGED files /\ Goto(h, "mark")
  <2>1. \A g \in Handlers : job'[g].found = job[g].found /\ job'[g].on = job[g].on
    BY <1>1, <1>4 DEF Goto, Jobs
  <2> QED
    BY <1>2, <1>4, <2>1, KeptUnchanged
<1> QED
  BY <1>3, <1>4 DEF DeleteVideo

\* The transaction ends: the row of a clip that is no longer owed goes, or a
\* failure releases the clip it was about.
LEMMA EndKeeps ==
    ASSUME IInv, NEW h \in Handlers, Finish(h) \/ Raise(h)
    PROVE  Promise!CustodyNext \/ UNCHANGED <<Kept, files, rows>>
<1> DEFINE c == Clip(h)
<1>1. job \in [Handlers -> Jobs] /\ job[h] \in Jobs /\ c \in Clips /\ ~Idle.found
  BY DEF IInv, TypeOK, Jobs, Messages, Clip, ClipOf, Idle
<1>2. /\ job'[h] = Idle /\ \A g \in Handlers : g # h => job'[g] = job[g]
      /\ \A d : ~Holds(h, d)'
  BY <1>1 DEF Finish, Raise, End, Holds
<1>3. \A g \in Handlers : \A d : g # h => (Holds(g, d)' <=> Holds(g, d))
  BY <1>2 DEF Holds, Clip
<1>4. \A d : Holds(h, d) <=> job[h].found /\ d = c
  BY DEF Holds
<1>5. CASE Finish(h)
  <2>1. UNCHANGED <<files, aborted>> /\ rows' = rows \ {c} /\ job[h].found
    BY <1>5 DEF Finish, IInv, TapsSound, At
  <2>2. c \notin Kept /\ Kept' = Kept
    BY <1>2, <1>3, <1>4, <2>1 DEF Kept
  <2>3. Promise!Unlist(c)
    BY <2>1, <2>2 DEF Promise!Unlist
  <2> QED
    BY <1>1, <2>3 DEF Promise!CustodyNext
<1>6. CASE Raise(h)
  <2>1. /\ files' = files /\ rows' = rows
        /\ aborted' = aborted \cup {c} \/ (aborted' = aborted /\ ~job[h].found)
    <3>1. CASE job[h].found \/ At(h, "delete")
      BY <1>6, <3>1 DEF Raise
    <3>2. CASE ~(job[h].found \/ At(h, "delete"))
      BY <1>6, <3>2 DEF Raise
    <3> QED
      BY <3>1, <3>2
  <2>2. Kept' = Kept \/ Kept' = Kept \ {c}
    <3>1. CASE aborted' = aborted \cup {c}
      BY <1>2, <1>3, <1>4, <2>1, <3>1 DEF Kept
    <3>2. CASE aborted' = aborted /\ ~job[h].found
      BY <1>2, <1>3, <1>4, <2>1, <3>2 DEF Kept
    <3> QED
      BY <2>1, <3>1, <3>2
  <2>3. c \notin rows => Kept \ {c} = Kept
    BY DEF Kept
  <2>4. CASE c \in rows /\ Kept' = Kept \ {c}
    <3> HIDE DEF c
    <3>1. Promise!Release(c)
      BY <2>1, <2>4 DEF Promise!Release
    <3> QED
      BY <1>1, <3>1 DEF Promise!CustodyNext
  <2>5. CASE Kept' = Kept
    BY <2>1, <2>5
  <2> QED
    BY <2>2, <2>3, <2>4, <2>5
<1> QED
  BY <1>5, <1>6

\* Every other step is a stutter for the promise.
LEMMA OthersKeep ==
    ASSUME IInv, NEW h \in Handlers,
           \/ \E m \in Messages : Tap(h, m)
           \/ OnDeleteButton(h) \/ OnCancelConfirm(h) \/ Mark(h)
           \/ EditCaption(h) \/ ReplyInstead(h)
    PROVE  UNCHANGED <<Kept, files, rows>>
<1>1. UNCHANGED <<files, rows, aborted>>
  BY DEF Tap, OnDeleteButton, OnCancelConfirm, Mark, EditCaption, ReplyInstead,
         EditReplyMarkup, clipVars
<1>2. job \in [Handlers -> Jobs] /\ job[h] \in Jobs /\ ~Idle.found
  BY DEF IInv, TypeOK, Idle
<1>3. \E j : /\ job' = [job EXCEPT ![h] = j] /\ j.found = job[h].found
             /\ job[h].found => j.on = job[h].on
  <2>1. CASE \E where \in Places : Goto(h, where)
    <3>1. PICK where \in Places : Goto(h, where)
      BY <2>1
    <3> DEFINE j == [job[h] EXCEPT !.at = where]
    <3>2. j.found = job[h].found /\ j.on = job[h].on
      BY <1>2 DEF Jobs
    <3>3. job' = [job EXCEPT ![h] = j]
      BY <3>1 DEF Goto
    <3> QED
      BY <3>2, <3>3
  <2>2. CASE End(h) /\ ~job[h].found
    <3>1. Idle.found = job[h].found
      BY <1>2, <2>2 DEF Jobs, Idle
    <3> QED
      BY <2>2, <3>1 DEF End
  <2>3. CASE \E m \in Messages : Tap(h, m)
    <3>1. PICK m \in Messages, where \in Places :
            job' = [job EXCEPT ![h] = [at |-> where, on |-> m, found |-> FALSE]]
      BY <2>3 DEF Tap, Places
    <3>2. job[h].found = FALSE
      BY <1>2, <2>3 DEF Tap, At, IInv, TapsSound, Jobs
    <3> QED
      BY <3>1, <3>2
  <2>4. Mark(h) => Goto(h, "caption")
    BY DEF Mark
  <2>5. OnDeleteButton(h) \/ OnCancelConfirm(h) => End(h) /\ ~job[h].found
    BY DEF OnDeleteButton, OnCancelConfirm, At, IInv, TapsSound
  <2>6. EditCaption(h) \/ ReplyInstead(h) => Goto(h, "answer") \/ (End(h) /\ ~job[h].found)
    BY DEF EditCaption, ReplyInstead, Captioned
  <2> QED
    BY <2>1, <2>2, <2>3, <2>4, <2>5, <2>6 DEF Places
<1>4. \A g \in Handlers : /\ job[g].found = job'[g].found
                          /\ job[g].found => job'[g].on = job[g].on
  BY <1>2, <1>3
<1> QED
  BY <1>1, <1>4, KeptUnchanged

\* Listing.KeepsPromise: the dialog implements the steps of ClipCustody.
THEOREM ListingKeepsPromise == Spec => KeepsPromise
<1>1. IInv /\ [Next]_vars => [Promise!CustodyNext]_<<Kept, files, rows>>
  <2> SUFFICES ASSUME IInv, [Next]_vars
               PROVE  Promise!CustodyNext \/ UNCHANGED <<Kept, files, rows>>
    OBVIOUS
  <2>1. CASE \/ UNCHANGED vars \/ LeaveDialog
             \/ \E l \in Listings : \/ OpenListing(l) \/ SendVideo(l) \/ EndListing(l)
                                    \/ ListingRaises(l)
    <3>1. UNCHANGED <<rows, files, aborted, job>>
      BY <2>1 DEF vars, OpenListing, SendVideo, EndListing, ListingRaises, LeaveDialog, clipVars
    <3> QED
      BY <3>1, KeptUnchanged
  <2>2. ASSUME NEW h \in Handlers, Step(h) \/ \E m \in Messages : Tap(h, m)
        PROVE  Promise!CustodyNext \/ UNCHANGED <<Kept, files, rows>>
    BY <2>2, DeleteVideoKeeps, EndKeeps, OthersKeep DEF Step
  <2> QED
    BY <2>1, <2>2 DEF Next
<1> QED
  BY <1>1, Invariance, PTL DEF Spec, KeepsPromise
=============================================================================
