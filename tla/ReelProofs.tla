----------------------------- MODULE ReelProofs -----------------------------
(***************************************************************************)
(* What is proved of Reel, for any number of clips and compile tasks.      *)
(* StagesSound ties the stage of a task to what it has left behind; with   *)
(* it a recorded or sent reel has its whole file, and Done is said of      *)
(* nothing else.  No clip in custody is missing from the store, whatever   *)
(* the environment does: that is the half of ClipCustody a task relies on. *)
(***************************************************************************)
EXTENDS Reel, TLAPS

\* In the first state there is no task and no clip.
LEMMA InitIInv == Init => IInv
BY DEF Init, CustodyInit, IInv, TypeOK, CustodyTypeOK, StagesSound, InStage, Running,
       RecordedReelsPlayable

\* A task that is in some stage runs in a process that is up.
LEMMA TaskRuns ==
    ASSUME IInv, NEW r \in Reels, pc[r] \notin {"none", "end"}
    PROVE  process = "up"
BY DEF IInv, StagesSound, Running

\* The stages up to the start of ffmpeg leave nothing behind.
LEMMA EarlyStep ==
    ASSUME IInv, NEW r \in Reels,
           \/ Confirm(r) \/ StartTask(r)
           \/ QueryNothing(r) \/ Query(r) \/ RenderStart(r) \/ RenderMissing(r)
           \/ \E v \in Clips : OpenClip(r, v) \/ OpenMissing(r, v)
    PROVE  IInv'
<1> USE DEF IInv, TypeOK
<1>1. /\ UNCHANGED <<custodyVars, process, madeVars>>
      /\ picked' \in [Reels -> SUBSET Clips] /\ opened' \in [Reels -> SUBSET Clips]
  <2>1. CASE Query(r)
    BY <2>1 DEF Query, CustodyTypeOK
  <2>2. CASE \E v \in Clips : OpenClip(r, v)
    BY <2>2 DEF OpenClip
  <2> QED
    BY <2>1, <2>2
       DEF Confirm, StartTask, QueryNothing, RenderStart, RenderMissing, OpenMissing
<1>2. /\ pc[r] \in {"none", "answer", "query", "open"} /\ process = "up"
      /\ \E p \in {"answer", "query", "open", "render", "nothing", "missing"} :
            pc' = [pc EXCEPT ![r] = p]
  <2>1. CASE Confirm(r)
    BY <2>1 DEF Confirm, Goto
  <2>2. CASE \E v \in Clips : OpenClip(r, v)
    BY <2>2, TaskRuns DEF OpenClip
  <2> QED
    BY <2>1, <2>2, TaskRuns
       DEF StartTask, QueryNothing, Query, RenderStart, RenderMissing, OpenMissing, Goto
<1>3. /\ status' \in [Reels -> {"none", "compiling", "done", "nothing", "failed"}]
      /\ UNCHANGED endVars
  BY DEF Confirm, StartTask, QueryNothing, Query, RenderStart, RenderMissing, OpenClip, OpenMissing
<1>a. pc' \in [Reels -> {"none", "answer", "query", "open", "render", "copied", "record",
                         "send", "done", "nothing", "missing", "failing", "end"}]
  BY <1>2
<1>b. UNCHANGED <<custody, store, list, process, mov, rows, sent>>
  BY <1>1 DEF custodyVars, madeVars
<1>4. TypeOK'
  BY <1>1, <1>3, <1>a, <1>b DEF CustodyTypeOK, endVars
<1>5. StagesSound'
  BY <1>1, <1>2, <1>3 DEF StagesSound, InStage, Running, custodyVars, madeVars, endVars
<1>6. RecordedReelsPlayable'
  BY <1>1 DEF RecordedReelsPlayable, madeVars
<1> QED
  BY <1>4, <1>5, <1>6

\* A handler that raises leaves nothing behind but its message.
LEMMA DropStep ==
    ASSUME IInv, NEW r \in Reels, ConfirmFails(r) \/ AnswerFails(r)
    PROVE  IInv'
<1> USE DEF IInv, TypeOK
<1>1. /\ UNCHANGED <<custodyVars, process, picked, opened, madeVars, refused, cut>>
      /\ pc[r] \in {"none", "answer"} /\ pc' = [pc EXCEPT ![r] = "end"]
      /\ dropped' = dropped \cup {r}
      /\ status' \in [Reels -> {"none", "compiling", "done", "nothing", "failed"}]
  BY DEF ConfirmFails, AnswerFails, Goto
<1>2. TypeOK'
  BY <1>1 DEF custodyVars, madeVars, CustodyTypeOK
<1>3. StagesSound'
  BY <1>1 DEF StagesSound, InStage, Running, custodyVars, madeVars
<1>4. RecordedReelsPlayable'
  BY <1>1 DEF RecordedReelsPlayable, madeVars
<1> QED
  BY <1>2, <1>3, <1>4

\* From ffmpeg to the chat: the file comes before the row, the row before the
\* reel in the chat.
LEMMA MakingStep ==
    ASSUME IInv, NEW r \in Reels,
           Render(r) \/ CopyFails(r) \/ ProbeReel(r) \/ Record(r) \/ Send(r) \/ StepFails(r)
    PROVE  IInv'
<1> USE DEF IInv, TypeOK
<1>1. /\ UNCHANGED <<custodyVars, process, picked, opened, status, refused, cut, dropped>>
      /\ pc[r] \notin {"none", "end"} /\ process = "up"
  BY TaskRuns DEF Render, CopyFails, ProbeReel, Record, Send, StepFails, endVars
<1>2. CASE Render(r)
  <2>1. TypeOK'
    BY <1>1, <1>2 DEF Render, Goto, custodyVars, CustodyTypeOK
  <2>2. StagesSound' /\ RecordedReelsPlayable'
    BY <1>1, <1>2 DEF Render, Goto, custodyVars, StagesSound, InStage, Running,
                      RecordedReelsPlayable
  <2> QED
    BY <2>1, <2>2
<1>3. CASE CopyFails(r)
  <2>1. TypeOK'
    BY <1>1, <1>3 DEF CopyFails, Goto, custodyVars, CustodyTypeOK
  <2>2. StagesSound' /\ RecordedReelsPlayable'
    BY <1>1, <1>3 DEF CopyFails, Goto, custodyVars, StagesSound, InStage, Running,
                      RecordedReelsPlayable
  <2> QED
    BY <2>1, <2>2
<1>4. CASE ProbeReel(r) \/ Record(r) \/ Send(r)
  <2>1. TypeOK'
    BY <1>1, <1>4 DEF ProbeReel, Record, Send, Goto, custodyVars, madeVars, CustodyTypeOK
  <2>2. StagesSound' /\ RecordedReelsPlayable'
    BY <1>1, <1>4 DEF ProbeReel, Record, Send, Goto, custodyVars, madeVars,
                      StagesSound, InStage, Running, RecordedReelsPlayable
  <2> QED
    BY <2>1, <2>2
<1>5. CASE StepFails(r)
  <2>1. TypeOK'
    BY <1>1, <1>5 DEF StepFails, Goto, custodyVars, CustodyTypeOK
  <2>2. StagesSound' /\ RecordedReelsPlayable'
    BY <1>1, <1>5 DEF StepFails, Goto, custodyVars, StagesSound, InStage, Running,
                      RecordedReelsPlayable
  <2> QED
    BY <2>1, <2>2
<1> QED
  BY <1>2, <1>3, <1>4, <1>5

\* The last edit and the end of a task change nothing that was made.
LEMMA EndingStep ==
    ASSUME IInv, NEW r \in Reels, Finish(r) \/ EditRefused(r)
    PROVE  IInv'
<1> USE DEF IInv, TypeOK
<1>1. /\ UNCHANGED <<custodyVars, process, madeVars, cut, dropped>>
      /\ Leave(r) /\ pc[r] \in Ending
  BY DEF Finish, EditRefused, endVars
<1>2. Outcome(r) \in {"done", "nothing", "failed"}
  BY <1>1 DEF Outcome, Ending
<1>3. /\ status' \in [Reels -> {"none", "compiling", "done", "nothing", "failed"}]
      /\ refused' \subseteq Reels
  BY <1>2 DEF Finish, EditRefused, endVars
<1>4. TypeOK'
  BY <1>1, <1>3 DEF Leave, Goto, custodyVars, madeVars, CustodyTypeOK
<1>5. StagesSound' /\ RecordedReelsPlayable'
  BY <1>1 DEF Leave, Goto, custodyVars, madeVars, StagesSound, InStage, Running,
              RecordedReelsPlayable
<1> QED
  BY <1>4, <1>5

\* Uploads, deletes, the loss of the list and its recovery: the environment
\* may do what ClipCustody allows and no more.
LEMMA CustodyStep ==
    ASSUME IInv, (\E v \in Clips : Library(v)) \/ LoseData \/ Boot
    PROVE  IInv'
<1> USE DEF IInv, TypeOK
<1>1. /\ UNCHANGED <<taskVars, mov, sent, refused, cut, dropped>> /\ rows' \subseteq rows
      /\ CustodyTypeOK' /\ custody' \subseteq store'
  <2>1. CASE \E v \in Clips : Library(v)
    BY <2>1 DEF Library, Receive, Discard, Take, Release, Unlist, StagesSound,
                CustodyTypeOK, madeVars, endVars
  <2>2. CASE LoseData
    BY <2>2 DEF LoseData, LoseList, StagesSound, CustodyTypeOK, endVars
  <2>3. CASE Boot
    BY <2>3 DEF Boot, Rebuild, StagesSound, CustodyTypeOK, madeVars, custodyVars, endVars
  <2> QED
    BY <2>1, <2>2, <2>3
<1>2. (\E r \in Reels : r \in Running) => process' = "up" /\ rows' = rows
  BY DEF Library, LoseData, Boot, StagesSound, madeVars
<1>3. process' \in {"up", "down"}
  BY DEF Library, LoseData, Boot
<1>4. TypeOK'
  BY <1>1, <1>3 DEF taskVars
<1>5. StagesSound'
  BY <1>1, <1>2 DEF StagesSound, taskVars, InStage, Running
<1>6. RecordedReelsPlayable'
  BY <1>1 DEF RecordedReelsPlayable
<1> QED
  BY <1>4, <1>5, <1>6

\* The process ends, and every task with it; a kill may cut a copy short, but
\* never that of a recorded reel.
LEMMA ProcessStep ==
    ASSUME IInv, Exit \/ Kill
    PROVE  IInv'
<1> USE DEF IInv, TypeOK
<1>1. TasksEnd /\ UNCHANGED <<custodyVars, rows, sent>>
  BY DEF Exit, Kill, TasksEnd
<1>2. /\ mov' \in [Reels -> {"absent", "partial", "complete"}]
      /\ \A r \in rows \cup sent : mov'[r] = mov[r]
      /\ \A r \in Reels : pc[r] \in {"none", "end"} => mov'[r] = mov[r]
  BY DEF Exit, Kill, StagesSound, InStage
<1>3. \A r \in Reels : pc'[r] \in {"none", "end"} /\ (pc'[r] = "none" => pc[r] = "none")
  BY <1>1 DEF TasksEnd, Running
<1>4. TypeOK'
  <2>1. pc' \in [Reels -> {"none", "answer", "query", "open", "render", "copied", "record",
                           "send", "done", "nothing", "missing", "failing", "end"}]
    BY <1>1, <1>3 DEF TasksEnd
  <2> QED
    BY <1>1, <1>2, <2>1 DEF TasksEnd, custodyVars, CustodyTypeOK, Running
<1>5. StagesSound'
  BY <1>1, <1>2, <1>3 DEF StagesSound, InStage, Running, custodyVars, TasksEnd
<1>6. RecordedReelsPlayable'
  BY <1>1, <1>2 DEF RecordedReelsPlayable
<1> QED
  BY <1>4, <1>5, <1>6

\* A step that changes nothing.
LEMMA StutterStep == ASSUME IInv, UNCHANGED vars PROVE IInv'
BY DEF IInv, TypeOK, CustodyTypeOK, StagesSound, InStage, Running, RecordedReelsPlayable,
       vars, custodyVars, taskVars, madeVars, endVars

\* What a task has left behind fits the stage it is in, in every reachable
\* state.
THEOREM Invariance == Spec => []IInv
<1>1. Init => IInv
  BY InitIInv
<1>2. IInv /\ [Next]_vars => IInv'
  BY EarlyStep, DropStep, MakingStep, EndingStep, CustodyStep, ProcessStep, StutterStep
     DEF Next, TaskStep
<1> QED
  BY <1>1, <1>2, PTL DEF Spec

\* A recorded reel, and one in the chat, has its whole file.
THEOREM ReelsArePlayable == Spec => []RecordedReelsPlayable
<1>1. IInv => RecordedReelsPlayable
  BY DEF IInv
<1> QED
  BY <1>1, Invariance, PTL

\* Done is shown of a reel that is recorded, sent and whole: only Finish says
\* it, of a task that has come past Record and Send.
THEOREM DoneIsSaidTruly == Spec => DoneIsTrue
<1> DEFINE Claim == \A r \in Reels : status'[r] = "done" /\ status[r] # "done"
                      => r \in rows /\ r \in sent /\ mov[r] = "complete"
<1>1. IInv /\ [Next]_vars => [Claim]_vars
  <2> SUFFICES ASSUME IInv, Next, NEW r \in Reels, status'[r] = "done", status[r] # "done"
               PROVE  r \in rows /\ r \in sent /\ mov[r] = "complete"
    OBVIOUS
  <2>1. PICK s \in Reels : Confirm(s) \/ ConfirmFails(s) \/ Finish(s)
    BY DEF Next, TaskStep, StartTask, AnswerFails, QueryNothing, Query, OpenClip, OpenMissing, RenderStart,
           RenderMissing, Render, CopyFails, ProbeReel, Record, Send, StepFails, EditRefused,
           Library, Exit, Kill, TasksEnd, LoseData, Boot, taskVars
  <2>2. ~Confirm(s) /\ ~ConfirmFails(s)
    BY DEF Confirm, ConfirmFails, IInv, TypeOK
  <2>3. Finish(s) /\ s = r
    BY <2>1, <2>2 DEF Finish, IInv, TypeOK
  <2>4. pc[r] \in Ending /\ Outcome(r) = "done"
    BY <2>3 DEF Finish, IInv, TypeOK
  <2>5. pc[r] = "done"
    BY <2>4 DEF Ending, Outcome
  <2> QED
    BY <2>5 DEF IInv, StagesSound, InStage
<1> QED
  BY <1>1, Invariance, PTL DEF Spec, DoneIsTrue

\* A task gives up for a missing file only when one of its clips is not in
\* custody any more.
THEOREM CustodySuffices == Spec => CustodyMakesReel
<1> DEFINE Claim == \A r \in Reels : pc'[r] = "missing" /\ pc[r] # "missing"
                      => ~(picked[r] \subseteq custody)
<1>1. IInv /\ [Next]_vars => [Claim]_vars
  <2> SUFFICES ASSUME IInv, Next, NEW r \in Reels, pc'[r] = "missing", pc[r] # "missing"
               PROVE  ~(picked[r] \subseteq custody)
    OBVIOUS
  <2>1. PICK s \in Reels : Confirm(s) \/ ConfirmFails(s) \/ TaskStep(s)
    <3>1. ~(\E v \in Clips : Library(v)) /\ ~LoseData /\ ~Boot
      BY DEF Library, LoseData, Boot, taskVars
    <3>2. ~Exit /\ ~Kill
      BY DEF Exit, Kill, TasksEnd
    <3> QED
      BY <3>1, <3>2 DEF Next
  <2>2. /\ ~Confirm(s) /\ ~ConfirmFails(s) /\ ~StartTask(s) /\ ~AnswerFails(s)
        /\ ~QueryNothing(s) /\ ~Query(s) /\ ~RenderStart(s)
        /\ ~(\E v \in Clips : OpenClip(s, v))
    BY DEF Confirm, ConfirmFails, StartTask, AnswerFails, QueryNothing, Query, RenderStart,
           OpenClip, Goto, IInv, TypeOK
  <2>3. /\ ~Render(s) /\ ~CopyFails(s) /\ ~ProbeReel(s) /\ ~Record(s) /\ ~Send(s)
        /\ ~StepFails(s) /\ ~Finish(s) /\ ~EditRefused(s)
    BY DEF Render, CopyFails, ProbeReel, Record, Send, StepFails, Finish, EditRefused,
           Leave, Goto, IInv, TypeOK
  <2>4. RenderMissing(s) \/ \E v \in Clips : OpenMissing(s, v)
    BY <2>1, <2>2, <2>3 DEF TaskStep
  <2>5. s = r
    BY <2>4 DEF RenderMissing, OpenMissing, Goto, IInv, TypeOK
  <2>6. ~(picked[r] \subseteq store)
    BY <2>4, <2>5 DEF RenderMissing, OpenMissing
  <2> QED
    BY <2>6 DEF IInv, StagesSound
<1> QED
  BY <1>1, Invariance, PTL DEF Spec, CustodyMakesReel
=============================================================================
