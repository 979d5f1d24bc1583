-------------------------------- MODULE Reel --------------------------------
(***************************************************************************)
(* The compile task.  The handler that confirms a /compile dialog shows    *)
(* the status message, answers the tap and creates the task, which nobody  *)
(* awaits (asyncio.create_task).  The task queries the candidates, opens   *)
(* and probes the picked clips one by one, runs ffmpeg, copies the result  *)
(* to its place in the store, records it, sends it to the chat and edits   *)
(* the status message.  Every one of these steps may raise.                *)
(*                                                                         *)
(* Meanwhile uploads and deletes go on: the clips are those of             *)
(* ClipCustody, whose steps are the environment of the task.  Library is   *)
(* shown to implement ClipCustody, so what holds here holds beside it.     *)
(*                                                                         *)
(* An operator called X_Slip is X with a plausible mistake.                *)
(***************************************************************************)
EXTENDS ClipCustody, Selection

CONSTANT Reels   \* confirmed compile dialogs, each with the UUID of its reel

VARIABLES
    process,   \* of the bot: "up" or "down"
    pc,        \* where each task is
    picked,    \* the clips its reel is made of
    opened,    \* those it has opened and probed
    status,    \* what its status message says
    mov,       \* the file <user>/compilations/<uuid>.mov
    rows,      \* rows of `compilations`
    sent,      \* reels that reached the chat
    refused,   \* reels whose last status edit Telegram refused
    cut,       \* reels whose handler or task ended with the process
    dropped    \* reels whose handler raised after its pre-check

taskVars == <<pc, picked, opened, status>>
madeVars == <<mov, rows, sent>>
endVars  == <<refused, cut, dropped>>
vars     == <<custodyVars, process, taskVars, madeVars, endVars>>

Init ==
    /\ CustodyInit /\ process = "up"
    /\ pc = [r \in Reels |-> "none"]
    /\ picked = [r \in Reels |-> {}] /\ opened = [r \in Reels |-> {}]
    /\ status = [r \in Reels |-> "none"]
    /\ mov = [r \in Reels |-> "absent"]
    /\ rows = {} /\ sent = {} /\ refused = {} /\ cut = {} /\ dropped = {}

-----------------------------------------------------------------------------
(* The task.  Its process is up whenever it can take a step. *)

Goto(r, at) == pc' = [pc EXCEPT ![r] = at]

\* The task is over; its local variables go.
Leave(r) ==
    /\ Goto(r, "end")
    /\ picked' = [picked EXCEPT ![r] = {}] /\ opened' = [opened EXCEPT ![r] = {}]

\* on_confirm: the pre-check found candidates, the message says "Compiling".
Confirm(r) ==
    /\ process = "up" /\ pc[r] = "none" /\ list # {}
    /\ Goto(r, "answer")
    /\ status' = [status EXCEPT ![r] = "compiling"]
    /\ UNCHANGED <<custodyVars, process, picked, opened, madeVars, endVars>>

\* The edit raises and the handler with it; the message may say it all the same.
ConfirmFails(r) ==
    /\ process = "up" /\ pc[r] = "none" /\ list # {}
    /\ Goto(r, "end") /\ dropped' = dropped \cup {r}
    /\ status' \in {status, [status EXCEPT ![r] = "compiling"]}
    /\ UNCHANGED <<custodyVars, process, picked, opened, madeVars, refused, cut>>

\* call.answer has returned: the FSM data is cleared and the task created.
StartTask(r) ==
    /\ pc[r] = "answer"
    /\ Goto(r, "query")
    /\ UNCHANGED <<custodyVars, process, picked, opened, status, madeVars, endVars>>

\* call.answer raises: the handler ends before it has created the task.
AnswerFails(r) ==
    /\ pc[r] = "answer"
    /\ Goto(r, "end") /\ dropped' = dropped \cup {r}
    /\ UNCHANGED <<custodyVars, process, picked, opened, status, madeVars, refused, cut>>

\* list_for_user_tag through a session of its own, then select_clips.
QueryNothing(r) ==
    /\ pc[r] = "query" /\ list = {}
    /\ Goto(r, "nothing")
    /\ UNCHANGED <<custodyVars, process, picked, opened, status, madeVars,
                   endVars>>

Query(r) ==
    /\ pc[r] = "query" /\ list # {}
    /\ \E S \in SUBSET list :
          /\ Cardinality(S) = IF Cardinality(list) <= 4 THEN Cardinality(list)
                              ELSE 2 + MiddleCount(Cardinality(list))
          /\ picked' = [picked EXCEPT ![r] = S]
    /\ Goto(r, "open")
    /\ UNCHANGED <<custodyVars, process, opened, status, madeVars, endVars>>

\* storage.open and probe.  (ffprobe accepts some half files, so a clip that
\* is not in store may get through.)
OpenClip(r, v) ==
    /\ pc[r] = "open" /\ v \in picked[r] \ opened[r]
    /\ opened' = [opened EXCEPT ![r] = @ \cup {v}]
    /\ UNCHANGED <<custodyVars, process, pc, picked, status, madeVars,
                   endVars>>

OpenMissing(r, v) ==
    /\ pc[r] = "open" /\ v \in picked[r] \ opened[r]
    /\ v \notin store
    /\ Goto(r, "missing")
    /\ UNCHANGED <<custodyVars, process, picked, opened, status, madeVars, endVars>>

\* compile_videos: ffmpeg opens its inputs by path when it starts.
RenderStart(r) ==
    /\ pc[r] = "open" /\ opened[r] = picked[r]
    /\ Goto(r, "render")
    /\ UNCHANGED <<custodyVars, process, picked, opened, status, madeVars,
                   endVars>>

RenderMissing(r) ==
    /\ pc[r] = "open" /\ opened[r] = picked[r]
    /\ ~(picked[r] \subseteq store)
    /\ Goto(r, "missing")
    /\ UNCHANGED <<custodyVars, process, picked, opened, status, madeVars, endVars>>

Render_Slip(r) ==                \* the return code of ffmpeg is not looked at
    /\ pc[r] = "render"
    /\ \E m \in {"partial", "complete"} : mov' = [mov EXCEPT ![r] = m]
    /\ Goto(r, "copied")
    /\ UNCHANGED <<custodyVars, process, picked, opened, status, rows, sent,
                   endVars>>

\* ffmpeg ends well, and its temporary output is copied to its final path
\* without a suspension in between.
Render(r) ==
    /\ pc[r] = "render"
    /\ mov' = [mov EXCEPT ![r] = "complete"]
    /\ Goto(r, "copied")
    /\ UNCHANGED <<custodyVars, process, picked, opened, status, rows, sent,
                   endVars>>

\* The copy raises (a full disk): what it has written stays.
CopyFails(r) ==
    /\ pc[r] = "render"
    /\ mov' = [mov EXCEPT ![r] = "partial"]
    /\ Goto(r, "failing")
    /\ UNCHANGED <<custodyVars, process, picked, opened, status, rows, sent, endVars>>

ProbeReel(r) ==
    /\ pc[r] = "copied"
    /\ Goto(r, "record")
    /\ UNCHANGED <<custodyVars, process, picked, opened, status, madeVars,
                   endVars>>

\* CompilationRepo.create and COMMIT.
Record(r) ==
    /\ pc[r] = "record"
    /\ rows' = rows \cup {r}
    /\ Goto(r, "send")
    /\ UNCHANGED <<custodyVars, process, picked, opened, status, mov, sent,
                   endVars>>

Send(r) ==
    /\ pc[r] = "send"
    /\ sent' = sent \cup {r}
    /\ Goto(r, "done")
    /\ UNCHANGED <<custodyVars, process, picked, opened, status, mov, rows,
                   endVars>>

StepFails_Slip(r) ==             \* a failed send is logged and passed over
    /\ pc[r] \in {"query", "open", "render", "copied", "record", "send"}
    /\ IF pc[r] = "send" THEN Goto(r, "done")
                         ELSE Goto(r, "failing")
    /\ UNCHANGED <<custodyVars, process, picked, opened, status, madeVars, endVars>>

\* An awaited call raises: the database, ffprobe, ffmpeg, Telegram.  When the
\* answer to a COMMIT or to a send is lost, the call has worked all the same.
StepFails(r) ==
    /\ pc[r] \in {"query", "open", "render", "copied", "record", "send"}
    /\ Goto(r, "failing")
    /\ \/ UNCHANGED <<rows, sent>>
       \/ pc[r] = "record" /\ rows' = rows \cup {r} /\ UNCHANGED sent
       \/ pc[r] = "send" /\ sent' = sent \cup {r} /\ UNCHANGED rows
    /\ UNCHANGED <<custodyVars, process, picked, opened, status, mov, endVars>>

Ending == {"done", "nothing", "missing", "failing"}

\* The last edit: what it says depends on how the task got here.
Outcome(r) == CASE pc[r] = "done"    -> "done"
                [] pc[r] = "nothing" -> "nothing"
                [] pc[r] \in {"missing", "failing"} -> "failed"

Finish_Slip(r) ==                \* no except clause around the pipeline
    /\ pc[r] \in Ending
    /\ status' = IF pc[r] \in {"missing", "failing"} THEN status
                 ELSE [status EXCEPT ![r] = Outcome(r)]
    /\ Leave(r)
    /\ UNCHANGED <<custodyVars, process, madeVars, endVars>>

Finish(r) ==
    /\ pc[r] \in Ending
    /\ status' = [status EXCEPT ![r] = Outcome(r)]
    /\ Leave(r)
    /\ UNCHANGED <<custodyVars, process, madeVars, endVars>>

\* Telegram refuses the edit (the user removed the message): swallowed after
\* a failure, otherwise the exception of a task that nobody awaits.
EditRefused(r) ==
    /\ pc[r] \in Ending
    /\ refused' = refused \cup {r}
    /\ Leave(r)
    /\ UNCHANGED <<custodyVars, process, status, madeVars, cut, dropped>>

-----------------------------------------------------------------------------
(* The process and the clips around the task *)

Running == {r \in Reels : pc[r] \notin {"none", "end"}}

TasksEnd ==
    /\ process = "up" /\ process' = "down"
    /\ pc' = [r \in Reels |-> IF r \in Running THEN "end" ELSE pc[r]]
    /\ picked' = [r \in Reels |-> {}] /\ opened' = [r \in Reels |-> {}]
    /\ cut' = cut \cup Running
    /\ UNCHANGED <<custodyVars, status, rows, sent, refused, dropped>>

\* asyncio.run cancels handler and task wherever they are suspended.
Exit == TasksEnd /\ UNCHANGED mov

\* The process is killed, perhaps in the middle of a copy.
Kill ==
    /\ TasksEnd
    /\ \E r \in Running : pc[r] = "render" /\ mov' = [mov EXCEPT ![r] = "partial"]

\* The database is lost while the bot is down, and its compilations with it.
LoseData ==
    /\ process = "down" /\ LoseList /\ rows' = {}
    /\ UNCHANGED <<process, taskVars, mov, sent, endVars>>

\* Recovery rebuilds the list of clips, never that of the compilations.
Boot ==
    /\ process = "down" /\ process' = "up"
    /\ Rebuild \/ UNCHANGED custodyVars
    /\ UNCHANGED <<taskVars, madeVars, endVars>>

\* Uploads and deletes of the same user.
Library(v) ==
    /\ process = "up"
    /\ Receive(v) \/ Discard(v) \/ Take(v) \/ Release(v) \/ Unlist(v)
    /\ UNCHANGED <<process, taskVars, madeVars, endVars>>

TaskStep(r) ==
    \/ StartTask(r) \/ AnswerFails(r)
    \/ QueryNothing(r) \/ Query(r) \/ \E v \in Clips : OpenClip(r, v) \/ OpenMissing(r, v)
    \/ RenderStart(r) \/ RenderMissing(r) \/ Render(r) \/ CopyFails(r)
    \/ ProbeReel(r) \/ Record(r) \/ Send(r) \/ StepFails(r)
    \/ Finish(r) \/ EditRefused(r)

Next ==
    \/ \E r \in Reels : Confirm(r) \/ ConfirmFails(r) \/ TaskStep(r)
    \/ \E v \in Clips : Library(v)
    \/ Exit \/ Kill \/ LoseData \/ Boot

\* Subprocesses end, and awaited calls answer or time out.
Spec == Init /\ [][Next]_vars /\ \A r \in Reels : WF_vars(TaskStep(r))
-----------------------------------------------------------------------------
(* Properties *)

\* Every variable stays in its domain.
TypeOK ==
    /\ CustodyTypeOK /\ process \in {"up", "down"}
    /\ pc \in [Reels -> {"none", "answer", "query", "open", "render", "copied", "record",
                         "send", "done", "nothing", "missing", "failing", "end"}]
    /\ picked \in [Reels -> SUBSET Clips] /\ opened \in [Reels -> SUBSET Clips]
    /\ status \in [Reels -> {"none", "compiling", "done", "nothing", "failed"}]
    /\ mov \in [Reels -> {"absent", "partial", "complete"}]
    /\ rows \subseteq Reels /\ sent \subseteq Reels
    /\ refused \subseteq Reels /\ cut \subseteq Reels /\ dropped \subseteq Reels

\* A row of `compilations` and a reel in the chat have their whole file, also
\* after a failed copy, a shutdown in the middle of a task or a kill in the
\* middle of a copy (compile_progress_reel: copy, probe, record, send).
RecordedReelsPlayable == \A r \in rows \cup sent : mov[r] = "complete"

\* "Done" is shown only for a reel that is recorded and has reached the chat
\* (_run_compile_and_reply).
DoneIsTrue ==
    [][\A r \in Reels : status'[r] = "done" /\ status[r] # "done"
          => r \in rows /\ r \in sent /\ mov[r] = "complete"]_vars

\* A clip the bot still owes its user never makes a reel fail: when a task
\* gives up because a file is not there, the owner has asked for the deletion
\* of one of the picked clips, or it was never taken into custody.  The query,
\* the opening of each clip and the start of ffmpeg are separate moments, with
\* any uploads, deletes and cleanups between them.
CustodyMakesReel ==
    [][\A r \in Reels : pc'[r] = "missing" /\ pc[r] # "missing"
          => ~(picked[r] \subseteq custody)]_vars

\* The message "Compiling" does not stay: it becomes an outcome, unless
\* Telegram refused the last edit, the process ended under the task, or the
\* handler raised between the message and the creation of the task: then
\* nobody is left to change it.
StatusSettles ==
    \A r \in Reels :
        status[r] = "compiling"
            ~> (status[r] # "compiling" \/ r \in refused \cup cut \cup dropped)

(* Why the safety properties hold *)

InStage(r, stages) == pc[r] \in stages

\* How far a handler or its task has got and what it has left behind.
StagesSound ==
    /\ \A r \in Reels :
         /\ InStage(r, {"none", "answer", "query", "open", "render"})
               => mov[r] = "absent" /\ r \notin rows /\ r \notin sent
         /\ InStage(r, {"copied", "record", "send", "done"}) => mov[r] = "complete"
         /\ InStage(r, {"send", "done"}) => r \in rows
         /\ pc[r] = "done" => r \in sent
         /\ r \in dropped => pc[r] = "end" /\ mov[r] = "absent"
         /\ r \in Running => process = "up"
    /\ custody \subseteq store

IInv == TypeOK /\ StagesSound /\ RecordedReelsPlayable
=============================================================================
