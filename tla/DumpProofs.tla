----------------------------- MODULE DumpProofs -----------------------------
(***************************************************************************)
(* When the manifest is current.  DumpIsCurrent is false for two updates   *)
(* of one user in flight (the older dump can be written last); here it is  *)
(* proved for any number of tasks, users, clips and faults as long as no   *)
(* user has two updates in flight: updates of different users need not     *)
(* wait for each other, although they share every table.                   *)
(***************************************************************************)
EXTENDS LibraryProofs

\* No user has two updates in flight.  The bot does not see to it; a user who
\* waits for the answer to each message does.
OnePerUser == \A s, t \in Tasks : actor[s] = actor[t] /\ actor[s] # NoUser => s = t

\* What the dump of an update has read so far is still in the tables.
SnapSound(t) ==
    /\ pc[t] \in {"dumpVideos", "dumpLinks"} =>
          snap[t].named = (actor[t] \in named) /\ snap[t].tags = tags[actor[t]]
    /\ pc[t] = "dumpLinks" => snap[t].videos = videos \cap OwnedBy(actor[t])

DumpSound ==
    /\ phase = "up" => pc[Sweeper] = "idle"
    /\ \A t \in Tasks : SnapSound(t)

\* The tables stay, and every task stays in its dump or is in none.
LEMMA TablesStay ==
    ASSUME DumpSound, UNCHANGED db, phase' = "up" => pc'[Sweeper] = "idle",
           \A t \in Tasks : \/ pc'[t] \notin {"dumpVideos", "dumpLinks"}
                            \/ pc'[t] = pc[t] /\ actor'[t] = actor[t] /\ snap'[t] = snap[t]
    PROVE  DumpSound'
BY DEF DumpSound, SnapSound, db

\* One agent moves on and the rest stay where they are.
LEMMA AgentMoves ==
    ASSUME IInv, NEW a \in Agents, NEW at, pc' = [pc EXCEPT ![a] = at]
    PROVE  pc'[a] = at /\ \A s \in Agents : s # a => pc'[s] = pc[s]
BY DEF IInv, TypeOK

LEMMA AgentSettles ==
    ASSUME IInv, NEW a \in Agents, NEW at, Settle(a, at)
    PROVE  /\ pc'[a] = at
           /\ \A s \in Agents : s # a => pc'[s] = pc[s] /\ actor'[s] = actor[s] /\ snap'[s] = snap[s]
BY DEF IInv, TypeOK, Settle

\* A handler starts, downloads or fails: no table changes, and it dumps nothing.
LEMMA HandlerDump ==
    ASSUME IInv, DumpSound, NEW t \in Tasks,
           Update(t) \/ UploadRecord(t) \/ IngestFail(t) \/ Abort(t)
    PROVE  DumpSound'
<1>1. t \in Agents /\ t # Sweeper /\ Sweeper \in Agents /\ \A s \in Tasks : s \in Agents
  BY AgentAssumption DEF Agents
<1>2. UNCHANGED <<db, phase>>
  BY DEF Update, UploadBegin, DeleteClip, UploadRecord, IngestFail, Abort
<1>3. /\ pc'[t] \in {"idle", "fetching", "uploaded", "deleted"}
      /\ \A s \in Agents : s # t => pc'[s] = pc[s] /\ actor'[s] = actor[s] /\ snap'[s] = snap[s]
  <2>1. CASE Update(t) \/ UploadRecord(t)
    BY <2>1, <1>1 DEF Update, UploadBegin, DeleteClip, UploadRecord, IInv, TypeOK
  <2>2. CASE IngestFail(t) \/ Abort(t)
    BY <2>2, <1>1, AgentSettles DEF IngestFail, Abort
  <2> QED
    BY <2>1, <2>2
<1> QED
  BY <1>1, <1>2, <1>3, TablesStay DEF DumpSound

\* A commit changes the rows of its own user, who has no other update to dump.
LEMMA CommitDump ==
    ASSUME IInv, DumpSound, OnePerUser, NEW t \in Tasks, CommitUpload(t) \/ CommitDelete(t)
    PROVE  DumpSound'
<1> DEFINE u == actor[t]
<1>1. t \in Agents /\ t # Sweeper /\ Sweeper \in Agents /\ \A s \in Tasks : s \in Agents
  BY AgentAssumption DEF Agents
<1>2. UNCHANGED <<phase, actor, snap>> /\ pc' = [pc EXCEPT ![t] = "dump"]
  BY DEF CommitUpload, CommitDelete
<1>3. pc'[t] = "dump" /\ \A s \in Agents : s # t => pc'[s] = pc[s]
  BY <1>1, <1>2, AgentMoves
<1>4. u \in Users /\ clip[t] \in Videos /\ Owner[clip[t]] = u
  BY OwnerAssumption DEF CommitUpload, CommitDelete, IInv, TypeOK, AgentsSound, Uploading
<1>5. ASSUME NEW w \in Users, w # u
      PROVE  /\ (w \in named') = (w \in named) /\ tags'[w] = tags[w]
             /\ videos' \cap OwnedBy(w) = videos \cap OwnedBy(w)
  <2>1. (w \in named') = (w \in named) /\ tags'[w] = tags[w]
    BY <1>5 DEF CommitUpload, CommitDelete, IInv, TypeOK
  <2>2. clip[t] \notin OwnedBy(w)
    BY <1>4, <1>5 DEF OwnedBy
  <2>3. videos' = videos \cup {clip[t]} \/ videos' = videos \ {clip[t]}
    BY DEF CommitUpload, CommitDelete
  <2> QED
    BY <2>1, <2>2, <2>3
<1>6. ASSUME NEW s \in Tasks PROVE SnapSound(s)'
  <2>1. CASE s = t \/ pc[s] \notin {"dumpVideos", "dumpLinks"}
    BY <2>1, <1>1, <1>3 DEF SnapSound
  <2>2. CASE s # t /\ pc[s] \in {"dumpVideos", "dumpLinks"}
    <3>1. actor[s] \in Users
      BY <2>2, <1>1 DEF IInv, AgentsSound, Dumping
    <3>2. actor[s] # u
      BY <2>2, <3>1, NoneAssumption DEF OnePerUser
    <3>3. SnapSound(s) /\ pc'[s] = pc[s] /\ actor'[s] = actor[s] /\ snap'[s] = snap[s]
      BY <2>2, <1>1, <1>2, <1>3 DEF DumpSound
    <3>4. /\ (actor[s] \in named') = (actor[s] \in named) /\ tags'[actor[s]] = tags[actor[s]]
          /\ videos' \cap OwnedBy(actor[s]) = videos \cap OwnedBy(actor[s])
      BY <1>5, <3>1, <3>2
    <3>5. SnapSound(s)' = (/\ pc[s] \in {"dumpVideos", "dumpLinks"} =>
                                 /\ snap[s].named = (actor[s] \in named')
                                 /\ snap[s].tags = tags'[actor[s]]
                           /\ pc[s] = "dumpLinks" =>
                                 snap[s].videos = videos' \cap OwnedBy(actor[s]))
      BY <3>3 DEF SnapSound, OwnedBy
    <3> QED
      BY <3>3, <3>4, <3>5 DEF SnapSound
  <2> QED
    BY <2>1, <2>2
<1> QED
  BY <1>1, <1>2, <1>3, <1>6 DEF DumpSound

\* A dump reads what is there, and ends.
LEMMA DumpDump ==
    ASSUME IInv, DumpSound, NEW a \in Agents, DumpStep(a) PROVE DumpSound'
<1>1. Sweeper \in Agents /\ \A s \in Tasks : s \in Agents /\ s # Sweeper
  BY AgentAssumption DEF Agents
<1>2. UNCHANGED <<db, phase>> /\ (phase = "up" => a # Sweeper)
  BY DEF DumpStep, DumpReadTags, DumpReadVideos, DumpWrite, DumpFail, DumpSound
<1>3. CASE DumpWrite(a) \/ DumpFail(a)
  <2>1. Settle(a, AfterDump(a)) /\ AfterDump(a) \in {"idle", "sweep"}
    BY <1>3 DEF DumpWrite, DumpFail, AfterDump
  <2>2. /\ pc'[a] \in {"idle", "sweep"}
        /\ \A s \in Agents : s # a => pc'[s] = pc[s] /\ actor'[s] = actor[s] /\ snap'[s] = snap[s]
    BY <2>1, AgentSettles
  <2> QED
    BY <1>1, <1>2, <2>2, TablesStay DEF DumpSound
<1>4. CASE DumpReadTags(a)
  <2>1. UNCHANGED actor /\ \A s \in Agents : s # a => pc'[s] = pc[s] /\ snap'[s] = snap[s]
    BY <1>4 DEF DumpReadTags, IInv, TypeOK
  <2>2. /\ pc'[a] = "dumpVideos" /\ snap'[a].named = (actor[a] \in named)
        /\ snap'[a].tags = tags[actor[a]]
    BY <1>4 DEF DumpReadTags, IInv, TypeOK
  <2> QED
    BY <1>1, <1>2, <2>1, <2>2 DEF DumpSound, SnapSound, db
<1>5. CASE DumpReadVideos(a)
  <2>1. UNCHANGED actor /\ \A s \in Agents : s # a => pc'[s] = pc[s] /\ snap'[s] = snap[s]
    BY <1>5 DEF DumpReadVideos, IInv, TypeOK
  <2>2. snap[a] \in Snaps /\ snap'[a] = [snap[a] EXCEPT !.videos = videos \cap OwnedBy(actor[a])]
    BY <1>5 DEF DumpReadVideos, IInv, TypeOK
  <2>3. /\ pc[a] = "dumpVideos" /\ pc'[a] = "dumpLinks"
        /\ snap'[a].named = snap[a].named /\ snap'[a].tags = snap[a].tags
        /\ snap'[a].videos = videos \cap OwnedBy(actor[a])
    BY <1>5, <2>2 DEF DumpReadVideos, IInv, TypeOK, Snaps
  <2> QED
    BY <1>1, <1>2, <2>1, <2>3 DEF DumpSound, SnapSound, db
<1> QED
  BY <1>3, <1>4, <1>5 DEF DumpStep

\* The life of the process: no dump of an update outlives it, and the sweep
\* begins when it is stopping.
LEMMA ProcessDump ==
    ASSUME IInv, DumpSound,
           \/ Stop \/ Exit \/ Crash \/ Wipe \/ Boot
           \/ \E u \in Users : SweepNext(u) \/ SpoilManifest(u)
    PROVE  DumpSound'
<1>1. Sweeper \in Agents /\ \A s \in Tasks : s \in Agents /\ s # Sweeper
  BY AgentAssumption DEF Agents
<1>2. CASE Stop \/ \E u \in Users : SweepNext(u)
  <2>1. /\ UNCHANGED <<db, snap>> /\ phase' # "up"
        /\ \A s \in Tasks : pc'[s] = pc[s] /\ actor'[s] = actor[s]
    BY <1>1, <1>2 DEF Stop, SweepNext, DumpSound, IInv, TypeOK
  <2> QED
    BY <2>1, TablesStay
<1>3. CASE Exit \/ Crash
  BY <1>1, <1>3, TablesStay DEF Exit, Crash, ProcessEnds, disk
<1>4. CASE Wipe \/ Boot \/ \E u \in Users : SpoilManifest(u)
  <2>1. UNCHANGED pc /\ \A a \in Agents : pc[a] = "idle"
    BY <1>4 DEF Wipe, Boot, BootSkip, BootRecover, BootRecoverFail, Open, SpoilManifest,
                agents, IInv, AgentsSound
  <2> QED
    BY <1>1, <2>1 DEF DumpSound, SnapSound
<1> QED
  BY <1>2, <1>3, <1>4

\* Every step keeps what dumps have read current.
LEMMA NextDump == ASSUME IInv, DumpSound, OnePerUser, [Next]_vars PROVE DumpSound'
<1>1. ASSUME NEW t \in Tasks, TaskStep(t) PROVE DumpSound'
  BY <1>1, HandlerDump, CommitDump, DumpDump DEF TaskStep, Agents
<1>2. CASE SweepStep
  BY <1>2, DumpDump, ProcessDump DEF SweepStep, Agents
<1>3. CASE UNCHANGED vars
  BY <1>3, TablesStay DEF vars, agents, DumpSound
<1> QED
  BY <1>1, <1>2, <1>3, HandlerDump, ProcessDump DEF Next

\* A manifest that changes while the bot is up is written by the dump of an update.
LEMMA WrittenIsCurrent ==
    ASSUME IInv, DumpSound, [Next]_vars, phase = "up", NEW u \in Users,
           manifest'[u] # manifest[u]
    PROVE  manifest'[u] = CommittedView(u)
<1>1. PICK t \in Tasks : DumpWrite(t)
  <2>1. ASSUME NEW t \in Tasks, Update(t) \/ TaskStep(t), ~DumpWrite(t)
        PROVE  UNCHANGED manifest
    BY <2>1 DEF Update, UploadBegin, DeleteClip, TaskStep, UploadRecord, IngestFail, Abort,
                CommitUpload, CommitDelete, DumpStep, DumpReadTags, DumpReadVideos,
                DumpFail, disk
  <2>2. ~SweepStep /\ ~Wipe /\ ~Boot /\ ~SpoilManifest(u)
    BY DEF DumpSound, SweepStep, DumpStep, DumpReadTags, DumpReadVideos, DumpWrite, DumpFail,
           Exit, SweepNext, Wipe, Boot, BootSkip, BootRecover, BootRecoverFail, SpoilManifest
  <2>3. \A w \in Users : ~SpoilManifest(w)
    BY DEF SpoilManifest
  <2>4. Stop \/ Crash \/ UNCHANGED vars => UNCHANGED manifest
    BY DEF Stop, Crash, ProcessEnds, vars, disk
  <2> QED
    BY <2>1, <2>2, <2>3, <2>4 DEF Next
<1>2. t \in Agents /\ pc[t] = "dumpLinks" /\ SnapSound(t)
  BY <1>1 DEF Agents, DumpWrite, DumpSound
<1>3. u = actor[t] /\ manifest'[u] = [form   |-> "good",
                                      named  |-> snap[t].named,
                                      tags   |-> snap[t].tags,
                                      videos |-> snap[t].videos,
                                      linked |-> snap[t].videos \cap linked]
  BY <1>1 DEF DumpWrite, IInv, TypeOK
<1>4. /\ snap[t].named = (u \in named) /\ snap[t].tags = tags[u]
      /\ snap[t].videos = videos \cap OwnedBy(u)
  BY <1>2, <1>3 DEF SnapSound
<1>5. snap[t].videos \cap linked = linked \cap OwnedBy(u)
  BY <1>4 DEF IInv, TypeOK
<1> QED
  BY <1>3, <1>4, <1>5 DEF CommittedView

\* Whatever other users' updates do meanwhile, and whichever faults happen: a
\* manifest that is written while the bot is up equals the committed rows of
\* its user, when no user has two updates in flight.
EveryDumpIsCurrent ==
    [][phase = "up" => \A u \in Users : manifest'[u] # manifest[u]
                                           => manifest'[u] = CommittedView(u)]_vars

THEOREM EveryDump == Spec /\ []OnePerUser => EveryDumpIsCurrent
<1>1. Init => DumpSound
  BY DEF Init, DumpSound, SnapSound, Agents
<1>2. IInv /\ DumpSound /\ OnePerUser /\ [Next]_vars => DumpSound'
  BY NextDump
<1>3. IInv /\ DumpSound /\ [Next]_vars =>
        [phase = "up" => \A u \in Users : manifest'[u] # manifest[u]
                                             => manifest'[u] = CommittedView(u)]_vars
  BY WrittenIsCurrent
<1> QED
  BY <1>1, <1>2, <1>3, Invariance, PTL DEF Spec, EveryDumpIsCurrent

\* Library.DumpIsCurrent, of the dump that ends the last update in flight.
THEOREM DumpsAreCurrent == Spec /\ []OnePerUser => DumpIsCurrent
<1> DEFINE Current == \A u \in Users : manifest'[u] # manifest[u]
                                          => manifest'[u] = CommittedView(u)
<1>1. [phase = "up" => Current]_vars
         => [phase = "up" /\ (\A t \in Tasks : pc'[t] = "idle") => Current]_vars
  OBVIOUS
<1> QED
  BY <1>1, EveryDump, PTL DEF EveryDumpIsCurrent, DumpIsCurrent

\* One update at a time is enough.
THEOREM OneTaskDumps ==
    ASSUME \A s, t \in Tasks : s = t PROVE Spec => DumpIsCurrent
<1>1. OnePerUser
  BY DEF OnePerUser
<1> QED
  BY <1>1, DumpsAreCurrent, PTL
=============================================================================
