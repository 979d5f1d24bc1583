--------------------------- MODULE LibraryProofs ---------------------------
(***************************************************************************)
(* Proofs about Library.  Section 1: each action preserves the inductive   *)
(* invariant IInv; one lemma per action, one step per conjunct.  Section   *)
(* 2: the invariant and what follows from it.  Section 3: the properties   *)
(* of steps.  Section 4: Library implements ClipCustody.                   *)
(***************************************************************************)
EXTENDS Library, TLAPS

-----------------------------------------------------------------------------
(* 1. Every action preserves the invariant *)

\* An upload starts on a clip nobody knows, so no invariant about rows, custody
\* or other uploads is touched.
LEMMA UploadBeginSound ==
  ASSUME IInv, NEW t \in Tasks, NEW v \in Videos, UploadBegin(t, v)
  PROVE  IInv'
<1>1. TypeOK'
  BY DEF TypeOK, UploadBegin, IInv, history, db
<1>2. AgentsSound'
  BY AgentAssumption DEF AgentsSound, UploadBegin, IInv, history, Dumping,
         TypeOK, Fresh, InFlight, Uploading
<1>3. HistorySound'
  BY DEF HistorySound, UploadBegin, IInv, history, db
<1>4. CustodyKept'
  BY DEF CustodyKept, UploadBegin, IInv, Custody, Fresh, history
<1>5. ManifestNeverPhantom'
  BY DEF ManifestNeverPhantom, UploadBegin, IInv
<1>6. LinksSound'
  BY DEF LinksSound, UploadBegin, IInv, history, Custody, db
<1>7. QED
  BY <1>1, <1>2, <1>3, <1>4, <1>5, <1>6 DEF IInv

\* The file becomes complete, which custody wants.
LEMMA UploadRecordSound ==
  ASSUME IInv, NEW t \in Tasks, UploadRecord(t)
  PROVE  IInv'
<1>1. TypeOK'
  BY DEF TypeOK, UploadRecord, IInv, history, db
<1>2. AgentsSound'
  BY DEF AgentsSound, UploadRecord, IInv, Uploading, Dumping, history, TypeOK
<1>3. HistorySound'
  BY DEF HistorySound, UploadRecord, IInv, history, db
<1>4. CustodyKept'
  BY DEF CustodyKept, UploadRecord, IInv, Custody, history
<1>5. ManifestNeverPhantom'
  BY DEF ManifestNeverPhantom, UploadRecord, IInv
<1>6. LinksSound'
  BY DEF LinksSound, UploadRecord, IInv, history, Custody, db
<1>7. QED
  BY <1>1, <1>2, <1>3, <1>4, <1>5, <1>6 DEF IInv

\* The file it removes is of a clip that was never saved.
LEMMA IngestFailSound ==
  ASSUME IInv, NEW t \in Tasks, IngestFail(t)
  PROVE  IInv'
<1>1. TypeOK'
  BY DEF TypeOK, IngestFail, IInv, db, history, Settle, NoSnap, Snaps
<1>2. AgentsSound'
  BY DEF AgentsSound, IngestFail, IInv, Settle, Uploading, Dumping, history,
         TypeOK
<1>3. HistorySound'
  BY DEF HistorySound, IngestFail, IInv, history, db
<1>4. CustodyKept'
  BY DEF CustodyKept, IngestFail, IInv, TypeOK, history, AgentsSound,
         HistorySound, Custody, Uploading
<1>5. ManifestNeverPhantom'
  BY DEF ManifestNeverPhantom, IngestFail, IInv
<1>6. LinksSound'
  BY DEF LinksSound, IngestFail, IInv, Settle, Custody, history, db
<1>7. QED
  BY <1>1, <1>2, <1>3, <1>4, <1>5, <1>6 DEF IInv

\* The clip leaves custody in the step that removes its file.
LEMMA DeleteClipSound ==
  ASSUME IInv, NEW t \in Tasks, NEW u \in Users, NEW v \in Videos, DeleteClip(t, u, v)
  PROVE  IInv'
<1>1. TypeOK'
  BY DEF TypeOK, DeleteClip, IInv, db
<1>2. AgentsSound'
  BY AgentAssumption DEF AgentsSound, DeleteClip, IInv, HistorySound,
         Uploading, Dumping, TypeOK
<1>3. HistorySound'
  BY DEF HistorySound, DeleteClip, IInv, db
<1>4. CustodyKept'
  BY DEF CustodyKept, DeleteClip, IInv, Custody, TypeOK
<1>5. ManifestNeverPhantom'
  BY DEF ManifestNeverPhantom, DeleteClip, IInv
<1>6. LinksSound'
  BY DEF LinksSound, DeleteClip, IInv, Custody, db
<1>7. QED
  BY <1>1, <1>2, <1>3, <1>4, <1>5, <1>6 DEF IInv

\* A rollback has nothing to undo in the committed state.
LEMMA AbortSound ==
  ASSUME IInv, NEW t \in Tasks, Abort(t)
  PROVE  IInv'
<1>1. TypeOK'
  BY DEF TypeOK, Abort, IInv, disk, db, history, Settle, NoSnap, Snaps
<1>2. AgentsSound'
  BY DEF AgentsSound, Abort, IInv, TypeOK, history, disk, Settle, Uploading,
         Dumping
<1>3. HistorySound'
  BY DEF HistorySound, Abort, IInv, history, db
<1>4. CustodyKept'
  BY DEF CustodyKept, Abort, IInv, history, Custody, disk
<1>5. ManifestNeverPhantom'
  BY DEF ManifestNeverPhantom, Abort, IInv, disk
<1>6. LinksSound'
  BY DEF LinksSound, Abort, IInv, Settle, Custody, history, disk, db
<1>7. QED
  BY <1>1, <1>2, <1>3, <1>4, <1>5, <1>6 DEF IInv

\* The clip enters custody with its file complete and its links.
LEMMA CommitUploadSound ==
  ASSUME IInv, NEW t \in Tasks, CommitUpload(t)
  PROVE  IInv'
<1>1. TypeOK'
  BY OwnerAssumption, TagsAssumption DEF TypeOK, CommitUpload, IInv,
         Uploading, disk, Agents, AgentsSound
<1>2. AgentsSound'
  BY OwnerAssumption DEF AgentsSound, CommitUpload, IInv, Uploading, Dumping,
         TypeOK, disk, Agents
<1>3. HistorySound'
  BY DEF HistorySound, CommitUpload, IInv
<1>4. CustodyKept'
  BY DEF CustodyKept, CommitUpload, IInv, disk, Custody, AgentsSound
<1>5. ManifestNeverPhantom'
  BY DEF ManifestNeverPhantom, CommitUpload, IInv, disk
<1>6. LinksSound'
  BY OwnerAssumption DEF LinksSound, CommitUpload, IInv, disk, TypeOK,
         AgentsSound, ManifestNeverPhantom, Custody, Uploading
<1>7. QED
  BY <1>1, <1>2, <1>3, <1>4, <1>5, <1>6 DEF IInv

\* The row that goes is of a clip out of custody.
LEMMA CommitDeleteSound ==
  ASSUME IInv, NEW t \in Tasks, CommitDelete(t)
  PROVE  IInv'
<1>1. TypeOK'
  BY DEF TypeOK, CommitDelete, IInv, history, disk
<1>2. AgentsSound'
  BY OwnerAssumption DEF AgentsSound, CommitDelete, IInv, Uploading, Dumping,
         history, TypeOK, disk
<1>3. HistorySound'
  BY DEF HistorySound, CommitDelete, IInv, history
<1>4. CustodyKept'
  BY DEF CustodyKept, CommitDelete, IInv, history, Custody, disk
<1>5. ManifestNeverPhantom'
  BY DEF ManifestNeverPhantom, CommitDelete, IInv, disk
<1>6. LinksSound'
  BY DEF LinksSound, CommitDelete, IInv, Custody, history, disk, AgentsSound
<1>7. QED
  BY <1>1, <1>2, <1>3, <1>4, <1>5, <1>6 DEF IInv

\* The first read of a dump.
LEMMA DumpReadTagsSound ==
  ASSUME IInv, NEW a \in Agents, DumpReadTags(a)
  PROVE  IInv'
<1>1. TypeOK'
  BY DEF TypeOK, DumpReadTags, IInv, db, disk, AgentsSound, Dumping, Snaps,
         history
<1>2. AgentsSound'
  BY DEF AgentsSound, DumpReadTags, IInv, Uploading, Dumping, history, disk
<1>3. HistorySound'
  BY DEF HistorySound, DumpReadTags, IInv, history, db
<1>4. CustodyKept'
  BY DEF CustodyKept, DumpReadTags, IInv, history, Custody, disk
<1>5. ManifestNeverPhantom'
  BY DEF ManifestNeverPhantom, DumpReadTags, IInv, disk
<1>6. LinksSound'
  BY DEF LinksSound, DumpReadTags, IInv, Custody, history, disk, db
<1>7. QED
  BY <1>1, <1>2, <1>3, <1>4, <1>5, <1>6 DEF IInv

\* The second read takes committed rows of one user.
LEMMA DumpReadVideosSound ==
  ASSUME IInv, NEW a \in Agents, DumpReadVideos(a)
  PROVE  IInv'
<1>1. TypeOK'
  <2>1. snap[a] \in Snaps /\ snap \in [Agents -> Snaps]
    BY DEF IInv, TypeOK
  <2>2. [snap[a] EXCEPT !.videos = videos \cap OwnedBy(actor[a])] \in Snaps
    BY <2>1 DEF IInv, TypeOK, Snaps, OwnedBy
  <2>3. snap' \in [Agents -> Snaps]
    BY <2>1, <2>2 DEF DumpReadVideos
  <2> QED BY <2>3 DEF IInv, TypeOK, DumpReadVideos, db, disk, history
<1>2. AgentsSound'
  BY DEF AgentsSound, DumpReadVideos, IInv, Uploading, Dumping, history, disk
<1>3. HistorySound'
  BY DEF HistorySound, DumpReadVideos, IInv, history, db
<1>4. CustodyKept'
  BY DEF CustodyKept, DumpReadVideos, IInv, history, Custody, disk
<1>5. ManifestNeverPhantom'
  BY DEF ManifestNeverPhantom, DumpReadVideos, IInv, disk
<1>6. LinksSound'
  BY DEF LinksSound, DumpReadVideos, IInv, disk, TypeOK, db, HistorySound,
         Custody, history
<1>7. QED
  BY <1>1, <1>2, <1>3, <1>4, <1>5, <1>6 DEF IInv

\* What a dump read earlier is still linked if it is still in custody.
LEMMA DumpWriteSound ==
  ASSUME IInv, NEW a \in Agents, DumpWrite(a)
  PROVE  IInv'
<1>1. TypeOK'
  BY DEF TypeOK, DumpWrite, IInv, history, db, Snaps, Manifests, Settle,
         AfterDump, NoSnap
<1>2. AgentsSound'
  BY AgentAssumption DEF AgentsSound, DumpWrite, IInv, history, Dumping,
         TypeOK, Settle, AfterDump, Uploading
<1>3. HistorySound'
  BY DEF HistorySound, DumpWrite, IInv, history, db
<1>4. CustodyKept'
  BY DEF CustodyKept, DumpWrite, IInv, Custody, history
<1>5. ManifestNeverPhantom'
  BY DEF ManifestNeverPhantom, DumpWrite, IInv, LinksSound, history
<1>6. LinksSound'
  BY DEF LinksSound, DumpWrite, IInv, TypeOK, history, db, Settle, AfterDump,
         Custody
<1>7. QED
  BY <1>1, <1>2, <1>3, <1>4, <1>5, <1>6 DEF IInv

\* A dump that fails writes nothing.
LEMMA DumpFailSound ==
  ASSUME IInv, NEW a \in Agents, DumpFail(a)
  PROVE  IInv'
<1>1. TypeOK'
  BY DEF TypeOK, DumpFail, IInv, disk, history, db, Settle, AfterDump, NoSnap,
         Snaps
<1>2. AgentsSound'
  BY AgentAssumption DEF AgentsSound, DumpFail, IInv, TypeOK, history, disk,
         Settle, AfterDump, Uploading, Dumping
<1>3. HistorySound'
  BY DEF HistorySound, DumpFail, IInv, history, db
<1>4. CustodyKept'
  BY DEF CustodyKept, DumpFail, IInv, history, Custody, disk
<1>5. ManifestNeverPhantom'
  BY DEF ManifestNeverPhantom, DumpFail, IInv, disk
<1>6. LinksSound'
  BY DEF LinksSound, DumpFail, IInv, disk, TypeOK, db, Settle, AfterDump,
         Custody, history
<1>7. QED
  BY <1>1, <1>2, <1>3, <1>4, <1>5, <1>6 DEF IInv

\* The sweep starts.
LEMMA StopSound ==
  ASSUME IInv, Stop
  PROVE  IInv'
<1>1. TypeOK'
  BY DEF TypeOK, Stop, IInv, disk, db, history
<1>2. AgentsSound'
  BY AgentAssumption DEF AgentsSound, Stop, IInv, Uploading, Dumping, history,
         disk
<1>3. HistorySound'
  BY DEF HistorySound, Stop, IInv, history, db
<1>4. CustodyKept'
  BY DEF CustodyKept, Stop, IInv, history, Custody, disk
<1>5. ManifestNeverPhantom'
  BY DEF ManifestNeverPhantom, Stop, IInv, disk
<1>6. LinksSound'
  BY DEF LinksSound, Stop, IInv, Custody, history, disk, db
<1>7. QED
  BY <1>1, <1>2, <1>3, <1>4, <1>5, <1>6 DEF IInv

\* The sweep takes the next user.
LEMMA SweepNextSound ==
  ASSUME IInv, NEW u \in Users, SweepNext(u)
  PROVE  IInv'
<1>1. TypeOK'
  BY DEF TypeOK, SweepNext, IInv, disk, db, history
<1>2. AgentsSound'
  BY DEF AgentsSound, SweepNext, IInv, Uploading, Dumping, history, TypeOK,
         disk
<1>3. HistorySound'
  BY DEF HistorySound, SweepNext, IInv, history, db
<1>4. CustodyKept'
  BY DEF CustodyKept, SweepNext, IInv, history, Custody, disk
<1>5. ManifestNeverPhantom'
  BY DEF ManifestNeverPhantom, SweepNext, IInv, disk
<1>6. LinksSound'
  BY DEF LinksSound, SweepNext, IInv, Custody, history, disk, db
<1>7. QED
  BY <1>1, <1>2, <1>3, <1>4, <1>5, <1>6 DEF IInv

\* Exit and Crash leave the database and the disk as they are.
LEMMA ProcessEndsSound ==
  ASSUME IInv, ProcessEnds
  PROVE  IInv'
<1>1. TypeOK'
  BY DEF TypeOK, ProcessEnds, IInv, NoSnap, Snaps, history, disk, db
<1>2. AgentsSound'
  BY DEF AgentsSound, ProcessEnds, Dumping, Uploading, Agents
<1>3. HistorySound'
  BY DEF HistorySound, ProcessEnds, IInv, history, db
<1>4. CustodyKept'
  BY DEF CustodyKept, ProcessEnds, IInv, history, Custody, disk
<1>5. ManifestNeverPhantom'
  BY DEF ManifestNeverPhantom, ProcessEnds, IInv, disk
<1>6. LinksSound'
  BY DEF LinksSound, ProcessEnds, IInv, Custody, history, disk, db
<1>7. QED
  BY <1>1, <1>2, <1>3, <1>4, <1>5, <1>6 DEF IInv

\* Without rows there is nothing to agree with.
LEMMA WipeSound ==
  ASSUME IInv, Wipe
  PROVE  IInv'
<1>1. TypeOK'
  BY DEF TypeOK, Wipe, IInv, agents, history, disk
<1>2. AgentsSound'
  BY DEF AgentsSound, Wipe, IInv, Uploading, Dumping, history, agents, disk
<1>3. HistorySound'
  BY DEF HistorySound, Wipe, IInv, history
<1>4. CustodyKept'
  BY DEF CustodyKept, Wipe, IInv, history, Custody, disk
<1>5. ManifestNeverPhantom'
  BY DEF ManifestNeverPhantom, Wipe, IInv, disk
<1>6. LinksSound'
  BY DEF LinksSound, Wipe, IInv, Custody, history, agents, disk, AgentsSound
<1>7. QED
  BY <1>1, <1>2, <1>3, <1>4, <1>5, <1>6 DEF IInv

\* An unreadable manifest lists nothing.
LEMMA SpoilManifestSound ==
  ASSUME IInv, NEW u \in Users, SpoilManifest(u)
  PROVE  IInv'
<1>1. TypeOK'
  BY DEF TypeOK, SpoilManifest, IInv, agents, db, history, NoManifest,
         Manifests
<1>2. AgentsSound'
  BY DEF AgentsSound, SpoilManifest, IInv, Uploading, Dumping, history, agents
<1>3. HistorySound'
  BY DEF HistorySound, SpoilManifest, IInv, history, db
<1>4. CustodyKept'
  BY DEF CustodyKept, SpoilManifest, IInv, Custody, history
<1>5. ManifestNeverPhantom'
  BY DEF ManifestNeverPhantom, SpoilManifest, IInv, NoManifest, history
<1>6. LinksSound'
  BY DEF LinksSound, SpoilManifest, IInv, NoManifest, Custody, history,
         agents, db
<1>7. QED
  BY <1>1, <1>2, <1>3, <1>4, <1>5, <1>6 DEF IInv

\* A start that finds rows changes none.
LEMMA BootSkipSound ==
  ASSUME IInv, BootSkip
  PROVE  IInv'
<1>1. TypeOK'
  BY AccessAssumption DEF TypeOK, BootSkip, IInv, Open, agents, disk, db
<1>2. AgentsSound'
  BY DEF AgentsSound, BootSkip, IInv, Uploading, Dumping, Open, agents, disk
<1>3. HistorySound'
  BY DEF HistorySound, BootSkip, IInv, Open, db
<1>4. CustodyKept'
  BY DEF CustodyKept, BootSkip, IInv, Open, Custody, disk
<1>5. ManifestNeverPhantom'
  BY DEF ManifestNeverPhantom, BootSkip, IInv, Open, disk
<1>6. LinksSound'
  BY DEF LinksSound, BootSkip, IInv, Custody, Open, agents, disk, db
<1>7. QED
  BY <1>1, <1>2, <1>3, <1>4, <1>5, <1>6 DEF IInv

\* Recovery restores rows from manifests that list known clips and from files.
LEMMA BootRecoverSound ==
  ASSUME IInv, BootRecover
  PROVE  IInv'
<1>1. TypeOK'
  <2>1. RestoredUsers \subseteq Users
    BY DEF RestoredUsers
  <2>2. \A u \in Users : /\ RestoredLinks(u) \subseteq RestoredVideos(u)
                         /\ RestoredVideos(u) \subseteq Videos
    BY DEF IInv, TypeOK, LinksSound, Manifests, RestoredVideos, RestoredLinks,
           Orphans, OwnedBy
  <2>3. videos' \subseteq Videos /\ linked' \subseteq videos'
    BY <2>2 DEF BootRecover
  <2>4. \A u \in Users : RestoredTags(u) \subseteq TagNames
    <3> SUFFICES ASSUME NEW u \in Users PROVE RestoredTags(u) \subseteq TagNames
      OBVIOUS
    <3>1. manifest[u] \in Manifests
      BY DEF IInv, TypeOK
    <3>2. RestoredLinks(u) \subseteq Videos
      BY <2>2
    <3> QED BY <3>1, <3>2, TagsAssumption DEF RestoredTags, Manifests
  <2>5. tags' \in [Users -> SUBSET TagNames]
    BY <2>4 DEF IInv, TypeOK, BootRecover
  <2>6. users' \subseteq Users /\ named' \subseteq users'
    BY <2>1 DEF IInv, TypeOK, BootRecover
  <2> QED BY <2>3, <2>5, <2>6, AccessAssumption
          DEF IInv, TypeOK, BootRecover, Open, disk, agents
<1>2. AgentsSound'
  BY DEF AgentsSound, BootRecover, IInv, Uploading, Dumping, Open, agents,
         Agents
<1>3. HistorySound'
  BY DEF HistorySound, BootRecover, IInv, Open
<1>4. CustodyKept'
  BY DEF CustodyKept, BootRecover, IInv, Open, Custody, disk
<1>5. ManifestNeverPhantom'
  BY DEF ManifestNeverPhantom, BootRecover, IInv, Open, disk
<1>6. LinksSound'
  BY DEF LinksSound, BootRecover, IInv, agents, disk, AgentsSound,
         RestoredLinks, RestoredTags, Orphans, ManifestNeverPhantom, Custody,
         OwnedBy, Open, RestoredUsers, RestoredVideos
<1>7. QED
  BY <1>1, <1>2, <1>3, <1>4, <1>5, <1>6 DEF IInv

\* A recovery that fails changes no row.
LEMMA BootRecoverFailSound ==
  ASSUME IInv, BootRecoverFail
  PROVE  IInv'
<1>1. TypeOK'
  BY AccessAssumption DEF TypeOK, BootRecoverFail, IInv, Open, agents, disk,
         db
<1>2. AgentsSound'
  BY DEF AgentsSound, BootRecoverFail, IInv, Uploading, Dumping, Open, agents,
         disk
<1>3. HistorySound'
  BY DEF HistorySound, BootRecoverFail, IInv, Open, db
<1>4. CustodyKept'
  BY DEF CustodyKept, BootRecoverFail, IInv, Open, Custody, disk
<1>5. ManifestNeverPhantom'
  BY DEF ManifestNeverPhantom, BootRecoverFail, IInv, Open, disk
<1>6. LinksSound'
  BY DEF LinksSound, BootRecoverFail, IInv, Custody, Open, agents, disk, db
<1>7. QED
  BY <1>1, <1>2, <1>3, <1>4, <1>5, <1>6 DEF IInv

-----------------------------------------------------------------------------
(* 2. The invariant, and what follows from it *)

\* The invariant holds at the start: an empty database and an empty disk.
LEMMA InitSound == Init => IInv
<1> SUFFICES ASSUME Init PROVE IInv
  OBVIOUS
<1>1. TypeOK
  BY DEF Init, TypeOK, Manifests, NoManifest, Snaps, NoSnap
<1>2. AgentsSound
  BY AgentAssumption DEF Init, AgentsSound, Uploading, Dumping, Agents
<1>3. HistorySound /\ CustodyKept /\ ManifestNeverPhantom
  BY DEF Init, HistorySound, CustodyKept, Custody, ManifestNeverPhantom, NoManifest
<1>4. LinksSound
  BY DEF Init, LinksSound, Custody, NoManifest
<1>5. QED
  BY <1>1, <1>2, <1>3, <1>4 DEF IInv

\* The steps that end the process.
LEMMA EndSound == ASSUME IInv, Exit \/ Crash PROVE IInv'
  BY ProcessEndsSound DEF Exit, Crash

\* A step that changes nothing.
LEMMA StutterSound == ASSUME IInv, UNCHANGED vars PROVE IInv'
<1>1. UNCHANGED <<users, named, tags, videos, linked>>
      /\ UNCHANGED <<files, manifest, phase, allowed, pending>>
      /\ UNCHANGED <<pc, actor, clip, snap, saved, asked, known>>
  BY DEF vars, db, disk, agents, history
<1>2. TypeOK' /\ HistorySound' /\ CustodyKept' /\ ManifestNeverPhantom'
  BY <1>1 DEF IInv, TypeOK, HistorySound, CustodyKept, Custody, ManifestNeverPhantom
<1>3. AgentsSound'
  BY <1>1 DEF IInv, AgentsSound, Uploading, Dumping
<1>4. LinksSound'
  BY <1>1 DEF IInv, LinksSound, Custody
<1>5. QED
  BY <1>2, <1>3, <1>4 DEF IInv

\* Every step of the library keeps the invariant: one case per action.
LEMMA NextSound == ASSUME IInv, [Next]_vars PROVE IInv'
<1>1. ASSUME NEW t \in Tasks, Update(t) PROVE IInv'
  BY <1>1, UploadBeginSound, DeleteClipSound DEF Update
<1>2. ASSUME NEW a \in Agents, DumpStep(a) PROVE IInv'
  BY <1>2, DumpReadTagsSound, DumpReadVideosSound, DumpWriteSound, DumpFailSound
     DEF DumpStep
<1>3. ASSUME NEW t \in Tasks, TaskStep(t) PROVE IInv'
  BY <1>2, <1>3, UploadRecordSound, IngestFailSound, AbortSound,
     CommitUploadSound, CommitDeleteSound DEF TaskStep, Agents
<1>4. ASSUME SweepStep PROVE IInv'
  BY <1>2, <1>4, SweepNextSound, EndSound DEF SweepStep, Agents
<1>5. ASSUME Boot PROVE IInv'
  BY <1>5, BootSkipSound, BootRecoverSound, BootRecoverFailSound DEF Boot
<1>6. QED
  BY <1>1, <1>3, <1>4, <1>5, StopSound, EndSound, WipeSound, SpoilManifestSound,
     StutterSound DEF Next

\* The inductive invariant of the library.
THEOREM Invariance == Spec => []IInv
<1>1. Init => IInv
  BY InitSound
<1>2. IInv /\ [Next]_vars => IInv'
  BY NextSound
<1>3. QED
  BY <1>1, <1>2, PTL DEF Spec

\* Every variable stays in its domain, for any sets of users, clips and tasks.
THEOREM TypeCorrect == Spec => []TypeOK
<1>1. IInv => TypeOK
  BY DEF IInv
<1>2. QED
  BY <1>1, Invariance, PTL

\* However many updates are in flight and whichever faults happen, the bytes
\* of a clip that was saved and not deleted are on disk.
THEOREM CustodyIsKept == Spec => []CustodyKept
<1>1. IInv => CustodyKept
  BY DEF IInv
<1>2. QED
  BY <1>1, Invariance, PTL

\* A row of a clip in custody is linked to all its hashtags.
THEOREM CustodyIsReachable == Spec => []CustodyReachable
<1>1. IInv => CustodyReachable
  BY DEF IInv, LinksSound, CustodyReachable
<1>2. QED
  BY <1>1, Invariance, PTL

\* No manifest lists a clip that was never committed, or one of another user.
THEOREM NoPhantoms == Spec => []ManifestNeverPhantom
<1>1. IInv => ManifestNeverPhantom
  BY DEF IInv
<1>2. QED
  BY <1>1, Invariance, PTL

-----------------------------------------------------------------------------
(* 3. Properties of steps *)

\* Rows of the table leave by their owner's delete or with the database.
LEMMA RowStep ==
  ASSUME IInv, [Next]_vars, NEW v \in videos \ videos'
  PROVE  \/ videos' = {} /\ users' = {}
         \/ \E t \in Tasks : pc[t] = "deleted" /\ clip[t] = v
                             /\ actor[t] = Owner[v] /\ v \in asked
<1>1. CASE \E t \in Tasks : CommitDelete(t)
  BY <1>1 DEF IInv, AgentsSound, CommitDelete
<1>2. CASE Wipe
  BY <1>2 DEF Wipe
<1>3. CASE BootRecover
  BY <1>3 DEF BootRecover
<1>4. CASE \E t \in Tasks : CommitUpload(t)
  BY <1>4 DEF CommitUpload
<1>5. CASE UNCHANGED videos
  BY <1>5
<1>6. QED
  <2>1. ASSUME NEW t \in Tasks, Update(t) PROVE UNCHANGED videos
    BY <2>1 DEF Update, UploadBegin, DeleteClip, db
  <2>2. ASSUME NEW a \in Agents, DumpStep(a) PROVE UNCHANGED videos
    BY <2>2 DEF DumpStep, DumpReadTags, DumpReadVideos, DumpWrite, DumpFail, db
  <2>3. ASSUME NEW t \in Tasks, TaskStep(t)
        PROVE  UNCHANGED videos \/ CommitUpload(t) \/ CommitDelete(t)
    BY <2>2, <2>3 DEF TaskStep, Agents, UploadRecord, IngestFail, Abort, db
  <2>4. ASSUME Stop \/ SweepStep \/ Crash PROVE UNCHANGED videos
    BY <2>2, <2>4
       DEF Stop, SweepStep, Agents, SweepNext, Exit, Crash, ProcessEnds, db
  <2>5. ASSUME Boot PROVE UNCHANGED videos \/ BootRecover
    BY <2>5 DEF Boot, BootSkip, BootRecoverFail, db
  <2>6. ASSUME NEW u \in Users, SpoilManifest(u) PROVE UNCHANGED videos
    BY <2>6 DEF SpoilManifest, db
  <2>7. ASSUME UNCHANGED vars PROVE UNCHANGED videos
    BY <2>7 DEF vars, db
  <2>8. QED
    BY <1>1, <1>2, <1>3, <1>4, <1>5, <2>1, <2>3, <2>4, <2>5, <2>6, <2>7 DEF Next

\* For every schedule and fault, a row goes only with its owner's delete or
\* with the whole database.
THEOREM OnlyOwnersRemoveRows == Spec => RowsLeaveOnlyByOwner
<1>1. IInv /\ [Next]_vars =>
        [\A v \in videos \ videos' :
            \/ videos' = {} /\ users' = {}
            \/ \E t \in Tasks : pc[t] = "deleted" /\ clip[t] = v
                                /\ actor[t] = Owner[v] /\ v \in asked]_vars
  BY RowStep
<1>2. QED
  BY <1>1, Invariance, PTL DEF Spec, RowsLeaveOnlyByOwner

\* Only a start takes the process from "down" to "up".
LEMMA UpMeansBoot == ASSUME IInv, [Next]_vars, phase = "down", phase' = "up"
                     PROVE  Boot
<1>1. ASSUME NEW a \in Agents PROVE ~DumpStep(a) /\ pc[a] = "idle"
  BY DEF IInv, AgentsSound, DumpStep, DumpReadTags, DumpReadVideos, DumpWrite, DumpFail
<1>2. ASSUME NEW t \in Tasks PROVE ~Update(t) /\ ~TaskStep(t)
  BY <1>1 DEF Agents, Update, UploadBegin, DeleteClip, TaskStep, UploadRecord,
              IngestFail, Abort, CommitUpload, CommitDelete
<1>3. ~Stop /\ ~SweepStep /\ ~Crash /\ ~Wipe
  BY <1>1 DEF Stop, SweepStep, Agents, SweepNext, Exit, Crash, Wipe
<1>4. \A u \in Users : ~SpoilManifest(u)
  BY DEF SpoilManifest
<1>5. ~UNCHANGED vars
  BY DEF vars
<1>6. QED
  BY <1>2, <1>3, <1>4, <1>5 DEF Next

\* Recovery misses no clip in custody: its file is there in full, so either
\* its owner's manifest lists it or the walk over the files finds it.
LEMMA RecoveredCustody == ASSUME IInv, BootRecover PROVE Custody \subseteq videos'
<1> SUFFICES ASSUME NEW v \in Custody PROVE v \in videos'
  OBVIOUS
<1>1. v \in Videos /\ Owner[v] \in Users /\ files[v] = "complete"
  BY OwnerAssumption DEF IInv, TypeOK, CustodyKept, Custody
<1>2. v \in RestoredVideos(Owner[v])
  BY <1>1 DEF RestoredVideos, Orphans, Covered, OwnedBy
<1>3. QED
  BY <1>1, <1>2 DEF BootRecover

\* A start on an empty table brings back all of custody, whatever happened
\* before, or fails and leaves the database as it was.
THEOREM RecoveryComplete == Spec => RecoveryIsComplete
<1>1. IInv /\ [Next]_vars =>
        [phase = "down" /\ phase' = "up" /\ videos = {}
            => \/ Custody \subseteq videos'
               \/ RecoveryMayFail /\ UNCHANGED db]_vars
  BY UpMeansBoot, RecoveredCustody DEF Boot, BootSkip, BootRecoverFail
<1>2. QED
  BY <1>1, Invariance, PTL DEF Spec, RecoveryIsComplete

\* A recovery that works restores the row of the owner of every clip in custody.
LEMMA RecoveredOwners ==
  ASSUME IInv, BootRecover, NEW v \in Custody PROVE Owner[v] \in users'
<1>1. v \in Videos /\ Owner[v] \in Users /\ files[v] = "complete"
  BY OwnerAssumption DEF IInv, TypeOK, CustodyKept, Custody
<1>2. manifest[Owner[v]].form # "good" => manifest[Owner[v]].videos = {}
  BY <1>1 DEF IInv, LinksSound
<1>3. Owner[v] \in RestoredUsers
  BY <1>1, <1>2 DEF RestoredUsers, Orphans, Covered, OwnedBy
<1>4. QED
  BY <1>3 DEF BootRecover

\* The allowlist a start infers: the owners of the clips it ends up with, and
\* only users with a row; everybody only when there is no row, and with clips
\* to restore only after a recovery that failed.
THEOREM AllowlistSurvives == Spec => AllowlistSurvivesMigration
<1> DEFINE LetsIn ==
      /\ \A v \in Custody \cap videos' : Owner[v] \in allowed'
      /\ \/ allowed' \subseteq users'
         \/ users' = {} /\ (videos = {} /\ Custody # {} => RecoveryMayFail)
<1>1. ASSUME IInv, Boot, Configured = {} PROVE LetsIn
  <2>1. allowed' = IF users' # {} THEN users' ELSE Users
    BY <1>1 DEF Boot, BootSkip, BootRecover, BootRecoverFail, Open, db
  <2>2. CASE BootRecover
    <3>1. \A v \in Custody : Owner[v] \in users'
      BY <1>1, <2>2, RecoveredOwners
    <3>2. QED
      BY <2>1, <3>1
  <2>3. CASE BootSkip
    <3>1. UNCHANGED <<users, videos>> /\ videos # {}
      BY <2>3 DEF BootSkip, db
    <3>2. \A v \in Custody \cap videos : Owner[v] \in users
      BY <1>1 DEF IInv, LinksSound
    <3>3. QED
      BY <2>1, <3>1, <3>2
  <2>4. CASE BootRecoverFail
    <3>1. UNCHANGED <<users, videos>> /\ videos = {} /\ RecoveryMayFail
      BY <2>4 DEF BootRecoverFail, db
    <3>2. QED
      BY <2>1, <3>1
  <2>5. QED
    BY <1>1, <2>2, <2>3, <2>4 DEF Boot
<1>2. IInv /\ [Next]_vars =>
        [phase = "down" /\ phase' = "up" /\ Configured = {} => LetsIn]_vars
  BY <1>1, UpMeansBoot
<1>3. QED
  BY <1>2, Invariance, PTL DEF Spec, AllowlistSurvivesMigration

-----------------------------------------------------------------------------
(* 4. The library keeps the promise of ClipCustody *)

Store == {v \in Videos : files[v] = "complete"}

\* An update changes the store only for a clip that is not in custody, or
\* releases a clip from custody.
LEMMA UpdatePromise ==
  ASSUME IInv, NEW t \in Tasks, Update(t)
  PROVE  Promise!CustodyNext \/ UNCHANGED Promise!custodyVars
<1>1. ASSUME NEW v \in Videos, UploadBegin(t, v)
      PROVE  UNCHANGED <<Custody, Store, videos>>
  BY <1>1 DEF IInv, TypeOK, UploadBegin, Fresh, Custody, Store, db, history
<1>2. ASSUME NEW u \in Users, NEW v \in Videos, DeleteClip(t, u, v)
      PROVE  /\ v \in videos /\ Custody' = Custody \ {v} /\ videos' = videos
             /\ Store' \in {Store, Store \ {v}}
  <2>1. v \in videos /\ Custody' = Custody \ {v} /\ videos' = videos
    BY <1>2 DEF DeleteClip, Custody, db
  <2>2. CASE UNCHANGED files
    BY <2>1, <2>2 DEF Store
  <2>3. CASE files' = [files EXCEPT ![v] = "absent"]
    <3>1. Store' = Store \ {v}
      BY <2>3 DEF IInv, TypeOK, Store
    <3>2. QED
      BY <2>1, <3>1
  <2>4. QED
    BY <1>2, <2>2, <2>3 DEF DeleteClip
<1>3. QED
  BY <1>1, <1>2 DEF Update, Promise!CustodyNext, Promise!Release,
                    Promise!custodyVars, Store

\* The other steps of an update: a file of a clip out of custody comes or
\* goes, a clip is taken, or the row of a released clip goes.
LEMMA TaskPromise ==
  ASSUME IInv, NEW t \in Tasks,
         UploadRecord(t) \/ IngestFail(t) \/ Abort(t) \/ CommitUpload(t) \/ CommitDelete(t)
  PROVE  Promise!CustodyNext \/ UNCHANGED Promise!custodyVars
<1> DEFINE v == clip[t]
<1>1. CASE UploadRecord(t) \/ IngestFail(t)
  <2>1. v \in Videos \ Custody /\ UNCHANGED <<Custody, videos>>
    BY <1>1 DEF IInv, AgentsSound, HistorySound, Custody, Uploading, UploadRecord,
                IngestFail, db, history
  <2>2. Store' = Store \cup {v} \/ Store' = Store \ {v}
    BY <1>1, <2>1 DEF IInv, TypeOK, Store, UploadRecord, IngestFail
  <2>3. QED
    BY <2>1, <2>2 DEF Promise!CustodyNext, Promise!Receive, Promise!Discard, Store
<1>2. CASE Abort(t)
  BY <1>2 DEF Abort, Promise!custodyVars, Custody, db, disk, history
<1>3. CASE CommitUpload(t)
  <2>1. v \in Videos /\ v \in Store \ Custody /\ v \notin asked
    BY <1>3 DEF IInv, AgentsSound, HistorySound, Uploading, CommitUpload, Store, Custody
  <2>2. Custody' = Custody \cup {v} /\ videos' = videos \cup {v} /\ Store' = Store
    BY <1>3, <2>1 DEF CommitUpload, Custody, Store, disk
  <2>3. QED
    BY <2>1, <2>2 DEF Promise!CustodyNext, Promise!Take, Store
<1>4. CASE CommitDelete(t)
  <2>1. v \in Videos /\ v \notin Custody
    BY <1>4 DEF IInv, TypeOK, AgentsSound, Custody, CommitDelete
  <2>2. Custody' = Custody /\ videos' = videos \ {v} /\ Store' = Store
    BY <1>4 DEF CommitDelete, Custody, Store, disk, history
  <2>3. QED
    BY <2>1, <2>2 DEF Promise!CustodyNext, Promise!Unlist, Store
<1>5. QED
  BY <1>1, <1>2, <1>3, <1>4

\* A start leaves the list alone or rebuilds it from nothing, with all of custody.
LEMMA BootPromise ==
  ASSUME IInv, IInv', Boot
  PROVE  Promise!CustodyNext \/ UNCHANGED Promise!custodyVars
<1>1. UNCHANGED <<Custody, Store>>
  BY DEF Boot, BootSkip, BootRecover, BootRecoverFail, Open, Custody, Store, disk
<1>2. CASE BootRecover
  <2>1. videos = {} /\ videos' \in SUBSET Videos /\ Custody \subseteq videos'
    BY <1>2, RecoveredCustody DEF BootRecover, IInv, TypeOK
  <2>2. QED
    BY <1>1, <2>1 DEF Promise!CustodyNext, Promise!Rebuild, Store
<1>3. CASE BootSkip \/ BootRecoverFail
  BY <1>1, <1>3 DEF BootSkip, BootRecoverFail, Promise!custodyVars, Store, db
<1>4. QED
  BY <1>2, <1>3 DEF Boot

\* Dumps, the sweep, the end of the process and a broken manifest do not show.
LEMMA SilentSteps ==
  ASSUME \/ \E a \in Agents : DumpStep(a)
         \/ Stop \/ Exit \/ Crash \/ (\E u \in Users : SweepNext(u) \/ SpoilManifest(u))
         \/ UNCHANGED vars
  PROVE  UNCHANGED Promise!custodyVars
<1>1. CASE \E a \in Agents : DumpStep(a)
  BY <1>1 DEF DumpStep, DumpReadTags, DumpReadVideos, DumpWrite, DumpFail, Custody,
              Promise!custodyVars, db, disk, history
<1>2. CASE Stop \/ Exit \/ Crash
  BY <1>2 DEF Stop, Exit, Crash, ProcessEnds, Custody, Promise!custodyVars,
              db, disk, history
<1>3. CASE \E u \in Users : SweepNext(u) \/ SpoilManifest(u)
  BY <1>3 DEF SweepNext, SpoilManifest, Custody, Promise!custodyVars, db, disk, history
<1>4. CASE UNCHANGED vars
  BY <1>4 DEF vars, Custody, Promise!custodyVars, db, disk, history
<1>5. QED
  BY <1>1, <1>2, <1>3, <1>4

\* The library implements ClipCustody: every step, in any interleaving and
\* under any fault, is a step of the promise or leaves it alone.
THEOREM LibraryKeepsPromise == Spec => KeepsPromise
<1>1. Init => Promise!CustodyInit
  BY DEF Init, Promise!CustodyInit, Custody
<1>2. ASSUME IInv, IInv', [Next]_vars
      PROVE  Promise!CustodyNext \/ UNCHANGED Promise!custodyVars
  <2>1. CASE \E t \in Tasks : Update(t)
    BY <1>2, <2>1, UpdatePromise
  <2>2. CASE \E t \in Tasks : TaskStep(t)
    BY <1>2, <2>2, TaskPromise, SilentSteps DEF TaskStep, Agents
  <2>3. CASE SweepStep
    BY <2>3, SilentSteps DEF SweepStep, Agents
  <2>4. CASE Wipe
    BY <2>4 DEF Wipe, Promise!CustodyNext, Promise!LoseList, Custody, disk, history
  <2>5. CASE Boot
    BY <1>2, <2>5, BootPromise
  <2>6. CASE Stop \/ Crash \/ (\E u \in Users : SpoilManifest(u)) \/ UNCHANGED vars
    BY <2>6, SilentSteps
  <2>7. QED
    BY <1>2, <2>1, <2>2, <2>3, <2>4, <2>5, <2>6 DEF Next
<1>3. IInv /\ IInv' /\ [Next]_vars => [Promise!CustodyNext]_(Promise!custodyVars)
  BY <1>2
<1>4. QED
  BY <1>1, <1>3, Invariance, PTL DEF Spec, KeepsPromise, Promise!CustodySpec
=============================================================================
