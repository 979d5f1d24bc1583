------------------------------ MODULE Library ------------------------------
(***************************************************************************)
(* The clip library of the bot: the rows Postgres holds, the files and the *)
(* per-user manifest.json under the media root, the Telegram updates that  *)
(* change them (an upload, a confirmed delete), the manifest dump that     *)
(* follows each commit, and the life of the process around them (recovery  *)
(* on start, the manifest sweep on shutdown, crashes and lost databases).  *)
(*                                                                         *)
(* aiogram runs every update as a task of its own (Tasks), so the steps of *)
(* several updates interleave at each await.  Each task has one database   *)
(* transaction: its writes are invisible until the middleware commits.     *)
(*                                                                         *)
(* An operator called X_Slip is not part of the specification: it is X     *)
(* with a plausible mistake, kept to test that a property would notice.    *)
(***************************************************************************)
CONSTANTS
    Users,        \* Telegram users who may talk to the bot
    Videos,       \* clips, each named by the UUID its upload will draw
    TagNames,     \* hashtags
    Owner,        \* Owner[v]: the sender of the message that carries v
    TagsOf,       \* TagsOf[v]: the hashtags of its caption
    Tasks,        \* updates that can be in flight at the same time
    Sweeper,      \* the main coroutine, in the `finally` of _run
    NoUser, NoVideo,
    Configured,   \* ALLOWED_TELEGRAM_IDS; {} when it is not set
    Faults        \* which of FaultKinds may happen

FaultKinds == {"fetch",       \* a download or the row's INSERT raises
               "unlink",      \* removing a file from disk raises
               "abort",       \* the reply or the COMMIT raises
               "dump",        \* a manifest dump raises
               "crash",       \* the process is killed
               "wipe",        \* the database is lost, the media survives
               "unreadable",  \* a manifest does not parse or has another schema
               "recovery"}    \* a start's recovery raises on a disk it could read

ASSUME OwnerAssumption  == Owner \in [Videos -> Users]
ASSUME TagsAssumption   == TagsOf \in [Videos -> (SUBSET TagNames) \ {{}}]
ASSUME AgentAssumption  == Sweeper \notin Tasks
ASSUME NoneAssumption   == NoUser \notin Users /\ NoVideo \notin Videos
ASSUME AccessAssumption == Configured \subseteq Users
ASSUME FaultAssumption  == Faults \subseteq FaultKinds

VARIABLES
    \* Postgres, committed state
    users,      \* rows of `users`
    named,      \* those whose row has the profile (username, first_name)
    tags,       \* tags[u]: rows of `tags` of user u
    videos,     \* rows of `videos`
    linked,     \* those with their `video_tags` rows
    \* the media root
    files,      \* files[v]: the .mp4 under the storage key of v
    manifest,   \* manifest[u]: <u>/manifest.json
    \* the process
    phase, allowed, pending,
    pc, actor, clip, snap,
    \* history, read by properties only
    saved,      \* clips whose upload committed
    asked,      \* clips whose owner confirmed their deletion
    known       \* clips that have had a committed row

db      == <<users, named, tags, videos, linked>>
disk    == <<files, manifest>>
agents  == <<pc, actor, clip, snap>>
history == <<saved, asked, known>>
vars    == <<db, disk, phase, allowed, pending, agents, history>>

Agents == Tasks \cup {Sweeper}

NoSnap     == [named |-> FALSE, tags |-> {}, videos |-> {}]
NoManifest == [form |-> "none", named |-> FALSE, tags |-> {}, videos |-> {},
               linked |-> {}]
Snaps      == [named : BOOLEAN, tags : SUBSET TagNames, videos : SUBSET Videos]
Manifests  == [form : {"none", "good", "unreadable"}, named : BOOLEAN,
               tags : SUBSET TagNames, videos : SUBSET Videos,
               linked : SUBSET Videos]

OwnedBy(u) == {v \in Videos : Owner[v] = u}

(***************************************************************************)
(* Row locks.  The upsert of UserRepo is an ON CONFLICT DO UPDATE: it      *)
(* holds the row of the uploader until its transaction ends.  The DELETE   *)
(* of VideoRepo.delete_for_user holds the row of the clip.                 *)
(***************************************************************************)
Uploading(a)  == pc[a] \in {"fetching", "uploaded"}
UserLocked(u) == \E t \in Tasks : Uploading(t) /\ actor[t] = u
RowLocked(v)  == \E t \in Tasks : pc[t] = "deleted" /\ clip[t] = v

InFlight == {clip[t] : t \in {s \in Tasks : Uploading(s)}}

\* A UUID that no upload has drawn.  (A file left by an earlier upload, an
\* upload in flight and a row that has existed show that it was drawn.)
Fresh(v) == files[v] = "absent" /\ v \notin known /\ v \notin InFlight

Init ==
    /\ users = {} /\ named = {} /\ videos = {} /\ linked = {}
    /\ tags = [u \in Users |-> {}]
    /\ files = [v \in Videos |-> "absent"]
    /\ manifest = [u \in Users |-> NoManifest]
    /\ phase = "down" /\ allowed = {} /\ pending = {}
    /\ pc = [a \in Agents |-> "idle"]
    /\ actor = [a \in Agents |-> NoUser]
    /\ clip = [a \in Agents |-> NoVideo]
    /\ snap = [a \in Agents |-> NoSnap]
    /\ saved = {} /\ asked = {} /\ known = {}

-----------------------------------------------------------------------------
(* Tasks: what an update does, and how it ends *)

Settle(a, at) ==
    /\ pc' = [pc EXCEPT ![a] = at]
    /\ actor' = [actor EXCEPT ![a] = NoUser]
    /\ clip' = [clip EXCEPT ![a] = NoVideo]
    /\ snap' = [snap EXCEPT ![a] = NoSnap]

\* on_video -> ingest_video: the upserts of user and tags inside the
\* transaction, a fresh UUID, then the download starts writing the file at
\* its final path.  A sender off the allowlist never gets here.
UploadBegin(t, v) ==
    /\ phase = "up" /\ pc[t] = "idle"
    /\ Owner[v] \in allowed /\ ~UserLocked(Owner[v])
    /\ Fresh(v)
    /\ files' = [files EXCEPT ![v] = "partial"]
    /\ pc' = [pc EXCEPT ![t] = "fetching"]
    /\ actor' = [actor EXCEPT ![t] = Owner[v]]
    /\ clip' = [clip EXCEPT ![t] = v]
    /\ UNCHANGED <<db, manifest, phase, allowed, pending, snap, history>>

UploadRecord_Slip(t) ==          \* the download is not awaited
    /\ pc[t] = "fetching"
    /\ pc' = [pc EXCEPT ![t] = "uploaded"]
    /\ UNCHANGED <<db, disk, phase, allowed, pending, actor, clip, snap, history>>

\* The download ends and the row and its links are flushed, uncommitted; the
\* user is marked dirty and the handler goes on to reply.
UploadRecord(t) ==
    /\ pc[t] = "fetching"
    /\ files' = [files EXCEPT ![clip[t]] = "complete"]
    /\ pc' = [pc EXCEPT ![t] = "uploaded"]
    /\ UNCHANGED <<db, manifest, phase, allowed, pending, actor, clip, snap, history>>

\* `except Exception` of ingest_video: storage.delete, raise, rollback.  The
\* file goes unless the removal raises too; it may be there in full, since
\* the INSERT after the download is inside the same try.
IngestFail(t) ==
    /\ "fetch" \in Faults
    /\ pc[t] = "fetching"
    /\ \/ files' = [files EXCEPT ![clip[t]] = "absent"]
       \/ /\ "unlink" \in Faults
          /\ \E left \in {"partial", "complete"} :
                files' = [files EXCEPT ![clip[t]] = left]
    /\ Settle(t, "idle")
    /\ UNCHANGED <<db, manifest, phase, allowed, pending, history>>

DeleteClip_Slip(t, u, v) ==      \* the WHERE clause forgets the user
    /\ phase = "up" /\ pc[t] = "idle"
    /\ u \in allowed /\ v \in videos /\ ~RowLocked(v)
    /\ files' = [files EXCEPT ![v] = "absent"]
    /\ asked' = asked \cup {v}
    /\ pc' = [pc EXCEPT ![t] = "deleted"]
    /\ actor' = [actor EXCEPT ![t] = u]
    /\ clip' = [clip EXCEPT ![t] = v]
    /\ UNCHANGED <<db, manifest, phase, allowed, pending, snap, saved, known>>

\* on_confirm -> delete_video: the DELETE inside the transaction and, with no
\* suspension in between, the removal of the file, whose failure is swallowed.
\* A clip of somebody else, or one that has no row, is answered "already gone".
DeleteClip(t, u, v) ==
    /\ phase = "up" /\ pc[t] = "idle"
    /\ u \in allowed
    /\ v \in videos /\ Owner[v] = u /\ ~RowLocked(v)
    /\ \/ files' = [files EXCEPT ![v] = "absent"]
       \/ "unlink" \in Faults /\ UNCHANGED files
    /\ asked' = asked \cup {v}
    /\ pc' = [pc EXCEPT ![t] = "deleted"]
    /\ actor' = [actor EXCEPT ![t] = u]
    /\ clip' = [clip EXCEPT ![t] = v]
    /\ UNCHANGED <<db, manifest, phase, allowed, pending, snap, saved, known>>

\* DependenciesMiddleware: the handler (its last part is a reply or an edit)
\* or the COMMIT raises; the transaction is rolled back, nothing is dumped.
Abort(t) ==
    /\ "abort" \in Faults
    /\ pc[t] \in {"uploaded", "deleted"}
    /\ Settle(t, "idle")
    /\ UNCHANGED <<db, disk, phase, allowed, pending, history>>

CommitUpload_Slip(t) ==          \* the row is created without its links
    /\ pc[t] = "uploaded"
    /\ users' = users \cup {actor[t]} /\ named' = named \cup {actor[t]}
    /\ tags' = [tags EXCEPT ![actor[t]] = @ \cup TagsOf[clip[t]]]
    /\ videos' = videos \cup {clip[t]}
    /\ saved' = saved \cup {clip[t]} /\ known' = known \cup {clip[t]}
    /\ pc' = [pc EXCEPT ![t] = "dump"]
    /\ clip' = [clip EXCEPT ![t] = NoVideo]
    /\ UNCHANGED <<linked, disk, phase, allowed, pending, actor, snap, asked>>

\* DependenciesMiddleware: session.commit() of an upload.
CommitUpload(t) ==
    /\ pc[t] = "uploaded"
    /\ LET v == clip[t]
           u == actor[t]
       IN  /\ users' = users \cup {u}
           /\ named' = named \cup {u}
           /\ tags' = [tags EXCEPT ![u] = @ \cup TagsOf[v]]
           /\ videos' = videos \cup {v}
           /\ linked' = linked \cup {v}
           /\ saved' = saved \cup {v}
           /\ known' = known \cup {v}
    /\ pc' = [pc EXCEPT ![t] = "dump"]
    /\ clip' = [clip EXCEPT ![t] = NoVideo]
    /\ UNCHANGED <<disk, phase, allowed, pending, actor, snap, asked>>

CommitDelete_Slip(t) ==          \* no ON DELETE CASCADE
    /\ pc[t] = "deleted"
    /\ videos' = videos \ {clip[t]}
    /\ pc' = [pc EXCEPT ![t] = "dump"]
    /\ clip' = [clip EXCEPT ![t] = NoVideo]
    /\ UNCHANGED <<users, named, tags, linked, disk, phase, allowed, pending, actor,
                   snap, history>>

\* ... and of a delete; the links go by ON DELETE CASCADE, the tags stay.
CommitDelete(t) ==
    /\ pc[t] = "deleted"
    /\ videos' = videos \ {clip[t]}
    /\ linked' = linked \ {clip[t]}
    /\ pc' = [pc EXCEPT ![t] = "dump"]
    /\ clip' = [clip EXCEPT ![t] = NoVideo]
    /\ UNCHANGED <<users, named, tags, disk, phase, allowed, pending, actor, snap, history>>

-----------------------------------------------------------------------------
(* dump_user_manifest: three awaited reads, then an atomic replace.  Every *)
(* read sees what is committed at that moment.  The next read is for rows  *)
(* of videos, the last one for links, and the write follows it without a   *)
(* suspension.  An update dumps for its actor, the sweep for each user.    *)

\* Where an agent goes when its dump is over.
AfterDump(a) == IF a = Sweeper THEN "sweep" ELSE "idle"

DumpReadTags(a) ==
    /\ pc[a] = "dump"
    /\ snap' = [snap EXCEPT ![a] = [named  |-> actor[a] \in named,
                                    tags   |-> tags[actor[a]],
                                    videos |-> {}]]
    /\ pc' = [pc EXCEPT ![a] = "dumpVideos"]
    /\ UNCHANGED <<db, disk, phase, allowed, pending, actor, clip, history>>

DumpReadVideos_Slip(a) ==        \* through a session that sees flushed rows
    /\ pc[a] = "dumpVideos"
    /\ snap' = [snap EXCEPT ![a].videos = (videos \cup InFlight) \cap OwnedBy(actor[a])]
    /\ pc' = [pc EXCEPT ![a] = "dumpLinks"]
    /\ UNCHANGED <<db, disk, phase, allowed, pending, actor, clip, history>>

DumpReadVideos_Slip2(a) ==       \* the WHERE clause forgets the user
    /\ pc[a] = "dumpVideos"
    /\ snap' = [snap EXCEPT ![a].videos = videos]
    /\ pc' = [pc EXCEPT ![a] = "dumpLinks"]
    /\ UNCHANGED <<db, disk, phase, allowed, pending, actor, clip, history>>

DumpReadVideos(a) ==
    /\ pc[a] = "dumpVideos"
    /\ snap' = [snap EXCEPT ![a].videos = videos \cap OwnedBy(actor[a])]
    /\ pc' = [pc EXCEPT ![a] = "dumpLinks"]
    /\ UNCHANGED <<db, disk, phase, allowed, pending, actor, clip, history>>

DumpWrite(a) ==
    /\ pc[a] = "dumpLinks"
    /\ manifest' = [manifest EXCEPT ![actor[a]] =
                      [form   |-> "good",
                       named  |-> snap[a].named,
                       tags   |-> snap[a].tags,
                       videos |-> snap[a].videos,
                       linked |-> snap[a].videos \cap linked]]
    /\ Settle(a, AfterDump(a))
    /\ UNCHANGED <<db, files, phase, allowed, pending, history>>

\* A dump that raises is logged and dropped.  The sweep uses one session for
\* all users: a database error makes every later dump of the sweep fail too.
DumpFail(a) ==
    /\ "dump" \in Faults
    /\ pc[a] \in {"dump", "dumpVideos", "dumpLinks"}
    /\ pending' \in IF a = Sweeper THEN {pending, {}} ELSE {pending}
    /\ Settle(a, AfterDump(a))
    /\ UNCHANGED <<db, disk, phase, allowed, history>>

-----------------------------------------------------------------------------
(* The process: start, stop, and what can happen to it *)

\* A signal: polling stops, no update starts any more, those in flight go on
\* while the `finally` of _run lists the users and dumps them one by one.
Stop ==
    /\ phase = "up"
    /\ phase' = "stopping"
    /\ pending' = users
    /\ pc' = [pc EXCEPT ![Sweeper] = "sweep"]
    /\ UNCHANGED <<db, disk, allowed, actor, clip, snap, history>>

SweepNext(u) ==
    /\ pc[Sweeper] = "sweep" /\ u \in pending
    /\ pending' = pending \ {u}
    /\ pc' = [pc EXCEPT ![Sweeper] = "dump"]
    /\ actor' = [actor EXCEPT ![Sweeper] = u]
    /\ UNCHANGED <<db, disk, phase, allowed, clip, snap, history>>

\* All tasks end without running their `except Exception` clauses: by
\* CancelledError, which is not an Exception, or with the process.
ProcessEnds ==
    /\ phase' = "down" /\ pending' = {} /\ allowed' = {}
    /\ pc' = [a \in Agents |-> "idle"]
    /\ actor' = [a \in Agents |-> NoUser]
    /\ clip' = [a \in Agents |-> NoVideo]
    /\ snap' = [a \in Agents |-> NoSnap]
    /\ UNCHANGED <<db, disk, history>>

Exit_Slip == pc[Sweeper] = "sweep" /\ ProcessEnds    \* the sweep is not awaited
Exit  == pc[Sweeper] = "sweep" /\ pending = {} /\ ProcessEnds
Crash == "crash" \in Faults /\ phase # "down" /\ ProcessEnds

\* The database is lost while the bot is down (a new host, `down -v`).
Wipe ==
    /\ "wipe" \in Faults /\ phase = "down" /\ users # {}
    /\ users' = {} /\ named' = {} /\ videos' = {} /\ linked' = {}
    /\ tags' = [u \in Users |-> {}]
    /\ UNCHANGED <<disk, phase, allowed, pending, agents, history>>

\* Between two runs a manifest becomes one this build refuses to read: broken
\* JSON, or a schema_version other than its own.
SpoilManifest(u) ==
    /\ "unreadable" \in Faults /\ phase = "down"
    /\ manifest[u].form = "good"
    /\ manifest' = [manifest EXCEPT ![u] = [NoManifest EXCEPT !.form = "unreadable"]]
    /\ UNCHANGED <<db, files, phase, allowed, pending, agents, history>>

-----------------------------------------------------------------------------
(* recover_from_storage and resolve_allowed_ids *)

Covered(u) == manifest[u].videos
Orphans(u) == {v \in OwnedBy(u) : files[v] # "absent" /\ v \notin Covered(u)}

\* _restore_user, for the directory of user u: the manifest first, then the
\* files it does not list, one by one.
RestoredUsers     == {u \in Users : manifest[u].form = "good" \/ Orphans(u) # {}}
RestoredVideos_Slip(u) ==        \* files are walked only without a manifest
    IF manifest[u].form = "good" THEN manifest[u].videos ELSE Orphans(u)
RestoredVideos(u) == manifest[u].videos \cup Orphans(u)
RestoredLinks(u)  == manifest[u].linked \cup Orphans(u)
RestoredTags_Slip(u) ==          \* only the top-level tags of the manifest
    manifest[u].tags \cup UNION {TagsOf[v] : v \in Orphans(u)}
RestoredTags(u)   == manifest[u].tags \cup UNION {TagsOf[v] : v \in RestoredLinks(u)}
\* The upsert for each orphan passes username=None, first_name=None.
RestoredProfile(u) == manifest[u].named /\ Orphans(u) = {}

\* What makes _restore_user raise: json or schema errors, and a probe that
\* cannot make sense of half a file.
Unreadable   == \E u \in Users : manifest[u].form = "unreadable"
HalfFiles    == \E u \in Users : \E v \in Orphans(u) : files[v] = "partial"
DiskReadable == ~Unreadable /\ ~HalfFiles

\* resolve_allowed_ids, after recovery; Users when the bot stays open to all.
Open(known_users) ==
    /\ phase' = "up"
    /\ allowed' = IF Configured # {} THEN Configured
                  ELSE IF known_users # {} THEN known_users ELSE Users
    /\ UNCHANGED <<disk, pending, agents, saved, asked>>

BootSkip ==
    /\ phase = "down" /\ videos # {}
    /\ Open(users)
    /\ UNCHANGED <<db, known>>

BootRecover_Slip ==              \* the allowlist is resolved before recovery
    /\ phase = "down" /\ videos = {} /\ ~Unreadable
    /\ users' = users \cup RestoredUsers /\ named' = named
    /\ tags' = [u \in Users |-> tags[u] \cup RestoredTags(u)]
    /\ videos' = UNION {RestoredVideos(u) : u \in Users}
    /\ linked' = UNION {RestoredLinks(u) : u \in Users}
    /\ known' = known \cup videos'
    /\ Open(users)

\* ffprobe may accept half a file (its moov atom came first): the outcome with
\* HalfFiles is either of the next two.
BootRecover ==
    /\ phase = "down" /\ videos = {}
    /\ ~Unreadable
    /\ users' = users \cup RestoredUsers
    /\ named' = {u \in users' : IF u \in RestoredUsers THEN RestoredProfile(u)
                                                       ELSE u \in named}
    /\ tags' = [u \in Users |-> tags[u] \cup RestoredTags(u)]
    /\ videos' = UNION {RestoredVideos(u) : u \in Users}
    /\ linked' = UNION {RestoredLinks(u) : u \in Users}
    /\ known' = known \cup videos'
    /\ Open(users')

\* A recovery can raise on what it finds on disk, and also on the database
\* (a query, the COMMIT), on ffprobe or on the reading of a whole file.
RecoveryMayFail == ~DiskReadable \/ "recovery" \in Faults

BootRecoverFail_Slip ==          \* one transaction per user
    /\ phase = "down" /\ videos = {} /\ RecoveryMayFail
    /\ LET whole == {u \in RestoredUsers : manifest[u].form # "unreadable"}
       IN  /\ users' = users \cup whole
           /\ tags' = [u \in Users |-> IF u \in whole THEN tags[u] \cup RestoredTags(u)
                                                      ELSE tags[u]]
           /\ videos' = UNION {RestoredVideos(u) : u \in whole}
           /\ linked' = UNION {RestoredLinks(u) : u \in whole}
    /\ known' = known \cup videos'
    /\ UNCHANGED named
    /\ Open(users')

\* `except Exception` of _run, whatever recovery raised: the single transaction
\* is rolled back and the start carries on.  (An answer to the COMMIT that is
\* lost, and a log file that cannot be written after it, leave what
\* BootRecover leaves; a first query that raises on a table with rows, what
\* BootSkip leaves.)
BootRecoverFail ==
    /\ phase = "down" /\ videos = {}
    /\ RecoveryMayFail
    /\ Open(users)
    /\ UNCHANGED <<db, known>>

Boot == BootSkip \/ BootRecover \/ BootRecoverFail

-----------------------------------------------------------------------------
DumpStep(a) == DumpReadTags(a) \/ DumpReadVideos(a) \/ DumpWrite(a) \/ DumpFail(a)

TaskStep(t) ==
    \/ UploadRecord(t) \/ IngestFail(t)
    \/ Abort(t) \/ CommitUpload(t) \/ CommitDelete(t)
    \/ DumpStep(t)

SweepStep == DumpStep(Sweeper) \/ Exit \/ \E u \in Users : SweepNext(u)

Update(t) == \/ \E v \in Videos : UploadBegin(t, v)
             \/ \E u \in Users, v \in Videos : DeleteClip(t, u, v)

Next ==
    \/ \E t \in Tasks : Update(t) \/ TaskStep(t)
    \/ Stop \/ SweepStep \/ Crash \/ Wipe \/ Boot
    \/ \E u \in Users : SpoilManifest(u)

Spec == Init /\ [][Next]_vars

\* The event loop runs every task that is ready, and the main coroutine; both
\* go on as long as the process lives.
FairSpec == Spec /\ WF_vars(SweepStep) /\ \A t \in Tasks : WF_vars(TaskStep(t))
-----------------------------------------------------------------------------
(* Properties *)

\* Every variable stays in its domain.
TypeOK ==
    /\ users \subseteq Users /\ named \subseteq users
    /\ tags \in [Users -> SUBSET TagNames]
    /\ videos \subseteq Videos /\ linked \subseteq videos
    /\ files \in [Videos -> {"absent", "partial", "complete"}]
    /\ manifest \in [Users -> Manifests]
    /\ phase \in {"down", "up", "stopping"}
    /\ allowed \subseteq Users /\ pending \subseteq Users
    /\ pc \in [Agents -> {"idle", "fetching", "uploaded", "deleted", "dump",
                          "dumpVideos", "dumpLinks", "sweep"}]
    /\ actor \in [Agents -> Users \cup {NoUser}]
    /\ clip \in [Agents -> Videos \cup {NoVideo}]
    /\ snap \in [Agents -> Snaps]
    /\ saved \subseteq Videos /\ asked \subseteq Videos /\ known \subseteq Videos

\* What the bot owes its users: the clips it saved and was not told to delete.
Custody == saved \ asked

\* The bytes of a clip in custody are on disk, whatever fails: no cleanup of a
\* failed upload, no cancelled task, no delete of another clip or by another
\* user, and no restart removes or truncates them (ingest_video, delete_video).
CustodyKept == \A v \in Custody : files[v] = "complete"

\* A clip in custody that has a row can be reached by every hashtag it was
\* sent with, although links pass through manifests that are written from
\* three separate reads and are restored by name (dump_user_manifest,
\* _restore_from_manifest, _restore_orphan_video).
CustodyReachable ==
    \A v \in Custody \cap videos :
        v \in linked /\ Owner[v] \in users /\ TagsOf[v] \subseteq tags[Owner[v]]

\* A manifest never lists a clip that never had a committed row, nor a clip
\* of another user: dumps read committed rows through a session of their own
\* (DependenciesMiddleware).
ManifestNeverPhantom ==
    \A u \in Users : manifest[u].videos \subseteq known \cap OwnedBy(u)

\* A row goes away only with the commit of a delete its own owner confirmed,
\* or with the whole database: no rollback, restart, failed recovery or
\* shutdown drops one.
RowsLeaveOnlyByOwner ==
    [][\A v \in videos \ videos' :
          \/ videos' = {} /\ users' = {}
          \/ \E t \in Tasks : pc[t] = "deleted" /\ clip[t] = v
                              /\ actor[t] = Owner[v] /\ v \in asked]_vars

\* Recovery is all or nothing.  A start on an empty `videos` table brings back
\* every clip in custody, from whatever mix of fresh, stale and missing
\* manifests and half files the faults before it have left, or, when recovery
\* may fail, leaves the database exactly as it found it: no user is restored
\* and another one not (recover_from_storage).
RecoveryIsComplete ==
    [][phase = "down" /\ phase' = "up" /\ videos = {}
          => \/ Custody \subseteq videos'
             \/ RecoveryMayFail /\ UNCHANGED db]_vars

\* With no ALLOWED_TELEGRAM_IDS, a start lets in the owner of every clip in
\* custody that it ends up with, also right after the database was lost.  It
\* lets in nobody without a row, unless there is no row at all; and with clips
\* in custody to restore it comes to that only when recovery fails: the
\* allowlist is resolved after recovery (_run, resolve_allowed_ids).
AllowlistSurvivesMigration ==
    [][phase = "down" /\ phase' = "up" /\ Configured = {}
          => /\ \A v \in Custody \cap videos' : Owner[v] \in allowed'
             /\ \/ allowed' \subseteq users'
                \/ /\ users' = {}
                   /\ videos = {} /\ Custody # {} => RecoveryMayFail]_vars

\* What a manifest would say if it were written now in one step.
CommittedView(u) ==
    [form   |-> "good",
     named  |-> u \in named,
     tags   |-> tags[u],
     videos |-> videos \cap OwnedBy(u),
     linked |-> linked \cap OwnedBy(u)]

\* The dump that ends the last update in flight leaves a manifest equal to the
\* committed rows of the user (DependenciesMiddleware: "so the manifest
\* reflects the just-committed state").  True as long as updates come one at a
\* time; with two in flight, an old read can be written last.
DumpIsCurrent ==
    [][phase = "up" /\ (\A t \in Tasks : pc'[t] = "idle") =>
         \A u \in Users : manifest'[u] # manifest[u]
                             => manifest'[u] = CommittedView(u)]_vars

\* A shutdown that finds no update in flight ends with every manifest equal
\* to the rows, however stale or broken the manifests were before: the sweep
\* of _run visits every user.  (No fault happens during the sweep.)
QuietShutdownRepairs ==
    (phase = "stopping" /\ pending = users /\ \A t \in Tasks : pc[t] = "idle")
       ~> (phase = "down" /\ \A u \in users : manifest[u] = CommittedView(u))

\* The abstract promise, with the library's state seen through it.
Promise == INSTANCE ClipCustody WITH
    Clips   <- Videos,
    custody <- Custody,
    store   <- {v \in Videos : files[v] = "complete"},
    list    <- videos

\* Every step of the library, under every fault, is a step of ClipCustody or
\* leaves it alone: custody starts with the bytes and the row together, ends
\* with the owner, and recovery rebuilds the whole list or none of it.  The
\* one exception the code has is a half file that ffprobe accepts: it adds a
\* row to the list, never to custody.
KeepsPromise == Promise!CustodySpec

(* Why the safety properties hold: the inductive invariant *)

Dumping(a) == pc[a] \in {"dump", "dumpVideos", "dumpLinks"}

\* An update works on a clip of its own: an upload on one that no row or other
\* upload knows, a delete on one whose owner asked for it.  Dumps are for users.
AgentsSound ==
    /\ \A t \in Tasks :
         /\ Uploading(t) => /\ clip[t] \in Videos \ known
                            /\ actor[t] = Owner[clip[t]]
         /\ pc[t] = "uploaded" => files[clip[t]] = "complete"
         /\ pc[t] = "deleted" => clip[t] \in asked /\ actor[t] = Owner[clip[t]]
         /\ pc[t] # "sweep"
    /\ \A s, t \in Tasks : Uploading(s) /\ Uploading(t) /\ clip[s] = clip[t] => s = t
    /\ \A a \in Agents : Dumping(a) => actor[a] \in Users
    /\ ~Uploading(Sweeper) /\ pc[Sweeper] # "deleted"
    /\ phase = "down" => \A a \in Agents : pc[a] = "idle"

\* What has a row, is saved or is to be deleted has had a committed row.
HistorySound == videos \subseteq known /\ saved \subseteq known /\ asked \subseteq known

\* Rows, snapshots and manifests agree on whose a clip is, and none of them
\* has a clip in custody without its links.
LinksSound ==
    /\ \A v \in linked : Owner[v] \in users /\ TagsOf[v] \subseteq tags[Owner[v]]
    /\ Custody \cap videos \subseteq linked
    /\ \A a \in Agents : pc[a] = "dumpLinks" =>
          /\ snap[a].videos \subseteq known \cap OwnedBy(actor[a])
          /\ snap[a].videos \cap Custody \subseteq linked
    /\ \A u \in Users :
          /\ manifest[u].linked \subseteq manifest[u].videos
          /\ manifest[u].videos \cap Custody \subseteq manifest[u].linked
          /\ manifest[u].form # "good" => manifest[u].videos = {}

IInv == TypeOK /\ AgentsSound /\ HistorySound /\ CustodyKept
        /\ ManifestNeverPhantom /\ LinksSound

(* Statements of the documentation that the code does not keep *)

\* "The DB row is gone (and will be committed by the middleware)"
\* (delete_video.py): the row of a saved clip has its file, except while a
\* delete of it is in flight.
RowsHaveFiles ==
    \A v \in videos \cap saved : files[v] # "absent" \/ RowLocked(v)

\* "even a missing/corrupt manifest still recovers tags + video links from the
\* on-disk filenames" (README.md): a start on an empty table brings back the
\* clips in custody whatever the manifests are.
CorruptManifestTolerated ==
    [][phase = "down" /\ phase' = "up" /\ videos = {} /\ ~HalfFiles
          => Custody \subseteq videos']_vars

\* "If anything fails, rollback leaves the DB clean so the next startup retries
\* from scratch" (recover_from_storage): once the disk is readable a start ends
\* with every clip in custody in the library, also when an earlier one failed.
NextStartupRetries ==
    [][phase = "down" /\ phase' = "up" /\ DiskReadable => Custody \subseteq videos']_vars
=============================================================================
