# A formal model of progress_tracker

progress_tracker is a Telegram bot (Python, aiogram, SQLAlchemy on Postgres).
A user sends short training clips with hashtags in the caption; the bot keeps
the files, lists them, deletes them on request and compiles "progress reels".
This directory holds TLA+ models of it, TLC configurations that check them on
small instances, and TLAPS proofs about all of them. All paths below are
relative to `src/src/progress_tracker/` unless they start with `src/`.

Run in this directory:

    tlc -config MCLibrary.cfg MCLibrary      # one run; see "Runs"
    tlapm LibraryProofs.tla                  # the proofs of one module

## 1. Inventory

| component | state it keeps | operations | talks to | module |
|---|---|---|---|---|
| Upload: `handlers/video_upload.py`, `services/ingest.py` | none of its own | `on_video`, `ingest_video` | repositories, storage, fetcher | `Library` |
| Delete: `services/delete_video.py` | none | `delete_video` | repositories, storage | `Library` |
| Unit of work: `middlewares/db.py` | one session and transaction per update | commit, rollback, dump after the commit | every handler | `Library`, `Connections` |
| Manifests and recovery: `services/persistence.py` | `<user>/manifest.json`, the file names | `dump_user_manifest`, `recover_from_storage` | repositories, storage, ffprobe | `Library`, `Names` |
| Life cycle: `__main__.py` | the running process | start, stop, shutdown sweep | all of the above | `Library`, `Reel` |
| Repositories and schema: `db/` | users, tags, videos, video_tags, compilations; row locks; the pool | upserts, inserts, deletes, queries | Postgres | `Library`, `Reel`, `Connections` |
| Access: `middlewares/auth.py` | the allowlist, fixed at start | admit or refuse an update | users table | `Library` |
| Local storage: `storage/` | the media tree | write_path, open, delete | disk | `Library`, `Reel` |
| Compile dialog: `handlers/compile_flow.py` | FSM state and data of a user, keyboards in the chat | one handler per command and tap; the background task | Telegram, repositories | `Dialog`, `Reel` |
| Delete dialog: `handlers/delete_flow.py` | the same FSM; one message per listed clip | one handler per command and tap | Telegram, Delete | `Dialog`, `Listing` |
| Compile pipeline: `services/compiler.py`, `video/compile.py` | a task, a temporary directory, a `.mov` and its row | query, probe, ffmpeg, record, send | repositories, storage, Telegram | `Reel`, `FilterGraph` |
| Clip selection: `video/select.py` | none | `select_clips` | compile pipeline | `Selection` |
| Fetchers and paths: `bot_api/` | none of the bot's | fetch, path checks | bot-api server | `Paths`, `Library` |
| Hashtags and storage keys: `utils/hashtags.py`, `persistence.py:77-117` | none | parse, build, parse back | upload, recovery | `Names` |
| Wiring, logging, `/start`, settings, migrations, Docker files | none that changes | | | |

What makes this system hard:

- aiogram runs each update as a task of its own, so two uploads, an upload and
  a delete, or two taps on one button interleave at every `await`.
- Two stores have to agree, Postgres and the disk, and no transaction spans
  them. Files are written at their final path before the row exists and removed
  before the DELETE is committed. The chat is a third store: messages say
  "Saved", "Deleted" or "Done" before or after the COMMIT they speak of.
- Manifests are written from several reads, after the commit, by updates that
  do not wait for each other, and by the shutdown sweep.
- Recovery runs only when `videos` is empty, in one transaction for all users,
  and is allowed to fail.
- The compile task belongs to no update and nobody awaits it; clips are deleted
  under it and the process ends under it.
- Tasks in flight are cancelled at exit by `CancelledError`, which
  `except Exception` does not catch.
- An upload keeps the row of its user, and a pooled connection, during its
  whole download.
- `/compile` and `/delete` share FSM data, old keyboards stay tappable, and a
  handler that raises half-way leaves the FSM where it was.

The list of hazards, each at its line, is in `PROJECT.json`.

What makes each component correct: *upload and delete* never destroy a clip the
bot owes its owner; *rows* leave only through their owner; *manifests* list
committed clips of their user and, when nothing interleaves, all of them;
*recovery* brings back every clip owed, with its tags, or changes nothing; *the
allowlist* after a migration is the people with rows; *the shutdown* repairs
stale manifests; *the dialog* compiles what it said it would, and never reads a
key that is not there; *the listing* says of a clip what became of its row; *a
reel* that is recorded or sent has its whole file, fails for no clip that is
still owed, and its status message ends in what happened; *sessions* never wait
for each other in a circle; *names* survive the way from a caption to a file
and back.

## 2. Modules

| module | what it is |
|---|---|
| `ClipCustody` | abstract specification: clips in custody, bytes in store, the list |
| `Library` | upload, delete, unit of work, dumps, recovery, allowlist, life cycle; implements `ClipCustody` |
| `Reel` | the compile task, beside `ClipCustody` as its environment |
| `Listing` | the listing of the delete dialog and its buttons |
| `Dialog` | the compile and delete dialogs of one user |
| `Connections` | sessions, the pool and row locks |
| `Selection`, `FilterGraph`, `Names`, `Paths` | pure functions, as operators; `Sorting` is the `sorted()` of numbers they share |
| `LibraryProofs`, `ReelProofs`, `ListingProofs`, `ConnectionsProofs`, `DialogProofs` | theorems about each, with their proofs |
| `DumpProofs` | when the manifest is current; builds on `LibraryProofs` |
| `VideoProofs` | the selection, the filter graph, the length of a reel and the tempo, for any number of clips, as `MCPure` calls them |
| `TextProofs` | paths, hashtags and file names of any length; builds on `VideoProofs` |
| `MCLibrary`, `MCConnections`, `MCPure` | the small instances TLC checks (the others need none) |

How they compose: `Library` implements `ClipCustody`, and so does every step of
`Listing` (runs check it, theorems prove it); and `Reel` EXTENDS `ClipCustody`, so the compile task is checked
against everything uploads, deletes and recovery may do to clips, without their
detail. `Listing` and `Dialog` look at the same handlers of `delete_flow` from
two sides: `Dialog` at the FSM, `Listing` at the messages, the rows and the
files. `Connections` is about the sessions all of them run in.

An operator called `X_Slip` is `X` with a plausible mistake. The
specifications never use it; it is there to test that a property notices.

### 2.1 Library

State and code:

| variable | code |
|---|---|
| `users`, `named`, `tags`, `videos`, `linked` | committed rows (`db/models.py`); `named` are the users whose profile columns are filled, `linked` the clips with their `video_tags` |
| `files` | the `.mp4` of each clip: absent, partial, complete |
| `manifest` | each `manifest.json`: none, good (with what it lists) or unreadable |
| `phase`, `allowed`, `pending` | process down, up or stopping; the allowlist; users the sweep has left |
| `pc`, `actor`, `clip`, `snap` | where each update (and the main coroutine) is suspended, for whom, with which clip, and what its dump has read |
| `saved`, `asked`, `known` | history: committed uploads, confirmed deletes, clips that ever had a row |

Steps are cut at the `await`s that let another update run and at the points
where something becomes visible. One update is: `UploadBegin` (upserts inside
the transaction, UUID, file opened), `UploadRecord` (download done, row
flushed), then `CommitUpload` or `Abort`, then the dump `DumpReadTags`,
`DumpReadVideos`, `DumpWrite` or `DumpFail`; `IngestFail` is the `except` of
`ingest_video`. A delete is `DeleteClip` (DELETE flushed, file removed), then
`CommitDelete` or `Abort`, then the dump. `Stop`, `SweepNext` and the dump steps
of `Sweeper` are the `finally` of `_run`; `Exit` and `Crash` end every task
without its `except` clauses. `BootSkip`, `BootRecover`, `BootRecoverFail` are
recovery and `resolve_allowed_ids` together: polling has not started, so
nothing interleaves with them. `_run` swallows whatever recovery raises and
starts all the same; `RecoveryMayFail` says when it may raise: on a manifest
that does not parse or half a file, and with the fault `"recovery"` on any disk
(a query, the COMMIT, ffprobe, reading a whole file). A crash between the COMMIT
of recovery and the first update is `BootRecover` followed by `Crash`; a COMMIT
that has worked although its answer was lost leaves what `BootRecover` leaves.
`Wipe` and `SpoilManifest` are what the operator or another build does while the
bot is down.

Each step keeps the code's locks: the upsert of `UserRepo` holds the user's row
until the transaction ends (`UserLocked`), the DELETE holds the clip's
(`RowLocked`). `Faults` names the faults an instance has.

Abstractions, and why they are safe for the properties:

- A clip is named by the UUID its upload draws; `Fresh` says UUIDs are not
  drawn twice. Its storage key and its tags in the file name are functions of
  the clip (`Owner`, `TagsOf`); that the name gives the tags back is
  `NamesRoundTrip`. Tag order, captions, sizes and dates are dropped.
- The links of a clip are present or absent as a whole: they are inserted in
  one transaction with the row and nothing removes single ones.
- The first two reads of a dump (the user, the tags) are one step. Tags only
  ever grow; a separate read would give a smaller set, and no property reads
  the tags of a manifest without adding those of its links (`RestoredTags`),
  except `DumpIsCurrent` and `QuietShutdownRepairs`, which are about runs
  without interleaving writers.
- The DELETE and the removal of the file are one step: `LocalStorage.delete`
  does not suspend, and the row lock keeps other deletes of the clip away.
- `atomic_write_text` is one step: it is synchronous, and replaces the file at
  once (a crash leaves the old one).
- ffprobe's verdict on half a file is a choice: `BootRecover` or
  `BootRecoverFail`. When recovery raises is not told apart: the one transaction
  of all users is rolled back from wherever it was.
- Branches no state of the program reaches are left out: a dump of a user
  without a row (users are never deleted), a missing media root (`_run` creates
  it first).
- The thread of `LocalFileFetcher` may go on writing after its task was
  cancelled; the process is about to exit, and the file has no row, so it is the
  partial (or complete) file the model leaves.

### 2.2 ClipCustody

What is promised, without tasks, transactions or manifests. A clip enters
custody in one step with its bytes in store and on the list; its bytes stay
until the owner asks; the list can be lost only as a whole; a rebuilt list
misses no clip in custody. (A clip is taken into custody once: recovery cannot
pass for an upload.) `Library!Promise` instantiates it with
`custody = saved \ asked`, `store` = complete files and `list = videos`.

### 2.3 Reel

A task per reel: `pc[r]` is the `await` at which `compile_progress_reel` is
suspended, `picked` and `opened` its clips, `status[r]` what the message in the
chat says, `mov`, `rows` and `sent` what it has made. `Confirm` is the tap on
Generate (`on_confirm`) up to the message "Compiling", `StartTask` the rest of
the handler once `call.answer` has returned: it clears the FSM data and creates
the task. Both calls may raise: in `ConfirmFails` the edit (which may have worked
although its answer was lost), in `AnswerFails` the answer; then there is no
task. `Query` the read of the candidates with `select_clips`
(its number of clips is that of `Selection`), `OpenClip` one turn of the loop,
`RenderStart` the moment ffmpeg opens its inputs, `Render` the end of ffmpeg
with the copy (no suspension in between), then `ProbeReel`, `Record`, `Send`,
and `Finish` or `EditRefused`, the last edit. `StepFails` is any of these
raising, after a COMMIT or a send also with the effect done. `Exit` cancels the
task wherever it is, `Kill` may cut a copy short; `LoseData` and `Boot` are the
loss of the database and the next start. `refused`, `cut` and `dropped` are
history: they name the three cases in which a status message cannot settle: the
last edit was refused, the process ended, or the handler raised before it had
made the task. (`state.clear` of the memory storage does not raise.)

ffmpeg reads its inputs for a while after it has opened them; on the systems the
bot runs on a file removed then is still read to its end, so only the opening
counts. The tag, the date range and other users' clips are left out: `Clips` are
those of the query. A copy that fails leaves half a `.mov`, which is never
removed; the model keeps it.

### 2.4 Listing

`listing[l]` is a handler that sends its messages one by one; `screen[m]` the
keyboard and the end of the caption of each message; `job[h]` where the handler
of a tap is suspended. `OnDeleteButton`, `OnCancelConfirm` and `on_confirm`
(`DeleteVideo`, `Mark`, `EditCaption` or `ReplyInstead`, `Finish`) are the
buttons. A DELETE waits while another handler has deleted the row and not ended,
then finds it gone or back. Telegram rejects an edit that changes nothing:
`EditReplyMarkup` is not enabled then and only `Raise` is left. `Raise` is any
call that raises, followed by the rollback; that Telegram has done what was
asked and the answer was lost is the action, then `Raise` at the next call. `LeaveDialog` is
another command; it is bounded to the time before the last listing, because
nothing can be tapped after it.

`Listing!Promise` maps it to `ClipCustody`: in custody are the clips with a row
that no confirmed deletion is working on or has failed on. The initial state is not one of
`ClipCustody`, which starts empty, so `KeepsPromise` is about steps.

### 2.5 Dialog

One user; `Handlers` are the user's updates in flight. A handler is suspended
in a query, in a call to Telegram, or between Telegram doing what was asked and
its answer. `fsm` and `data` are aiogram's `MemoryStorage` (a restart empties
it, which is the initial state). `screen[m]` is the keyboard a message carries:
old messages stay tappable, and the router's `StateFilter` decides (`Tapped`).
`Raise` ends a handler at any suspension. The listing of a tag is abstracted to
"some" or "none", since other updates add and delete clips all the time; tags
only grow.

### 2.6 Connections

A unit of work runs one or two sessions, one after the other: an upload or a
delete its transaction and then the dump (`DependenciesMiddleware` opens the
second session after the first has ended), a compile task its query and its
INSERT. `Ask`, `Connect` and `GiveUp` are the pool; `LockRow` and `Locked` the
line Postgres keeps for a row; `Commit` and `Rollback` end a session. Which row
a unit locks and how many sessions it has are constants (`RowOf`, `Sessions`).

The insert of tags (`TagRepo.upsert_many`) locks tag rows of the user as well,
after the user's row; two uploads that could meet there have met at the user's
row before, so these locks add no wait. A delete locks its clip and nothing
else that an upload writes.

### 2.7 Pure functions

`Selection` is `select_clips` with the random sample as a choice. `FilterGraph`
is the graph of `build_filter_complex` as a sequence of filters with the labels
they read and write, the inputs and maps of the command, and `atempo_chain` on
ratios. `Precision` is both the last digit a speed is written with (`:.6f`) and
the tolerance it is compared with (1e-6), in the code 10^6; `Written` rounds to
it, and a clip lasts in the reel what the written speed makes of it (`InReel`).
The floating point numbers of the code are exact ratios here: their own error,
about 1e-16, is ten orders below the rounding. `Names` has `parse_hashtags`,
`build_storage_key` and `parse_video_filename` over an alphabet with one
character of each kind the code tells apart. `Lowered` is `str.lower()` with the
`replace`: a plain capital becomes its small letter, the dotted capital I two
characters, of which the second, a combining dot, is no hashtag character, and a
capital sigma one of two small letters, by what stands around it. `Paths` has
the path checks of `bot_api/files.py` over sequences of segments, with pathlib's
treatment of "", "." and a root of two slashes.
`MCPure` makes one call per behaviour, so its invariants range over all inputs
up to the bounds; the proofs take the bounds away. Recursion is written as
recursive functions on numbers (`Pow2`, what `Pure` keeps, the sums and products
of the properties), which TLC evaluates and the proofs can unfold.

## 3. Runs

| run | instance | checks | time |
|---|---|---|---|
| `library` | 2 users, 2 clips of one of them sharing a tag, 2 updates, every fault | `TypeOK`, `CustodyKept`, `CustodyReachable`, `ManifestNeverPhantom`, `IInv`, `RowsLeaveOnlyByOwner`, `RecoveryIsComplete`, `AllowlistSurvivesMigration`, `KeepsPromise` | 1 min |
| `library_fair` | 3 clips of 2 users, updates one at a time, lost database, unreadable disk, with fairness | `DumpIsCurrent`, `QuietShutdownRepairs`, `RecoveryIsComplete`, `KeepsPromise` | 2 min |
| `dialog` | 2 tags, 2 messages in reach, one update at a time | `IInv`, `NoKeyError`, `ReelMatchesLastSummary` | 40 s |
| `reel` | 2 tasks, 2 clips | `IInv`, `RecordedReelsPlayable`, `DoneIsTrue`, `CustodyMakesReel`, `StatusSettles` | 1 min |
| `listing` | 2 listings of 2 clips, one of them not in Telegram's cache, 2 taps in flight | `IInv`, `GoneIsGone`, `LossNeedsFailure`, `KeepsPromise`, `ConfirmSettles` | 2 min |
| `connections` | 3 uploads of a user, a delete, a reel, pool of 2 | `IInv`, `NoHoldAndWait`, `RowsAreExclusive`, `SomeoneCanGoOn`, `PoolDrains`, `EveryUpdateEnds` | 20 s |
| `pure` | see below | the eight properties of `MCPure` | 20 s |
| `doc_*` | see section 6 | statements of the documentation the code does not keep | seconds |

**Bounds.** Every variable is finite, and each clip is uploaded at most once
(its UUID), so the only bounds are the sizes of the constant sets.

- *Library*: two clips of one user are what the manifest races need (a dump of
  the first while the second commits); a second user is what ownership needs;
  two updates are what any two-party race needs, with the sweep as a third
  agent. Deletes, restarts and losses of the database may happen any number of
  times. Three clips are checked where updates come one at a time.
- *Dialog*: two messages are an old keyboard next to a current one; two
  durations and two overlays tell two summaries apart; the choices of the range
  keyboard are handled like the others and are cut to one.
- *Reel*: two clips let one be deleted while another stays; two tasks are two
  taps on Generate, or two users. The selection of 5 and more clips is checked
  in `pure`.
- *Listing*: two handlers race for one row, and two listings let them do so from
  two messages; `Limit` 1 makes the newest-first cut happen.
- *Connections*: three uploads of one user can fill a pool of two with one
  holder and one waiter while the third asks; the real pool has 15 connections.
- *Pure*: reels of up to 12 clips (the table changes at 5 and 10); graphs of up
  to 4 clips with durations 0, 5, 8, 31 and 40 s for targets 10, 15 and 30 s, so
  that the part of a clip is missed, met, passed within the tolerance (31 s of 30),
  passed by little (8 s of 7.5) and by far; speeds p/q with p, q up to 33 (past the
  powers of two up to 32). `Precision` is 20 instead of 10^6, since ratios this
  small come near 1 but not within 10^-6 of it: with 20 the tolerances and the
  rounding decide some of the calls (21/20 is out of the tolerance, 31/30 in it,
  and 33/16 leaves a rest in it), and the proofs are about every `Precision`. Captions have up to 5 characters, enough for two
  hashtags, a repetition, a dash or dot in a tag, and a sigma at the end of a
  word and within one; paths up to 4 segments below any prefix.

The theorems of section 5 hold for any number of users, clips, tasks, taps,
messages, connections and characters.

**Deadlock** is checked in the runs of `Library`, `Dialog`, `Reel` and
`Connections`. `Listing` stops when its listings are over and the user has left
the dialog, and `MCPure` makes one call: these say `CHECK_DEADLOCK FALSE`.

**Fairness.** Weak fairness, per task, of the steps a task takes by itself:

- `Library!FairSpec`: the main coroutine and each task after its first step. The
  event loop runs every task that is ready, awaited queries return or raise.
- `Reel`: the steps of a task. Subprocesses end, calls answer or time out.
- `Listing`: the steps of a handler that does not wait (`GoOn`). A DELETE that
  waits for a row may raise, but nothing makes it: Postgres has no lock timeout
  here. It goes on because the handler that has the row ends, and is not held up
  from then on.
- `Connections`: the steps after a unit has asked for a connection; the pool
  and Postgres answer, downloads end or raise. Which of several waiting tasks
  the pool serves is open: a task that is passed over ends by the timeout, which
  is one of its steps.

Nothing is assumed about signals, crashes, taps, the operator, or the arrival of
updates. `QuietShutdownRepairs` is checked without `crash` and `dump` faults, as
its comment says: with them there is nothing to guarantee.

## 4. What the properties say

Each is stated next to its definition; these are the ones a reader should know.

- `CustodyKept`: the bytes of every clip saved and not asked to be deleted are
  on disk, in full, whatever fails. The cleanup of a failed upload, the removal
  in a delete whose transaction is rolled back, cancelled tasks and restarts
  are the ways it could break.
- `CustodyReachable`: such a clip, when it has a row, has all its tags and its
  owner's row, although these may have come from a manifest that was put
  together from three reads, or from a file name.
- `ManifestNeverPhantom`: a manifest never lists a clip that was not committed
  or is another user's; otherwise a lost database would bring it back as a row.
- `CustodyMakesReel`: a compile task gives up for a missing file only when the
  owner has asked for the deletion of one of its clips; uploads, cleanups,
  recoveries and other users never have that effect.
- `DoneIsTrue`, `RecordedReelsPlayable`: "Done" and a row of `compilations`
  speak of a whole `.mov`, also when a send or COMMIT answered with an error
  after it had worked. The converse does not hold and is not claimed: a reel
  may reach the chat and its message say that the compilation failed.
- `StatusSettles`: "Compiling" becomes an outcome unless Telegram refused the
  last edit, the process ended, or the handler raised after the message and
  before it had made the task; the code has no remedy for these three.
- `RecoveryIsComplete`: a start on an empty table restores every clip in custody
  or, when recovery raises, not a single row, since one row in `videos` turns off
  every later recovery. In `library` it may raise on any disk; in `library_fair`
  only on a manifest that cannot be read, so there every other start has to
  restore all. `AllowlistSurvivesMigration` says that the bot is open to
  everybody only while it has no users, and when there were clips to restore
  that takes a failed recovery.
- `ReelFitsTarget`: the reel is not over its target but for the rounding: four
  clips of 40 s at a target of 30 s get the speed 5.333333 and last 30.0000019 s.
  So what it says is that no clip takes more than its part by over a
  `Precision`-th, and that no clip is sped up by more than that needs.
- `GoneIsGone`, `LossNeedsFailure`, `ConfirmSettles`: what the messages of a
  listing say of a clip is true, stays true, and comes to an end, with two taps
  on Confirm racing. `LossNeedsFailure` has `aborted` as its exception, which is
  the divergence 1 of section 6 seen from the chat.
- `NoHoldAndWait`, `PoolDrains`, `EveryUpdateEnds`: uploads that wait for one
  user's row can take the whole pool, but nobody waits for the pool with a row
  in hand, so it comes free without a timeout. `SomeoneCanGoOn` is the reason:
  when the pool is empty, one of the sessions that emptied it waits for no other.
- `Listing!KeepsPromise`: of all the buttons of a listing, and of all the ways a
  handler can raise, only a confirmed deletion costs a clip its row or its bytes.
- `NamesRoundTrip`, `NamesAreStable`: recovery from file names gives the rows
  the next upload with the same hashtag finds. The exception is a tag made with
  the dotted capital I: it holds a combining dot, and typed as a hashtag in its
  small form it ends there.

`DumpIsCurrent`, `NoKeyError` and `ReelMatchesLastSummary` are claims about one
update at a time. With two in flight `DumpIsCurrent` fails (section 6), and so
can the other two: a tap that waits for Telegram and writes late. `DumpProofs`
says how much of "one at a time" is needed: one per user.

## 5. What is proved

For every value of the constants that meets the assumptions named in the module:

| module | theorem | property |
|---|---|---|
| `LibraryProofs` | `Invariance` | `IInv` |
| | `TypeCorrect`, `CustodyIsKept`, `CustodyIsReachable`, `NoPhantoms` | the invariants |
| | `OnlyOwnersRemoveRows`, `RecoveryComplete`, `AllowlistSurvives` | the action properties |
| | `LibraryKeepsPromise` | `Spec => KeepsPromise` (implementation of `ClipCustody`) |
| `ReelProofs` | `Invariance`, `ReelsArePlayable` | `IInv`, `RecordedReelsPlayable` |
| | `DoneIsSaidTruly`, `CustodySuffices` | `DoneIsTrue`, `CustodyMakesReel` |
| `ListingProofs` | `Invariance`, `GoneMessagesAreTrue`, `LossesHaveFailures` | `IInv`, `GoneIsGone`, `LossNeedsFailure` |
| | `ListingKeepsPromise` | `Spec => KeepsPromise` (steps of `ClipCustody`) |
| `ConnectionsProofs` | `Invariance`, `NobodyHoldsAndWaits`, `RowsAreNeverShared` | `IInv`, `NoHoldAndWait`, `RowsAreExclusive` |
| | `FullPoolMoves` | `SomeoneCanGoOn` |
| `DialogProofs` | `TypeCorrect` | `TypeOK`, with any number of handlers in flight |
| | `Invariance`, `NoKeyErrors`, `ReelsMatchSummaries` | `IInv`, `NoKeyError`, `ReelMatchesLastSummary`, one update at a time |
| `DumpProofs` | `EveryDump`, `DumpsAreCurrent` | `EveryDumpIsCurrent`, `DumpIsCurrent`, one update per user at a time |
| | `OneTaskDumps` | `DumpIsCurrent`, one update at a time |
| `VideoProofs` | `SelectionsAreRight`, `GraphsLinkUp` | `SelectionIsRight`, `GraphLinksUp` |
| | `ReelsFit`, `TemposAreClose` | `ReelFitsTarget`, `TempoIsClose` |
| `TextProofs` | `FetchersNameOneFile` | `FetchersAgree` |
| | `KeysIgnoreOrder`, `TagsAreStable`, `NamesComeBack` | `KeyIgnoresOrder`, `NamesAreStable`, `NamesRoundTrip` |

*Library.* Assumed: each clip has an owner and at least one tag; the sweeper is
not an update; `NoUser` and `NoVideo` are not users or clips; the configured
allowlist is made of users. `CustodyKept` is not inductive: a step of an upload
that fails removes a file, and one has to know that this file is not in custody.
That is `AgentsSound`: an upload works on a clip no row knows and no other upload
has, a delete on one whose owner asked. `HistorySound` ties rows, saved and asked
clips to `known`. `CustodyReachable` needs more: the rows a recovery makes come
from manifests, so `LinksSound` says of every manifest, and of every dump between
its second read and its write, that what it lists and is still in custody is
still linked. It holds because links go only with the delete of their clip, and
a clip leaves custody before that delete commits. `IInv` is the conjunction; each
action has a lemma with one step per conjunct, and `NextSound` puts them
together. The action properties and the refinement then follow from `IInv`, one
action at a time.

*Reel.* No assumptions. `StagesSound` says what a task at each stage has left
behind (nothing before ffmpeg, the whole file after it, the row before the send)
and that custody is a part of the store, which the steps of `ClipCustody` keep.
A kill may cut the copy of a task that renders, and such a task has no row.

*Listing.* Assumed: clips are numbers, there is a clip and a listing, and the
limit is positive. `TapsSound` says that a row has at most one deletion under
way, that the row is still there then, and that a handler that has not found its
row goes on because the row is gone; so what it writes into the message is true,
and since rows never come back while the bot is up it stays true.

*Connections.* Assumed: what a unit locks is a row or `NoRow`, it has one or two
sessions, the pool is not empty. `LinesSound` says that in the line of a row
stand first sessions that lock this row, each once and with its connection, and
that whoever works on the row is its head. `WaitersInLine` is the converse: who waits
for a row stands in its line. Then, when the pool is empty, take any session that
has a connection: if it waits for a row, the head of that line has a connection
too, and does not wait.

*Listing, the promise.* `ListingKeepsPromise` goes through the actions: the
DELETE of `on_confirm` is `Release` with the removal of the bytes, the COMMIT at
the end of the handler is `Unlist`, and every other step, rollbacks included,
changes nothing `ClipCustody` sees.

*Dialog.* `TypeCorrect` needs nothing. The other three assume that the user has
one update in flight (`OneAtATime`), the condition under which the code is right:
a handler reads, waits and writes without looking again, which is what the run
`doc_cancel` shows with two. `DialogSound` says which keys `data` has in
each FSM state and that in `confirming` it is the last summary. It is not
inductive alone, since `data`, the message and the state are written at three
different moments and any call in between may raise: `JobSound` says of a
suspended handler what it has written and what it is about to write. An old
keyboard does no harm because the filter looks at the state, and the state
implies the keys.

*Dumps.* `DumpIsCurrent` is false in general (section 6, 2). `OnePerUser` says
that no two updates of one user are in flight; users wait for nobody else, all
share the tables, and shutdowns, crashes, rollbacks and dumps that fail happen
as they like. `DumpSound` says that what a dump has read of its user is still
what the tables hold, since only that user's updates write those rows. So a lock
per user would be enough to make the comment in `middlewares/db.py` true.

*Pure functions.* Assumed (`CallsAssumption`): the bounds of the calls are
natural numbers, durations are natural and targets positive numbers, segments
are texts; the precision is positive (`PrecisionAssumption`); and (`BotDirectoryAssumption`) no segment of the bot's directory is
empty or made of dots, since the root is a literal of `bot_api/files.py` and the
token comes from BotFather. So the theorems are about calls of any size.
`CallsAreTyped` says what a call is made of, and each theorem is a lemma about
the operators, applied to the call.

The induction these lemmas need has no operator for a parameter: `Minimum` (a
set of numbers has a least one), `Induction` (over a set that holds 0 and every
successor), `SmallestSet` (a smallest counterexample among finite sets), and
`Recursion`, `RecursionUpTo` (a function that is built step by step exists, so a
recursive definition is what its equation says). On them rest:

- *Selection*: a sample of the middle clips always exists, a selection has the
  size of the docstring's table and both ends, and its ascending list starts with
  1 and ends with n. `AllCanLine` puts any finite, totally ordered set in a line.
- *Length*: what is written is at most half a `Precision`-th off (`WrittenIs`).
  A clip that is sped up fits its part since its speed is over 1, so half a
  `Precision`-th of it is less than one of the part (`FitsWhenFast`); one that is
  not is over its part by no more than the tolerance (`FitsWhenSlow`).
- *Tempo*: the least number of halvings or doublings exists and leaves a rest
  between 1/2 and 2; all factors but the last are exact, so the product of the
  chain is off by what the last one is, or by the tolerance when there is none
  (`ProductIs`, `FactorIs`, `NoFactorIs`). The factors are in ffmpeg's range also
  after rounding.
- *Filter graph*: the filters of one clip form a `Pipe`: one for each of the
  clip's stages, each after the one whose label it reads, no label written
  twice. Pipes of different clips join to a pipe of both (`PipesJoin`), so the
  flattened graph is one (`PipeOfReel`); within a clip every label but the last
  is read once, and concat reads the last (`StagesLinkUp`, `LinksAreOne`).
- *Paths*: what pathlib keeps of a path after the bot's directory is the
  directory and what it keeps of the rest (`PureAfter`).
- *Hashtags*: where a run of hashtag characters ends is unique (`TagEndIs`), so
  the tags depend on nothing but the canonical form of the runs (`AlikeIsSame`).
  That form is made of small letters, underscores and combining dots, and it is
  the run itself when the run is made of the first two (`LoweredIs`), so a tag
  behind "#" is given back up to its first combining dot (`TagOfTag`); without a
  dotted capital in the caption no tag has one (`TagsArePlain`).
- *File names*: the order of `sorted()` on tags is total (`BeforeIsTransitive`,
  `BeforeIsTotal`), so a set of tags has its sorted list; the joined name is
  spelled by the tags with dots after them (`JoinIsSpelled`); its dots are where
  the parts end since no tag has a dot (`DotsAre`), only one function goes
  upwards through them (`OrderIs`), so the parts are the tags and the UUID
  (`PartsAre`). The alphabet is that of `Names`, as in the run.

Only model-checked:

- the liveness properties (`QuietShutdownRepairs`, `StatusSettles`,
  `ConfirmSettles`, `PoolDrains`, `EveryUpdateEnds`): the prover has neither
  `ENABLED` nor fairness. `SomeoneCanGoOn` and `RowsAreExclusive` are the part of
  `PoolDrains` that is safety;
- that the documentation's statements of section 6 fail.

## 6. Where code and documentation differ

1. **`RowsHaveFiles`** (`services/delete_video.py:64`, "The DB row is gone (and
   will be committed by the middleware)"). The file goes first. If the edit that
   follows (`handlers/delete_flow.py:331`, not guarded) or the COMMIT raises,
   the row is back without its file. `Listing` shows that a second tap is
   enough: the removal of a keyboard that is gone already is refused.
2. **`DumpIsCurrent` with two updates** (`middlewares/db.py:78`, "so the
   manifest reflects the just-committed state"). An older read can be written
   last. `RecoveryIsComplete` shows that no clip is lost through it: recovery
   walks the files as well. A deleted clip may come back as a row without file.
3. **`CorruptManifestTolerated`** (`src/README.md:76`, "even a missing/corrupt
   manifest still recovers"). A missing one does; one that does not parse makes
   `_restore_user` raise, and the recovery of every user is rolled back.
4. **`NextStartupRetries`** (`services/persistence.py:337`, "so the next startup
   retries from scratch"). The bot starts after a failed recovery; one upload
   puts a row into `videos`, and no later start recovers anything.
5. **`CancelSticks`** (`handlers/compile_flow.py:369`, "/cancel from any state -
   clears FSM data and acknowledges"). A handler suspended at that moment
   writes data or state again when it goes on.

Each is a run that expects TLC to find the violation, with no more faults than
it takes. Smaller disagreements met
on the way: the edits that say "Done" are outside the `try` that
`_run_compile_and_reply` says catches errors (`handlers/compile_flow.py:324`);
the grace period of 90 s is for renders that asyncio cancels at once
(`src/docker-compose.yml:89`); a late handler of the first button puts Confirm
back on a message that "can't be tapped again" (`handlers/delete_flow.py:329`);
"re-uploading any clip" draws a new UUID and so restores no metadata
(`src/README.md:85`); the factors of `atempo_chain` have a "product [that]
equals `speed`" only up to their six digits (`video/compile.py:49`), and for the
same reason a reel may be some microseconds over its target; "the tag's canonical
form contains only `\w` characters" (`src/tests/test_utils_hashtags.py:32`) is
not so for the dotted capital I, whose small form has a combining dot.

## 7. Not modelled, and the plan

Done so far: every part of the bot that keeps state or decides something is
modelled, and every safety property the passing runs check is a theorem.

What could still be added:

1. The two divergences of section 6 that have a remedy in a line or two (a lock
   per user around the dump, a rename after the copy), as variants that are shown
   to meet the documentation.
2. The copy of a clip on the bot-api server: `RemoteFileFetcher.cleanup` removes
   it before the transaction commits, so a rolled back upload cannot be fetched
   again. It is the server's state, and the user can send the clip again.

Left out for good: message texts and layout, logging, the codec options of
ffmpeg and the text of overlays, parsing of ffprobe's output, the parsing of
settings, queries without effect (dates, counts), Alembic migrations, Docker
configuration, TLS and proxy settings, the signal handling of the bot-api
container's shell wrapper, and the server of the Bot API itself (third-party
code). The private-chat rule of `AllowlistMiddleware` is a filter without state. So
is `LocalStorage._resolve`, which checks a key against symbolic links and the
file system: the bot builds its keys itself, of a user id, hashtags and a UUID.
