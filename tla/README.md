# Torto: TLA+ models, checks and proofs

This directory verifies the parts of the Torto reader where several actors
share state: devices that synchronise through a WebDAV folder, jobs that stop
half way, caches that may be stale. TLA+ modules model the code, TLC checks
them on small instances, and the TLAPS proof system proves the central
invariants for every value of the constants. Six subjects are covered: the path
of a reading change to the other devices, the clock and the merge of reading
positions, the merge of annotations, the sync of derived data through one
mutable file, the schedule of syncs, and the scheduler of AI requests.

## 1. The system

Torto is an e-book reader. A shared core (`src/crates/app-core`) is used by a
desktop host (`src/apps/desktop`, egui) and an Android host
(`src/crates/android-bridge`, `src/apps/android`). Formats, layout and drawing
are pure libraries below it (`src/crates/{formats,html,publication,math,layout,reader,renderer}`),
`src/third_party` is vendored.

| component | state it keeps | operations | interacts with |
|---|---|---|---|
| reading store (`sync/store.rs`) | annotations with vector clocks, progress, membership of books, a hybrid clock, `reading_changes`/`reading_ack` revisions, a key-value transfer cache, all in one SQLite file | create, edit and delete annotations, save progress, merge remote ones, snapshot, acknowledge | reader (edits at any time), sync jobs |
| annotation and progress merge (`sync/store/annotation_merge.rs`, `sync/protocol.rs`) | none of its own | compare clocks, choose a winner, keep the loser as a conflict copy, compact copies | store, in one transaction per remote file |
| sync engine (`sync/engine.rs`, `sync/changes.rs`) | the running job; change index, checkpoints, session and audit time in the transfer cache | upload pending books, publish the index, plan from peers' indexes, download and merge, acknowledge | store, WebDAV client, host callbacks |
| WebDAV client (`sync/webdav.rs`, `listing.rs`, `rate_limit.rs`) | object cache with ETags, listing cache, cooldown, pace | conditional GET and PUT with retries, PROPFIND, MKCOL repair | server |
| derived data (`sync/derived.rs`) | dirty markers per book and kind | upload, download, import of OCR, structure and translation artefacts | AI services, engine |
| schedule (`sync/schedule.rs`, `android-bridge/src/cloud.rs`) | one queued mode, retry and quota deadlines, failures | request, next, finished, snapshot and restore | hosts |
| hosts (`apps/desktop/src/shelf`, `async_task.rs`) | library on disk, task slots | start and cancel jobs, import downloads | engine through progress events |
| AI scheduler (`reading_ai.rs`) | entries with rank, lane, epoch, cancellation | run, update demand, pause, invalidate | AI services |
| statistics, credentials, fonts, translation cache, library, updater | files of their own | read-modify-write under locks | hosts |

What is hard in it:

* **Interleaving.** The reader edits while a job uploads; two devices upload,
  list and merge at the same time; books leave the shelf during a job.
* **Crashes.** Every job is a sequence of separate durable writes, locally and
  on the server. It may stop between any two of them: a request fails, the
  user cancels, Android kills the process. The next job resumes from what is
  stored.
* **Staleness.** Listings, cached objects, the plan and the pending set are
  read once and used later.
* **Causality.** Concurrent edits of one highlight must converge without
  losing the visible loser; clocks of devices differ.
* **Timeouts and limits.** Rate limits, retries of conditional PUTs, a bounded
  AI queue, a schedule that must not starve the full job.

What makes each component correct:

* sync engine: nothing is acknowledged or announced before the server holds
  it; an index is worked off only with all payloads it stood for; every change
  reaches every device in spite of stops and lost files; a periodic audit
  compares everything.
* merge: devices that have seen the same versions show the same ones; the
  visible loser of a conflict is never lost; the newest reading event wins.
* WebDAV client: a PUT taken for success was stored; an object is served from
  the cache only if a listing named it; nothing is sent during a cooldown.
* derived data: a change made during a transfer is neither overwritten nor
  acknowledged; what is dirty gets acknowledged; devices come to hold the
  archive of the server.
* schedule: what was asked for is done or still asked for, in memory and on
  disk; limits of the server hold, by hand and after a restart too; full checks
  are not postponed for ever.
* AI scheduler: one request per lane that has not been told to stop; a waiting
  call is admitted, evicted or cancelled, its caller is told, and nobody sleeps
  through the moment it could be admitted.

`PROJECT.json` lists the components with their status and the hazards, each
with the line where it bites.

## 2. Modules

| module | models |
|---|---|
| `ReadingSync` | the path of one reading change through stores, transfer caches, the server and jobs (engine.rs, changes.rs, the revision tables of store.rs, the host's import of downloads) |
| `MCReadingSync` | its instances for TLC; the roles of the devices and all bounds are constants set in the `.cfg` files |
| `ReadingAudit` | `ReadingSync` observed: which books were compared since the audit fell due |
| `MCReadingAudit` | its instances |
| `ReadingSync_proofs` | type correctness; uploading: `AckedUploaded`, `IndexBacked`, `AckedSignalled`; the invariant of shelves, library files and books that left |
| `ReadingSync_merge` | merging: `AppliedMerged`, `AuditCheckpointed` |
| `ProgressClock` | the hybrid clock and the reading position of one book: `tick`, `write_progress`, `reading_snapshot`, `merge_progress` of store.rs |
| `MCProgressClock` | its instances |
| `ProgressClock_proofs` | type correctness, `StampsUnique`, `NewestWinsSynced`, `ConvergedSynced` |
| `AnnotationMerge` | the versions of one highlight, its conflict copies and tombstones: annotation_merge.rs, the vector clocks of protocol.rs, the operations of store.rs on annotations |
| `MCAnnotationMerge` | its instances |
| `AnnotationMerge_proofs` | type correctness, `MergedCovered`, `HistoryGrows`, `PublishesNews`, `HistoriesAgree`, that two devices resolve a conflict alike, and that any number of devices end with one highlight |
| `Delivery` | what the sync of reading changes promises, without server, files, jobs or caches |
| `ReadingDelivery` | the refinement mapping under which `ReadingSync` implements `Delivery` |
| `ReadingDelivery_proofs` | that it does; `CaughtUp` |
| `WebDavObject` | one mutable JSON file on the server and the client's copies of it: `get_optional`, `put_mutable_json` |
| `DerivedSync` | the sync of one archive of derived data (derived.rs), on top of `WebDavObject` |
| `MCDerivedSync` | its instance |
| `DerivedSync_proofs` | type correctness, `AckedUploaded`, `MarkedKept` |
| `SyncSchedule` | the schedule of syncs (schedule.rs) in the hands of the Android host (cloud.rs) |
| `MCSyncSchedule` | its instance |
| `SyncSchedule_proofs` | type correctness, `NothingForgotten`, `LimitRespected`, `FullStaysDue` |
| `AiScheduler` | the scheduler of AI requests (reading_ai.rs) |
| `MCAiScheduler` | its instance |
| `AiScheduler_proofs` | type correctness, `LaneExclusive`, `EvictedTold`, `QueueBounded`, `NoLostWakeup`, `PaidRequestKept` |

The models of reading data meet at the state file. `ReadingSync` says when a device's file
reaches another device and takes its contents as a number; `ProgressClock` and
`AnnotationMerge` say what its contents do there and take uploading and merging
as single steps. They rely on what `ReadingSync` establishes: a device merges
files in the order of their uploads and misses none for good.

### ReadingSync

State and code:

* `membership`, `revision`, `acked` are the tables `book_membership`,
  `reading_changes`, `reading_ack`. `merged[d][p][b]` is what the tables
  `annotations` and `progress` of `d` contain of `p`'s files, reduced to the
  newest file merged.
* `digest`, `recorded` (LOCAL), `pending` (PENDING), `applied`, `known`,
  `auditDue` (REPAIR), `session` and `checkpoint` are keys of the transfer
  cache.
* `state`, `index`, `library` are files on the server, `indexed` and
  `listedIn` say whose exist. Each device writes only its own.
* `pc`, `loop`, `todo`, `book`, `snap`, `listing`, `plan` ... are the local
  variables of a running job and vanish with it. `arrived` holds the
  `Downloaded` events the host has not handled.

A state file is a stamp: the number of the upload and the revision its snapshot
was taken at. A fresh uuid token is the stamp of the upload it announces. The
digest of a file is its stamp, because every snapshot carries a new clock value
and so no two uploads are equal.

A job runs `run_sync`: `StartSync`, then for every pending book `Snapshot`,
`PutState`, `RecordToken`, `RecordFlag`, `ListStates`, the merges (`SkipState`,
`MergeState`, `MarkApplied`) and `AckReading`; then `PublishIndex` and
`PublishDone`. A full job goes on with `Prepare` (the plan), `PublishLibrary`,
`Download` and `Deliver` for books that are missing here, `PlanBook` with the
same upload and merge steps and `Checkpoint` for every planned book, a second
publication, and `AckIndex`, `AckBooks`, `AckAudit`, `AckSession`. Every durable
write is a step of its own and `Abort` is possible before each. `Edit`,
`RemoveBook`, `RestoreBook` and `Import` happen at any time, `AuditExpires`
lets RECHECK_MS pass, `LoseState` deletes a state file from the server.

Abstractions to know of:

* `MergeState` may count as a change of the merging device
  (`mark_reading_changed` when a conflict is resolved) only if another device
  changed the book too; what is merged is the subject of AnnotationMerge.
* `Fetched` returns the present file or the listed one, since `get_optional`
  may serve the object cache while the listing is fresh.
* An index or library file, once written, stays: `LoseState` deletes state
  files only, the loss the code repairs while syncing.
* `EndSession` drops checkpoints together with the session token: the token is
  random, so no later plan can match them. `Marks` does the same when the
  peers changed.
* `Repairs` allows both answers where a snapshot may be empty because a peer's
  newer version took over everything the device had written.

Bounds: `MaxRevision` (edits per device and book), `MaxAborts`, `MaxMoves`
(removals from shelves), `MaxLosses`, and `MaxFaults`, which bounds stops,
removals and losses together. They bound the environment, never the job.

### ReadingAudit

Adds the history variable `audited`, the books whose remote files the device
listed since its audit fell due.

### Delivery and ReadingDelivery

In `Delivery` each device makes changes and shows the first so many changes of
every other one; what is shown never shrinks and never exceeds what was made.
`ReadingDelivery` reads both off `ReadingSync`: `made` is `revision`, and `shown`
is the revision of the newest merged file. The sync of one remote file is one
`Receive`, all the rest of a job stutters. A receipt may come with a change of
the receiver, since a merge that resolves a conflict is to be uploaded.

### WebDavObject and DerivedSync

An archive of derived data (OCR, or the reflowed text of a PDF) is a zip, put
without a condition, and a manifest with the checksum of the zip, put with
`If-Match` or `If-None-Match`. `data[d]` is the archive's content on the device,
`rev` the marker file, `ack` the key `derived-ack` of the transfer cache.
`Write` and `Mark` are the task that derives data, at any moment of a job. The
n-th write of any device is version n, which stands for content, checksum and
revision together; an ETag stands for the content it names.

A job plans (`Begin` lists the directory and reads the revision, `Export` packs
the data, `Compare` fetches the manifest and decides) and then either uploads
(`PutZip`, the attempts of `PutManifest`) or downloads (`Download`, `Check`,
`Import`), and `Acknowledge`s the revision it read first.

Left out: the metadata document, which is merged instead of replaced; archives
of an incompatible version; partial downloads and read errors; deletion of
derived data; missing directories; the provider without conditions
(`cstcloud_compatibility`), whose manifest is put unconditionally; the entry in
the change index, which is `RecordToken` of `ReadingSync`. The listing a job
works from is its own (`listed`); one of up to 30 s ago is one of an earlier
moment between its steps.

`marked` and `uploaded` are history: the versions ever marked, and those whose
zip and manifest were both written. Bounds: `MaxWrites`, and `MaxFaults` for
killed processes and lost manifests.

### SyncSchedule

`active` is the schedule in memory (`ACTIVE_SCHEDULE`), `saved` the file,
`local` the schedule of the running job, a copy it writes back when it ends.
`Poll`, `Manual`, `LibraryChanged` are the ways into the host: the timer or a
flush of the reader, a sync by hand, an import or a removal. `Begin` journals
the mode before it runs; `Success`, `Failure`, `Cancel` save the outcome;
`Unjournaled` and `Unsaved` are failing saves, `Kill` is the end of the process.
The library lock of the host makes each of them exclusive (`job = None`).

A deadline is the number of ticks left, an age the number of ticks passed, and
`Tick` moves them in memory and in the file, which is what snapshot and restore
do if the wall clock runs on. `seen` says whether `derived_token` is the token
that is stored. A queued mode "Forced" is a full sync with statistics.

Left out: the growth of delays with the number of failures (the models use one
delay for each kind), a wall clock that is set, the reset of the schedule when
the account changes, the monitor of the desktop host. When the save that would
record a limit fails (`Unsaved`), the quota of the model stays as it was: the
client's own persisted cooldown (webdav.rs:210) then refuses the requests.

`owed` (asked for and not done), `covered` (what the running job takes along),
`quota` (how long the server wants to be left alone) are history.

### AiScheduler

A call of `run` is "idle" outside, "check" before it takes the lock, "timed" or
"parked" while it waits for `changed` with or without a timer, "run" while its
request runs. Everything under one lock is one action: `Submit`, `Check`,
`Leave` (the drop of a registration), `Update` (also `pause`), `Invalidate`. A
notification takes every sleeping call to "check" (`Woken`), since each has
enabled its `Notified` before it looks.

Time is what the code asks of it: `moving`, whether the 200 ms after the last
move are not over, and `busy`, the same for the 250 ms after the last visible
request. Ids only order calls, so `older[c]` is the set of entries that entered
before `c`. `Abandon` stands for a token the host cancels and for a dropped future;
`Finish` for an answer, an error and a timeout. An entry of an earlier epoch is
`stale`. A task is relevant if its place is the one in `view`.

`ClockTears` says whether a deadline may pass between the two looks at the clock
in one turn of the loop (reading_ai.rs:378 and :390); see the findings.

A cancelled request may linger beside its successor until its call returns:
`LaneExclusive` and `MAX_ACTIVE` count requests that have not been told to stop,
as the code does.

### ProgressClock

`hlc` is the row `hlc` of `sync_meta`, `progress` the row of table `progress`,
`changed` says that `reading_changes` is ahead of `reading_ack`, `file` is the
position in the device's state file. An event is a saved position with its
timestamp; the ids in `saw`, the events its reader's device had held or merged,
are history and decide nothing.

A wall clock shows the common `time` plus `AheadBy`, on the devices in `fast`,
until `Correct`. `Save`, `Note` (any annotation: it takes a timestamp and makes
the device upload again), `Upload` (a snapshot takes a timestamp too, and
carries the position only if this device made it) and `Merge` are the
operations. `Latency` is the least time between a snapshot and its merge
elsewhere: a request over the network takes at least a millisecond.

### AnnotationMerge

`annotations[d]` is the table `annotations` of `d` for one highlight and its
copies: the highlight is `Root`, a copy is named by the origin and the stamp of
the version it keeps (`conflict_id`). Rows are read in the order of ids
(`InOrder`), as the queries and the snapshot do. `Merged` is the body of the
loop in `merge`, `Resolved` its concurrent arm, `Retained` is
`retain_conflict`, `CompactedOne` the body of the loop in `compact`. These
operators take and return a store, since the code runs them in one
transaction; the actions `Create`, `Edit`, `Delete`, `Open`, `Upload` and
`Merge` commit it.

Abstractions to know of:

* A content stands for ranges, quote and note together; only equality matters
  (`same_content`). `Edit` writes any other content.
* A stamp is a number that no other version has. With `Skewed` a device may
  stamp with any number beyond its own last one, wherever other devices are;
  otherwise also beyond all stamps it has merged, as `tick` sees to when clocks
  agree. That both are what `tick` gives is the subject of `ProgressClock`.
  Compaction takes the least such stamp.
* Files with invalid ranges or of another book make `merge` fail as a whole
  and are left out, and so are independent highlights: compaction never relates
  two families.
* `standing`, `written`, `repeated`, `discarded` are history: what readers wrote
  and nobody who saw it has replaced, whether a text was written twice, and what
  was deleted.

## 3. Runs

Two devices suffice for most runs: the protocol relates a device to one peer's
files at a time, and the proofs cover more of them. The exception is
`AnnotationLost`, where a third device meets the versions in an order that two
cannot produce. One book is enough where books are independent.

| run | states | shows |
|---|---|---|
| `ReadingSafety` | 387k | `TypeOK`, `AckedUploaded`, `IndexBacked`, `AckedSignalled`, `AppliedMerged`, `CaughtUp` and `AuditCheckpointed` while a reader writes twice, a device without the book joins and audits, and a job stops or the book leaves a shelf |
| `ReadingDelivery` | 170k | `Delivered` although a job stops half way or a state file is lost; `DeliverySpec`, the refinement |
| `ReadingAuditResumed` | - | a violation, see findings |
| `ProgressClock` | 4.2M | `StampsUnique` under any clocks; `NewestWinsSynced` and `ConvergedSynced` while clocks agree |
| `ProgressSkewed` | - | a violation of `NewestWins`, see findings |
| `AnnotationMerge` | 987k | `ConvergedFresh`, `NoneLostFresh`, `Quiet`, `MergedCovered`, `HistoryGrows`, `PublishesNews`, `HistoriesAgree` with four edits and deletions under clocks that disagree |
| `AnnotationCopies` | - | a violation of `Converged`, see findings |
| `AnnotationLost` | - | a violation of `NoneLost`, see findings |
| `DerivedSync` | 211k | `AckedUploaded`, `MarkedKept`, `DirtyAcked`, `Converges` while two devices derive an archive, and a process is killed or a manifest lost |
| `SyncSchedule` | 7.9k | `NothingForgotten`, `LimitRespected`, `FullStaysDue`, `FullNotPostponed` with timers, flushes, syncs by hand, failing saves and killed processes, without a bound on their number |
| `AiScheduler` | 97k | `LaneExclusive`, `EvictedTold`, `QueueBounded`, `NoLostWakeup`, `PaidRequestKept`, `Served` with four calls that come and go for ever |
| `AiLostWakeup` | - | a violation of `Served`, see findings |

`CHECK_DEADLOCK FALSE` for the reading, clock and annotation runs: with bounded
edits and failures, and without a due audit, devices come to rest. The other
models never stop.

ReadingSafety and ReadingDelivery: one edit before and one after the snapshot of
an upload need `MaxRevision = 2`, which ReadingSafety has; ReadingDelivery follows
one edit to the other device, where one job may be stopped or one file be
lost. One stop reaches every "stored half" state.
`MaxFaults = 1` means that a stop, a removal and a lost file do not meet in one
behaviour; more exceeds a run, and the theorems about `ReadingSync` have no such
bound. `AuditCheckpointed` allows for work an earlier, stopped job did in the same
session, which the stronger `AuditComparesAll` does not: the code violates the
latter (`ReadingAuditResumed`).

ProgressClock: three milliseconds, two saves of each device and one annotation
let timestamps of one millisecond, the same wall time on both devices and a
second upload of an unchanged position occur. `AheadBy` is 1 there and 2 in
`ProgressSkewed`, where the correction has to fall between two saves.

AnnotationMerge: a conflict takes two edits, a copy that meets another
conflict a third, and a text that returns a fourth. Five contents let all four
edits and the first text differ, so `ConvergedFresh` and `NoneLostFresh` are
checked on histories without repetition up to the bound. `MaxStamp` is one for
each version a reader makes. Contents are symmetric.

`ConvergedFresh` and `NoneLostFresh` say under which condition convergence and
preservation hold between two devices. The conditions are not incidental: with a
text that is deleted and written again, a tombstone prevails over a live version
of equal text whatever their stamps, while against any other text the stamp
decides, so the winner of three versions depends on which two meet first. For
three devices neither holds, even while clocks agree: `NoneLostFresh` fails the
way `AnnotationLost` shows (with a fourth content, where no edit repeats one),
`ConvergedFresh` as described at the end of the findings. What does hold for any
number of devices, while clocks agree and the highlight is not deleted, is that
the highlight converges: `HighlightConverges`, a theorem (section 4).

`Quiet` stands for termination of the exchange. Its liveness form, that
devices settle for good once readers stop, was too slow for TLC; the safety
form says that merging what a device holds already publishes nothing, which is
what ends the exchange. It speaks of two devices: among three, two may have joined
different histories to one version, and the third publishes when it joins them.
`PublishesNews`, `HistoryGrows`, `MergedCovered` and `HistoriesAgree` are proved for
any number of devices: each publication stands for an annotation or a history its
device had not, nothing is forgotten, nothing a device has merged comes back to it
as news, in whatever order files are merged, and devices that exchanged everything
hold the same annotations with the same histories. The findings below say when the
texts under these histories differ nevertheless.

DerivedSync: two writes are one by each device or two by one, before, during or
after any job. `Attempts = 2` instead of three, so that a PUT can be refused as
often as it may be and give up. `MarkedKept` excuses data that was not marked
when its device was looked at, and data marked between the look at the revision
and the import: nothing in the code prevents either. `Converges` speaks of a
server whose two files match.

SyncSchedule: the delays are small and differ, `LimitDelay` exceeds `RetryDelay`,
and the full check falls due after both. `FullNotPostponed` lets reading changes
go first, as `next` does.

AiScheduler: a visible translation submitted twice, contents that compete with
it for one lane, a structure request in another place, and a queue of two, so
that a full queue, an eviction, a duplicate, a preemption and all ranks of these
kinds occur. The lane of enhancements is not in this instance; the theorems
cover it.

Fairness:

* `ReadingSync` (`FairSpec`, for `Delivered`): a job that runs takes its next
  step (each request ends with an answer or an error, which is `Abort`, of which
  there are finitely many); the host imports what arrived (the event loop of
  `complete_sync`); full jobs are started again and again
  (`FULL_CHECK_INTERVAL` in schedule.rs); an audit falls due again where
  `Auditors` says so (24 h). Nothing is assumed about edits, removals or losses.
* `DerivedSync`: jobs are started again and again and each takes its next step,
  a write is followed by its mark unless the process is killed.
* `SyncSchedule`: time passes; the timer, which asks every second, asks again
  and again, also between two flushes of the reader; a job that is started
  again and again succeeds again and again. The last is an assumption on
  the server; without it nothing can be promised.
* `AiScheduler`: the tasks of the runtime are polled, a request ends within its
  180 s, time passes. Nothing is assumed about submissions, moves, pauses and
  invalidations.

### Findings

`ReadingAuditResumed`: a job checkpoints a book and stops. The audit falls due.
The next job computes the same session identity, since the identity hashes the
stored REPAIR stamp, which is not replaced before the audit is acknowledged. It
resumes the checkpoints, compares nothing, and acknowledges the audit. The
comment above that code (changes.rs:369) says a new audit invalidates completed
work. The effect is bounded: the checkpoints were made by a job that compared
those books shortly before, and the next audit finds no session.

`ProgressSkewed`: a device whose clock is ahead takes several timestamps in one
millisecond (a save, an upload and a save get counters 0, 1 and 2 of wall time
2, say) and uploads again. Another device merges the later
position; `tick` takes over its wall time, not its counter. The other device's
next save gets the same wall time and a smaller counter, so it is older than
what it replaces. It is undone when the first device uploads its position again
(after any annotation). docs/webdav-sync-v1.md:30 promises that the newest
reading event wins.

`AnnotationCopies`: a copy keeps the clock of the version it was copied from
and so shares its history with the highlight. Device 1 shows Y. Device 2 retains
a conflict copy, retypes it to the text Y of the highlight, uploads, and then
edits the highlight to X. Device 1 compacts: the copy's clock is joined into its
highlight without counting an edit, and the result is the very clock of device
2's X. Y and X are now different texts under equal clocks; no merge will ever
touch them again.

`AnnotationLost`: a state file holds the annotations that its device wrote last.
Devices 1 and 2 edit a highlight to Y and to Z at the same time; Z prevails, and
both keep Y in a copy. Device 1 edits the highlight once more. Device 2 takes
that over, so its next file has the copy of Y and no longer the highlight.
Device 3 has merged only the first file of device 1: its highlight still shows
Y. It merges the copy, finds two live annotations of one text in one family, and
`compact` deletes the copy as a duplicate (annotation_merge.rs:170). The
tombstone spreads, device 3 replaces its highlight by the last edit, and Y,
which nobody who saw it replaced or deleted, is shown nowhere.
docs/webdav-sync-v1.md:32 promises to "retain the visible loser as a conflict
copy".

`AiLostWakeup`: a turn of the loop of `run` looks at the clock twice. The first
look, under the lock, finds the deadline in the future and refuses admission.
The second one (reading_ai.rs:390) chooses how to sleep: with a timer if the
deadline is still to come, and otherwise until `changed` is notified, because
then something other than time must have refused the call. If the deadline
passes between the two, the call sleeps without a timer although only time was
missing. The next event of another call or of the reader wakes it; while the
reader rests on the page there is none. With the two looks taken as one
(`ClockTears = FALSE`) the run `AiScheduler` and the theorem `NobodyForgotten` show
that nobody is forgotten. One look at the clock per turn would remove the case.

Two cases in derived.rs were found with `DerivedSync`. They are no runs of
their own, since no document promises the contrary; each is reproduced by
checking the formula given instead of the properties of `DerivedSync.cfg`.

* `(object # None /\ zip # object) ~> zip = object` is violated: two devices
  upload at the same time and the PUTs of zip and manifest interleave, or a
  process is killed between its two PUTs. Afterwards every download fails its
  checksum, and no device is dirty and uploads again. The failed download also
  ends the full sync it belongs to.
* `(object = None /\ zip # None /\ \A d \in Device : job[d].at = "idle") ~> object # None`
  is violated: after the server lost a manifest, the upload that planning
  decides on ends in `put_mutable_json`, which finds the bytes in the cached
  copy and sends nothing. Reading state and statistics drop the copy first.

Four more cases in annotation_merge.rs are no runs of their own either. The
constants not named are those of `AnnotationCopies.cfg`.

* `ConvergedFresh` is violated with `Device = {1, 2, 3}`, `Content = {X, Y}`,
  `Editable = Deletable = {"highlight"}`, `MaxStamp = 4`, `MaxEdits = 3`: devices 1
  and 2 delete a highlight at the same time. Of two tombstones of one text each
  device keeps its own, with its own stamp (lines 82-84). Device 3 has edited the
  note with a stamp between the two: the edit prevails on device 1 and loses on
  device 2, under the same joined clock, so the devices differ for good.
* `Converged` is violated with the same constants and two devices: one deletes a
  text, the other writes another text and then the first one again. The
  tombstone prevails where it meets the equal text, and has lost where it met
  the other one before.
* `HighlightConverged` (of `AnnotationMerge_proofs`) fails while clocks disagree,
  with `Device = {1, 2, 3}`, `Content = {X, Y, Z, W}`, `Editable = {"highlight"}`,
  `Deletable = {}`, `MaxStamp = 5`, `MaxEdits = 3`: device 2 edits the highlight (Z,
  stamp 4), device 3 has read that and edits with a clock that is behind (W, stamp
  3), device 1 edits at the same time (Y, stamp 2). On device 1, Z prevails over Y
  and then, under the joined history, over W; on device 3, W has replaced Z and
  prevails over Y. All three edits are in both histories now, and the texts differ.
* `NoneLost` is violated with `Device = {1, 2}`, `Content = {X, Y, Z}` and
  `Editable = {"highlight"}`: a highlight says Y, and a copy keeps the loser Z.
  The reader types Z into the highlight, and compaction removes the copy. Then Z
  loses another conflict. `retain_conflict` finds the tombstone, takes it for "an
  alternative the user already discarded" (line 126) and keeps nothing.

## 4. Proofs

All theorems hold for every value of the constants, and are about `Spec`
(safety needs no fairness). Those about `ReadingSync` assume `BoundsAssumption`
only, those about `ProgressClock` `ClockAssumption` (`NewestWinsSyncedAlways` and
`ConvergedSyncedAlways` also `Latency > 0`), those about `AnnotationMerge`
`MergeAssumption` (`HighlightConverges` also `~Skewed` and `"highlight" \notin
Deletable`), those about `DerivedSync` `DerivedAssumption` and
`WebDavAssumption`, those about `SyncSchedule` `ScheduleAssumption`, those about
`AiScheduler` `AiAssumption` and `CallFinite` (`NobodyForgotten` also
`~ClockTears`).

| theorem | module | states |
|---|---|---|
| `TypeCorrect` | `ReadingSync_proofs` | `Spec => []TypeOK` |
| `AckedUploadedAlways` | `ReadingSync_proofs` | `Spec => []AckedUploaded` |
| `IndexBackedAlways` | `ReadingSync_proofs` | `Spec => []IndexBacked` |
| `AckedSignalledAlways` | `ReadingSync_proofs` | `Spec => []AckedSignalled` |
| `AppliedMergedAlways` | `ReadingSync_merge` | `Spec => []AppliedMerged` |
| `AuditCheckpointedAlways` | `ReadingSync_merge` | `Spec => []AuditCheckpointed` |
| `ReadingImplementsDelivery` | `ReadingDelivery_proofs` | `Spec => DeliverySpec` |
| `CaughtUpAlways` | `ReadingDelivery_proofs` | `Spec => []CaughtUp` |
| `SchedulerSafe` | `AiScheduler_proofs` | `Spec => [](TypeOK /\ LaneExclusive /\ EvictedTold /\ QueueBounded)` |
| `AiTypeCorrect`, `EvictedToldAlways`, `QueueBoundedAlways` | `AiScheduler_proofs` | its parts, one by one |
| `NobodyForgotten` | `AiScheduler_proofs` | `Spec => []NoLostWakeup`, if `~ClockTears` |
| `PaidRequestsStay` | `AiScheduler_proofs` | `Spec => PaidRequestKept` |
| `ScheduleTypeCorrect` | `SyncSchedule_proofs` | `Spec => []TypeOK` |
| `NothingForgottenAlways` | `SyncSchedule_proofs` | `Spec => []NothingForgotten` |
| `LimitRespectedAlways` | `SyncSchedule_proofs` | `Spec => LimitRespected` |
| `FullStaysDueAlways` | `SyncSchedule_proofs` | `Spec => FullStaysDue` |
| `ClockTypeCorrect` | `ProgressClock_proofs` | `Spec => []TypeOK` |
| `StampsUniqueAlways` | `ProgressClock_proofs` | `Spec => []StampsUnique` |
| `NewestWinsSyncedAlways` | `ProgressClock_proofs` | `Spec => NewestWinsSynced`, if `Latency > 0` |
| `ConvergedSyncedAlways` | `ProgressClock_proofs` | `Spec => []ConvergedSynced`, if `Latency > 0` |
| `MergeTypeCorrect` | `AnnotationMerge_proofs` | `Spec => []TypeOK` |
| `MergedCoveredAlways` | `AnnotationMerge_proofs` | `Spec => []MergedCovered` |
| `HistoryGrowsAlways` | `AnnotationMerge_proofs` | `Spec => HistoryGrows` |
| `PublishesNewsAlways` | `AnnotationMerge_proofs` | `Spec => PublishesNews` |
| `HistoriesAgreeAlways` | `AnnotationMerge_proofs` | `Spec => []HistoriesAgree` |
| `HighlightConverges` | `AnnotationMerge_proofs` | `Spec => []HighlightConverged`, if `~Skewed` and `"highlight" \notin Deletable` |
| `ResolvedAlike` | `AnnotationMerge_proofs` | two devices that hold the two sides of a conflict resolve it to one version under one clock |
| `DerivedTypeCorrect` | `DerivedSync_proofs` | `Spec => []TypeOK` |
| `AckedUploadedAlways` | `DerivedSync_proofs` | `Spec => []AckedUploaded` |
| `MarkedKeptAlways` | `DerivedSync_proofs` | `Spec => MarkedKept` |

Argument for the upload theorems. The bare properties are not inductive: at the
moment of `AckReading` nothing in them says that the snapshot in hand was
uploaded and recorded. The strengthening says, per step of the job, what has
already been done for the book in hand: from `record` on, the state file on the
server is at least as new as `snap`; from `flag` on, the local index holds its
token; from `list` on, PENDING is set. It also relates `recorded` and `index`
to the uploads made.

Argument for `AppliedMerged`. An index may be worked off because each of its
books was merged in this job, or completed by a checkpoint, or unchanged since
it was worked off last. The invariant `MergeInv` consists of what is stored
(`StoredInv`: an applied digest, an applied index and a checkpoint each stand
for merged files; `DeviceInv`) and what the running job has in hand
(`PlanInv`): every planned-for token is merged already, or its book is still in
`todo`, in `fetch` or in hand with its file listed. A listed file is never
older than the planned token (`IndexBacked`), so merging what is listed covers
it. Books that are not part of the plan are the subject of `ShelfInv`
(`ReadingSync_proofs`): a book known to a device, that never left a shelf, is on
the own shelf, in a peer's library, or on its way.

Argument for `AuditCheckpointed`. `AuditInv` says of a resumable plan of an audit:
a book that is neither left to a loop of the job nor in hand carries its
checkpoint. `Prepare` leaves out of the plan's work exactly the books whose
checkpoint matches, `Checkpoint` writes one before the next book is taken, and
when the audit is acknowledged nothing is left.

Argument for `StampsUnique`. A new event is stamped by `tick`, beyond the
device's last timestamp. `Made` says that the last timestamp is not behind any
event of that device, anywhere; so the new one differs from all of them, and
the device id tells it from the others'.

Argument for `NewestWinsSynced`. `NewestWins` itself says nothing about what is
stored, so the invariant `SyncInv` carries, while all clocks agree: no
timestamp is ahead of the common time (`NoneAhead`); what a device merged has a
wall time strictly in the past (`MergedPast`, where `Latency > 0` enters);
therefore every event is stamped after all events it knew (`AfterKnown`). A
merge moves a device to a later event only, and an event known where the
present one was saved is an earlier one. `MergedPast` is what a clock that is
ahead breaks: then the counters decide, and `tick` does not take them over.

Argument for `ConvergedSynced`. Timestamps are unique, so events are ordered.
A device gives up its own position only for a newer one, so by induction there is
for every event a device that holds a position of its own making which is that
event or a newer one (`OwnerHolds`). Once nothing is left to upload this position
is in that device's file (`OwnUploaded`), and once all files are merged every
device holds it or a newer one (`MergedHeld`). So any two devices each hold a
position no older than the other's. `MergedHeld` needs that a later save does not
fall behind what was merged, hence agreeing clocks (`SyncInv`).

Argument for the theorems about `AnnotationMerge`. A merge goes through a file and
a compaction through the table, one annotation after the other, each a fold over
ids. The lemmas about single annotations say that each leaves a store a store,
forgets nothing, and counts as a change only with news (`Grows`); `MergedStore`
also that the incoming version is covered afterwards. They hold for any number of
annotations by induction over the set of ids that the fold has gone through. The provers cannot instantiate an
induction theorem for a predicate, so `SubsetInduction` speaks of a set of sets;
it follows from the well-foundedness of the strict subsets of a finite set. The
invariant `MergeInv` adds `MergedCovered` for the files merged so far: since
histories only grow, what was covered stays covered until the file is replaced.
`HistoriesAgree` rests on `AgreeInv`: a device with nothing to upload has what it
wrote itself in its file (whatever changes the table says so), and every
annotation anywhere has its history in the file of some device. Once all files are
merged, each device covers that file, so histories cover each other both ways.
`ResolvedAlike` is about the operators alone: `Winner` is symmetric for versions of
different stamps, except of two tombstones of one text, where each device keeps
its own. The exception is the one that keeps three devices apart (end of section
3).

Argument for `HighlightConverges`. `HighlightConverged` says that devices with nothing
left to upload or to merge have one text, stamp and history of the highlight, if
no text was written twice. Histories are equal by `HistoriesAgree`, so it is enough
that a history determines its version. `RecordInv` keeps a record of what readers
wrote: of each text the stamp, and for each device the stamps of its edits of the
highlight in order. Every live version that has a text of the highlight, in any
table or file, is the latest of the edits in its history (`Latest`). An edit is: it
comes after all that its device has merged, for clocks agree, and the highlight
on a device has all edits of that device in its history (`Own`), so the new entry
is counted once. A merge is: of two versions the later prevails, and is the
latest of the joined history. Compaction joins the history of a copy with that of
the highlight if both have one text. Then the copy was never edited, for an edit
gives it a later stamp than the one in its id, and keeps it from prevailing over
edited ones (`Shows`), so no edit of a copy gets into the history of the highlight.
Neither premise can go (end of section 3); a text that is written again has two
stamps, and the record none for it.

Argument for the theorems about `DerivedSync`. Data that no server has stays where
it was derived, and its marker, once written, names it (`Unsent`). A job reads the
revision before it exports the data. So if the data is still the revision the job
began with, the job has that very version in hand (`JobExported`) and, before it
acknowledges the revision, has uploaded it or found it on the server. A download
is imported only if the revision is the one read first, so what it replaces was
uploaded or is not marked (`FoundUnmarked`). `JobHistory` says that what a job takes
from the server was once uploaded, also when it comes from a cached copy.

Argument for `ReadingImplementsDelivery`. A merge replaces a merged file by a
newer one only, so newer files must carry no fewer changes, and none that was
not made. `ForwardInv` says so of every copy that can still be merged: the file on
the server, the merged ones, and the listed ones of running jobs (`AllPast`);
the next upload, whose revision is `snap`, must not fall behind any of them even
if the file on the server is lost (`Past`). A listed file that is newer than the
merged one then carries no less (`ListedForward`), and each step of `ReadingSync`
maps to `Make`, `Receive` or a stutter.

Argument for `CaughtUp`. Uploads of one device for one book lie on a line: of two
tokens or files the one of the later upload carries no smaller revision, and what
is acknowledged is the revision of an upload (`LineInv`). All that circulates lies
on the line: the file on the server, what others listed and merged, the tokens
of both indexes, also after stops and repairs; `Sourced` says where a step took
them from. If nothing is pending, the announced token carries the acknowledged
revision, which is the present one. By `AppliedMerged` the merged file is no
older, so it carries no less, and by `ForwardInv` no more.

Argument for the theorems about `AiScheduler`. The limits hold by induction
together (`Safe`): a call is admitted only where its lane has nobody that was
not told to stop, and preemption tells before it admits. For the queue, an
eviction takes a waiting entry out as the new one comes in, and cardinalities of
finite sets do the rest. `NoLostWakeup` needs that a call sleeps without a timer
only after its deadline (`ParkedDue`, where `~ClockTears` enters), and then looks at
each action: those that notify leave nobody asleep; admission and preemption
notify nobody, and can make a call ready only by leaving an active request that
will notify when it ends.

Argument for the theorems about `SyncSchedule`. `IInv` has two parts beside the
types. `OwedKept`: memory and file each ask for what is owed, the file after
restoring; while a job runs, its own copy together with its mode asks for it; and
the file differs from memory at most by a full check that fell due in between
(`Linked`), which is why a save that fails loses nothing. `LimitKept`: each of
them knows a limit no shorter than the server's (`Knows`), and no job starts
from a schedule that knows one.

Argument for `FullStaysDue`. `DueInv` adds the ages: memory and file hold the same
age of the last full check, since both grow with every tick, and so does the job's
copy; unless the job is a full sync itself, that copy asks for one if memory does.
So no save, failing save, restart or end of a job loses a full check that is due.

Model-checked only:

* `ConvergedFresh`, `NoneLostFresh`, `Quiet` of `AnnotationMerge`. They relate the
  tables of all devices to everything that was ever written, and the run
  establishes them for two devices, for which alone they are true, and with
  deleted highlights and clocks that disagree. What holds in general is
  `HistoryGrows`, `PublishesNews`, `MergedCovered`, `HistoriesAgree`, `ResolvedAlike`
  and `HighlightConverged`. The last needs three devices to say more than
  `ConvergedFresh`, too many for a run that lets them settle. Stronger, and with
  three edits within TLC's reach where every device uploads at most once and the
  author twice, is what `RecordInv` says of two devices at any time: equal histories
  of the highlight have equal versions. TLC finds no violation, and finds the one of
  section 3 as soon as clocks disagree.
* The liveness properties `Delivered`, `DirtyAcked`, `Converges`,
  `FullNotPostponed` and `Served`: liveness under fairness is out of the proof
  system's reach.

## 5. Not modelled, and the plan

In this order:

1. `Quiet`, `ConvergedFresh` and `NoneLostFresh` of `AnnotationMerge` as theorems
   about two devices, from an invariant that relates the versions of one stamp
   and of one clock.
2. Of `ReadingSync`, the counterpart of `CaughtUp` on the way to `Delivered`: a change
   that is not merged yet is pending, announced or planned.
3. The metadata document of derived.rs, which is merged field by field, and the
   event files of the statistics, both on top of `WebDavObject`.
4. The gate of the WebDAV client (pace and cooldown) between several clients of
   one process, composed with `SyncSchedule`.
5. The monitor of the desktop host, which observes marks and starts jobs in two
   steps, as a second host of `SyncSchedule`.
6. The credentials vault: reload before write under a process lock.

By module:

* Left out of the modelled components: see the paragraphs of section 2.
* Left out for now: book files, manifests and covers (content-addressed and put
  once), statistics, credentials, fonts, translation cache, portable settings.
* Left out for good: parsing, layout and drawing (pure functions over large
  data, most of the lines of the repository), prompts and model answers, user
  interface and platform code, vendored code; the encryption of credentials and
  the wording of messages.
