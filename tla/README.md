# msgvault: TLA+ models and proofs

msgvault archives mail, chats, calendars and meeting notes into one SQLite (or
PostgreSQL) database. A daemon owns the database: commands talk to it over
HTTP, a scheduler inside it pulls new mail, and destructive operations on the
mail server run through it. This directory holds models of the parts where the
order of steps decides whether a message is lost, deleted by mistake or
corrupted, the TLC configurations that check them, and proofs of what they keep
true for every value of the constants.

    cd tla
    tlasany M.tla                        # parse
    tlc -workers 2 -config X.cfg M       # model-check (table of runs below)
    tlapm X_proofs.tla                   # check the proofs of one component

## 1. Inventory of the system

The daemon (`cmd/msgvault/cmd/serve.go`) is one process. Its actors are HTTP
handlers, cron goroutines, the goroutine that opens the vector index, the
goroutine that builds the search index, the idle timer and the main goroutine
that shuts everything down. The archive is shared by all of them; the operation
gate makes the ones that write take turns.

    client --HTTP--> idle tracker -> operation gate -> handler --> store
    cron ticks, POST /sync/{account} -> scheduler -> idle tracker -> gate -> sync / job / embedding --> store
    idle timeout, signal, POST shutdown -> context -> main: drain, server, scheduler, gate, vector set-up, close

| Component | State | Operations | What is hard | Correct when |
|---|---|---|---|---|
| Operation gate (`internal/api/operation_gate.go`) | a channel of one slot, active work, holder, waiting requests, drain flag | begin (request or background), release, start drain, wait | a caller takes the slot and then finds its context ended or the gate draining; the channel and the mutex-guarded counters change in different steps | one worker; the slot is never lost or doubled; waiters are woken; nothing starts after the drain |
| Idle tracker (`internal/api/idle.go`) | open requests, open work, drain flag | begin and end of a request or work, decision to stop | decision against arrival | never stops under something it counts |
| Scheduler (`internal/scheduler`) | running flag per account and job, wait group, stop flag and context | cron tick, trigger, run, post-sync embedding, yield, stop | a tick, a trigger and a stop race; a refusal must undo what was claimed | one run per account; no flag left behind; stop waits for all; requests get in |
| Daemon shutdown (`serve.go`) | context, phase | signal, cancel, drain, stop of server and scheduler, waits with limits | five waits in sequence, each with a limit, over actors that hold each other's resources | the archive is closed under nobody the shutdown knows of; the shutdown ends |
| Gmail sync (`internal/sync`, `internal/store/sync.go`) | cursor of the source, `sync_runs` rows with a page token, error items | full sync, incremental sync, checkpoint, resume, yield | the mailbox changes meanwhile; calls fail one by one or together; kill between two writes; expiry of the history | nothing behind the cursor is missing without a record, or a log line where the record could not be written; the cursor catches up |
| Staged deletion (`internal/deletion`, `cmd/.../deletions.go`) | manifest file in one of five directories, server, archive marks | execute (trash, permanent, batch), retry, cancel | checkpoints every 100 messages, move and rewrite of the file are two steps, calls may have their effect and fail | the record in the file is true, marks agree with the server, cancelled means cancelled |
| Backup (`internal/api/backup_freeze.go`, `cmd/.../backup.go`, `internal/backupapp`) | lease on the gate, watchdog; in the backup process the checkpointed and the pinned database, what is left to capture | begin, end, expiry; checkpoint, pin, scan, capture, publish | the watchdog fires while end is on its way, requests arrive late, the backup dies; attachments move while it captures them | the image is whole or the backup fails; the gate comes back; an attachment reported missing is gone |
| Attachment storage (`internal/store/packs.go`, `repack.go`, `pack_restore.go`, `remove_account.go`, `attachment_maintenance.go`) | loose files, pack files, pack records and mappings, attachment rows | store and record, remove account, pack, sweep, repack, unpack, restore, read | files and rows change in different steps, a kill falls between any two; blobs move under readers | a referenced blob is where its row says; nothing referenced is lost; garbage goes |
| Embedding and vector index (`internal/vector`, `internal/scheduler/embed_job.go`) | stamp per message in the main database; vectors, watermarks and generations in `vectors.db` | scan, embed, stamp, drain, advance, backstop, promote; build, retire, activate; repair-encoding | no transaction spans both databases; a message changes between read and stamp; commands act on what they saw before | a stamp tells the truth; nobody falls behind the watermark unnoticed; the index catches up |
| Gmail client (`internal/gmail`) | token bucket, throttle window | calls with retry, batches | waiters computed from an old window | one batch's failure means what the sync takes it for |
| Analytics cache (`cmd/.../build_cache.go`, `cache_staleness.go`) | Parquet files per table, state file with the greatest id, the second of the build and the counters of the sync runs | incremental and full build, staleness check | the archive changes between the export of two tables; a build dies between the tables and the state file; the check is asked long before the build | a cache called fresh shows the archive; rebuilds end |
| Calendar sync (`internal/calsync`, `internal/gcal`) | sync token per calendar, `sync_runs` rows with a page checkpoint and its kind, event rows | full and incremental pass, resume, limited listing, recovery of an expired token | events change between pages and between runs; an event is written in steps; cancellations carry no content | no change behind the token is missing; content is never wiped; one calendar does not block another |
| Deduplication, importers, IMAP, chat and meeting sources, authentication, TUI, MCP, client, configuration | rows or files of their own | single passes or request/response | a stored cursor or checkpoint at most | see `PROJECT.json` |

`PROJECT.json` lists all of them with their source files and the reason where a
part is not modelled, and under `hazards` the places in the code where an order
of steps or a failure could do harm that a unit test would hardly reach.

## 2. Modules

| Module | Models | Role |
|---|---|---|
| `AbstractGate` | what the gate promises: one worker, no start after closing | abstract specification |
| `OperationGate` | `SerialOperationGate`, down to the channel's queue of parked senders | refines `AbstractGate` |
| `Daemon` | requests, scheduler, idle tracker, vector set-up, index build and shutdown, on `AbstractGate` | composition |
| `GmailSync` | full and incremental sync of one source against a changing mailbox | component |
| `MCGmailSync` | | the sets of queries for `GmailSync` |
| `Deletion` | one manifest, the executor and the cancel command | component |
| `Attachments` | attachment rows, loose files, packs and their metadata, and everything that writes or reads them | component |
| `MCAttachments` | | the symmetry of `Attachments` |
| `Backup` | the backup process, the freeze of the daemon's gate, the writers it meets | component |
| `Embedding` | the embedding worker, generations and watermarks, edits, repairs and operator commands | component |
| `CalendarSync` | full and incremental passes over the calendars of an account, the events changing meanwhile | component |
| `MCCalendarSync` | | the sets of options for `CalendarSync` |
| `AnalyticsCache` | builds of the Parquet cache and the check of its staleness, with the sync runs, deletions and hidden duplicates they compare | component |
| `OperationGate_proofs`, `Daemon_proofs`, `GmailSync_proofs`, `Deletion_proofs`, `Attachments_proofs`, `ArchiveImages_proofs`, `Embedding_proofs`, `CalendarSync_proofs` | | theorems and proofs; `ArchiveImages_proofs` is about `Backup` and `AnalyticsCache`, the others about the component of their name |

`Daemon` uses `AbstractGate` where the code uses the gate. That is sound because
`OperationGate` is shown to implement it (checked and proved), and because two
more facts about the gate the composition relies on are shown there: the queue
is first come, first served and every queued call returns (`EveryCallReturns`),
and the count of waiting requests that makes runs yield is exact
(`WaitersCounted`). `GmailSync`, `Deletion` and the worker of `Embedding` model
one run at a time for the same reason: the gate lets one of them run. The
holder in `Backup` is the gate too, reduced to who has it. `Attachments` models
the leases of the attachment store itself, since several syncs share them.

### OperationGate

Each caller has a program counter whose places are the points of
`BeginLabeledWorkContext` between which another goroutine can run: `entering`
(context check), `selecting` (the `select`), `parked` (blocked in it), `acquired`
(slot taken, context looked at again), `admitting` (mutex), `giveback`,
`refused`, `admitted`, `working`, `releasing`. `ahead[c]` is the set of callers
parked before c; a receive from the channel hands the slot to the one with
nobody ahead, as the Go runtime does. `select` chooses nondeterministically
among ready cases. A context may end at any point before the release (`Cancel`),
a drain may start at any point. The wait limit of requests is a context that ends.

### Daemon

Threads are requests that mutate (`Request`), requests that read (`Reader`),
runs of an account (`SyncRun`: cron tick or `TriggerSync`), runs of a generic job
(`JobRun`), ticks of the embedding job, the vector set-up and the goroutine of the
search index, which reads the archive (`probing`) before it asks for the gate.
`pc` takes them from `arrived`/`ticked` over `claimed` (flag and wait group
taken), `asking` (counted by the idle tracker), `queued`, `working`, `embedding`
(post-sync pass in the same hold) to `ending`, where the deferred calls in `todo`
are made one by one in the order the code makes them: `runSync` releases the
gate and the tracker and then clears the flag, `TriggerJob` clears the flag
first. A refusal undoes exactly what was taken. `RunStops` is the context of
`jobContext`: a queued request or the stop of the scheduler ends the run; a run
may also end on its own at any time (`RunEnds`) but nothing makes it.
`StopScheduler` joins the three statements of `Stop` (flag, `cron.Stop`,
`cancel`) in one step: between them no thread can be observed to behave
differently, as the gate drains by then. The main goroutine goes through the
phases of `runServe` and `shutdownServeRuntime`; each wait with a limit has a
second exit, `WaitRunsOut`, that records in `timedOut` that it was taken.

### GmailSync

The mailbox is its history, a sequence of records (message added, deleted,
label set, label cleared). Messages are numbered by arrival and listed newest
first. The database is the cursor, the latest `sync_runs` row with status and
token, the archived messages, their deletion marks and labels, and the error
items. A full sync reads the profile, lists page by page, fetches, checkpoints,
stores the profile's history id as cursor and completes; an incremental sync
replays history pages from the cursor, applying labels, fetching, marking
deletions. `StartSync` fails the running row of the source whoever started it;
`FullStart` resumes a running row unless `--noresume`. Failures: a list or
profile call (`CallFails`), single messages of a batch (`FetchPage`), the batch
(`FullFetchCanceled`, `IncFetchCanceled`), the deletion mark (`IncMark`), the
write of a label change (`ApplyLabels`: passed over and only logged;
`staleLabels`), the write of an error item itself (`RecordErrors`: only logged;
`lostItems`), the writes of checkpoint, cursor and completed row (`BestEffort`: logged only), the
context (`Cancel`, the only way a yield, a Ctrl-C or a shutdown is seen here), a
kill at any step with any part of the page applied (`Kill`), expiry of the
history the cursor needs. A token of a history page may meet the list call of a
resumed full sync, which rejects it (`FullListRejected`).

### Deletion

The manifest's file is in one directory per status and also carries a status
inside; `Save` truncates and rewrites, moves are renames. A save that fails or
is killed (`CutShort`) leaves the old file, where it was not opened yet, or one
that does not load (`Torn`).
`step` and `phase` follow `Execute` (trash, message by message, a save every
`CheckpointAt`) and `ExecuteBatch` (retry of earlier failures, batch calls of
`BatchLimit`, single calls where a batch failed). Faults are chosen by kind:
failed calls that may have had their effect, missing permission, interruption,
failed archive update, failed save, and a kill of either command.

### Attachments

A step is one transaction or one change of the file system, and a kill may fall
between any two (`Kill`). `rows` is the attachment table, `loose` the canonical
files, `file` the entries of each pack file, `record` and `index` the two pack
tables. A sync is `StartSync`, `StoreAttachmentFile` (the file before the row),
`UpsertAttachment` (which may be refused), `EndSync`; `RowGoes` is whatever else
deletes a row. remove-account takes three steps, as the code does: the paths that
only the source uses are collected (`AttachmentPathsUniqueToSource`), the rows go
(`RemoveSourceSerialized`), the files go (`DeleteOrphanedAttachmentFiles`), and
the running syncs are looked at again under the lock. `pass` names the step at
which a maintenance pass stands: packing (dangling mappings, prune, orphans
adopted or deleted, pack written, sealed and recorded, sweep of the loose files),
repacking (prune, retire empty packs, `SealRepack` and `CommitRepack`, which
compares the mapping with the one that was copied, retire the old), unpacking. A
restore leaves `restored = "clearing"` until `ClearAttachmentPackMetadata` or
`ReplaceRestoredPacks`. Readers resolve a blob (`ResolveAttachmentBlob`), open
what they were told (`Open`) and look once more when it has moved. No pass runs
beside a sync or a removal: that is the mutation lease. The pack engine is a
library; what it does is taken from its use in `internal/store`.

### Backup

The backup is a process of its own (`pc`), the daemon's side of the freeze is
`active`, `token`, `watchdog` and the holder of the gate. `BeginReserves` opens
the window before the gate is asked for; `Acquires`, `GivesUp` and `Answers` are
the rest of the begin handler. Three parties may end a freeze: `HandleEnd`,
`WatchdogFires` with `ReleaseOnWatchdog`, and a begin whose caller is gone; each
takes the release function under the lock and calls it outside (`Release`), so
`releasing` holds the releases in hand. In the backup, `Checkpoint`, `Pin`, the
End request, `Scan` of the attachments, `OpenBlob`, `OpenRecordedPath` and
`OpenAgain` per attachment, `Publish`. `Die` falls anywhere and may leave an End
request on its way. Writers ingest, pack, remove loose files, rows and files, all
under the gate.

### Embedding

Stamps live in the main database, vectors, watermarks and generations in
`vectors.db`, so every write of one of them is a step of its own. `fresh` holds
the rows whose `last_modified` is still the one the worker read, and a stamp lands
only on those. A change of a row sets it to the present second (`Touch`): it takes
the row out, or, in the second of the read, leaves it there, and in `unseen` if its
text changed. `lies` remembers the stamps that rest on such a change, or on one a
killed sync did not clear: Gmail's sync stores text and stamp in one transaction
(`UpsertMessage`), the other importers in two statements (`UpsertMessageBody`, then
`ClearStamp`, or `ClearStampFails`), with `storing` in between. A removed row leaves
its vectors behind, and since `messages.id` has no AUTOINCREMENT the next message
takes the id above the highest there is (`Arrive`), below watermarks that have
passed it. A batch is
`ScanForEmbedding`, `EmbedBatch`, `StampSkippedBatch`, `StampCovered` row by row,
`AdvanceWatermark`; a refused text sends the batch through the `Drain` actions
row by row; `BatchFails` and `DrainFails` are the other errors. `RunEnds` goes on
to the backstop when it is due and to the activation (`CountMissing`,
`PromoteBuilt`). Runs come from the schedule (`EmbedJobRun`) or the command line
(`BuildCommand`); an operator's retire or activate is a check
(`EmbeddingsCommand`) and a later transaction. repair-encoding commits texts
(`RepairText`), then resets stamps (`ResetEmbedGen`), then lowers the watermarks
(`ResetWatermarkBelow`).

### CalendarSync

A calendar on the server is `clock`, `changed` and `status`: the time of each
event's last change and what it then was. A sync token is the time its listing
began and a page token that time and a position; both are assumptions about the
service (external), as is that a full listing shows cancelled events. A pass
(`Begin`, `NextCalendar`, `PassEnds`) visits the calendars in any order and lists
each in full or from its token: `ListEvents` a page, `EventStored` or `EventFails`
event by event, `PageDone` with the checkpoint, `AdvanceCursor` and `CompleteSync`.
A full listing resumes the page token of a running row of its own kind
(`ResumeToken`), an incremental one starts from the stored token. A limited pass
(`opts.limited`: the limit is reached or a window given) may leave out any event; a
limit that is not reached is a pass with `noResume`. The answer 410 leads through
`TokenRejected`, `ClearCursor` and `Resync`. An event's row, metadata and body are
written in steps (`PartlyIngested`), so `EventFails` and `Kill` leave any
beginning of them.

### AnalyticsCache

The archive is `messages` (there, deleted at, hidden at and into which survivor,
labels, attachments stored) and the rows of `runs`, whose counters enter
`SyncCounters` once a run has ended. The counters are the sets of what has been
counted (a message added, one change of labels, a failed run): they only grow and
nothing is counted twice, so two readings are equal when the sums the code compares
are. A sync writes a message in one transaction (`PersistMessage`) and its
attachments behind it (`StoreAttachments`), and counts both, as it does changes of
labels, in memory (`tally`). `SaveCheckpoint` brings the counters to the row;
`CompleteSync` does not, and may end a run whose last checkpoint failed. A killed or
cancelled run (`KillSync`) leaves its row running: an incremental sync fails it
(`StartSync`), a full one goes on with it from its checkpoint (`ResumeSync`).
`HideDuplicate` is a merge, which gives the survivor the duplicate's labels and is
counted by the mark of the duplicate alone. A build goes from `Begin` (second,
state file, greatest ids) over `Decide` (counters; full, incremental or nothing to
do; a full one clears the tables), `ExportMessages` and `ExportRest` to
`WriteState`, which looks at the counters again and discards the cache when a run
has ended meanwhile; `BuildFails` falls between any two and leaves the files as
they are. Whoever wants a build asks `NeedsBuild` first (`RebuildIfStale`,
`RebuildAfterWrite`), save `build-cache`, which also stands for a check that was
answered some time before its build. `missed` and `torn` are ghosts: they name
what `FreshIsTrue` has to except, see section 6.

## 3. Runs

Times are for two workers. `CHECK_DEADLOCK FALSE` is set in the runs of
`Daemon`, `Deletion`, `Backup` and `Embedding`: there the system really comes to
rest (daemon closed, batch done, backups over, index complete). The other runs check deadlock. Type invariants are
proved for all constants (section 4) and not checked again.

| Run | Configuration | Bounds | Properties |
|---|---|---|---|
| `gate` | `OperationGate.cfg` | 2 requests, 2 background callers; 54 thousand states | `MutualExclusion`, `SlotConserved`, `WaitersCounted`, `NoWorkAfterDrain`, `EveryCallReturns`, `ImplementsAbstractGate` |
| `daemon_safety` | `Daemon.cfg` | 1 request, 1 reader, 2 runs of one account, 1 embedding tick, set-up, index probe and build; 2.3 million states, 60 s | `StoreOutlivesWork`, `IdleInterruptsNothing`, `OneRunAtATime`, `NoStuckFlag`, `GivenBackOnce` |
| `daemon_live` | `DaemonLive.cfg` | 1 request, 1 sync run, 1 job run, 1 embedding tick, set-up; 73 thousand states | `RequestsGetIn`, `ShutdownEnds` |
| `gmail` | `MCGmailSync.cfg` | 3 history records, pages of 1, 2 faults, resume or not; 970 thousand states, 155 s | `ChangesLieAhead`, `NothingLostAfresh`, `CatchesUp` |
| `gmail_resume_loss` | `GmailSyncResumeLoss.cfg` | 3 records, 1 fault, resume | `NoSilentLoss`, violated; see section 6 |
| `deletion` | `Deletion.cfg` | 5 messages, checkpoint and batch of 2, 3 faults; 930,000 states, 40 s | `ProgressIsTrue`, `MarksAreTrue`, `CancelledIsFinal`, `FailuresTriedAgain`, `EveryBatchEnds` |
| `attachments` | `MCAttachments.cfg` | 2 accounts, 2 blobs, 3 packs, 1 reader, 1 fault, 1 removal, symmetry | `Readable`, `NothingLost`, `ReadsFindIt` |
| `attachments_live` | `AttachmentsLive.cfg` | 1 account, 2 blobs, 2 packs | `GarbageGoes` |
| `backup` | `Backup.cfg` | 2 backups, 1 writer, 1 attachment, 3 changes of the database; 548 thousand states | `FrozenSnapshot`, `MissingIsGone`, `OwnThaw`, `GateComesBack`, `AskingIsAnswered` |
| `embed` | `Embedding.cfg` | 2 messages, 2 generations, batches of 2, 1 edit, 1 command or fault; 1.8 million states, 3 min | `CoveredIsCurrent`, `StragglersExcused`, `ServesUntilReplaced`, `IndexCatchesUp` |
| `calendar` | `MCCalendarSync.cfg` | 1 calendar, 2 events, 3 changes, pages of 1, 2 faults, 1 pass by hand with any options; 449 thousand states | `NothingMissedBehindCursor`, `ContentKept`, `CatchesUp` |
| `cache` | `AnalyticsCache.cfg` | 2 messages, one of which is relabelled once or deleted and hidden, 2 sync runs, 2 seconds, 1 fault; 961 thousand states, 170 s | `FreshIsTrue`, `BuildSettles`, `CacheCatchesUp` |

What the runs show, in a sentence each:

- **gate**: through every order of sends, refusals, cancellations and a drain,
  one caller works, the slot is neither lost nor doubled and the waiting count is
  exact; every queued call returns. Two callers of each kind give every pair of roles (holder and
  waiter, request and job, first and second in the queue) plus one bystander.
- **daemon_safety**: whether the shutdown begins by idleness, request or signal,
  and whichever of its waits runs out, the archive is closed under no worker and
  no running set-up unless the drain limit itself ran out. When no limit ran out,
  one goroutine alone can still have the archive in hand, the probe that precedes
  the build of the search index: `StoreOutlivesWork` names it, and it does happen
  (section 6). The idle shutdown
  begins under nothing it counts; a tick, a trigger and an ending run never make
  two runs of an account, no path leaves the running flag behind, and a
  deferred call never gives back what another still holds or nobody does: the wait
  group is not left once too often (Go would panic), and the guards against negative
  counts in the idle tracker are never needed. Two runs of
  one account are the smallest number that can collide; two overlapping ticks of
  a generic job in place of the reader, the embedding tick and the index build
  were also checked (2.4 million states) with the same result.
- **daemon_live**: no run ends by itself in this run, yet a queued request
  gets its answer, and a shutdown that has begun ends without any limit running
  out.
- **gmail**: as long as no full sync goes on from an old list token
  (`gmail_resume_loss` is about those), full and incremental syncs lose nothing
  behind the cursor without a record of it, or at least a line in the log where
  the write of the record failed too; a label or a deletion on which the archive
  disagrees lies ahead of the cursor, or its write failed; scheduled syncs bring
  the cursor past every change although syncs fail, are killed or resumed, or the history expires.
  With 3 records there are pages before and behind the one in work, a message
  that arrives while the run lists and one that is deleted or labelled before it
  is fetched; two faults are an interruption and a failure of the run after it.
  `NothingLostAfresh` says `[]~ResumesList => []NoSilentLoss`, so that one run has
  both kinds of resumption; the invariant itself was also checked without
  resumption, with 4 records and one fault.
- **deletion**: the record in the manifest is true whenever a run may
  resume from it, marks and server agree, a retried batch tries every failed
  message again. 5 messages with batches and checkpoints of 2 give a full batch,
  a last short one, and a checkpoint in the middle; 3 faults allow a failed batch
  call, a failed single call and a kill in one behaviour, or a failed save of
  cancel-deletion and two in the execution that follows it. 4 faults were also
  checked (4.3 million states, 3 minutes). A cancelled batch is not executed again
  while no file in a final directory has another status inside (`Stale`; section 6).
  Repeated runs end the batch, through kills and failed writes too, unless one of
  them has left the file where no command takes it up (`Stranded`, section 6).
- **attachments**: through syncs, the removal of an account, packing, repacking,
  unpacking and a restore, interrupted anywhere, a referenced blob is where its
  mapping says or loose, the last copy of a referenced blob never goes, and a
  reader whose blob moves once finds it at the second look. Two accounts share or
  do not share a blob, three packs allow a repack of two into a third.
- **attachments_live**: files and pack entries nobody references go away as long
  as maintenance is run.
- **backup**: the image a backup publishes is of one version of the database, and
  of the one the checkpoint wrote; an attachment is reported missing only if it
  is gone; a backup ends no freeze but its own, however late its request
  arrives; the gate comes back although a backup may die or hang, and a begin
  request is answered. Two backups are needed for a stale End, three changes
  for one before, one within and one after the capture.
- **embed**: a stamp tells the truth about the vectors but where the code lets it
  lie (section 6), nobody but a row that changed or took over an id is left behind
  a watermark, a serving generation stops only for its successor or by force, and
  the index ends up complete. One edit is a change, a removal (a new row may then
  take the id) or the first half of a stored body; one event is a command, a
  failing call or a kill. The safety part was also checked with 2 edits and no
  event (1.8 million states), and with 3 messages and one generation (5.6 million).
- **calendar**: whatever is limited, resumed, cancelled, killed or failed, the
  stored token passes no change the archive has missed, and a cancellation or an
  older delivery never takes an event's content away. Two events on pages of one
  give a listing with a middle to be interrupted in, three changes one before,
  one within and one after it; two faults a cancellation and a failure in the run
  that resumes. Calendars share nothing but the order of the pass.
  Scheduled passes bring the calendar up to date although its token expires, its
  clearing or the listing behind it fails.
- **cache**: wherever syncs, label changes, deletions and merged duplicates fall
  between the tables of a build, and wherever a run is killed, resumed or completed
  behind a failed checkpoint or a build is killed, a cache that the check calls
  fresh has every exportable message, no hidden one, each
  once, with its marks, labels and attachments; what is excepted is listed in
  section 6. A build into which nothing fell leaves a cache the check accepts,
  failed runs and an empty archive included, and the check does not ask for
  rebuilds for ever. Two messages give
  an incremental build an older and a newer side, two runs one that is counted
  and one that is not yet or failed; marks and a build may fall into one second
  or into two, the resolution of the comparison.

Each property of a passing run has a mutant in `PROJECT.json`: a definition of
the module changed the way a plausible mistake in the code would change it
(marked `Mutant:` in the modules), under which TLC finds the property violated.

### Fairness

- Gate: every goroutine that can run runs, and work under the gate ends. Nothing
  forces callers to come, contexts to end or a drain to start.
- Daemon: goroutines run; requests, the vector set-up, the index probe and build end
  (they are bounded by their data); a run ends once its context is cancelled,
  which is what the sync loops, jobs and the embedding worker check their context
  for between items. A run that is not cancelled need not end, a request need not
  give up, limits need not run out.
- Gmail sync: a run in progress goes on, the schedule starts incremental syncs
  again and again. No full sync by hand is assumed.
- Deletion: a command in progress goes on, the user runs delete-staged again as
  long as it accepts the batch.
- Attachments: a sync that runs ends, a removal and a pass go on to their end, a
  restore is cleared; packing and repacking are started again and again. Nobody
  has to remove anything or to read.
- Backup: the daemon's handlers, watchdog and releases go on, writers finish. A
  backup may hang or die at any point.
- Embedding: the scheduler ticks, the worker and a repair in progress go on, the
  interval of the backstop passes. Edits, commands and faults are bounded, which
  stands for "once they cease".
- Calendar sync: the scheduler starts passes, and a pass in progress goes on.
  Faults and passes by hand are bounded.
- Analytics cache: time, runs and builds in progress go on. A rebuild that the
  check asks for is strongly fair: scheduled syncs ask again and again, the mutex
  of the builds passes nobody over for ever, but `build-cache` by hand may come
  between, so weak fairness would promise less than the code does.

## 4. What is proved

Each `*_proofs` module proves its theorems for every value of the constants, from
the named assumption of the component only (`GateAssumption`,
`DaemonAssumption`, ...: sets are finite and disjoint where the code's are, bounds
are natural numbers). Theorems whose property a run checks state that very
definition; `PROJECT.json` lists them all.

| Module | Theorems (property) | For every |
|---|---|---|
| `OperationGate_proofs` | `GateTypeCorrect`, `GateMutualExclusion`, `GateSlotConserved`, `GateWaitersCounted`, `GateNoWorkAfterDrain`; `GateNoLostWakeup` and `GateNoAdmissionWhileDraining`, which no run repeats; `GateImplementsAbstractGate` (refinement) | finite set of callers |
| `Daemon_proofs` | `DaemonTypeCorrect`, `StoreClosedLast` (`StoreOutlivesWork`), `IdleStopsIdle` (`IdleInterruptsNothing`), `OneRunOfEach` (`OneRunAtATime`), `FlagsAreCleared` (`NoStuckFlag`), `NothingGivenBackTwice` (`GivenBackOnce`) | finite sets of threads of each kind, accounts and jobs |
| `GmailSync_proofs` | `SyncTypeCorrect`, `NothingIsLost` (`NothingLostAfresh`, assuming full syncs list everything), its corollary `NothingIsLostAfresh` (`NoSilentLoss` under `--noresume`), `DisagreementLiesAhead` (`ChangesLieAhead`); `CursorNeverGoesBack`, which no run repeats | length of the history, page size, number of faults |
| `Deletion_proofs` | `DeletionTypeCorrect`, `RecordTellsTheTruth` (`ProgressIsTrue`), `MarksTellTheTruth` (`MarksAreTrue`), `NoFailureIsDropped` (`FailuresTriedAgain`), `CancelledForGood` (`CancelledIsFinal`) | number of messages, checkpoint and batch size, faults |
| `Attachments_proofs` | `AttachmentsTypeCorrect`, `AlwaysReadable` (`Readable`), `NothingEverLost` (`NothingLost`), `ReadsAlwaysFindIt` (`ReadsFindIt`) | accounts, blobs, packs, readers |
| `ArchiveImages_proofs` (backup) | `BackupTypeCorrect`, `ImageIsWhole` (`FrozenSnapshot`), `OnlyOwnThaw` (`OwnThaw`), `OnlyGoneIsMissing` (`MissingIsGone`) | backups, writers, attachments |
| `ArchiveImages_proofs` (analytics cache) | `CacheTypeCorrect`, `FreshCacheIsTrue` (`FreshIsTrue`), `BuildsSettle` (`BuildSettles`) | messages, seconds, sync runs, changes, faults |
| `Embedding_proofs` | `EmbeddingTypeCorrect`, `StampsNeverLie` (`CoveredIsCurrent`), `NobodyLeftBehind` (`StragglersExcused`), `ServingGoesOn` (`ServesUntilReplaced`) | messages, generations, batch size, failures |
| `CalendarSync_proofs` | `CalTypeCorrect`, `NothingIsMissed` (`NothingMissedBehindCursor`), `ContentIsKept` (`ContentKept`); `TokenNeverGoesBack`, which no run repeats | calendars, events, changes, page size, faults |

None of these properties is inductive by itself. Every proof module names the
parts of its inductive invariant at its head and checks one step lemma per
action or per part; all of these invariants were model-checked before they were
proved.

- **Gate.** `GateInv == GateTypeOK /\ SlotConserved /\ NoLostWakeup /\
  CountersAgree /\ WaitersCounted /\ (drained => draining /\ active = 0)`.
  `MutualExclusion` says nothing about a caller that has taken the slot but is
  not registered yet, nor about the counters after a release that has not freed
  the slot. `SlotConserved` accounts for every owner from the send to the
  receive, `CountersAgree` ties `active` and `holderLabel` to the owner past its
  registration, `NoLostWakeup` is needed for the hand-over. The hand-over is the
  lemma `FreeSlotKeepsInv`.
- **Daemon.** `Owes(t)` is what a thread still has to give back where it stands:
  the flag, the wait group, the tracker, the gate. `DaemonInv` says that each
  counter is the number of threads that owe it, each flag and holder has exactly
  one such thread, the queue is the set of those waiting, and the phases of the
  shutdown are in order. Refusals and ends then give back what was taken, and
  nothing else; the deferred calls are a list without repetition that ends with
  the wait group. `GivenBackOnce` reads off it: those who leave are among those
  who owe.
- **Gmail sync.** `Reached(h)` names how far in the history the cursor and the run
  have come at each place of the code: `NothingBehind` says everything that
  arrived by then is safe. `ListedOrSafe` does it for a full sync before its end:
  what had arrived when the profile was read is safe, in the page, or below the
  page token. `PagesInOrder` says that history pages leave no gap and that the
  last one reaches the profile. For `DisagreementLiesAhead` the same positions
  are kept apart for labels and deletions (`LabelsReplayed`,
  `DeletionsReplayed`), since a page applies the one before the other;
  `ChangeIsAhead` and `LabelsAhead` are the lemmas on the mailbox and on the
  replay (a message whose last replayed change was passed over is stale until a
  later one is written). `NothingIsLost` needs its invariant only while no run stands at
  `ResumesList`: dropping that is what `gmail_resume_loss` refutes.
  `CursorNeverGoesBack` needs only that a run past its profile has asked for it
  after the cursor was last stored (`ProfileAhead`).
- **Deletion.** `DeletionInv == Typed /\ RecordsTrue /\ Placed /\ RunTrue /\
  Retried`: what any file says is true, the directory and the running executor
  fit together, the tally in memory extends the record, and what a retry has
  tried is a prefix of the failures it read. `CancelledForGood` adds
  `StaysCancelled` (beside a cancelled file, and without a stale one, nothing is
  left in in_progress and nobody executes; a pending file is nowhere else) and
  `WritesInPlace` (which directory each command writes in): a run begun from a
  stale file leaves that file where it is until the run ends.
- **Attachments.** A mapping's pack holds the blob (`MappingsHold`) and is recorded,
  an unmapped referenced blob is loose (`LooseHold`), a stale catalog after a
  restore is matched by loose files (`StaleHold`), passes, syncs and removals
  exclude one another as the leases do (`Exclusion`), and each pass has done what
  its step says (`PassProgress`). `ReadersInv` says a reader that looks again
  has been overtaken by a move.
- **Backup.** `HoldIsOwn` ties the hold, the token, the watchdog and the releases in
  hand to one run; `StillImage` says nothing was written between a run's
  checkpoint and the end of its hold. `CopiesKnown` and `SearchIsOpen` follow the
  search for an attachment through the places it can move between.
- **Analytics cache.** `FreshIsTrue` speaks only of a cache the check accepts, so
  `KeptInv` says of every message the state file speaks for, whatever the check
  would say now, what has become of it (`Kept`): its rows are right or a mark of a
  later second tells (`RowShown`), the tables hanging on it are right or a counter
  tells, or will when a run not yet ended ends (`LabelsShown`, `FilesShown`), or the
  mark of a duplicate merged into it does (`Transferred`); or a full build has cleared it, and then the files are incomplete until the state file is
  written. `LateMarks` is why the second of the build may be compared at all: above
  the greatest id read there is no mark from before it. `EmptyAbove` and `ExportInv`
  say the same of a build on its way: nothing above the watermark is exported, and
  what is exported is right as of the second the build began in. `BuildInv` orders
  the three readings of the counters (state file, build, now), and `RunsInv` is the
  order of a sync: written first (`Written`), counted then, in memory before in the
  row, and by no two runs (`Apart`), so that a run that ends always moves the sums
  (`EndingCounts`) unless `missed` names what it forgot. Steps that write the archive have
  their effects in common (`MarksGrow`, `CountsGrow`), and `GrowthKeeps` shows once
  that all of the above outlasts them. For `BuildSettles` the build has all its
  files when it saves its state (`TablesLast`), and the counters it saves are those
  the next check reads (`RecordedIsFresh`).
- **Embedding.** `Covered` is the property; `InHand` says what the rows the worker
  holds look like while they are unchanged: in `fresh` and not in `unseen`. A row in
  `unseen` may be stamped, and then is in `lies`. The three `...Behind` parts say the
  same of three cursors (the watermark, the scan position, the batch in work):
  what they have passed is stamped, gone or was changed, a row that took over the
  id of a removed one included. `OneEach` is the uniqueness of
  the building and the active generation.
- **Calendar sync.** `CalInv` follows a change to where it is safe: behind the
  stored token (the property), before the position of a checkpoint a later run
  may resume (`CheckpointCovered`), before the position of the listing in hand
  unless it counted an error (`PassedCovered`), or on the page with an item as
  new as the listing's beginning (`PageFresh`). `ClockLeads` and
  `TokenBehindClock` order the times, `ContentBehind` says the archive is never
  ahead of the server, `OneItemEach` that a page holds one item of an event.
  `ContentIsKept` follows from `PageFresh`: an item is never older than its row.
  `TokenNeverGoesBack` adds `TokensAhead`: neither the listing in hand nor the
  checkpoint a later one may resume began before the stored token.

Model-checked only: all liveness properties (`EveryCallReturns`, `RequestsGetIn`,
`ShutdownEnds`, `EveryBatchEnds`, `GarbageGoes`, `GateComesBack`,
`AskingIsAnswered`, `IndexCatchesUp`, the `CatchesUp` of both syncs and
`CacheCatchesUp`), since the provers handle neither fairness nor `ENABLED`. Every
other property of a passing run is the statement of a theorem.

## 5. Bounds and abstractions

- Counters are bounded by the sets of threads or messages; the bounds that the
  guards name are `MaxHistory`, `MessageCount`, `GenCount`, `MaxFaults`,
  `MaxEdits`, `MaxCommands`, `MaxRemovals`, `MaxWrites`, `MaxEvents`, `MaxClock`,
  `MaxManual`, `MaxId`, `MaxTime`, `MaxRuns` and `MaxChanges`. They bound what the
  environment does, never what the program does in answer.
- `GmailSync`: one source, one label that the profile's label list has, content
  and participants left out; a message row, its attachments and index rows are
  one step. One fault may take several calls and writes of a step.
- `Deletion`: one manifest; creation from a search is its initial state.
- `Daemon`: one account and one job (several interact through the gate only);
  what a run does to the archive is the subject of the other modules. The index
  build is not known to the idle tracker, so `IdleInterruptsNothing` leaves it
  out; the drain waits for it once it holds the gate, and refuses it before. Its
  probe is known to neither.
- `Attachments`: content and thumbnail columns are one relation; the pack engine
  (external) is taken at what its callers rely on. `Init` is an empty archive or
  one restored from a snapshot with the pack tables of its origin.
- `Backup`: the database is a version and the attachments it names; opening a
  stream after a lookup is one step here, its retry is `ReadsFindIt` of
  `Attachments`.
- `Embedding`: one worker at a time, as the gate and `EmbedJob.running` allow; a
  text is plain, blank or refused by the endpoint; reading a batch and storing
  its vectors are one step, since only the stamp looks at `last_modified`
  again; repair-encoding is not killed; an outage of the endpoint as a whole that
  ends in the middle of a drain, changes of the fingerprint, hidden and
  deduplicated rows are left out. `Init` is an empty archive with generation 1
  being built, or with 1 serving and 2 being built.
- `CalendarSync`: the registered calendars are fixed; the content of an event is
  the time of its change; participants, conversation and search rows are left
  out; a pass has one set of options for all its calendars, so that a limit
  reached in one and not in another takes two passes. The run has one calendar;
  with two, one of which never stores, the passes were checked once (740 thousand
  states), and the safety properties are proved for any number.
- `AnalyticsCache`: one account; the tables that do not hang on messages are one
  flag; the three metadata reads before `Decide` are one step, as are recheck and
  write of the state, which commute with what may fall between them; schema
  versions, calendars and undated messages are left out. No mark is set in the
  last second, as no later second could take the check past it. Larger instances were
  checked once for `FreshIsTrue`: two changes of the message (3.3 million states),
  the newer message changing instead of the older (743 thousand), three seconds (4.1
  million), and both messages changing in three seconds with one run (7.0 million).

## 6. Where code and documentation disagree

Checked, with a run that TLC ends with a counterexample:

- `gmail_resume_loss`: a resumed full sync stores the history id of the moment it
  was resumed, but lists only below its old page token. A message that arrived
  between the two runs is in neither list nor history.

Met while modelling, without a run of their own:

- A cancellation during a batch fetch fails the messages in flight one by one
  (`internal/gmail/client.go:470`); the run then passes the page, and a cursor
  may move past messages that were merely interrupted. They are on record
  (`canceledItems`).
- The scheduled incremental sync that follows a full sync which yielded fails its
  running row (`internal/store/sync.go:236`), and the checkpoint is gone.
- A label change whose write fails is only logged
  (`internal/sync/incremental.go:263-277`), and the cursor moves past it; the item
  of a failed fetch or deletion may itself fail to be written
  (`internal/sync/item_errors.go:68-90`). Nothing in the database tells of either,
  and "failed messages can be recovered via full sync" (`incremental.go:225`) does
  not hold for labels, which a full sync does not touch on archived messages.
- A full sync with a query or a limit advances the cursor as an unfiltered one
  does (`internal/sync/sync.go:409-417`); what it left out is behind the cursor.
- A full sync that ended in a network error starts over
  (`internal/sync/sync.go:115`), as only a running row is resumed, where
  `docs/setup.md:246` says it continues.
- An incremental sync's history token, left in a running row by a kill, is offered
  to the list call of the next full sync; that run fails and the one after starts
  afresh (`FullListRejected`).
- A permanent deletion in single calls removes the row from the archive
  (`internal/deletion/executor.go:120`), where `docs/usage/deletion.md:165`
  promises the copy is kept.
- A kill between the move of the manifest and its next save
  (`executor.go:157`) leaves a batch in the in-progress directory that no
  command runs again, where `docs/usage/deletion.md:145` says it can be resumed.
- A trash batch carries failed messages along without trying them again
  (`Execute` only carries the list on, `ExecuteBatch` retries it), where
  `docs/usage/deletion.md:145` says failed messages are retried.
  `FailuresTriedAgain` is stated for permanent batches.
- A kill of cancel-deletion between the rename and the rewrite of the status, or
  a rewrite that fails before it opens the file, leaves a file in the cancelled
  directory that says in progress. `internal/deletion/manifest.go:495-502` says
  that readers still see it as cancelled and that the field heals with the next
  save; but delete-staged with the batch's id reads the inline status
  (`deletions.go:461-469`, `executor.go:147-175`) and executes the batch again. The
  same goes for a completed batch whose last save failed. `CancelledIsFinal` makes
  exactly these files (`Stale`) its exception.
- A kill or an error inside `Manifest.Save` may leave a truncated manifest.
- `docs/usage/vector-search.md:314-324` and the comment at
  `internal/store/embed_gen.go:164-179` accept that a change in the second of the
  read goes unseen, and say that the backstop corrects the stamp; the backstop scans
  unstamped rows only, so a stamped row is not looked at again. `CoveredIsCurrent`
  excepts these rows (`lies`) until their stamp is next cleared or set.
- repair-encoding killed between the commit of a text and the reset of the stamps
  (`cmd/msgvault/cmd/repair_encoding.go:69`) leaves vectors of the old text
  stamped.
- A single row the endpoint refuses, alone in its batch, fails every run, so that
  neither backstop nor activation is reached (`internal/scheduler/embed_job.go:147`),
  where `docs/usage/vector-search.md:455-458` lets other rows go on. `IndexCatchesUp` excuses
  exactly this (`Poisoned`).
- The watermark that a repair lowers may be overwritten by a worker already past
  it (`internal/vector/sqlitevec/backend.go:790`); only the backstop comes back
  to those rows, which is why `StragglersExcused` excuses changed rows.
- `upsertMessageBody` outside a transaction (`internal/store/messages.go:431-446`,
  from `calsync/persist.go:137` and the chat importers) can be killed between the
  body and the reset of its stamp. The next import finds the body unchanged, so the
  stamp stays. `CoveredIsCurrent` excepts these rows (`storing`, then `lies`).
- `messages.id` (`internal/store/schema.sql:105`) has no AUTOINCREMENT: after the
  removal of an account or a permanent deletion the highest ids are given again, to
  rows that lie below the watermarks, where only the backstop sees them, and that
  stand beside the removed rows' vectors until they are embedded. A row that was
  missing when its batch was read is stamped without a guard
  (`internal/vector/embed/worker.go:1052-1088`), so one that comes under its id in
  between counts as covered with no vectors.
- `embed_job.go:56-58` and `:112-115` describe a run that finds another in flight
  as dropped; the cron callback waits for the gate before `Run`, so ticks queue
  up there and `TryLock` never fails.
- A full rebuild of the cache removes the tables but not the state file
  (`cmd/msgvault/cmd/build_cache.go:403-410`). If it fails before the first export,
  `build-cache`, which the warning at `build_cache.go:1031` says to run "to
  retry", finds the old state and no file at all, which counts as a fresh empty
  cache (`missingRequiredParquet`): it skips when there are no newer messages and
  otherwise exports those only, and the check then calls the cache fresh. `missed`
  excepts these rows.
- `build-cache` without `--full-rebuild`, and any build whose check was asked before
  a deletion or a hidden duplicate, is incremental and moves the watermark past the
  marks: they are not noticed afterwards, where `cache_staleness.go:132-133` has
  "a mixed add+delete sync correctly triggers a full rebuild" (`missed`).
- A build that is killed between an append and its state file exports the same
  ids again the next time, so they count twice (`torn`). The same may happen with
  two builders, as `buildCacheMu` is a lock of one process.
- Attachments stored behind the export of their message, by a run that then adds
  newer messages, are not exported until a full rebuild (`missed`).
- A full sync resumes the row a killed or cancelled run has left, of an incremental
  sync too, with the counters of its last checkpoint (`internal/sync/sync.go:124-145`).
  What the run had written behind that checkpoint is not counted again, and when the
  resumed run completes without counting anything else the check calls a cache fresh
  that shows the old labels, where `cache_staleness.go:19` has "updates or additions
  within the cached ID boundary require repair" (`missed`). The same
  holds when the last checkpoint of a run fails, which is only logged
  (`internal/sync/incremental.go:213-215`), as `CompleteSync` writes no counters
  (`internal/store/sync.go:366-375`).
- A merge of duplicates gives the survivor their labels
  (`internal/store/dedup.go:200-210`) and counts that nowhere. As a rule the mark of a
  hidden duplicate makes the check ask for a full rebuild, which exports the survivor
  again; not so when the duplicate had been deleted before, or when a build that was
  asked for before the merge or by hand is incremental (`missed`).
- A duplicate that is hidden after its deletion was marked is counted neither as
  deleted nor as hidden (`cache_staleness.go:45`).
- A backup freeze and an index build hold the gate without being counted by the
  idle tracker, so an idle shutdown may begin under them.
- The probe of the search index (`internal/api/cli_handlers.go:1451`) scans the
  archive without the gate and untracked. No wait of the shutdown covers it, so the
  archive may be closed under it, which `cmd/msgvault/cmd/serve.go:428-431` takes
  care not to do to the goroutine of the vector set-up.
- A handler that reads is not behind the gate and may still run when the store is
  closed after the server's 10 second limit (`StoreOutlivesWork` says so).

## 7. Not modelled, and what is left

Not modelled: parsing and storage formats, SQL queries, rendering, network
protocols and token flows, the generated client. They have no control that
outlives a call.

Left, in the order of importance:

1. Rate limiter of the Gmail client: token bucket and throttle window; no call
   inside the window, waiters make progress.
2. Deduplication: the choice of the survivor, its undo, and what the cache makes
   of an undo.
3. Search index and participants of the message store, which a message row, its
   body and its index rows update in several steps.
