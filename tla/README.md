# Verification of HaejeokRisuAI

TLA+ models of the parts of HaejeokRisuAI that several actors run at the same
time, with TLC configurations that check them on small instances and proofs,
checked by TLAPS, that hold for every value of the constants.  `src/` below is
the repository.  `PROJECT.json` says for every definition which lines it
models.

Check a run with `tlc -config X.cfg MCModule`, the proofs with
`tlapm ModelJobsProofs.tla`, and so for `ModelJobClientsProofs`, `RealtimeProofs`,
`SettingsSyncProofs`, `MessageStoreProofs`, `GenerationsProofs`, `StorageSyncProofs` and
`BackupImportProofs`.

## 1. The system

HaejeokRisuAI is a chat front end.  One Node server (`src/server/node`) serves
any number of browsers, Tauri and Android shells that all run the same Svelte
client (`src/src`).  The server keeps the database (PostgreSQL, Azure, Oracle
or SQLite behind one driver interface), the assets, and the long-running work
that must survive a closed browser.  The clients hold editable copies of the
database in "domain stores" and learn of each other's changes over an SSE or
WebSocket connection.

The code that is hard to get right is the code between these actors, and that
is what is modelled.  The remainder is for the most part conversion of data
(prompts, formats, imports, parsing) and presentation.

| Component | State it keeps | Operations | Interacts by | What is hard | Correct when |
|---|---|---|---|---|---|
| **Model jobs**, `server/node/executors/modelJobs.ts` | records in memory, `index.json`, one journal per job, `activeJobs`, abort controllers, the chain of index writes | create, run, stream, claim, delete, close, retention, recovery at startup | HTTP with clients and providers; a `terminal` event on the hub | every handler suspends at awaits; index writes are chained and may fail; readers tail a file that is being written; the process may die anywhere | a running record has a driver, one live generation per chat, what clients were told is on disk, replays are complete, jobs and streams end |
| **Realtime hub**, `server/node/http/realtimeEvents.ts`; **transport**, `src/ts/process/nodeRealtimeSync.ts`, `nodeRealtimeWebSocket.ts` | sequence, bounded history, connections; the replay cursor of each client | broadcast, connect with replay or resync, drop, restart | frames on SSE or WebSocket | lost connections, a window that moves while a client is away, restarts | no client silently misses an event |
| **Settings synchronization**, `stores/domain/settingsStore.svelte.ts`, `storage/sql/sqlCommitCoordinator.ts`, `remoteSqlCommitClient.ts`, `nodeRealtimeChangeQueue.ts`, server `databaseMutations.ts` and the drivers' `sync` | dirty keys and timers, commit queue, known revision, merged pending change, batch being applied; settings table and revision | edit, flush, commit with retries, broadcast, merge, reread, hydrate, full resync | optimistic commits; database-changed events | conflicts, lost answers, requests that arrive after they were given up, rereads that race local edits | clients converge, no edit is overwritten or lost, everything settles |
| **Chat generation lifecycle**, `process/nodeGenerationLifecycle.ts`, `process/chat/runtimeState.ts`, `generationCancellation.ts`, the hub's generation states | the own generation, remote sources, the hub's active generation | begin, report, end, cancel, expire | reports and cancellations by HTTP, broadcasts, the ready snapshot | reports overtake each other, cancellations are late, ends are missed | a chat is not busy for ever, a cancellation hits the generation it was aimed at |
| **Model job clients**, `network/durableModelJobs.ts`, `process/modelJobRecovery.ts` | the local pipeline of a job, owned and detached ids, the run and the followers of the recovery, previews, the message being made | create, attach, reattach, claim, abort; list, recover, follow, preview | HTTP with the model jobs, `created` and `terminal` events | a response is claimed before it is stored; two lists are read at different times; several pages recover one job | one whole answer is stored and a claimed one is kept, one reader per page, every ended job is claimed |
| **Storage synchronization**, `server/node/sync/storageSync*.ts` | the gate, sessions and staged uploads, the recovery snapshot, the target's database and assets | stage, finalize with snapshot, asset workers, transaction and undo, expire, restart | HTTP; takes the database away from everyone else | any step may fail, parallel workers, requests whose client has gone, a crash between two steps | one attempt at a time and alone; old or new target, never a mixture; what was overwritten can be restored; the gate opens again |
| **SQL storage drivers** | tables, revision | transactions | database | dialect differences | revision rule |
| **Message store**, `stores/domain/messageStore.svelte.ts`, chat reads of `characterStore.svelte.ts` | pending commits, stash of commits that failed, chain of drains; resident messages, pages | write, delete, flush, drain, refresh, load the history, compact | commits, database-changed events | retries out of order, a drain that fails for several callers, reads that overlap writes and other reads | no write is lost, order is kept, what is shown is what is stored, one refused commit does not hold back the others |
| **Character store**, `stores/domain/characterStore.svelte.ts`, `storeCommitQueue.ts` | dirty marks of characters, chats, orders and stamps, debounce timer, queue of flushes | edit, add, remove, touch, flush, refresh | observers, commits, database-changed events | a flush waits in the middle of what it serialises; a refresh checks, reads, then replaces | changes are marked until stored, marks are flushed, store and database agree at rest |
| **Other client stores** | dirty personas, modules; presets, plugins | as settings or characters | commits, change batches | as settings | as settings |
| **Local backup import**, `packages/backup-core/src/node/import*.ts`, `remoteLocalBackupClient.ts` | job, active session, upload store and its lock, finalizations, idle timer | append a chunk, finalize, restore, delete, expire | HTTP with retries, parser and staging, the storage driver | requests are repeated while the first is under way; a DELETE, an expiry or a failing chunk meets a restore | the whole file or nothing is restored, a restore is left alone, the client is told the truth, the only slot is freed |
| **Backup export, container formats**, `packages/backup-core` | – | stream out, encode, decode | HTTP, files | data conversion | what is read is what was written |
| Executors, chat core, ComfyUI conversion, push, routing, plugins, shells, UI, multi-user | – | – | – | outside services, data, presentation | – |

Every component, with its sources and status, is listed in `PROJECT.json`.

## 2. Modules

| Module | Models | Extends |
|---|---|---|
| `ModelJobs` | the job manager of the server | |
| `JobLedger` | what the index of the jobs promises, abstractly; `ModelJobs` implements it | |
| `ModelJobClients` | the pages around one job: the pipeline that started it and the recovery of every page | |
| `RealtimeHub` | the hub and the transport end of its clients: an event is a parameter | |
| `RealtimeDelivery` | what the hub promises, with one kind of event numbered over all processes | `RealtimeHub` |
| `Reconnect` | the loop of timer, online event and aborted attempts that keeps one page connected | |
| `RealtimePage` | one page and the hub: what the loop's attempts open, read and lose is its connection in the delivery | `RealtimeDelivery`, `Reconnect` |
| `Generations` | the generations of one chat, composed with the hub: its reports are the hub's broadcasts, its snapshot the ready frame | `RealtimeHub` |
| `SettingsSync` | settings shared by clients through commits and change events | |
| `MessageStore` | the messages of one chat of a page: commit queue, stash, re-reads | |
| `CharacterStore` | the marks and flushes of characters, chats and their orders | |
| `StorageSync` | the replacement of the server's database and assets by a staged upload | |
| `BackupImport` | the import of one backup file: its client, the upload, the parser session, the restore | |
| `MC*` | instances for TLC | |
| `ModelJobsProofs`, `ModelJobClientsProofs`, `SettingsSyncProofs`, `MessageStoreProofs`, `GenerationsProofs`, `StorageSyncProofs`, `BackupImportProofs` | theorems | the module they are about |
| `RealtimeProofs` | theorems about the delivery of events, a store refreshed by them, the loop that reconnects, and a page that has both | `RealtimePage`, `CharacterStore` |

Operators named `X_Y` beside an operator `X` are seeded bugs: variants of `X`
with a plausible mistake (`Persist_Unchained`, `ReplayGap_Lax`,
`BatchFails_Drop` ...).  No specification uses them.  Substituted for `X` each
must make TLC report a violation of the property it is listed with under
`mutants`, which shows that the property watches that code.

### 2.1 ModelJobs

A step is one turn of the Node event loop: a handler up to its first await, or
the code between two awaits.

* `records` is the array in memory, `disk` is `index.json`.  `persist()`
  takes a snapshot at once and appends a write to a promise chain
  (`writeChain`); `WriteIndex` performs the oldest write, or fails, and runs
  what was awaiting it, which is in the same turn.
* `pc[j]` is where `runJob` stands: `request` (provider not answered), `head`
  (awaiting the persist of the upstream status), `body`, `ending` (the journal
  stream is being closed), `closing` (awaiting the last persist), `idle` (not
  in `activeJobs`).  An abort sets `aborted[j]` and nothing else: the provider
  request is made without the signal.
* `files`, `flushed` and `broken` are the journals, how much of each has
  reached the disk, and which have reported a write error.
* `rpc[r]` is a `streamJob` request: it polls until the upstream status is
  known, opens the journal, reads to its end, tails it while the job is
  active, and reads once more after the job has left `activeJobs`.
* `CreateJob` adds the record before it opens the journal.  When that throws
  (`CreateThrows`) the record stays in memory, running, without a driver and
  with no write queued; `unmade` are these rows.
* `Restart` is a crash at any point, with the recovery at startup: orphaned
  rows become failed, retention runs, and both persist.
* `announced`, `ackedClaim` and `ackedDelete` record what clients were told.

Time appears as `endedAt` and as an arbitrary cutoff of the age limit.

`JobLedger` is the abstract specification: a job is new, running, ended in one
of three ways, or gone; it only goes forward; an end is final; only an ended
job is claimed and a claim lasts as long as the job.  The mapping reads
`index.json`: a job has the status of its row on disk; one without a row is new
while a row may still come (the memory or a write of the chain has it, or its id
was never given) and gone otherwise.  A step of `ModelJobs` that writes the index is one
`Record` of the ledger, every other step a stutter (`LedgerKept`).  It holds with
failing writes and crashes.

### 2.2 RealtimeHub, RealtimeDelivery, Reconnect and RealtimePage

`sequence` and `history` are the hub's; `channel[c]` holds the frames between
the hub and client `c`, `link[c]` its connection and `lastEventId[c]` its
replay cursor.  `Greeting` is `replayClient` followed by `readyClient`: the
newer events if the history still has them, else a resync request; then a ready
frame.  A connection is first in, first out; when it is lost, what it carried
is lost.  `HubRestart` forgets everything but leaves sent frames in flight.

`RealtimeDelivery` publishes events numbered across restarts and records in
`seen` what a client has dispatched or had covered by a resync (which rereads
the database after the request has arrived, so covers all that was published
by then).

`Reconnect` is the client's side of a connection from one `connect` to the next.
Every call is an attempt with a controller of its own, which lives until its
`finally` has run (`Ended`).  The timer does not look whether an attempt is under
way; the online event does (`Online`), but leaves the timer running, so that one
call of `connect` meets another.  Aborting a request or a connection ends its
attempt in the same turn (`Interrupted`), for dispatching a frame awaits nothing that
takes time; one that still awaits its token does not notice (`Unaware`) and
ends later (`superseded`), unless it then opens a WebSocket, which only listens for an
abort still to come and stays open (`deaf`).  `shown` is the flag by which an import
stops asking for its progress.

`RealtimePage` is both for one page.  The page has a connection to the hub while the
attempt that holds the controller is `Reading`: that attempt opens it with the
cursor the page has then (`PageAttached`), dispatches its frames (`PageDispatches`, the
ready frame sets `shown`), and when it fails, is aborted by the timer's `connect` or
notices that the server has gone, the frames in flight are lost with it.

### 2.3 Generations

The generations of one chat.  `Begin` is `sendChat` up to the report of the
start; the client awaits its answer (`StartAnswered`) or gives it up
(`StartUnanswered`: the error is only warned of).  `End` reports the end and
frees the client before the report has arrived.  Reports are separate HTTP
requests and arrive in any order (`posts`, `Report`).  The hub records the
newest start (`active`), clears it when that generation ends, and broadcasts
every report.  Other clients add and remove remote sources
(`ApplyGenerationState`); `Cancel`, `ServeCancel` and `CancelAnswered` are the
request of another client, the hub's answer and what the answer does.
`Expire` is the age limit of the hub's states.

### 2.4 SettingsSync

A client's `view` is its store; `dirty` joins `dirtyKeys` and `pendingDeletes`
and `armed` is the debounce timer.  `Flush` moves the dirty keys with their
values to `commits`, the queue of the storage.  The head of the queue is sent
(`call`): the server accepts it if its base is the current revision and
refuses it with that revision otherwise; the client retries, `Attempts` times
and once more as often in the coordinator.  `CommitLost` is a lost request or
answer; a request given up may still arrive (`strays`).  `Write` is the
transaction and the broadcast after it.  Events are merged into `pending`;
`Drain` starts a batch, `ReadKey` and `ReadAll` reread the database one request
at a time, and `ApplyBatch` hydrates the store.  `BatchFails` merges the batch
back.  `Gap` stands for a connection lost beyond the replay window: what was on
the way is replaced by a resync request, as `RealtimeDelivery` shows the hub
does within one process.

Five ghosts record what the properties speak of: `by`, who entered a value;
`writer`, whose commit wrote a key last; `raced`, keys a client has committed
since its batch read them; `overtaken`, keys hydrated over a value that was not
confirmed; `revived`, keys written again after they were deleted.

The transaction and its broadcast are one step: the row lock serializes
transactions, and the broadcast follows the COMMIT of its own transaction
before the next one can have been answered, so revisions are broadcast in
order.

### 2.5 ModelJobClients

One job, the page that started it (`Author`) and others.  The server's side is
one record (`job`), as `ModelJobs` shows it keeps it.  `pipe` is the promise
chain of `fetchViaDurableModelJob`: creating, attached, reading, lost and
reattached (what was `delivered` is skipped), and, after a status of `done`,
processing.  It claims the job before it has processed and stored the answer.
`run[c]` is `runRecovery` of a page between its two lists, of which the second is
answered after the first has been; `follow[c]` is the reader of
`recoverActiveJob`.  `row` is the message in the database, `view[c]` what page `c`
shows, `held[c]` a message whose commit has failed and is queued.  A message is
raw, as the provider sent it, or processed by scripts, which here make it one
chunk shorter.

Four things a reader may not expect are in the model because they are in the
code.  The server knows the source of a job only while the job is in
`activeJobs`, so a page recovers its own job too once it has ended.  An abort
while the job is being created leaves it running, to be recovered later.  A
stream without a provider status makes `Number(null)`, which is 0: building
the `Response` throws and the page owns the job for good (`AttachThrows`,
`leaked`).  A follower whose last status question fails keeps its preview.
`Trigger` starts a run of the recovery, whether the page comes into view, back
online or hears an event of the job; a lost event is a trigger that does not come.
The mark that shows the chat as busy elsewhere decides nothing and is left out.

### 2.6 MessageStore

`pending`, `dropped`, `tasks` and `draining` are `pendingCommits`,
`droppedCommits`, the `StoreCommitQueue` and whether its first task has begun.
`retries` are the stashed commits a drain has taken and not tried yet.  An attempt
(`Attempt`) stands for `commitSqlChanges` with its retries: stored and reported,
stored with the answer lost, or failed; the database may refuse some rows for
good.  A head that fails is counted and ends its drain (`HeadFails`); its last
attempt puts it into the stash and the drain goes on (`HeadStashed`).

Re-reads take two steps each, one that reads and one that applies: the refresh
after another client's change, and the load of a history of which older
messages are paged out.  `blurred` collects the messages such a read overlapped
with a write of the page, and those of an operation that puts a new array in the
place of the one a load under way still holds (`LeftBehind`): the code has no rule
for them.

### 2.7 CharacterStore

The rows are characters, chats (their metadata), the order of the characters
and the order of the chats of each character.  An observer's turn belongs to
the edit that triggers it (`Change`).  A flush is `BeginFlush` up to the first
chat that selects a global note, one `NoteFound` per such chat, `SendCommit`
with the last of them, and the answer.  The marks are cleared when the commit
is sent and come back when it fails.

What was announced (`announced`) is read again in one of two ways.  After another
client's change (`"characters"`) the store checks that nothing is pending, reads,
and replaces.  After a resync request (`"everything"`) nothing is checked:
`ReadEverything` reads the whole database, and `InstallStartupData` ends in `init`,
which clears all marks and touches and replaces all rows, whatever was changed
meanwhile or is being committed.  A flush that is running then goes on with what
it has serialised, and its walk over the marks meets only new ones (`CutOff`).

`overlooked` collects the rows whose mark was cleared, or whose content was
replaced, without regard to their newest change.

### 2.8 StorageSync

The module begins when everything has been uploaded and staged; the upload
before it touches nothing but the staging directory.  `Replaced`, `Added` and
`Skipped` partition the planned assets by what the target held when the plan was
made.

* `gate` is the exclusive holder of `StorageSyncFinalizeGate`.  `requests[u]` is
  a mutation of a user: `entered` while the gate counts it, `orphan` when its
  connection was closed and its handler is still running, which the gate no
  longer counts.  The stores are mutated by `Mutate`, whatever the route is.
* `fin[n]` is where the n-th finalize request stands: `waiting` (for the counted
  mutations), `preparing` and `copying` (the snapshot), `applying` (the asset
  workers), `committing`, `promoting` (the snapshot becomes the current one),
  `finishing`, or `undoing` on the way to an error.
* `applying[n]` and `undoing[n]` are the assets the workers of an attempt have
  still to write.  They are sets of their own because a worker may outlive its
  attempt: `Promise.all` rejects with the first failure.
* `copies[n]` is what the copy workers of a failed attempt still do, after its
  directory was removed and the gate has opened: an asset is `next`, or held
  with the content it had when it was opened (`OpensLate`).  They write to the directory of the
  session, where a retry may have taken its snapshot by then (`CopiesLate`);
  `spoiled` are the assets whose snapshot was changed so.
* A write is visible when it is complete; one that fails may remove the asset;
  one that is running when the process dies may leave it `torn`.
* `session` is the sync session in memory and on disk (`saved`, `staged`);
  `Expire` and a user's delete remove it under a running attempt.
* `Restart` loses the gate, requests and attempts, and loads the sessions.
* `allowed[a]` are the contents a correct replacement may leave asset `a` with:
  what the target and its users last made it, until the COMMIT makes it the
  source's.  `excused` are the assets the code promises nothing for,
  `unsure` records a COMMIT that took effect without an answer.

The comparison of the target with the plan (`Summary`) sees the revision, the
number of assets and their total size; all complete assets have one size here,
the case in which it tells least.  Left out: the other user of the gate, the end
of a local backup import.

### 2.9 BackupImport

One import job and the client that uploads its file.

* `client` is `uploadImportStream`: the chunk or the finalize it is at and which
  attempt; `net` are requests on their way, also those it no longer waits
  for.  `GiveUp` is a lost connection, a timeout or a user who stops; the client
  retries or sends the DELETE.
* `job` is the status of the job, `timer` its idle timer, `other` whether another
  import has the slot.
* `active` is the session in the slot, `sess[s]` what became of each: `opening`
  (the records of an earlier one are being removed), `open`, `completing` or
  `failing` (the restore runs), `committed`, `failed` (rolled back, or committed with
  the answer lost: `AnswerLost`, remembered in `unanswered`), `aborting`, `aborted`, with the
  chunks its parser has `consumed`.  `scratch` and `intact` are the staging
  directory and the sessions whose staged records are all there: records are
  found by the id of the job, so that removing those of one session removes
  those of any other.
* `up` and `lock` are the upload store: what it has received, and the chain of
  tasks that `serialized` runs one after the other (a chunk, the sealing, a
  clean-up).
* `fin` is the finalization under way and the requests that share it, `aborts` the
  calls of `abortActive`, which empty the slot at once and remove parser and records
  after it, `cancel` the DELETE.

A DELETE that waits for an opening session resumes in the turn that opens it, so
nothing else may happen while `CancelResumes`.  A file that is not whole may or
may not be accepted by parser and validation: the model lets it pass, for it is
the upload that promises the whole file.  Left out: direct uploads, the expiry
of jobs nobody started, progress, and what parser and restore do with the
content.

## 3. What is checked

Runs that pass:

| Run | Instance | Shows |
|---|---|---|
| `model_jobs` | 2 jobs of 1 chat, retention of 1, chain of 2 writes, 1 crash | `RunningHasDriver`, `OneLiveGeneration`, `ToldIsDurable`, `IndexConverges`, `UnclaimedKept`; the refinement `LedgerKept` |
| `model_job_streams` | 1 job of 2 chunks, 1 reader, failing index writes and journals, 1 crash | `StreamComplete`; under fairness `EveryJobSettles`, `StreamEnds` |
| `model_job_clients` | the author and another page, a streamed response of 1 chunk, 2 reattaches without progress, 1 trouble (lost request or stream, failed commit, abort, closed page) | `ClaimedIsKept`, `StoredIsWhole`, `OneReader`; under fairness `EventuallyClaimed` |
| `realtime_page` | one page with either transport, history of 2, 4 events, 1 restart; 4 attempts living at a time, 2 losses, 1 online event | `ReplayIsComplete`, `LoopGoesOn`, `OneLoop`, `ShownIsReal`; under fairness `CatchesUp` |
| `settings_converge` | 2 clients, 1 key, 2 edits of which 1 may be a delete, and 1 trouble: a lost commit, a failed batch or a gap | `Converged`, `OwnOrder`; under fairness `Settles` |
| `message_store` | 2 messages, one paged out, one possibly refused for good; 2 writes, 2 troubles, stash after 2 failures | `NothingLost`, `NewestStands`, `ViewMatches`; under fairness `GetsPastRefused` |
| `character_store` | 1 character, 2 chats, one with a note; 3 changes, 1 failure, 1 flush waiting; another client's change or a full resync after any of them | `UnsavedIsMarked`, `Converged`; under fairness `Settles` |
| `generations` | 2 clients, 2 generations, history of 1, 1 drop, cancellations, and one of: lost report, expiry, restart | `NoStaleSource`, `RecordedIsKnown`, `AbortsOnlyTheAimed` |
| `storage_sync` | 3 finalize requests, 3 assets (one replaced, one added, one skipped), 1 user with 1 request, 2 failing steps, 1 restart | `HolderAlone`, `AllOrNothing`, `Recoverable`, `FailedMeansOld`; under fairness `GateReopens` |
| `backup_import` | a file of 2 chunks, every request sent up to twice, 2 sessions, 1 failure of storage or content, other imports | `WholeFile`, `RestoreUndisturbed`, `ToldTruth`; under fairness `SlotFreed` |

Runs that TLC finds violated, because the code does something else than one of
its comments says (`findings` quotes the line):

| Run | Property | What happens |
|---|---|---|
| `settings_in_flight` | `EditKept` | an edit that has left `dirtyKeys` for the commit queue is overwritten in the store by an older value |
| `message_durable` | `ConfirmedIsStored` | a commit whose third attempt fails goes to the stash, and the drain goes on and resolves: the persist call that queued it, `requireDurable` or not, reports success with nothing stored |

### Bounds, and why they are enough

Every bound is a CONSTANT commented as one, and every bounded action has it as
its first guard.  Two jobs are the fewest for a refused create, for retention
to choose and for two snapshots to land in a wrong order; two pending writes
are a newer one behind an older one.  A crash restarts the server from any
reachable disk, so a second one adds no new kind of state.  Two clients are
the fewest that conflict, and one of them stands for all others.  Two edits give a
conflict between two clients and two values of one client; one key suffices because keys interact
only by sharing a commit or a batch, and the properties are per key.  A history
of two and four events move the replay window past a client.  In the settings
`Attempts = 1` (3 in the code) makes both rounds of the coordinator reachable with
the edits available.  The counters never enable anything, they only run out.

In `storage_sync` three requests are an attempt, its retry and one after the
retry; two faults let an undo fail after the step that caused it, and let a
retry fail as well; one restart after which two requests may still come covers
a crash at every step.  One user suffices because the gate only counts
mutations, and one asset of each kind is what the code tells apart.

In `realtime_page` one page is enough, for a client reads only its own connection and
the hub.  Two losses end an attempt and its successor, or a connection twice; an online
event comes between any two steps, beside a timer that is set or not.  Four attempts
are room for what these produce: one that nothing closes, the one under way and its
successors.  An instance with two online events (960,772 states) was checked once, for all
of its properties.

In `model_job_clients` one chunk distinguishes no answer, a whole raw one and a
processed (empty) one; a response of two chunks, with proper prefixes, was checked once for
all four properties (504,221 states).  One job suffices because jobs of a chat
exclude each other.  In `message_store` two messages are the fewest for a
refused commit beside an acceptable one and for a resident message beside one
that is paged out; two writes are a newer commit behind a failing one, and two
attempts before the stash stand for three.  In `character_store` two chats are
the fewest whose positions can shift under a flush that waits for a note, and three
changes let one precede, one meet and one follow a flush or a full resync.  One failure
is enough for `Settles`, for after the last one everything must settle.  An instance
with two failures and two flushes waiting (2,171,595 states) was checked once, for the
two invariants.

In `settings_converge` one trouble is enough for each way in which a client falls
behind; an instance with two troubles and no deletes (2.7 million states) was
checked once, for its three properties.  In `backup_import` two chunks and two
attempts are the fewest with which a chunk can be repeated, skipped and
overtaken by an older one; two sessions are one that failed and the one
opened after it, whose chunks, records and directory the first can still
touch.  The client is a single sequence of requests, so more chunks add only more of
the same.

### What the properties exempt

Each exemption is a thing the code does that was met while modelling it.  Most of
them no text of the repository speaks of.  Where a comment says otherwise, the list
below names it; two such comments are the subject of the violated runs above.

* `Converged`, `OwnOrder` of the settings: keys that were hydrated over an
  unconfirmed value (`overtaken`, the finding of `settings_in_flight`).
  `Converged` also leaves out keys that were written again after a deletion
  (`revived`): a delete and a later write of one key, merged into one change, are
  applied in the opposite order.  `OwnOrder` compares a client's commit with a
  value the same client wrote there last: a value can also reach the
  database by way of another client that hydrated it and committed it again
  beside an edit of its own.
* A full resync of the settings ends in `init`, which clears `dirtyKeys`; an edit
  that is waiting for its timer then is discarded (no property of the settings
  speaks of it; the resync of the characters is modelled).
* `Settles` of the settings: the keys of a commit that was given up.  They are
  dirty again but no timer runs; another edit or leaving the page flushes them.
* `ReplayIsComplete`: speaks of one server process.  The sequence starts at 1
  again after a restart, and a client with an old cursor is sent only the
  events above it, once they are as many as its cursor says; the others are skipped,
  and no resync is asked for.  The docstring of `replayClient` (`realtimeEvents.ts:340`)
  says "Replays missed events or requests a full resynchronization."  `CatchesUp` does
  not see this: it says that the page ends up connected with every frame it was sent
  dispatched.
  `ReplayIsComplete` also starts at a client's first event, for a client takes no
  cursor from the ready frame.  One that loses its connection before its first
  event is owed events nobody replays; `NoStaleSource` exempts it (`blind`).
* `NoStaleSource`: also resynchronized clients, which keep a source whose end
  was among the events that could not be replayed, and behaviours with a lost report, an expiry or a restart, after which an end may
  never be announced.
* `AbortsOnlyTheAimed`: speaks of the generation the hub named.  The request
  names only a chat, so the hub names whatever is active when the request
  arrives, be it the one after the one the user saw.
* `RecordedIsKnown`: generations hidden by the answer to a cancellation, which
  clears every remote source of the chat.
* `OneLiveGeneration`: jobs that are not recoverable, for which `createJob`
  ignores aborts: an aborted one answers 409 to its chat until its provider
  request has ended.
* `RunningHasDriver`, `IndexConverges`: a row whose creation threw (`unmade`), until
  the process restarts.  It is running without a
  driver, keeps its chat busy (409) although the comment of the check
  (`modelJobs.ts:259`) asks for "a live, non-aborted request", and only the next persist of another handler writes it to the index.
* `ShownIsReal` is one direction only.  An attempt that was aborted while it awaited
  its token clears the flag in its `finally`, also when its successor has set it, and the
  page then asks for progress although it is connected.
* `StreamEnds`: a stream whose record is deleted while it waits for the
  upstream status is left open by the code (`hung`).
* `AllOrNothing`: assets whose worker outlived its attempt (one worker fails, the
  other goes on beside the undo and after the gate has opened), whose undo failed (the answer says so), hit by a
  crash (nothing looks at the snapshots at startup) or by a COMMIT without an
  answer (the assets are restored beside the new database), changed by an
  uncounted request, or changed between an attempt that failed and its retry:
  the retry uses the snapshot of the first and would restore the older content.
  Also an asset that was restored from a snapshot which a copy worker of a failed
  attempt had overwritten (`spoiled`).
* `Recoverable`: the content of `spoiled` assets, for the same reason.
* `FailedMeansOld`: a restart between the COMMIT and the saving of the result,
  and again a COMMIT without an answer.
* `ToldIsDurable`, `IndexConverges`, `UnclaimedKept`: assume that no write of the
  index fails.  After a failed one the clients have been told nothing, but a
  crash then restarts from an older index.
* `ClaimedIsKept`, `EventuallyClaimed`: `lost` marks behaviours in which the code
  gives up an answer: the page is closed or the pipeline aborted between the
  claim and the commit; or the recovery finds the message already on its
  screen, at full length, takes it for stored and claims the job although only
  the stream had shown it.  `EventuallyClaimed` also leaves out a job that the
  page owns for good (`AttachThrows`).
* `StoredIsWhole`: an answer that scripts have shortened is overwritten by the
  longer raw one when the recovery of another page comes later.
* `NewestStands`, `ViewMatches`: commits that have been in the stash.  They are
  retried ahead of the queue, after newer commits of the same message were
  stored, and overwrite them.  `ViewMatches` also leaves out `blurred` messages.
* `UnsavedIsMarked` and `Converged` of the characters: `overlooked` rows.  While a
  flush waits for a note, a character or chat it has already serialised may
  change: the mark is cleared all the same.  And the chat is read at the
  position it had before the wait: if a chat was put in front of it, another
  chat's metadata is stored under its id; if the list became shorter, the flush
  ends with an error.  While a refresh reads, changes are replaced by what was
  read.  A full resync discards what is pending when it starts reading, what changes
  until it installs, and shows the older content of rows whose commit lands
  in between, for the event of its own commit is skipped.
* `Settles` of the characters: a failed flush keeps its marks
  but starts no timer (`gaveUp`).
* `RestoreUndisturbed`, `ToldTruth`: a chunk handled beside a finalization (`late`)
  arms the idle timer again, and `expireIdleImport` aborts the session without
  asking whether it is being restored, as `cancel` does.  A restore that takes
  longer than the timeout loses its records.
* `WholeFile`, `RestoreUndisturbed`, `ToldTruth`: a session opened while the failed
  one before it is still being aborted (`torn`).  The upload store counts on, so it goes
  on in the middle of the file; and the abort removes its records and sets
  the job to `error` while the session goes on.
* `ToldTruth`: a session whose COMMIT took effect without an answer (`unanswered`).
  `complete()` throws then, and the job and the client are told `error` over a
  replaced database.  The opposite, that they are told of a restore which was not
  made, is still excluded.
* `SlotFreed`: a finalize for a job that has ended or been removed, or one that
  `markRestoring` refuses, clears the idle timer of a session that still holds the slot
  (`stranded`).  Nothing arms it again.

Deadlock is not checked: users may stop, and the bounds end every behaviour.
Symmetry over clients is used in runs of safety properties only.

### Fairness

* `ModelJobs`: the disk completes a write, the provider answers, fails or runs
  into `req.setTimeout`, promises and timers are served.  No client owes
  anything and no crash is owed.
* `RealtimePage`: the timer fires, the token and the answer of an attempt come or
  fail, frames that have arrived are dispatched, and a connection whose server has gone
  ends.  No online event and no loss is owed, and nothing is said of reconnecting as
  such: that the page does is what `CatchesUp` shows.
* `SettingsSync`: the debounce timer fires, requests are answered or lost,
  frames are dispatched, batches retried after their delay.  Edits, page hides
  and faults are owed by nobody.
* `ModelJobClients`: requests, timers and streams of open pages go on, the provider ends, and
  some page keeps coming into view or back online (`Trigger`, a visibility or
  online event), with the run it starts.  Nobody has to stay: a closed page owes
  nothing.
* `MessageStore`: the tasks of the chain run, and a page that keeps being used
  flushes again and again (leaving the page, backups and every new write do).
* `CharacterStore`: timers fire, queued flushes run, requests are answered, and what
  was announced is read again and installed.
* `StorageSync`: a counted mutation is answered, and a finalize request goes on
  (its disk, storage and database answer, or fail).  Nobody has to retry, and
  nothing of a handler whose client has gone is owed.
* `BackupImport`: the server goes on with what it has begun and its timers fire.
  The client owes nothing and no request has to arrive.

All of it is weak fairness: each such step stays enabled until it is taken.

## 4. What is proved

TLAPS checks these for all values of the constants, from the assumptions named
in the modules (`ModelJobsAssumption`, `HistoryLimitAssumption`,
`BoundsAssumption`, `NobodyAssumption`, `StorageSyncAssumption` and so on: the
bounds are naturals, the history limit is positive, `Nobody` is no client, the
planned assets are finitely many and of one kind each).

**`ModelJobsProofs`** – `Typing`, `RunningIsDriven` (`RunningHasDriver`), `OneLive`
(`OneLiveGeneration`) and `StreamsEndComplete` (`StreamComplete`).
`RunningHasDriver` is not inductive: a `WriteIndex` moves a job that waits in
`head` or `closing`, and only if its write is in the chain, once, and has the
record settled in its snapshot.  `DrivenInv` states it with what rows left by a throwing
creation are: old ids that stand at no await.  The inductive invariant `JobInv` adds
`ChainInv` (what a link's waiter implies about its job), `OneLink` (a job has at
most one link that moves it), `Fresh` (ids not yet given are untouched
everywhere, also in the snapshots) and `ReaderInv` (a reader is at a byte that
has been flushed).  `NextJobInv` has one lemma per action.  `OneLive` then needs
only that no action but `CreateJob` makes a generation live
(`OnlyCreateMakesLive`).  `StreamInv` adds that a reader past its last look at
`activeJobs` reads a journal nobody extends.

The second part of the module proves `ImplementsLedger` (`LedgerKept`), the
refinement.  A write of the index maps to `Record` because the index has a history: what is on
disk, the snapshots of the chain in their order and the array in memory are
versions (`AllProper`), each of which follows the one before it (`InOrder`:
no row goes back, changes its end or loses its claim, and no row that is
missing comes back).  `persist()` appends the newest version, `WriteIndex` drops
the oldest, whether or not the write succeeds, and a crash drops all but the
first, whose recovery follows it.  This needs no assumption on writes.  `ToldStays`
(`ToldIsDurable`), `IndexFollows` (`IndexConverges`) and `UnclaimedStay`
(`UnclaimedKept`) each assume `~WriteFaults`.  A client is told of a change by the turn that performs the write
it awaits, so the invariant says what every link has promised: its snapshot
shows what its waiter will announce (`Promised`), and all later versions show it
too.

**`MessageStoreProofs`** – `TypeCorrect` (`TypeOK`) and `NothingIsLost`
(`NothingLost`).  What is stored or held by one of the three queues only grows
(`Grows`), although commits move between the queues; with `AnswersHeld` (every
task that will answer a persist call answers for a commit that is held) a drain
that ends with an empty queue answers for one that is stored or stashed.
`NewestWins` (`NewestStands`) needs the order of the commits (`OrderInv`): the queue
is sorted by age, what has left it is older, and the newest write of a message is
still in it as long as any write of that message is, so that its head never
overwrites a younger commit unless it comes from the stash.  `ViewShowsRows`
(`ViewMatches`) adds what is between the chat and the database (`ViewInv`): a
message shows its newest write while that is queued (`ResidentInv`), a re-read
under way holds what the database has now, because anything that would change it
makes the re-read start again or blurs the message (`RefreshInv`, `FullInv`).

**`RealtimeProofs`** – `Typing`, `ReplayIsLossless` (`ReplayIsComplete`) and
`InFlight` (`InFlightIsComplete`, which no run checks: what an
undrained client is owed).  The inductive invariant `DeliveryInv` has a
half about the hub, which outlives a restart: the history is the last events,
numbered without a hole (`HistoryInv`), and what frames carry was published
(`DataInv`).  The other half is about one process, in which numbers are the
order of publication (`EpochInv`), and says for each client (`ClientInv`) that
behind every frame on its connection follow all newer ones (`ChannelOK`), that
everything newer than its cursor is on its way or behind a resync request
(`Complete`), and that it has handled everything from its first event to its
cursor (`CursorInv`).  A restart ends that half: numbers start at 1 again.

**`GenerationsProofs`** – `Typing`, `CancelsTheAimed` (`AbortsOnlyTheAimed`),
`RecordIsShown` (`RecordedIsKnown`) and `NothingStale` (`NoStaleSource`).  A
cancellation names no client, so the first needs an owner for every lifecycle
(`OwnerInv`): whoever runs it, has reported it, is named in a start that is in the
history or on a connection, or is recorded by the hub, is one client, which does not
hold it for another's.  A frame that aborts comes from that owner or from the hub
(`AbortInv`).  The second speaks of what a client will know when it has handled what
is on its connection (`Knows`): the last frame about the recorded generation starts
it, or the client knows of it and none ends it (`KnownInv`).  For the third a
lifecycle is over when nobody runs it and no report of it is on its way (`Over`),
and then, while no report was lost, no connected client is going to know of it, or a
resync request comes first; and no client whose connection was lost will when the
history is replayed to it (`OverInv`).  A lost connection turns the one into the
other, a new one back, because the frames on it and the replay hold the same events
(`HubInv`: `CursorInv` says that a connection carries, in order, all that is newer
than the cursor and nothing else).  The snapshot of a greeting does no harm: what the
hub records is never over (`LiveInv`).

**`StorageSyncProofs`** – `Typing`, `GateExcludes` (`HolderAlone`) and
`AlwaysRecoverable` (`Recoverable`).  `HolderAlone` is inductive with the types:
a request enters through an open gate only, and only the holder opens it.
`Recoverable` needs to know that no asset is written without a finished
snapshot, by the attempt or by a worker that outlived one (`StageInv`), and that
a snapshot taken while the database was old holds nothing of the source, because
it is taken before the first asset is written and never again, except where a copy
worker of an earlier attempt wrote into it (`spoiled`, `SnapshotInv`).  `SyncInv` joins them and `StepSync` has one lemma per action.
`ReplacedWholly` (`AllOrNothing`) and `FailsOverOldOnly` (`FailedMeansOld`) need
`WholeInv`: a replacement works on the old database (`OldInv`), a server that was
not restarted knows of the one it made (`KnownInv`), what an attempt has written is
new and what its undo restores is allowed (`NewInv`, `SavedInv`), workers that
outlive an attempt write only what is excused (`StrayInv`), and any asset that is
not as it should be is still to be committed or restored by an attempt
(`RepairInv`).  When none is under way there is none left.

**`BackupImportProofs`** – `ImportTypes`, `OnlyWholeFiles` (`WholeFile`), `RestoresAlone`
(`RestoreUndisturbed`) and `ClientsToldTruth` (`ToldTruth`), for files of any number
of chunks and any number of attempts, sessions and failures.  What a finalization
does depends on where it stands in the lock of the upload store, so `LockInv` says
what the lock can hold for each phase of it: its sealing is queued once, nothing
behind its clean-up belongs to it, and the one session that is being restored is its
own.  `SlotInv` is about a session opened while no other was being aborted: there is
one such session, nothing is aborted while it is in the slot, and it has consumed
the chunks `1 .. up.received` in their order.  `QuietInv` says why nothing takes it
out of the slot during its restore: once the upload is whole and a finalization is
queued, the idle timer is off and no expiry stands behind the sealing, unless a
chunk was handled beside it.  `AppliedInv` and `TruthInv` follow step by step: the
latter adds that behind a restore the queue holds no chunk that could still fail
the job.  A COMMIT without an answer adds `LostInv`: such a session has failed and is
never touched again, and what it restored was the whole file.

**`SettingsSyncProofs`** – `SyncInvariant`, `ConvergedAtRest` (`Converged`) and
`OwnOrderKept` (`OwnOrder`), for any number of clients, keys, edits, deletions,
attempts and troubles.  What a client shows of a key that is neither dirty nor exempt
is the last value of its queue (`EndsWith`) or, if no commit of the queue has the key,
is in the database or about to be reread: announced on the connection or in the
pending change (`Coming`), or part of the batch (`ViewInv`).  Hydration needs three
more facts: what a batch has read is current unless a change of the key is on its way
or the client wrote it itself (`ReadInv`), a key announced as deleted is deleted unless
it was revived (`DeletedInv`), and a request that was given up and would still be
accepted has only keys its client will commit again (`StrayInv`); a transaction makes
every such request outdated (`Written`).  For `OwnOrder` the values a client entered
itself grow from the database over its live requests and its queue to its store
(`OrderInv`), where only values with the same author are compared.

`Converged` and `OwnOrder` were first stated otherwise, and the proof did not go
through because they were false beyond the instance: three clients and two troubles
can bring back a value of one's own through another client, and a single deletion
anywhere exempted everything.  What is stated now is checked and proved.

**`RealtimeProofs`, part two** – the character store that reads again what events
announce: `StoreInvariant`, `UnsavedMarked` (`UnsavedIsMarked`) and `ConvergedAtRest`
(`Converged`).  `UnsavedIsMarked` alone is not inductive: the marks move into a flush
and come back.  `RowInv` says of a row that is there (`HeldInv`) that it is marked, or
carried with its newest content by the commit under way, or shown as the database has
it or is about to be, and of one that is gone (`GoneInv`) that its deletion is marked,
on its way or done; `StampInv` the same of stamps.  `FlushInv` and `MarkInv` relate
what a flush holds to the marks.  `RefreshInv` says that what a refresh has read is
older than every mark there is, or overlooked, and that a full resync, which looks at no
mark, remembers those it met; `RootedInv` that no chat is anywhere without its
character.  A row's content is only ever compared, so the proofs give it no type.

**`RealtimeProofs`, part three** – the loop that reconnects a page: `NeverGivesUp`
(`LoopGoesOn`), `NeverTwoLoops` (`OneLoop`) and `ShownConnected` (`ShownIsReal`), for any
number of attempts, losses and online events.  `LoopInv` says that the attempts
nobody has aborted are exactly the one that holds `streamController`, which is
empty only while the timer is set, and that what is aborted is still running.

**`RealtimeProofs`, part four** – `PageIsBoth`: a page of `RealtimePage` is a client of
the delivery and a reconnecting loop at once, so that everything proved of either holds
of it; `PageMissesNothing` (`ReplayIsComplete`) is the case that matters most.  The second
half needs `LoopInv` at every step, for it must be an attempt that dispatches a frame.
`ConnectionIsRead` adds that the page has a connection just while the attempt with the
controller reads.

**`ModelJobClientsProofs`** – `ClientsInvariant`, `ClaimedStays` (`ClaimedIsKept`),
`WholeAnswers` (`StoredIsWhole`) and `NoSecondReader` (`OneReader`), for any set of
pages, a response of any length and any number of troubles.  `PipeInv` is the
arithmetic of a reattached stream: what was delivered is the position in the journal
plus what is still to be skipped.  `TextInv` says that a raw text is as long as the
journal of an ended job, and a preview or a follower never ahead of it; `ListInv` that a run trusts a
list that was true when read, so that a job listed as ended has at most been deleted
since; `KeptInv` counts a claim from the moment it is sent, when its sender must
already hold the text.  `OneReader` is inductive with them.

Only model-checked: everything temporal under fairness (`EveryJobSettles`,
`StreamEnds`, `CatchesUp`, `Settles`, `GetsPastRefused`, `EventuallyClaimed`,
`GateReopens`, `SlotFreed`), because the prover handles neither fairness nor ENABLED.
Every other property of a passing run is a theorem.  Type invariants are proved and no
run repeats them.  No module declares a RECURSIVE operator, and nothing proved is an
induction over data: neither is in the prover's reach.

## 5. What is not modelled

* Inside the modelled components: HTTP parsing and header filtering; the
  message text of frames; transient broadcasts (no state); push notifications
  after a job; the other paths of the settings store (plugin custom storage,
  deferred and preset-owned keys, updater functions); generations of several
  chats (chats share nothing but the connection); model-job sources in the map
  of remote generations.
* `RealtimePage`: a second connection of one page.  The model shows when there is
  one (a `deaf` WebSocket), but which events both deliver is not followed.  They are
  the same events in the same order; applying one twice rereads the database or
  sets the same state, and notices carry a key by which they are told apart.
* `ModelJobClients`: a second job on the same chat (409), continued generations,
  locating the chat of a recovered job.
* `MessageStore`: `loadOlderMessages`, complete-snapshot manifests, positions.
* `CharacterStore`: hydration and release of character details, the re-hydration
  of chats that ends a refresh, durable snapshots.
* `BackupImport`: uploads that bypass the chunks, several jobs in the upload
  store (they share nothing but the slot), a restart of the server (sessions are
  in memory; their leftovers are swept at startup).
* One hazard has no property: events of a new server process that a client with an
  old cursor is never sent (`realtimeEvents.ts:202`).
* The components marked `not_modelled` in `PROJECT.json`, each with its reason.

## 6. Plan

What would come next, in this order:

1. An abstract atomic replacement of a database and its assets, refined by
   `StorageSync` where nothing is exempt.
2. The upload phase of `StorageSync`.
