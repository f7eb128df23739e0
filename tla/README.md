# TLA+ verification of musicbot-transfer

The repository holds two programs that move and clean up streaming libraries:
`music_transfer`, a layered application with transfer jobs, and the older
`tidal_manager`, which works on TIDAL accounts only. Both write to an account
that cannot be rolled back, over an API whose answers can be lost, from a
process that can die at any point. What they promise is about exactly that:
nothing confirmed is ever replayed, nothing is confirmed that is not there,
playlists keep their order and their duplicates, and an interrupted job can be
continued. This project models those promises, checks them with TLC on small
instances and proves all but the liveness ones with TLAPS. Modelled are the transfer of
either program from its start to its last status, the cleanup of a library, the
documents both keep on disk, the client below them, the sign-in before them, and
the decisions (matching, planning, verification) around them.

## 1. The system

### Components, state and operations

| Component | State | Operations | What makes it correct | Module |
|---|---|---|---|---|
| Job lifecycle (`core/enums.py`, `core/transfer/lifecycle.py`) | none (a table) | `can_transition`, `transition` | finished jobs have no way out; every status has a way to be retired | `TransferLifecycle` |
| Transfer service (`app/services/transfer_service.py`) | the job in memory and in its document | `create_job`, `analyze`, `execute`, `resume`, `create_retry_job`, `request_cancellation`, `cancel`, `fail` | writes happen only in a confirmed, importing run; the last status tells the truth; an interrupted job can be resumed | `TransferExecution`, `JobStore` |
| Executor, recovery (`core/transfer/executor.py`, `recovery.py`) | the loop, the items in memory, containers it propagated | `execute`, one write path per kind of item, `_reconcile`, `resolve_ambiguous`, `select_for_retry` | order, no replay, no lost or invented confirmation | `TransferExecution`, `JobStore` |
| Repositories (`infrastructure/persistence`) | one JSON document per job, one for its items, one for the accounts | `add`, `update`, `add_many`, `list_for_job` | concurrent writers invent no record and drop no item | `JobStore` |
| Planner, ordering (`core/transfer/planner.py`, `ordering.py`) | none | `build`, `apply_logical_order`, `restore_positions` | positions and duplicates survive, the visible order is the requested one, what is left out is a warning | `Planning` |
| Matching (`core/matching`) | none | `match`, scoring | no match across found qualifiers or explicit flags; a near tie is never accepted | `Planning` |
| Verifier (`core/transfer/verifier.py`) | none | `compare_sequences`, `verify_playlist`, `verify_liked_tracks`, `verify_job` | a playlist whose entries know their list is verified exactly when it is what was transferred | `Planning` |
| TIDAL client (`platforms/tidal`, `infrastructure/http.py`; `tidal_manager/core/auth.py`, `retry.py`) | the session | reads, writes, the retry loop, offset pagination, error translation | a write of unknown outcome is reported as such and not repeated; a page loop ends and misses nothing | `RemoteClient` |
| Accounts and sign-in (`account_service.py`, `credentials.py`, `platforms/tidal/auth.py`; `tidal_manager/core/auth.py`) | the keyring, the account rows, the sessions of a command | connect, restore, login, check, save, forget | a command writes to the account it was meant for | `SignIn` |
| Cleanup (`tidal_manager/core/cleanup.py`, `state.py`) | a delete queue with a journal, a separate checkpoint | `execute`, `resume`, `_process` | only planned targets are deleted, each outcome is durable, a crash between the documents is recoverable | `DeleteQueue` |
| Library transfer (`tidal_manager/core/transfer.py`, `verification.py`) | the transfer state, create intents, the report | `run`, adoption of ambiguous creations, position reconciliation, verification | created once, appended once, in order, and complete when the checkpoint goes | `LibraryTransfer` |
| Transfer state (`tidal_manager/core/state.py`) | a snapshot document and a journal | `save`, `load`, `clear` | both files are one durable value | `TransferJournal`, `CheckpointStore` |
| Menu (`tidal_manager/ui/menu.py`) and command line (`interfaces/cli`) | none of their own | which service is called in which order | early returns leave nothing half done | in the modules of what they call |
| Localisation, logging, configuration, DTOs, domain records, maintenance scripts | none that the above depends on | | not modelled | |

### How they interact

The command line creates a job, has the service analyse it, asks the user and
executes it, all in one process and one thread. The service loads the items
from the item repository, hands them to the executor and stores the job after
each phase; the executor calls the destination adapter once per item and stores
the item after each attempt. Memory and repositories meet again only when a new
process resumes: it reads the job and the items, takes a snapshot of the
destination, confirms the ambiguous items that the snapshot shows, and runs the
executor over all items again. The executor relies on the item store to skip
what is terminal and on `_reconcile` (which reads a playlist back before each
append) for what the store does not know. Nothing locks the repositories: two
processes on one data directory work on the same documents.

The menu of `tidal_manager` signs in, exports, and runs one of two durable
operations. A transfer works through favourites, folders and playlists and saves
its state before and after every request; the state lives in a document and a
journal of differences. A cleanup is a queue of deletions worked off object by
object, kept in a queue document, a journal of statuses and a checkpoint with
counters. Every write is of one file, in a fixed order; a start-up reads whatever
combination it finds and offers to go on, after it has read the library to find
out about requests that were under way.

Below both stands a client: a retry loop around each request, page loops around
the reads, and a translation of what went wrong on the way up. Whether a caller
records "failed" or "unknown" depends on that translation alone. Before both
stands the sign-in, once per role, which decides whose library is written to.

### What is hard

* **The lost checkpoint.** A write lands and the process dies before the item is
  stored (`executor.py:265`).
* **The lost acknowledgement.** A write lands and its answer does not arrive; the
  item is recorded as ambiguous or failed and the loop goes on to the next one
  (`executor.py:231`). Below it: which errors may be repeated, and which must be
  reported as doubt (`http.py:90`, `errors.py:64`, `retry.py`).
* **Knowledge held in memory.** A playlist's identifier reaches its entries in
  memory; the store learns it one item at a time (`executor.py:308-313, 389`).
* **Positions and identifiers as evidence.** `_reconcile` infers from the length
  and the identifiers of a list what happened to one entry (`executor.py:356-362`);
  `tidal_manager` infers from a list which source positions are done, among some
  that never can be (`transfer.py:388-428`), and from the objects of one name which
  one it created (`transfer.py:297-331`).
* **Several files, one truth.** A stop between two writes leaves a journal beside
  a document that contains it already, or that it does not belong to; a checkpoint
  without a queue, or a queue without a checkpoint; half a record; a record written
  twice (`cleanup.py:235-253, 339-340, 563, 588-589`, `state.py:342-407`).
* **Several actors.** The user cancels, declines, resumes, retires a job, signs in
  with another account; a second process works on the same job; another client
  changes the library between two pages; the process crashes; the service fails.

`PROJECT.json` lists every hazard at its line with the properties about it.

## 2. What is modelled

### `TransferLifecycle`

The vocabulary: job statuses, the transition table, item statuses and the
terminal ones, failure kinds and the durable status each is stored as. Constant
level only.

### `TransferExecution`

One job from `create_job` to its last status, in one process at a time, with
the two repositories and the destination account.

| Variable | Code |
|---|---|
| `library`, `owner`, `lists` | the destination: saved identifiers, which playlist each list was created for, the entries appended to each list |
| `jobStatus`, `dryRun`, `planned`, `itemStore` | the job document and the items document; `planned` says that `add_many` has run |
| `pc` | where the process is: `analysis`, `prompt` (the plan is shown), `resolve` (in `resume`, before `execute`), `loop`, `settle` (a write has returned and is not stored), `verify`, or `down` |
| `queue`, `current`, `outcome` | the items the loop has not reached, the one being written, what its write reported |
| `known` | `destination_id` of playlists and `container_destination_id` of entries, in memory |
| `snapshot`, `cancel`, `cancelled` | the sections of `DestinationState` that were readable; the cancellation flag; `ExecutionOutcome.cancelled` |

| Actions | Code |
|---|---|
| `Authenticate`, `Export`, `Plan`, `StoreItems`, `AwaitConfirmation` | `analyze`, one action per document it stores |
| `Confirm`, `Decline`, `Resume` | `command_transfer` and `command_resume`: what the user decides, with their early returns |
| `ResolveAmbiguous`, `EnterImport` | `resolve_ambiguous`, and the rest of `resume` |
| `SkipSettled`, `DryRunItem`, `RefuseMissing` | the passes of the loop that call nothing |
| `SaveFavorite`, `CreatePlaylist`, `ReusePlaylist` | `_write_track`/`_write_album`/`_write_artist`, `_write_playlist` |
| `FailRead`, `RefuseMismatch`, `ConfirmLanded`, `AppendEntry` | `_write_playlist_item` with the four ways out of `_reconcile` |
| `Settle` | the end of `_execute_item`: success or any failure becomes the stored record |
| `StopForCancellation`, `FinishDryRun`, `BeginVerify`, `FinishJob` | the end of the loop and of `execute` |
| `RequestCancellation`, `Retire`, `Crash` | `request_cancellation`, `cancel`/`fail`, the end of the process |

Choices worth knowing:

* A remote write and its answer are one step, its record the next. A crash
  between them is the lost checkpoint. A failure in `UnsureKinds` may have
  landed: that is the lost acknowledgement.
* A playlist's content is a sequence of *entries*, so that a property can tell
  two copies of one track apart. The code cannot: `IsPlannedPrefix` and
  `StateContains` look at identifiers and lengths only.
* `executor.py:361-362` stores a reconciled entry as transferred and
  `executor.py:264-265` stores it again; the two are one action, since the second
  differs only in clearing the last failure kind.
* The plan (which items, positions, identifiers) is a constant; which status the
  planner gave each item is chosen in `Init` among those it can give it.
* `attempts` is compared with `MaxAttempts` only, and is kept from growing past
  it. In the code it grows with every run for items that are not FAILED, since
  only FAILED items are held to the limit.
* Everything else a record holds (titles, scores, timestamps, error texts,
  counters for the report) is left out: no property is about it.

### `DeleteQueue`

Any number of cleanups of one library, one process at a time.

| Variable | Code |
|---|---|
| `library` | the account's objects, changed by deletions and by other clients |
| `queueDoc`, `journal`, `stateDoc` | `delete_queue.json` (operation, statuses, `last_applied_seq`), the lines of `delete_queue.json.journal`, `delete_state.json` (the counters and the flag that are read back) |
| `pc`, `task` | the next step of the process, and which call of `save`, `record` or `_persist` it belongs to (`execute`, `resume`, the `start` or `outcome` of a deletion, the `interrupt` handler, `finish`) |
| `mem`, `position` | the `DeleteQueue` in memory and the index of the loop in `_process` |
| `recorded` | history: the statuses last written durably for the running cleanup |
| `gone`, `unsure` | history: objects that were absent at some moment since the cleanup began; objects whose last deletion has an unknown outcome |
| `overlapped` | history: the queue replaced one that was not finished, and has no checkpoint of its own yet |

| Actions | Code |
|---|---|
| `Start`, `Exit`, `Estimate`, `Confirm`, `Decline` | `Menu.run`, `load_resume_state`, `_clean_library` with `estimate_cleanup` and `from_plan` |
| `Accept`, `Reconcile`, `ReconcileFails` | `resume`: `_load_persisted`, `_reconcile_interrupted_items`, `reset_failed_items` |
| `ReplaceQueue`, `UnlinkJournal` | the two halves of `DeleteQueueStore.save` |
| `AppendRecord` | `DeleteQueueStore.record` |
| `SaveState` | `DeleteState.refresh` and `DeleteStateStore.save`, wherever they follow a write of the queue |
| `Skip`, `Begin`, `Request`, `Finish` | the loop of `_process`: passing over what is settled, marking an object in flight, the deletion with its report, the end |
| `ClearState`, `ClearQueue`, `ClearJournal` | the removal of the files after a cleanup without failures |
| `Crash`, `WriteFails`, `Interrupt` | the end of the process, an `OSError` that leads back to the menu, the handler of `KeyboardInterrupt` |
| `OthersChange` | another client of the account |

Choices worth knowing:

* `save` and `clear` are split at every file operation. `os.replace` makes each
  replacement of a document one step.
* Reading is defined by what `load` accepts: `Fresh` are the records it applies,
  `JournalReadable` says when it does not raise, `Replayed` is what it returns.
* A stop while a record is appended leaves nothing of it, a torn line, or the
  whole record. A torn line that is complete but for its newline is read as the
  whole record.
* Ctrl+C between two objects repeats the record of the one before; the files are
  those of an interrupt at its checkpoint, which the model has.
* One deletion with all its attempts is one step, so every report may follow an
  attempt that removed the object; only a failure leaves a present one in place.
* Left out of the documents, since nothing reads them back for a decision: the
  attempts, reasons and titles of an object; `remaining`, `interrupted` and the
  current object of the checkpoint. Identifiers within a category are distinct.
* A process that has finished is back at the menu, where another cleanup can
  be planned over files that are still there.

### `JobStore`

Several processes on the documents of several jobs. `TransferExecution` looks
inside one run; here a run is what it reads and what it writes, and each read and
each write of a document is a step, because nothing locks them.

| Variable | Code |
|---|---|
| `jobs`, `items` | `jobs/<id>.json` (status, `cancellation_requested`) and `items/<id>.json` |
| `library`, `lists` | the destination: favourites, and the playlists with the entries they hold |
| `dryRun` | `settings.dry_run`, which a retry job copies |
| `run` | what each process holds: where it is, its own copy of the job, the items it listed, its queue, the document `update` has read and not yet written, what it has read of the destination (`seen`), and `ExecutionOutcome.cancelled` |
| `tried` | history: the items of a job that some process attempted or found settled |

| Actions | Code |
|---|---|
| `Resume`, `ReadState`, `Resolve`, `ConfirmAmbiguous`, `EnterImport`, `ListItems` | `command_resume`, `resume`, `resolve_ambiguous` (the destination is read before the items are listed), the start of `execute` |
| `LoadItems`, `UpdateItem` | the two halves of `JsonTransferItemRepository.update` |
| `SkipSettled`, `DryRunItem`, `WriteFavorite`, `CreatePlaylist`, `ReadList`, `WriteEntry` | the executor's loop and its write paths; `_reconcile` reads the list in one step, and the append follows in another |
| `RequestCancellation`, `BeginVerify`, `FinishJob`, `FinishDryRun` | cancellation by the process that runs, the end of `execute` |
| `SelectForRetry`, `AddJob`, `AddItems`, `StoreJob` | `create_retry_job`: selection, `jobs.add`, `items.add_many`, `jobs.update` |
| `LoadToStop`, `StoreJob` | `request_cancellation`, `cancel`, `fail` from another process |
| `Crash` | the end of a process, or an error nothing catches |

A write that is stored as failed may have landed, like one that is stored as
ambiguous: the adapter makes a permanent failure of an unknown outcome (section 5).
The last status is read off `ExecutionOutcome.cancelled`, not off the job. A run
writes no more than `MaxCommands` times to an item, so that
`_attempts_exhausted` (in `TransferExecution`) never applies; the assumption
`MaxCommands <= MaxItemAttempts` says so.

### `LibraryTransfer`

One transfer, or one restore of a backup, from its start until its checkpoint is
removed, over any number of processes. The checkpoint is one value here.

| Variable | Code |
|---|---|
| `favorites`, `made` | the destination: favourites and followed playlists; every folder and playlist ever created, with its name, folder and entries |
| `saved`, `mem` | the checkpoint and `TransferState`: a status for each object and entry, the identifier of what was created, and the candidates noted with a create intent |
| `pc`, `queue`, `position`, `fresh`, `existing` | where `run` is: the object, the position in a playlist, `created_playlist`, the favourites read at the start |
| `answer`, `report` | how the last request ended; the buckets of `TransferReport` |

| Actions | Code |
|---|---|
| `Start`, `Resume`, `ReadFavorites`, `ReadFails` | the menu, and the beginning of `run` |
| `SkipFavorite`, `NoteFavorite`, `AddFavorite`, `SettleFavorite` | `_transfer_favorites` |
| `SkipCompleted`, `Adopt`, `Conflict`, `CandidatesUnreadable` | what is done already; `_recover_ambiguous_folder`, `_recover_ambiguous_playlist` |
| `RefuseOrphan`, `StoreIntent`, `BaselineUnreadable`, `Create`, `SettleCreation`, `FollowPlaylist` | `_transfer_folders`, `_transfer_playlist` up to its entries |
| `OpenPlaylist`, `Reconcile`, `Mismatch`, `ListUnreadable` | `_reconcile_playlist_position` |
| `AppendEntry`, `SettleEntry`, `RefuseVideo`, `FailEntry`, `FinishPlaylist` | `_transfer_playlist_items` and its handlers |
| `FinishRun`, `Verify`, `VerifyUnreadable` | `verify_and_write`, and `_complete_transfer` of the menu |
| `Interrupt`, `Crash`, `OtherClient` | Ctrl+C (`run` saves what it has), the end of the process, another client |

A request and its answer are one step, its record the next, as in
`TransferExecution`. The name, kind, title and description by which the code
recognises a creation are one value, `Name`; another client can create objects of
the same name, and does. `made` tells copies apart that the code cannot (`by`,
and entries as pairs of playlist and position): only properties look there.

### `Sublists`

One operator, what a comprehension `[x for x in s if ...]` keeps of a list, which
`JobStore`, `LibraryTransfer` and `RemoteClient` filter with. It is a recursive function and not
`SelectSeq`, so that it can be reasoned about.

### `TransferJournal` and `CheckpointStore`

`TransferStateStore` as two files, with what its methods do between them.

| Variable | Code |
|---|---|
| `doc`, `journal` | the document with `last_applied_seq`; the lines of the journal: events, and what a torn append and an append after it leave |
| `mem`, `seq`, `known` | `TransferState`, its sequence number, and `_known_statuses` and its siblings |
| `pc`, `stopping` | which step of `save` or `clear` is next; whether `run` is in its handler of Ctrl+C |

| Actions | Code |
|---|---|
| `Resume`, `Decline`, `Exit`, `Start`, `Leave` | the menu: `load` and what follows |
| `Mark`, `Save` | the transfer marks something and calls `save` |
| `SaveFirst`, `AppendEvent`, `Advance`, `Compact`, `UnlinkJournal`, `Remember` | `save`, step by step |
| `ClearDocument`, `ClearJournal` | the two removals of `clear` |
| `Interrupt`, `Crash`, `TearAppend` | Ctrl+C at any step of `save`, the end of the process, and of the system in the middle of an append |

`CheckpointStore` is the abstract specification: one value that a new process
finds as it was last stored. `TransferJournal` implements it under the mapping
`durable <- Durable`, `sure <- Sure`, `readable <- Readable`: what `load` makes of
the files, what it makes of them without a last line that lacks its newline, and
whether it accepts them. The abstract specification has an action for each thing
the detailed one can do to a value, two of which the code's authors might not
expect: a line without its newline counts until the next stop undoes it
(`StopStoring`), and an append after a torn line makes the files unreadable
(`Ruin`).

### `RemoteClient`

One operation, of the client of either program (`app`), from the caller to the
requests and back.

| Variable | Code |
|---|---|
| `remote`, `landed` | the collections of the account; how often the write took effect |
| `attempt`, `waited`, `answer` | `RetryExecutor.call` / `retry_call`: the attempt, the time it has slept, the last answer |
| `todo`, `snapshot`, `incomplete` | `export_library`: sections to come, read, and not read |
| `offset`, `pages`, `values`, `seen` | `fetch_all` / `_paginate_offset` |
| `error` | what the call raises: the client's error (`pc` is `raised`), then what the adapter makes of it |

| Actions | Code |
|---|---|
| `Answer` | a request arrives, or not, and its answer arrives, or not |
| `Retry` | the retry loop: classification, `retry_safe`, back-off, jitter, `Retry-After` |
| `Written`, `WriteRefused`, `WriteFails` | how each write ends: an answer, an answer without an identifier, an error through `_invoke` and `translate_provider_error` |
| `AdapterRaises` | the `except` clauses of the adapter: what it raises in place of the client's error |
| `OpenSection`, `NextPage`, `SectionRead`, `SectionRefused`, `SectionFails` | the page loop, with its repeated page and both bounds |
| `OtherClient` | additions at the front and removals anywhere between two pages |

### `SignIn`

Commands of either program as sequences of stages. A stage that refuses, fails
or is interrupted abandons the rest.

| Variable | Code |
|---|---|
| `keyring`, `backend`, `accepted` | `CredentialStore`, whether there is a usable backend, whether the service still accepts a saved session |
| `rows`, `work`, `backups` | `accounts.json`; unfinished transfer, cleanup and job; accounts of which there is a complete backup |
| `command`, `todo`, `step`, `candidate`, `session` | the command, its stages, the sign-in under way, the sessions it works with |
| `copied`, `deleted`, `hit` | history: copies and deletions made; whether something failed since the command began |

| Actions | Code |
|---|---|
| `LoadNothing`, `Restore`, `Login`, `LoginFails`, `Check`, `CheckFails` | `TidalAuthenticator.connect` with `_restore_session`, `_login_with_oauth`, `_save` |
| `RecordRow`, `CreateJob` | `AccountService._upsert`, `create_job` |
| `Compare`, `CompareCheckpoint`, `ChooseBackup`, `Checkpoint` | the comparisons of `menu.py`, `_restore_backup`, the first save of `run` |
| `Copy`, `Backup`, `Enqueue`, `Delete`, `Decline` | what a command does once it has its sessions |
| `Give`, `Forget`, `Revoke`, `Stop` | the user, the service, the end of the program |

### `Planning`

The matcher, the planner and the verifier: one action for each turn of a loop
of `build`, then what a run left behind, then the verdicts. Scores are integers
(in millionths), with the rounding left out. A title is what the scores read off
it: its normalised text, the text without qualifiers, and the version marks. A mark
has a way in which it is said: in brackets, behind a hyphen, behind another dash,
or in the platform's own version field. `Qualifiers` finds the first two only, as
the normalisation does (section 5). The
similarity of two texts is a parameter of the model (a function, of which only the
values for texts that differ are used).

| Variable | Code |
|---|---|
| `library`, `settings`, `present` | the snapshot, the job's settings, what `DestinationState` shows |
| `stage`, `turns`, `items`, `warnings` | `build`: the section, the turns to come, the plan so far |
| `latest` | the last search result and the match made of it |
| `held`, `verdicts` | the account when it is verified; `VerificationResult.success` per playlist and per section, and what could not be read |

| Actions | Code |
|---|---|
| `SkipIncomplete`, `Unsupported`, `StartSection`, `EndSection`, `StorePlan` | `build`, `_plan_section`, `_plan_playlists`, `capabilities.require` |
| `SkipUnidentified`, `SkipUnresolved`, `PlanDirect`, `PlanSearched`, `PlanUntargeted` | the turns of the loops, `_plan_playlist_item`, `match` |
| `Write` | any run: which items are transferred, which entries lack their container, what the account holds |
| `Verify`, `VerifyRaises` | `verify_job` and what it calls; an error of reading a playlist that leaves it |

### Instances

* `MCTransferExecution`: favourites `f1` (found) and `f2` (not found in the
  catalogue), playlists `p1` (to be created) and `p2` (its identifier can be
  reused), entries `a`, `b`, `c` of `p1`; in the run `gap`, two entries of which
  the planner dropped one before the first.
* `MCDeleteQueue`: a track `a` and an album `b`, cleaned up as a whole (`full`) or
  for its tracks alone (`tracks`).
* `MCJobStore`: two processes, a job and a retry job, a track, a playlist, two
  entries.
* `MCLibraryTransfer`: a favourite, a folder, in it a playlist with one track twice
  around a video, and a playlist of somebody else.
* `MCTransferJournal`: two keys with two values, compaction at every second event.
* `MCRemoteClient`: three sections in pages of two: one with a hidden item, one of
  four items, and one that is read without the retry loop and holds one track four
  times.
* `MCSignIn`: three accounts.
* `MCPlanning`: two tracks to match against a catalogue with the same recording
  twice, a compilation, a live, a clean and a retitled one, one whose version is in
  the version field, and one that says it behind a dash; snapshots of tracks, albums
  and artists in all six orderings, with missing keys, identifiers and entries,
  repeated and empty playlists.

## 3. What is checked

Passing runs:

| Run | Properties | States |
|---|---|---|
| **cleanup** (`MCDeleteQueue`, `DeleteQueue.cfg`) | `WriteAhead`: a deletion is sent only when the files name its target as in flight. `ReadsBackRecorded`: the files read back as what was recorded. `FilesAgree`: a queue and a checkpoint found together can be resumed. `CountsBehindQueue`: the progress shown is never ahead of the queue. `NoBlindRepeat`: no deletion of unknown outcome is repeated before the library has been read. `RemovedWasAbsent`: what is called removed was absent at some moment of the cleanup. `ClearedAfterRemoval`: the files go only after every target was absent. `SettledFinal`: a settled target stays as it is. `InterruptedEnds`: a cleanup that can be resumed is finished, removed or replaced. | 556,000 |
| **execution** (`MCTransferExecution`, `TransferExecution.cfg`) | `ConfirmedPresent`: a confirmation is true. `ListRecordedFirst`: a list that has entries is in the item store. `SourceOrder`: no entry twice, none out of order. `EntriesCounted`: as many copies as confirmations. `ConfirmedFinal`: what is terminal, or has failed as often as it may, is never written or changed again. `WritesOnlyWhileImporting`: and never in a dry run. `CancelStopsWrites`. `RunEnds`: every run ends. `WorkGetsDone`: a user who keeps resuming gets all items settled or the job finished. | 298,000 |
| **library_transfer** (`MCLibraryTransfer`, `LibraryTransfer.cfg`) | `CreatedOnce`: no folder or playlist of the snapshot is created twice. `EntriesOnceInOrder`. `CompletedHoldsAll`: a playlist recorded as completed holds every entry that is not recorded as unavailable, unsupported or failed for good. `ClearedWhenComplete`: the checkpoint goes only when the account holds the snapshot, less what is recorded as unavailable and, of entries, as unsupported or failed for good (section 5). | 4.7 million |
| **journal** (`MCTransferJournal`, `TransferJournal_store.cfg`) | `ReadsBackSaved`: after `save`, `load` gives what was saved, or refuses files that an append after a torn one has ruined. `StoresOneValue`: `TransferJournal` implements `CheckpointStore`. | 105,000 |
| **remote** (`MCRemoteClient`, `RemoteClient.cfg`) | `UnsafeLandsOnce`: a creation or append takes effect at most once per call. `ClientKeepsDoubt`: of one that took effect and ends in an error, the client says that the outcome is unknown; so do `tidal_manager` and `create_folder` to their callers, while `create_playlist` and `add_playlist_item` of the adapter call it permanent (section 5). `ReadLosesNothing`: a section reported as read lacks nothing, though others add to it. `WaitsBounded`. `CallReturns`. | 1.1 million |
| **jobs** (`MCJobStore`, `JobStore.cfg`) | `StoredMeansWritten`: records can be lost between two processes, but none is invented. `CompletedWasVisited`: a job stored as completed had every item attempted or found settled; dry runs, and entries of a retry job whose playlist was not copied, are excepted. `ItemsKept`: no document loses an item. | 2.6 million |
| **signin** (`MCSignIn`, `SignIn.cfg`) | `RightAccount`: a transfer command does not copy a library onto its own account (a restore, and a job the command line resumes, compare nothing and are excepted), and no cleanup that was not resumed deletes without a backup. `RefusedForCause`: a sign-in is refused only when something failed. | 1.2 million |
| **planning** (`MCPlanning`, `Planning.cfg`) | `SameQualifiers`: a metadata match has the qualifiers that are found in the title of its source, and no explicit flag that contradicts it. `MatchIgnoresOrder`: the order of the candidates decides nothing. `PlanComplete`: the confirmed plan is everything asked for, once, in order and behind its playlist, or a warning. `VerifiedMeansEqual`: a playlist whose transferred entries are all stored with their list is verified exactly when it was read and is what was transferred; a section of favourites only when it was read and each one is there. | 378,000 |

`cleanup` and `execution` check the type invariants too.

Runs that refute something a document or a comment says; each is a finding in
`PROJECT.json`, with the line it quotes:

* **cleanup_exact** (`ExactQueue`): a stop between the replacement of an unfinished
  cleanup's queue and the removal of its journal applies the old journal to the
  new queue (`cleanup.py:235`).
* **gap** (`SourceOrder`): with unresolved entries in the source playlist,
  `_reconcile` misses an append that landed, and it is repeated (`executor.py:359`).
* **journal_overlap** (`ReadsBackSaved`): a transfer that is begun over the files of
  another one is appended to the other's journal and mixes with it (`state.py:371`).
* **signin_browser** (`RefusedForCause`): the callback of the `music_transfer`
  command line takes no `url`, so a first sign-in ends in an error (`context.py:69`).

The properties of the passing runs are stated where these four do not apply:
those about the cleanup's files speak of queues that are not `overlapped` (from
the moment a cleanup replaces files of an unfinished one until its own first
checkpoint, the files mix two cleanups); `SourceOrder` and `EntriesCounted` hold
for a plan without a gap and without a repeated track; the run `journal` begins a
transfer only when no files are there (`Overlaps = FALSE`); `signin` has a
callback that takes the keyword (`TakesUrl = TRUE`).

### Bounds

* **execution.** Three entries are the fewest for which an entry that landed
  unnoticed, one that was recorded and one that is still to come meet in one list;
  two playlists are needed for a reused identifier beside a created one. One crash
  followed by a resume reaches every state of the store a run can leave; the
  proofs have no such bound. `MaxAttempts` 1 makes a FAILED item exhausted when its
  job is resumed, so that both kinds of item the loop can find there are met. Three
  list identifiers are enough for two creations of `p1` beside the list of `p2`.
  The failure kinds are one that is stored as ambiguous and one that is stored as
  failed, "permanent"; both may have landed, since the adapter calls a doubtful
  write permanent (section 5).
* **cleanup.** Two objects are the fewest for which one is settled while another is
  in flight, and two cleanups of different scope the fewest for which files of one
  meet those of another. `MaxStops` bounds crashes, failed writes and interrupts
  together (two in `cleanup_exact`). `MaxRetries` 1 resumes a finished cleanup once,
  so that `reset_failed_items` is met. `MaxChanges` 1 puts an object back, or takes
  it away, at any moment. The proofs have no such bounds.
* **library_transfer.** One object of each kind, and a playlist in which source
  positions and positions of the list come apart (a video in the middle) and media
  repeat. One stop at any step; one change by another client, which can make a
  second candidate for a creation, empty or with content that does not match, or
  take away a favourite. Answers: done, lost,
  refused, gone. The fifth, a write that lands and is reported as a failure that
  excludes it, would break `CreatedOnce` for every program of this kind, and the
  client's part in it is `ClientKeepsDoubt` of `remote`.
* **journal.** Two keys and two values tell a lost, a stale and a mixed difference
  apart; compaction at two events happens several times up to `MaxSeq` 4. Two
  stops: one tears an append, the next process appends to it and stops too. In
  `journal_overlap` there are two transfers, three stops, five events.
* **remote.** Pages of two and sections of four items make a second full page, a
  short one and an empty one; one section hides an item in the middle, one repeats
  a page. Three faults use up the three attempts of one request or are spread over
  several; two changes by other clients, between any two pages. Waits are in
  twentieths of a second, from one second to eight, with a `Retry-After` of zero, above, or none.
* **jobs.** Two processes are what a second terminal makes of one job. A job and its
  retry job; three commands, so that a resumed job can meet a resume and a
  cancellation or a retry; one fault; one crash; a real run or a dry one. The
  processes are interchangeable.
* **signin.** Three accounts: two that a command compares and a third to sign in
  with instead. Three commands make the longest chains, a transfer that is cut
  short, another sign-in, a resume. The accounts are interchangeable.
* **planning.** Every search result of up to three tracks of a catalogue of seven,
  in every order; every run in which up to one item fails or loses its container
  and up to one favourite is gone and one is added by somebody else; up to one part
  of the account that cannot be read; every content of each playlist up to two
  entries, with a foreign one.

### Fairness

`FairSpec` has weak fairness of the analysis, of a live run, of the user's
answer and of resuming. The program has one thread; nothing it does waits for
anything but the network, and every remote call has a timeout and a limit of
retries, so a live process takes its next step. That the user answers and
resumes is an assumption about the user: without it nothing continues a crashed
job, because the program has no daemon. Nothing is assumed of the destination:
every write may fail for ever. Crashes are bounded, not fair. Weak fairness is
enough: no step is disabled by another process.

`FairSpec` of `DeleteQueue` has weak fairness of a live process's steps and of the
user's answers, and strong fairness of leaving the menu, of accepting an offer and
of the reconciliation. The program is a menu: nothing but the user takes it from
one start to the next, so that a cleanup that was cut short is taken up again is
an assumption about the user. That an export of all sections succeeds some time,
when it is tried again and again, is one about the service: a section that can
never be read keeps a cleanup with something in flight from going on for ever.
No deletion need succeed.

`RemoteClient` has weak fairness of `Step`, everything the caller's thread and the
service do; a request that is never answered is a time-out
(`install_request_timeout`). Other clients and the server's faults are bounded, not
fair. The other modules have safety properties only, and may stop anywhere
(`CHECK_DEADLOCK FALSE` where a bound is used up or the program ends).

A job whose last item was stored before a crash, or that crashed in VERIFYING,
has nothing pending; `command_resume` returns early and its status stays as it
was. `WorkGetsDone` therefore ends in "finished or nothing pending".

## 4. What is proved

Eight modules hold the proofs; each extends the model it is about, and is about
every value of the constants. `DecisionProofs` has two models, `SignIn` and
`Planning`: whose account it is and what goes onto it are decided before anything
is written. Every safety invariant and every action property that a run checks is
proved; the table at the end lists the liveness properties, which are not.

An invariant of this system is seldom inductive by itself: it speaks of a
document or of the account, and what keeps it true is what the process holds in
memory at the moment, and why. The proofs all have the same shape. The inductive
invariant says what each place of the program relies on; a lemma per action, or per
group of actions that change the same things, says what it changes; and a lemma
per part of the invariant says why it survives. The invariants were checked with
TLC on the instances of section 3 before they were proved.

### `TransferExecution`

From the assumptions on its constants (kinds of items are disjoint; an entry's
container is a playlist and its position is its own; an identifier reused for a
playlist is not reused for another; `Entries` is finite):

| Theorem | Statement |
|---|---|
| `TypeCorrect` | `Spec => []TypeOK` |
| `IInvCorrect` | `Spec => []IInv` |
| `ConfirmationsCorrect` | `Spec => []ConfirmedPresent` |
| `ListsRecorded` | `Spec => []ListRecordedFirst` |
| `EntriesInOrder` | `Spec => []SourceOrder`, if `ReadsLists`, `NoGap` and `NoRepeat` |
| `EveryEntryHasACopy` | `Spec => []EntriesCounted`, if `NoRepeat` |
| `TerminalIsFinal` | `Spec => ConfirmedFinal` |
| `WritesAreImports` | `Spec => WritesOnlyWhileImporting` |
| `CancellationStops` | `Spec => CancelStopsWrites` |

`ConfirmedPresent` is not inductive by itself. A write that has returned is
recorded one step later, so the invariant must say what that write did
(`EffectInv`); where the code looks for a list, memory and store must agree on
whose it is (`ListInv`); and a write in flight must belong to an item that was
not terminal (`SettleInv`). `IInv` is their conjunction with the two properties.

The one step that needs an argument about data is the reconciliation: why is an
entry present whose position is below the list's length? The list is a prefix of
the planned identifiers, the entry's slot among the resolved entries is at most
its position plus one (`SlotBound`, by the pigeonhole principle: the entries
ahead of it have distinct positions below its own), hence within the list, where
the prefix has the entry's identifier (`LandedEffect`). This holds with gaps and
with repeated tracks: what those break is order and counting, not presence.

Order and counting need to know whose entries a list holds (`OwnInv`). Without a
gap the slot is the position plus one (`SlotIsPosition`), so that a list which is a
prefix of the plan and not longer than the entry's position holds only entries
that come before it (`AppendedBehind`): the append that follows keeps the order.
Without repeated tracks the identifier of a confirmed entry is found only where
that entry is, so that confirmations can be counted in the list. Both hypotheses
are needed: the run `gap` breaks the order without the first, and section 5 says
what two copies of one track do.

The action properties follow from `IInv` (`ConfirmedFinal`), from the phase a
live process is in (`PhaseInv`, for `WritesOnlyWhileImporting`), or from the
guard of the loop alone (`CancelStopsWrites`).

### `DeleteQueue`

For any library, scopes and bounds, from the assumptions that the objects are
finitely many, are listed once in `Order`, and that `None` is neither a status
nor a document:

| Theorem | Statement |
|---|---|
| `TypeCorrect` | `Spec => []TypeOK` |
| `RecordedIsReadBack` | `Spec => []ReadsBackRecorded` |
| `WrittenAhead` | `Spec => []WriteAhead` |
| `FilesAlwaysAgree` | `Spec => []FilesAgree` |
| `NothingRepeatedBlindly` | `Spec => []NoBlindRepeat` |
| `RemovedHasBeenAbsent` | `Spec => []RemovedWasAbsent` |
| `FilesOutliveTargets` | `Spec => []ClearedAfterRemoval` |
| `ProgressIsBehind` | `Spec => []CountsBehindQueue` |
| `SettledIsFinal` | `Spec => SettledFinal` |

The properties are about what `load` makes of a queue document and a journal, so
the proof first says what a further record does to it. The next number in
sequence is applied and changes one status (`AppendApplied`); a torn record or
one that repeats a number changes nothing (`AppendIgnored`); a document numbered
at or above its whole journal is read as it is (`NothingApplied`); and the number read back is
at least that of every intact record (`FreshTop`, by looking at the first record
that would be above it). The invariant `IInv` then needs four parts beside the
types: where the process is determines what it holds (`PhaseInv`); the files read
back as recorded, or are those of an overlapping cleanup with nothing settled
(`FilesInv`); a queue being resumed is numbered above the journal it will be
saved beside (`ResumeInv`); and while the queue is worked off it differs from the
files in the current object at most, with the journal numbered up to memory's
`last_applied_seq`, or one above it after an interrupted append (`WorkInv`). The
last clause is what makes a record that is written twice harmless.

What the files say of the *account* is a second invariant on top of that one,
`HistoryInv`: the loop has settled, or left in doubt, every object it has passed
(`PassInv`); whatever memory or the files call removed has been absent
(`GoneInv`); an object whose deletion has an unknown outcome is in flight in
memory or in the files, or is waiting in a queue that has been compared with the
library since (`DoubtInv`); and the counters of the checkpoint are at most those
of the queue it was refreshed from (`CountInv`).

### `LibraryTransfer`

For every snapshot and any number of stops and of changes by other clients. The
assumptions say that the orders and the entries of a playlist are lists and that
an object is of one kind (`SnapshotAssumption`, `KindsAssumption`).

| Theorem | Statement |
|---|---|
| `BaseHolds` | `Spec => []BaseInv` |
| `CheckpointGoesLast` | `Spec => ClearedWhenComplete` |
| `NothingIsCreatedTwice` | `Spec => []CreatedOnce`, if `"garbled" \notin Answers` |
| `EntriesLandOnceInOrder` | `Spec => []EntriesOnceInOrder`, if also `DistinctNames` |
| `CompletedPlaylistsHoldAll` | `Spec => []CompletedHoldsAll`, under the same |

`CheckpointGoesLast` and `CompletedPlaylistsHoldAll` except what `Barred` names:
entries recorded as unavailable, as unsupported, or as failed for good. The last of
these are entries the service refused, which a resumed run does not try again.

`"garbled"` is a write that lands and is reported as a failure that excludes it;
no program can be exact about such a service, and the run excludes it too.
`DistinctNames` says that no other folder or playlist of the snapshot has the
title, description and kind of an own playlist: the code recognises what it
created by these (section 5).

`BaseInv` is what a run relies on at each point: what `Current` is, that the
report says what the checkpoint says. `CreationInv` adds that a creation which was
sent shows in the checkpoint, by its intent, its completion or its identifier
(`Remembers`): an intent is stored before the request, so whatever is lost in
between, the next process finds a reason to look before it creates again.
`EntryInv` says what is known of the lists. An identifier leads to an object of the
right name, and what was there before an intent is not what the intent created
(`KnowsLists`). A list holds the first of the entries that are due up to some place
(`Aligned`), or is another client's of that name which the reconciliation will
refuse (`Stray`), or is not ours yet (`Untouched`). In the loop, everything due
before the position is in the list and nothing behind it (`Reached`). The
reconciliation compares two lists of media; that it then knows the *positions* is
`SameStart`: a rising list that holds the first elements of another rising list
is the beginning of it.

### `TransferJournal`

For any keys and values, any compaction interval and any number of stops, from the
assumption that `None` is neither a state nor a document, where no transfer is begun over the files of another (`~Overlaps`; with it, the run
`journal_overlap` refutes the first):

| Theorem | Statement |
|---|---|
| `SavedIsReadBack` | `Spec => []ReadsBackSaved` |
| `FilesAreOneValue` | `Spec => StoresOneValue`: the two files implement `CheckpointStore` |

`load` is a fold over the lines of the journal. `LineBringsUp` and `ReadingSkips` say
what a line does to a reading, by its number; `ReadingSound` that a reading which is
accepted has the values of the last line that set them. The invariant says where
the process is between the two files (`Place`) and that what it remembers of the
last save is enough to bring the files up to its state (`Agreement`: the lines
fit the document, cover what changed, and give what was saved); a journal that an
append after a torn one has spoilt is refused by every reader. The refinement maps
each step to a store, a stop, a resume, a clear, the ruin of the files or a
stutter.

### `JobStore`

For any number of processes, jobs and items. `OrderAssumption`: `Order` lists the
items without repetition, the playlist before its entries.

| Theorem | Statement |
|---|---|
| `InvariantHolds` | `Spec => []IInv` |
| `UpdatesAreNeverInvented` | `Spec => []StoredMeansWritten` |
| `CompletedMeansVisited` | `Spec => []CompletedWasVisited` |
| `DocumentsKeepItems` | `Spec => ItemsKept` |

Nothing is locked, so the argument cannot be that a process knows the documents.
It is that an update puts back an older reading and never something that was not
read: every reading that any process holds is itself true of the destination,
which never shrinks (`Truthful`), and has the items of the stored document, since
these are written once, before the job can be resumed (`SameItems`). For
`CompletedWasVisited`, what a job still lacks is in its run's queue (`Visited`), and
a loop that leaves the queue before its end is stored as cancelled. The theorem says
nothing of dry runs and of retry entries without their playlist, and does not say
that a cancellation another process stored is heeded: it is overwritten.

### `SignIn`

| Theorem | Statement |
|---|---|
| `SignInTypes` | `Spec => []TypeInv` |
| `SignInRightAccount` | `Spec => []RightAccount` |
| `SignInRefusals` | `Spec => RefusedForCause`, if `TakesUrl` |

`RightAccount` says of a transfer command that it does not copy a library onto its
own account. A restore may (its backup names an account nobody compares), and so may
a job that the command line resumes; the theorem says nothing of these.

The stages still to come of a command determine what it has compared already
(`StageInv`, `ComparedInv`), and the account a role signed in with is the one whose
session is saved, unless none is saved any more (`SavedInv`). `RefusedForCause` holds where the callback takes the URL; the run
`signin_browser` refutes it where it does not.

### `Planning`

For any tracks, similarities, libraries, settings and search results, and any
number of failures. The assumptions: a policy has thresholds between 0 and 1 and
looks at one candidate at least (`PolicyAssumption`), a similarity is a ratio
(`SimilarityAssumption`), the artists of a track are finitely many and its keys
can be compared (`TracksAssumption`), and a job's sections, favourites
and playlists are lists (`JobsAssumption`).

| Theorem | Statement |
|---|---|
| `MatchesKeepQualifiers` | `PlanSpec => []SameQualifiers`, if `High > 850000` |
| `OrderOfResultsIsIrrelevant` | `PlanSpec => []MatchIgnoresOrder` |
| `PlansAreComplete` | `PlanSpec => []PlanComplete`, if `DistinctContent` |
| `VerdictsAreTrue` | `PlanSpec => []VerifiedMeansEqual` |

`MatchesKeepQualifiers` is arithmetic about the scores. Each component of a score
is a ratio (`ComponentsAreRatios`) and the weights add up to 100, so that a score and
its penalty are together at most the best score (`ScoreBounds`). The least penalty
for a difference is 0.15, which leaves 0.85. The threshold of the program
is 0.88; it can be configured, and at 0.85 or below the theorem would be false. The
clean replacement of an explicit track that the settings allow is no exception: its
penalty is larger still. It is about the qualifiers that are found, not about
recordings: section 5 says which differences the code does not see.

For `OrderOfResultsIsIrrelevant` a match is described without an order: a place of
the result *wins* when it fits, counts enough, and no other place that fits comes
near it (`Wins`). The winner is what `Match` returns (`WinnerIsChosen`, by way of
what a stable sort does: `SortedArranges`), there is at most one, since of two that
win each would have to be well above the other, and winning does not depend on
where a place stands (`OrderDecidesNothing`).

`PlansAreComplete` needs to know, of each section, how far the planner is with it
(`Progress`, with `Placing`): nothing of it is planned before its turn; during it,
what is planned followed by what is wanted of the turns left is what is wanted of
the whole; behind it the whole is planned. A turn moves its own section on
(`TurnPlaces`) and, as sections have no entry in common, no other (`OtherPlaces`).
That the whole is the library is shown apart: the playlists stand one behind the
other in what `FlattenSeq` makes of them (`FlattenStands`), each with its entries
behind it and nowhere else (`PlaylistAt`), so that one item of the plan and no other
is for it; and the logical orders hold each track as often as before, in ascending
order and the missing keys last (`OrderedHolds`). `DistinctContent` says that a job names no section twice:
`_content` (`commands.py:250`) does not see to that, and of `--content tracks,tracks`
every track is planned twice.

`VerdictsAreTrue` rests on one fact about lists: two of the same length with no
mismatch in their common places are equal (`SameSequenceIsEquality`). What the
verifier expects is what is due only where every transferred entry is stored with
its list (`FiledIsDue`); of the other playlists the theorem says nothing.

### `RemoteClient`

| Theorem | Statement |
|---|---|
| `UnsafeWritesLandOnce` | `Spec => []UnsafeLandsOnce` |
| `DoubtIsKept` | `Spec => []ClientKeepsDoubt` |
| `ReadsLoseNothing` | `Spec => []ReadLosesNothing` |
| `EveryWaitIsBounded` | `Spec => WaitsBounded` |

The assumptions: a section holds a list, `Unwrapped` names sections, sizes and
bounds are natural numbers, the server names finitely many delays, and no delay is
jittered below zero.

An unsafe write is sent once (`AskedOnce`), so a wrong report could only come from
the translation: an answer after which the write may have landed has a reason that
both clients keep (`WriteInv`). What the adapter of `music_transfer` makes of it is a
second translation (`Adapted`), and `DoubtIsKept` says that it loses the doubt in
`create_playlist` and `add_playlist_item` (`Forgetful`).

A page loop loses nothing because of what it has behind it (`ReadInv`). `Seen(r, m)`
is what the server shows of the first `m` items of a list `r`, and a page is the
difference of two of them (`SeenGrows`). While nothing changes, what was collected
is `Seen` up to the offset (`WholeInv`). While other clients only add, in front,
the items that were there at first move backwards, so each that stands before the
offset has been collected already, some of them twice (`NothingLost`, with
`Covered` and `InsertionKeeps`). Either loop ends at a page shorter than the page
size, behind which nothing stands (`PageHolds`). A removal moves items forwards
across the offset, which is why the property excludes it.

`WaitInv` says where the parts of a delay come from; `DelayBounds` is the arithmetic
of the back-off, its cap and its jitter.

### Induction

The library's induction theorems cannot be used, since they take an operator as a
parameter. What has to be shown of every list is shown through sets instead: the
lengths for which a fact holds form a set that contains 0 and the successor of
each of its members, hence all of Nat (`Induction` in `SublistProofs`, from
`LeastElement`). That a recursive function has the value its definition says is
proved the same way, and `FoldLeft` is unfolded to such a function (in
`TransferJournalProofs`). `SequenceInduction` does for lists what `Induction` does
for numbers.

### What stays with TLC

| Property | Why |
|---|---|
| `RunEnds`, `WorkGetsDone`, `InterruptedEnds`, `CallReturns` | liveness: fairness and ENABLED are outside the prover's reach |

## 5. What the code does beside the properties

What was met while reading and modelling, and is neither a finding of a run nor
ruled out by a property:

* Of two copies of one track in a playlist, the one that failed can be confirmed
  on the strength of the other (`executor.py:359`): `_reconcile` sees identifiers
  only. When the first append fails and the second one lands, a resumed run takes
  the one copy for the first, and records both as transferred: `EntriesCounted`
  fails, although `docs/architecture.md:162` says that duplicates are preserved.
  `NoRepeat` excludes this from the theorems, `DistinctTarget` from the run. A crash between the creation of a playlist and the record of its
  identifier creates it again (`executor.py:308`).
* An authentication failure is recorded like any other and the run goes on
  (`executor.py:231`), although it will fail every item to come.
* A resumed run stores entries as transferred without their container
  (`executor.py:324`), and `verify_job` leaves such entries out (`verifier.py:127-132`):
  a playlist that is right can fail for lack of an expected entry, and one that lacks
  the entry can pass. `VerifiedMeansEqual` excepts these playlists (`Unfiled`).
* Favourites are verified only when the account held no others before
  (`verifier.py:87` says "only membership is checked"). For albums and artists,
  `_verify_identifier_set` does not ask whether the section was read; one that was
  not read is empty, so the verdict fails with missing identifiers instead of a
  warning. Any error of reading a playlist other than a missing capability escapes
  from `verify_job` (`verifier.py:74-76`, `VerifyRaises`), and the job stays in
  VERIFYING.
* An entry that was refused for good is passed over on a resume
  (`transfer.py:402-408`), left out of what the verification expects
  (`verification.py:186`), and the menu clears the checkpoint with the entry missing
  (`menu.py:607-611`), although `state.py:390` says "only after a fully successful
  operation". `Barred` is that exception in `CompletedHoldsAll` and
  `ClearedWhenComplete`.
* A queue without a checkpoint is not offered for resumption (`cleanup.py:420`).
* Two processes that resume one job overwrite each other's confirmations, and a
  cancellation stored by another process is never seen by the one that runs. The
  items are then tried again, and the entries of a playlist go through `_reconcile`.
* A retry job that selects an entry without its playlist completes without trying
  it (`transfer_service.py:352`). A crash in `create_retry_job` leaves an empty job.
* A dry run is stored as completed even when it was cancelled half way
  (`transfer_service.py:250-253`); its remaining items have not been looked at.
* Only FAILED items are held to `MAX_ITEM_ATTEMPTS` (`executor.py:449`): ambiguous,
  unavailable and not-found ones are tried again in every run.
* The adapter translates an error that the client has translated already
  (`adapter.py:248-255, 265-270`); what has no reason it knows becomes permanent. An
  `AmbiguousOperationError` has none, so that `create_playlist` and
  `add_playlist_item` report a permanent failure where the client reported doubt,
  against `adapter.py:243-246` and `261`; `create_folder` lets the doubt through.
  `ClientKeepsDoubt` states both. `UnsureKinds` of `TransferExecution` therefore
  includes "permanent", and in `JobStore` a failed write may have landed.
* `music_transfer` caps a `Retry-After` (`http.py:148`); `tidal_manager` does not. A
  page that the server empties (all of its items hidden) ends the loop of
  `music_transfer`, a short one that of `tidal_manager`; `Pageable` in
  `ReadLosesNothing` is that condition. A playlist whose pages repeat is refused by
  both. `music_transfer` reads playlists and folders without the retry loop.
* `tidal_manager` recognises what it created by title, description and kind. When
  the answer to a creation is lost and it did not land, a resumed run can take a
  sibling of the same name, created in the meantime by the run itself, for it, and
  append the one's entries to the other. `DistinctNames` excludes this.
* A crash between the two removals of `clear` leaves a journal without its
  document. A torn line followed by an append makes the files unreadable
  (`transfer_journal_invalid`) and they stay so.
* A resumed cleanup deletes from whichever account signs in (`menu.py:227`), while
  `menu.py:442` calls a complete backup mandatory; `command_resume` does not compare
  the destination with the job's. `RightAccount` names both.
* Any failure to restore a session, of the network too, deletes the saved one. The
  two programs keep their sessions under different names in the keyring. The
  callback of `adapter_for` cannot show a URL, so the command line is of no use
  without a keyring.
* Two candidates with the ISRC of the source: the first one is taken.
  `SameQualifiers` holds while `high_confidence` is above the best score another
  version can reach, which is configurable. `allow_explicit_to_clean_fallback`
  changes no outcome. `--preserve-order` has no effect (`to_write_order` has no
  caller), though `docs/platform-adapters.md:134` describes it.
* The version field of a track (`track.py:21-24`, filled at `mapper.py:160`) is not
  read when tracks are compared (`normalization.py:326-342`), and a dash other than
  the hyphen has become a space before qualifiers are looked for
  (`normalization.py:146, 163`): a live recording that says so only there can be
  matched with the studio one. Of two tracks of which one does not say whether it is
  explicit, nothing is compared. `test_matching.py:218-219` calls a remaster "still a
  match, with a warning"; the code's penalty leaves it below the threshold, and what
  that test asserts is the warning alone.
* `build` is documented to raise `UnsupportedCapabilityError` for a section the
  snapshot lacks (`planner.py:131-134`); it raises it for a section the destination
  cannot write, and leaves an incomplete one out with a warning.

## 6. Not modelled

* Terminal input and output, progress, localisation, logging, configuration, view
  records: no state that a property is about.
* Text: normalisation, identifiers, formatting, the fields of a record that nothing
  reads back for a decision. The mapper's conversions and the backup's file format
  are data.
* `--dedupe`, the sort orders of `tidal_manager` (one library call each) and dry runs
  of a retry job: choices of input, made before what is modelled begins.
* The queue port: nothing in the programs uses it. The maintenance scripts are not
  part of the programs.
* The composition of `LibraryTransfer` with `TransferJournal`, and of the executor
  with `RemoteClient`, as one state machine: the first is replaced by the
  refinement of `CheckpointStore` (the checkpoint is one durable value), the second
  by `UnsafeLandsOnce` and `ClientKeepsDoubt`: a write lands once, and what the
  caller is told of a doubtful one, "ambiguous" or "permanent", is a failure the
  upper modules let land.

## 7. Plan

Done: the modules above, with the proofs of section 4. Every safety invariant and
action property that a run checks is a theorem. Left to do, in order of importance:

1. That what `Planning` confirms satisfies what `TransferExecution` assumes of its
   items: an entry's container is a planned playlist, and its position is its own.
2. More about the statuses of `TransferExecution`: what the last status of a job
   says about its items.
