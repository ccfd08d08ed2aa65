# Asset audit app: TLA+ models, checks and proofs

The repository holds a mobile application for auditing the fixed assets of a
plant, written twice: a Flutter app (`lib/`) and a Kotlin port of it
(`AssetApp-Android/`). Auditors sign in with Google, see the assets of the cost
centers they are responsible for, record an audit of an asset, photograph things
that are not in the register ("temp photos"), and follow the progress on a
dashboard, from which all that is left can be accepted at once. The server is
Firestore with Firebase Auth and Storage; the repository has no server-side code.

On iOS, what a device keeps while it is offline goes through two libraries whose
sources are checked in under `ios/Pods 2/`: leveldb, the store below Firestore's
local cache, and nanopb, its wire format. They are nearly all of the C and C++ in this
tree, they are what the queue and the caches of the app rely on after a restart, and
they are where threads, files and crashes meet; so they are modelled as well.

This directory holds the TLA+ modules that model that program, the TLC
configurations that check them on small instances, and the proofs TLAPS checks.
Paths below are relative to `src/`; those of the two libraries are relative to
`src/ios/Pods 2/leveldb-library/` and `src/ios/Pods 2/nanopb/`.

## 1. Inventory

Dart has one thread. Everything that is hard here comes from `await`: between two
awaits code runs undisturbed, at an await anything else may run, and few of the
calls in this code are awaited by the one who starts them. The second source is
that several devices share the same documents, and the third that devices are
restarted and requests fail, sometimes after the server has done what they ask.
The Kotlin port has real threads, and so has the local store: there the difficulty is
what happens while a mutex is released, and what is on the disk after a crash.

| component | state it keeps | operations | talks to |
|---|---|---|---|
| Offline audit queue: `lib/services/offline_sync_service.dart`, listener in `lib/main.dart` | Hive boxes `pending_audits` and `sync_status`, the listener's `isSyncing` | save, count, sync in batches, retry the failed | Firestore transactions, connectivity events |
| Session and rights: `lib/providers/auth_provider.dart`, `lib/screens/home_screen.dart` | user, `allowedUsers`, `loading`, `rightsFetched`, copy of the table in the preferences, tab | sign-in, sign-out, fetch of the table, redirect, tap | Firebase Auth, Firestore, preferences |
| Asset list and cache: `lib/providers/asset_provider.dart` | list, loading, error, rights, cached list and time per rights | load with cache, fetch, retry, expiry | Firestore, preferences; told by the session through a proxy provider |
| Audited set and bulk accept: `asset_provider.dart`, `lib/screens/dashboard_screen.dart` | audit year, audited set, loading mark, cached statistics | change of year, load, refresh, bulk accept in batches of 500 | Firestore `audit_logs`, batches |
| One audit: `lib/providers/audit_provider.dart`, `audit_screen.dart`, `audit_form.dart` | status of the submission, the form | pick a picture, validate, upload, transaction | Firestore, Storage |
| Temp photos: `lib/providers/temp_photo_provider.dart`, form, panel, accept dialog | list, spinner, status | load, save, edit, delete, accept as an asset | Firestore, Storage, several devices |
| Access rules: `lib/services/rbac_service.dart`, `lib/configs/routes.dart` and their ports | none | filters, routes, cost centers of a role | everything that shows data |
| Search, survey, lists: `search_screen.dart`, `survey_screen.dart`, `load_more_list.dart`, `temp_photo_utils.dart` | filters, page, recent locations | filter, next page, remember a location | asset list |
| Kotlin port: repositories, `SyncWorker.kt`, view models | pending audits in DataStore, work of WorkManager, flows | the same, with coroutines and a worker | the same server |
| Local store, versions: `db/version_set.cc`, compactions and reads of `db/db_impl.cc` | levels of tables, compact pointers, seek charges, snapshots | flush, pick, expand, split, merge, move, install, read | one background thread, writers, readers |
| Local store, writes and files: the rest of `db/db_impl.cc`, `LogAndApply`, `Recover` | queue of writers, memtables, logs, manifest, CURRENT | group commit, switch, flush, recover, remove files | the file system, the background thread |
| Local store, parts: `db/log_*.cc`, `db/skiplist.h`, `db/db_iter.cc`, `table/*.cc`, `util/cache.cc` | a log file; a list; iterators; a table; a cache | append and read records; insert and search; move; build and look up; hold and evict | each other, under the two above |
| POSIX environment: `util/env_posix.cc` | lock table, two limiters, write buffer, work queue | lock, open, append, flush, sync, schedule | the operating system |
| Wire format: `pb_decode.c`, `pb_encode.c` | the message in memory, the stream | decode, release, size, encode | callbacks of Firestore |
| Models, mappers, widgets, theme, generated code, other libraries | no shared state | | |

What makes each of them correct, and why a test would hardly show it:

* **Queue.** A saved audit reaches the server or stays on the device, whatever
  runs overlap, fail, or are cut off between the commit and the delete; it is sent
  twice only if an answer was lost; the guard of the listener is released by every
  way out; what failed is not forgotten; what waits is tried. Four activities use
  the same two boxes, and `get` hands out the object that was put, so that a
  running sync and a stored status share one list of failed ids.
* **Session.** Nobody awaits the fetch that a sign-in starts: fetches of several
  sessions overlap, and a late one writes over the rights and flags of the present.
  The first spinner has to end, and no private tab may stay with a user who has no
  rights, although a tap is judged by what an earlier frame captured.
* **Asset list.** The rights are read before a query and again after it; the cache
  has a list and a time that are written one after the other; loads overlap. Every
  way out has to end the spinner, what the cache serves has to be what the server
  answered not long ago, and it should be the list of the rights it is kept for.
* **Audited set.** Loads of several years overlap and any of them may answer last;
  a failed one counts as nothing audited; a bulk accept takes its work list from
  that set, reads the year again for each batch, and survives the dashboard.
* **Temp photos.** An accept is two requests, an edit with a picture three, and
  other devices act on the same photo between them, from lists they loaded long ago.
* **Access rules.** The same rule is written in several places, in two languages.
* **Kotlin queue.** It rewrites its whole list after a sync, while audits are saved.
* **Versions.** All entries of a user key have to stay in the order of the levels,
  newest first, whatever compaction takes some of them and leaves others; a memtable
  is placed into the levels while a merge runs.
* **Writes and files.** One writer commits for others with the mutex released, and
  may fail in the middle; a crash finds any prefix of what was not synced; files are
  removed by number while new ones are written; writers wait for a background thread.
* **Log, table, list, iterator, cache.** What a reader finds has to be what was
  written: after damage, at the boundaries of blocks and prefixes, beside a writer
  without a lock, after a change of direction, under eviction.
* **Environment.** A lock that a process could take twice, counters given back on
  every way out, bytes in order when `write` takes a part, a wake-up that may be lost.
* **Wire format.** Any bytes may come in: memory belongs to one pointer whatever they
  say; a length is written before what it measures.

`PROJECT.json` lists each hazard at its line, with the properties that cover it.

## 2. Plan

Done, in this order: the offline queue with its abstract specification and
proofs; session; asset list, which composes with the session; audited set and bulk
accept, with proofs; statistics of the dashboard over it; temp photos, with proofs;
the Kotlin queue; the local store from its levels and files down to the operating
system; the wire format; proofs for the session, the asset list, the POSIX environment,
the list of the memtable, the files and numbers of the store, its refinement of
`DurableStore`, the log files, and the encoder.

| module | models | extends or instantiates |
|---|---|---|
| `OfflineSync`, `OfflineSyncProps` | the queue; its properties | |
| `AuditOutbox` | abstract specification: an at-least-once outbox | |
| `Session` | session, rights, gate of the home screen | |
| `AssetList` | list and cache | `Session` |
| `AuditTracking` | audited set, bulk accept, submitted audits | |
| `DashboardStats` | cached statistics | `AuditTracking` |
| `TempPhotos` | temp photos on several devices | |
| `KotlinSync` | queue and worker of the Kotlin port | |
| `LevelVersions` | levels, compactions, reads, snapshots | |
| `LevelStore` | write queue, logs, manifest, recovery, files | `DurableStore` |
| `DurableStore` | abstract specification: a durable map of batches | |
| `LevelLog` | format of logs and manifest, reader and writer | |
| `LevelSkipList`, `LevelIterator`, `LevelTable`, `LevelCache` | memtable, iterators, table files, cache | |
| `PosixLocks`, `PosixReaders`, `PosixWriter`, `PosixBackground` | the environment | |
| `NanoDecode`, `NanoEncode` | the wire format | |
| `OfflineSyncProofs`, `LevelStoreProofs`, `LevelLogProofs`, `NanoEncodeProofs` | theorems | the modules they are about |
| `AppPartsProofs` | theorems | `Session`, `AssetList`, `AuditTracking`, `DashboardStats`, `TempPhotos` |
| `LevelMemoryProofs` | theorems | `LevelSkipList`, `LevelCache`, `LevelIterator` |
| `LevelPromiseProofs` | theorem: `LevelStore` implements `DurableStore` | `LevelStoreProofs` |
| `PosixProofs` | theorems | the four parts of the environment |
| `MC*` | sets of model values and symmetry for TLC | the modules they instantiate |
| `MCAppParts`, `MCLevelParts` | models that share no state, side by side: `part` says which one a behaviour belongs to | the parts, by EXTENDS or INSTANCE |

Left, in this order:

1. `AuditForm`: form, upload and transaction of one audit, with the status the
   screen shows, and its two ports.
2. `Rbac`: the filters and routes of both languages as operators, compared with
   each other and with one reference definition over all small contexts.
3. `Lists`: pages, filters and recent locations.
4. The Kotlin session, asset and photo repositories as variants of `Session`,
   `AssetList` and `TempPhotos`.
5. `LevelStore` with the levels of `LevelVersions` in place of its sets of tables.

## 3. Modules and code

### OfflineSync

`box` and `status` are the Hive boxes as `get` answers them; `diskFailed` is the list
of failed ids as it was written, which is what a restart finds. `owner` says whose
list the stored status shares, `src` and `torn` what a retry iterates over and
whether that grew meanwhile. `task` maps each activity to a program counter and
the local variables of its function. The phases are the awaits: `open` (the box is
opened), `send` and `sent` (transaction under way, committed), `report` (a status
is written), `pause` (the delay between batches), `finish`; `next`, `resend`,
`resent`, `rewrite` are those of `retryFailed`.

The listener is one activity with a guard; saves and retries are `Callers`, as many
as one likes. Nothing in `lib/` calls `saveAuditOffline` or `retryFailed` yet: the
queue is modelled as the service that other code may call. `Faults` are a restart,
a lost answer of a transaction, a failed delete and a failed write of the status,
`MaxFaults` of them. `logs`, `saved` and `charged` are what the server has and history.

`AuditOutbox` is what the queue promises: an accepted audit is held until it was
delivered, is released only then, and nothing is delivered that was not accepted.
`OfflineSync` implements it with `accepted <- saved`, `held <- box`,
`delivered <- logs`. It promises nothing about how often: overlapping runs send twice.

### Session

The table of rights lives on the server (`serverTable`), in the copy Firestore
answers from when offline (`sdkTable`), in the preferences (`prefsTable`) and in the
provider (`allowedUsers`). `fetches` are those under way. `HomeBuild` is a frame: it
happens when something was announced or set (`notified`, `repaint`), shows the
login page, a spinner or the tabs, and the redirect from a private tab to Search
is the callback after it. `shownDenied` is what that frame's closures captured, and
`TapTab` is judged by it. `SessionRestart` keeps what the device keeps.

### AssetList

`loads` are calls of `loadAssetsWithCacheLogic` and `retry` under way; `reload` decides
between cache and server, `query` is the query, `stamp` the list is stored and its
time not yet, `unstamp` the list is removed and its time not yet. `rights` in a load
are those its query was made with; `context` are those of the provider now. A list
is represented by the cost centers it shows. `Frame` is the session's frame with
the proxy provider of `main.dart`: the first frame with a user makes the provider,
whose constructor starts a load; later ones pass the rights on if the session
announced something (`GetRights`). `ProviderLost` is what a restart does to the provider.
`Expire` is the passing of 30 days; `recent` is history, the keys under which a list was
stored within these days. An answer may fail to be stored at all, or without its time
(`QueryReturnsUnstored`, `StampFails`). Two rights have one key only if they have one list:
the hash in `_computeUid` is taken to have no collisions.

### AuditTracking and DashboardStats

An audit log is an asset and a year. `tracks` are loads of the audited set, each
with the year it asked for; the last one to answer sets `audited`. `bulk` is
`_handleBulkAccept`: dialog, a batch under way (`commit`), the refresh at the end.
`BulkConfirm` and the answer to a batch include the building of the next batch, as
there is no await between them. `alive` is the mounted dashboard: on one that is
gone `setState` throws, which ends the run. `need` and `failed` are history, what the
run set out to accept and counts as failed. `SubmitAudit` stands for the transaction
of `submitAudit` on this or another device, as far as the audited set meets it.
A refresh that the preferences cut off in `retry`, before it asks, is left out.
`DashboardStats` adds the cached statistics and the frame that compares year and sizes;
`setYear` and the `of` of the statistics are history, the year whose load set the audited
set last, and the one that had when they were made.

### TempPhotos

`docs`, `stored` and `uploads` are the documents and the pictures on the server: an
address shows the upload it was given for. `created` are the assets made from photos.
Each device has a list and a spinner. `task` are calls of the provider: `modal` is
the open dialog, `erase`, `upload`, `write`, `create`, `mark`, `remove` are the requests,
`confirm` is the code after the last of them, which changes the list and, if the
form is still open, starts a load. Nobody else starts one: a device shows no photos
after its start until its user saves one. `disturbed` is history: photos one of whose
calls failed, was cut off, ran beside another or started from an old copy. The
initial states have a photo of earlier days or none, and devices that have loaded
it or not.

### KotlinSync

`prefs` is the list under the key `pending`, `work` the unique work of the
WorkManager with its step, `pending` the list that `syncPendingAudits` read when it
began. An audit is three requests (`PhotoPut`, `LogAdded`, `AssetUpdated`); what failed
is remembered by asset number, as in the code. `PendingRemoved` and `RetryListPut` are the
two edits of the preferences at the end.

### LevelVersions

An entry is a key, a sequence number and whether it is a deletion; a table is a set of
entries, and sizes count them. `files` is the current version; `mem` and `imm` are the
memtables. A compaction is picked and set up by operators that follow the code
(`Picked`, `SetupOtherInputs`, `Expand`), and merged by a fold of `MergeStep`, one turn
of the loop of `DoCompactionWork`. `BeginAutomatic` and `BeginManual` fix what the merge
reads and whether it is a manual one, and work out its outputs; `compaction` keeps all
that until `Install`. In between the mutex is released, and writes, reads, snapshots and
`Flush`, by which the merging thread writes a full memtable, go on. `Flush`, `Move` and
`Install` are the steps that install a version. `Charge` is the seek a read costs.
History: `written` are all writes, `crossed` says that a memtable was placed into the
gap of a merge under way, `leftOut` are keys of which a compaction took only a part:
both are things the code does, and each refutes a claim (section 7); `ReadsKept` holds
where neither has happened.

### LevelStore and DurableStore

A batch is its writer and its sequence number: the batches of a group are numbered in
the order of the queue (`BatchCount`). `queue` and `lead` are `writers_` and the
writer at its front: `room` (`MakeRoomForWrite`), `log`, `sync`, `insert`, each a step,
with the mutex released in the last three. `bg` is the background thread between the
points where it releases the mutex: a table is written, an edit is written to the
manifest and synced, a version is installed, obsolete files are removed one by one.
The disk is `logs`, `tables`, `manifests`, each with how much was synced, and `current`; the
tables of a manifest are those that an edit added and no later one deleted. `Crash`
ends the process and keeps what was written; `MachineCrash` keeps any prefix from
what was synced. Opening is seven steps, and a crash may come between any two.
`torn` marks a log with a failed append, `unread` the batches acknowledged behind it.
`behind` is what stands in the manifest of CURRENT behind the edits that can be read: a
record whose writing failed may have left a part of itself, and a merge that goes on
after the flush in its middle failed writes its own record behind that part. `Recover`
takes the two for a damaged record and refuses the store, or for a cut one and reads up
to it (`Broken`); a record behind the part that was synced is there after a crash of the
machine too. `lost` is history: the acknowledged batches that crashes of the machine took.

`DurableStore` is what the store promises: what was acknowledged survives the process,
what was acknowledged and synced survives the machine, nothing is there that nobody
wrote, and an open is refused only after a record of the tables broke or while the store
is empty. Only `MachineDies` takes a batch that was acknowledged (`lost`); `ProcessDies`
has to keep the rest, as the steps of a running and an opening store have to keep what is
visible. `LevelStore` implements it with `visible <-` what a reader finds, or what the next
open would find, `kept <-` the acknowledged batches, `lost <- lost`, `torn <-` the present
log, `broken <- Broken`, and `state <-` whether the store is open, closed or refused.

### The other parts of the local store

* `LevelLog`: a file is cells, each of which knows the fragment it is of, so that a
  checksum is right exactly if the cells of a fragment are together. `EmitPhysicalRecord` is
  one turn of the loop of `AddRecord`. A file may be cut, damaged in a cell, or have a
  fragment in it that was written in part; a reader starts at any offset.
* `LevelSkipList`: the links of a new node are set one at a time, and the reader takes
  one step at a time, with `max_height_` read at any of its values since.
* `LevelIterator`: `DBIter` over a merging iterator of a memtable that grows and a level
  of two files. A call is its first step and those of its loops.
* `LevelTable`: builder, blocks with prefixes and restarts, separators, filters,
  and the search through them, as operators on the table that was built.
* `LevelCache`: one shard; `entry` has references and `in_cache` of each handle, `lru` is
  the list of what may be evicted. The list of what is in use is left out: the code only
  asserts with it. `TotalCharge` adds charges up as the size of a set of units, which a
  proof can reason about.
* `PosixLocks`, `PosixReaders`, `PosixWriter`, `PosixBackground`: one action for each system
  call or access to shared state, each of which may fail where the code looks. A lock
  that cannot be given up (`UnlockFails`) stays in the table.

### NanoDecode and NanoEncode

`Field` is the table of `pb_field_t` rows. Of the message only the memory is kept: which
block each pointer has, which blocks are allocated, counters, and the member of each
oneof. The structure is the caller's, who zeroed it or not (`zeroed`): the items of an
array in it are what he left there until their own decoding clears them (`Counted`).
Input is a number of bytes left; each step decodes one tag with any of the lengths, or
finds the input malformed. `NanoEncode` writes bytes that know the message
they belong to, and runs the sizing pass and the real one as the code does; a
callback may write another number of bytes the second time.

## 4. Runs

| run | instance | shows |
|---|---|---|
| `offline_sync` | 2 audits, listener and 1 caller, batches of 1, status every 2, 2 faults of any kind | nothing is lost, the outbox is implemented |
| `offline_sync_serial` | 3 audits, listener and 2 callers, batches of 2, 1 fault; no two runs overlap | duplicates are paid for by faults, shown failures keep their ids, the count of synced audits never goes back |
| `offline_sync_live` | 2 audits, listener and 1 caller, a failing status write | activities end; every audit in the box is sent or listed as failed |
| `asset_list_live` | 1 user, 1 load, 1 restart | the provider has the session's rights; the spinner ends |
| `app_live` | part `session`: 2 users, 2 overlapping fetches, 3 tables, 1 restart; part `tracking`: 3 assets, batches of 2, 2 years, 1 user load beside that of the run | the first spinner has a fetch and ends, rights settle, no private tab without rights; no asset is dropped, the audited set is of one year, run and loading mark end |
| `app_parts` | part `photos`: 1 photo, 2 devices, 2 numbers, a replaced picture, 1 fault; part `list`: 2 overlapping loads, any of 3 rights with every frame, any number of restarts; part `dashboard`: 2 assets accepted one by one, 2 years, 1 user load beside that of the run | what is merged has its asset and stays merged, what is deleted stays deleted, pictures are lost for named reasons only; the cache serves only what the server answered within 30 days, a spinner has a load; the statistics are those of the audited set, but for sets of another year |
| `level_store` | 3 writers, one synced and one without a batch, memtables of 1 batch, groups of 2, a merge at 2 tables of level 0, writes stop at 2 or at 3, 1 fault of any kind, 2 crashes | the store keeps its promise, no needed file is missing, sequence numbers are fresh, writers return |
| `level_parts` | twelve parts, see below | what each part owes those above it |
| `asset_list_first_login` | as `asset_list_live`, no restart | **violated**: see section 7 |
| `asset_list_mixed` | as `asset_list_live`, no restart | **violated**: see section 7 |
| `kotlin_sync` | 2 audits of one asset, 1 failing request | **violated**: see section 7 |
| `level_split` | 2 keys, 3 levels, 4 writes, a snapshot | **violated**: see section 7 |

`app_live`, `app_parts` and `level_parts` check models side by side that share no state:
`part` is chosen once, and the variables of the part alone change. In the part `list` of
`app_parts` the session is replaced by one that can do more: any frame may pass on any of
the rights, so that every change of them meets every step of every load. The parts about which
theorems are proved are extended and have their own variables, which stay as they
start in the other parts; the rest are instances over `v1`, `v2` and so on. Their
properties are those of the parts, under the name they have in their module.

| part of `level_parts` | instance | property |
|---|---|---|
| `log` | 3 records of 4 sizes, blocks of 6 with headers of 2, a cut, a damaged cell or a failed append anywhere, 4 offsets | `ReadsAreRecords`, `NoNeedlessLoss` |
| `versions` | 3 keys, 3 levels, 4 writes, a snapshot, seeks, a range by hand | `ReadsKept` with `LevelsInOrder` |
| `iterator` | 2 keys, 3 entries before the snapshot and 1 after it, in memory and 2 files, one unreadable | `IteratorFollowsSnapshot` |
| `cache` | 3 threads, 2 keys of charge 1 and 2, 5 handles, capacities 0 and 2 | `CacheAccountsForAll` |
| `skiplist` | 3 keys, 3 levels, a writer and a reader | `ReadersMissNothing` |
| `table` | 7 entries of 6 keys that share prefixes, blocks of two entries or more, two to a restart | `TableFindsEntries` |
| `locks` | 2 threads of a process and 1 of another | `OneHolderInProcess` |
| `readers` | 3 threads, limits of 1 and 1 | `LimitsHold` |
| `writer` | buffer of 3, appends of 1, 2, 5 and 7, 9 bytes, 1 error | `BytesInOrder` |
| `background` | 2 schedulers, 3 items | `WorkIsTaken` |
| `decode` | 11 fields of every kind in two message types, 10 bytes | `MemoryOwned` |
| `encode` | a message three deep with strings, a packed array, a oneof and callbacks, 3 buffers | `LengthsTrue` |

*Why the bounds are enough to see the interesting cases.* The queue: two audits and a
batch of one reach every boundary of a batch and of the status interval; the listener
and one caller are two runs that overlap in every order; two faults allow a fault in the
repair of the first. Three audits with batches of two have a short last batch. Session:
a third user or fetch adds nothing a second cannot do, since a fetch does not know which
session it was for. Asset list: two loads overlap in every order, and of the rights
passed on one has no query, and the keys and lists of the other two differ; restarts are
not bounded, so that one comes between any two writes. Audited set: three assets and
batches of two give a full and a short batch, two years a wrong one. Of the years the
dashboard offers the third is like the second: a load has one year, the set another, and
what matters is whether they are the same. Statistics: two assets give sets of the same
size and of another content. One photo is enough because no call touches two, except a
load; two devices with a call each have stale lists in every combination. The store:
with memtables of one batch each write switches, two tables of level 0 merge, the second
crash comes in the recovery from the first, and the fault may be in either. If writes
stop at the two tables that make a merge due, a writer waits for the merge
(`WritersReturn`); if they stop at three, a memtable fills while the merge is under way,
its flush may fail with a part of its record in the manifest, and the merge goes on and
writes behind it: the constant chooses one of the two for each behaviour (`stopsEarly`).
Levels: four writes and a target size of two entries are the least with which the
entries of one key are split over two tables. The log: the sizes fill a block exactly,
leave less than a header, and cross one or two. The table: prefixes that grow and end in
the largest byte, and more entries than a block and a restart hold. Readers and cache:
more threads than what they share.

`CHECK_DEADLOCK FALSE` stands in `AppParts.cfg`, where the only photo id may be used
up, and in `LevelParts.cfg`, `LevelStore.cfg` and `LevelVersionsSplit.cfg`, where the writes,
records or bytes of a behaviour are bounded and each writer writes once; it stands in no
configuration of a system that goes on.

*Symmetry* is used where a set of model values is interchangeable and only safety is
checked. *Fairness* is weak fairness of the program's own steps: code that is ready
runs (one event loop), a request is answered or fails (the libraries end them with
an error or an answer), frames are drawn when asked for. In the store it is weak
fairness of the writer at the front and of the background thread: both are threads
that only wait for the mutex, which nobody keeps. Nothing is assumed of
users, administrators and other devices. `EventuallyTried` also assumes what it
says, that the network keeps changing: the listener acts on changes only.

Beside the invariants there is one mutant for each property (`PROJECT.json`): a
definition changed as a plausible mistake would change it, under which the property
fails. The mutants stand before the definition they change.

## 5. What is proved

Every theorem is proved for every value of the constants that the assumptions named in
the modules allow. Each rests on an inductive invariant, stronger than the property, that
TLC checked on an instance before it was proved.

`OfflineSyncProofs`, for any set of audits and callers, any sizes and any faults:

* `TypeCorrect`, each action keeping `TypeOK`.
* `SavedAuditsSurvive`: `NoAuditLost`. An audit leaves the box only after a commit, so
  the invariant that makes it inductive says of each activity between commit and
  delete (`sent`, `resent`) that its audit has a log.
* `QueueImplementsOutbox`: each step is a step of `AuditOutbox` or a stutter. A save
  maps to `Accept`, a commit to `Deliver`, a delete to `Release`; a restart, a sync that
  begins, a status that is written and a change of the network map to stutters.
* `DuplicatesArePaid`, `FailuresAreKept`, `SyncedNeverGoesBack`, under `SerialSpec` (no two
  runs overlap; with two the claims are false, section 7). `SerialInv` adds to the above:
  `RunGood`, that a run counts no
  failure without an id and sends only what waits and has not failed; `StoreGood`, that the
  disk has an id for every failure it counts, and that only a running sync shares its
  list with the status; `LogsPaid`, that what waits and is not in flight has no log
  that is not charged to a fault.

`AppPartsProofs`, of the session, for any users, tables and cost centers, fetches that
overlap and restarts:

* `SpinnerHasFetch`: `SessionInv`, the types and that the first spinner has a fetch.
* `PrivateTabsStayClosed`: `NoPrivateTabDenied`. It is inductive with the other: the frame
  that captures a denial is the one that leaves the private tab or hides it.

and of the list, for any rights and cost centers, loads that overlap and restarts:

* `ContextIsCurrent` and `ListSpinnerHasLoad`: `ContextFollowsRights` and `ListInv`, the types
  and that a spinner has its load (`AnyListInv`). Each way out of a load ends the spinner
  unless another load runs; the frame that passes rights on is the one that follows the
  announcement.
* `CacheIsRecent`: `FreshIsRecent`. A load may be about to store the time of a list, so
  `TimedIsRecent` says the same of each key that has its time or is about to get it: a
  list that stands under such a key is one that was answered within 30 days, whatever
  rights the key is of.

of the audited set, the bulk accept and the dashboard, for any assets and years, any
number of overlapping loads and any batch size:

* `TrackingTypeCorrect`, with the batch under way disjoint from what waits.
* `BulkAccountsForAll`: `AllAccountedFor` speaks of the refresh only; the inductive
  form `RunKeepsAccount` says of each commit that an asset the run needs waits, is in
  the batch, was counted as failed, or has a log. A failed batch keeps it because it
  is counted, a written one because logs are only added.
* `AuditedIsOfOneYear`: `AuditedOfOneYear` needs `AnswersHaveLogs`, that an answer on its
  way holds only assets with a log of the year it was asked for.
* `StatisticsAreCurrent`, for any years: `StatsAreCurrent`, that the statistics are those
  of the audited set or were made from a set loaded for another year, although the
  dashboard compares sizes only. The sets of one year that are shown, counted or on their
  way (`Snapshots`) are what the logs of that year had at some time, or empty, and logs
  are only added, so of any two one contains the other (`SnapshotsGrow`); they are finite,
  so those of one size are the same. Of sets of two years this is false (section 7).

of the temporary photographs, for any photos, numbers and devices, any calls and loads
that overlap and any faults:

* `PhotosTypeCorrect`.
* `MergedPhotosHaveAssets`: `MergedHasAsset` is not inductive: the mark is a later request
  than the creation. `AcceptsInOrder` says that a call about to mark has its asset.
* `MergedPhotosStay` and `DeletedPhotosStay`: a write of a first save would undo both, so
  `OnlyKnown` says that it is the one call that works on its document and that its
  document was never written, and that lists, answers on their way and all other calls
  know of written documents only. `DocsKept` collects what every step then keeps.
* `PicturesAreThere`: `PictureIsThere`. `PictureHeld` says, of a photo nothing disturbed,
  which upload its document shows and which the call at work on it, if any, is about to
  write or remove; `KindsFit`, that the steps of a call are those of its kind.

`LevelStoreProofs`, for any writers, sizes and triggers, any faults and crashes:

* `NoFileIsMissing`: `StoreInv`. `FilesInv` names the tables that are `Needed`: those of the
  version, of an iterator, of the merge and of the edit about to be written, and those of
  every prefix of the manifest that a crash of the machine may leave (`Lengths`,
  `ManifestTables`). None is missing and none is about to be removed. A removal
  follows an installed edit, which was synced, so that only one prefix is left: that is
  why it may go by the version alone, and `AgreeInv` says that the two agree as long as no
  edit failed. That a new file does not replace an old one is `NumbersInv`: the counter is
  ahead of every number in a table, a log and any edit a recovery may end with. An edit that
  stands behind a part of another changes none of this: nothing reads it, and once an edit
  has failed nothing is removed.
  `PhasesInv` says which part of the state each phase of process and thread can have.
* `NumbersStayFresh`: `SequenceFresh`. `NumbersUsedOnce` extends it to all that is `Stored`,
  in memory, in needed tables and in any log, readable or not. A recovery takes its
  counter from the edit it ends with and the logs from there on, so `EditSequences` says
  that the last number of each edit covers the tables up to it and the logs before it. The
  counter lags behind the log while a group is written (`Writing`), and only then
  (`VersionSequences`).

`LevelPromiseProofs`, over the two invariants above, with as few bounds:

* `StoreImplementsPromise`: `StoreKeepsPromise`, the refinement of `DurableStore`.
  `Enqueue` maps to `Ask`, `InsertInto` to the `Write` of the whole group, `Crash` and
  `Closed` of an open store to `ProcessDies`, `MachineCrash`, and nothing else, to
  `MachineDies`, the begin and the end of a torn log to `Tear`, an edit behind a part of
  another to `Break` (`BrokenStep`), the new CURRENT of an opening to `Renew`, its end
  to `Open` and a refused one to `Refuse` (`RefusedPromise`: no table is missing). Every
  other step (the switch of memtables, a flush, a merge, an edit, the other steps of an
  opening) is a stutter. What makes that true is `PromiseInv`: `KeptInv` says that an
  acknowledged batch is visible unless a crash of the machine took it, and that a
  recovery finds it with every end of the manifest that a crash may leave (`Found`), in
  a table of that end or in a log from there on, in its synced part if the writer asked
  for that (`Secured`). It survives the steps in between by `PlacesInv`: a memtable is
  covered by its logs, older logs by the memtable that is put aside or by tables, tables
  by those of the manifest. `RecordInv` says that the record of a group is in the log,
  synced if it has to be, before the group is inserted, or else counted as unread;
  `EditInv`, that a flush or a merge adds what it takes away; `OpeningInv`, that an
  opening installs what it found; `GarbageInv`, that a log that will be removed is read
  by no recovery; `AskedInv`, `QueueInv`, `GroupInv`, whose batch is where in its call.

`LevelMemoryProofs`:

* `ReadersFindAll`, for any number of keys and levels: `ReadersMissNothing`, for a
  reader without a lock beside the writer. A key is there for a reader once it hangs in
  level 0, so `Placed` includes the one under way; links go forward and to placed nodes
  (`LinksForward`), level 0 passes over none (`Level0Complete`), and on each level not
  yet linked the key still belongs between the two nodes found before (`InsertInv`). A
  search stands on a placed node before its key and has passed nothing that was there
  when it began (`RunInv`, `DoneInv`).
* `CacheKeepsAccount`, for any threads, tables, handles, charges and capacities:
  `CacheAccountsForAll`. It is inductive with the types, `OpensWithout`, that a thread that
  opens a table has no handle yet, and the finiteness of what is charged. Lemmas say what
  taking a handle out of the list, a reference more or less, and an entry more or less in
  the cache do to the list, to the users of each handle and to the total charge.
* `IteratorFollows`, for any keys, snapshot, entries and unreadable files:
  `IteratorFollowsSnapshot`, which speaks of an iterator between calls. `IterInv` says, as
  long as there is no error, what a call under way has still to show. `MergeOK`: the
  other child is beyond the key in the direction of the merge, and between them it passed
  over nothing visible; it may stand on an entry written since, so that the invariant
  equates only the visible part of what is ahead (`Ahead`) or behind (`Behind`), and a
  write of others changes neither. `ForwardOK`, `ScanOK` and `BackOK` say of each loop
  that the wanted key is the first, or last, of what will be shown: what is ahead and not
  skipped, or what is behind together with the value that is kept. `ForwardLands` and
  `BackwardLands` are the lemma of the merge: children sent to the first entries of any
  upward closed set leave just that set ahead. That a finite set has a first entry follows
  from the well-founded order of its subsets: it is the one with the fewest before it.

`PosixProofs`:

* `OneThreadHolds`, for any threads and processes: `OneHolderInProcess` speaks of holders;
  inductive is `TableInv`, that a thread past `InsertLock` is the only one of its process,
  and its process is in the table.
* `LimitsAccounted`, for finitely many threads and any limits: `LimitsHold` equates each
  limiter with its limit less the files that have something of it, a thread between a
  refused `Acquire` and its return included. It is inductive with the types; the proof is
  about the cardinalities of the four sets, each of which gains or loses the thread that moves.
* `FileKeepsOrder`, for any buffer, sizes and errors: `BytesInOrder` speaks of the file and the
  buffer; inductive is that the `Stream`, which is the file, the buffer, the data that is
  being written and what waits for it, one after the other, holds the bytes of the
  appends in order, and all of them as long as no write failed.
* `NoItemMissed`, for any number of schedulers and any bound: `WorkIsTaken` speaks of a free
  mutex. The signal is given before the item is pushed, with the mutex held, so `NotMissed`
  says that a queued item has a thread that is awake, and an item about to be pushed one
  that cannot sleep before; `MutexOwned` says who has the mutex. That the items run in
  order is an equation between what ran, what waits and what was scheduled, kept by two
  lemmas on sequences.

`LevelLogProofs`, for any sizes of blocks, headers and records, any cut, damage or failed
append, and any offset a reader starts from:

* `RecordsAreRead`: `ReadsAreRecords`. `FileOK` says what stays true of a file through all
  harm: a cell has before it all of its fragment up to itself, but for damaged ones, and
  before that the fragment that comes before it in the record; and cells are in the order
  of the records. `LastOK`: a last fragment that is whole ends a record that was written;
  that of a failed append never is. Of the reader, `ScratchOK` says that what it has of a
  record ends in front of it, with nothing skipped but the end of a block, which has no
  room for a fragment. So the fragment before a good one, which the file puts right
  before it, is the one the reader has (`GoesOn`); and a fragment that begins a record is
  of a later record than all returned, since each of these left a cell behind the reader
  (`BeginsLater`).
* `NothingIsLost`: `NoNeedlessLoss`, of files that are whole, cut or damaged in a cell. The
  cells do not say what was lost, so `LossInv` supposes a sequence of the fragments that were
  written, in their order (`Layout`). `Laid`: each is in one block, the next stands
  right behind it or, where no header has room, at the start of the next block; so at the
  start of every block within the file stands a fragment (`FragmentAt`), which is why a
  reader that starts with a block, or drops the rest of one, stands before a fragment
  again. `Recorded` and `Holds` tie the fragments to the records and to what is left of the
  cells. Of the reader, `Stands` says that it is before a fragment or behind one and what its
  buffer is, and `Behind` that each record that is due (`Due`) and whose last fragment is
  behind it was returned, and that it has the record it is in if that is due. A header or
  a checksum is then wrong only for the damaged fragment (`FragmentHere`), and dropping its
  block costs no record that is due (`NotDue`). That blocks are at the multiples of a size
  that is not known is used only in the lemmas on blocks (`Parts` to `AlignedZero`).
  This invariant was model-checked first, with the sequence of fragments as a
  history variable, for blocks and headers of 6 and 2, 3 and 1, and 7 and 3.

`NanoEncodeProofs`, for any table of fields, contents and sizes of buffers, and callbacks
that write what they like in each pass:

* `LengthsAreTrue`: `LengthsTrue` says of every length in the output that the bytes of its
  message that follow are as many, all in one piece, and that no more is written than the
  buffer holds. A byte knows its message by the path of items that leads to it, so the
  invariant is about paths. `StackOK`: each message on the stack is an item of the one
  below, which already counts it as done (`Spent`); below a message that is written all
  are written. `SpaceOK`: for some positions `base` of their lengths in the output, each
  message that is written has what it wrote right after its length, and may write no
  further than the message below it; this is why a callback that writes more the second
  time fails instead of spoiling the length of an outer message. `LengthsOK`: what follows
  a length is of its message as far as it reaches and not beyond, and either it is all
  there and nothing that may still be written (`Live`) belongs to it (`Closed`), or its
  message is on the stack. A counted message leaves nothing behind: what it counts is
  live already in the message below it.

The assumptions are those named in the modules: `ConstantsAssumption`,
`TrackingAssumption`, `PhotosAssumption`, `SessionAssumption`, `AssetListAssumption`,
`StoreConstants`, `ListConstants`, `CacheConstants`, `IteratorConstants`,
`ReadersConstants`, `WriterConstants`, `SchedulersAreNeither`, `LogConstants`,
`EncodeAssumption`. Bounds and sizes are numbers, positive where the code divides or
loops by them; special values are not members of the sets beside them; there are photos
and devices; the threads that share limits are finitely many, as are those that share a
cache and its handles, none of which is null; keys are integers and none is the 0 that
stands for no key; a synced write has a batch; a block has room for more than a header;
the trigger of a merge is not above the number of tables that stops writers; no
scheduler has the name of the background thread or of a free mutex; no field has the tag
0 and no message a field twice, each field of a message names a message type, and sizes
are numbers.

## 6. What is only model-checked

* Liveness: `ActivitiesEnd`, `EventuallyTried`, `RightsSettle`, `SpinnerEnds`, `LoadsEnd`,
  `WritersReturn`. It rests on fairness, which the prover cannot reason about.
* `TableFindsEntries` of the table: what a recursive function makes of its whole input,
  which needs induction over data.
* `ReadsKept` of the levels, for the same reason: a merge is a fold over its entries.
  `MemoryOwned` of the decoder: a record's defaults are a `RECURSIVE` operator over
  the nesting of message types, so no prover takes the module.

## 7. Claims of the sources that the code does not keep

With a run that shows it:

* `AuthorizedSeesAssets` (module_map.md:55). On the first sign-in on a device the
  provider is made, and its only load started, by a frame that has no rights yet; the
  list ends empty, and the rights, when they come, do not start another load.
* `CacheServesOwnRights` (asset_provider.dart:170, "the cache is separated by rights, so
  that data do not mix"). The query is made with the rights of before it, the key of the
  cache with those after it. If they change meanwhile, by a sign-out or a new table, the
  list of the old rights is kept for 30 days under the key of the new ones.
  `FreshIsRecent` is what remains of the cache.
* `SavedIsKeptOrLogged` (PORT_TO_KOTLIN.md:160). A Kotlin sync removes the list it read
  when it began; an audit saved while its requests were under way goes with it.
* `DeletedStaysDeleted` (db/db_impl.cc:962-968). While a snapshot is held the value and the
  deletion of a key may be written to two tables of one level. After its release a
  compaction of the level above takes only the table with the deletion, drops it as
  obsolete, since it looks for the key two levels down and deeper, and the value is read
  again. `AddBoundaryInputs` (db/version_set.cc:1380) adds tables of this kind to the upper
  inputs only.

Stated in the modules, refuted by TLC while they were written, and without a run of
their own:

* `NoDuplicateSync` (main.dart:32): the guard is the listener's only; a sync started by
  a save runs beside it, over the same audits.
* `RemainingIsWaiting` (offline_sync_service.dart:21): line 40 subtracts what was
  synced, which has already left the box.
* `CompletedMeansNothingWaits`: the last status is computed from that of the
  beginning, so an audit saved meanwhile is not counted.
* `EventuallyDelivered` (sync_progress_widget.dart:126, "tap to try again"): an id that
  failed once is left out by every later sync, and nothing calls `retryFailed`.
* `NoVerdictWhileLoading` (home_screen.dart:79): with an old copy of the table the
  tabs of a user without rights are shown before the table has come.
* `LoginPageWhenSignedOut` (home_screen.dart:48): the login page is shown while it is
  not known yet whether somebody is signed in.
* `AcceptedForTheConfirmedYear` (dashboard_screen.dart:435 and 478): the year is read
  again for each batch.
* `DoneMeansShown` (dashboard_screen.dart:503 and 517): another load may answer after
  the refresh of the run, with what it found before.
* `AuditShownAtOnce` (module_map.md:90): `markAsAudited` has no caller.
* `StatsAreCurrent` without its second half, "the dashboard shows statistics"
  (README.md:95): after a change of year the audited set of before is counted for the new
  one, and these statistics stay if the new set has the same size.
* `InitializedByDecoder` (nanopb/pb_decode.h:55-56, "All other fields will be initialized
  by this function"). `decode_static_field` counts an item of an array (pb_decode.c:460)
  before `pb_dec_submessage` clears it (1525-1547), and the defaults of a message do not
  reach into its arrays (873-877). If the length of the item is malformed (1531),
  `pb_release` follows the pointers the caller left in it (1207-1227). A caller who zeroes
  the structure, as the example in that header does, is safe: `MemoryOwned` leaves out that
  item of a structure that was not zeroed, and nothing else.
* `AcceptCreates` (temp_photo_provider.dart:171): an existing asset with the number is
  replaced. `AcceptedOnce` (temp_photo_panel.dart:106): a load that was asked before
  the photo was marked brings it back as pending.
* `OnlyTheRestAccepted` (dashboard_screen.dart:435): while the audited set is being
  loaded, and after a load failed, it is empty, and a bulk accept accepts everything.
* `AnswerIsShown` (temp_photo_panel.dart:137): the form accepts a photo without a
  reference; `fromMap` throws on it, and one such document makes every load of every
  device fail.
* `LevelsNeverOverlap` ("Must not overlap", db/version_set.cc:689): a memtable is written,
  in the middle of a merge, to a level where no table of the version overlaps it, but
  the merge has yet to install one there.

Seen while reading and modelling, without a property:

* A record whose append failed may leave a part of itself in the log. The next
  records are acknowledged although a recovery may not read them, up to the next log
  (`torn`, db/db_impl.cc:1225).
* A flush that fails in the middle of a merge may leave a part of its record in the
  manifest; the merge goes on, and its edit, written behind that part, is reported as
  done. `Recover` then refuses the store, or takes the manifest to end before both
  (db/version_set.cc:825, db/db_impl.cc:918). `DurableStore` has it as `Break` and `Refuse`.
* `NewDB` does not sync the first manifest that CURRENT names (db/db_impl.cc).
* A null batch behind another writer's group returns without the memtable having been
  switched, and `RemoveObsoleteFiles` does nothing after a background error: files stay.
* db/log_reader.h:103 has fragments after a seek skipped in silence; a bad record ends
  that state, and what follows of the same record is reported.
* The second `LockFile` of a process is refused, but closing its descriptor gives up
  the lock the process has in the operating system (util/env_posix.cc:636): another process
  may then have it too. `OneHolderInProcess` is what remains.
* Kotlin: a list of failed asset numbers sends the audits of that asset that succeeded
  again; an added log whose update failed is sent again (AuditRepositoryImpl.kt:49); a
  crash between the two edits of the preferences loses what failed; the test whether an
  asset exists and its creation are two requests (TempPhotoRepositoryImpl.kt:138).
* A form with only the picture of an earlier audit passes the validation and has no file
  to submit (audit_form.dart:110).

## 8. What is not modelled, and why

* The plan's modules of section 2 that are not written: the audit form, the access
  rules, the lists, the Kotlin session, assets and photographs.
* Of the asset provider: `updateAssetInCache`, `markAsAudited`, `refreshSingleAsset`
  and `_syncCache`, which nothing calls, and the branch for a cached value that is no
  list, which nothing writes.
* Of the temp photos: which user may see which photo, and every field but the
  reference and the picture. Order and repetition in a list are left out as well.
* Of the refresh: a failure of the preferences in `retry` (asset_provider.dart:272-280),
  after which the loading mark of the audited set stays. `LoadsEnd` supposes that it does
  not happen.
* Of the recovery of the store: that a log's number is marked as used only once it was
  replayed (db/db_impl.cc:370), so that a table written meanwhile may get the number of a
  later log. Tables and logs are files of different names, and the model only needs that no
  two tables share one.
* Of the Kotlin queue: the disk behind `apply()` and a crash, `retryFailed`, which nothing
  calls, and the limit on attempts.
* Of the local store: the sleep of a writer when level 0 fills, statistics and sizes,
  compression and the bits of a checksum, `DestroyDB`, the C interface, the repair and dump
  tools, which the app does not run. `LevelStore` has sets of batches where `LevelVersions`
  has levels: the two are not composed, and the parts of `level_parts` are each taken
  alone, with the part below it by what its own property says.
  The search of a table steps back inside a block only, and of `Sync` the model has that it
  writes what is in the buffer, not what the disk then holds.
* Of the wire format: extensions, arrays of a fixed count, the rule of proto3 for default
  values, and the values of numbers.
* Contents, wording, layout, pickers, theme: no property depends on them.
* Firestore, Storage, Auth, Hive and the preferences are external: they are modelled
  by what the code sees of them, one request or write at a time, each done or not. So
  is the operating system under the environment.
* Platform runners, generated options and the other libraries.
