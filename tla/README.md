# A formal model of NaverNews Scraper

The program is a PyQt6 desktop application: it fetches news from the Naver
search API into an SQLite database, one tab per search keyword, and synchronises
that database between machines through snapshot files in a cloud folder. Its
logic is in `src/core` and `src/ui`. This directory models its concurrent and
stateful parts in TLA+, checks them with TLC and proves their safety with TLAPS.

1. [Inventory](#1-inventory) - the parts, their state, how they interact
2. [Modules](#2-modules) - which module models what
3. [The fetch flow](#3-the-fetch-flow) - state and actions against the code
4. [Tab loading](#4-tab-loading) - state and actions against the code
5. [The connection pool](#5-the-connection-pool)
6. [Articles and their synchronisation](#6-articles-and-their-synchronisation)
7. [Files, settings, update, jobs](#7-files-settings-update-jobs)
8. [Runs](#8-runs) - what is checked, bounds, fairness, results
9. [Proofs](#9-proofs) - theorems and the inductive invariants
10. [Findings](#10-findings) - where code and documentation disagree
11. [Not modelled](#11-not-modelled)
12. [Plan](#12-plan)

## 1. Inventory

Threads: one GUI thread runs every slot, timer and dialog; each fetch has a
`QThread` with an `ApiWorker`; each tab has at most one `DBWorker` (a database
query) and one job worker; there is one FTS backfill worker, one cloud sync
worker, one export and one CSV import worker. Workers talk to the GUI thread by
queued signals only; the shared state is the database (a connection pool) and
the files of the data directory.

| Part | State | Operations | Interacts with | Hard behaviour | Correct when |
|---|---|---|---|---|---|
| Worker registry (`core/worker_registry.py`) | request id -> handle, tab -> active request id | register, pop, is_active | fetch flow | long histories of replace, detach, late finish | the dictionaries name each other; a live worker is reachable |
| Fetch flow (`ui/main_window_fetch_support/worker_flow_support`) | start index by request, cursor by tab, cooldown, error count | fetch_news, on_fetch_done, on_fetch_error, cleanup_worker | registry, API worker, pass, dialogs | stale outcomes, waits that time out, nested event loops of dialogs | newest request wins; one live worker per tab; no page skipped |
| Sequential refresh (`refresh_flow.py`) | active flag, list, index, timers, in-progress flag | refresh_all, timer ticks, finish | fetch flow, maintenance, backfill | chain of timers and callbacks, cancellation | one chain; every pass ends; tabs in order |
| Tabs (`ui/_main_window_tabs.py`) | open tabs, cursors, policies | add, close, rename, reset | fetch flow, hydration | a fetch under way | the worker is stopped or detached |
| Maintenance mode (`base_support/maintenance.py`) | mode flag | begin, end | everything that writes | refusal halfway, detached workers | nobody else writes |
| API worker (`core/workers_support/api_worker.py`) | attempt, running flag | run, stop | network, database | cancellation at every step, retries, 429 | exactly one outcome, or none after stop |
| Tab loading, hydration (`loading_support`, `tab_hydration.py`) | request ids, cancelled ids, queue, in-flight tab | load, append, cancel, process queue | DBWorker, maintenance, fetch flow | stale results, cancelled loads that finish | every open tab is loaded once; the newest query is shown |
| FTS backfill (`fts_backfill.py`) | worker, retry timer, pause flag | start, pause, resume | pass, maintenance, database | pause racing the end of a chunk | resumes after every pause; quiet in maintenance |
| Connection pool (`core/database.py`) | queue, emergency set, counters, closed flag | get, return, close | every worker | check-then-act across threads | a connection is with one thread; none is lost; the counters are right |
| Upsert, duplicates (`news_upsert.py`, `_db_duplicates.py`) | rows, memberships, flags | upsert, delete, restore, recalculate | API worker, merge | order of insert, retitle, delete | flag = another live article of the scope has the title |
| Article state, tags (`state_tags_support`) | four user fields and the tags, each with the time of its last write | set, rename, bulk edit, mark all read, automate | merge, listings | an edit while a merge or a deletion is half way | the later write wins |
| Cloud merge (`db_cloud_sync_support`) | seen list, copy of the database | preview, merge, roll back | snapshots | order and repetition of merges | machines agree on what they know |
| Snapshot import (`cloud_sync_support`) | folder, quarantine | select, import, export, clean up | merge | half-synchronised files, permanent failures | seen means merged |
| Cloud scheduling (`main_window_io_support/cloud.py`) | timer, worker | apply settings, run | maintenance, pass | timer stopped while blocked | one job at a time |
| Listings (`db_queries_support`, `_db_analytics.py`) | none | list, count, badge, archive, statistics | every view | one filter in many SQL texts | the numbers agree |
| Restore (`core/backup_support/restore.py`) | pending file, staged files | schedule, apply | start-up | crash between file operations | old or new state, never a mix |
| Backups (`auto_backup_support`) | backup directories | create, verify, retain, delete | restore | lost metadata, retention | the oldest goes |
| Configuration store (`config_store_support`) | settings file, `.backup` | load, save, normalise | every setting | kill, damage | one file can be read |
| Settings import (`import_stage_support`, `settings_dialogs.py`) | memory, file, start-up entry | stage, save, apply, undo | tabs, start-up | failure of any step | file and memory agree |
| Update installer (`core/update_installer.py`, `main_window_update.py`) | target, staged, backup, result file | check, stage, apply, roll back | process start | failure at each step | a tried program is left, the report is true |
| Jobs (`workers_support/jobs.py`, dialogs) | worker, maintenance mode | start, outcome, close | maintenance, backfill | a dialog or tab closed under its worker | the mode lasts as long as the job |
| Shutdown (`_main_window_tray.py`) | - | close | all workers, database | workers that outlast the wait | the database is closed last |
| Start-up migration, parsing, rules, rendering, styles | none of protocol interest | - | - | - | - |

`PROJECT.json` lists every part with its sources and status, and every hazard
at the line where it bites.

## 2. Modules

| Module | Role |
|---|---|
| `WorkerRegistry` | the two dictionaries of `core/worker_registry.py` and their operations |
| `FetchFlow` | extends it: tabs, fetches, sequential refresh, maintenance mode, worker threads; properties |
| `SequentialRefresh` | what a pass promises, without timers, signals and threads; `FetchFlow` refines it |
| `MCFetchFlow` | choice of events for TLC, symmetry |
| `FetchSafetyProofs` | type correctness, inductive invariant and the safety theorems |
| `FetchPassProofs` | the pass, its refinement and the cursors |
| `TabLoading` | the tabs' loads from the database, their cancellation and the hydration queue; properties |
| `MCTabLoading` | choice of events and page counts for TLC |
| `TabLoadingProofs` | inductive invariants and the theorems about flags, rows and queue |
| `PoolContract` | what a thread may expect of the connection pool |
| `ConnectionPool` | the pool of `core/database.py`, every unlocked step an action; refines `PoolContract` |
| `MCConnectionPool` | symmetry for TLC |
| `ConnectionPoolProofs` | inductive invariant, the safety theorems and the refinement |
| `ArticleStore` | the article database as a value; every operation of `DatabaseManager` on it, and the listings; no actions |
| `CloudSync` | extends it: machines that edit, delete and exchange snapshots; properties |
| `CloudSyncProofs` | inductive invariant; times, merges, listings, duplicate flags |
| `LocalFiles` | settings and database files, backups, restore at start-up, kills and damage; properties |
| `LocalFilesProofs` | inductive invariant; restore, settings, retention |
| `SettingsImport` | settings in memory, in the file and in the system's start-up entry; properties |
| `UpdateInstall` | the window's and the helper's side of a self-update; properties |
| `BackgroundJobs` | the jobs that take the maintenance mode, export, backfill, refresh and exit; properties |
| `DesktopProofs` | inductive invariants and theorems of the last three; what the merging of lists returns |
| `MCServices` | the five components from `CloudSync` on in one run, and their plans |
| `ServicesProofs` | what is proved of the five holds of the module that runs them |

`FetchFlow` and `TabLoading` meet in three places: a fetch pauses hydration, the
clean-up of its worker schedules it again, and maintenance stops both. Each
module has the other's side as one Boolean (`fetching` here, the free choice
whether the tabs' loaders stop in time there) and they are not composed: the
product of their state spaces is beyond TLC.

The five components of `MCServices` touch the others at single points that are
Booleans or free choices in each of them: `FetchFlow` knows that maintenance may
be refused, `BackgroundJobs` that a refresh may be under way, `CloudSync` that
the process may end, `LocalFiles` that settings are saved.

Each operator named `X_Something`, or one whose comment begins with "A mutant",
is a plausible slip in the code: substituted for the operator it is listed with
in `PROJECT.json`, it must break the property it is listed with.

## 3. The fetch flow

### State

| Variable | Code |
|---|---|
| `handles`, `active` | `WorkerRegistry._handles_by_request_id`, `_active_request_id_by_tab_keyword` |
| `tabs`, `credentials` | open news tabs; whether the stored credentials validate |
| `dialogs` | modal error dialogs of `on_fetch_error`, innermost first; each remembers whether its error was a network error, because the handler goes on to count it when the dialog closes |
| `cooldown`, `netErrors` | `_fetch_cooldown_until` in the future; `_network_error_count` |
| `requestSeq`, `reqTab`, `sequential` | `_worker_request_seq`; keyword and `is_sequential` captured by a request's callbacks |
| `phase`, `stopped`, `mail` | a worker and its thread; stopped and disconnected; the queued outcome signal |
| `startIndex`, `cursor` | `_request_start_index`, `_fetch_cursor_by_key`, in pages of 100 (page p starts at 100(p-1)+1) |
| `refreshActive`, `pending`, `idx`, `timers`, `refreshInProgress` | the pass and its `singleShot` timers |
| `maintenance` | `_maintenance_mode` |
| `applied` | history: requests whose outcome was honoured |

### Actions

A handler of the GUI thread is one action, from its guards to its last
assignment; the callee's changes are included. `thread.wait(ms)` blocks the GUI
thread, so it is inside the action, and whether the thread ends in time is a
choice. A worker can outlast the wait only inside `run()` (`Busy`); between
`run()`'s return and the end of the thread there is nothing to wait for.

* `AddTab`, `CloseTab`, `RenameTab`, `RefreshTab`, `LoadMore`, `ResetCursor`,
  `RefreshAll`, `ChangeCredentials`, `DismissErrorDialog` - the user.
* `AutoTick`, `AutoTickIdle` - `_safe_refresh_all`; `ProcessNext`, `FinishPass`,
  `TimerIgnored` - a `singleShot` timer of a pass.
* `OnFetchDone`, `OnFetchError`, `IgnoreStale`, `OnThreadFinished` - signals.
  The signals of a disconnected worker are discarded; being discarded and being
  found stale are the same transition.
* `BeginMaintenance`, `EndMaintenance`.
* `BeginWrite`, `FinishWrite`, `FailFetch`, `NoticeStop`, `ThreadExit` - the
  worker's thread: the checks of the running flag, the upsert, which cannot be
  interrupted, and the end of the thread.

`Start` is `fetch_news` past its guards (old worker cleaned up, new one
registered), `SkipStart` its early return when the old worker outlasts the wait,
and `Raise` an exception inside it, which the pass survives.

Abstractions. A tab's keyword stands for its fetch key (two tabs never share
one). The five-second dedupe window is a free choice to do nothing. The buttons
are not modelled: a user may do anything at any time except behind a modal
dialog. What a fetch returns is left out; only the outcome's kind matters
(`done`, `network`, `rate_limit`, other). The event loop nested in the
question at the page limit and exceptions inside `on_fetch_done` are left out.
The cursors start empty; in the program they are loaded from the settings and
any value up to the last page is reached within a behaviour.

### The abstract pass

`SequentialRefresh` knows a list, how much of it is settled, which tab is being
fetched and whether the next turn is scheduled. `FetchFlow` maps to it with
`fetching <- FetchedTab`, the tab of the one sequential request whose outcome
can still reach the pass, and `armed <- timers > 0`. The property
`ImplementsSequentialRefresh` therefore says that timers, callbacks, skipped
fetches, errors, cooldowns, overtaken and closed tabs add up to one tab at a
time, in order. It holds without maintenance; maintenance abandons a pass in
whatever state its timers are.

## 4. Tab loading

### State

A tab is a record and each helper of `NewsTab` an operator on it.

| Field or variable | Code |
|---|---|
| `completed`, `inflight`, `initial`, `cancelled` | `_initial_load_completed`, `_initial_load_inflight`, `_initial_request_id`, `_cancelled_initial_request_ids` |
| `newest`, `appends`, `more` | `_load_request_id`, `_pending_append_request_ids`, `_is_loading_more` |
| `worker`, `jobs` | `worker`; per request its `DBWorker`: thread, stop flag, queued answer, the query and page it was made for, and whether `_request_scope_signatures` still knows the query (`signed`) |
| `scope`, `filterTimer` | what filter text, tag, sort, dates and check boxes select; the debounce timer |
| `rows`, `rowsScope`, `offset`, `total` | `news_data_cache`, `_last_loaded_scope_signature`, `_loaded_offset`, `_total_filtered_count`, in pages of `PAGE_SIZE` |
| `mislabelled` | history: the rows came without a signature, when the tab selected something else |
| `hydration` | `_tab_hydration_queue`, `_hydration_inflight_keyword`, `_hydration_timer`; `missed`, history: a fetch ended for good without a schedule and the queue was not looked at since |
| `open`, `current` | the tab bar and the tab in front (`NoTab`: the bookmark tab) |
| `fetching`, `maintenance` | the two pauses of `_is_tab_hydration_paused` |
| `unattended` | history: an event dropped a tab or left the queue without a schedule |

### Actions

* The user: `SwitchTab`, `AddTab`, `CloseTab`, `RenameTab`, `TypeFilter`
  (debounced), `ChangeScope` (the other controls), `AppendItems`, `ReloadTab`
  (every other caller of `load_data_from_db`), `SyncTabs` (after maintenance).
* The window: `FetchStarts`, `FetchEnds`, `BeginMaintenance`, `EndMaintenance`,
  `ProcessHydration`, `FilterTimeout`.
* Signals: `OnDataLoaded`, `OnDataError`, `OnIgnored` (a cancelled or an
  outdated request), `OnCallbackFailure` (an exception in the slot).
* Threads: `EmitData`, `EmitError`, `EndThread`.

`Load` is `load_data_from_db`: a running worker is superseded, whether it ends
within its wait is a choice. A worker whose signals are disconnected loses its
queued answer, one that is only cancelled (`CancelInitial`) keeps it; if it ends
within the wait its id leaves `cancelled` and a queued answer is shown after
all, as in the code; but its scope signature is gone by then, and the rows are
taken for what the tab selects at that moment (`Unsign`, `Label`). `AfterChange`
is `_on_current_tab_changed` with the cancellation and requeueing of the
interrupted tab, `CloseTab` includes it because removing the front tab changes
the tab in front. Closing or renaming a tab first stops its fetch, which may be
the last one: if the worker ends within its wait the clean-up schedules the
queue, if not it is detached and nobody does (`FetchStopped`).

Abstractions. Request ids are only compared; an id nothing refers to any more
is used again, so behaviours of any length need few ids (`Forget`, `Used`). All
pages of one query are full and the database does not change between two loads,
so that a repeated or missing page is the program's doing. A tab's keyword is
part of its scope: renaming chooses another one. Timers have no length. The
bookmark tab and the tab's job workers are left out.

`unattended` marks the events after which the program itself does not look at
the queue: closing the tab being served, maintenance that is refused or cancels
a first load, a load that fails, an exception in the slot. A later event (a tab
brought to the front, a fetch that ends) mends most of them; nothing in the
repository promises more, so the properties except them instead of hiding them.
In the same way `missed` marks the end of a fetch by detachment, until the next
schedule, and `mislabelled` the rows without a signature, until they are
replaced: `NoLostWakeup`, `HydratesAll` and `RowsOfOneScope` except these states
and nothing else.

## 5. The connection pool

Any number of threads (the window, API workers, tab loaders, background jobs)
call `get_connection` and `return_connection`; `close` runs once at the end.

| Variable | Code |
|---|---|
| `idle` | `connection_pool`; its locks make `get`, `put_nowait`, `full` and `empty` one step each |
| `active`, `emergency`, `closed` | `_active_connections`, `_emergency_connections`, `_closed` |
| `open` | connections that SQLite has open |
| `at`, `conn` | the statement each thread has come to, and its connection |
| `closing` | the statement `close` has come to |

An action is what runs under one lock, or one statement outside the locks; every
other thread may act in between. `get_connection`: `Ask` (closed?), `Take` or
`TimesOut`, then `CountTaken`; or `CheckCap`, `Create` (which may fail),
`Register`. `return_connection`: `GiveBackEmergency`, or `GiveBackPooled`,
`CheckClosed`, `CountReturned`, `CheckFull`, `Store`. `close`: `BeginClose`,
`ForgetEmergency`, `Drain`, `EndDrain`; a connection that cannot be closed ends
the loop. The timeout has no length: a `get` times out whenever the queue is
empty. Emergency connections are their `id`, which is free again once its
connection is closed. Every caller returns the connection it got, once
(`connection()` and the `try/finally` of the other callers). Left out: the
statistics of emergency uses and rejections, and the dedicated read
connections, which do not pass through the pool.

`PoolContract` has `Lend`, `LendSpare`, `GiveBack`, `Close` and `Discard` over
`free` (here `idle`) and `lent` (here `conn`): nothing of locks, places, counters
or the emergency set.

## 6. Articles and their synchronisation

### The database as a value

`ArticleStore` has no variables. A database is a record of `news` (a row per
link: title, the four user fields and the tags, each with the time it was last
written) and `member` (per link and query key the duplicate flag), and each
operation of `DatabaseManager` is an operator from a database to the one it
leaves: one transaction, so that a failed one changes nothing.

| Operators | Code |
|---|---|
| `Upsert`, `NewLinks` | `news_upsert.py`: rows, memberships, flags, the groups computed afresh |
| `RecalcGroups`, `RecalcAll`, `Affected` | `_db_duplicates.py` |
| `SetRead` ... `ImportState`, `SetTags`, `DeleteLink`, `RestoreDeletedLink` | `article_state.py`, `tags.py`; an unchanged value keeps its time |
| `RenameTag`, `DeleteTagEverywhere`, `BulkAddTag`, `BulkRemoveTag`, `MarkLinksRead`, `Automate` | the bulk operations |
| `Prunable`, `Purge` | `deletion.py`, a chunk at a time |
| `FetchNews`, `CountNewsStates`, `MarkScope`, `UnreadBadge`, `Archive`, `Statistics` | the listings and counts, each written from its own SQL |
| `MergeRow`, `MergeNews`, `MergeMembers`, `MergeTags`, `Merge`, `MergePreview` | `merge_rows.py`, `apply.py`, `preview.py` |

Text columns travel with the title, a note is present or absent, tags are sets.
The full-text prefilter is disabled in the code (`filters.py:37`), so a listing
does not depend on the backfill.

### Machines

| Variable | Code |
|---|---|
| `db`, `seen` | a machine's database; `cloud_sync_seen_snapshot_ids` in it |
| `folder`, `pen` | the snapshots in the shared folder and in quarantine, each with the database it holds |
| `job` | the cycle or the deletion in its worker thread: where it is, the snapshots it chose, the staged copy, the copy to go back to |
| `used`, `purged`, `made` | history: times used by a machine's edits, articles deleted for good, snapshots made |
| `left` | the plan: budgets and what may happen |

The user's actions are `Fetch`, `EditArticle` and `EditMany`; they are possible
while a job runs, as in the program, whose article list stays usable in
maintenance mode (a fetch is not). A deletion is `StartPruning`, then `PickBatch`
and `DropBatch` in turn (the links are read outside the transaction that deletes
them; a deletion by age chooses among the same articles), then `StopPruning`. A
cycle is `Select`, then per snapshot `SkipImport`, `RejectImport` or
`StartImport` and `MergeCommit` or `MergeFail`, then `FinishImport`, `Export`
(archive complete, then renamed into the folder) and `MarkExported`. `Crash`
ends the process between any two. `EmptyPen` is the quarantine list of the
settings dialog.

Abstractions. A snapshot's file reads as whole, as broken for now (skipped, or
quarantined when it looks like a bad archive) or as broken for good. Clocks give
each edit a time of its own; in the plans without `skewed` they agree, in the
others each machine's clock only moves on.

`OneStampOneValue` is what makes "strictly later wins" a merge: if two copies
could carry the same time with different values, each machine would keep its own
for ever. `SeenMeansMerged` is the promise of the seen list. `NewerWins` is an
action property over every step, merges and edits alike, a merge that commits
after the user has worked included; it excepts the one step that goes back to
the copy of a failed merge over what the user did meanwhile. `FlagsStayExact` says
where flags may go wrong (a restored article, a title that changes through
another scope, a deleted article fetched beside its twin, and the copy that a
failed merge goes back to if the user worked meanwhile), and that a step that
deletes leaves none wrong; `ListingsAgree` compares eleven independent queries.

## 7. Files, settings, update, jobs

### Files (`LocalFiles`)

The content of a file is the number of the save it comes from, 0 if it cannot be
read (`Damaged`), 1 for the defaults, 2 if there is no settings file (`Absent`);
a database is its file and the write-ahead log beside it, which is worth
something only beside its own. `conf`, `spare`, `data` are the files, `shelf`
the backups (trigger, time stamp, contents, whether they verify, what the
metadata say), `pending` and `applied` the request for a restore, `before` the
staging directory of an apply. `stage` is where the process is: the steps of a
start (`Start`, `Refuse`, `ReplaceConfig`, `ReplaceDatabase`, `ReplaceLog`,
`RollBackFiles`, `FinishRestore`, `Load`, `LoadNothing`), the running program
(`StartSave`, `StartClose`, `WriteConfig`, `WriteData`) and what may strike
(`PowerOff` between any two steps, `Damage`, `RotBackup`, the failures
`RollBackFiles`, `LoadDefaults` and `WriteConfigFails`). Backups are made,
verified, deleted and requested by `CreateBackup`, `VerifyBackup`,
`DeleteBackup`, `RequestRestore`; the guard backup that a request makes runs
retention too, and without one, because it failed or there is no settings file
to back up, the user may go on all the same (`RequestUnguarded`). `Rotate`
copies the settings file to `.backup` before a save; a copy that fails is passed
over and the save goes on. A file is replaced by a rename and is one step.
`scars` is history: "torn", a power failure between database and log, the case
`RestoreAllOrNothing` cannot promise, since the next start opens one database
beside the other's log; "copied", a backup of such a pair, copied file by file,
which a later restore brings back; "hurt", a settings file damaged since the
last save; "stale", a save that could not renew a damaged `.backup`; "gone", a
start without a settings file, which takes the defaults and does not look at the
`.backup`; "lost", a start that read the `.backup` but could not put it in place
and went on from the defaults; "reset", those defaults saved. `SettingsSurvive`
says what is left in each case: one of the two files can be read unless a save
was "stale", the program goes on from its defaults only after "stale", "gone" or
"lost", and in the last two the `.backup` holds the settings until "reset".

### Settings (`SettingsImport`)

`prefs` is the memory, `prefsFile` the file, `registry` the system's entry. Of
the many fields there is one of each shape: two switches, a clamped number, a
number from a list, a list without repetitions, tabs, a bounded history, two
maps merged by maximum, a map of policies and the secret. `Staged` is
`_stage_settings_import`; the import is `StartImportSettings`, `SaveStaged`,
`ApplyFields`, `AddImportedTab` per tab, `FinishApply`, `Reconcile` and
`Correct`, each with its failure, and holds the window's thread throughout, so
only a kill (`Restart`) comes in between. `OpenSettings` is the dialog. `drift`
remembers a second failure or a save of the dialog that failed, `astray` a
system that refused a change. What a loop over a list collects is stated by the
places it keeps (`FirstPlaces`, `FreshPlaces`, `Collected`) and not as a fold, so
that it can be reasoned about without an induction. `Payload` leaves the policies
alone: the code brings their keys to canonical form once more, which keeps every
key that is canonical already, whether its tab is open or not
(`merge_helpers.py:148`).

### Update (`UpdateInstall`)

The window (`CheckForUpdates` to `LaunchHelper`, `ExitProcess`), the user who
may start the program at any time (`StartByUser`), and the helper (`ParentGone`
or `ParentStays`, `VerifyStaged`, `ReplaceProgram`, `SmokePasses`, `PutOldBack`,
`StartNew`, `WriteApplied`) with a kill or an error between any two. A running
program file cannot be replaced. On Windows `os.kill(pid, 0)` does not tell
whether a process lives, so the helper may go on beside the parent.
`LaunchHelper` waits for the helper of an earlier attempt to be done: a helper
waits for half a minute at most, and the next launch needs a new process that
checks, downloads and asks the user first. What an update that is given up has
stopped meanwhile is `BackgroundJobs!AbandonUpdate`.

### Jobs (`BackgroundJobs`)

Six kinds of job take the maintenance mode; each is asking, running, over (its
outcome queued), or runs on without its dialog or tab. `BeginMaintenance` ends
the refresh, the export and pauses the backfill, `BeginRefused` is the same up
to the thing that did not stop. The backfill is `StartBackfill` (the timer),
`BackfillEnds`, `BackfillHeard`, `Pause`, `Resume`. `RealClose` is the exit.
`AbandonUpdate` is an update that has stopped the refresh, the export and the
backfill to be installed and is then given up, because a worker does not stop or
the helper does not start. It notes no pause, so the backfill it interrupted is
forgotten: `forgone` remembers that until a backfill is paused or starts again,
and `BackfillNotForgotten` excepts it until the next refresh or job begins.
A queued outcome is handled before any later timer or click, as the event queue
does, and a second "mark all read" while the worker of a closed tab still runs is
left out. The deletion of a database by chunks is `CloudSync`'s; here a job is
one interval.

## 8. Runs

### Fetch flow

All instances: two tab keywords. Two are enough for one tab's fetch to interfere
with another's and for a pass to have a first and a last tab; two requests let
one fetch replace another, three let a pass of two tabs be disturbed by a user's
fetch. `Budget` keeps requests back for the tabs a pass has left, so that the
bound never looks like a stall. `MaxTimers` bounds the timers left over when a
new pass begins, `MaxNetworkErrors` and `PageLimit` shrink the code's limits,
`Failures` and `Ops` choose which errors and events occur.

| Run | Instance | States | Shows |
|---|---|---|---|
| `fetch_safety` | all events, all errors, 2 requests, 2 pages | 0.9 M | `TypeOK`, `RegistryConsistent`, `LiveIsRegistered`, `OneLiveWorkerPerTab`, `MaintenanceQuiesced`, `RefreshFlagsAgree`, `StartIndexOwned`, `OutcomesInOrder` |
| `fetch_pass` | refresh-all, close, rename, refresh, load more; 3 requests, 3 pages | 1.0 M | `SingleChain`, `ImplementsSequentialRefresh`, `CursorContiguous` |
| `fetch_live` | fair; refresh-all, credentials, add, maintenance; 2 requests | 0.1 M | `SequentialTerminates`, `EveryWorkerReaped` |
| `fetch_barrier`, `fetch_stall`, `fetch_reset` | counterexamples, see section 10 | small | - |

Symmetry over the two keywords is used in the safety runs only (the module
chooses from a set in `FetchedTab`, but that set has at most one element, which
`SingleChain` checks). Deadlock is checked in `fetch_safety` and `fetch_live`;
`fetch_pass` and the counterexamples may rest when the requests are used up.

Why `fetch_live` leaves closing, renaming and refreshing out: they take the
worker of a running pass away, and then the pass does not end (`fetch_stall`).
Load-more and single refreshes are left out for the same reason.

Fairness (`FairSpec`): the event loop delivers each queued signal and each due
timer, the clock passes the cooldown, and each worker's thread runs - the
network call has a timeout and the database call a bounded wait, so a thread
inside `run()` gets on. Nothing is assumed of the user, of the periodic refresh
timer, which may be off, or of the end of a maintenance task.

### Tab loading

Two tabs: one in front and one being served. Two queries: the one shown and the
one wanted. Two request ids per tab: an old load and the one that supersedes it
(a third would need two threads that outlast their waits in one tab; when both
ids are taken a load has to wait for one of them). Queries of unequal length
make pages of one run out before the other's. `MaxMoves` bounds the events of
the environment (user, fetches, maintenance, failures); the answers to them are
not bounded. Three moves allow a load to be disturbed, and the disturbance to be
disturbed, while a fetch or maintenance comes in between.

| Run | Instance | States | Shows |
|---|---|---|---|
| `tabs_safety` | all events but renaming, 2 tabs, 2 queries, 2 ids, 3 moves | 0.5 M | `TypeOK`, `FlagsAreReal`, `NoTabForgotten`, `NoLostWakeup`, `RowsOfOneScope` |
| `tabs_live` | fair; switch, add, rename, fetch, reload, sync, maintenance; 2 tabs, 3 moves | 31 k | `HydratingIsLoading`, `HydratesAll` |
| `tabs_filter`, `tabs_repeat` | one tab, list operations only; counterexamples | small | - |

Renaming stops a fetch, reloads, requeues and starts another fetch in one step, so
it would multiply the states of `tabs_safety` by four; it is in `tabs_live`, beside
what else moves a tab into and out of the queue. The theorems of section 9 are
about every event together.

Deadlock is not checked: the program rests when the moves are used up and every
answer is in.

`HydratesAll` leaves closing and failures out of its events (a failing tab in
front is tried for ever, before the others) and excepts a running maintenance,
whose end nobody promises. Fairness: timers and queued signals are delivered, a
fetch ends (`EveryWorkerReaped` above; a pass that never ends, `fetch_stall`,
pauses hydration for good as well), and a `DBWorker`'s query ends, for its
connection has a timeout. It excepts `missed`: then the queue sleeps until an
event of the user or a fetch wakes it.

### Connection pool

| Run | Instance | States | Shows |
|---|---|---|---|
| `pool_safety` | 4 threads, 2 connections, 4 emergency ids, a cap of 1; symmetric | 8 k | `TypeOK`, `ExclusiveUse`, `PoolIsWhole`, `EmergencyInUse`, `ActiveCounts`, `ImplementsContract` |

Four threads are two more than the pool has connections, so that two can be
making emergency connections at once, beyond the cap, while the others return
theirs. Nothing is cut off: the instance's whole state space is searched. Deadlock
is not checked: after `close` every thread may be done.

### Services

| Run | Instance | States | Shows |
|---|---|---|---|
| `services` | one component at a time, with its plans; symmetric | 0.23 M | `TypeOK`, `OneStampOneValue`, `SeenMeansMerged`, `ListingsAgree`, `NewerWins`, `FlagsStayExact` (cloud); `RestoreAllOrNothing`, `SettingsSurvive`, `RetentionFair` (files); `FileMatchesMemory`, `AutoStartHonest` (settings); `UpdateTruthful` (update); `MaintenanceHeld`, `BackfillNotForgotten` (jobs) |

The components have no variable in common, so a behaviour of all of them is an
interleaving of one behaviour of each, and a property of one component holds in
all if it holds where the others stand still. `part` chooses the component that
moves; the state space is the sum of theirs instead of the product.

A *plan* is a record of budgets and choices, so that one run covers several
small instances instead of one that is too large. Cloud: one machine with every
operation and pages that retitle (the flags and listings); two machines whose
clocks disagree; two that delete, restore and tag with up to three cycles and a
fault; two whose pages move titles; one that deletes in chunks of one while it
marks, imports and exports. Two machines and two articles are needed for a stale
snapshot to meet a newer database and for a title to have a twin; three cycles
let a snapshot come back to the machine that knows better. Files: a save, two
backups, three starts and two faults are a restore whose apply fails, is cut off
and repeated; three backups exceed `MaxManual` = 2; the damage plans have a save
between two damages, and one has starts and damage alone, until the defaults are
saved; the faults cover a copy to `.backup` that fails, the damage a settings
file that is removed. Settings: two imports, an import that fails twice, a
system without start-up entries; the three import files hold too many, repeated,
missing, junk and foreign values. Update: three checks, starts and faults. Jobs:
two jobs, an export, two refreshes, an error and an abandoned update. When the
budgets are used up the system rests: deadlock is not checked.

`SYMMETRY` permutes the machines and the query keys; no definition chooses
between them (`Oldest` orders snapshots by their number, and the two `CHOOSE`
over links and names have one candidate each).

## 9. Proofs

All theorems hold for every value of the constants that satisfies the named
assumptions of the modules, which TLC evaluates in every run. Where an
assumption bounds a plan, the bound is itself a constant (`MaxSaves`). Each
component has a specification of its own (`Spec`, `CloudSpec`, `FilesSpec`,
`PrefsSpec`, `UpdSpec`, `JobsSpec`), and that is what the theorems are about.

| Assumption | Says |
|---|---|
| `RegistryAssumption`, `FetchFlowAssumption` | finitely many keywords; a page limit of two at least, and one network error at least before the cooldown |
| `TabLoadingAssumption`, `TabsAreFinite` | ids and page counts are typed, finitely many tabs |
| `PoolAssumption` | finite sets of threads and connections |
| `BookmarksApart` | the bookmark list is not a search |
| `PlansTyped`, `FiniteStore`, `StampsPositive`, `LimitsPositive` | plans are typed, no page names a link twice; finitely many links and keys; 0 is no time stamp |
| `RetentionPositive`, `BudgetBounds`, `FilePlansBounded` | retention keeps at least one of a kind; budgets are finite |
| `PrefsPlansTyped`, `OneTabPerKey`, `ImportFilesTyped` | plans are typed, the tabs at the beginning search for different things (`add_news_tab` sees to that); an import file may hold anything, of which a number parses to integers only and a list to texts |
| `IntervalDefault`, `TimeoutRange`, `ListLimits` | the default is among what is allowed, the range is not empty; the limits are numbers, the last start index one at least |
| `LatestNumber` | releases are numbered from 1 |

### Fetch flow

| Theorem | Property |
|---|---|
| `FetchSafetyProofs!TypeCorrect` | `TypeOK` |
| `FetchSafetyProofs!RegistryCorrect` | `RegistryConsistent` |
| `FetchSafetyProofs!NoWorkerLost` | `LiveIsRegistered` |
| `FetchSafetyProofs!OneWorker` | `OneLiveWorkerPerTab` |
| `FetchSafetyProofs!MaintenanceSafe` | `MaintenanceQuiesced` |
| `FetchSafetyProofs!OutcomesOrdered` | `OutcomesInOrder` |
| `FetchPassProofs!StartIndexIsOwned` | `StartIndexOwned` |
| `FetchPassProofs!RefreshFlags` | `RefreshFlagsAgree` |
| `FetchPassProofs!OneThreadOfControl` | `SingleChain`, if maintenance never begins |
| `FetchPassProofs!PassIsSequential` | `ImplementsSequentialRefresh`, if maintenance never begins |
| `FetchPassProofs!CursorNeverSkips` | `CursorContiguous`, if no cursor is reset |

The inductive invariant `IInv` is `TypeOK`, `Core` and `MaintenanceIdle`.
`RegistryConsistent` alone is not inductive: a new request must not be
registered already, which needs that no request beyond `requestSeq` has a
handle, a phase or a start (`Numbered`). `OneLiveWorkerPerTab` is not preserved
by itself either: it follows from `LiveIsRegistered` (a worker that was not
stopped is in the registry) and `RegistryConsistent` (the registry has one
request per tab). `OutcomesInOrder` needs in addition that the active request of
a tab is the newest ever issued for it (`RegisteredIsNewest`). The proof goes by
the operations rather than the actions: `LaunchCore`, `CleanupCore`,
`PopConsistent` and `FrameCore` state what starting, cleaning up, popping and
leaving alone do to `Core`, and the lemmas `UserCore`, `TimerCore`,
`SignalCore`, `ThreadCore` and `MaintenanceCore` combine them per action.

`FetchPassProofs` adds `Silent` (`FInv`): a request at work has posted nothing
yet, and one that was stopped while registered never will; without it the
outcome of a request that was cleaned up could advance the pass again.
`StartIndexOwned` says one direction only: a start index belongs to a registered
request, while `on_fetch_error` may take it from a request that still is one
(`completion.py:201`). `Chain`
says that a timer and a request in flight exclude each other, that there is at
most one of them, none without a pass, and that what is in flight is the tab
after those settled; the refinement needs exactly this and nothing else of the
timers. `PagesInOrder` says that an outcome still to come is of page 1 or of the
page after its tab's cursor.

The hypotheses are on the events (`Ops`) and are those of the run `fetch_pass`,
because without them the statements are false: maintenance abandons a pass with
its timer armed, so a second chain may begin; `fetch_reset` shows what a reset
does to the cursor. They exclude these two events and nothing else: pages,
failures, closing, renaming and every other event of the user are covered.

### Tab loading

| Theorem | Property |
|---|---|
| `TabLoadingProofs!FlagsReal` | `FlagsAreReal` |
| `TabLoadingProofs!QueueWaitsForReal` | `HydratingIsLoading` |
| `TabLoadingProofs!RowsAreOfOneScope` | `RowsOfOneScope` |
| `TabLoadingProofs!TabsTypeCorrect` | `TypeOK` |
| `TabLoadingProofs!NoTabIsForgotten` | `NoTabForgotten` |
| `TabLoadingProofs!NoWakeupIsLost` | `NoLostWakeup` |

For any tabs, queries, page counts, request ids and number of moves. The flags
alone are not inductive: that the newest
request of a tab in flight still has an answer coming needs that it is not among
the cancelled ids, that an append never meets a first load (an unloaded tab has
no rows and a total of 0, so `append_items` returns), and that a flag of a
loaded tab is never the initial one. `TabInv` says this of one tab, and that
its rows are of the scope it remembers unless they are `mislabelled`, and each
operator has a lemma that it keeps it (`LoadInv`, `CancelInitialInv`,
`ShownInv`, ...); `OneTabStep` and `LoadStep` lift them to the window, where
`HydrationInv` adds that the tab being served is open and unloaded with its
answer coming. TLC checked `IInv` before, on that instance and with every event.

The queue has its own invariant on top, `QueueInv`: no tab is in it twice,
every open tab that needs its first load is in it or being served
(`Remembered`), and when a tab waits, somebody looks after the queue or it has
missed the end of a fetch (`Awake`).
Taking tabs out of the queue is a recursive function over its positions; the
lemmas about it (`KeepsOf`) go by the least position at which they would fail,
since the library's induction rules cannot be instantiated here.

### Connection pool

| Theorem | Property |
|---|---|
| `ConnectionPoolProofs!PoolTypeCorrect` | `TypeOK` |
| `ConnectionPoolProofs!LentToOne` | `ExclusiveUse` |
| `ConnectionPoolProofs!NoConnectionLost` | `PoolIsWhole` |
| `ConnectionPoolProofs!NoStaleEmergency` | `EmergencyInUse` |
| `ConnectionPoolProofs!CounterIsRight` | `ActiveCounts` |
| `ConnectionPoolProofs!PoolImplementsContract` | `ImplementsContract` |

For any finite sets of threads and connections and any cap.
`PoolInv` adds to the properties what a thread's place says of its connection
(`PlaceTells`: past `CheckClosed` only pooled connections remain), and that the
queue holds open connections only (`IdleIsOpen`); without the latter `Take` after
`close` could not be shown to lend an open one. The heart is `RoomForReturned`:
a thread that returns a pooled connection holds one of the `max_connections`, so
fewer are in the queue and `full()` is false: the branch that closes the
connection, and the exception of `put_nowait`, are never taken. `CounterIsRight`
is proved on top, by the cardinality of the set of threads that are counted.

### Articles and their synchronisation

| Theorem | Property |
|---|---|
| `CloudSyncProofs!StampsAreUnique` | `OneStampOneValue` |
| `CloudSyncProofs!SeenIsMerged` | `SeenMeansMerged` |
| `CloudSyncProofs!NoOlderValueReturns` | `NewerWins` |
| `CloudSyncProofs!QueriesAgree` | `ListingsAgree` |
| `CloudSyncProofs!FlagsGoWrongOnlyThere` | `FlagsStayExact` |
| `CloudSyncProofs!CloudTypeCorrect` | `CloudTypeOK` (a part of `MCServices!TypeOK`) |

For any number of machines, links, keys, snapshots and cycles, any clocks that
give an edit a time of its own, and any length of the lists and the folder.
Every operator of `ArticleStore` that changes a database has a lemma saying what
it does to a row (`Edited`: some fields are written at one time; `Blended`: each
field is the later of two), and the actions are taken from these. `CloudInv` is:

* `Written`: a time in a database is one that an edit has used, and a field
  never written holds its initial value. `Agreed`: two databases agree on every
  field they carry the same time for. Both are about *all* databases, also the
  staged copy of a snapshot that has meanwhile left the folder, which a merge
  may still commit; without it a merge is not shown to keep `Agreed`.
* `Known`: what a machine has seen, or exported itself, it knows article by
  article, unless the article was deleted for good; and the copy that a failed
  merge goes back to knows what its own seen list names. This is why going back
  takes database and list together. `Numbered` ties a number to one snapshot.
* `CopyIsFresh`: as long as the user did nothing during a merge the copy is the
  database, so that going back loses nothing; `NewerWins` excepts the other case,
  and only the step that goes back. That the commit of a merge is not excepted
  follows from its taking field by field the later of two.

`FlagsStayExact` follows step by step. A page computes afresh the groups of its
own titles and of the titles it moves away from, in its own scope (`PageIs`,
`PageRows` say what a page does to one article); other scopes keep their members
and flags, unless a title moves. An article deleted for good has the groups it
leaves computed; a step that marks one deleted, in the list or by a merge, has
all of them computed. The attempt to prove an earlier form of this
property showed that it held only in the small instance: a merge that fails after
the user has worked brings back the flags of its copy, of whichever group. The
property now names that case.

### Files

| Theorem | Property |
|---|---|
| `LocalFilesProofs!FilesTypeCorrect` | `FilesTypeOK` (a part of `MCServices!TypeOK`) |
| `LocalFilesProofs!RestoreIsAtomic` | `RestoreAllOrNothing` |
| `LocalFilesProofs!SettingsOutlastDamage` | `SettingsSurvive` |
| `LocalFilesProofs!RetentionIsFair` | `RetentionFair` |

`FilesInv` says how far each stage of a restore has come (`HalfWay`), that the
request is in one of its two files only and names a backup that is there
(`OneRequest`), that a log lies beside its own database (`LogsBelong`), that of
the two settings files one can be read, in the staging directory too, unless a
save was "stale" (`Readable`), and that nothing holds the defaults before they are saved
(`DefaultsSaved`). `RetentionFair` rests on `FewManual`: since there are never
more manual backups than are kept, an automatic one never drives one out.

Two properties were true only within the bounds of the instance, and the proof
showed it: a torn pair can be backed up file by file and brought back by a later
restore, and defaults that were saved end what can be promised of the
`.backup`. The scars "copied" and "reset" are there for that, and a plan that
reaches the second was added to the run.

### Update, jobs, settings

| Theorem | Property |
|---|---|
| `DesktopProofs!UpdTypeCorrect` | `UpdTypeOK` (a part of `MCServices!TypeOK`) |
| `DesktopProofs!UpdateIsTruthful` | `UpdateTruthful` |
| `DesktopProofs!JobsTypeCorrect` | `JobsTypeOK` (a part of `MCServices!TypeOK`) |
| `DesktopProofs!MaintenanceIsHeld` | `MaintenanceHeld` |
| `DesktopProofs!BackfillIsRemembered` | `BackfillNotForgotten` |
| `DesktopProofs!StartUpSwitchIsHonest` | `AutoStartHonest` |
| `DesktopProofs!PrefsTypeCorrect` | `PrefsTypeOK` (a part of `MCServices!TypeOK`) |
| `DesktopProofs!SettingsComeBack` | `FileMatchesMemory` |
| `ServicesProofs!ServicesTypeCorrect` | `TypeOK` of `MCServices` |

`UpdInv`: what each place of the helper says of the program file and of what has
passed its test (`HelperKnows`), and that a running program is the one in the
file (`RunsTheFile`). `JobsInv`: the mode is held by one job (`OneHolder`,
`ModeIsHeld`) and alone (`ModeIsAlone`), and whoever stops the backfill
remembers it until its outcome is heard, only an abandoned update excepted
(`StopIsPause`); the latter is what keeps an incomplete index from being
forgotten when a pause races the end of a chunk. `PrefsInv`: at each step of an
import, which of the old, the new and the present settings the entry follows
(`EntryFollows`) and which the file holds (`FileFollows`). That the entry is
"none" when the switch is off is stronger than the property and needed: an entry
left over would become right, or wrong, by the next change of the other switch.

`WholeInv` carries `SettingsComeBack`. A start normalises what it reads, so the
property says that normalising the saved settings once more changes nothing but
the secret's form (`LoadedIsFile`). That needs every setting in memory to be
normal already (`InOrder`), through every step of an import: `StagedInOrder`
for the merged settings, where the tabs of a file are appended to those that are
open and no two search for the same thing (`JoinedTabs`), and `HalfAdded` for
the tabs created one by one; the roll-back that leaves one of them behind keeps it
too. `FileHolds` says which settings the file has at each step: the present ones
until it is saved, the new ones while they are applied, none that matter while a
correction is due. What the loops over lists return rests on a few lemmas about
positions: each place of a list has its rank, and each rank its place
(`EveryRank`, `CollectedHasPlaces`), and a list without repetitions is collected
as it is (`CollectedWhole`, `DistinctStays`).

`ServicesTypeCorrect` adds that a step of `MCServices` is a step of one component
which the others sit out (`OneMoves`), so that its specification implies each of
theirs, and with it every theorem about them.

### What is only model-checked

* Liveness: `SequentialTerminates`, `EveryWorkerReaped`, `HydratesAll`. The
  prover does not handle liveness under fairness.
* `SingleChain`, `ImplementsSequentialRefresh` and `CursorContiguous` are
  checked in `fetch_pass` under the same restriction on the events as the
  theorems.
* The counterexamples of section 10.

## 10. Findings

* **Maintenance beside a write** (`fetch_barrier`). A fetch is in its upsert when
  its tab is closed; the wait times out and the worker is detached, i.e. popped
  from the registry. `begin_database_maintenance` then finds an empty registry
  and starts. `specs/003-audit-hardening/spec.md:92` (FR-005) and
  `tasks.md:22` demand that it is refused until the fetch has really ended.
* **A pass that never ends** (`fetch_stall`). Closing the tab a pass is fetching
  disconnects its worker; no callback advances the pass; refreshes are refused
  from then on with the advice to try again after it completes
  (`refresh_flow.py:116`). Only maintenance or a restart clears it.
* **A reset that does not last** (`fetch_reset`). Load more, reset the cursor,
  then the outcome arrives: the cursor is the page of that fetch and the next
  load goes on from there, not from page 1 (`README.md:122`).
* **The other filter's rows** (`tabs_filter`). A filter is typed, its load
  starts, the filter is typed back: the wanted scope equals that of the rows
  still shown, so `apply_filter` returns without a reload; then the load
  answers and its rows stay (`db_loading.py:272` says a filter change queries
  again).
* **The first page twice** (`tabs_repeat`). A reload of a tab with more pages
  starts and sets `_loaded_offset` to 0; the user asks for more before it
  answers (or after it was lost); the append supersedes the reload and asks for
  offset 0: page 1 is appended to itself (`append_items` "loads the next DB
  page", `db_loading.py:290`).

Not findings, for no text of the repository says otherwise, but worth knowing: a
maintenance that is refused still drops the tab being hydrated; an exception in
`on_data_loaded` leaves `_hydration_inflight_keyword` set and hydration stopped;
maintenance stops the debounce timer and with it the pending filter; a first
load that is cancelled in time is shown nevertheless if its answer was queued
already, and then without its scope signature: rows of the old filter are taken
for the new one's, `apply_filter` finds the wanted scope on the screen and does
not query again, and the next page joins them (`lifecycle.py:130`,
`db_loading.py:182`). A tab closed or renamed while its fetch outlasts the wait
ends the pause of the hydration without waking it (`completion.py:413`). The cap
on emergency connections is checked before, and counted after, the connection is
made, so that threads that time out together exceed it (the model has these
states). A thread that has passed the test of `_closed` when `close` begins puts
its connection into the queue after it was emptied, and that connection stays
open in the ending process; `close` also leaves the rest of the queue open after
the first connection that cannot be closed.

Articles: `restore_deleted_link` collects the groups to compute afresh while the
article is still hidden, so there are none and the flags of its twins stay as
they were; a page that brings a deleted article before its live twin flags the
twin; the removal of the last tag leaves nothing for a merge to carry; titles
carry no time, so two machines may exchange theirs; a deletion for good leaves no
tombstone and a merge brings the article back; a merge that fails puts its copy,
wrong flags included, over what the user did meanwhile, and a chunk deletes an
article bookmarked since it was chosen; with clocks apart the older edit may win.

Files: a power failure between the rename of a restore's request and its end
loses the request and may leave new settings beside the old database; retention
may delete the backup a pending restore names, and a backup whose metadata are
lost counts as the newest manual one; when the settings file is damaged and its
`.backup` can be read but not be put in its place, the program goes on from the
defaults and its second save replaces the `.backup` too. The same follows when the
settings file is missing, for the `.backup` is then not looked at (`io.py:22`); and
a copy to `.backup` that fails goes unnoticed, so that a damaged one stays
(`io.py:114`).

Settings: a tab that fails after it was shown survives the roll-back of an
import; a kill in an import can leave the start-up entry and the switch apart
until the dialog is used; a secret that cannot be decrypted once is gone with
the next save.

Update and jobs: the result is written after the new program was started, which
shows it one start late; the old program is put back but not started; an update
that is given up leaves the refresh, the export and the backfill stopped
(`main_window_update.py:197`); closing a
tab ends the maintenance mode while its worker may still write; the exit does
not wait for the cloud, settings, tag and rules jobs; `apply_cloud_sync_settings`
called during maintenance leaves the timer stopped (`cloud.py:92`).

## 11. Not modelled

* Query parsing, text normalisation, date parsing, content filters, automation
  rules' matching, keyword groups, publisher aliases: functions on strings
  without state.
* Migrations of the schema, the integrity check with its recovery, the one-time
  migration of the data directory, the single-instance lock: SQL text and file
  operations of one start.
* Rendering, badges' cache, notifications, statistics windows, styles, window
  geometry, tray menu.
* The API worker's attempts, back-off and the inline wait of a 429: `FetchFlow`
  has the outcomes they can have.
* The archive format of snapshots, its limits and path policy, the signature of
  an update's manifest, Windows' credential storage: I/O, with its possible
  results as choices.
* The timers of the cloud synchronisation and of the automatic backups: every
  moment is a possible tick.

`PROJECT.json` says for each hazard that no property covers why that is so.

## 12. Plan

The modelling is complete along the plan, apart from the parts of section 11.
Every invariant, action property and refinement that a passing run checks is
proved; the liveness properties stay with TLC. What would carry the development
further:

1. Hypotheses of the pass theorems. `SingleChain` and the refinement hold as long
   as maintenance never begins; a weaker hypothesis, that maintenance never begins
   while a timer of the pass is armed, would cover more histories.
2. The three hazards without a property (`PROJECT.json`), each of which needs a
   failure inside a callback that `FetchFlow` and `TabLoading` do not have.
