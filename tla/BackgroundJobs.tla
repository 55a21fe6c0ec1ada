----------------------------- MODULE BackgroundJobs -----------------------------
(***************************************************************************)
(* The jobs that run beside the window: those that need the database for   *)
(* themselves and put the window into maintenance mode, the export, the    *)
(* backfill of the full-text index, a refresh of the tabs; and the exit.   *)
(* A worker ends in its own thread; its outcome is a signal that waits     *)
(* until the window's thread is free, and is handled before any timer or   *)
(* click that comes later.                                                 *)
(***************************************************************************)
EXTENDS Naturals, FiniteSets

CONSTANTS
  JobPlans   \* the budgets: jobs, exports, refreshes, errors and abandoned updates

VARIABLES
  maintenance,  \* _maintenance_mode
  work,         \* per job of the maintenance mode how far it is
  export,       \* the export: "none", "running" or "over"
  backfill,     \* its worker [at], and whether it was interrupted [stop]
  pausing,      \* _fts_backfill_pause_requested
  forgone,      \* history: an update that was then abandoned interrupted the backfill, and
                \* none was paused or started since
  retryTimer,   \* the timer of the backfill runs
  indexed,      \* the index is complete
  refresh,      \* a refresh of the tabs is under way
  exit,         \* "no", "closed" or, with the database left open, "deferred"
  jobsLeft      \* the plan, with what remains of its budgets

backfillVars == <<backfill, pausing, forgone, retryTimer, indexed>>
jobsVars == <<maintenance, work, export, backfillVars, refresh, exit, jobsLeft>>

\* The cloud synchronisation, the CSV import, the settings dialog's clean-up, a tab's
\* "mark all read", the tag manager and the automation rules for a whole tab.
JobKinds == {"cloud", "csv", "data", "mark", "tags", "rules"}

\* "over": the outcome is queued.  "dialog gone": the settings dialog was closed and
\* left word for the end.  "tab gone": the tab was closed under the worker.
Holding == {"asking", "running", "over", "dialog gone"}
Writing == {"running", "dialog gone", "tab gone"}

NoBackfill == [at |-> "none", stop |-> FALSE]

JobsInit ==
  /\ jobsLeft \in JobPlans
  /\ maintenance = FALSE /\ work = [j \in JobKinds |-> "none"] /\ export = "none"
  /\ backfill = NoBackfill /\ pausing = FALSE /\ indexed = FALSE
  /\ forgone = FALSE
  /\ retryTimer = TRUE   \* the first start is a zero timer
  /\ refresh = FALSE /\ exit = "no"

JobsSpend(what) == jobsLeft[what] > 0 /\ jobsLeft' = [jobsLeft EXCEPT ![what] = @ - 1]

-----------------------------------------------------------------------------
(* The backfill of the index *)

\* _request_fts_backfill_resume: the timer is set, sooner or later, unless all is done.
Resume == retryTimer' = (retryTimer \/ ~ indexed)

\* A mutant: the pause is not remembered, so nobody resumes.
PauseForgotten ==
  IF backfill.at = "running"
  THEN /\ backfill' = [backfill EXCEPT !.stop = TRUE]
       /\ UNCHANGED <<pausing, forgone, retryTimer>>
  ELSE Resume /\ UNCHANGED <<pausing, forgone, backfill>>

\* _pause_fts_backfill: a running worker is asked to stop, and nobody waits for it.
Pause ==
  IF backfill.at = "running"
  THEN /\ pausing' = TRUE /\ forgone' = FALSE
       /\ backfill' = [backfill EXCEPT !.stop = TRUE] /\ UNCHANGED retryTimer
  ELSE Resume /\ UNCHANGED <<pausing, forgone, backfill>>

StartBackfill ==
  /\ exit = "no" /\ retryTimer /\ backfill.at \in {"none", "running"}
  /\ \/ /\ backfill.at = "running"
        /\ retryTimer' = FALSE /\ UNCHANGED <<backfill, pausing, forgone>>
     \/ /\ backfill.at = "none" /\ indexed
        /\ pausing' = FALSE /\ retryTimer' = FALSE /\ UNCHANGED <<backfill, forgone>>
     \/ /\ backfill.at = "none" /\ ~ indexed /\ (maintenance \/ refresh)
        /\ UNCHANGED <<backfill, pausing, forgone, retryTimer>>   \* set again
     \/ /\ backfill.at = "none" /\ ~ indexed /\ ~ maintenance /\ ~ refresh
        /\ backfill' = [NoBackfill EXCEPT !.at = "running"]
        /\ retryTimer' = FALSE /\ forgone' = FALSE /\ UNCHANGED pausing
  /\ UNCHANGED <<maintenance, work, export, indexed, refresh, exit, jobsLeft>>

\* The last chunk, an error, or the interruption seen between two chunks, which also
\* turns the other two outcomes into a cancellation.
BackfillEnds ==
  /\ exit = "no" /\ backfill.at = "running"
  /\ \/ indexed' = TRUE /\ UNCHANGED jobsLeft
        /\ backfill' = [backfill EXCEPT !.at = IF backfill.stop THEN "cancelled" ELSE "finished"]
     \/ ~ backfill.stop /\ JobsSpend("errors") /\ UNCHANGED indexed
        /\ backfill' = [backfill EXCEPT !.at = "error"]
     \/ backfill.stop /\ UNCHANGED <<jobsLeft, indexed>>
        /\ backfill' = [backfill EXCEPT !.at = "cancelled"]
  /\ UNCHANGED <<maintenance, work, export, pausing, forgone, retryTimer, refresh, exit>>

BackfillHeard ==
  /\ exit = "no" /\ backfill.at \in {"finished", "error", "cancelled"}
  /\ backfill' = NoBackfill /\ pausing' = FALSE
  /\ CASE backfill.at = "finished" -> retryTimer' = FALSE
       [] backfill.at = "error" -> retryTimer' = TRUE
       [] OTHER -> IF pausing THEN Resume ELSE UNCHANGED retryTimer
  /\ UNCHANGED <<maintenance, work, export, forgone, indexed, refresh, exit, jobsLeft>>

-----------------------------------------------------------------------------
(* Export and refresh *)

\* should_block_db_action
StartExportJob ==
  /\ exit = "no" /\ export = "none" /\ ~ maintenance /\ JobsSpend("exports")
  /\ export' = "running"
  /\ UNCHANGED <<maintenance, work, backfillVars, refresh, exit>>

\* The user's cancellation is one of the ends.
ExportEnds ==
  /\ exit = "no" /\ export = "running"
  /\ export' = "over"
  /\ UNCHANGED <<maintenance, work, backfillVars, refresh, exit, jobsLeft>>

ExportHeard ==
  /\ exit = "no" /\ export = "over"
  /\ export' = "none"
  /\ UNCHANGED <<maintenance, work, backfillVars, refresh, exit, jobsLeft>>

StartRefresh ==
  /\ exit = "no" /\ ~ refresh /\ ~ maintenance /\ JobsSpend("refreshes")
  /\ refresh' = TRUE /\ Pause
  /\ UNCHANGED <<maintenance, work, export, indexed, exit>>

FinishRefresh ==
  /\ exit = "no" /\ refresh
  /\ refresh' = FALSE /\ Resume
  /\ UNCHANGED <<maintenance, work, export, backfill, pausing, forgone, indexed, exit, jobsLeft>>

-----------------------------------------------------------------------------
(* The maintenance mode *)

\* begin_database_maintenance ends the refresh, the fetches, the reading of the tabs
\* and the export; one of them that does not stop in time is the reason to refuse, ...
BeginRefused ==
  /\ ~ maintenance /\ refresh' = FALSE
  /\ export' = export \/ (export = "running" /\ export' = "none")
  /\ UNCHANGED <<maintenance, work, backfillVars>>

\* ... otherwise the mode is on.
BeginMaintenance ==
  /\ ~ maintenance /\ maintenance' = TRUE /\ refresh' = FALSE
  /\ export' = IF export = "running" THEN "none" ELSE export
  /\ Pause /\ UNCHANGED indexed

\* A job asks for the mode, and does nothing if it is refused.
StartJob(j, at) ==
  /\ exit = "no" /\ work[j] = "none" /\ JobsSpend("jobs") /\ UNCHANGED exit
  /\ BeginRefused \/ (BeginMaintenance /\ work' = [work EXCEPT ![j] = at])

\* _cloud_sync_block_reason: manual or by its timer, the synchronisation gives way to a
\* refresh and to every other job; a manual import asks first.
MaySync == ~ maintenance /\ ~ refresh /\ work["cloud"] = "none"
StartCloudSync == MaySync /\ \E at \in {"asking", "running"} : StartJob("cloud", at)
StartCsvImport == export # "running" /\ StartJob("csv", "running")
StartDataTask == StartJob("data", "running")
StartMarkAllRead == StartJob("mark", "running")
StartScopeTags == StartJob("tags", "running")
StartApplyRules == StartJob("rules", "running")

\* end_database_maintenance
EndMaintenance ==
  /\ maintenance' = FALSE
  /\ IF maintenance THEN Resume ELSE UNCHANGED retryTimer
  /\ UNCHANGED <<export, backfill, pausing, forgone, indexed, refresh, exit, jobsLeft>>

\* A manual cloud import shows what it would merge and asks.
AnswerPreview ==
  /\ exit = "no" /\ work["cloud"] = "asking"
  /\ \/ /\ work' = [work EXCEPT !["cloud"] = "running"]
        /\ UNCHANGED <<maintenance, export, backfillVars, refresh, exit, jobsLeft>>
     \/ work' = [work EXCEPT !["cloud"] = "none"] /\ EndMaintenance

\* The worker finishes, fails or sees that it is cancelled.
JobEnds(j) ==
  /\ exit = "no" /\ work[j] \in Writing
  /\ work' = [work EXCEPT ![j] = IF @ = "tab gone" THEN "none" ELSE "over"]
  /\ UNCHANGED <<maintenance, export, backfillVars, refresh, exit, jobsLeft>>

CloudSyncEnds == JobEnds("cloud")
CsvImportEnds == JobEnds("csv")
DataTaskEnds == JobEnds("data")
MarkAllReadEnds == JobEnds("mark")
ScopeTagsEnd == JobEnds("tags")
ApplyRulesEnds == JobEnds("rules")

\* Its outcome arrives, whichever of the three it is, and the mode ends.
JobHeard(j) ==
  /\ exit = "no" /\ work[j] = "over"
  /\ work' = [work EXCEPT ![j] = "none"]
  /\ EndMaintenance

CloudSyncHeard == JobHeard("cloud")
CsvImportHeard == JobHeard("csv")
DataTaskHeard == JobHeard("data")
MarkAllReadHeard == JobHeard("mark")
ScopeTagsHeard == JobHeard("tags")
ApplyRulesHeard == JobHeard("rules")

\* A mutant: the mode ends though the worker goes on.
CloseSettingsAtOnce ==
  /\ exit = "no" /\ work["data"] \in {"running", "over"}
  /\ work' = [work EXCEPT !["data"] = IF @ = "running" THEN "dialog gone" ELSE "none"]
  /\ EndMaintenance

\* SettingsDialog.closeEvent: the outcome will not be heard any more.  The worker has
\* two seconds; after them its end is what ends the mode.
CloseSettings ==
  /\ exit = "no" /\ work["data"] \in {"running", "over"}
  /\ \/ work' = [work EXCEPT !["data"] = "none"] /\ EndMaintenance
     \/ /\ work["data"] = "running"
        /\ work' = [work EXCEPT !["data"] = "dialog gone"]
        /\ UNCHANGED <<maintenance, export, backfillVars, refresh, exit, jobsLeft>>

\* NewsTab.cleanup: the mode ends whether the worker stopped in time or not.
CloseMarkingTab ==
  /\ exit = "no" /\ work["mark"] \in {"running", "over"}
  /\ \E at \in IF work["mark"] = "over" THEN {"none"} ELSE {"none", "tab gone"} :
       work' = [work EXCEPT !["mark"] = at]
  /\ EndMaintenance

\* _perform_real_close: the export, the CSV import and the backfill have a second each;
\* one that is still at work keeps the database open.  Nobody waits for the others.
Waited == (IF export = "running" THEN {"export"} ELSE {})
  \cup (IF work["csv"] = "running" THEN {"csv"} ELSE {})
  \cup (IF backfill.at = "running" THEN {"backfill"} ELSE {})

RealClose ==
  /\ exit = "no"
  /\ \E slow \in SUBSET Waited :
       /\ exit' = IF slow = {} THEN "closed" ELSE "deferred"
       /\ export' = IF "export" \in slow THEN "running" ELSE "none"
       /\ work' = [work EXCEPT !["csv"] = IF "csv" \in slow THEN "running" ELSE "none"]
       /\ backfill' = IF "backfill" \in slow THEN [backfill EXCEPT !.stop = TRUE] ELSE NoBackfill
  /\ UNCHANGED <<maintenance, pausing, forgone, retryTimer, indexed, refresh, jobsLeft>>

\* _prepare_update_shutdown outside the maintenance mode, and then no exit, because a
\* worker does not stop in time or the helper does not start.  The refresh and the export
\* are cancelled as before a maintenance; if these stop, the backfill is interrupted, and
\* no pause is noted.  An update that is installed ends in RealClose.
AbandonUpdate ==
  /\ exit = "no" /\ ~ maintenance /\ JobsSpend("updates")
  /\ refresh' = FALSE
  /\ \/ /\ export' = export \/ (export = "running" /\ export' = "none")
        /\ UNCHANGED <<backfill, forgone>>
     \/ /\ backfill.at = "running" /\ backfill' = [backfill EXCEPT !.stop = TRUE]
        /\ export' = (IF export = "running" THEN "none" ELSE export)
        /\ forgone' = ~ pausing
  /\ UNCHANGED <<maintenance, work, pausing, retryTimer, indexed, exit>>

JobsNext ==
  \/ StartBackfill \/ BackfillEnds \/ BackfillHeard \/ StartExportJob \/ ExportEnds
  \/ ExportHeard \/ StartRefresh \/ FinishRefresh
  \/ StartCloudSync \/ StartCsvImport \/ StartDataTask
  \/ StartMarkAllRead \/ StartScopeTags \/ StartApplyRules
  \/ CloudSyncEnds \/ CsvImportEnds \/ DataTaskEnds
  \/ MarkAllReadEnds \/ ScopeTagsEnd \/ ApplyRulesEnds
  \/ CloudSyncHeard \/ CsvImportHeard \/ DataTaskHeard
  \/ MarkAllReadHeard \/ ScopeTagsHeard \/ ApplyRulesHeard
  \/ AnswerPreview \/ CloseSettings \/ CloseMarkingTab \/ RealClose
  \/ AbandonUpdate

JobsSpec == JobsInit /\ [][JobsNext]_jobsVars

-----------------------------------------------------------------------------
(* Properties *)

JobsTypeOK ==
  /\ {maintenance, pausing, forgone, retryTimer, indexed, refresh, backfill.stop} \subseteq BOOLEAN
  /\ \A j \in JobKinds : work[j] \in Holding \cup {"none", "tab gone"}
  /\ export \in {"none", "running", "over"} /\ exit \in {"no", "closed", "deferred"}

\* The window is in maintenance mode exactly as long as one job needs it, also when its
\* dialog is gone; nothing that began before goes on beside it, save a chunk of a
\* backfill that was told to stop; and an exit closes the database only when the
\* export, the CSV import and the backfill have ended.  A "mark all read" whose tab was
\* closed goes on without the mode.
MaintenanceHeld ==
  /\ Cardinality({j \in JobKinds : work[j] \in Holding}) \leq 1
  /\ exit = "no" => maintenance = \E j \in JobKinds : work[j] \in Holding
  /\ maintenance /\ exit = "no" =>
       /\ ~ refresh /\ export # "running"
       /\ backfill.at = "running" => backfill.stop
  /\ exit = "closed" =>
       export # "running" /\ backfill.at # "running" /\ work["csv"] \notin Writing

\* A backfill that was paused, refused or failed is never forgotten: until the index is
\* complete its worker runs, or its outcome waits to be heard, or the timer is set.  Only
\* one that an abandoned update interrupted is, until the next refresh or job begins.
BackfillNotForgotten ==
  exit = "no" /\ ~ indexed =>
    backfill.at # "none" \/ retryTimer \/ (forgone /\ ~ refresh /\ ~ maintenance)
=============================================================================
