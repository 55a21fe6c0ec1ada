----------------------------- MODULE FetchFlow ------------------------------
(***************************************************************************)
(* The life of a news fetch: the GUI thread starts one background worker   *)
(* per tab, receives its outcome as a queued signal, cleans the worker up, *)
(* drives the sequential refresh of many tabs, and must get every worker   *)
(* out of the way before database maintenance.                             *)
(*                                                                         *)
(* Code: ui/main_window_fetch_support, ui/_main_window_tabs.py,            *)
(* ui/main_window_support/base_support/maintenance.py and the outer loop   *)
(* of core/workers_support/api_worker.py.                                  *)
(*                                                                         *)
(* One action is one handler of the GUI thread, run to its end, or one     *)
(* step of a worker thread.  A wait of the GUI thread for a worker's       *)
(* thread is part of the handler; whether the thread ends in time is       *)
(* nondeterministic.  Tab keyword and fetch key are identified: the code   *)
(* never keeps two tabs with one fetch key.                                *)
(***************************************************************************)
EXTENDS WorkerRegistry, Sequences, FiniteSets

CONSTANTS
  PageLimit,         \* last API page a fetch may ask for (10 in the code)
  MaxNetworkErrors,  \* _max_network_errors
  MaxTimers,         \* bound: timers left over when a new pass begins
  Ops,               \* bound: the kinds of user and timer events that occur
  Failures           \* bound: the kinds of errors a fetch reports

OpKind == {"add", "close", "rename", "refresh", "more", "resetCursor",
           "refreshAll", "auto", "credentials", "maintenance"}

ErrorKind == {"error", "network", "rate_limit"}

ASSUME FetchFlowAssumption ==
  /\ IsFiniteSet(Keyword)
  /\ PageLimit \in Nat /\ PageLimit >= 2
  /\ MaxNetworkErrors \in Nat \ {0}
  /\ MaxTimers \in Nat
  /\ Ops \subseteq OpKind /\ Failures \subseteq ErrorKind

VARIABLES
  tabs,              \* keywords of the open news tabs
  dialogs,           \* open error dialogs, newest first: was it a network error?
  credentials,       \* the stored API credentials pass validation
  cooldown,          \* _fetch_cooldown_until lies in the future
  netErrors,         \* _network_error_count, up to MaxNetworkErrors
  requestSeq,        \* _worker_request_seq
  reqTab,            \* the keyword captured by a request's callbacks
  sequential,        \* the requests started by the sequential refresh
  phase,             \* where a request's worker and thread are
  stopped,           \* requests whose signals are disconnected, worker.stop() called
  mail,              \* the outcome signal queued for the GUI thread
  startIndex,        \* _request_start_index, as a page number; 0: no entry
  cursor,            \* _fetch_cursor_by_key, as a page number; 0: no entry
  applied,           \* history: requests whose outcome a callback has honoured
  refreshActive,     \* _sequential_refresh_active
  pending,           \* _pending_refresh_keywords
  idx,               \* _current_refresh_idx
  timers,            \* singleShot timers that will call _process_next_refresh
  refreshInProgress, \* _refresh_in_progress
  maintenance        \* _maintenance_mode

uiVars == <<tabs, dialogs, credentials>>
limitVars == <<cooldown, netErrors>>
passVars == <<refreshActive, pending, idx, timers, refreshInProgress>>
threadVars == <<phase, stopped>>
requestVars == <<requestSeq, reqTab, sequential>>
pageVars == <<startIndex, cursor>>

vars == <<registryVars, uiVars, limitVars, passVars, threadVars, requestVars,
          pageVars, mail, applied, maintenance>>

(* idle: not started; net: talking to the API; db: past the last           *)
(* cancellation check, in the upsert; over: run() has returned; dead: the  *)
(* thread has ended and its finished signal is queued; gone: that signal   *)
(* has been handled.                                                       *)
Phase == {"idle", "net", "db", "over", "dead", "gone"}
NoMail == "none"

Busy(r) == phase[r] \in {"net", "db"}

-----------------------------------------------------------------------------
(* Mutant: a worker that outlasts the wait has not been told to stop.      *)
Cleanup_StopsLate(S, H) ==
  /\ \A r \in S \ H : Busy(r)
  /\ stopped' = stopped \cup H
  /\ phase' = [r \in Request |-> IF r \in H THEN "dead" ELSE phase[r]]

(* cleanup_worker(): the requests S are disconnected and told to stop, the *)
(* threads of H end within the wait.  Only a thread inside run() can       *)
(* outlast it.                                                             *)
Cleanup(S, H) ==
  /\ \A r \in S \ H : Busy(r)
  /\ stopped' = stopped \cup S
  /\ phase' = [r \in Request |-> IF r \in H THEN "dead" ELSE phase[r]]

(* Mutant: the entries are never popped.                                   *)
Forget_Nothing(R) == startIndex

(* _request_start_index without the requests R.                            *)
Forget(R) == [r \in Request |-> IF r \in R THEN 0 ELSE startIndex[r]]

(* The tail of fetch_news(): after a cleanup of S, with H ended and R      *)
(* popped, a new worker is registered for tab k and its thread started.    *)
Launch(k, page, inPass, S, H, R) ==
  LET r == requestSeq + 1
  IN  /\ requestSeq < MaxRequests
      /\ \A q \in S \ H : Busy(q)
      /\ requestSeq' = r
      /\ reqTab' = [reqTab EXCEPT ![r] = k]
      /\ sequential' = IF inPass THEN sequential \cup {r} ELSE sequential
      /\ PopAndRegister(R, r, k)
      /\ startIndex' = [Forget(R) EXCEPT ![r] = page]
      /\ stopped' = stopped \cup S
      /\ phase' = [q \in Request |->
                     IF q = r THEN "net" ELSE IF q \in H THEN "dead" ELSE phase[q]]

(* Mutant: the new worker is started beside the old one.                   *)
Start_Beside(k, page, inPass) == Launch(k, page, inPass, {}, {}, {})

(* fetch_news() past its guards: the tab's old worker is stopped first...  *)
Start(k, page, inPass) ==
  LET old == ActiveHandle(k) IN Launch(k, page, inPass, old, old, old)

(* ... and when it does not end within the wait the request is skipped; it *)
(* stays registered, stopped and disconnected.                             *)
SkipStart(k) ==
  LET old == ActiveHandle(k)
  IN  /\ old # {}
      /\ Cleanup(old, {})
      /\ UNCHANGED <<registryVars, requestVars, startIndex>>

(* The early returns of fetch_news() that a state decides.  The dedupe     *)
(* window of five seconds is left open: any request outside a pass may be  *)
(* deduplicated, and then changes nothing.                                 *)
FetchRefused == maintenance \/ ~credentials \/ cooldown

(* The page "load more" asks for: the API start index plus 100, and 101    *)
(* when nothing was fetched yet; the API answers up to start index 1000.   *)
NextPage(c) == IF c = 0 THEN 2 ELSE c + 1

(* Mutant: the limit is compared with the page before.                     *)
PastLimit_OffByOne(page) == page > PageLimit + 1

PastLimit(page) == page > PageLimit

(* Bound: requests are kept back for the tabs the running pass has left.   *)
Remaining == IF refreshActive THEN Len(pending) - idx ELSE 0
Budget(n) == requestSeq + n + Remaining <= MaxRequests

(* An error dialog is modal: no other user action until it is dismissed.   *)
UserMay(op) == op \in Ops /\ dialogs = <<>>

-----------------------------------------------------------------------------
(* User actions on tabs.                                                   *)

AddTab(k) ==
  /\ UserMay("add") /\ k \notin tabs /\ Budget(1)
  /\ tabs' = tabs \cup {k}
  /\ \/ UNCHANGED <<registryVars, requestVars, startIndex, threadVars>>
     \/ ~FetchRefused /\ (Start(k, 1, FALSE) \/ SkipStart(k))
  /\ UNCHANGED <<dialogs, credentials, limitVars, passVars, mail, cursor,
                 applied, maintenance>>

(* Mutant: the tab's worker is left alone.                                 *)
CloseTab_LeavesWorker(k) ==
  /\ UserMay("close") /\ k \in tabs
  /\ tabs' = tabs \ {k}
  /\ cursor' = [cursor EXCEPT ![k] = 0]
  /\ UNCHANGED <<registryVars, dialogs, credentials, limitVars, passVars,
                 threadVars, requestVars, startIndex, mail, applied, maintenance>>

(* A worker that outlasts the wait is detached: popped from the registry   *)
(* while its thread runs on (_ensure_tab_worker_stopped).                  *)
CloseTab(k) ==
  LET old == ActiveHandle(k)
  IN  /\ UserMay("close") /\ k \in tabs
      /\ tabs' = tabs \ {k}
      /\ \E ended \in SUBSET old : Cleanup(old, ended)
      /\ Pop(old)
      /\ startIndex' = Forget(old)
      /\ cursor' = [cursor EXCEPT ![k] = 0]
      /\ UNCHANGED <<dialogs, credentials, limitVars, passVars, requestVars,
                     mail, applied, maintenance>>

(* The old keyword's worker is stopped or detached as in CloseTab, then    *)
(* the new keyword is fetched; a pass may have left a worker for it.       *)
RenameTab(k, n) ==
  LET old == ActiveHandle(k)
      clash == ActiveHandle(n) \ old
  IN  /\ UserMay("rename") /\ k \in tabs /\ (n = k \/ n \notin tabs) /\ Budget(1)
      /\ tabs' = (tabs \ {k}) \cup {n}
      /\ cursor' = IF n = k THEN cursor ELSE [cursor EXCEPT ![k] = 0]
      /\ \E ended \in SUBSET old :
           \/ /\ ~FetchRefused
              /\ Launch(n, 1, FALSE, old \cup clash, ended \cup clash, old \cup clash)
           \/ /\ \E blocking \in IF FetchRefused THEN {{}} ELSE {{}, clash} :
                    Cleanup(old \cup blocking, ended)
              /\ Pop(old)
              /\ startIndex' = Forget(old)
              /\ UNCHANGED requestVars
      /\ UNCHANGED <<dialogs, credentials, limitVars, passVars, mail, applied,
                     maintenance>>

(* The tab's context menu.                                                 *)
RefreshTab(k) ==
  /\ UserMay("refresh") /\ k \in tabs /\ Budget(1)
  /\ ~FetchRefused
  /\ Start(k, 1, FALSE) \/ SkipStart(k)
  /\ UNCHANGED <<uiVars, limitVars, passVars, mail, cursor, applied, maintenance>>

(* "Load more": the page after the cursor, or, past the API's last page    *)
(* and with the user's consent, a reset of the cursor and page 1.          *)
LoadMore(k) ==
  LET page == NextPage(cursor[k])
  IN  /\ UserMay("more") /\ k \in tabs /\ Budget(1)
      /\ ~FetchRefused
      /\ IF ~PastLimit(page)
         THEN /\ Start(k, page, FALSE) \/ SkipStart(k)
              /\ UNCHANGED cursor
         ELSE /\ \/ Start(k, 1, FALSE) \/ SkipStart(k)
                 \/ UNCHANGED <<registryVars, requestVars, startIndex, threadVars>>
              /\ cursor' = [cursor EXCEPT ![k] = 0]
      /\ UNCHANGED <<uiVars, limitVars, passVars, mail, applied, maintenance>>

ResetCursor(k) ==
  /\ UserMay("resetCursor") /\ k \in tabs
  /\ cursor' = [cursor EXCEPT ![k] = 0]
  /\ UNCHANGED <<registryVars, uiVars, limitVars, passVars, threadVars,
                 requestVars, startIndex, mail, applied, maintenance>>

(* The settings dialog stores other credentials.                           *)
ChangeCredentials ==
  /\ UserMay("credentials")
  /\ credentials' = ~credentials
  /\ UNCHANGED <<registryVars, tabs, dialogs, limitVars, passVars, threadVars,
                 requestVars, pageVars, mail, applied, maintenance>>

-----------------------------------------------------------------------------
(* The sequential refresh.                                                 *)

(* fetch_news(is_sequential) raised before or after the tab's old worker   *)
(* was cleaned up.                                                         *)
Raise(k) ==
  \E R \in {{}, ActiveHandle(k)} :
    /\ Cleanup(R, R)
    /\ Pop(R)
    /\ startIndex' = Forget(R)
    /\ UNCHANGED requestVars

(* _process_next_refresh() at list[i], list being the pass's keywords and  *)
(* others the timers that stay armed: fetch it, or move on to the next one *)
(* by a new timer.                                                         *)
FetchNext(list, i, others) ==
  \/ /\ credentials
     /\ Start(list[i], 1, TRUE)
     /\ idx' = i - 1 /\ timers' = others
  \/ /\ credentials
     /\ SkipStart(list[i]) \/ Raise(list[i])
     /\ idx' = i /\ timers' = others + 1
  \/ /\ ~credentials
     /\ UNCHANGED <<registryVars, requestVars, startIndex, threadVars>>
     /\ idx' = i /\ timers' = others + 1

(* The tabs to refresh: open tabs, without repetition, in some order.      *)
TabLists == {l \in UNION {[1 .. n -> tabs] : n \in 1 .. Cardinality(tabs)} :
               \A i, j \in DOMAIN l : l[i] = l[j] => i = j}

(* Mutant: a running pass does not refuse another one.                     *)
RefreshBlocked_NotByPass == maintenance \/ cooldown \/ ~credentials

(* _refresh_block_reason()                                                 *)
RefreshBlocked == maintenance \/ refreshActive \/ cooldown \/ ~credentials

(* _begin_sequential_refresh() after refresh_all()'s checks.               *)
BeginPass(list) ==
  /\ ~RefreshBlocked
  /\ Budget(Len(list)) /\ timers <= MaxTimers
  /\ netErrors' = 0
  /\ refreshActive' = TRUE
  /\ pending' = list
  /\ FetchNext(list, 1, timers)
  /\ UNCHANGED <<uiVars, cooldown, mail, cursor, applied, maintenance>>

(* The refresh button, or refresh_selected_tabs() after an import.         *)
RefreshAll(list) ==
  /\ UserMay("refreshAll")
  /\ BeginPass(list)
  /\ UNCHANGED refreshInProgress

(* _safe_refresh_all(): the refresh timer or the tray menu.  Dialogs do    *)
(* not hold timers back.                                                   *)
AutoMay ==
  /\ "auto" \in Ops
  /\ ~maintenance /\ netErrors < MaxNetworkErrors
  /\ ~refreshInProgress /\ ~refreshActive

AutoTick(list) ==
  /\ AutoMay
  /\ BeginPass(list)
  /\ refreshInProgress' = TRUE

(* No tab is due: the count of network errors is reset all the same.       *)
AutoTickIdle ==
  /\ AutoMay /\ ~RefreshBlocked
  /\ netErrors' = 0
  /\ UNCHANGED <<registryVars, uiVars, cooldown, passVars, threadVars,
                 requestVars, pageVars, mail, applied, maintenance>>

(* Mutant: the last tab of the list is left out.                           *)
PassOver_Early == idx + 1 >= Len(pending)

(* Every tab of the pass has had its turn.                                 *)
PassOver == idx >= Len(pending)

(* A singleShot timer calls _process_next_refresh().                       *)
TimerFires ==
  /\ timers > 0
  /\ UNCHANGED <<uiVars, limitVars, mail, cursor, applied, maintenance>>

(* The timer outlived its pass, or fetch_news() returns for maintenance    *)
(* without telling the pass.                                               *)
TimerIgnored ==
  /\ TimerFires
  /\ ~refreshActive \/ (maintenance /\ ~cooldown /\ ~PassOver)
  /\ timers' = timers - 1
  /\ UNCHANGED <<registryVars, refreshActive, pending, idx, refreshInProgress,
                 threadVars, requestVars, startIndex>>

(* Mutant: _refresh_in_progress is not reset.                              *)
FinishPass_KeepsFlag ==
  /\ TimerFires
  /\ refreshActive /\ PassOver
  /\ refreshActive' = FALSE /\ pending' = <<>>
  /\ timers' = timers - 1
  /\ UNCHANGED <<registryVars, idx, refreshInProgress, threadVars, requestVars,
                 startIndex>>

(* _finish_sequential_refresh()                                            *)
FinishPass ==
  /\ TimerFires
  /\ refreshActive /\ PassOver
  /\ refreshActive' = FALSE /\ pending' = <<>> /\ refreshInProgress' = FALSE
  /\ timers' = timers - 1
  /\ UNCHANGED <<registryVars, idx, threadVars, requestVars, startIndex>>

(* The next tab's turn; during a cooldown the timer is only set again.     *)
ProcessNext ==
  /\ TimerFires
  /\ refreshActive /\ ~PassOver /\ ~cooldown /\ ~maintenance
  /\ FetchNext(pending, idx + 1, timers - 1)
  /\ UNCHANGED <<refreshActive, pending, refreshInProgress>>

(* Mutant: the next tab's timer is not set.                                *)
Advance_NoTimer ==
  /\ idx' = IF refreshActive THEN idx + 1 ELSE idx
  /\ UNCHANGED <<refreshActive, pending, timers, refreshInProgress>>

(* _on_sequential_fetch_done()                                             *)
Advance ==
  /\ idx' = IF refreshActive THEN idx + 1 ELSE idx
  /\ timers' = IF refreshActive THEN timers + 1 ELSE timers
  /\ UNCHANGED <<refreshActive, pending, refreshInProgress>>

-----------------------------------------------------------------------------
(* Signals of a worker, handled by the GUI thread.                         *)

(* A disconnected signal is dropped, which is the same as handling it and  *)
(* finding the request no longer active.                                   *)
IgnoreStale(r) ==
  /\ mail[r] # NoMail /\ ~IsActive(reqTab[r], r)
  /\ mail' = [mail EXCEPT ![r] = NoMail]
  /\ UNCHANGED <<registryVars, uiVars, limitVars, passVars, threadVars,
                 requestVars, pageVars, applied, maintenance>>

Receive(r, kinds) ==
  /\ mail[r] \in kinds /\ IsActive(reqTab[r], r)
  /\ mail' = [mail EXCEPT ![r] = NoMail]
  /\ applied' = applied \cup {r}
  /\ IF r \in sequential THEN Advance ELSE UNCHANGED passVars
  /\ UNCHANGED <<registryVars, tabs, credentials, threadVars, requestVars,
                 maintenance>>

OnFetchDone(r) ==
  /\ Receive(r, {"done"})
  /\ cursor' = IF startIndex[r] > 0
               THEN [cursor EXCEPT ![reqTab[r]] = startIndex[r]] ELSE cursor
  /\ netErrors' = 0
  /\ UNCHANGED <<dialogs, cooldown, startIndex>>

CountError(isNetwork) ==
  netErrors' = IF ~isNetwork THEN 0
               ELSE IF netErrors < MaxNetworkErrors THEN netErrors + 1 ELSE netErrors

(* Outside a pass the handler stops at a modal dialog, whose event loop    *)
(* runs the other handlers; it counts the error when the dialog is closed. *)
OnFetchError(r) ==
  LET isNetwork == mail[r] = "network"
  IN  /\ Receive(r, ErrorKind)
      /\ startIndex' = Forget({r})
      /\ cooldown' = (cooldown \/ mail[r] = "rate_limit")
      /\ IF r \in sequential
         THEN CountError(isNetwork) /\ UNCHANGED dialogs
         ELSE dialogs' = <<isNetwork>> \o dialogs /\ UNCHANGED netErrors
      /\ UNCHANGED cursor

DismissErrorDialog ==
  /\ dialogs # <<>>
  /\ CountError(Head(dialogs))
  /\ dialogs' = Tail(dialogs)
  /\ UNCHANGED <<registryVars, tabs, credentials, cooldown, passVars, threadVars,
                 requestVars, pageVars, mail, applied, maintenance>>

(* The thread's finished signal: cleanup_worker(only_if_active=False).     *)
OnThreadFinished(r) ==
  LET R == {r} \cap Registered
  IN  /\ phase[r] = "dead" /\ mail[r] = NoMail
      /\ phase' = [phase EXCEPT ![r] = "gone"]
      /\ stopped' = stopped \cup {r}
      /\ Pop(R)
      /\ startIndex' = Forget(R)
      /\ UNCHANGED <<uiVars, limitVars, passVars, requestVars, cursor, mail,
                     applied, maintenance>>

(* Time passes _fetch_cooldown_until.                                      *)
CooldownExpires ==
  /\ cooldown
  /\ cooldown' = FALSE
  /\ UNCHANGED <<registryVars, uiVars, netErrors, passVars, threadVars,
                 requestVars, pageVars, mail, applied, maintenance>>

-----------------------------------------------------------------------------
(* Database maintenance.                                                   *)

(* Mutant: a worker that outlasts the wait does not refuse maintenance.    *)
AllQuiet_Forced(ended, othersDone) == othersDone

(* Nothing is left in unfinished_keywords.                                 *)
AllQuiet(ended, othersDone) == ended = Registered /\ othersDone

(* begin_database_maintenance() and _cancel_active_fetch_workers(), from a *)
(* menu or from the cloud sync timer.  The running pass is given up even   *)
(* when maintenance is then refused.  othersDone: the export and the tabs' *)
(* loaders stopped in time.                                                *)
BeginMaintenance ==
  /\ "maintenance" \in Ops
  /\ ~maintenance
  /\ refreshActive' = FALSE /\ refreshInProgress' = FALSE
  /\ pending' = IF refreshActive THEN <<>> ELSE pending
  /\ idx' = IF refreshActive THEN 0 ELSE idx
  /\ \E ended \in SUBSET Registered, othersDone \in BOOLEAN :
       /\ Cleanup(Registered, ended)
       /\ Pop(ended)
       /\ startIndex' = Forget(ended)
       /\ maintenance' = AllQuiet(ended, othersDone)
  /\ UNCHANGED <<uiVars, limitVars, timers, requestVars, cursor, mail, applied>>

EndMaintenance ==
  /\ maintenance
  /\ maintenance' = FALSE
  /\ UNCHANGED <<registryVars, uiVars, limitVars, passVars, threadVars,
                 requestVars, pageVars, mail, applied>>

-----------------------------------------------------------------------------
(* ApiWorker.run(), on the request's own thread.  stop() is noticed at     *)
(* checks between its steps; the database write is not interruptible.      *)

WorkerStep(r, from, to) ==
  /\ phase[r] = from
  /\ phase' = [phase EXCEPT ![r] = to]
  /\ UNCHANGED <<registryVars, uiVars, limitVars, passVars, stopped, requestVars,
                 pageVars, applied, maintenance>>

BeginWrite(r) ==
  /\ r \notin stopped
  /\ WorkerStep(r, "net", "db")
  /\ UNCHANGED mail

FinishWrite(r) ==
  /\ WorkerStep(r, "db", "over")
  /\ mail' = IF r \in stopped THEN mail ELSE [mail EXCEPT ![r] = "done"]

FailFetch(r, kind) ==
  /\ r \notin stopped
  /\ WorkerStep(r, "net", "over") \/ (kind = "error" /\ WorkerStep(r, "db", "over"))
  /\ mail' = [mail EXCEPT ![r] = kind]

NoticeStop(r) ==
  /\ r \in stopped
  /\ WorkerStep(r, "net", "over")
  /\ UNCHANGED mail

(* Mutant: cleanup_worker() does not call thread.quit().                   *)
QuitCalled_OnOutcome(r) == r \notin stopped /\ mail[r] = NoMail

(* The GUI thread has called thread.quit(): after it handled the outcome,  *)
(* or in a cleanup.                                                        *)
QuitCalled(r) == r \in stopped \/ mail[r] = NoMail

ThreadExit(r) ==
  /\ QuitCalled(r)
  /\ WorkerStep(r, "over", "dead")
  /\ UNCHANGED mail

-----------------------------------------------------------------------------
Init ==
  /\ RegistryInit
  /\ tabs \in SUBSET Keyword /\ dialogs = <<>> /\ credentials \in BOOLEAN
  /\ cooldown = FALSE /\ netErrors = 0
  /\ refreshActive = FALSE /\ pending = <<>> /\ idx = 0 /\ timers = 0
  /\ refreshInProgress = FALSE
  /\ phase = [r \in Request |-> "idle"] /\ stopped = {}
  /\ requestSeq = 0 /\ reqTab = [r \in Request |-> NoKeyword] /\ sequential = {}
  /\ startIndex = [r \in Request |-> 0] /\ cursor = [k \in Keyword |-> 0]
  /\ mail = [r \in Request |-> NoMail]
  /\ applied = {}
  /\ maintenance = FALSE

UserStep ==
  \/ \E k \in Keyword : \/ AddTab(k) \/ CloseTab(k) \/ RefreshTab(k)
                        \/ LoadMore(k) \/ ResetCursor(k)
  \/ \E k, n \in Keyword : RenameTab(k, n)
  \/ \E list \in TabLists : RefreshAll(list)
  \/ ChangeCredentials
  \/ DismissErrorDialog

TimerStep ==
  \/ \E list \in TabLists : AutoTick(list)
  \/ AutoTickIdle
  \/ TimerIgnored \/ FinishPass \/ ProcessNext
  \/ CooldownExpires

SignalStep(r) ==
  IgnoreStale(r) \/ OnFetchDone(r) \/ OnFetchError(r) \/ OnThreadFinished(r)

ThreadStep(r) ==
  \/ BeginWrite(r) \/ FinishWrite(r) \/ NoticeStop(r) \/ ThreadExit(r)
  \/ \E kind \in Failures : FailFetch(r, kind)

Next ==
  \/ UserStep
  \/ TimerStep
  \/ \E r \in Request : SignalStep(r) \/ ThreadStep(r)
  \/ BeginMaintenance \/ EndMaintenance

Spec == Init /\ [][Next]_vars

(* The event loop delivers every queued signal and every due timer, time   *)
(* passes, and the workers run.  Nothing obliges the user to act, nor the  *)
(* refresh timer (it may be off), nor a maintenance task to end.           *)
Fairness ==
  /\ WF_vars(TimerIgnored \/ FinishPass \/ ProcessNext)
  /\ WF_vars(CooldownExpires)
  /\ \A r \in Request : WF_vars(SignalStep(r)) /\ WF_vars(ThreadStep(r))

FairSpec == Spec /\ Fairness

-----------------------------------------------------------------------------
(* Every variable keeps its type.                                          *)
TypeOK ==
  /\ RegistryTypeOK
  /\ tabs \subseteq Keyword /\ dialogs \in Seq(BOOLEAN) /\ credentials \in BOOLEAN
  /\ cooldown \in BOOLEAN /\ netErrors \in 0 .. MaxNetworkErrors
  /\ refreshActive \in BOOLEAN /\ pending \in Seq(Keyword)
  /\ idx \in Nat /\ timers \in Nat /\ refreshInProgress \in BOOLEAN
  /\ phase \in [Request -> Phase] /\ stopped \subseteq Request
  /\ requestSeq \in 0 .. MaxRequests
  /\ reqTab \in [Request -> Keyword \cup {NoKeyword}] /\ sequential \subseteq Request
  /\ startIndex \in [Request -> 0 .. PageLimit]
  /\ cursor \in [Keyword -> 0 .. PageLimit]
  /\ mail \in [Request -> {NoMail, "done"} \cup ErrorKind]
  /\ applied \subseteq Request
  /\ maintenance \in BOOLEAN

(* The two dictionaries of the registry name each other: a tab's active    *)
(* request is registered for that tab, and every registered request is the *)
(* active one of the tab its callbacks were made for.  Otherwise a worker  *)
(* would be left that no later fetch, close or rename can find.            *)
RegistryConsistent ==
  /\ \A k \in Keyword : active[k] # NoRequest => handles[active[k]] = k
  /\ \A r \in Registered : handles[r] = reqTab[r] /\ IsActive(reqTab[r], r)

(* _request_start_index keeps no entry of a request that is cleaned up.    *)
StartIndexOwned == \A r \in Request : startIndex[r] # 0 => r \in Registered

(* A worker nobody has told to stop is still registered until its thread's *)
(* finished signal is handled: cleanup can always reach it.                *)
LiveIsRegistered ==
  \A r \in Request \ stopped :
    phase[r] \in {"net", "db", "over", "dead"} => r \in Registered

(* fetch_news() never leaves two workers of one tab at work: the one that  *)
(* is replaced has at least been told to stop.                             *)
OneLiveWorkerPerTab ==
  \A q, r \in Request \ stopped :
    Busy(q) /\ Busy(r) /\ reqTab[q] = reqTab[r] => q = r

(* Maintenance begins only when no fetch is registered, and none that is   *)
(* still talking to the API can start to write: it has been told to stop.  *)
MaintenanceQuiesced ==
  maintenance => /\ Registered = {}
                 /\ \A r \in Request : phase[r] = "net" => r \in stopped

(* The two flags that guard the sequential refresh agree, and maintenance  *)
(* never runs beside a pass.                                               *)
RefreshFlagsAgree ==
  /\ refreshInProgress => refreshActive
  /\ maintenance => ~refreshActive

(* A callback changes the tab only for the newest request issued for it:   *)
(* an outcome that arrives late is never applied over a newer request.     *)
OutcomesInOrder ==
  [][\A r \in applied' \ applied, q \in Request :
       q > r => reqTab[q] # reqTab[r]]_vars

(* The paging cursor of a tab moves to the next page, back to the first,   *)
(* or to none; no page is skipped by a fetch that was overtaken.           *)
CursorContiguous ==
  [][\A k \in Keyword :
       cursor'[k] \in {cursor[k], 0, 1, NextPage(cursor[k])}]_vars

(* Sequential fetches whose outcome will still reach the pass.             *)
InFlight ==
  {r \in (sequential \cap Registered) \ stopped : Busy(r) \/ mail[r] # NoMail}

(* A pass has one thread of control: one timer, or one fetch whose outcome *)
(* sets the next timer; without a pass there is neither.                   *)
SingleChain ==
  timers + Cardinality(InFlight) <= IF refreshActive THEN 1 ELSE 0

(* The tab whose fetch the pass waits for.                                 *)
FetchedTab ==
  IF InFlight = {} THEN NoKeyword ELSE reqTab[CHOOSE r \in InFlight : TRUE]

Pass == INSTANCE SequentialRefresh
          WITH running <- refreshActive, queue <- pending, settled <- idx,
               fetching <- FetchedTab, armed <- timers > 0

(* While no maintenance interferes, the timers and callbacks of the pass   *)
(* together fetch the listed tabs one by one, in order, as                 *)
(* SequentialRefresh promises.                                             *)
ImplementsSequentialRefresh == Pass!Spec

(* No fetch is writing to the database while maintenance runs.             *)
MaintenanceBarrier == maintenance => \A r \in Request : phase[r] # "db"

(* Every pass comes to an end, so that the next refresh is not refused.    *)
SequentialTerminates == refreshActive ~> ~refreshActive

(* Every registered worker is eventually cleaned up.                       *)
EveryWorkerReaped == \A r \in Request : r \in Registered ~> r \notin Registered
=============================================================================
