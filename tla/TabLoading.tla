------------------------------ MODULE TabLoading ------------------------------
(***************************************************************************)
(* How the tabs of the main window are filled from the database            *)
(* (ui/news_tab_support/loading_support, core/workers_support/db_worker,   *)
(* ui/main_window_support/base_support/tab_hydration): every load of a tab *)
(* is a DBWorker thread known by a request id; the first load of a tab,    *)
(* its hydration, waits in a queue of the main window that is served one   *)
(* tab at a time and rests during fetches and database maintenance.        *)
(*                                                                         *)
(* A tab is one record, a helper of NewsTab is an operator on that record. *)
(* Rows are counted in pages of PAGE_SIZE: `page p of scope s' stands for  *)
(* the rows that query s returns there.                                    *)
(***************************************************************************)
EXTENDS Naturals, Sequences, SequencesExt

CONSTANTS
  Tabs, NoTab,          \* the news tabs; the bookmark tab or no tab
  Requests, NoRequest,  \* request ids of a tab; they are only compared
  Scopes, NoScope,      \* what the filters, sort and date controls select
  PageCount,            \* pages the database holds for each scope
  InitialTabs,          \* tabs restored from the configuration
  Ops,                  \* which events of the environment may occur
  MaxMoves              \* bound on their number

EventKinds == {"switch", "add", "close", "rename", "fetch", "reload",
               "maintenance", "sync", "filter", "append", "error", "callback"}

ASSUME TabLoadingAssumption ==
  /\ NoTab \notin Tabs /\ NoRequest \notin Requests /\ NoScope \notin Scopes
  /\ PageCount \in [Scopes -> Nat]
  /\ InitialTabs \subseteq Tabs /\ Ops \subseteq EventKinds /\ MaxMoves \in Nat

\* Only finitely many tabs are ever opened.
ASSUME TabsAreFinite == IsFiniteSet(Tabs)

VARIABLES
  open, current,  \* tabs in the tab bar and the one in front
  tab,            \* the NewsTab objects
  hydration,      \* _tab_hydration_queue, _hydration_inflight_keyword, _hydration_timer;
                  \* missed, history: a fetch ended for good and nobody looked since
  fetching,       \* a fetch or a sequential refresh is going on
  maintenance,    \* _maintenance_mode
  moves,          \* events the environment has left
  unattended      \* history: an event was not followed by a look at the queue

vars == <<open, current, tab, hydration, fetching, maintenance, moves, unattended>>

-----------------------------------------------------------------------------
(* One tab: its worker threads.                                            *)

\* signed: _request_scope_signatures still knows what the request asked for.
Idle == [state |-> "none", mail |-> "none", stopped |-> FALSE, signed |-> FALSE,
         scope |-> NoScope, page |-> 0, total |-> 0]

JobType == [state : {"none", "running", "emitted"}, mail : {"none", "data", "error"},
            stopped : BOOLEAN, signed : BOOLEAN, scope : Scopes \cup {NoScope}, page : Nat, total : Nat]

TabType == [completed : BOOLEAN, inflight : BOOLEAN, more : BOOLEAN,
            newest : Requests \cup {NoRequest}, worker : Requests \cup {NoRequest},
            initial : Requests \cup {NoRequest},
            cancelled : SUBSET Requests, appends : SUBSET Requests,
            jobs : [Requests -> JobType],
            scope : Scopes, filterTimer : BOOLEAN,
            rows : Seq((Scopes \cup {NoScope}) \X Nat), rowsScope : Scopes \cup {NoScope},
            mislabelled : BOOLEAN,  \* history: rows that came without a signature
            offset : Nat, total : Nat]

(* NewsTab.__init__ with defer_initial_load: nothing is loaded yet.         *)
NewTab(s) ==
  [completed |-> FALSE, inflight |-> FALSE, more |-> FALSE,
   newest |-> NoRequest, worker |-> NoRequest, initial |-> NoRequest,
   cancelled |-> {}, appends |-> {}, jobs |-> [r \in Requests |-> Idle],
   scope |-> s, filterTimer |-> FALSE, rows |-> <<>>, rowsScope |-> NoScope,
   mislabelled |-> FALSE, offset |-> 0, total |-> 0]

(* QThread.isRunning of the tab's present worker.                           *)
Running(v) == v.worker \in Requests /\ v.jobs[v.worker].state # "none"

Settled(job) == IF job.state = "none" /\ job.mail = "none" THEN Idle ELSE job

(* Ids that no signal can carry any more are forgotten and may be used      *)
(* again. The program keeps them in its sets, where nothing looks them up.  *)
Forget(v) ==
  LET live == {r \in Requests : v.jobs[r] # Idle}
  IN  [v EXCEPT !.cancelled = @ \cap live, !.appends = @ \cap live]

Used(v) == {v.newest, v.worker, v.initial} \cup v.cancelled \cup v.appends
             \cup {r \in Requests : v.jobs[r] # Idle}

CanRequest(v) == \E r \in Requests : r \notin Used(v)
NewRequest(v) == CHOOSE r \in Requests : r \notin Used(v)

(* DBWorker.stop and a wait that the thread meets or not. Before that its   *)
(* signals are disconnected, which discards what is queued, except when a   *)
(* hydration is cancelled.                                                  *)
StopJob(job, inTime, detach) ==
  Settled([job EXCEPT !.stopped = TRUE,
                      !.state = IF inTime THEN "none" ELSE @,
                      !.mail = IF detach THEN "none" ELSE @])

Superseded(v, inTime) ==
  [v EXCEPT !.jobs[v.worker] = StopJob(@, inTime, TRUE),
            !.inflight = @ /\ ~inTime,
            !.cancelled = @ \ {v.newest},
            !.initial = IF @ = v.newest THEN NoRequest ELSE @]

(* load_data_from_db past its guards; the blocked call changes nothing.     *)
Load(v, append, inTime) ==
  LET u     == IF Running(v) THEN Superseded(v, inTime) ELSE v
      rid   == NewRequest(v)
      first == ~append /\ ~v.completed
  IN  IF append /\ u.more THEN u
      ELSE [u EXCEPT
              !.newest = rid, !.worker = rid,
              !.offset = IF append THEN @ ELSE 0,
              !.more = append,
              !.inflight = @ \/ first,
              !.initial = IF first THEN rid ELSE @,
              !.cancelled = IF first THEN @ \ {rid} ELSE @,
              !.appends = IF append THEN @ \cup {rid} ELSE {},
              !.jobs[rid] = [state |-> "running", mail |-> "none",
                             stopped |-> FALSE, signed |-> TRUE, scope |-> v.scope,
                             page |-> 1 + IF append THEN v.offset ELSE 0,
                             total |-> IF append THEN v.total ELSE PageCount[v.scope]]]

(* The signature and the append of a request are forgotten; what it asked   *)
(* for stays the same.                                                      *)
Unsign(v, r) == [v EXCEPT !.jobs[r].signed = FALSE, !.appends = @ \ {r}]

(* _finalize_cancelled_initial_request for a cancelled id. An answer that   *)
(* waits already is not taken back, and is no longer known as cancelled.    *)
Finalize(v, r) ==
  [Unsign(v, r) EXCEPT !.cancelled = @ \ {r},
                       !.initial = IF @ = r THEN NoRequest ELSE @,
                       !.inflight = FALSE, !.more = FALSE]

(* Mutant: the tab still says that its load is in flight.                   *)
CancelInitial_StaysInflight(v, inTime) ==
  LET r == v.initial
      u == [v EXCEPT !.cancelled = @ \cup {r}, !.initial = NoRequest]
  IN  IF ~v.inflight \/ r = NoRequest THEN v
      ELSE IF ~Running(v) THEN Finalize(u, r)
      ELSE LET s == [u EXCEPT !.jobs[v.worker] = StopJob(@, inTime, FALSE)]
           IN  IF inTime THEN Finalize(s, r) ELSE Unsign(s, r)

(* cancel_initial_hydration. Its result is whether the worker has ended.    *)
CancelInitial(v, inTime) ==
  LET r == v.initial
      u == [v EXCEPT !.cancelled = @ \cup {r}, !.inflight = FALSE, !.initial = NoRequest]
  IN  IF ~v.inflight \/ r = NoRequest THEN v
      ELSE IF ~Running(v) THEN Finalize(u, r)
      ELSE LET s == [u EXCEPT !.jobs[v.worker] = StopJob(@, inTime, FALSE)]
           IN  IF inTime THEN Finalize(s, r) ELSE Unsign(s, r)

(* cancel_background_tasks_for_maintenance.                                 *)
CancelForMaintenance(v, inTime) ==
  LET u == IF ~Running(v) THEN v
           ELSE IF v.inflight /\ v.initial # NoRequest THEN CancelInitial(v, inTime)
           ELSE [v EXCEPT !.jobs[v.worker] = StopJob(@, inTime, TRUE),
                          !.inflight = @ /\ ~inTime]
  IN  [u EXCEPT !.more = FALSE, !.appends = {}]

-----------------------------------------------------------------------------
(* One tab: the answers.                                                   *)

PageOf(s, p) == IF p <= PageCount[s] THEN <<<<s, p>>>> ELSE <<>>

(* What the rows of an answer are taken for: what the tab selects by now,   *)
(* if the signature is gone.                                                *)
Label(v, r) == IF v.jobs[r].signed THEN v.jobs[r].scope ELSE v.scope

(* Mutant: an append is not compared with the scope of the rows.            *)
Shown_IgnoresScope(v, r) ==
  LET job    == v.jobs[r]
      append == r \in v.appends
      page   == PageOf(job.scope, job.page)
      rows   == IF append THEN v.rows \o page ELSE page
  IN  [v EXCEPT !.appends = @ \ {r}, !.rows = rows, !.offset = Len(rows),
                !.total = job.total, !.rowsScope = Label(v, r), !.more = FALSE,
                !.mislabelled = (append /\ @) \/ Label(v, r) # job.scope,
                !.initial = IF append THEN @ ELSE NoRequest,
                !.completed = @ \/ ~append,
                !.inflight = @ /\ append]

(* on_data_loaded for the newest request.                                   *)
Shown(v, r) ==
  LET job    == v.jobs[r]
      append == r \in v.appends
      joins  == append /\ Label(v, r) = v.rowsScope
      page   == PageOf(job.scope, job.page)
      rows   == IF joins THEN v.rows \o page ELSE page
  IN  [v EXCEPT !.appends = @ \ {r}, !.rows = rows, !.offset = Len(rows),
                !.total = job.total, !.rowsScope = Label(v, r), !.more = FALSE,
                !.mislabelled = (joins /\ @) \/ Label(v, r) # job.scope,
                !.initial = IF append THEN @ ELSE NoRequest,
                !.completed = @ \/ ~append,
                !.inflight = @ /\ append]

(* on_data_error and _handle_db_worker_callback_failure, newest request.    *)
Failed(v, r) ==
  [v EXCEPT !.appends = @ \ {r}, !.more = FALSE, !.initial = NoRequest, !.inflight = FALSE]

(* What a signal of request r does before its kind matters: a cancelled     *)
(* request is finalized, one that is not the newest is dropped.             *)
Ignored(v, r) == r \in v.cancelled \/ r # v.newest
Drop(v, r) == IF r \in v.cancelled THEN Finalize(v, r) ELSE v

Received(v, r) == Forget([v EXCEPT !.jobs[r] = Settled([@ EXCEPT !.mail = "none"])])

(* The thread of request r is over.                                         *)
Ended(v, r) == Forget([v EXCEPT !.jobs[r] = Settled([@ EXCEPT !.state = "none"])])

(* An answer to request r of v is under way.                                *)
Coming(v, r) ==
  /\ r \in Requests
  /\ \/ v.jobs[r].state = "running" /\ ~v.jobs[r].stopped
     \/ v.jobs[r].mail # "none"

-----------------------------------------------------------------------------
(* The queue of the main window.                                           *)

(* The tabs of a queue that are in K, in their order.                       *)
Kept(queue, K) ==
  LET upTo[i \in 0 .. Len(queue)] ==
        IF i = 0 THEN <<>>
        ELSE IF queue[i] \in K THEN Append(upTo[i - 1], queue[i]) ELSE upTo[i - 1]
  IN  upTo[Len(queue)]

Without(queue, t) == Kept(queue, Tabs \ {t})

Needs(t) == ~tab[t].completed
Paused == maintenance \/ fetching

(* Mutant: the tab being served stays there.                                *)
RemoveHydration_KeepsInflight(h, t) == [h EXCEPT !.queue = Without(@, t)]

(* _remove_tab_hydration.                                                   *)
RemoveHydration(h, t) ==
  [h EXCEPT !.queue = Without(@, t), !.inflight = IF @ = t THEN NoTab ELSE @]

(* _schedule_tab_hydration.                                                 *)
Schedule(h, paused) ==
  IF h.inflight # NoTab \/ paused THEN h ELSE [h EXCEPT !.timer = TRUE, !.missed = FALSE]

(* The fetch of a tab that is closed or renamed is stopped; still: fetches  *)
(* go on. The last one that ends in time makes the queue be looked at; one  *)
(* that outlasts its wait is detached, nobody looks, and its late end finds *)
(* no worker to clean up.                                                   *)
Unscheduled(h, paused) ==
  IF h.inflight # NoTab \/ paused \/ h.timer THEN h ELSE [h EXCEPT !.missed = TRUE]

FetchStopped(still) ==
  IF still = fetching THEN {hydration}
  ELSE {Schedule(hydration, maintenance), Unscheduled(hydration, maintenance)}

(* Mutant: the tab's former place in the queue is kept.                     *)
Enqueue_KeepsOld(h, t, prioritize, paused) ==
  LET q    == IF h.inflight = t THEN h.queue
              ELSE IF prioritize THEN <<t>> \o h.queue ELSE Append(h.queue, t)
  IN  Schedule([h EXCEPT !.queue = q], paused)

(* _enqueue_tab_hydration for an open tab that needs its first load.        *)
Enqueue(h, t, prioritize, paused) ==
  LET rest == Without(h.queue, t)
      q    == IF h.inflight = t THEN rest
              ELSE IF prioritize THEN <<t>> \o rest ELSE Append(rest, t)
  IN  Schedule([h EXCEPT !.queue = q], paused)

(* _on_current_tab_changed when u comes to the front: if u needs its first  *)
(* load, that of another tab is cancelled and put back into the queue.      *)
Interrupts(u) ==
  u \in Tabs /\ Needs(u) /\ hydration.inflight \notin {NoTab, u}

(* Mutant: the cancelled tab is not put back.                               *)
AfterChange_NoRequeue(h, u, remaining, paused) ==
  LET idle == [h EXCEPT !.inflight = NoTab]
  IN  IF u \notin Tabs \/ ~Needs(u) THEN Schedule(h, paused)
      ELSE Enqueue(IF Interrupts(u) THEN idle ELSE h, u, TRUE, paused)

AfterChange(h, u, remaining, paused) ==
  LET other == h.inflight
      idle  == [h EXCEPT !.inflight = NoTab]
      back  == IF other \in remaining /\ Needs(other) THEN Enqueue(idle, other, FALSE, paused) ELSE idle
  IN  IF u \notin Tabs \/ ~Needs(u) THEN Schedule(h, paused)
      ELSE Enqueue(IF Interrupts(u) THEN back ELSE h, u, TRUE, paused)

-----------------------------------------------------------------------------
Event(kind) == kind \in Ops /\ moves > 0 /\ moves' = moves - 1
Quietly == UNCHANGED <<moves, unattended>>

(* The user brings u to the front.                                          *)
SwitchTab(u) ==
  /\ Event("switch") /\ u \in open \cup {NoTab} /\ u # current
  /\ current' = u
  /\ hydration' = AfterChange(hydration, u, open, Paused)
  /\ \E inTime \in BOOLEAN :
       tab' = IF Interrupts(u) /\ hydration.inflight \in open
              THEN [tab EXCEPT ![hydration.inflight] = CancelInitial(@, inTime)]
              ELSE tab
  /\ UNCHANGED <<open, fetching, maintenance, unattended>>

(* add_news_tab, after which the dialog starts a fetch unless refused.      *)
AddTab(t) ==
  /\ Event("add") /\ t \in Tabs \ open
  /\ open' = open \cup {t}
  /\ \E s \in Scopes : tab' = [tab EXCEPT ![t] = NewTab(s)]
  /\ hydration' = Enqueue(hydration, t, FALSE, Paused)
  /\ fetching' \in {fetching, ~maintenance}
  /\ UNCHANGED <<current, maintenance, unattended>>

(* close_tab: its fetch is stopped first. The object's signals are          *)
(* disconnected by cleanup; a thread that outlasts the wait touches nothing *)
(* any more. Another tab comes to the front before _remove_tab_hydration.   *)
CloseTab(t) ==
  /\ Event("close") /\ t \in open
  /\ open' = open \ {t}
  /\ fetching' \in {fetching, FALSE}
  /\ \E u \in IF t = current THEN (open \ {t}) \cup {NoTab} ELSE {current} :
       /\ current' = u
       /\ \E h \in FetchStopped(fetching') :
            hydration' = RemoveHydration(
              IF t = current THEN AfterChange(h, u, open \ {t}, maintenance \/ fetching') ELSE h, t)
       /\ \E inTime \in BOOLEAN :
            tab' = [x \in Tabs |->
                      IF x = t THEN NewTab(tab[t].scope)
                      ELSE IF t = current /\ Interrupts(u) /\ x = hydration.inflight
                      THEN CancelInitial(tab[x], inTime) ELSE tab[x]]
  /\ unattended' = (unattended \/ hydration.inflight = t)
  /\ UNCHANGED maintenance

(* rename_tab: the fetch of the old keyword is stopped first; the rows of   *)
(* the new one are read and, unless refused, it is fetched.                 *)
RenameTab(t) ==
  /\ Event("rename") /\ t \in open
  /\ \E s \in Scopes, inTime \in BOOLEAN :
       LET v == [tab[t] EXCEPT !.scope = s]
       IN  /\ CanRequest(v)
           /\ tab' = [tab EXCEPT ![t] = IF maintenance THEN v ELSE Load(v, FALSE, inTime)]
  /\ \E still \in {fetching, FALSE} :
       /\ \E g \in FetchStopped(still) :
            LET h == RemoveHydration(g, t)
            IN  hydration' = IF Needs(t) THEN Enqueue(h, t, t = current, maintenance \/ still)
                             ELSE h
       /\ fetching' \in {still, ~maintenance}
  /\ UNCHANGED <<open, current, maintenance, unattended>>

(* load_data_from_db after a fetch, a change of an article, a new rule...   *)
ReloadTab(t) ==
  /\ Event("reload") /\ t \in open /\ ~maintenance /\ CanRequest(tab[t])
  /\ \E inTime \in BOOLEAN : tab' = [tab EXCEPT ![t] = Load(@, FALSE, inTime)]
  /\ UNCHANGED <<open, current, hydration, fetching, maintenance, unattended>>

(* _on_filter_changed and _on_tag_filter_changed: the debounce timer.       *)
TypeFilter(t, s) ==
  /\ Event("filter") /\ t = current /\ ~maintenance /\ s # tab[t].scope
  /\ tab' = [tab EXCEPT ![t] = [@ EXCEPT !.scope = s, !.filterTimer = TRUE]]
  /\ UNCHANGED <<open, current, hydration, fetching, maintenance, unattended>>

(* The other controls reload at once.                                       *)
ChangeScope(t, s) ==
  /\ Event("filter") /\ t = current /\ ~maintenance /\ s # tab[t].scope
  /\ CanRequest(tab[t])
  /\ \E inTime \in BOOLEAN :
       tab' = [tab EXCEPT ![t] = Load([@ EXCEPT !.scope = s], FALSE, inTime)]
  /\ UNCHANGED <<open, current, hydration, fetching, maintenance, unattended>>

(* append_items.                                                            *)
AppendItems(t) ==
  /\ Event("append") /\ t = current /\ ~maintenance /\ CanRequest(tab[t])
  /\ ~tab[t].more /\ Len(tab[t].rows) < tab[t].total
  /\ \E inTime \in BOOLEAN : tab' = [tab EXCEPT ![t] = Load(@, TRUE, inTime)]
  /\ UNCHANGED <<open, current, hydration, fetching, maintenance, unattended>>

(* A fetch pauses hydration; the cleanup of its worker, or the end of the   *)
(* pass it belongs to, schedules it again. The end that comes without that  *)
(* is FetchStopped.                                                         *)
FetchStarts ==
  /\ Event("fetch") /\ ~maintenance /\ ~fetching
  /\ fetching' = TRUE
  /\ UNCHANGED <<open, current, tab, hydration, maintenance, unattended>>

(* Mutant: nothing is scheduled.                                            *)
FetchEnds_NoSchedule ==
  /\ fetching
  /\ fetching' = FALSE
  /\ UNCHANGED <<open, current, tab, hydration, maintenance>> /\ Quietly

FetchEnds ==
  /\ fetching
  /\ fetching' = FALSE
  /\ hydration' = Schedule(hydration, maintenance)
  /\ UNCHANGED <<open, current, tab, maintenance>> /\ Quietly

(* begin_database_maintenance: fetches and every tab's work are cancelled;  *)
(* if a thread outlasts its wait (stuck: a fetch's) maintenance is refused, *)
(* but what was cancelled stays cancelled. So it does when an export is     *)
(* what does not stop, and when an update stops everything to be installed  *)
(* and is given up. Cleaning a fetch worker up starts the hydration timer,  *)
(* ending a pass between two fetches does not.                              *)
BeginMaintenance ==
  /\ Event("maintenance") /\ ~maintenance
  /\ \E stuck \in {FALSE, fetching}, refused \in BOOLEAN, inTime \in [Tabs -> BOOLEAN] :
       LET slow == stuck \/ \E t \in open : Running(tab[t]) /\ ~inTime[t]
       IN  /\ slow => refused
           /\ tab' = [t \in Tabs |->
                        IF t \notin open THEN tab[t]
                        ELSE LET v == CancelForMaintenance(tab[t], inTime[t])
                             IN  [v EXCEPT !.filterTimer = @ /\ refused]]
           /\ maintenance' = ~refused
           /\ fetching' = stuck
           /\ unattended' = (unattended \/ refused \/ hydration.inflight # NoTab)
  /\ \E h \in {hydration} \cup (IF fetching THEN {Schedule(hydration, fetching')} ELSE {}) :
       hydration' = [h EXCEPT !.inflight = NoTab]
  /\ UNCHANGED <<open, current>>

EndMaintenance ==
  /\ maintenance
  /\ maintenance' = FALSE
  /\ hydration' = Schedule(hydration, fetching)
  /\ UNCHANGED <<open, current, tab, fetching>> /\ Quietly

(* on_database_maintenance_completed: loaded tabs are loaded again, the     *)
(* others are put at the end of the queue in the order of the tab bar.      *)
SyncTabs ==
  LET waiting == {t \in open : Needs(t)}
      h == [hydration EXCEPT !.queue =
              Kept(@, Tabs \ waiting) \o Kept(SetToSeq(Tabs), waiting \ {hydration.inflight})]
  IN  /\ Event("sync") /\ ~maintenance
      /\ \A t \in open \ waiting : CanRequest(tab[t])
      /\ \E inTime \in [Tabs -> BOOLEAN] :
           tab' = [t \in Tabs |-> IF t \in open \ waiting
                                  THEN Load(tab[t], FALSE, inTime[t]) ELSE tab[t]]
      /\ hydration' = Schedule(h, Paused)
      /\ UNCHANGED <<open, current, fetching, maintenance, unattended>>

-----------------------------------------------------------------------------
(* Timers.                                                                 *)

(* apply_filter, when the debounce timer fires.                             *)
FilterTimeout(t) ==
  /\ t \in open /\ tab[t].filterTimer /\ CanRequest(tab[t])
  /\ LET v    == [tab[t] EXCEPT !.filterTimer = FALSE]
         same == v.scope = v.rowsScope /\ v.offset <= 1
     IN  \E inTime \in BOOLEAN :
           tab' = [tab EXCEPT ![t] =
                     IF same \/ maintenance THEN v ELSE Load(v, FALSE, inTime)]
  /\ UNCHANGED <<open, current, hydration, fetching, maintenance>> /\ Quietly

(* _start_tab_hydration: a load that is in flight already is adopted.       *)
Start(v, inTime) == IF v.inflight THEN v ELSE Load(v, FALSE, inTime)

Waits(t) == t \in open /\ Needs(t)

(* _process_tab_hydration: the tab in front is served first, otherwise the  *)
(* first of the queue that is open and needs it; those before it are gone.  *)
Serve(t, rest) ==
  /\ CanRequest(tab[t])
  /\ \E inTime \in BOOLEAN : tab' = [tab EXCEPT ![t] = Start(@, inTime)]
  /\ hydration' = [queue |-> rest, inflight |-> t, timer |-> FALSE, missed |-> FALSE]

ProcessHydration ==
  LET queue == hydration.queue
  IN  /\ hydration.timer
      /\ IF hydration.inflight # NoTab \/ Paused
         THEN hydration' = [hydration EXCEPT !.timer = FALSE] /\ UNCHANGED tab
         ELSE \/ Waits(current) /\ Serve(current, Without(queue, current))
              \/ /\ ~Waits(current)
                 /\ \E i \in DOMAIN queue :
                      /\ Waits(queue[i]) /\ \A j \in 1 .. i - 1 : ~Waits(queue[j])
                      /\ Serve(queue[i], SubSeq(queue, i + 1, Len(queue)))
              \/ /\ ~Waits(current) /\ \A i \in DOMAIN queue : ~Waits(queue[i])
                 /\ hydration' = [queue |-> <<>>, inflight |-> NoTab,
                                   timer |-> FALSE, missed |-> FALSE]
                 /\ UNCHANGED tab
      /\ UNCHANGED <<open, current, fetching, maintenance>> /\ Quietly

-----------------------------------------------------------------------------
(* Signals. Only the newest request's answer counts; when it settles the    *)
(* tab's first load the main window is told and goes on with the queue.     *)

Signal(t, r, kind) ==
  t \in open /\ tab[t].jobs[r].mail = kind

(* Mutant: the main window does not go on with the queue.                   *)
Answered_NoSchedule(t, v) ==
  /\ tab' = [tab EXCEPT ![t] = v]
  /\ hydration' = IF Needs(t) THEN RemoveHydration(hydration, t) ELSE hydration
  /\ UNCHANGED <<open, current, fetching, maintenance>>

Answered(t, v) ==
  /\ tab' = [tab EXCEPT ![t] = v]
  /\ hydration' = IF Needs(t) THEN Schedule(RemoveHydration(hydration, t), Paused)
                  ELSE hydration
  /\ UNCHANGED <<open, current, fetching, maintenance>>

OnDataLoaded(t, r) ==
  /\ Signal(t, r, "data") /\ ~Ignored(tab[t], r)
  /\ Answered(t, Received(Shown(tab[t], r), r))
  /\ Quietly

OnDataError(t, r) ==
  /\ Signal(t, r, "error") /\ ~Ignored(tab[t], r)
  /\ Answered(t, Received(Failed(tab[t], r), r))
  /\ unattended' = (unattended \/ Needs(t))
  /\ UNCHANGED moves

OnIgnored(t, r) ==
  /\ Signal(t, r, "data") \/ Signal(t, r, "error")
  /\ Ignored(tab[t], r)
  /\ tab' = [tab EXCEPT ![t] = Received(Drop(@, r), r)]
  /\ UNCHANGED <<open, current, hydration, fetching, maintenance>> /\ Quietly

(* An exception inside on_data_loaded, before or after the rows are taken   *)
(* over, is caught; neither hydration signal is emitted.                    *)
OnCallbackFailure(t, r) ==
  /\ Event("callback") /\ Signal(t, r, "data") /\ ~Ignored(tab[t], r)
  /\ \E v \in {tab[t], Shown(tab[t], r)} :
       tab' = [tab EXCEPT ![t] = Received(Failed(v, r), r)]
  /\ unattended' = (unattended \/ Needs(t))
  /\ UNCHANGED <<open, current, hydration, fetching, maintenance>>

-----------------------------------------------------------------------------
(* Worker threads. A worker that was told to stop emits nothing: whether    *)
(* its last look at the flag came before stop is the same as whether it     *)
(* emitted before stop, for the signal is only queued.                      *)

Emit(t, r, kind) ==
  /\ tab[t].jobs[r].state = "running" /\ ~tab[t].jobs[r].stopped
  /\ tab' = [tab EXCEPT ![t].jobs[r] = [@ EXCEPT !.state = "emitted", !.mail = kind]]
  /\ UNCHANGED <<open, current, hydration, fetching, maintenance, unattended>>

EmitData(t, r) == Emit(t, r, "data") /\ UNCHANGED moves
EmitError(t, r) == Event("error") /\ Emit(t, r, "error")

EndThread(t, r) ==
  /\ LET job == tab[t].jobs[r]
     IN  job.state = "emitted" \/ (job.state = "running" /\ job.stopped)
  /\ tab' = [tab EXCEPT ![t] = Ended(@, r)]
  /\ UNCHANGED <<open, current, hydration, fetching, maintenance>> /\ Quietly

-----------------------------------------------------------------------------
(* The program after _bootstrap_tab_hydration: the bookmark tab in front,   *)
(* the restored tabs in the queue.                                          *)
Init ==
  /\ open = InitialTabs /\ current = NoTab
  /\ \E s \in Scopes : tab = [t \in Tabs |-> NewTab(s)]
  /\ hydration = [queue |-> SetToSeq(InitialTabs), inflight |-> NoTab,
                  timer |-> TRUE, missed |-> FALSE]
  /\ fetching = FALSE /\ maintenance = FALSE
  /\ moves = MaxMoves /\ unattended = FALSE

User ==
  \/ \E u \in Tabs \cup {NoTab} : SwitchTab(u)
  \/ \E t \in Tabs : AddTab(t) \/ CloseTab(t) \/ RenameTab(t) \/ ReloadTab(t) \/ AppendItems(t)
  \/ \E t \in Tabs, s \in Scopes : TypeFilter(t, s) \/ ChangeScope(t, s)
  \/ FetchStarts \/ BeginMaintenance \/ SyncTabs

Window ==
  \/ FetchEnds \/ EndMaintenance \/ ProcessHydration
  \/ \E t \in Tabs : FilterTimeout(t)
  \/ \E t \in Tabs, r \in Requests :
       OnDataLoaded(t, r) \/ OnDataError(t, r) \/ OnIgnored(t, r) \/ OnCallbackFailure(t, r)

Threads ==
  \E t \in Tabs, r \in Requests : EmitData(t, r) \/ EmitError(t, r) \/ EndThread(t, r)

Next == User \/ Window \/ Threads

Spec == Init /\ [][Next]_vars

(* The event loop delivers timers and signals, fetches end, and a query of  *)
(* a worker thread ends, for the database bounds its waits. Nothing is      *)
(* assumed of the user or of the end of maintenance.                        *)
Fairness ==
  /\ WF_vars(FetchEnds) /\ WF_vars(ProcessHydration)
  /\ \A t \in Tabs : WF_vars(FilterTimeout(t))
  /\ \A t \in Tabs, r \in Requests :
       /\ WF_vars(OnDataLoaded(t, r)) /\ WF_vars(OnDataError(t, r)) /\ WF_vars(OnIgnored(t, r))
       /\ WF_vars(EmitData(t, r)) /\ WF_vars(EndThread(t, r))

FairSpec == Spec /\ Fairness

-----------------------------------------------------------------------------
(* Types; no tab is twice in the queue.                                    *)
TypeOK ==
  /\ open \subseteq Tabs /\ current \in open \cup {NoTab}
  /\ tab \in [Tabs -> TabType]
  /\ hydration \in [queue : Seq(Tabs), inflight : Tabs \cup {NoTab},
                    timer : BOOLEAN, missed : BOOLEAN]
  /\ IsInjective(hydration.queue)
  /\ fetching \in BOOLEAN /\ maintenance \in BOOLEAN
  /\ moves \in 0 .. MaxMoves /\ unattended \in BOOLEAN

(* A tab that says a load is in flight, or that it is loading more, really  *)
(* has an answer coming: otherwise request_initial_hydration, respectively  *)
(* append_items, would refuse for good (lifecycle.py:26, db_loading.py:291).*)
FlagsAreReal ==
  \A t \in Tabs : tab[t].inflight \/ tab[t].more => Coming(tab[t], tab[t].newest)

(* The tab the queue waits for is open and its answer is coming: otherwise  *)
(* _schedule_tab_hydration would return for good. It holds until an         *)
(* exception swallows the hydration signal.                                 *)
HydratingIsLoading ==
  LET t == hydration.inflight
  IN  t # NoTab => t \in open /\ (Coming(tab[t], tab[t].newest) \/ unattended)

(* A tab that still needs its first load is queued or being served, until   *)
(* an event drops it.                                                       *)
NoTabForgotten ==
  \A t \in open : Needs(t) /\ ~unattended =>
    hydration.inflight = t \/ \E i \in DOMAIN hydration.queue : hydration.queue[i] = t

(* A queue that could be served is being served or has its timer running:   *)
(* every pause of _is_tab_hydration_paused ends with a new schedule, except *)
(* when the last fetch ends by the detachment of a worker that outlasts the *)
(* closing or renaming of its tab, and then until the next schedule         *)
(* (completion.py:413-415).                                                 *)
NoLostWakeup ==
  /\ \E i \in DOMAIN hydration.queue : Waits(hydration.queue[i])
  /\ hydration.inflight = NoTab /\ ~Paused /\ ~unattended /\ ~hydration.missed
  => hydration.timer

(* The rows of a tab all come from the query its signature names, though    *)
(* filters change while answers are under way. The exception is the answer  *)
(* of a first load that was cancelled when it waited already: it is shown,  *)
(* but its signature is gone (lifecycle.py:130), so that it takes the       *)
(* filters of the moment for its own (db_loading.py:182), and what is       *)
(* appended to it joins it, until the rows are replaced.                    *)
RowsOfOneScope ==
  \A t \in Tabs : ~tab[t].mislabelled =>
    \A i \in DOMAIN tab[t].rows : tab[t].rows[i][1] = tab[t].rowsScope

(* Once a loaded tab is at rest, its rows are those its filter selects      *)
(* (checked without failing loads and maintenance, which lose a reload).    *)
QuietShowsFilter ==
  \A t \in Tabs :
    /\ tab[t].completed /\ ~tab[t].filterTimer
    /\ \A r \in Requests : tab[t].jobs[r] = Idle
    => \A i \in DOMAIN tab[t].rows : tab[t].rows[i][1] = tab[t].scope

(* append_items "loads the next page of the database" (db_loading.py:290):  *)
(* no page is shown twice.                                                  *)
NoPageTwice ==
  \A t \in Tabs : \A i, j \in DOMAIN tab[t].rows :
    tab[t].rows[i] = tab[t].rows[j] => i = j

(* Every open tab is loaded in the end, whatever tab is in front and        *)
(* however often fetches interrupt, unless an event drops it or leaves the  *)
(* queue asleep.                                                            *)
HydratesAll ==
  \A t \in Tabs :
    (t \in open /\ Needs(t)) ~>
      (t \notin open \/ ~Needs(t) \/ unattended \/ hydration.missed \/ maintenance)
=============================================================================
