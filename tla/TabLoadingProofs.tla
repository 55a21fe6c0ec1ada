--------------------------- MODULE TabLoadingProofs ---------------------------
(***************************************************************************)
(* The flags of a tab are real and the queue never waits in vain, for any  *)
(* number of tabs, requests, scopes and pages.                             *)
(***************************************************************************)
EXTENDS TabLoading, FiniteSetTheorems, SequenceTheorems, WellFoundedInduction, TLAPS

(* All rows come from the query of one scope.                               *)
OneScope(rows, s) == \A i \in DOMAIN rows : rows[i][1] = s

(* What every operation keeps true of one tab. An append needs a loaded     *)
(* tab, so it never meets an initial load; a load in flight is known by its *)
(* id, which is not a cancelled one.                                        *)
TabInv(v) ==
  /\ v \in TabType
  /\ v.inflight \/ v.more => Coming(v, v.newest)
  /\ v.inflight => /\ ~v.completed /\ v.initial # NoRequest
                   /\ v.newest \notin v.cancelled
  /\ v.more \/ v.appends # {} => v.completed
  /\ ~v.completed => v.rows = <<>> /\ v.total = 0
  /\ v.mislabelled \/ OneScope(v.rows, v.rowsScope)

(* The tab being served has its first answer coming.                        *)
Served(v) == ~v.completed /\ Coming(v, v.newest) /\ v.newest \notin v.cancelled

(* All that matters here of the record of the queue: it has this field.     *)
Shape(h) == "inflight" \in DOMAIN h

HydrationInv ==
  /\ Shape(hydration)
  /\ hydration.inflight # NoTab =>
       hydration.inflight \in open /\ (Served(tab[hydration.inflight]) \/ unattended)

IInv ==
  /\ open \subseteq Tabs
  /\ tab \in [Tabs -> TabType] /\ \A t \in Tabs : TabInv(tab[t])
  /\ HydrationInv

-----------------------------------------------------------------------------
(* Lemmas on one tab.                                                      *)

LEMMA NewRequestIsFresh ==
  ASSUME NEW v, CanRequest(v)
  PROVE  NewRequest(v) \in Requests /\ NewRequest(v) \notin Used(v)
BY DEF CanRequest, NewRequest

LEMMA EmptyOfOneScope ==
  ASSUME NEW s
  PROVE  OneScope(<<>>, s)
BY DEF OneScope

(* A page of the rows' own scope may be put behind them.                    *)
LEMMA PageOfOneScope ==
  ASSUME NEW s \in Scopes \cup {NoScope}, NEW p \in Nat,
         NEW rows \in Seq((Scopes \cup {NoScope}) \X Nat), OneScope(rows, s)
  PROVE  /\ OneScope(PageOf(s, p), s)
         /\ OneScope(rows \o PageOf(s, p), s)
<1> DEFINE S == (Scopes \cup {NoScope}) \X Nat
           row == <<s, p>>
<1>1. row \in S /\ row[1] = s
  OBVIOUS
<1>2. rows \in Seq(S)
  OBVIOUS
<1>3. PageOf(s, p) = IF p <= PageCount[s] THEN <<row>> ELSE <<>>
  BY DEF PageOf
<1> HIDE DEF S, row
<1>4. OneScope(<<row>>, s)
  BY <1>1 DEF OneScope
<1>5. OneScope(rows \o <<row>>, s)
  BY <1>1, <1>2 DEF OneScope
<1>6. rows \o <<>> = rows
  BY <1>2
<1> QED BY <1>3, <1>4, <1>5, <1>6, EmptyOfOneScope

LEMMA IdleIsJob == Idle \in JobType
BY DEF Idle, JobType

LEMMA StoppedIsJob ==
  ASSUME NEW job \in JobType, NEW inTime \in BOOLEAN, NEW detach \in BOOLEAN
  PROVE  StopJob(job, inTime, detach) \in JobType
BY ZenonT(60), IdleIsJob DEF StopJob, Settled, JobType

LEMMA NewTabInv ==
  ASSUME NEW s \in Scopes
  PROVE  TabInv(NewTab(s))
BY IdleIsJob, EmptyOfOneScope, TabLoadingAssumption DEF NewTab, TabInv, TabType

(* A worker that is superseded leaves a tab of the right type.              *)
LEMMA SupersededType ==
  ASSUME NEW v \in TabType, NEW inTime \in BOOLEAN, Running(v)
  PROVE  /\ Superseded(v, inTime) \in TabType
         /\ Superseded(v, inTime).cancelled \subseteq v.cancelled
         /\ Superseded(v, inTime).completed = v.completed
         /\ Superseded(v, inTime).more = v.more
         /\ Superseded(v, inTime).appends = v.appends
         /\ Superseded(v, inTime).rows = v.rows
         /\ Superseded(v, inTime).rowsScope = v.rowsScope
         /\ Superseded(v, inTime).mislabelled = v.mislabelled
         /\ Superseded(v, inTime).total = v.total
         /\ Superseded(v, inTime).inflight => v.inflight
<1> DEFINE jobs == [v.jobs EXCEPT ![v.worker] = StopJob(@, inTime, TRUE)]
           inflight == v.inflight /\ ~inTime
           cancelled == v.cancelled \ {v.newest}
           initial == IF v.initial = v.newest THEN NoRequest ELSE v.initial
<1>1. v.worker \in Requests
  BY DEF Running
<1>2. jobs \in [Requests -> JobType]
  BY <1>1, StoppedIsJob DEF TabType
<1>3. /\ inflight \in BOOLEAN /\ cancelled \in SUBSET Requests
      /\ initial \in Requests \cup {NoRequest}
  BY DEF TabType
<1>4. Superseded(v, inTime) =
        [v EXCEPT !.jobs = jobs, !.inflight = inflight,
                  !.cancelled = cancelled, !.initial = initial]
  BY DEF Superseded
<1>5. cancelled \subseteq v.cancelled /\ (inflight => v.inflight)
  OBVIOUS
<1> HIDE DEF jobs, inflight, cancelled, initial
<1> QED BY ZenonT(60), <1>2, <1>3, <1>4, <1>5 DEF TabType

LEMMA LoadInv ==
  ASSUME NEW v, TabInv(v), CanRequest(v),
         NEW append \in BOOLEAN, NEW inTime \in BOOLEAN,
         append => ~v.more /\ v.completed
  PROVE  /\ TabInv(Load(v, append, inTime))
         /\ Load(v, append, inTime).completed = v.completed
         /\ ~v.completed => Served(Load(v, append, inTime))
<1> DEFINE u == IF Running(v) THEN Superseded(v, inTime) ELSE v
           rid == NewRequest(v)
           job == [state |-> "running", mail |-> "none",
                   stopped |-> FALSE, signed |-> TRUE, scope |-> v.scope,
                   page |-> 1 + IF append THEN v.offset ELSE 0,
                   total |-> IF append THEN v.total ELSE PageCount[v.scope]]
           w == Load(v, append, inTime)
<1>1. v \in TabType
  BY DEF TabInv
<1>2. /\ u \in TabType /\ u.cancelled \subseteq v.cancelled /\ u.completed = v.completed
      /\ u.more = v.more /\ u.appends = v.appends /\ u.rows = v.rows
      /\ u.rowsScope = v.rowsScope /\ u.mislabelled = v.mislabelled
      /\ u.total = v.total /\ (u.inflight => v.inflight)
  BY <1>1, SupersededType
<1>3. rid \in Requests /\ rid \notin v.cancelled
  BY NewRequestIsFresh DEF Used
<1>4. job \in JobType
  BY <1>1, TabLoadingAssumption DEF JobType, TabType
<1> DEFINE first == ~append /\ ~v.completed
            offset == IF append THEN u.offset ELSE 0
            inflight == u.inflight \/ first
            initial == IF first THEN rid ELSE u.initial
            cancelled == IF first THEN u.cancelled \ {rid} ELSE u.cancelled
            appends == IF append THEN u.appends \cup {rid} ELSE {}
            jobs == [u.jobs EXCEPT ![rid] = job]
<1>5. w = [u EXCEPT !.newest = rid, !.worker = rid, !.offset = offset, !.more = append,
                    !.inflight = inflight, !.initial = initial, !.cancelled = cancelled,
                    !.appends = appends, !.jobs = jobs]
  BY <1>2 DEF Load
<1> HIDE DEF u, rid, job, w
<1>a. /\ offset \in Nat /\ inflight \in BOOLEAN /\ initial \in Requests \cup {NoRequest}
      /\ cancelled \in SUBSET Requests /\ appends \in SUBSET Requests
      /\ jobs \in [Requests -> JobType] /\ jobs[rid] = job
  BY <1>2, <1>3, <1>4 DEF TabType
<1>b. /\ inflight => v.inflight \/ first
      /\ first => initial = rid
      /\ cancelled \subseteq v.cancelled
      /\ ~append => appends = {}
  BY <1>2
<1> HIDE DEF offset, inflight, initial, cancelled, appends, jobs
<1>6. w \in TabType
  BY ZenonT(60), <1>2, <1>3, <1>5, <1>a DEF TabType
<1>7. /\ w.newest = rid /\ w.jobs[rid] = job /\ w.completed = v.completed
      /\ w.more = append /\ w.rows = v.rows /\ w.rowsScope = v.rowsScope
      /\ w.total = v.total /\ w.mislabelled = v.mislabelled
      /\ (w.inflight => v.inflight \/ (~append /\ ~v.completed))
      /\ (~append /\ ~v.completed => w.initial = rid)
      /\ w.cancelled \subseteq v.cancelled
      /\ (~append => w.appends = {})
  BY <1>2, <1>5, <1>a, <1>b DEF TabType
<1>8. Coming(w, w.newest)
  BY <1>3, <1>7 DEF Coming, job
<1>9. w.inflight => ~v.completed /\ ~append
  BY <1>7 DEF TabInv
<1>10. TabInv(w)
  BY <1>3, <1>6, <1>7, <1>8, <1>9, TabLoadingAssumption DEF TabInv
<1>11. ~v.completed => Served(w)
  BY <1>3, <1>7, <1>8 DEF Served
<1> QED BY <1>7, <1>10, <1>11 DEF w

(* One job changed: the tab keeps its type.                                 *)
LEMMA JobReplaced ==
  ASSUME NEW v \in TabType, NEW r \in Requests, NEW job \in JobType
  PROVE  LET w == [v EXCEPT !.jobs[r] = job] IN
         /\ w \in TabType /\ w.jobs[r] = job
         /\ \A q \in Requests \ {r} : w.jobs[q] = v.jobs[q]
         /\ w = [v EXCEPT !.jobs = w.jobs]
<1> DEFINE jobs == [v.jobs EXCEPT ![r] = job]
<1>1. /\ jobs \in [Requests -> JobType] /\ jobs[r] = job
      /\ \A q \in Requests \ {r} : jobs[q] = v.jobs[q]
  BY DEF TabType
<1>2. [v EXCEPT !.jobs[r] = job] = [v EXCEPT !.jobs = jobs]
  BY DEF TabType
<1> HIDE DEF jobs
<1> QED BY <1>1, <1>2 DEF TabType

(* A step of one job keeps the invariant if it does not take an answer away *)
(* that a flag of the tab announces.                                        *)
HasAnswer(job) == (job.state = "running" /\ ~job.stopped) \/ job.mail # "none"

LEMMA JobStepInv ==
  ASSUME NEW v, TabInv(v), NEW r \in Requests, NEW job \in JobType,
         v.inflight \/ v.more => r # v.newest \/ HasAnswer(job)
  PROVE  LET w == [v EXCEPT !.jobs[r] = job] IN
         /\ TabInv(w) /\ w.completed = v.completed
         /\ Served(v) /\ (r # v.newest \/ HasAnswer(job)) => Served(w)
<1> DEFINE w == [v EXCEPT !.jobs[r] = job]
<1>1. v \in TabType
  BY DEF TabInv
<1>2. /\ w \in TabType /\ w.jobs[r] = job /\ w = [v EXCEPT !.jobs = w.jobs]
      /\ \A q \in Requests \ {r} : w.jobs[q] = v.jobs[q]
  BY <1>1, JobReplaced
<1> HIDE DEF w
<1>3. /\ w.inflight = v.inflight /\ w.newest = v.newest /\ w.more = v.more
      /\ w.completed = v.completed /\ w.initial = v.initial /\ w.cancelled = v.cancelled
      /\ w.rows = v.rows /\ w.rowsScope = v.rowsScope
      /\ w.total = v.total /\ w.mislabelled = v.mislabelled /\ w.appends = v.appends
  BY <1>1, <1>2 DEF TabType
<1>4. r # v.newest \/ HasAnswer(job) => (Coming(v, v.newest) => Coming(w, w.newest))
  BY <1>2, <1>3 DEF Coming, HasAnswer
<1>5. TabInv(w)
  BY <1>2, <1>3, <1>4 DEF TabInv
<1>6. Served(v) /\ (r # v.newest \/ HasAnswer(job)) => Served(w)
  BY <1>3, <1>4 DEF Served
<1> QED BY <1>3, <1>5, <1>6 DEF w

(* Only what a request asked for is forgotten, not its answer.              *)
LEMMA UnsignInv ==
  ASSUME NEW v, TabInv(v), NEW r \in Requests
  PROVE  LET w == Unsign(v, r) IN
         /\ TabInv(w) /\ w.completed = v.completed /\ w.newest = v.newest
         /\ w.inflight = v.inflight
         /\ Served(v) => Served(w)
<1> DEFINE job == [v.jobs[r] EXCEPT !.signed = FALSE]
           u == [v EXCEPT !.jobs[r] = job]
           appends == u.appends \ {r}
           w == [u EXCEPT !.appends = appends]
<1>1. v \in TabType /\ v.jobs[r] \in JobType
  BY DEF TabInv, TabType
<1>2. /\ job \in JobType /\ job.state = v.jobs[r].state /\ job.mail = v.jobs[r].mail
      /\ job.stopped = v.jobs[r].stopped
  BY <1>1 DEF JobType
<1>3. Unsign(v, r) = w
  BY <1>1 DEF Unsign, TabType
<1> HIDE DEF job
<1>4. Coming(v, v.newest) => r # v.newest \/ HasAnswer(job)
  BY <1>2 DEF Coming, HasAnswer
<1>5. v.inflight \/ v.more => r # v.newest \/ HasAnswer(job)
  BY <1>4 DEF TabInv
<1>6. TabInv(u) /\ u.completed = v.completed /\ (Served(v) => Served(u))
  BY <1>2, <1>4, <1>5, JobStepInv DEF Served
<1>7. u.newest = v.newest /\ u.inflight = v.inflight
  BY <1>1 DEF TabType
<1> HIDE DEF u
<1>8. u \in TabType
  BY <1>6 DEF TabInv
<1>9. appends \in SUBSET Requests /\ (appends # {} => u.appends # {})
  BY <1>8 DEF TabType
<1> HIDE DEF appends
<1>10. /\ w \in TabType /\ w.inflight = u.inflight /\ w.newest = u.newest /\ w.more = u.more
       /\ w.completed = u.completed /\ w.initial = u.initial /\ w.cancelled = u.cancelled
       /\ w.rows = u.rows /\ w.rowsScope = u.rowsScope /\ w.mislabelled = u.mislabelled
       /\ w.total = u.total /\ w.appends = appends /\ w.jobs = u.jobs
  BY <1>8, <1>9 DEF TabType
<1> HIDE DEF w
<1>11. TabInv(w)
  BY <1>6, <1>9, <1>10 DEF TabInv, Coming
<1>12. Served(u) => Served(w)
  BY <1>10 DEF Served, Coming
<1> QED BY <1>3, <1>6, <1>7, <1>10, <1>11, <1>12

LEMMA FinalizeInv ==
  ASSUME NEW v, TabInv(v), NEW r \in Requests
  PROVE  LET w == Finalize(v, r) IN
         /\ TabInv(w) /\ w.completed = v.completed
         /\ ~w.inflight /\ ~w.more
         /\ w.newest = v.newest
         /\ Served(v) => Served(w)
<1> DEFINE u == Unsign(v, r)
           cancelled == u.cancelled \ {r}
           initial == IF u.initial = r THEN NoRequest ELSE u.initial
           w == [u EXCEPT !.cancelled = cancelled, !.initial = initial,
                          !.inflight = FALSE, !.more = FALSE]
<1>1. Finalize(v, r) = w
  BY DEF Finalize
<1> HIDE DEF u
<1>2. /\ TabInv(u) /\ u.completed = v.completed /\ u.newest = v.newest
      /\ Served(v) => Served(u)
  BY UnsignInv DEF u
<1>3. u \in TabType
  BY <1>2 DEF TabInv
<1>4. /\ cancelled \in SUBSET Requests /\ initial \in Requests \cup {NoRequest}
      /\ cancelled \subseteq u.cancelled
  BY <1>3 DEF TabType
<1> HIDE DEF cancelled, initial
<1>5. /\ w \in TabType /\ w.completed = u.completed /\ ~w.inflight /\ ~w.more
      /\ w.appends = u.appends /\ w.rows = u.rows /\ w.rowsScope = u.rowsScope
      /\ w.mislabelled = u.mislabelled /\ w.total = u.total /\ w.newest = u.newest
      /\ w.cancelled = cancelled /\ w.jobs = u.jobs
  BY <1>3, <1>4 DEF TabType
<1> HIDE DEF w
<1>6. TabInv(w)
  BY <1>2, <1>4, <1>5 DEF TabInv
<1>7. Served(u) => Served(w)
  BY <1>4, <1>5 DEF Served, Coming
<1> QED BY <1>1, <1>2, <1>5, <1>6, <1>7

LEMMA CancelInitialInv ==
  ASSUME NEW v, TabInv(v), NEW inTime \in BOOLEAN
  PROVE  LET w == CancelInitial(v, inTime) IN
         /\ TabInv(w) /\ w.completed = v.completed
         /\ v.inflight /\ v.initial # NoRequest => ~w.inflight
<1> DEFINE r == v.initial
           cancelled == v.cancelled \cup {r}
           u == [v EXCEPT !.cancelled = cancelled, !.inflight = FALSE, !.initial = NoRequest]
           s == [u EXCEPT !.jobs[v.worker] = StopJob(@, inTime, FALSE)]
<1>1. CASE ~v.inflight \/ r = NoRequest
  BY <1>1 DEF CancelInitial
<1>2. CASE v.inflight /\ r # NoRequest
  <2>1. v \in TabType /\ ~v.completed /\ ~v.more /\ v.appends = {} /\ r \in Requests
        /\ v.rows = <<>> /\ v.total = 0
    BY <1>2 DEF TabInv, TabType
  <2>2. cancelled \in SUBSET Requests
    BY <2>1 DEF TabType
  <2> HIDE DEF r, cancelled
  <2>3. /\ u \in TabType /\ ~u.inflight /\ ~u.more /\ u.appends = {} /\ u.completed = v.completed
        /\ u.rows = <<>> /\ u.total = 0 /\ u.jobs = v.jobs
    BY <2>1, <2>2 DEF TabType
  <2>4. TabInv(u)
    BY <2>3, EmptyOfOneScope DEF TabInv
  <2> HIDE DEF u
  <2>5. CASE ~Running(v)
    <3>1. CancelInitial(v, inTime) = Finalize(u, r)
      BY <1>2, <2>5 DEF CancelInitial, r, u, cancelled
    <3>2. ~Finalize(u, r).inflight
      BY <2>1, <2>4, FinalizeInv
    <3> QED BY <2>1, <2>3, <2>4, <3>1, <3>2, FinalizeInv
  <2>6. CASE Running(v)
    <3>1. v.worker \in Requests
      BY <2>6 DEF Running
    <3>2. StopJob(u.jobs[v.worker], inTime, FALSE) \in JobType
      BY <2>3, <3>1, StoppedIsJob DEF TabType
    <3>3. s \in TabType /\ s = [u EXCEPT !.jobs = s.jobs]
      BY ZenonT(60), <2>3, <3>1, <3>2, JobReplaced
    <3> HIDE DEF s
    <3>4. /\ ~s.inflight /\ ~s.more /\ s.appends = {} /\ s.completed = v.completed
          /\ s.rows = <<>> /\ s.total = 0
      BY <2>3, <3>3 DEF TabType
    <3>5. TabInv(s)
      BY <3>3, <3>4, EmptyOfOneScope DEF TabInv
    <3>6. CASE inTime
      <4>1. CancelInitial(v, inTime) = Finalize(s, r)
        BY <1>2, <2>6, <3>6 DEF CancelInitial, r, u, cancelled, s
      <4>2. ~Finalize(s, r).inflight
        BY <2>1, <3>5, FinalizeInv
      <4> QED BY <2>1, <3>4, <3>5, <4>1, <4>2, FinalizeInv
    <3>7. CASE ~inTime
      <4>1. CancelInitial(v, inTime) = Unsign(s, r)
        BY <1>2, <2>6, <3>7 DEF CancelInitial, r, u, cancelled, s
      <4> QED BY <2>1, <3>4, <3>5, <4>1, UnsignInv
    <3> QED BY <3>6, <3>7
  <2> QED BY <2>5, <2>6
<1> QED BY <1>1, <1>2

LEMMA CancelForMaintenanceInv ==
  ASSUME NEW v, TabInv(v), NEW inTime \in BOOLEAN, NEW keep \in BOOLEAN
  PROVE  LET w == CancelForMaintenance(v, inTime)
             x == [w EXCEPT !.filterTimer = @ /\ keep]
         IN  TabInv(w) /\ TabInv(x) /\ x.completed = v.completed
<1> DEFINE direct == [v EXCEPT !.jobs[v.worker] = StopJob(@, inTime, TRUE),
                               !.inflight = @ /\ ~inTime]
           u == IF ~Running(v) THEN v
                ELSE IF v.inflight /\ v.initial # NoRequest THEN CancelInitial(v, inTime)
                ELSE direct
           w == [u EXCEPT !.more = FALSE, !.appends = {}]
           x == [w EXCEPT !.filterTimer = @ /\ keep]
<1>1. v \in TabType
  BY DEF TabInv
<1>2. /\ u \in TabType /\ (u.inflight => Coming(u, u.newest)) /\ (u.inflight => ~u.completed)
      /\ (u.inflight => u.initial # NoRequest /\ u.newest \notin u.cancelled)
      /\ (~u.completed => u.rows = <<>> /\ u.total = 0)
      /\ u.mislabelled \/ OneScope(u.rows, u.rowsScope)
      /\ u.completed = v.completed
  <2>1. CASE ~Running(v) \/ (v.inflight /\ v.initial # NoRequest)
    <3>1. TabInv(u) /\ u.completed = v.completed
      BY <2>1, CancelInitialInv
    <3> QED BY <3>1 DEF TabInv
  <2>2. CASE Running(v) /\ ~(v.inflight /\ v.initial # NoRequest)
    <3>1. v.worker \in Requests /\ ~v.inflight /\ u = direct
      BY <2>2 DEF TabInv, Running
    <3> DEFINE job == StopJob(v.jobs[v.worker], inTime, TRUE)
               s == [v EXCEPT !.jobs[v.worker] = job]
    <3>2. job \in JobType
      BY <1>1, <3>1, StoppedIsJob DEF TabType
    <3>4. direct = [s EXCEPT !.inflight = FALSE]
      BY <1>1, <3>1 DEF TabType
    <3> HIDE DEF direct, u, job
    <3>3. s \in TabType /\ s = [v EXCEPT !.jobs = s.jobs]
      BY <1>1, <3>1, <3>2, JobReplaced
    <3> HIDE DEF s
    <3>5. /\ direct \in TabType /\ ~direct.inflight /\ direct.completed = v.completed
          /\ direct.rows = v.rows /\ direct.rowsScope = v.rowsScope /\ direct.total = v.total
          /\ direct.mislabelled = v.mislabelled
      BY <1>1, <3>3, <3>4 DEF TabType
    <3> QED BY <3>1, <3>5 DEF TabInv
  <2> QED BY <2>1, <2>2
<1>3. CancelForMaintenance(v, inTime) = w
  BY DEF CancelForMaintenance
<1> HIDE DEF u
<1>4. /\ w \in TabType /\ w.inflight = u.inflight /\ w.newest = u.newest /\ w.jobs = u.jobs
      /\ w.completed = u.completed /\ w.initial = u.initial /\ w.cancelled = u.cancelled
      /\ w.rows = u.rows /\ w.rowsScope = u.rowsScope
      /\ w.total = u.total /\ w.mislabelled = u.mislabelled /\ ~w.more /\ w.appends = {}
  BY <1>2 DEF TabType
<1>5. TabInv(w)
  BY <1>2, <1>4 DEF TabInv, Coming
<1> HIDE DEF w
<1>6. (w.filterTimer /\ keep) \in BOOLEAN
  OBVIOUS
<1>7. /\ x \in TabType /\ x.inflight = w.inflight /\ x.newest = w.newest /\ x.jobs = w.jobs
      /\ x.completed = w.completed /\ x.initial = w.initial /\ x.cancelled = w.cancelled
      /\ x.rows = w.rows /\ x.rowsScope = w.rowsScope
      /\ x.total = w.total /\ x.mislabelled = w.mislabelled /\ x.more = w.more /\ x.appends = w.appends
  BY <1>4, <1>6 DEF TabType
<1>8. TabInv(x) /\ x.completed = v.completed
  BY <1>2, <1>4, <1>5, <1>7 DEF TabInv, Coming
<1> QED BY <1>3, <1>5, <1>8 DEF w

LEMMA ForgetInv ==
  ASSUME NEW v, TabInv(v)
  PROVE  /\ TabInv(Forget(v)) /\ Forget(v).completed = v.completed
         /\ Served(v) => Served(Forget(v))
<1> DEFINE live == {r \in Requests : v.jobs[r] # Idle}
           cancelled == v.cancelled \cap live
           appends == v.appends \cap live
           w == Forget(v)
<1>1. v \in TabType
  BY DEF TabInv
<1>2. /\ cancelled \in SUBSET Requests /\ appends \in SUBSET Requests
      /\ cancelled \subseteq v.cancelled /\ (appends # {} => v.appends # {})
  BY <1>1 DEF TabType
<1>3. w = [v EXCEPT !.cancelled = cancelled, !.appends = appends]
  BY DEF Forget
<1> HIDE DEF cancelled, appends, w
<1>4. /\ w \in TabType /\ w.inflight = v.inflight /\ w.newest = v.newest /\ w.more = v.more
      /\ w.completed = v.completed /\ w.initial = v.initial /\ w.cancelled = cancelled
      /\ w.rows = v.rows /\ w.rowsScope = v.rowsScope
      /\ w.total = v.total /\ w.mislabelled = v.mislabelled /\ w.appends = appends /\ w.jobs = v.jobs
  BY <1>1, <1>2, <1>3 DEF TabType
<1>5. TabInv(w)
  BY <1>2, <1>4 DEF TabInv, Coming
<1>6. Served(v) => Served(w)
  BY <1>2, <1>4 DEF Served, Coming
<1> QED BY <1>4, <1>5, <1>6 DEF w

LEMMA ReceivedInv ==
  ASSUME NEW v, TabInv(v), NEW r \in Requests,
         v.inflight \/ v.more => r # v.newest
  PROVE  /\ TabInv(Received(v, r)) /\ Received(v, r).completed = v.completed
         /\ Served(v) /\ r # v.newest => Served(Received(v, r))
<1> DEFINE job == Settled([v.jobs[r] EXCEPT !.mail = "none"])
           w == [v EXCEPT !.jobs[r] = job]
<1>1. v.jobs[r] \in JobType
  BY DEF TabInv, TabType
<1>2. job \in JobType
  BY <1>1, IdleIsJob DEF Settled, JobType
<1>3. Received(v, r) = Forget(w)
  BY DEF Received
<1> HIDE DEF job
<1>4. /\ TabInv(w) /\ w.completed = v.completed
      /\ Served(v) /\ r # v.newest => Served(w)
  BY <1>2, JobStepInv
<1> HIDE DEF w
<1> QED BY <1>3, <1>4, ForgetInv

LEMMA FailedInv ==
  ASSUME NEW v, TabInv(v), NEW r \in Requests
  PROVE  LET w == Failed(v, r) IN
         TabInv(w) /\ w.completed = v.completed /\ ~w.inflight /\ ~w.more
<1> DEFINE appends == v.appends \ {r}
           w == Failed(v, r)
<1>1. v \in TabType
  BY DEF TabInv
<1>2. appends \in SUBSET Requests /\ (appends # {} => v.appends # {})
  BY <1>1 DEF TabType
<1>3. w = [v EXCEPT !.appends = appends, !.more = FALSE, !.initial = NoRequest,
                    !.inflight = FALSE]
  BY DEF Failed
<1> HIDE DEF appends, w
<1>4. /\ w \in TabType /\ ~w.inflight /\ ~w.more /\ w.completed = v.completed
      /\ w.rows = v.rows /\ w.rowsScope = v.rowsScope
      /\ w.total = v.total /\ w.mislabelled = v.mislabelled /\ w.appends = appends
  BY <1>1, <1>2, <1>3 DEF TabType
<1> QED BY <1>2, <1>4 DEF TabInv, w

(* An append finds a loaded tab, every other answer makes the tab loaded.   *)
LEMMA ShownInv ==
  ASSUME NEW v, TabInv(v), NEW r \in Requests
  PROVE  LET w == Shown(v, r) IN
         TabInv(w) /\ w.completed /\ ~w.inflight /\ ~w.more
<1> DEFINE job     == v.jobs[r]
           append  == r \in v.appends
           page    == PageOf(job.scope, job.page)
           label   == Label(v, r)
           joins   == append /\ label = v.rowsScope
           rows    == IF joins THEN v.rows \o page ELSE page
           mislabelled == (joins /\ v.mislabelled) \/ label # job.scope
           appends == v.appends \ {r}
           initial == IF append THEN v.initial ELSE NoRequest
           completed == v.completed \/ ~append
           inflight == v.inflight /\ append
           w == Shown(v, r)
<1>1. v \in TabType /\ job \in JobType
  BY DEF TabInv, TabType
<1>2. /\ appends \in SUBSET Requests /\ initial \in Requests \cup {NoRequest}
      /\ completed = TRUE /\ inflight = FALSE
  BY <1>1 DEF TabInv, TabType
<1>3. page \in Seq((Scopes \cup {NoScope}) \X Nat)
  <2> DEFINE s == job.scope
             p == job.page
  <2>1. s \in Scopes \cup {NoScope} /\ p \in Nat
    BY <1>1 DEF JobType
  <2> HIDE DEF s, p
  <2>2. <<s, p>> \in (Scopes \cup {NoScope}) \X Nat
    BY <2>1
  <2>3. <<<<s, p>>>> \in Seq((Scopes \cup {NoScope}) \X Nat)
    BY <2>2
  <2>4. page = IF p <= PageCount[s] THEN <<<<s, p>>>> ELSE <<>>
    BY DEF PageOf, s, p
  <2> QED BY SMTT(20), <2>3, <2>4
<1>4. rows \in Seq((Scopes \cup {NoScope}) \X Nat)
  BY <1>1, <1>3 DEF TabType
<1>5. job.total \in Nat /\ job.scope \in Scopes \cup {NoScope} /\ job.page \in Nat
  BY <1>1 DEF JobType
<1>m. label \in Scopes \cup {NoScope} /\ mislabelled \in BOOLEAN
  BY <1>1, <1>5 DEF Label, TabType
<1>s. mislabelled \/ OneScope(rows, label)
  <2> DEFINE none == <<>>
  <2>1. /\ v.rows \in Seq((Scopes \cup {NoScope}) \X Nat)
        /\ v.mislabelled \/ OneScope(v.rows, v.rowsScope)
    BY <1>1 DEF TabInv, TabType
  <2>2. none \in Seq((Scopes \cup {NoScope}) \X Nat) /\ OneScope(none, job.scope)
    BY EmptyOfOneScope
  <2> HIDE DEF none, job, label
  <2>3. OneScope(page, job.scope)
    BY <1>5, <2>2, PageOfOneScope
  <2>4. ~v.mislabelled /\ joins /\ job.scope = label => OneScope(v.rows \o page, job.scope)
    BY <1>5, <2>1, PageOfOneScope
  <2> HIDE DEF page, joins
  <2> QED BY <2>3, <2>4
<1>6. w = [v EXCEPT !.appends = appends, !.rows = rows, !.offset = Len(rows),
                    !.total = job.total, !.rowsScope = label, !.more = FALSE,
                    !.mislabelled = mislabelled,
                    !.initial = initial, !.completed = completed, !.inflight = inflight]
  BY DEF Shown
<1> HIDE DEF job, append, page, label, joins, rows, mislabelled, appends, initial,
             completed, inflight, w
<1> DEFINE offset == Len(rows)
           total  == job.total
<1>7. offset \in Nat
  <2> DEFINE S == (Scopes \cup {NoScope}) \X Nat
  <2>1. rows \in Seq(S)
    BY <1>4
  <2> HIDE DEF S
  <2> QED BY <2>1
<1>8. w = [v EXCEPT !.appends = appends, !.rows = rows, !.offset = offset,
                    !.total = total, !.rowsScope = label, !.more = FALSE,
                    !.mislabelled = mislabelled,
                    !.initial = initial, !.completed = TRUE, !.inflight = FALSE]
  BY <1>2, <1>6
<1>9. total \in Nat
  BY <1>5
<1> HIDE DEF offset, total
<1>10. w \in TabType
  <2> DEFINE S == (Scopes \cup {NoScope}) \X Nat
             w1 == [v EXCEPT !.appends = appends, !.initial = initial,
                             !.completed = TRUE, !.inflight = FALSE, !.more = FALSE]
  <2>1. w1 \in TabType
    <3>1. v \in TabType /\ appends \in SUBSET Requests /\ initial \in Requests \cup {NoRequest}
      BY <1>1, <1>2
    <3> QED BY <3>1 DEF TabType
  <2>2. w = [w1 EXCEPT !.rows = rows, !.offset = offset, !.total = total,
                       !.rowsScope = label, !.mislabelled = mislabelled]
    BY <1>1, <1>8 DEF TabType
  <2> HIDE DEF w1
  <2> QED BY <2>1, <2>2, <1>4, <1>7, <1>9, <1>m DEF TabType
<1>12. w.completed /\ ~w.inflight /\ ~w.more
  BY <1>1, <1>8 DEF TabType
<1>11. w.rows = rows /\ w.rowsScope = label /\ w.mislabelled = mislabelled
  BY <1>1, <1>8 DEF TabType
<1> QED BY <1>10, <1>11, <1>12, <1>s DEF TabInv, w

(* What a user sets in the controls of a tab concerns no load.              *)
LEMMA ControlsInv ==
  ASSUME NEW v, TabInv(v), NEW s \in Scopes, NEW timer \in BOOLEAN
  PROVE  LET w == [v EXCEPT !.scope = s, !.filterTimer = timer] IN
         /\ TabInv(w) /\ w.completed = v.completed
         /\ Served(v) => Served(w)
<1> DEFINE w == [v EXCEPT !.scope = s, !.filterTimer = timer]
<1>1. v \in TabType
  BY DEF TabInv
<1>2. /\ w \in TabType /\ w.inflight = v.inflight /\ w.newest = v.newest /\ w.more = v.more
      /\ w.completed = v.completed /\ w.initial = v.initial /\ w.cancelled = v.cancelled
      /\ w.rows = v.rows /\ w.rowsScope = v.rowsScope
      /\ w.total = v.total /\ w.mislabelled = v.mislabelled /\ w.appends = v.appends /\ w.jobs = v.jobs
  BY <1>1 DEF TabType
<1> HIDE DEF w
<1>3. TabInv(w)
  BY <1>2 DEF TabInv, Coming
<1>4. Served(v) => Served(w)
  BY <1>2 DEF Served, Coming
<1> QED BY <1>2, <1>3, <1>4 DEF w

LEMMA ScopeInv ==
  ASSUME NEW v, TabInv(v), NEW s \in Scopes
  PROVE  LET w == [v EXCEPT !.scope = s] IN
         /\ TabInv(w) /\ w.completed = v.completed
         /\ Served(v) => Served(w)
<1> DEFINE timer == v.filterTimer
           w == [v EXCEPT !.scope = s, !.filterTimer = timer]
<1>1. timer \in BOOLEAN /\ v \in TabType
  BY DEF TabInv, TabType
<1>2. [v EXCEPT !.scope = s] = w
  BY <1>1 DEF TabType
<1> HIDE DEF timer
<1>3. TabInv(w) /\ w.completed = v.completed /\ (Served(v) => Served(w))
  BY <1>1, ControlsInv
<1> QED BY <1>2, <1>3

LEMMA TimerInv ==
  ASSUME NEW v, TabInv(v)
  PROVE  LET w == [v EXCEPT !.filterTimer = FALSE] IN
         /\ TabInv(w) /\ w.completed = v.completed
         /\ Served(v) => Served(w)
<1>1. v.scope \in Scopes /\ v \in TabType
  BY DEF TabInv, TabType
<1>2. [v EXCEPT !.filterTimer = FALSE] = [v EXCEPT !.scope = v.scope, !.filterTimer = FALSE]
  BY <1>1 DEF TabType
<1> QED BY <1>1, <1>2, ControlsInv

-----------------------------------------------------------------------------
(* The invariant over the steps.                                           *)

(* Operations on the queue leave its shape alone and never start serving.   *)
LEMMA ScheduleShape ==
  ASSUME NEW h, Shape(h), NEW paused
  PROVE  Shape(Schedule(h, paused)) /\ Schedule(h, paused).inflight = h.inflight
BY DEF Shape, Schedule

LEMMA EnqueueShape ==
  ASSUME NEW h, Shape(h), NEW t, NEW prioritize, NEW paused
  PROVE  /\ Shape(Enqueue(h, t, prioritize, paused))
         /\ Enqueue(h, t, prioritize, paused).inflight = h.inflight
<1> DEFINE rest == Without(h.queue, t)
           q    == IF h.inflight = t THEN rest
                   ELSE IF prioritize THEN <<t>> \o rest ELSE Append(rest, t)
<1>1. Enqueue(h, t, prioritize, paused) = Schedule([h EXCEPT !.queue = q], paused)
  BY DEF Enqueue
<1> HIDE DEF q
<1>2. /\ Shape([h EXCEPT !.queue = q])
      /\ [h EXCEPT !.queue = q].inflight = h.inflight
  BY DEF Shape
<1> QED BY <1>1, <1>2, ScheduleShape

LEMMA RemoveShape ==
  ASSUME NEW h, Shape(h), NEW t
  PROVE  /\ Shape(RemoveHydration(h, t))
         /\ RemoveHydration(h, t).inflight = IF h.inflight = t THEN NoTab ELSE h.inflight
BY DEF Shape, RemoveHydration

LEMMA FetchStoppedShape ==
  ASSUME Shape(hydration), NEW still, NEW g \in FetchStopped(still)
  PROVE  Shape(g) /\ g.inflight = hydration.inflight
<1>1. \/ g = hydration
      \/ g = Schedule(hydration, maintenance)
      \/ g = Unscheduled(hydration, maintenance)
  BY DEF FetchStopped
<1>2. /\ Shape(Unscheduled(hydration, maintenance))
      /\ Unscheduled(hydration, maintenance).inflight = hydration.inflight
  BY DEF Shape, Unscheduled
<1> QED BY <1>1, <1>2, ScheduleShape

LEMMA AfterChangeShape ==
  ASSUME NEW g, Shape(g), g.inflight = hydration.inflight,
         NEW u, NEW remaining, NEW paused
  PROVE  LET h == AfterChange(g, u, remaining, paused) IN
         /\ Shape(h)
         /\ h.inflight = IF Interrupts(u) THEN NoTab ELSE hydration.inflight
<1> DEFINE other == g.inflight
           idle  == [g EXCEPT !.inflight = NoTab]
           put(x, t, first) == Enqueue(x, t, first, paused)
           back  == IF other \in remaining /\ Needs(other) THEN put(idle, other, FALSE) ELSE idle
           from  == IF Interrupts(u) THEN back ELSE g
<1>1. \A x, t, first : Shape(x) =>
        Shape(put(x, t, first)) /\ put(x, t, first).inflight = x.inflight
  BY EnqueueShape
<1>2. Shape(idle) /\ idle.inflight = NoTab
  BY DEF Shape
<1>3. AfterChange(g, u, remaining, paused) =
        IF u \notin Tabs \/ ~Needs(u) THEN Schedule(g, paused) ELSE put(from, u, TRUE)
  BY DEF AfterChange
<1> HIDE DEF idle, put
<1>4. Shape(back) /\ back.inflight = NoTab
  BY <1>1, <1>2
<1> HIDE DEF back
<1>5. Shape(from) /\ from.inflight = IF Interrupts(u) THEN NoTab ELSE hydration.inflight
  BY <1>4
<1> HIDE DEF from
<1>6. CASE u \notin Tabs \/ ~Needs(u)
  BY <1>3, <1>6, ScheduleShape DEF Interrupts
<1>7. CASE ~(u \notin Tabs \/ ~Needs(u))
  BY ZenonT(60), <1>1, <1>3, <1>5, <1>7
<1> QED BY <1>6, <1>7

(* A step that replaces one tab and does not start serving another one.     *)
LEMMA OneTabStep ==
  ASSUME IInv, NEW t \in Tabs, NEW v, TabInv(v),
         tab' = [tab EXCEPT ![t] = v],
         open' \subseteq Tabs, Shape(hydration'), unattended => unattended',
         hydration'.inflight # NoTab =>
           /\ hydration'.inflight \in open'
           /\ hydration'.inflight = t => Served(v) \/ unattended'
           /\ hydration'.inflight # t => hydration'.inflight = hydration.inflight
  PROVE  IInv'
<1>1. v \in TabType
  BY DEF TabInv
<1>2. tab' \in [Tabs -> TabType] /\ tab'[t] = v /\ \A x \in Tabs \ {t} : tab'[x] = tab[x]
  BY <1>1 DEF IInv
<1>3. \A x \in Tabs : TabInv(tab'[x])
  BY <1>2 DEF IInv
<1>4. ASSUME hydration'.inflight # NoTab
      PROVE  Served(tab'[hydration'.inflight]) \/ unattended'
  BY <1>2, <1>4 DEF IInv, HydrationInv
<1> QED BY <1>2, <1>3, <1>4 DEF IInv, HydrationInv

(* What IInv says of one tab.                                               *)
LEMMA TabOfIInv ==
  ASSUME IInv, NEW t \in Tabs
  PROVE  /\ TabInv(tab[t]) /\ Shape(hydration)
         /\ hydration.inflight # NoTab =>
              /\ hydration.inflight \in open
              /\ hydration.inflight = t => Served(tab[t]) \/ unattended
BY DEF IInv, HydrationInv

LEMMA AddTabStep ==
  ASSUME IInv, NEW t \in Tabs, AddTab(t)
  PROVE  IInv'
<1>1. PICK s \in Scopes : tab' = [tab EXCEPT ![t] = NewTab(s)]
  BY DEF AddTab
<1>2. Shape(hydration') /\ hydration'.inflight = hydration.inflight
  <2>1. /\ Shape(Enqueue(hydration, t, FALSE, Paused))
        /\ Enqueue(hydration, t, FALSE, Paused).inflight = hydration.inflight
    BY TabOfIInv, EnqueueShape
  <2> QED BY <2>1 DEF AddTab
<1>3. /\ open' \subseteq Tabs /\ (unattended => unattended')
      /\ hydration'.inflight # NoTab =>
           hydration'.inflight \in open' /\ hydration'.inflight # t
  BY <1>2 DEF AddTab, IInv, HydrationInv
<1> QED BY <1>1, <1>2, <1>3, NewTabInv, OneTabStep

LEMMA RenameTabStep ==
  ASSUME IInv, NEW t \in Tabs, RenameTab(t)
  PROVE  IInv'
<1>1. PICK s \in Scopes, inTime \in BOOLEAN :
        LET v == [tab[t] EXCEPT !.scope = s]
        IN  /\ CanRequest(v)
            /\ tab' = [tab EXCEPT ![t] = IF maintenance THEN v ELSE Load(v, FALSE, inTime)]
  BY DEF RenameTab
<1> DEFINE v == [tab[t] EXCEPT !.scope = s]
           w == IF maintenance THEN v ELSE Load(v, FALSE, inTime)
           urgent == t = current
<1>2. TabInv(v)
  BY TabOfIInv, ScopeInv
<1>3. TabInv(Load(v, FALSE, inTime))
  BY <1>1, <1>2, LoadInv
<1>4. TabInv(w) /\ tab' = [tab EXCEPT ![t] = w]
  BY <1>1, <1>2, <1>3
<1> HIDE DEF v, w
<1>a. PICK still \in {fetching, FALSE} : \E g \in FetchStopped(still) :
        LET h == RemoveHydration(g, t)
        IN  hydration' = IF Needs(t) THEN Enqueue(h, t, urgent, maintenance \/ still) ELSE h
  BY DEF RenameTab
<1>b. PICK g \in FetchStopped(still) :
        LET h == RemoveHydration(g, t)
        IN  hydration' = IF Needs(t) THEN Enqueue(h, t, urgent, maintenance \/ still) ELSE h
  BY <1>a
<1> DEFINE h == RemoveHydration(g, t)
           paused == maintenance \/ still
<1>c. Shape(g) /\ g.inflight = hydration.inflight
  BY TabOfIInv, FetchStoppedShape
<1>5. Shape(h) /\ h.inflight = IF hydration.inflight = t THEN NoTab ELSE hydration.inflight
  BY <1>c, RemoveShape
<1>d. hydration' = IF Needs(t) THEN Enqueue(h, t, urgent, paused) ELSE h
  BY <1>b
<1> HIDE DEF h, paused, urgent
<1>6. /\ Shape(Enqueue(h, t, urgent, paused))
      /\ Enqueue(h, t, urgent, paused).inflight = h.inflight
  BY <1>5, EnqueueShape
<1>7. Shape(hydration') /\ hydration'.inflight = h.inflight
  BY <1>5, <1>6, <1>d
<1>8. /\ open' \subseteq Tabs /\ (unattended => unattended')
      /\ hydration'.inflight # NoTab =>
           /\ hydration'.inflight \in open' /\ hydration'.inflight # t
           /\ hydration'.inflight = hydration.inflight
  BY <1>5, <1>7 DEF RenameTab, IInv, HydrationInv
<1> QED BY <1>4, <1>7, <1>8, OneTabStep

(* Steps that only load or change a tab: the queue stays as it is.          *)
LEMMA LoadStep ==
  ASSUME IInv, NEW t \in Tabs, NEW v, TabInv(v),
         Served(tab[t]) => Served(v),
         tab' = [tab EXCEPT ![t] = v], UNCHANGED <<open, hydration, unattended>>
  PROVE  IInv'
<1>1. /\ open' \subseteq Tabs /\ Shape(hydration') /\ (unattended => unattended')
      /\ hydration'.inflight = hydration.inflight
  BY DEF IInv, HydrationInv
<1>2. hydration'.inflight # NoTab =>
        /\ hydration'.inflight \in open'
        /\ hydration'.inflight = t => Served(v) \/ unattended'
  BY TabOfIInv
<1> QED BY <1>1, <1>2, OneTabStep

LEMMA ReloadTabStep ==
  ASSUME IInv, NEW t \in Tabs, ReloadTab(t)
  PROVE  IInv'
<1>1. PICK inTime \in BOOLEAN : tab' = [tab EXCEPT ![t] = Load(tab[t], FALSE, inTime)]
  BY DEF ReloadTab
<1>2. /\ TabInv(Load(tab[t], FALSE, inTime))
      /\ ~tab[t].completed => Served(Load(tab[t], FALSE, inTime))
  BY TabOfIInv, LoadInv DEF ReloadTab
<1> QED BY <1>1, <1>2, LoadStep DEF ReloadTab, Served

LEMMA TypeFilterStep ==
  ASSUME IInv, NEW t \in Tabs, NEW s \in Scopes, TypeFilter(t, s)
  PROVE  IInv'
<1> DEFINE w == [tab[t] EXCEPT !.scope = s, !.filterTimer = TRUE]
<1>1. TabInv(w) /\ (Served(tab[t]) => Served(w))
  BY TabOfIInv, ControlsInv
<1>2. tab' = [tab EXCEPT ![t] = w] /\ UNCHANGED <<open, hydration, unattended>>
  BY DEF TypeFilter
<1> HIDE DEF w
<1> QED BY <1>1, <1>2, LoadStep

LEMMA ChangeScopeStep ==
  ASSUME IInv, NEW t \in Tabs, NEW s \in Scopes, ChangeScope(t, s)
  PROVE  IInv'
<1> DEFINE v == [tab[t] EXCEPT !.scope = s]
<1>1. PICK inTime \in BOOLEAN : tab' = [tab EXCEPT ![t] = Load(v, FALSE, inTime)]
  BY DEF ChangeScope
<1>2. TabInv(v) /\ v.completed = tab[t].completed
  BY TabOfIInv, ScopeInv
<1>3. CanRequest(v)
  <2>1. tab[t] \in TabType
    BY TabOfIInv DEF TabInv
  <2>2. Used(v) = Used(tab[t])
    BY <2>1 DEF Used, TabType
  <2> QED BY <2>2 DEF ChangeScope, CanRequest
<1> HIDE DEF v
<1>4. TabInv(Load(v, FALSE, inTime)) /\ (~v.completed => Served(Load(v, FALSE, inTime)))
  BY <1>2, <1>3, LoadInv
<1> QED BY <1>1, <1>2, <1>4, LoadStep DEF ChangeScope, Served

(* Only a loaded tab has rows to go on from.                                *)
LEMMA AppendItemsStep ==
  ASSUME IInv, NEW t \in Tabs, AppendItems(t)
  PROVE  IInv'
<1>1. PICK inTime \in BOOLEAN : tab' = [tab EXCEPT ![t] = Load(tab[t], TRUE, inTime)]
  BY DEF AppendItems
<1>2. TabInv(tab[t]) /\ CanRequest(tab[t]) /\ ~tab[t].more
  BY TabOfIInv DEF AppendItems
<1>3. tab[t].completed
  <2>1. SUFFICES ASSUME ~tab[t].completed PROVE FALSE
    OBVIOUS
  <2>2. tab[t].rows = <<>> /\ tab[t].total = 0
    BY <1>2, <2>1 DEF TabInv
  <2> QED BY <2>2 DEF AppendItems
<1>4. TabInv(Load(tab[t], TRUE, inTime))
  BY <1>2, <1>3, LoadInv
<1> QED BY <1>1, <1>3, <1>4, LoadStep DEF AppendItems, Served

LEMMA FilterTimeoutStep ==
  ASSUME IInv, NEW t \in Tabs, FilterTimeout(t)
  PROVE  IInv'
<1> DEFINE v == [tab[t] EXCEPT !.filterTimer = FALSE]
           same == (v.scope = v.rowsScope /\ v.offset <= 1) \/ maintenance
<1>1. PICK inTime \in BOOLEAN :
        tab' = [tab EXCEPT ![t] = IF same THEN v ELSE Load(v, FALSE, inTime)]
  BY DEF FilterTimeout
<1>2. TabInv(v) /\ v.completed = tab[t].completed /\ (Served(tab[t]) => Served(v))
  BY TabOfIInv, TimerInv
<1>3. CanRequest(v)
  <2>1. tab[t] \in TabType
    BY TabOfIInv DEF TabInv
  <2>2. Used(v) = Used(tab[t])
    BY <2>1 DEF Used, TabType
  <2> QED BY <2>2 DEF FilterTimeout, CanRequest
<1> HIDE DEF v, same
<1>4. TabInv(Load(v, FALSE, inTime)) /\ (~v.completed => Served(Load(v, FALSE, inTime)))
  BY <1>2, <1>3, LoadInv
<1>5. UNCHANGED <<open, hydration, unattended>>
  BY DEF FilterTimeout, Quietly
<1>6. CASE same
  BY <1>1, <1>2, <1>5, <1>6, LoadStep
<1>7. CASE ~same
  BY <1>1, <1>2, <1>4, <1>5, <1>7, LoadStep DEF Served
<1> QED BY <1>6, <1>7

(* The step of a tab's load that is in flight when its hydration begins, or *)
(* begins then.                                                             *)
LEMMA StartInv ==
  ASSUME NEW v, TabInv(v), CanRequest(v), ~v.completed, NEW inTime \in BOOLEAN
  PROVE  TabInv(Start(v, inTime)) /\ Served(Start(v, inTime))
<1>1. CASE v.inflight
  BY <1>1 DEF Start, Served, TabInv
<1>2. CASE ~v.inflight
  BY <1>2, LoadInv DEF Start
<1> QED BY <1>1, <1>2

LEMMA ServeStep ==
  ASSUME IInv, NEW t \in Tabs, NEW rest, Waits(t), Serve(t, rest),
         UNCHANGED <<open, unattended>>
  PROVE  IInv'
<1>1. PICK inTime \in BOOLEAN : tab' = [tab EXCEPT ![t] = Start(tab[t], inTime)]
  BY DEF Serve
<1>2. TabInv(Start(tab[t], inTime)) /\ Served(Start(tab[t], inTime))
  BY TabOfIInv, StartInv DEF Serve, Waits, Needs
<1>3. /\ Shape(hydration') /\ hydration'.inflight = t /\ t \in open'
      /\ open' \subseteq Tabs
  BY DEF Serve, Shape, Waits, IInv
<1> QED BY <1>1, <1>2, <1>3, OneTabStep

LEMMA ProcessHydrationStep ==
  ASSUME IInv, ProcessHydration
  PROVE  IInv'
<1>1. open \subseteq Tabs /\ UNCHANGED <<open, unattended>>
  BY DEF ProcessHydration, Quietly, IInv
<1>2. CASE /\ hydration' \in {[hydration EXCEPT !.timer = FALSE],
                              [queue |-> <<>>, inflight |-> NoTab,
                               timer |-> FALSE, missed |-> FALSE]}
           /\ UNCHANGED tab
  BY <1>1, <1>2 DEF IInv, HydrationInv, Shape
<1>3. CASE Waits(current) /\ Serve(current, Without(hydration.queue, current))
  BY <1>1, <1>3, ServeStep DEF Waits
<1>4. CASE \E i \in DOMAIN hydration.queue :
             /\ Waits(hydration.queue[i])
             /\ Serve(hydration.queue[i],
                      SubSeq(hydration.queue, i + 1, Len(hydration.queue)))
  <2>1. PICK i \in DOMAIN hydration.queue :
             /\ Waits(hydration.queue[i])
             /\ Serve(hydration.queue[i],
                      SubSeq(hydration.queue, i + 1, Len(hydration.queue)))
    BY <1>4
  <2> DEFINE t == hydration.queue[i]
             rest == SubSeq(hydration.queue, i + 1, Len(hydration.queue))
  <2>2. Waits(t) /\ Serve(t, rest)
    BY <2>1
  <2> HIDE DEF t, rest
  <2> QED BY <1>1, <2>2, ServeStep DEF Waits
<1> QED BY <1>2, <1>3, <1>4 DEF ProcessHydration

(* Answers.                                                                 *)
LEMMA OnDataLoadedStep ==
  ASSUME IInv, NEW t \in Tabs, NEW r \in Requests, OnDataLoaded(t, r)
  PROVE  IInv'
<1> DEFINE w == Shown(tab[t], r)
           v == Received(w, r)
           h == RemoveHydration(hydration, t)
<1>1. TabInv(w) /\ ~w.inflight /\ ~w.more
  BY TabOfIInv, ShownInv
<1> HIDE DEF w
<1>2. TabInv(v)
  BY <1>1, ReceivedInv
<1>3. /\ tab' = [tab EXCEPT ![t] = v]
      /\ hydration' = IF Needs(t) THEN Schedule(h, Paused) ELSE hydration
      /\ UNCHANGED <<open, unattended>>
  BY DEF OnDataLoaded, Answered, Quietly, w
<1> HIDE DEF v
<1>4. Shape(h) /\ h.inflight = IF hydration.inflight = t THEN NoTab ELSE hydration.inflight
  BY TabOfIInv, RemoveShape
<1> HIDE DEF h
<1>5. Shape(Schedule(h, Paused)) /\ Schedule(h, Paused).inflight = h.inflight
  BY <1>4, ScheduleShape
<1>6. /\ Shape(hydration')
      /\ hydration'.inflight # NoTab =>
           /\ hydration'.inflight = hydration.inflight /\ hydration'.inflight \in open'
           /\ hydration'.inflight = t => unattended'
  BY <1>3, <1>4, <1>5, TabOfIInv DEF Needs, Served
<1> QED BY <1>2, <1>3, <1>6, OneTabStep DEF IInv

LEMMA OnDataErrorStep ==
  ASSUME IInv, NEW t \in Tabs, NEW r \in Requests, OnDataError(t, r)
  PROVE  IInv'
<1> DEFINE w == Failed(tab[t], r)
           v == Received(w, r)
           h == RemoveHydration(hydration, t)
<1>1. TabInv(w) /\ ~w.inflight /\ ~w.more
  BY TabOfIInv, FailedInv
<1> HIDE DEF w
<1>2. TabInv(v)
  BY <1>1, ReceivedInv
<1>3. /\ tab' = [tab EXCEPT ![t] = v]
      /\ hydration' = IF Needs(t) THEN Schedule(h, Paused) ELSE hydration
      /\ unattended' = (unattended \/ Needs(t)) /\ UNCHANGED open
  BY DEF OnDataError, Answered, w
<1> HIDE DEF v
<1>4. Shape(h) /\ h.inflight = IF hydration.inflight = t THEN NoTab ELSE hydration.inflight
  BY TabOfIInv, RemoveShape
<1> HIDE DEF h
<1>5. Shape(Schedule(h, Paused)) /\ Schedule(h, Paused).inflight = h.inflight
  BY <1>4, ScheduleShape
<1>6. /\ Shape(hydration') /\ (unattended => unattended')
      /\ hydration'.inflight # NoTab =>
           /\ hydration'.inflight = hydration.inflight /\ hydration'.inflight \in open'
           /\ hydration'.inflight = t => unattended'
  BY <1>3, <1>4, <1>5, TabOfIInv DEF Needs, Served
<1> QED BY <1>2, <1>3, <1>6, OneTabStep DEF IInv

LEMMA OnIgnoredStep ==
  ASSUME IInv, NEW t \in Tabs, NEW r \in Requests, OnIgnored(t, r)
  PROVE  IInv'
<1> DEFINE w == Drop(tab[t], r)
           v == Received(w, r)
<1>1. TabInv(tab[t]) /\ Ignored(tab[t], r)
  BY TabOfIInv DEF OnIgnored
<1>2. /\ TabInv(w) /\ (w.inflight \/ w.more => r # w.newest)
      /\ Served(tab[t]) => Served(w) /\ r # w.newest
  BY <1>1, FinalizeInv DEF Drop, Ignored, Served
<1>3. tab' = [tab EXCEPT ![t] = v] /\ UNCHANGED <<open, hydration, unattended>>
  BY DEF OnIgnored, Quietly
<1> HIDE DEF w
<1>4. TabInv(v) /\ (Served(tab[t]) => Served(v))
  BY <1>2, ReceivedInv
<1> HIDE DEF v
<1> QED BY <1>3, <1>4, LoadStep

LEMMA OnCallbackFailureStep ==
  ASSUME IInv, NEW t \in Tabs, NEW r \in Requests, OnCallbackFailure(t, r)
  PROVE  IInv'
<1>1. PICK u \in {tab[t], Shown(tab[t], r)} :
        tab' = [tab EXCEPT ![t] = Received(Failed(u, r), r)]
  BY DEF OnCallbackFailure
<1> DEFINE w == Failed(u, r)
           v == Received(w, r)
<1>2. TabInv(u)
  BY TabOfIInv, ShownInv
<1>3. TabInv(w) /\ ~w.inflight /\ ~w.more
  BY <1>2, FailedInv
<1>4. tab' = [tab EXCEPT ![t] = v]
  BY <1>1
<1> HIDE DEF w
<1>5. TabInv(v)
  BY <1>3, ReceivedInv
<1> HIDE DEF v
<1>6. /\ Shape(hydration') /\ (unattended => unattended') /\ open' \subseteq Tabs
      /\ hydration'.inflight = hydration.inflight
      /\ hydration'.inflight # NoTab =>
           hydration'.inflight \in open' /\ (hydration'.inflight = t => unattended')
  BY TabOfIInv DEF OnCallbackFailure, Needs, Served, IInv
<1> QED BY <1>4, <1>5, <1>6, OneTabStep

(* Threads.                                                                 *)
LEMMA EmitStep ==
  ASSUME IInv, NEW t \in Tabs, NEW r \in Requests, NEW kind \in {"data", "error"},
         Emit(t, r, kind)
  PROVE  IInv'
<1> DEFINE job == [tab[t].jobs[r] EXCEPT !.state = "emitted", !.mail = kind]
           w == [tab[t] EXCEPT !.jobs[r] = job]
<1>1. TabInv(tab[t]) /\ tab[t].jobs[r] \in JobType
  BY TabOfIInv DEF TabInv, TabType
<1>2. job \in JobType /\ HasAnswer(job)
  BY <1>1 DEF JobType, HasAnswer
<1>3. tab' = [tab EXCEPT ![t] = w] /\ UNCHANGED <<open, hydration, unattended>>
  BY DEF Emit
<1> HIDE DEF job
<1>4. TabInv(w) /\ (Served(tab[t]) => Served(w))
  BY <1>1, <1>2, JobStepInv
<1> HIDE DEF w
<1> QED BY <1>3, <1>4, LoadStep

LEMMA EndThreadStep ==
  ASSUME IInv, NEW t \in Tabs, NEW r \in Requests, EndThread(t, r)
  PROVE  IInv'
<1> DEFINE old == tab[t].jobs[r]
           job == Settled([old EXCEPT !.state = "none"])
           w == [tab[t] EXCEPT !.jobs[r] = job]
           v == Forget(w)
<1>1. TabInv(tab[t]) /\ old \in JobType
  BY TabOfIInv DEF TabInv, TabType
<1>2. old.state = "emitted" \/ (old.state = "running" /\ old.stopped)
  BY DEF EndThread
<1>3. tab' = [tab EXCEPT ![t] = v] /\ UNCHANGED <<open, hydration, unattended>>
  BY DEF EndThread, Quietly, Ended
<1>4. Coming(tab[t], r) => old.mail # "none"
  BY <1>2 DEF Coming
<1> HIDE DEF old
<1>5. job \in JobType /\ (old.mail # "none" => HasAnswer(job))
  BY <1>1, IdleIsJob DEF Settled, JobType, HasAnswer
<1> HIDE DEF job
<1>6. tab[t].inflight \/ tab[t].more \/ Served(tab[t]) => r # tab[t].newest \/ HasAnswer(job)
  BY <1>1, <1>4, <1>5 DEF TabInv, Served
<1>7. TabInv(w) /\ (Served(tab[t]) => Served(w))
  BY <1>1, <1>5, <1>6, JobStepInv
<1> HIDE DEF w
<1>8. TabInv(v) /\ (Served(w) => Served(v))
  BY <1>7, ForgetInv
<1> HIDE DEF v
<1> QED BY <1>3, <1>7, <1>8, LoadStep

(* Steps of the tab bar.                                                    *)
LEMMA SwitchTabStep ==
  ASSUME IInv, NEW u \in Tabs \cup {NoTab}, SwitchTab(u)
  PROVE  IInv'
<1> DEFINE x == hydration.inflight
<1>1. /\ Shape(hydration') /\ open' = open /\ unattended' = unattended
      /\ hydration'.inflight = IF Interrupts(u) THEN NoTab ELSE x
  <2>1. Shape(hydration)
    BY DEF IInv, HydrationInv
  <2> DEFINE h == AfterChange(hydration, u, open, Paused)
  <2>2. Shape(h) /\ h.inflight = IF Interrupts(u) THEN NoTab ELSE x
    BY <2>1, AfterChangeShape
  <2>3. hydration' = h /\ open' = open /\ unattended' = unattended
    BY DEF SwitchTab
  <2> HIDE DEF h
  <2> QED BY <2>2, <2>3
<1>2. CASE Interrupts(u)
  <2>1. x \in open /\ x \in Tabs
    BY <1>2 DEF Interrupts, IInv, HydrationInv
  <2>2. PICK inTime \in BOOLEAN : tab' = [tab EXCEPT ![x] = CancelInitial(tab[x], inTime)]
    BY <1>2, <2>1 DEF SwitchTab
  <2>3. TabInv(CancelInitial(tab[x], inTime))
    BY <2>1, TabOfIInv, CancelInitialInv
  <2>4. open' \subseteq Tabs /\ hydration'.inflight = NoTab
    BY <1>1, <1>2 DEF IInv
  <2> QED BY <1>1, <2>1, <2>2, <2>3, <2>4, OneTabStep
<1>3. CASE ~Interrupts(u)
  BY <1>1, <1>3 DEF SwitchTab, IInv, HydrationInv
<1> QED BY <1>2, <1>3

LEMMA CloseTabStep ==
  ASSUME IInv, NEW t \in Tabs, CloseTab(t)
  PROVE  IInv'
<1> DEFINE x == hydration.inflight
           paused == maintenance \/ fetching'
           tabs(u, inTime) ==
             [y \in Tabs |->
                IF y = t THEN NewTab(tab[t].scope)
                ELSE IF t = current /\ Interrupts(u) /\ y = x
                THEN CancelInitial(tab[y], inTime) ELSE tab[y]]
<1>1. PICK u \in IF t = current THEN (open \ {t}) \cup {NoTab} ELSE {current} :
        /\ \E g \in FetchStopped(fetching') :
             hydration' = RemoveHydration(
               IF t = current THEN AfterChange(g, u, open \ {t}, paused) ELSE g, t)
        /\ \E inTime \in BOOLEAN : tab' = tabs(u, inTime)
  BY DEF CloseTab
<1>2. PICK inTime \in BOOLEAN : tab' = tabs(u, inTime)
  BY <1>1
<1>a. PICK g \in FetchStopped(fetching') :
        hydration' = RemoveHydration(
          IF t = current THEN AfterChange(g, u, open \ {t}, paused) ELSE g, t)
  BY <1>1
<1> DEFINE h == IF t = current THEN AfterChange(g, u, open \ {t}, paused) ELSE g
           cut == t = current /\ Interrupts(u)
<1>b. Shape(g) /\ g.inflight = x
  BY FetchStoppedShape DEF IInv, HydrationInv
<1> HIDE DEF paused
<1>3. Shape(h) /\ h.inflight = IF cut THEN NoTab ELSE x
  BY <1>b, AfterChangeShape
<1>4. hydration' = RemoveHydration(h, t)
  BY <1>a
<1> HIDE DEF h
<1>5. /\ Shape(hydration')
      /\ hydration'.inflight = IF h.inflight = t THEN NoTab ELSE h.inflight
  BY <1>3, <1>4, RemoveShape
<1>6. \A y \in Tabs : TabInv(tab'[y])
  <2> SUFFICES ASSUME NEW y \in Tabs PROVE TabInv(tab'[y])
    OBVIOUS
  <2>1. tab[t].scope \in Scopes /\ TabInv(tab[y])
    BY TabOfIInv DEF TabInv, TabType
  <2>2. TabInv(NewTab(tab[t].scope)) /\ TabInv(CancelInitial(tab[y], inTime))
    BY <2>1, NewTabInv, CancelInitialInv
  <2> QED BY <1>2, <2>1, <2>2
<1>7. tab' \in [Tabs -> TabType]
  <2>1. \A y \in Tabs : tab'[y] \in TabType
    BY <1>6 DEF TabInv
  <2> QED BY <1>2, <2>1
<1>8. /\ open' = open \ {t} /\ (unattended => unattended')
  BY DEF CloseTab
<1>9. ASSUME hydration'.inflight # NoTab
      PROVE  /\ hydration'.inflight \in open'
             /\ Served(tab'[hydration'.inflight]) \/ unattended'
  <2>1. hydration'.inflight = x /\ x # t /\ x # NoTab /\ ~cut
    BY <1>3, <1>5, <1>9
  <2>2. x \in open /\ x \in Tabs /\ (Served(tab[x]) \/ unattended)
    BY <2>1 DEF IInv, HydrationInv
  <2>3. tab'[x] = tab[x]
    BY <1>2, <2>1, <2>2
  <2> QED BY <1>8, <2>1, <2>2, <2>3
<1> QED BY <1>5, <1>6, <1>7, <1>8, <1>9 DEF IInv, HydrationInv

(* Steps of all tabs.                                                       *)
LEMMA BeginMaintenanceStep ==
  ASSUME IInv, BeginMaintenance
  PROVE  IInv'
<1>1. PICK refused \in BOOLEAN, inTime \in [Tabs -> BOOLEAN] :
        tab' = [t \in Tabs |->
                  IF t \notin open THEN tab[t]
                  ELSE LET v == CancelForMaintenance(tab[t], inTime[t])
                       IN  [v EXCEPT !.filterTimer = @ /\ refused]]
  BY DEF BeginMaintenance
<1> DEFINE w(t) == CancelForMaintenance(tab[t], inTime[t])
<1>2. \A t \in Tabs :
        tab'[t] = IF t \notin open THEN tab[t]
                  ELSE [w(t) EXCEPT !.filterTimer = @ /\ refused]
  BY <1>1
<1>3. \A t \in Tabs : TabInv(tab'[t])
  <2> SUFFICES ASSUME NEW t \in Tabs PROVE TabInv(tab'[t])
    OBVIOUS
  <2>1. TabInv(tab[t]) /\ inTime[t] \in BOOLEAN /\ refused \in BOOLEAN
    BY TabOfIInv
  <2>2. TabInv([w(t) EXCEPT !.filterTimer = @ /\ refused])
    BY <2>1, CancelForMaintenanceInv
  <2> QED BY <1>2, <2>1, <2>2
<1>4. tab' \in [Tabs -> TabType]
  <2>1. \A t \in Tabs : tab'[t] \in TabType
    BY <1>3 DEF TabInv
  <2>2. tab' = [t \in Tabs |-> tab'[t]]
    BY <1>1
  <2> QED BY <2>1, <2>2
<1>5. Shape(hydration') /\ hydration'.inflight = NoTab /\ open' = open
  <2>1. PICK h \in {hydration, Schedule(hydration, fetching')} :
          hydration' = [h EXCEPT !.inflight = NoTab]
    BY DEF BeginMaintenance
  <2>2. Shape(h)
    BY ScheduleShape DEF IInv, HydrationInv
  <2> QED BY <2>1, <2>2 DEF Shape, BeginMaintenance
<1> QED BY <1>3, <1>4, <1>5 DEF IInv, HydrationInv

LEMMA SyncTabsStep ==
  ASSUME IInv, SyncTabs
  PROVE  IInv'
<1> DEFINE waiting == {t \in open : Needs(t)}
           w(t, inTime) == IF t \in open \ waiting THEN Load(tab[t], FALSE, inTime) ELSE tab[t]
<1>1. PICK inTime \in [Tabs -> BOOLEAN] : tab' = [t \in Tabs |-> w(t, inTime[t])]
  BY DEF SyncTabs
<1>2. \A t \in Tabs : /\ TabInv(tab'[t])
                      /\ ~tab[t].completed => tab'[t] = tab[t]
  <2> SUFFICES ASSUME NEW t \in Tabs
               PROVE  TabInv(tab'[t]) /\ (~tab[t].completed => tab'[t] = tab[t])
    OBVIOUS
  <2>1. tab'[t] = w(t, inTime[t]) /\ inTime[t] \in BOOLEAN
    BY <1>1
  <2>2. CASE t \in open \ waiting
    <3>1. TabInv(tab[t]) /\ CanRequest(tab[t]) /\ tab[t].completed
      BY <2>2, TabOfIInv DEF SyncTabs, Needs
    <3> QED BY ZenonT(60), <2>1, <2>2, <3>1, LoadInv
  <2>3. CASE t \notin open \ waiting
    BY <2>1, <2>3, TabOfIInv
  <2> QED BY <2>2, <2>3
<1>3. tab' \in [Tabs -> TabType]
  <2>1. \A t \in Tabs : tab'[t] \in TabType
    BY <1>2 DEF TabInv
  <2>2. tab' = [t \in Tabs |-> tab'[t]]
    BY <1>1
  <2> QED BY <2>1, <2>2
<1>4. /\ Shape(hydration') /\ hydration'.inflight = hydration.inflight
      /\ open' = open /\ unattended' = unattended
  <2>1. PICK q : hydration' = Schedule([hydration EXCEPT !.queue = q], Paused)
    BY DEF SyncTabs
  <2>2. /\ Shape([hydration EXCEPT !.queue = q])
        /\ [hydration EXCEPT !.queue = q].inflight = hydration.inflight
    BY DEF IInv, HydrationInv, Shape
  <2> DEFINE h == [hydration EXCEPT !.queue = q]
  <2> HIDE DEF h
  <2>3. Shape(Schedule(h, Paused)) /\ Schedule(h, Paused).inflight = h.inflight
    BY <2>2, ScheduleShape DEF h
  <2> QED BY <2>1, <2>2, <2>3 DEF SyncTabs, h
<1> QED BY <1>2, <1>3, <1>4 DEF IInv, HydrationInv, Served

(* Steps that touch nothing but the timer of the queue.                     *)
LEMMA QueueStep ==
  ASSUME IInv, UNCHANGED <<open, tab, unattended>>,
         Shape(hydration'), hydration'.inflight = hydration.inflight
  PROVE  IInv'
BY DEF IInv, HydrationInv

LEMMA FetchStep ==
  ASSUME IInv, FetchStarts \/ FetchEnds \/ EndMaintenance
  PROVE  IInv'
<1>1. UNCHANGED <<open, tab, unattended>>
  BY DEF FetchStarts, FetchEnds, EndMaintenance, Quietly
<1>2. CASE FetchStarts
  BY <1>1, <1>2, TabOfIInv, QueueStep DEF FetchStarts, IInv, HydrationInv
<1>3. CASE FetchEnds
  <2>1. /\ Shape(Schedule(hydration, maintenance))
        /\ Schedule(hydration, maintenance).inflight = hydration.inflight
    BY ScheduleShape DEF IInv, HydrationInv
  <2> QED BY <1>1, <1>3, <2>1, QueueStep DEF FetchEnds
<1>4. CASE EndMaintenance
  <2>1. /\ Shape(Schedule(hydration, fetching))
        /\ Schedule(hydration, fetching).inflight = hydration.inflight
    BY ScheduleShape DEF IInv, HydrationInv
  <2> QED BY <1>1, <1>4, <2>1, QueueStep DEF EndMaintenance
<1> QED BY <1>2, <1>3, <1>4

-----------------------------------------------------------------------------
(* IInv is inductive.                                                      *)

LEMMA InitIInv == Init => IInv
<1> SUFFICES ASSUME Init PROVE IInv
  OBVIOUS
<1>1. PICK s \in Scopes : tab = [t \in Tabs |-> NewTab(s)]
  BY DEF Init
<1>2. TabInv(NewTab(s))
  BY NewTabInv
<1>3. NewTab(s) \in TabType
  BY <1>2 DEF TabInv
<1>4. open \subseteq Tabs /\ HydrationInv
  BY TabLoadingAssumption DEF Init, HydrationInv, Shape
<1> QED BY <1>1, <1>2, <1>3, <1>4 DEF IInv

LEMMA NextIInv == IInv /\ [Next]_vars => IInv'
<1> SUFFICES ASSUME IInv, [Next]_vars PROVE IInv'
  OBVIOUS
<1>1. CASE User
  <2>1. CASE \E u \in Tabs \cup {NoTab} : SwitchTab(u)
    BY <2>1, SwitchTabStep
  <2>2. CASE \E t \in Tabs : \/ AddTab(t) \/ CloseTab(t) \/ RenameTab(t)
                             \/ ReloadTab(t) \/ AppendItems(t)
    BY <2>2, AddTabStep, CloseTabStep, RenameTabStep, ReloadTabStep, AppendItemsStep
  <2>3. CASE \E t \in Tabs, s \in Scopes : TypeFilter(t, s) \/ ChangeScope(t, s)
    BY <2>3, TypeFilterStep, ChangeScopeStep
  <2>4. CASE FetchStarts \/ BeginMaintenance \/ SyncTabs
    BY <2>4, FetchStep, BeginMaintenanceStep, SyncTabsStep
  <2> QED BY <1>1, <2>1, <2>2, <2>3, <2>4 DEF User
<1>2. CASE Window
  <2>1. CASE FetchEnds \/ EndMaintenance \/ ProcessHydration
    BY <2>1, FetchStep, ProcessHydrationStep
  <2>2. CASE \E t \in Tabs : FilterTimeout(t)
    BY <2>2, FilterTimeoutStep
  <2>3. CASE \E t \in Tabs, r \in Requests :
               \/ OnDataLoaded(t, r) \/ OnDataError(t, r)
               \/ OnIgnored(t, r) \/ OnCallbackFailure(t, r)
    BY <2>3, OnDataLoadedStep, OnDataErrorStep, OnIgnoredStep, OnCallbackFailureStep
  <2> QED BY <1>2, <2>1, <2>2, <2>3 DEF Window
<1>3. CASE Threads
  BY <1>3, EmitStep, EndThreadStep DEF Threads, EmitData, EmitError
<1>4. CASE UNCHANGED vars
  BY <1>4 DEF vars, IInv, HydrationInv
<1> QED BY <1>1, <1>2, <1>3, <1>4 DEF Next

LEMMA AlwaysIInv == Spec => []IInv
BY InitIInv, NextIInv, PTL DEF Spec

-----------------------------------------------------------------------------
(* No tab is left saying that a load is in flight when none is: cancelling, *)
(* superseding, maintenance and failures each leave by a path of their own, *)
(* and request_initial_hydration would refuse for good after one that       *)
(* forgets the flag (lifecycle.py:26).                                      *)
THEOREM FlagsReal == Spec => []FlagsAreReal
<1>1. IInv => FlagsAreReal
  BY DEF IInv, TabInv, FlagsAreReal
<1> QED BY <1>1, AlwaysIInv, PTL

(* The main window never waits for a tab whose answer does not come, unless *)
(* an exception swallowed the signal (tab_hydration.py:86).                 *)
THEOREM QueueWaitsForReal == Spec => []HydratingIsLoading
<1>1. IInv => HydratingIsLoading
  BY DEF IInv, HydrationInv, Served, HydratingIsLoading
<1> QED BY <1>1, AlwaysIInv, PTL

(* Whatever the user selects while answers are under way, the rows of a tab *)
(* come from one query, the one its signature names: an append for another  *)
(* scope replaces the rows instead of extending them (db_loading.py:186).   *)
(* A tab is excused from the answer of a cancelled load that had lost its   *)
(* signature (lifecycle.py:130) until rows with the right one replace it.   *)
THEOREM RowsAreOfOneScope == Spec => []RowsOfOneScope
<1>1. IInv => RowsOfOneScope
  BY DEF IInv, TabInv, OneScope, RowsOfOneScope
<1> QED BY <1>1, AlwaysIInv, PTL
-----------------------------------------------------------------------------
(* The queue. A recursive function is known here only by its recursion, and *)
(* induction has no theorem to cite: instead, a length that failed would    *)
(* have a least one.                                                        *)

LEMMA LeastNumber ==
  ASSUME NEW T \in SUBSET Nat, T # {}
  PROVE  \E n \in T : \A k \in T : n <= k
<1> DEFINE F == {0..n : n \in T}
<1>1. F \subseteq FiniteSubsetsOf(Nat) /\ F # {}
  <2>1. \A n \in T : 0..n \subseteq Nat /\ IsFiniteSet(0..n)
    BY FS_Interval
  <2> QED BY <2>1 DEF FiniteSubsetsOf
<1>2. IsWellFoundedOn(StrictSubsetOrdering(Nat), FiniteSubsetsOf(Nat))
  BY FS_StrictSubsetOrderingWellFounded
<1>3. PICK U \in F : \A V \in F : <<V, U>> \notin StrictSubsetOrdering(Nat)
  <2> HIDE DEF F
  <2> QED BY <1>1, <1>2, WFMin
<1>4. PICK n \in T : U = 0..n
  OBVIOUS
<1>5. ASSUME NEW k \in T, k < n PROVE FALSE
  <2>1. n \in 0..n /\ n \notin 0..k
    BY <1>5
  <2>2. 0..k \in F /\ 0..k \subseteq 0..n /\ 0..k # 0..n
    BY <1>5, <2>1
  <2>3. <<0..k, 0..n>> \in (SUBSET Nat) \X (SUBSET Nat)
    OBVIOUS
  <2>4. <<0..k, 0..n>> \in StrictSubsetOrdering(Nat)
    BY <2>2, <2>3 DEF StrictSubsetOrdering
  <2> QED BY <1>3, <1>4, <2>2, <2>4
<1> QED BY <1>5

Members(q) == {q[i] : i \in DOMAIN q}

(* What a queue of K is to the one it comes from.                           *)
KeepsOf(q, n, K, r) ==
  /\ r \in Seq(Tabs)
  /\ Members(r) = {q[i] : i \in 1 .. n} \cap K
  /\ IsInjective(q) => IsInjective(r)

Recursion(q, n, K, f) ==
  f = [i \in 0 .. n |-> IF i = 0 THEN <<>>
                        ELSE IF q[i] \in K THEN Append(f[i - 1], q[i]) ELSE f[i - 1]]

LEMMA AppendedMembers ==
  ASSUME NEW S, NEW r \in Seq(S), NEW t \in S
  PROVE  /\ Append(r, t) \in Seq(S)
         /\ Members(Append(r, t)) = Members(r) \cup {t}
         /\ IsInjective(r) /\ t \notin Members(r) => IsInjective(Append(r, t))
<1> DEFINE u == Append(r, t)
           n == Len(r)
<1>1. /\ u \in Seq(S) /\ n \in Nat /\ DOMAIN r = 1 .. n /\ DOMAIN u = 1 .. n + 1
      /\ u[n + 1] = t /\ \A i \in 1 .. n : u[i] = r[i]
  OBVIOUS
<1> HIDE DEF u, n
<1>2. Members(u) = Members(r) \cup {t}
  <2>1. Members(u) \subseteq Members(r) \cup {t}
    BY <1>1 DEF Members
  <2>2. Members(r) \subseteq Members(u)
    BY <1>1 DEF Members
  <2>3. n + 1 \in DOMAIN u
    BY <1>1
  <2>4. t \in Members(u)
    BY <1>1, <2>3 DEF Members
  <2> QED BY <2>1, <2>2, <2>4
<1>3. ASSUME IsInjective(r), t \notin Members(r) PROVE IsInjective(u)
  <2> SUFFICES ASSUME NEW a \in DOMAIN u, NEW b \in DOMAIN u, u[a] = u[b] PROVE a = b
    BY DEF IsInjective
  <2>1. \A i \in 1 .. n : r[i] # t
    BY <1>1, <1>3 DEF Members
  <2>2. CASE a \in 1 .. n /\ b \in 1 .. n
    BY <1>1, <1>3, <2>2 DEF IsInjective
  <2>3. CASE a = n + 1 \/ b = n + 1
    BY <1>1, <2>1, <2>3
  <2> QED BY <1>1, <2>2, <2>3
<1> QED BY <1>1, <1>2, <1>3 DEF u

LEMMA KeptIsDefined ==
  ASSUME NEW q \in Seq(Tabs), NEW K, NEW n \in 0 .. Len(q)
  PROVE  \E f : Recursion(q, n, K, f)
<1> DEFINE Fine(m) == \E f : Recursion(q, m, K, f)
           T == {m \in 0 .. Len(q) : ~Fine(m)}
<1>1. Len(q) \in Nat
  OBVIOUS
<1>2. SUFFICES ASSUME T # {} PROVE FALSE
  OBVIOUS
<1>3. PICK m \in T : \A k \in T : m <= k
  <2>1. T \in SUBSET Nat
    BY <1>1
  <2> HIDE DEF T
  <2> QED BY <1>2, <2>1, LeastNumber
<1>4. m \in 0 .. Len(q) /\ ~Fine(m)
  OBVIOUS
<1>5. Fine(0)
  <2>1. Recursion(q, 0, K, [i \in 0 .. 0 |-> <<>>])
    BY DEF Recursion
  <2> QED BY <2>1
<1>6. CASE m # 0
  <2>1. m - 1 \in 0 .. Len(q) /\ m - 1 \notin T /\ m \in 1 .. Len(q)
    BY <1>1, <1>3, <1>4, <1>6
  <2>2. PICK f : Recursion(q, m - 1, K, f)
    BY <2>1
  <2> DEFINE last == IF q[m] \in K THEN Append(f[m - 1], q[m]) ELSE f[m - 1]
             g == [i \in 0 .. m |-> IF i = m THEN last ELSE f[i]]
             e(i) == IF i = 0 THEN <<>>
                     ELSE IF q[i] \in K THEN Append(g[i - 1], q[i]) ELSE g[i - 1]
  <2>3. \A i \in 0 .. m - 1 :
          f[i] = IF i = 0 THEN <<>>
                 ELSE IF q[i] \in K THEN Append(f[i - 1], q[i]) ELSE f[i - 1]
    BY <2>2 DEF Recursion
  <2>4. g[m] = last /\ \A i \in 0 .. m - 1 : g[i] = f[i]
    BY <2>1
  <2>5. ASSUME NEW i \in 0 .. m PROVE g[i] = e(i)
    <3>1. CASE i = m
      <4>1. g[m - 1] = f[m - 1] /\ m # 0
        BY <2>1, <2>4
      <4> QED BY <2>4, <3>1, <4>1
    <3>2. CASE i \in 0 .. m - 1
      <4>1. i = 0 \/ (i - 1 \in 0 .. m - 1)
        BY <2>1, <3>2
      <4>2. g[i] = f[i] /\ (i # 0 => g[i - 1] = f[i - 1])
        BY <2>4, <3>2, <4>1
      <4> HIDE DEF g
      <4> QED BY <2>3, <3>2, <4>2
    <3> QED BY <2>1, <3>1, <3>2
  <2>6. g = [i \in 0 .. m |-> g[i]]
    OBVIOUS
  <2> HIDE DEF g
  <2>7. Recursion(q, m, K, g)
    BY <2>5, <2>6 DEF Recursion
  <2> QED BY <1>4, <2>7
<1> QED BY <1>4, <1>5, <1>6

LEMMA RecursionKeeps ==
  ASSUME NEW q \in Seq(Tabs), NEW K, NEW f, Recursion(q, Len(q), K, f), NEW n \in 0 .. Len(q)
  PROVE  KeepsOf(q, n, K, f[n])
<1> DEFINE T == {m \in 0 .. Len(q) : ~KeepsOf(q, m, K, f[m])}
<1>1. Len(q) \in Nat /\ DOMAIN q = 1 .. Len(q)
  OBVIOUS
<1>2. SUFFICES ASSUME T # {} PROVE FALSE
  OBVIOUS
<1>3. PICK m \in T : \A k \in T : m <= k
  <2>1. T \in SUBSET Nat
    BY <1>1
  <2> HIDE DEF T
  <2> QED BY <1>2, <2>1, LeastNumber
<1>4. m \in 0 .. Len(q) /\ ~KeepsOf(q, m, K, f[m])
  OBVIOUS
<1>5. CASE m = 0
  <2> DEFINE none == <<>>
  <2>1. f[0] = none
    BY <1>1 DEF Recursion
  <2>2. none \in Seq(Tabs) /\ DOMAIN none = {} /\ 1 .. 0 = {}
    OBVIOUS
  <2> HIDE DEF none
  <2>3. KeepsOf(q, 0, K, none)
    BY <2>2 DEF KeepsOf, Members, IsInjective
  <2> QED BY <1>4, <1>5, <2>1, <2>3
<1>6. CASE m # 0
  <2>1. m - 1 \in 0 .. Len(q) /\ m - 1 \notin T /\ m \in 1 .. Len(q)
    BY <1>1, <1>3, <1>4, <1>6
  <2> DEFINE r == f[m - 1]
             old == {q[i] : i \in 1 .. m - 1}
             all == {q[i] : i \in 1 .. m}
  <2>2. r \in Seq(Tabs) /\ Members(r) = old \cap K /\ (IsInjective(q) => IsInjective(r))
    BY <2>1 DEF KeepsOf
  <2>3. f[m] = IF q[m] \in K THEN Append(r, q[m]) ELSE r
    BY <1>1, <1>4, <1>6 DEF Recursion
  <2>4. q[m] \in Tabs
    BY <1>1, <2>1
  <2>5. all = old \cup {q[m]}
    BY <2>1
  <2>6. IsInjective(q) => q[m] \notin old
    <3> SUFFICES ASSUME IsInjective(q), NEW i \in 1 .. m - 1, q[i] = q[m] PROVE FALSE
      OBVIOUS
    <3>1. i \in DOMAIN q /\ m \in DOMAIN q /\ i # m
      BY <1>1, <2>1
    <3> QED BY <3>1 DEF IsInjective
  <2> HIDE DEF r, old, all, T
  <2>7. CASE q[m] \in K
    <3> DEFINE last == Append(r, q[m])
    <3>1. /\ last \in Seq(Tabs) /\ Members(last) = Members(r) \cup {q[m]}
          /\ IsInjective(r) /\ q[m] \notin Members(r) => IsInjective(last)
      BY <2>2, <2>4, AppendedMembers
    <3>2. f[m] = last
      BY <2>3, <2>7
    <3> HIDE DEF last
    <3>3. Members(last) = all \cap K
      BY <2>2, <2>5, <2>7, <3>1
    <3> QED BY <1>4, <2>2, <2>6, <3>1, <3>2, <3>3 DEF KeepsOf, all
  <2>8. CASE q[m] \notin K
    <3>1. f[m] = r /\ Members(r) = all \cap K
      BY <2>2, <2>3, <2>5, <2>8
    <3> QED BY <1>4, <2>2, <3>1 DEF KeepsOf, all
  <2> QED BY <2>7, <2>8
<1> QED BY <1>5, <1>6

LEMMA KeptQueue ==
  ASSUME NEW q \in Seq(Tabs), NEW K
  PROVE  /\ Kept(q, K) \in Seq(Tabs)
         /\ Members(Kept(q, K)) = Members(q) \cap K
         /\ IsInjective(q) => IsInjective(Kept(q, K))
<1> DEFINE n == Len(q)
           f == CHOOSE f : Recursion(q, n, K, f)
<1>1. n \in 0 .. Len(q) /\ DOMAIN q = 1 .. n /\ n = Len(q)
  OBVIOUS
<1>2. Kept(q, K) = f[n]
  BY ZenonT(30) DEF Kept, Recursion
<1> HIDE DEF n
<1>3. Recursion(q, n, K, f)
  BY <1>1, KeptIsDefined
<1> HIDE DEF f
<1>4. KeepsOf(q, n, K, f[n])
  BY <1>1, <1>3, RecursionKeeps
<1> QED BY ZenonT(60), <1>1, <1>2, <1>4 DEF KeepsOf, Members


(* SetToSeq lists a finite set: an injection of its size leaves nothing out. *)
LEMMA ListedSet ==
  ASSUME NEW S, IsFiniteSet(S)
  PROVE  /\ SetToSeq(S) \in Seq(S)
         /\ IsInjective(SetToSeq(S)) /\ Members(SetToSeq(S)) = S
<1> DEFINE n == Cardinality(S)
           L == {f \in [1 .. n -> S] : IsInjective(f)}
           s == CHOOSE f \in [1 .. n -> S] : IsInjective(f)
<1>1. n \in Nat /\ ExistsBijection(1 .. n, S)
  BY FS_CardinalityType
<1>2. PICK b : b \in Bijection(1 .. n, S)
  BY <1>1 DEF ExistsBijection
<1>3. b \in [1 .. n -> S] /\ IsInjective(b)
  BY <1>2 DEF Bijection, Injection, IsInjective
<1>4. s \in [1 .. n -> S] /\ IsInjective(s)
  BY <1>3
<1>5. SetToSeq(S) = s
  BY DEF SetToSeq
<1> HIDE DEF s
<1>6. s \in Injection(1 .. n, S)
  BY <1>4 DEF Injection, IsInjective
<1>7. IsFiniteSet(1 .. n) /\ Cardinality(1 .. n) = n
  BY <1>1, FS_Interval
<1>8. s \in Surjection(1 .. n, S)
  BY <1>6, <1>7, FS_Injection
<1>9. Members(s) = S
  BY <1>4, <1>8 DEF Members, Surjection
<1>10. s \in Seq(S)
  <2> HIDE DEF n
  <2> QED BY <1>1, <1>4, SeqDef
<1> QED BY <1>4, <1>5, <1>9, <1>10

(* Operations on the record of the queue.                                   *)
HydrationType == [queue : Seq(Tabs), inflight : Tabs \cup {NoTab},
                  timer : BOOLEAN, missed : BOOLEAN]

Queue(h) == h \in HydrationType /\ IsInjective(h.queue)

LEMMA ScheduledQueue ==
  ASSUME NEW h, Queue(h), NEW paused \in BOOLEAN
  PROVE  LET g == Schedule(h, paused) IN
         /\ Queue(g) /\ g.queue = h.queue /\ g.inflight = h.inflight
         /\ g.timer \/ g.inflight # NoTab \/ paused
BY DEF Queue, HydrationType, Schedule

LEMMA ShortenedQueue ==
  ASSUME NEW h, Queue(h), NEW t
  PROVE  LET g == RemoveHydration(h, t) IN
         /\ Queue(g) /\ Members(g.queue) = Members(h.queue) \ {t}
         /\ g.inflight = IF h.inflight = t THEN NoTab ELSE h.inflight
         /\ g.timer = h.timer /\ g.missed = h.missed
<1> DEFINE rest == Without(h.queue, t)
<1>1. h \in HydrationType /\ h.queue \in Seq(Tabs) /\ IsInjective(h.queue)
  BY DEF Queue, HydrationType
<1>2. Members(h.queue) \subseteq Tabs
  BY <1>1 DEF Members
<1>3. rest \in Seq(Tabs) /\ IsInjective(rest) /\ Members(rest) = Members(h.queue) \ {t}
  BY <1>1, <1>2, KeptQueue DEF Without
<1>4. RemoveHydration(h, t) =
        [h EXCEPT !.queue = rest, !.inflight = IF @ = t THEN NoTab ELSE @]
  BY DEF RemoveHydration
<1> HIDE DEF rest
<1> QED BY <1>1, <1>3, <1>4 DEF Queue, HydrationType

LEMMA PrependedMembers ==
  ASSUME NEW S, NEW r \in Seq(S), NEW t \in S
  PROVE  /\ <<t>> \o r \in Seq(S)
         /\ Members(<<t>> \o r) = Members(r) \cup {t}
         /\ IsInjective(r) /\ t \notin Members(r) => IsInjective(<<t>> \o r)
<1> DEFINE one == <<t>>
           u == one \o r
           n == Len(r)
<1>1. /\ u \in Seq(S) /\ n \in Nat /\ DOMAIN r = 1 .. n /\ DOMAIN u = 1 .. n + 1
      /\ u[1] = t /\ \A i \in 1 .. n : u[i + 1] = r[i]
  <2>1. one \in Seq(S) /\ Len(one) = 1 /\ one[1] = t
    OBVIOUS
  <2> HIDE DEF one
  <2>2. /\ u \in Seq(S) /\ Len(u) = 1 + n
        /\ \A i \in 1 .. 1 + n : u[i] = IF i <= 1 THEN one[i] ELSE r[i - 1]
    <3>1. /\ u \in Seq(S) /\ Len(u) = Len(one) + n
          /\ \A i \in 1 .. Len(one) + n :
               u[i] = IF i <= Len(one) THEN one[i] ELSE r[i - Len(one)]
      BY <2>1, ConcatProperties
    <3> HIDE DEF u, n
    <3> QED BY <2>1, <3>1
  <2>3. n \in Nat /\ DOMAIN r = 1 .. n /\ DOMAIN u = 1 .. Len(u)
    BY <2>2
  <2> HIDE DEF u, n
  <2>4. u[1] = t
    BY <2>1, <2>2, <2>3
  <2>5. ASSUME NEW i \in 1 .. n PROVE u[i + 1] = r[i]
    <3>1. i + 1 \in 1 .. 1 + n /\ ~(i + 1 <= 1) /\ (i + 1) - 1 = i
      BY <2>3
    <3> QED BY <2>2, <3>1
  <2> QED BY <2>2, <2>3, <2>4, <2>5
<1> HIDE DEF u, n
<1>2. \A i \in DOMAIN u : i = 1 \/ (i - 1 \in 1 .. n /\ u[i] = r[i - 1])
  <2> SUFFICES ASSUME NEW i \in DOMAIN u, i # 1 PROVE i - 1 \in 1 .. n /\ u[i] = r[i - 1]
    OBVIOUS
  <2>1. i - 1 \in 1 .. n /\ (i - 1) + 1 = i
    BY <1>1
  <2> QED BY <1>1, <2>1
<1>3. Members(u) = Members(r) \cup {t}
  <2>1. Members(u) \subseteq Members(r) \cup {t}
    BY <1>1, <1>2 DEF Members
  <2>2. \A i \in 1 .. n : i + 1 \in DOMAIN u
    BY <1>1
  <2>3. Members(r) \subseteq Members(u)
    BY <1>1, <2>2 DEF Members
  <2>4. 1 \in DOMAIN u
    BY <1>1
  <2>5. t \in Members(u)
    BY <1>1, <2>4 DEF Members
  <2> QED BY <2>1, <2>3, <2>5
<1>4. ASSUME IsInjective(r), t \notin Members(r) PROVE IsInjective(u)
  <2> SUFFICES ASSUME NEW a \in DOMAIN u, NEW b \in DOMAIN u, u[a] = u[b] PROVE a = b
    BY DEF IsInjective
  <2>1. \A i \in 1 .. n : r[i] # t
    BY <1>1, <1>4 DEF Members
  <2>2. CASE a # 1 /\ b # 1
    <3>1. /\ a - 1 \in DOMAIN r /\ b - 1 \in DOMAIN r /\ r[a - 1] = r[b - 1]
          /\ a \in Nat /\ b \in Nat
      BY <1>1, <1>2, <2>2
    <3>2. a - 1 = b - 1
      BY <1>4, <3>1 DEF IsInjective
    <3> QED BY <3>1, <3>2
  <2>3. CASE a = 1 \/ b = 1
    BY <1>1, <1>2, <2>1, <2>3
  <2> QED BY <2>2, <2>3
<1> QED BY <1>1, <1>3, <1>4 DEF u

LEMMA EnqueuedQueue ==
  ASSUME NEW h, Queue(h), NEW t \in Tabs, NEW prioritize \in BOOLEAN, NEW paused \in BOOLEAN
  PROVE  LET g == Enqueue(h, t, prioritize, paused) IN
         /\ Queue(g)
         /\ Members(g.queue) = (Members(h.queue) \ {t}) \cup ({t} \ {h.inflight})
         /\ g.inflight = h.inflight
         /\ g.timer \/ g.inflight # NoTab \/ paused
<1> DEFINE rest == Without(h.queue, t)
           q    == IF h.inflight = t THEN rest
                   ELSE IF prioritize THEN <<t>> \o rest ELSE Append(rest, t)
           u == [h EXCEPT !.queue = q]
<1>1. h \in HydrationType /\ h.queue \in Seq(Tabs) /\ IsInjective(h.queue)
  BY DEF Queue, HydrationType
<1>2. Members(h.queue) \subseteq Tabs
  BY <1>1 DEF Members
<1>3. rest \in Seq(Tabs) /\ IsInjective(rest) /\ Members(rest) = Members(h.queue) \ {t}
  BY <1>1, <1>2, KeptQueue DEF Without
<1>4. Enqueue(h, t, prioritize, paused) = Schedule(u, paused)
  BY DEF Enqueue
<1> HIDE DEF rest
<1>5. /\ q \in Seq(Tabs) /\ IsInjective(q)
      /\ Members(q) = (Members(h.queue) \ {t}) \cup ({t} \ {h.inflight})
  <2>1. CASE h.inflight = t
    BY <1>3, <2>1
  <2>2. CASE h.inflight # t /\ prioritize
    <3> DEFINE first == <<t>> \o rest
    <3>1. first \in Seq(Tabs) /\ IsInjective(first) /\ Members(first) = Members(rest) \cup {t}
      BY <1>3, PrependedMembers
    <3>2. q = first
      BY <2>2
    <3> HIDE DEF first, q
    <3> QED BY <1>3, <2>2, <3>1, <3>2
  <2>3. CASE h.inflight # t /\ ~prioritize
    <3> DEFINE last == Append(rest, t)
    <3>1. last \in Seq(Tabs) /\ IsInjective(last) /\ Members(last) = Members(rest) \cup {t}
      BY <1>3, AppendedMembers
    <3>2. q = last
      BY <2>3
    <3> HIDE DEF last, q
    <3> QED BY <1>3, <2>3, <3>1, <3>2
  <2> QED BY <2>1, <2>2, <2>3
<1> HIDE DEF q
<1>6. Queue(u) /\ u.queue = q /\ u.inflight = h.inflight
  BY <1>1, <1>5 DEF Queue, HydrationType
<1> HIDE DEF u
<1> DEFINE g == Schedule(u, paused)
<1>7. /\ Queue(g) /\ g.queue = u.queue /\ g.inflight = u.inflight
      /\ g.timer \/ g.inflight # NoTab \/ paused
  BY <1>6, ScheduledQueue
<1> HIDE DEF g
<1> QED BY <1>4, <1>5, <1>6, <1>7 DEF g


(* The same where the place is known.                                       *)
LEMMA EnqueuedFirst ==
  ASSUME NEW h, Queue(h), NEW t \in Tabs, NEW paused \in BOOLEAN
  PROVE  LET g == Enqueue(h, t, TRUE, paused) IN
         /\ Queue(g)
         /\ Members(g.queue) = (Members(h.queue) \ {t}) \cup ({t} \ {h.inflight})
         /\ g.inflight = h.inflight
         /\ g.timer \/ g.inflight # NoTab \/ paused
BY EnqueuedQueue, Zenon

LEMMA EnqueuedLast ==
  ASSUME NEW h, Queue(h), NEW t \in Tabs, NEW paused \in BOOLEAN
  PROVE  LET g == Enqueue(h, t, FALSE, paused) IN
         /\ Queue(g)
         /\ Members(g.queue) = (Members(h.queue) \ {t}) \cup ({t} \ {h.inflight})
         /\ g.inflight = h.inflight
         /\ g.timer \/ g.inflight # NoTab \/ paused
BY EnqueuedQueue, Zenon

LEMMA JoinedQueue ==
  ASSUME NEW S, NEW r \in Seq(S), NEW s \in Seq(S)
  PROVE  /\ r \o s \in Seq(S)
         /\ Members(r \o s) = Members(r) \cup Members(s)
         /\ IsInjective(r) /\ IsInjective(s) /\ Members(r) \cap Members(s) = {} =>
              IsInjective(r \o s)
<1> DEFINE u == r \o s
           m == Len(r)
           n == Len(s)
<1>1. /\ u \in Seq(S) /\ Len(u) = m + n
      /\ \A i \in 1 .. m + n : u[i] = IF i <= m THEN r[i] ELSE s[i - m]
  BY ConcatProperties
<1>2. /\ m \in Nat /\ n \in Nat /\ DOMAIN r = 1 .. m /\ DOMAIN s = 1 .. n
      /\ DOMAIN u = 1 .. m + n
  BY <1>1
<1> HIDE DEF u, m, n
<1>3. \A i \in 1 .. m : i \in DOMAIN u /\ u[i] = r[i]
  BY <1>1, <1>2
<1>4. ASSUME NEW i \in 1 .. n PROVE m + i \in DOMAIN u /\ u[m + i] = s[i]
  <2>1. m + i \in 1 .. m + n /\ ~(m + i <= m) /\ (m + i) - m = i
    BY <1>2
  <2> QED BY <1>1, <1>2, <2>1
<1>5. ASSUME NEW i \in DOMAIN u
      PROVE  \/ i \in 1 .. m /\ u[i] = r[i]
             \/ i - m \in 1 .. n /\ u[i] = s[i - m]
  <2>1. i \in 1 .. m \/ (~(i <= m) /\ i - m \in 1 .. n)
    BY <1>2
  <2> QED BY <1>1, <1>2, <2>1
<1>6. Members(u) = Members(r) \cup Members(s)
  <2>1. Members(u) \subseteq Members(r) \cup Members(s)
    BY <1>2, <1>5 DEF Members
  <2>2. Members(r) \subseteq Members(u) /\ Members(s) \subseteq Members(u)
    BY <1>2, <1>3, <1>4 DEF Members
  <2> QED BY <2>1, <2>2
<1>7. ASSUME IsInjective(r), IsInjective(s), Members(r) \cap Members(s) = {}
      PROVE  IsInjective(u)
  <2> SUFFICES ASSUME NEW a \in DOMAIN u, NEW b \in DOMAIN u, u[a] = u[b] PROVE a = b
    BY DEF IsInjective
  <2>1. a \in Int /\ b \in Int /\ m \in Int
    BY <1>2
  <2>2. ASSUME NEW i \in 1 .. m, NEW j \in 1 .. n PROVE r[i] # s[j]
    BY <1>2, <1>7 DEF Members
  <2>3. CASE a \in 1 .. m /\ u[a] = r[a]
    BY <1>2, <1>5, <1>7, <2>2, <2>3 DEF IsInjective
  <2>4. CASE a - m \in 1 .. n /\ u[a] = s[a - m]
    <3>1. b - m \in 1 .. n /\ u[b] = s[b - m]
      BY <1>5, <2>2, <2>4
    <3>2. a - m = b - m
      BY <1>2, <1>7, <2>4, <3>1 DEF IsInjective
    <3> QED BY <2>1, <3>2
  <2> QED BY <1>5, <2>3, <2>4
<1> QED BY <1>1, <1>6, <1>7 DEF u

(* A tab the queue knows of.                                                *)
Covered(h, t) == h.inflight = t \/ t \in Members(h.queue)

LEMMA AfterChangeQueue ==
  ASSUME NEW f, Queue(f), f.inflight = hydration.inflight,
         NEW paused \in BOOLEAN, NEW u, NEW remaining
  PROVE  LET h == AfterChange(f, u, remaining, paused) IN
         /\ Queue(h)
         /\ h.inflight = IF Interrupts(u) THEN NoTab ELSE hydration.inflight
         /\ h.timer \/ h.inflight # NoTab \/ paused
         /\ \A t \in Tabs : Covered(f, t) /\ t \in remaining /\ Needs(t) => Covered(h, t)
<1> DEFINE other == f.inflight
           idle  == [f EXCEPT !.inflight = NoTab]
           back  == IF other \in remaining /\ Needs(other)
                    THEN Enqueue(idle, other, FALSE, paused) ELSE idle
           from  == IF Interrupts(u) THEN back ELSE f
           h == AfterChange(f, u, remaining, paused)
<1>1. h = IF u \notin Tabs \/ ~Needs(u) THEN Schedule(f, paused)
          ELSE Enqueue(from, u, TRUE, paused)
  BY DEF AfterChange
<1>2. Queue(idle) /\ idle.inflight = NoTab /\ idle.queue = f.queue
  BY DEF Queue, HydrationType
<1> HIDE DEF h, idle
<1>3. CASE u \notin Tabs \/ ~Needs(u)
  <2> DEFINE g == Schedule(f, paused)
  <2>1. /\ Queue(g) /\ g.queue = f.queue /\ g.inflight = f.inflight
        /\ g.timer \/ g.inflight # NoTab \/ paused
    BY ScheduledQueue
  <2>2. h = g /\ ~Interrupts(u)
    BY <1>1, <1>3 DEF Interrupts
  <2> HIDE DEF g
  <2> QED BY <2>1, <2>2 DEF h, Covered
<1>4. CASE u \in Tabs /\ Needs(u)
  <2>1. /\ Queue(from) /\ from.inflight = IF Interrupts(u) THEN NoTab ELSE other
        /\ \A t \in Tabs : Covered(f, t) /\ t \in remaining /\ Needs(t) =>
             Covered(from, t)
    <3>1. CASE ~Interrupts(u)
      BY <3>1
    <3>2. CASE Interrupts(u) /\ other \in remaining /\ Needs(other)
      <4>1. other \in Tabs /\ other # NoTab
        BY <3>2 DEF Queue, HydrationType, Interrupts
      <4> DEFINE g == Enqueue(idle, other, FALSE, paused)
      <4>2. /\ Queue(g) /\ g.inflight = idle.inflight
            /\ Members(g.queue) = (Members(idle.queue) \ {other}) \cup ({other} \ {idle.inflight})
        <5> DEFINE put(x, t) == Enqueue(x, t, FALSE, paused)
        <5>1. \A x, t : Queue(x) /\ t \in Tabs =>
                /\ Queue(put(x, t)) /\ put(x, t).inflight = x.inflight
                /\ Members(put(x, t).queue) = (Members(x.queue) \ {t}) \cup ({t} \ {x.inflight})
          BY ZenonT(60), EnqueuedLast
        <5>2. g = put(idle, other)
          OBVIOUS
        <5> HIDE DEF put, g
        <5> QED BY <1>2, <4>1, <5>1, <5>2
      <4>3. from = g
        BY <3>2
      <4> HIDE DEF g, from
      <4> QED BY <1>2, <3>2, <4>1, <4>2, <4>3 DEF Covered
    <3>3. CASE Interrupts(u) /\ ~(other \in remaining /\ Needs(other))
      <4>1. from = idle
        BY <3>3
      <4> HIDE DEF from
      <4> QED BY <1>2, <3>3, <4>1 DEF Covered
    <3> QED BY <3>1, <3>2, <3>3
  <2> HIDE DEF from
  <2> DEFINE g == Enqueue(from, u, TRUE, paused)
  <2>2. /\ Queue(g) /\ g.inflight = from.inflight
        /\ Members(g.queue) = (Members(from.queue) \ {u}) \cup ({u} \ {from.inflight})
        /\ g.timer \/ g.inflight # NoTab \/ paused
    BY ZenonT(60), <1>4, <2>1, EnqueuedFirst
  <2>3. h = g
    BY <1>1, <1>4
  <2> HIDE DEF g
  <2> QED BY <2>1, <2>2, <2>3 DEF h, Covered
<1> QED BY <1>3, <1>4

-----------------------------------------------------------------------------
(* The queue over the steps.                                               *)

QueueTyped ==
  /\ current \in open \cup {NoTab} /\ Queue(hydration)
  /\ fetching \in BOOLEAN /\ maintenance \in BOOLEAN /\ unattended \in BOOLEAN
  /\ moves \in 0 .. MaxMoves

Remembered == \A t \in open : Needs(t) /\ ~unattended => Covered(hydration, t)

(* Somebody looks after those that wait.                                    *)
Awake ==
  (\E t \in Members(hydration.queue) : Waits(t)) =>
    hydration.inflight # NoTab \/ Paused \/ unattended \/ hydration.timer
      \/ hydration.missed

QueueInv == QueueTyped /\ Remembered /\ Awake

LEMMA CountedMoves ==
  ASSUME moves \in 0 .. MaxMoves
  PROVE  /\ \A kind : Event(kind) => moves' \in 0 .. MaxMoves
         /\ Quietly => moves' \in 0 .. MaxMoves /\ unattended' = unattended
BY TabLoadingAssumption DEF Event, Quietly

(* Steps that leave the queue alone: nothing new waits.                     *)
LEMMA StillQueue ==
  ASSUME IInv, QueueInv, UNCHANGED <<open, current, hydration, fetching, maintenance>>,
         moves' \in 0 .. MaxMoves, unattended' \in BOOLEAN, unattended => unattended',
         \A t \in Tabs : Needs(t)' /\ ~unattended' => Needs(t)
  PROVE  QueueInv'
<1>1. QueueTyped'
  BY DEF QueueInv, QueueTyped
<1>2. open \subseteq Tabs /\ open' = open /\ hydration' = hydration
  BY DEF IInv
<1>3. Remembered'
  BY <1>2 DEF QueueInv, Remembered
<1>4. Awake'
  <2> SUFFICES ASSUME NEW t \in Members(hydration'.queue), Waits(t)', ~unattended'
               PROVE  \/ hydration'.inflight # NoTab \/ Paused'
                      \/ hydration'.timer \/ hydration'.missed
    BY DEF Awake
  <2>1. t \in Tabs /\ Waits(t)
    BY <1>2 DEF Waits
  <2> QED BY <1>2, <2>1 DEF QueueInv, Awake, Paused
<1> QED BY <1>1, <1>3, <1>4 DEF QueueInv

(* The tab keeps what it needs.                                             *)
LEMMA SameNeeds ==
  ASSUME IInv, NEW t \in Tabs, NEW v, tab' = [tab EXCEPT ![t] = v],
         v.completed = tab[t].completed
  PROVE  \A x \in Tabs : Needs(x)' = Needs(x)
BY DEF IInv, Needs


(* A step of one tab that changes nothing around it.                        *)
LEMMA StillTab ==
  ASSUME IInv, QueueInv, NEW t \in Tabs, NEW v, tab' = [tab EXCEPT ![t] = v],
         v.completed = tab[t].completed \/ v.completed = TRUE,
         UNCHANGED <<open, current, hydration, fetching, maintenance, unattended>>,
         moves' \in 0 .. MaxMoves
  PROVE  QueueInv'
<1>1. \A x \in Tabs : Needs(x)' => Needs(x)
  BY DEF IInv, Needs
<1>2. unattended' \in BOOLEAN /\ (unattended => unattended')
  BY DEF QueueInv, QueueTyped
<1> QED BY <1>1, <1>2, StillQueue

LEMMA ListStepsStill ==
  ASSUME IInv, QueueInv, NEW t \in Tabs,
         ReloadTab(t) \/ AppendItems(t) \/ FilterTimeout(t)
           \/ \E s \in Scopes : TypeFilter(t, s) \/ ChangeScope(t, s)
  PROVE  QueueInv'
<1>1. TabInv(tab[t]) /\ moves \in 0 .. MaxMoves
  BY TabOfIInv DEF QueueInv, QueueTyped
<1>2. CASE ReloadTab(t)
  <2>1. PICK inTime \in BOOLEAN : tab' = [tab EXCEPT ![t] = Load(tab[t], FALSE, inTime)]
    BY <1>2 DEF ReloadTab
  <2>2. Load(tab[t], FALSE, inTime).completed = tab[t].completed
    BY <1>1, <1>2, LoadInv DEF ReloadTab
  <2>3. moves' \in 0 .. MaxMoves
    BY <1>1, <1>2, CountedMoves DEF ReloadTab
  <2> QED BY <1>2, <2>1, <2>2, <2>3, StillTab DEF ReloadTab
<1>3. CASE AppendItems(t)
  <2>1. PICK inTime \in BOOLEAN : tab' = [tab EXCEPT ![t] = Load(tab[t], TRUE, inTime)]
    BY <1>3 DEF AppendItems
  <2>2. CanRequest(tab[t]) /\ ~tab[t].more /\ Len(tab[t].rows) < tab[t].total
    BY <1>3 DEF AppendItems
  <2>3. tab[t].completed
    <3>1. SUFFICES ASSUME ~tab[t].completed PROVE FALSE
      OBVIOUS
    <3>2. tab[t].rows = <<>> /\ tab[t].total = 0
      BY <1>1, <3>1 DEF TabInv
    <3> QED BY <2>2, <3>2
  <2>4. Load(tab[t], TRUE, inTime).completed = tab[t].completed
    BY <1>1, <2>2, <2>3, LoadInv
  <2>5. moves' \in 0 .. MaxMoves
    BY <1>1, <1>3, CountedMoves DEF AppendItems
  <2> QED BY <1>3, <2>1, <2>4, <2>5, StillTab DEF AppendItems
<1>4. CASE FilterTimeout(t)
  <2> DEFINE v == [tab[t] EXCEPT !.filterTimer = FALSE]
             same == (v.scope = v.rowsScope /\ v.offset <= 1) \/ maintenance
  <2>1. PICK inTime \in BOOLEAN :
          tab' = [tab EXCEPT ![t] = IF same THEN v ELSE Load(v, FALSE, inTime)]
    BY <1>4 DEF FilterTimeout
  <2>2. TabInv(v) /\ v.completed = tab[t].completed
    BY <1>1, TimerInv
  <2>3. CanRequest(v)
    <3>1. tab[t] \in TabType
      BY <1>1 DEF TabInv
    <3>2. Used(v) = Used(tab[t])
      BY <3>1 DEF Used, TabType
    <3> QED BY <1>4, <3>2 DEF FilterTimeout, CanRequest
  <2>4. /\ moves' \in 0 .. MaxMoves
        /\ UNCHANGED <<open, current, hydration, fetching, maintenance, unattended>>
    BY <1>1, <1>4, CountedMoves DEF FilterTimeout
  <2> HIDE DEF v, same
  <2>5. Load(v, FALSE, inTime).completed = v.completed
    BY <2>2, <2>3, LoadInv
  <2> DEFINE w == IF same THEN v ELSE Load(v, FALSE, inTime)
  <2>6. w.completed = tab[t].completed /\ tab' = [tab EXCEPT ![t] = w]
    BY <2>1, <2>2, <2>5
  <2> HIDE DEF w
  <2> QED BY <2>4, <2>6, StillTab
<1>5. ASSUME NEW s \in Scopes, TypeFilter(t, s) PROVE QueueInv'
  <2> DEFINE w == [tab[t] EXCEPT !.scope = s, !.filterTimer = TRUE]
  <2>1. w.completed = tab[t].completed
    BY <1>1, ControlsInv
  <2>2. tab' = [tab EXCEPT ![t] = w] /\ moves' \in 0 .. MaxMoves
    BY <1>1, <1>5, CountedMoves DEF TypeFilter
  <2> HIDE DEF w
  <2> QED BY <1>5, <2>1, <2>2, StillTab DEF TypeFilter
<1>6. ASSUME NEW s \in Scopes, ChangeScope(t, s) PROVE QueueInv'
  <2> DEFINE v == [tab[t] EXCEPT !.scope = s]
  <2>1. PICK inTime \in BOOLEAN : tab' = [tab EXCEPT ![t] = Load(v, FALSE, inTime)]
    BY <1>6 DEF ChangeScope
  <2>2. TabInv(v) /\ v.completed = tab[t].completed
    BY <1>1, ScopeInv
  <2>3. CanRequest(v)
    <3>1. tab[t] \in TabType
      BY <1>1 DEF TabInv
    <3>2. Used(v) = Used(tab[t])
      BY <3>1 DEF Used, TabType
    <3> QED BY <1>6, <3>2 DEF ChangeScope, CanRequest
  <2>4. moves' \in 0 .. MaxMoves
    BY <1>1, <1>6, CountedMoves DEF ChangeScope
  <2> HIDE DEF v
  <2>5. Load(v, FALSE, inTime).completed = tab[t].completed
    BY <2>2, <2>3, LoadInv
  <2> QED BY <1>6, <2>1, <2>4, <2>5, StillTab DEF ChangeScope
<1> QED BY <1>2, <1>3, <1>4, <1>5, <1>6

LEMMA ThreadStepsStill ==
  ASSUME IInv, QueueInv, NEW t \in Tabs, NEW r \in Requests,
         EmitData(t, r) \/ EmitError(t, r) \/ EndThread(t, r) \/ OnIgnored(t, r)
  PROVE  QueueInv'
<1>1. TabInv(tab[t]) /\ tab[t] \in TabType /\ moves \in 0 .. MaxMoves
  BY TabOfIInv DEF QueueInv, QueueTyped, TabInv
<1>2. ASSUME NEW kind, Emit(t, r, kind), moves' \in 0 .. MaxMoves PROVE QueueInv'
  <2> DEFINE job == [tab[t].jobs[r] EXCEPT !.state = "emitted", !.mail = kind]
             w == [tab[t] EXCEPT !.jobs[r] = job]
  <2>1. tab' = [tab EXCEPT ![t] = w]
    BY <1>2 DEF Emit
  <2>2. w.completed = tab[t].completed
    BY <1>1 DEF TabType
  <2> HIDE DEF w
  <2> QED BY <1>2, <2>1, <2>2, StillTab DEF Emit
<1>3. EmitData(t, r) \/ EmitError(t, r) => QueueInv'
  BY <1>1, <1>2, CountedMoves DEF EmitData, EmitError
<1>4. CASE EndThread(t, r)
  <2> DEFINE job == Settled([tab[t].jobs[r] EXCEPT !.state = "none"])
             w == [tab[t] EXCEPT !.jobs[r] = job]
  <2>1. tab' = [tab EXCEPT ![t] = Forget(w)]
    BY <1>4 DEF EndThread, Ended
  <2>2. w.completed = tab[t].completed
    BY <1>1 DEF TabType
  <2>3. Forget(w).completed = w.completed
    <3>1. "completed" \in DOMAIN w
      BY <1>1 DEF TabType
    <3> HIDE DEF w
    <3> QED BY <3>1 DEF Forget
  <2>4. /\ moves' \in 0 .. MaxMoves
        /\ UNCHANGED <<open, current, hydration, fetching, maintenance, unattended>>
    BY <1>1, <1>4, CountedMoves DEF EndThread
  <2> HIDE DEF w
  <2> QED BY <2>1, <2>2, <2>3, <2>4, StillTab
<1>5. CASE OnIgnored(t, r)
  <2> DEFINE w == Drop(tab[t], r)
             v == Received(w, r)
  <2>1. Ignored(tab[t], r) /\ tab' = [tab EXCEPT ![t] = v]
    BY <1>5 DEF OnIgnored
  <2>2. /\ TabInv(w) /\ (w.inflight \/ w.more => r # w.newest)
        /\ w.completed = tab[t].completed
    BY <1>1, <2>1, FinalizeInv DEF Drop, Ignored
  <2> HIDE DEF w
  <2>3. v.completed = tab[t].completed
    BY <2>2, ReceivedInv
  <2>4. /\ moves' \in 0 .. MaxMoves
        /\ UNCHANGED <<open, current, hydration, fetching, maintenance, unattended>>
    BY <1>1, <1>5, CountedMoves DEF OnIgnored
  <2> HIDE DEF v
  <2> QED BY <2>1, <2>3, <2>4, StillTab
<1> QED BY <1>3, <1>4, <1>5


(* Steps after which the queue is looked after whoever waits.               *)
LEMMA RestlessQueue ==
  ASSUME QueueTyped', Remembered',
         hydration'.timer \/ hydration'.inflight # NoTab \/ Paused' \/ unattended'
  PROVE  QueueInv'
BY DEF QueueInv, Awake

(* A fetch that is stopped changes neither the list nor what it waits for,  *)
(* and if it was the last one, somebody looks or the end was missed.        *)
LEMMA FetchStoppedQueue ==
  ASSUME QueueInv, NEW still \in {fetching, FALSE}, NEW g \in FetchStopped(still)
  PROVE  /\ Queue(g) /\ g.queue = hydration.queue /\ g.inflight = hydration.inflight
         /\ still \in BOOLEAN /\ (maintenance \/ still) \in BOOLEAN
         /\ (\E t \in Members(hydration.queue) : Waits(t)) =>
              \/ g.inflight # NoTab \/ maintenance \/ still
              \/ unattended \/ g.timer \/ g.missed
<1>1. /\ Queue(hydration) /\ maintenance \in BOOLEAN /\ fetching \in BOOLEAN
      /\ (\E t \in Members(hydration.queue) : Waits(t)) =>
           \/ hydration.inflight # NoTab \/ maintenance \/ fetching
           \/ unattended \/ hydration.timer \/ hydration.missed
  BY DEF QueueInv, QueueTyped, Awake, Paused
<1>2. CASE still = fetching
  BY <1>1, <1>2 DEF FetchStopped
<1>3. CASE still # fetching
  <2> DEFINE looked == Schedule(hydration, maintenance)
             unseen == Unscheduled(hydration, maintenance)
  <2>1. g \in {looked, unseen}
    BY <1>3 DEF FetchStopped
  <2>2. /\ Queue(looked) /\ looked.queue = hydration.queue
        /\ looked.inflight = hydration.inflight
        /\ looked.timer \/ looked.inflight # NoTab \/ maintenance
    BY <1>1, ScheduledQueue
  <2>3. /\ Queue(unseen) /\ unseen.queue = hydration.queue
        /\ unseen.inflight = hydration.inflight
        /\ unseen.missed \/ unseen.timer \/ unseen.inflight # NoTab \/ maintenance
    BY <1>1 DEF Unscheduled, Queue, HydrationType
  <2> HIDE DEF looked, unseen
  <2>4. still \in BOOLEAN /\ (maintenance \/ still) \in BOOLEAN
    BY <1>1
  <2> QED BY <2>1, <2>2, <2>3, <2>4
<1> QED BY <1>2, <1>3

LEMMA QueueFacts ==
  ASSUME QueueInv
  PROVE  /\ Queue(hydration) /\ Paused \in BOOLEAN /\ moves \in 0 .. MaxMoves
         /\ current \in open \cup {NoTab} /\ fetching \in BOOLEAN /\ maintenance \in BOOLEAN
         /\ unattended \in BOOLEAN
         /\ \A t \in open : Needs(t) /\ ~unattended => Covered(hydration, t)
BY DEF QueueInv, QueueTyped, Remembered, Paused

LEMMA AddTabQueue ==
  ASSUME IInv, QueueInv, NEW t \in Tabs, AddTab(t)
  PROVE  QueueInv'
<1> DEFINE g == Enqueue(hydration, t, FALSE, Paused)
<1>1. PICK s \in Scopes : tab' = [tab EXCEPT ![t] = NewTab(s)]
  BY DEF AddTab
<1>2. /\ open' = open \cup {t} /\ t \notin open /\ hydration' = g
      /\ fetching' \in {fetching, ~maintenance}
      /\ UNCHANGED <<current, maintenance, unattended>>
  BY DEF AddTab
<1>3. /\ Queue(g) /\ g.inflight = hydration.inflight
      /\ Members(g.queue) = (Members(hydration.queue) \ {t}) \cup ({t} \ {hydration.inflight})
      /\ g.timer \/ g.inflight # NoTab \/ Paused
  BY QueueFacts, EnqueuedLast
<1> HIDE DEF g
<1>4. QueueTyped'
  BY <1>2, <1>3, QueueFacts, CountedMoves DEF QueueTyped, AddTab
<1>5. Remembered'
  <2> SUFFICES ASSUME NEW x \in open', Needs(x)', ~unattended' PROVE Covered(g, x)
    BY <1>2 DEF Remembered
  <2>1. CASE x = t
    BY <1>3, <2>1 DEF Covered
  <2>2. CASE x # t
    <3>1. x \in open /\ x \in Tabs /\ Needs(x)
      BY <1>1, <1>2, <2>2 DEF IInv, Needs
    <3> QED BY <1>2, <1>3, <2>2, <3>1, QueueFacts DEF Covered
  <2> QED BY <2>1, <2>2
<1>6. Paused => Paused'
  BY <1>2, QueueFacts DEF Paused
<1> QED BY <1>2, <1>3, <1>4, <1>5, <1>6, RestlessQueue

LEMMA RenameTabQueue ==
  ASSUME IInv, QueueInv, NEW t \in Tabs, RenameTab(t)
  PROVE  QueueInv'
<1>1. PICK s \in Scopes, inTime \in BOOLEAN :
        LET v == [tab[t] EXCEPT !.scope = s]
        IN  /\ CanRequest(v)
            /\ tab' = [tab EXCEPT ![t] = IF maintenance THEN v ELSE Load(v, FALSE, inTime)]
  BY DEF RenameTab
<1> DEFINE v == [tab[t] EXCEPT !.scope = s]
           w == IF maintenance THEN v ELSE Load(v, FALSE, inTime)
           first == t = current
<1>2. TabInv(v) /\ v.completed = tab[t].completed
  BY TabOfIInv, ScopeInv
<1>3. Load(v, FALSE, inTime).completed = v.completed
  BY <1>1, <1>2, LoadInv
<1>4. w.completed = tab[t].completed /\ tab' = [tab EXCEPT ![t] = w]
  BY <1>1, <1>2, <1>3
<1> HIDE DEF v, w
<1>a. PICK still \in {fetching, FALSE} :
        /\ \E f \in FetchStopped(still) :
             LET h == RemoveHydration(f, t)
             IN  hydration' = IF Needs(t) THEN Enqueue(h, t, first, maintenance \/ still) ELSE h
        /\ fetching' \in {still, ~maintenance}
  BY DEF RenameTab
<1>b. PICK f \in FetchStopped(still) :
        LET h == RemoveHydration(f, t)
        IN  hydration' = IF Needs(t) THEN Enqueue(h, t, first, maintenance \/ still) ELSE h
  BY <1>a
<1> DEFINE paused == maintenance \/ still
           h == RemoveHydration(f, t)
           g == Enqueue(h, t, first, paused)
<1>c. /\ Queue(f) /\ f.queue = hydration.queue /\ f.inflight = hydration.inflight
      /\ still \in BOOLEAN /\ paused \in BOOLEAN
      /\ (\E x \in Members(hydration.queue) : Waits(x)) =>
           \/ f.inflight # NoTab \/ paused \/ unattended \/ f.timer \/ f.missed
  BY FetchStoppedQueue
<1>5. /\ Queue(h) /\ Members(h.queue) = Members(hydration.queue) \ {t}
      /\ h.inflight = IF hydration.inflight = t THEN NoTab ELSE hydration.inflight
      /\ h.timer = f.timer /\ h.missed = f.missed
  BY <1>c, ShortenedQueue
<1>6. hydration' = IF Needs(t) THEN g ELSE h
  BY <1>b
<1>7. /\ t \in open /\ fetching' \in BOOLEAN
      /\ UNCHANGED <<open, current, maintenance, unattended>>
  BY <1>a, <1>c, QueueFacts DEF RenameTab
<1>11. paused => Paused'
  BY <1>a, <1>c, <1>7 DEF Paused
<1> HIDE DEF h, paused
<1>8. \A x \in Tabs : Needs(x)' = Needs(x)
  BY <1>4, SameNeeds
<1>9. paused \in BOOLEAN
  BY <1>c DEF paused
<1>10. /\ Queue(g) /\ g.inflight = h.inflight
       /\ Members(g.queue) = (Members(h.queue) \ {t}) \cup ({t} \ {h.inflight})
       /\ g.timer \/ g.inflight # NoTab \/ paused
  <2> DEFINE a == Enqueue(h, t, TRUE, paused)
             b == Enqueue(h, t, FALSE, paused)
  <2> HIDE DEF g
  <2>0. Queue(h) /\ t \in Tabs
    BY <1>5
  <2>1. /\ Queue(a) /\ a.inflight = h.inflight
        /\ Members(a.queue) = (Members(h.queue) \ {t}) \cup ({t} \ {h.inflight})
        /\ a.timer \/ a.inflight # NoTab \/ paused
    BY <2>0, <1>9, EnqueuedFirst
  <2>2. /\ Queue(b) /\ b.inflight = h.inflight
        /\ Members(b.queue) = (Members(h.queue) \ {t}) \cup ({t} \ {h.inflight})
        /\ b.timer \/ b.inflight # NoTab \/ paused
    BY <2>0, <1>9, EnqueuedLast
  <2> DEFINE rest == Without(h.queue, t)
             qa == IF h.inflight = t THEN rest ELSE <<t>> \o rest
             qb == IF h.inflight = t THEN rest ELSE Append(rest, t)
             q  == IF h.inflight = t THEN rest
                   ELSE IF first THEN <<t>> \o rest ELSE Append(rest, t)
  <2> USE DEF g
  <2>3. /\ g = Schedule([h EXCEPT !.queue = q], paused)
        /\ a = Schedule([h EXCEPT !.queue = qa], paused)
        /\ b = Schedule([h EXCEPT !.queue = qb], paused)
    BY DEF Enqueue
  <2>4. q = qa \/ q = qb
    OBVIOUS
  <2> HIDE DEF q, qa, qb, rest
  <2>5. g = a \/ g = b
    BY <2>3, <2>4
  <2> HIDE DEF a, b, g
  <2> QED BY <2>1, <2>2, <2>5
<1> HIDE DEF g
<1>12. QueueTyped'
  BY <1>5, <1>6, <1>7, <1>10, QueueFacts, CountedMoves DEF QueueTyped, RenameTab
<1>13. Remembered'
  <2> SUFFICES ASSUME NEW x \in open, Needs(x)', ~unattended PROVE Covered(hydration', x)
    BY <1>7 DEF Remembered
  <2>1. x \in Tabs /\ Needs(x) /\ Covered(hydration, x)
    BY <1>8, QueueFacts DEF IInv
  <2>2. x # t => Covered(h, x)
    BY <1>5, <2>1 DEF Covered
  <2>3. Covered(g, t) /\ (Covered(h, x) => Covered(g, x))
    BY <1>10 DEF Covered
  <2> QED BY <1>6, <2>1, <2>2, <2>3
<1>14. CASE Needs(t)
  BY <1>6, <1>10, <1>11, <1>12, <1>13, <1>14, RestlessQueue
<1>15. CASE ~Needs(t)
  <2>1. hydration.inflight = t => unattended
    BY <1>15, TabOfIInv, TabLoadingAssumption DEF Needs, Served
  <2>2. Awake'
    <3> SUFFICES ASSUME NEW x \in Members(h.queue), Waits(x)', ~unattended
                 PROVE  h.inflight # NoTab \/ Paused' \/ h.timer \/ h.missed
      BY <1>6, <1>7, <1>15 DEF Awake
    <3>1. x \in Members(hydration.queue) /\ Waits(x)
      BY <1>5, <1>7, <1>8 DEF Waits, IInv
    <3>2. f.inflight # NoTab \/ paused \/ f.timer \/ f.missed
      BY <1>c, <3>1 DEF paused
    <3> QED BY <1>5, <1>c, <1>11, <2>1, <3>2
  <2> QED BY <1>12, <1>13, <2>2 DEF QueueInv
<1> QED BY <1>14, <1>15

LEMMA SwitchTabQueue ==
  ASSUME IInv, QueueInv, NEW u \in Tabs \cup {NoTab}, SwitchTab(u)
  PROVE  QueueInv'
<1> DEFINE h == AfterChange(hydration, u, open, Paused)
           x == hydration.inflight
<1>1. /\ hydration' = h /\ current' = u /\ u \in open \cup {NoTab}
      /\ UNCHANGED <<open, fetching, maintenance, unattended>>
  BY DEF SwitchTab
<1>2. /\ Queue(h) /\ (h.timer \/ h.inflight # NoTab \/ Paused)
      /\ \A t \in Tabs : Covered(hydration, t) /\ t \in open /\ Needs(t) => Covered(h, t)
  BY QueueFacts, AfterChangeQueue
<1>3. \A t \in Tabs : Needs(t)' = Needs(t)
  <2>1. CASE tab' = tab
    BY <2>1 DEF Needs
  <2>2. CASE \E inTime \in BOOLEAN :
               x \in open /\ tab' = [tab EXCEPT ![x] = CancelInitial(tab[x], inTime)]
    <3>1. PICK inTime \in BOOLEAN :
            x \in open /\ tab' = [tab EXCEPT ![x] = CancelInitial(tab[x], inTime)]
      BY <2>2
    <3>2. x \in Tabs
      BY <3>1 DEF IInv
    <3>3. CancelInitial(tab[x], inTime).completed = tab[x].completed
      BY <3>2, TabOfIInv, CancelInitialInv
    <3> QED BY <3>1, <3>2, <3>3, SameNeeds
  <2> QED BY <2>1, <2>2 DEF SwitchTab
<1> HIDE DEF h
<1>4. QueueTyped'
  BY <1>1, <1>2, QueueFacts, CountedMoves DEF QueueTyped, SwitchTab
<1>5. Remembered'
  BY <1>1, <1>2, <1>3, QueueFacts DEF Remembered, IInv
<1>6. Paused' = Paused
  BY <1>1 DEF Paused
<1> QED BY <1>1, <1>2, <1>4, <1>5, <1>6, RestlessQueue

LEMMA CloseTabQueue ==
  ASSUME IInv, QueueInv, NEW t \in Tabs, CloseTab(t)
  PROVE  QueueInv'
<1> DEFINE x == hydration.inflight
           still == fetching'
           paused == maintenance \/ still
           tabs(u, inTime) ==
             [y \in Tabs |->
                IF y = t THEN NewTab(tab[t].scope)
                ELSE IF t = current /\ Interrupts(u) /\ y = x
                THEN CancelInitial(tab[y], inTime) ELSE tab[y]]
<1>1. PICK u \in IF t = current THEN (open \ {t}) \cup {NoTab} ELSE {current} :
        /\ current' = u
        /\ \E f \in FetchStopped(still) :
             hydration' = RemoveHydration(
               IF t = current THEN AfterChange(f, u, open \ {t}, paused) ELSE f, t)
        /\ \E inTime \in BOOLEAN : tab' = tabs(u, inTime)
  BY DEF CloseTab
<1>2. PICK inTime \in BOOLEAN : tab' = tabs(u, inTime)
  BY <1>1
<1>a. PICK f \in FetchStopped(still) :
        hydration' = RemoveHydration(
          IF t = current THEN AfterChange(f, u, open \ {t}, paused) ELSE f, t)
  BY <1>1
<1>3. /\ open' = open \ {t} /\ unattended' = (unattended \/ hydration.inflight = t)
      /\ still \in {fetching, FALSE} /\ maintenance' = maintenance
  BY DEF CloseTab
<1>4. ASSUME NEW y \in Tabs, y # t PROVE Needs(y)' = Needs(y)
  <2>1. CancelInitial(tab[y], inTime).completed = tab[y].completed
    BY TabOfIInv, CancelInitialInv
  <2> QED BY <1>2, <1>4, <2>1 DEF Needs
<1> DEFINE a == AfterChange(f, u, open \ {t}, paused)
           h == IF t = current THEN a ELSE f
           g == RemoveHydration(h, t)
<1>b. /\ Queue(f) /\ f.queue = hydration.queue /\ f.inflight = x
      /\ still \in BOOLEAN /\ paused \in BOOLEAN
      /\ (\E y \in Members(hydration.queue) : Waits(y)) =>
           \/ f.inflight # NoTab \/ paused \/ unattended \/ f.timer \/ f.missed
  BY <1>3, FetchStoppedQueue
<1>c. Paused' = paused
  BY <1>3 DEF Paused
<1> HIDE DEF paused
<1>5. /\ Queue(a) /\ (a.timer \/ a.inflight # NoTab \/ paused)
      /\ a.inflight = IF Interrupts(u) THEN NoTab ELSE x
      /\ \A y \in Tabs : Covered(f, y) /\ y \in open \ {t} /\ Needs(y) => Covered(a, y)
  BY <1>b, AfterChangeQueue
<1> HIDE DEF a
<1>6. Queue(h) /\ h.inflight \in {NoTab, x}
  BY <1>5, <1>b
<1>7. hydration' = g
  BY <1>a DEF a, paused
<1> HIDE DEF h
<1>8. /\ Queue(g) /\ Members(g.queue) = Members(h.queue) \ {t} /\ g.timer = h.timer
      /\ g.missed = h.missed
      /\ g.inflight = IF h.inflight = t THEN NoTab ELSE h.inflight
  BY <1>6, ShortenedQueue
<1> HIDE DEF g
<1>9. QueueTyped'
  <2>1. current' \in open' \cup {NoTab}
    BY <1>1, <1>3, QueueFacts
  <2>2. fetching' \in BOOLEAN /\ maintenance' \in BOOLEAN
    BY <1>3, <1>b, QueueFacts
  <2> QED BY <1>3, <1>7, <1>8, <2>1, <2>2, QueueFacts, CountedMoves DEF QueueTyped, CloseTab
<1>10. Remembered'
  <2> SUFFICES ASSUME NEW y \in open \ {t}, Needs(y)', ~unattended' PROVE Covered(g, y)
    BY <1>3, <1>7 DEF Remembered
  <2>1. y \in Tabs /\ Needs(y) /\ Covered(hydration, y)
    BY <1>3, <1>4, QueueFacts DEF IInv
  <2>2. Covered(h, y)
    BY <1>5, <1>b, <2>1 DEF h, Covered
  <2> QED BY <1>8, <2>2 DEF Covered
<1>11. Awake'
  <2> SUFFICES ASSUME NEW y \in Members(g.queue), Waits(y)', ~unattended', g.inflight = NoTab
               PROVE  Paused' \/ g.timer \/ g.missed
    BY <1>7 DEF Awake
  <2>1. x # t /\ ~unattended
    BY <1>3
  <2>2. h.inflight = NoTab
    BY <1>6, <1>8, <2>1, TabLoadingAssumption
  <2>3. CASE t = current
    BY <1>5, <1>8, <1>c, <2>1, <2>2, <2>3 DEF h
  <2>4. CASE t # current
    <3>1. h = f
      BY <2>4 DEF h
    <3>2. y \in Members(hydration.queue) /\ y # t
      BY <1>8, <1>b, <3>1
    <3>3. Waits(y)
      BY <1>3, <1>4, <3>2 DEF Waits, IInv
    <3> QED BY <1>8, <1>b, <1>c, <2>1, <2>2, <3>1, <3>2, <3>3
  <2> QED BY <2>3, <2>4
<1> QED BY <1>9, <1>10, <1>11 DEF QueueInv

(* What only schedules the queue, or pauses it.                             *)
LEMMA PauseStepsQueue ==
  ASSUME IInv, QueueInv, FetchStarts \/ FetchEnds \/ EndMaintenance
  PROVE  QueueInv'
<1>1. UNCHANGED <<open, current, tab, unattended>>
  BY DEF FetchStarts, FetchEnds, EndMaintenance, Quietly
<1>2. moves' \in 0 .. MaxMoves /\ fetching' \in BOOLEAN /\ maintenance' \in BOOLEAN
  BY QueueFacts, CountedMoves DEF FetchStarts, FetchEnds, EndMaintenance
<1>3. /\ Queue(hydration') /\ hydration'.queue = hydration.queue
      /\ hydration'.inflight = hydration.inflight
      /\ hydration'.timer \/ hydration'.inflight # NoTab \/ Paused'
  <2>1. CASE FetchStarts
    BY <2>1, QueueFacts DEF FetchStarts, Paused
  <2>2. CASE FetchEnds
    BY <2>2, QueueFacts, ScheduledQueue DEF FetchEnds, Paused
  <2>3. CASE EndMaintenance
    BY <2>3, QueueFacts, ScheduledQueue DEF EndMaintenance, Paused
  <2> QED BY <2>1, <2>2, <2>3
<1>4. QueueTyped'
  BY <1>1, <1>2, <1>3, QueueFacts DEF QueueTyped
<1>5. Remembered'
  BY <1>1, <1>3, QueueFacts DEF Remembered, Covered, Needs
<1> QED BY <1>3, <1>4, <1>5, RestlessQueue

(* Maintenance that begins pauses the queue; a refused one, or one that     *)
(* cancels the tab being served, is an event nobody attends to.             *)
LEMMA BeginMaintenanceQueue ==
  ASSUME IInv, QueueInv, BeginMaintenance
  PROVE  QueueInv'
<1>1. PICK stuck \in {FALSE, fetching}, refused \in BOOLEAN, inTime \in [Tabs -> BOOLEAN] :
            /\ tab' = [t \in Tabs |->
                         IF t \notin open THEN tab[t]
                         ELSE LET v == CancelForMaintenance(tab[t], inTime[t])
                              IN  [v EXCEPT !.filterTimer = @ /\ refused]]
            /\ maintenance' = ~refused
            /\ fetching' = stuck
            /\ unattended' = (unattended \/ refused \/ hydration.inflight # NoTab)
  BY DEF BeginMaintenance
<1>2. /\ refused \in BOOLEAN /\ maintenance' = ~refused /\ fetching' = stuck
      /\ stuck \in BOOLEAN
      /\ unattended' = (unattended \/ refused \/ hydration.inflight # NoTab)
      /\ UNCHANGED <<open, current>>
  BY <1>1, QueueFacts DEF BeginMaintenance
<1>3. ASSUME NEW t \in Tabs PROVE Needs(t)' = Needs(t)
  <2> DEFINE w == [CancelForMaintenance(tab[t], inTime[t]) EXCEPT !.filterTimer = @ /\ refused]
  <2>1. TabInv(tab[t]) /\ inTime[t] \in BOOLEAN /\ refused \in BOOLEAN
    BY TabOfIInv, <1>2
  <2>2. tab'[t] = IF t \notin open THEN tab[t] ELSE w
    BY <1>1
  <2>3. w.completed = tab[t].completed
    BY <2>1, CancelForMaintenanceInv
  <2> HIDE DEF w
  <2> QED BY <2>2, <2>3 DEF Needs
<1>4. PICK h \in {hydration} \cup (IF fetching THEN {Schedule(hydration, fetching')} ELSE {}) :
        hydration' = [h EXCEPT !.inflight = NoTab]
  BY DEF BeginMaintenance
<1>5. Queue(h) /\ h.queue = hydration.queue
  <2>1. Queue(hydration) /\ fetching' \in BOOLEAN
    BY <1>2, QueueFacts
  <2>2. CASE h = hydration
    BY <2>1, <2>2
  <2>3. CASE h = Schedule(hydration, fetching')
    BY <2>1, <2>3, ScheduledQueue
  <2> QED BY <1>4, <2>2, <2>3
<1>6. /\ Queue(hydration') /\ hydration'.queue = hydration.queue
      /\ hydration'.inflight = NoTab
  BY <1>4, <1>5 DEF Queue, HydrationType
<1>7. QueueTyped'
  BY <1>2, <1>6, QueueFacts, CountedMoves DEF QueueTyped, BeginMaintenance
<1>8. Remembered'
  <2> SUFFICES ASSUME NEW x \in open, Needs(x)', ~unattended' PROVE Covered(hydration', x)
    BY <1>2 DEF Remembered
  <2>1. x \in Tabs /\ Needs(x)
    BY <1>3 DEF IInv
  <2>2. Covered(hydration, x) /\ hydration.inflight = NoTab /\ x # NoTab
    BY <1>2, <2>1, QueueFacts, TabLoadingAssumption
  <2> QED BY <1>6, <2>2 DEF Covered
<1>9. Paused' \/ unattended'
  BY <1>2 DEF Paused
<1> QED BY <1>7, <1>8, <1>9, RestlessQueue

(* The waiting tabs move to the end of the queue, each of them once.        *)
LEMMA SyncTabsQueue ==
  ASSUME IInv, QueueInv, SyncTabs
  PROVE  QueueInv'
<1> DEFINE waiting == {t \in open : Needs(t)}
           other == hydration.inflight
           old == Kept(hydration.queue, Tabs \ waiting)
           all == SetToSeq(Tabs)
           new == Kept(all, waiting \ {other})
           q == old \o new
           h == [hydration EXCEPT !.queue = q]
           g == Schedule(h, Paused)
<1>1. /\ hydration' = g
      /\ UNCHANGED <<open, current, fetching, maintenance, unattended>>
  BY DEF SyncTabs
<1>2. ASSUME NEW t \in Tabs PROVE Needs(t)' = Needs(t)
  <2>1. PICK inTime \in [Tabs -> BOOLEAN] :
          tab' = [x \in Tabs |-> IF x \in open \ waiting
                                 THEN Load(tab[x], FALSE, inTime[x]) ELSE tab[x]]
    BY DEF SyncTabs
  <2>2. t \in open \ waiting => CanRequest(tab[t])
    BY DEF SyncTabs
  <2>3. TabInv(tab[t]) /\ inTime[t] \in BOOLEAN
    BY TabOfIInv
  <2>4. CASE t \in open \ waiting
    <3>1. Load(tab[t], FALSE, inTime[t]).completed = tab[t].completed
      BY <2>2, <2>3, <2>4, LoadInv
    <3> QED BY <2>1, <2>4, <3>1 DEF Needs
  <2>5. CASE t \notin open \ waiting
    BY <2>1, <2>5 DEF Needs
  <2> QED BY <2>4, <2>5
<1>3. /\ hydration \in HydrationType /\ hydration.queue \in Seq(Tabs)
      /\ IsInjective(hydration.queue)
  BY QueueFacts DEF Queue, HydrationType
<1>4. waiting \subseteq Tabs
  BY DEF IInv
<1>5. \A t : t \in waiting <=> t \in open /\ Needs(t)
  OBVIOUS
<1> HIDE DEF waiting
<1>6. /\ old \in Seq(Tabs) /\ IsInjective(old)
      /\ Members(old) = Members(hydration.queue) \cap (Tabs \ waiting)
  BY <1>3, KeptQueue
<1>7. all \in Seq(Tabs) /\ IsInjective(all) /\ Members(all) = Tabs
  BY TabsAreFinite, ListedSet
<1> HIDE DEF all, old
<1>8. new \in Seq(Tabs) /\ IsInjective(new) /\ Members(new) = waiting \ {other}
  <2>1. new \in Seq(Tabs) /\ IsInjective(new) /\ Members(new) = Members(all) \cap (waiting \ {other})
    BY <1>7, KeptQueue
  <2> HIDE DEF new
  <2> QED BY <1>4, <1>7, <2>1
<1> HIDE DEF new
<1>9. q \in Seq(Tabs) /\ Members(q) = Members(old) \cup Members(new) /\ IsInjective(q)
  <2>1. Members(old) \cap Members(new) = {}
    BY <1>6, <1>8
  <2> QED BY <1>6, <1>8, <2>1, JoinedQueue
<1> HIDE DEF q
<1>10. Queue(h) /\ h.queue = q /\ h.inflight = other
  BY <1>3, <1>9 DEF Queue, HydrationType
<1> HIDE DEF h
<1>11. /\ Queue(g) /\ g.queue = q /\ g.inflight = other
       /\ g.timer \/ g.inflight # NoTab \/ Paused
  <2>1. Paused \in BOOLEAN
    BY QueueFacts
  <2>2. /\ Queue(g) /\ g.queue = h.queue /\ g.inflight = h.inflight
        /\ g.timer \/ g.inflight # NoTab \/ Paused
    BY <1>10, <2>1, ScheduledQueue
  <2> HIDE DEF g
  <2> QED BY <1>10, <2>2
<1> HIDE DEF g
<1>12. QueueTyped'
  BY <1>1, <1>11, QueueFacts, CountedMoves DEF QueueTyped, SyncTabs
<1>13. Remembered'
  <2> SUFFICES ASSUME NEW x \in open, Needs(x)' PROVE Covered(g, x)
    BY <1>1 DEF Remembered
  <2>1. x \in waiting
    BY <1>2, <1>5 DEF IInv
  <2> QED BY <1>8, <1>9, <1>11, <2>1 DEF Covered
<1>14. Paused' = Paused
  BY <1>1 DEF Paused
<1> QED BY <1>1, <1>11, <1>12, <1>13, <1>14, RestlessQueue

(* What is left of the queue behind one of its places.                      *)
LEMMA RestOfQueue ==
  ASSUME NEW q \in Seq(Tabs), IsInjective(q), NEW i \in DOMAIN q
  PROVE  LET s == SubSeq(q, i + 1, Len(q)) IN
         /\ s \in Seq(Tabs) /\ IsInjective(s)
         /\ Members(s) = {q[j] : j \in i + 1 .. Len(q)}
<1> DEFINE n == Len(q)
           s == SubSeq(q, i + 1, n)
<1>1. /\ i \in 1 .. n /\ n \in Nat /\ DOMAIN q = 1 .. n /\ n = Len(q)
  OBVIOUS
<1>2. s \in Seq(Tabs) /\ Len(s) = n - i /\ \A k \in 1 .. n - i : s[k] = q[i + k]
  BY <1>1
<1>3. DOMAIN s = 1 .. n - i
  BY <1>2
<1> HIDE DEF s, n
<1>4. IsInjective(s)
  <2> SUFFICES ASSUME NEW a \in 1 .. n - i, NEW b \in 1 .. n - i, s[a] = s[b] PROVE a = b
    BY <1>3 DEF IsInjective
  <2>1. i + a \in 1 .. n /\ i + b \in 1 .. n
    BY <1>1
  <2>2. q[i + a] = q[i + b]
    BY <1>2
  <2>3. i + a = i + b
    BY <1>1, <2>1, <2>2 DEF IsInjective
  <2> QED BY <1>1, <2>3
<1>5. Members(s) = {q[j] : j \in i + 1 .. n}
  <2>1. ASSUME NEW k \in 1 .. n - i PROVE i + k \in i + 1 .. n
    BY <1>1
  <2>2. ASSUME NEW j \in i + 1 .. n PROVE j - i \in 1 .. n - i /\ i + (j - i) = j
    BY <1>1
  <2>3. Members(s) \subseteq {q[j] : j \in i + 1 .. n}
    BY <1>2, <1>3, <2>1 DEF Members
  <2>4. \A j \in i + 1 .. n : s[j - i] = q[j]
    BY <1>2, <2>2
  <2>5. {q[j] : j \in i + 1 .. n} \subseteq Members(s)
    BY <1>3, <2>2, <2>4 DEF Members
  <2> QED BY <2>3, <2>5
<1> QED BY <1>1, <1>2, <1>4, <1>5 DEF s

(* The queue goes on without those in front of the tab it serves.           *)
LEMMA ServeQueue ==
  ASSUME IInv, QueueInv, NEW t \in Tabs, NEW rest \in Seq(Tabs), IsInjective(rest),
         Waits(t), Serve(t, rest), hydration.inflight = NoTab,
         \A x \in Members(hydration.queue) : Waits(x) => x = t \/ x \in Members(rest),
         UNCHANGED <<open, current, fetching, maintenance, unattended>>, moves' \in 0 .. MaxMoves
  PROVE  QueueInv'
<1>1. PICK inTime \in BOOLEAN : tab' = [tab EXCEPT ![t] = Start(tab[t], inTime)]
  BY DEF Serve
<1>2. Start(tab[t], inTime).completed = tab[t].completed
  BY TabOfIInv, LoadInv DEF Start, Serve
<1>3. \A x \in Tabs : Needs(x)' = Needs(x)
  BY <1>1, <1>2, SameNeeds
<1>4. hydration' = [queue |-> rest, inflight |-> t, timer |-> FALSE, missed |-> FALSE]
  BY DEF Serve
<1>5. Queue(hydration') /\ hydration'.inflight = t /\ hydration'.queue = rest
  BY <1>4 DEF Queue, HydrationType
<1>6. QueueTyped'
  BY <1>5, QueueFacts DEF QueueTyped
<1>7. Remembered'
  <2> SUFFICES ASSUME NEW x \in open, Needs(x)', ~unattended PROVE Covered(hydration', x)
    BY DEF Remembered
  <2>1. x \in Tabs /\ Waits(x) /\ Covered(hydration, x)
    BY <1>3, QueueFacts DEF IInv, Waits
  <2>2. x \in Members(hydration.queue)
    BY <2>1, TabLoadingAssumption DEF Covered
  <2> QED BY <1>5, <2>1, <2>2 DEF Covered
<1> QED BY <1>5, <1>6, <1>7, TabLoadingAssumption, RestlessQueue

LEMMA ProcessHydrationQueue ==
  ASSUME IInv, QueueInv, ProcessHydration
  PROVE  QueueInv'
<1> DEFINE q == hydration.queue
<1>1. UNCHANGED <<open, current, fetching, maintenance, unattended>> /\ moves' \in 0 .. MaxMoves
  BY QueueFacts, CountedMoves DEF ProcessHydration, Quietly
<1>2. hydration \in HydrationType /\ q \in Seq(Tabs) /\ IsInjective(q)
  BY QueueFacts DEF Queue, HydrationType
<1>3. CASE hydration.inflight # NoTab \/ Paused
  <2>1. hydration' = [hydration EXCEPT !.timer = FALSE] /\ UNCHANGED tab
    BY <1>3 DEF ProcessHydration
  <2>2. /\ Queue(hydration') /\ hydration'.queue = q
        /\ hydration'.inflight = hydration.inflight
    BY <1>2, <2>1 DEF Queue, HydrationType
  <2>3. QueueTyped'
    BY <1>1, <2>2, QueueFacts DEF QueueTyped
  <2>4. Remembered'
    BY <1>1, <2>1, <2>2, QueueFacts DEF Remembered, Covered, Needs
  <2>5. hydration'.inflight # NoTab \/ Paused'
    BY <1>1, <1>3, <2>2 DEF Paused
  <2> QED BY <2>3, <2>4, <2>5, RestlessQueue
<1>4. CASE /\ hydration.inflight = NoTab /\ Waits(current)
           /\ Serve(current, Without(q, current))
  <2> DEFINE rest == Without(q, current)
  <2>1. current \in Tabs
    BY <1>4 DEF Waits, IInv
  <2>2. rest \in Seq(Tabs) /\ IsInjective(rest) /\ Members(rest) = Members(q) \cap (Tabs \ {current})
    BY <1>2, KeptQueue DEF Without
  <2>3. \A x \in Members(q) : x = current \/ x \in Members(rest)
    <3>1. Members(q) \subseteq Tabs
      BY <1>2 DEF Members
    <3> HIDE DEF rest, q
    <3> QED BY <2>2, <3>1
  <2> HIDE DEF rest
  <2>4. Serve(current, rest)
    BY <1>4 DEF rest
  <2> QED BY <1>1, <1>4, <2>1, <2>2, <2>3, <2>4, ServeQueue
<1>5. ASSUME NEW i \in DOMAIN q, hydration.inflight = NoTab, Waits(q[i]),
             \A j \in 1 .. i - 1 : ~Waits(q[j]), Serve(q[i], SubSeq(q, i + 1, Len(q)))
      PROVE  QueueInv'
  <2> DEFINE rest == SubSeq(q, i + 1, Len(q))
             t == q[i]
  <2>1. t \in Tabs /\ Waits(t) /\ Serve(t, rest)
    BY <1>2, <1>5
  <2>2. rest \in Seq(Tabs) /\ IsInjective(rest) /\ Members(rest) = {q[j] : j \in i + 1 .. Len(q)}
    BY <1>2, RestOfQueue
  <2>3. ASSUME NEW x \in Members(q), Waits(x) PROVE x = t \/ x \in Members(rest)
    <3>1. PICK j \in DOMAIN q : x = q[j]
      BY DEF Members
    <3>2. j \in Nat /\ i \in Nat /\ j <= Len(q) /\ j >= 1
      BY <1>2
    <3>3. j \notin 1 .. i - 1
      BY <1>5, <2>3, <3>1
    <3>4. j = i \/ j \in i + 1 .. Len(q)
      BY <1>2, <3>2, <3>3
    <3> HIDE DEF rest
    <3> QED BY <2>2, <3>1, <3>4
  <2> HIDE DEF rest, t
  <2> QED BY <1>1, <1>5, <2>1, <2>2, <2>3, ServeQueue
<1>6. CASE /\ \A i \in DOMAIN q : ~Waits(q[i])
           /\ hydration' = [queue |-> <<>>, inflight |-> NoTab,
                             timer |-> FALSE, missed |-> FALSE]
           /\ hydration.inflight = NoTab /\ UNCHANGED tab
  <2>1. /\ Queue(hydration') /\ Members(hydration'.queue) = {}
    BY <1>6 DEF Queue, HydrationType, Members, IsInjective
  <2>2. QueueTyped'
    BY <1>1, <2>1, QueueFacts DEF QueueTyped
  <2>3. Remembered'
    <3> SUFFICES ASSUME NEW x \in open, Needs(x), ~unattended PROVE FALSE
      BY <1>1, <1>6 DEF Remembered, Needs
    <3>1. Covered(hydration, x) /\ Waits(x) /\ x # NoTab
      BY QueueFacts, TabLoadingAssumption DEF IInv, Waits
    <3> QED BY <1>6, <3>1 DEF Covered, Members
  <2>4. Awake'
    BY <2>1 DEF Awake
  <2> QED BY <2>2, <2>3, <2>4 DEF QueueInv
<1> QED BY <1>3, <1>4, <1>5, <1>6 DEF ProcessHydration

(* An answer takes the tab out of the queue and looks at the queue again.   *)
LEMMA AnsweredQueue ==
  ASSUME IInv, QueueInv, NEW t \in Tabs, NEW v,
         tab' = [tab EXCEPT ![t] = v],
         hydration' = IF Needs(t) THEN Schedule(RemoveHydration(hydration, t), Paused)
                      ELSE hydration,
         UNCHANGED <<open, current, fetching, maintenance>>,
         Needs(t) => v.completed \/ unattended', unattended => unattended',
         ~Needs(t) => v.completed,
         unattended' \in BOOLEAN, moves' \in 0 .. MaxMoves
  PROVE  QueueInv'
<1>1. \A x \in Tabs : (Needs(x)' => Needs(x)) /\ (x = t /\ Needs(x)' => unattended')
  BY DEF Needs, IInv
<1>2. CASE ~Needs(t)
  BY <1>1, <1>2, StillQueue
<1>3. CASE Needs(t)
  <2> DEFINE h == RemoveHydration(hydration, t)
             g == Schedule(h, Paused)
  <2>1. Queue(h) /\ Members(h.queue) = Members(hydration.queue) \ {t}
        /\ h.inflight = IF hydration.inflight = t THEN NoTab ELSE hydration.inflight
    BY QueueFacts, ShortenedQueue
  <2> HIDE DEF h
  <2>2. Paused \in BOOLEAN
    BY QueueFacts
  <2>3. /\ Queue(g) /\ g.queue = h.queue /\ g.inflight = h.inflight
        /\ g.timer \/ g.inflight # NoTab \/ Paused
    BY <2>1, <2>2, ScheduledQueue
  <2>4. hydration' = g
    BY <1>3 DEF h
  <2> HIDE DEF g
  <2>5. QueueTyped'
    BY <2>3, <2>4, QueueFacts DEF QueueTyped
  <2>6. Remembered'
    <3> SUFFICES ASSUME NEW x \in open, Needs(x)', ~unattended' PROVE Covered(g, x)
      BY <2>4 DEF Remembered
    <3>1. x \in Tabs /\ x # t /\ Needs(x) /\ ~unattended
      BY <1>1 DEF IInv
    <3>2. Covered(hydration, x)
      BY <3>1, QueueFacts
    <3> QED BY <2>1, <2>3, <3>1, <3>2 DEF Covered
  <2>7. Paused' = Paused
    BY DEF Paused
  <2> QED BY <2>3, <2>4, <2>5, <2>6, <2>7, RestlessQueue
<1> QED BY <1>2, <1>3

LEMMA AnswersQueue ==
  ASSUME IInv, QueueInv, NEW t \in Tabs, NEW r \in Requests,
         OnDataLoaded(t, r) \/ OnDataError(t, r) \/ OnCallbackFailure(t, r)
  PROVE  QueueInv'
<1>1. TabInv(tab[t]) /\ moves \in 0 .. MaxMoves /\ unattended \in BOOLEAN
  BY TabOfIInv, QueueFacts
<1>2. CASE OnDataLoaded(t, r)
  <2> DEFINE w == Shown(tab[t], r)
             v == Received(w, r)
  <2>1. TabInv(w) /\ w.completed /\ ~w.inflight /\ ~w.more
    BY <1>1, ShownInv
  <2>2. Answered(t, v) /\ Quietly
    BY <1>2 DEF OnDataLoaded
  <2> HIDE DEF w
  <2>3. v.completed
    BY <2>1, ReceivedInv
  <2> HIDE DEF v
  <2>4. moves' \in 0 .. MaxMoves /\ unattended' = unattended
    BY <1>1, <2>2, CountedMoves
  <2> QED BY <1>1, <2>2, <2>3, <2>4, AnsweredQueue DEF Answered
<1>3. CASE OnDataError(t, r)
  <2> DEFINE w == Failed(tab[t], r)
             v == Received(w, r)
  <2>1. TabInv(w) /\ w.completed = tab[t].completed /\ ~w.inflight /\ ~w.more
    BY <1>1, FailedInv
  <2>2. Answered(t, v) /\ unattended' = (unattended \/ Needs(t)) /\ moves' = moves
    BY <1>3 DEF OnDataError
  <2> HIDE DEF w
  <2>3. v.completed = tab[t].completed
    BY <2>1, ReceivedInv
  <2> HIDE DEF v
  <2>4. ~Needs(t) => v.completed
    BY <2>3 DEF Needs
  <2>5. unattended' \in BOOLEAN /\ (Needs(t) => unattended') /\ (unattended => unattended')
    BY <1>1, <2>2
  <2> QED BY <1>1, <2>2, <2>4, <2>5, AnsweredQueue DEF Answered
<1>4. CASE OnCallbackFailure(t, r)
  <2>1. PICK u \in {tab[t], Shown(tab[t], r)} :
          tab' = [tab EXCEPT ![t] = Received(Failed(u, r), r)]
    BY <1>4 DEF OnCallbackFailure
  <2> DEFINE w == Failed(u, r)
             v == Received(w, r)
  <2>2. TabInv(u) /\ (u.completed = tab[t].completed \/ u.completed)
    BY <1>1, <2>1, ShownInv
  <2>3. TabInv(w) /\ w.completed = u.completed /\ ~w.inflight /\ ~w.more
    BY <2>2, FailedInv
  <2>4. tab' = [tab EXCEPT ![t] = v]
    BY <2>1
  <2> HIDE DEF w
  <2>5. v.completed = u.completed
    BY <2>3, ReceivedInv
  <2> HIDE DEF v
  <2>6. /\ unattended' = (unattended \/ Needs(t)) /\ moves' \in 0 .. MaxMoves
        /\ UNCHANGED <<open, current, hydration, fetching, maintenance>>
    BY <1>1, <1>4, CountedMoves DEF OnCallbackFailure
  <2>7. \A x \in Tabs : Needs(x)' => Needs(x)
    BY <2>2, <2>4, <2>5 DEF Needs, IInv
  <2>8. unattended' \in BOOLEAN /\ (unattended => unattended')
    BY <1>1, <2>6
  <2> QED BY <2>6, <2>7, <2>8, StillQueue
<1> QED BY <1>2, <1>3, <1>4

LEMMA InitQueueInv == Init => QueueInv
<1> SUFFICES ASSUME Init PROVE QueueInv
  OBVIOUS
<1> DEFINE q == SetToSeq(InitialTabs)
<1>1. IsFiniteSet(InitialTabs)
  BY TabLoadingAssumption, TabsAreFinite, FS_Subset
<1>2. q \in Seq(InitialTabs) /\ IsInjective(q) /\ Members(q) = InitialTabs
  BY <1>1, ListedSet
<1>3. hydration = [queue |-> q, inflight |-> NoTab, timer |-> TRUE, missed |-> FALSE]
  BY DEF Init
<1> HIDE DEF q
<1>4. q \in Seq(Tabs)
  BY <1>2, TabLoadingAssumption
<1>5. Queue(hydration) /\ hydration.queue = q /\ hydration.timer
  BY <1>2, <1>3, <1>4 DEF Queue, HydrationType
<1>6. QueueTyped
  <2>1. moves \in 0 .. MaxMoves
    BY TabLoadingAssumption DEF Init
  <2>2. current = NoTab /\ fetching = FALSE /\ maintenance = FALSE /\ unattended = FALSE
    BY DEF Init
  <2> QED BY <1>5, <2>1, <2>2 DEF QueueTyped
<1>7. Remembered /\ Awake
  BY <1>2, <1>5 DEF Init, Remembered, Awake, Covered
<1> QED BY <1>6, <1>7 DEF QueueInv

LEMMA NextQueueInv == IInv /\ QueueInv /\ [Next]_vars => QueueInv'
<1> SUFFICES ASSUME IInv, QueueInv, [Next]_vars PROVE QueueInv'
  OBVIOUS
<1>1. CASE User
  <2>1. ASSUME NEW u \in Tabs \cup {NoTab}, SwitchTab(u) PROVE QueueInv'
    BY <2>1, SwitchTabQueue
  <2>2. ASSUME NEW t \in Tabs, AddTab(t) \/ CloseTab(t) \/ RenameTab(t) PROVE QueueInv'
    BY <2>2, AddTabQueue, CloseTabQueue, RenameTabQueue
  <2>3. ASSUME NEW t \in Tabs,
               ReloadTab(t) \/ AppendItems(t) \/ \E s \in Scopes : TypeFilter(t, s) \/ ChangeScope(t, s)
        PROVE  QueueInv'
    BY <2>3, ListStepsStill
  <2>4. CASE FetchStarts \/ BeginMaintenance \/ SyncTabs
    BY <2>4, PauseStepsQueue, BeginMaintenanceQueue, SyncTabsQueue
  <2> QED BY <1>1, <2>1, <2>2, <2>3, <2>4 DEF User
<1>2. CASE Window
  <2>1. CASE FetchEnds \/ EndMaintenance \/ ProcessHydration
    BY <2>1, PauseStepsQueue, ProcessHydrationQueue
  <2>2. ASSUME NEW t \in Tabs, FilterTimeout(t) PROVE QueueInv'
    BY <2>2, ListStepsStill
  <2>3. ASSUME NEW t \in Tabs, NEW r \in Requests,
               OnDataLoaded(t, r) \/ OnDataError(t, r) \/ OnIgnored(t, r) \/ OnCallbackFailure(t, r)
        PROVE  QueueInv'
    BY <2>3, AnswersQueue, ThreadStepsStill
  <2> QED BY <1>2, <2>1, <2>2, <2>3 DEF Window
<1>3. CASE Threads
  BY <1>3, ThreadStepsStill DEF Threads
<1>4. CASE UNCHANGED vars
  <2>1. moves' \in 0 .. MaxMoves /\ unattended' \in BOOLEAN
    BY <1>4, QueueFacts DEF vars
  <2> QED BY <1>4, <2>1, StillQueue DEF vars, Needs
<1> QED BY <1>1, <1>2, <1>3, <1>4 DEF Next

LEMMA AlwaysQueueInv == Spec => [](IInv /\ QueueInv)
<1>1. IInv /\ QueueInv /\ [Next]_vars => (IInv /\ QueueInv)'
  BY NextIInv, NextQueueInv
<1> QED BY InitIInv, InitQueueInv, <1>1, PTL DEF Spec

(* The queue is a list of tabs without repetition, whatever is appended,    *)
(* put first, removed or put back; every other variable has its type.       *)
THEOREM TabsTypeCorrect == Spec => []TypeOK
<1>1. IInv /\ QueueInv => TypeOK
  BY DEF IInv, QueueInv, QueueTyped, Queue, HydrationType, TypeOK
<1> QED BY <1>1, AlwaysQueueInv, PTL

(* An open tab that still needs its first load is in the queue or is the    *)
(* one the queue waits for, until an event drops it.                        *)
THEOREM NoTabIsForgotten == Spec => []NoTabForgotten
<1>1. QueueInv => NoTabForgotten
  BY DEF QueueInv, Remembered, Covered, Members, NoTabForgotten
<1> QED BY <1>1, AlwaysQueueInv, PTL

(* When nothing pauses the queue and somebody in it waits, it is being      *)
(* served or its timer runs. What may put it to sleep is the last fetch,    *)
(* detached by the closing or renaming of its tab: its end schedules        *)
(* nothing (completion.py:273-287), and the queue sleeps until the next     *)
(* schedule of any kind.                                                    *)
THEOREM NoWakeupIsLost == Spec => []NoLostWakeup
<1>1. QueueInv => NoLostWakeup
  BY DEF QueueInv, Awake, Members, NoLostWakeup
<1> QED BY <1>1, AlwaysQueueInv, PTL
=============================================================================
