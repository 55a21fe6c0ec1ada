-------------------------- MODULE FetchPassProofs --------------------------
(***************************************************************************)
(* The sequential refresh and the paging cursors for every set of tabs and *)
(* every number of requests: a pass has one thread of control, implements  *)
(* SequentialRefresh, and a cursor never skips a page.                     *)
(***************************************************************************)
EXTENDS FetchSafetyProofs, FiniteSetTheorems

-----------------------------------------------------------------------------
(* The inductive invariants.                                               *)

(* The requests whose outcome a callback will honour.                      *)
Awaited == {r \in Registered \ stopped : Busy(r) \/ mail[r] # NoMail}

(* A request at work has reported nothing yet; one that was told to stop   *)
(* while it was registered never reports anything; and only requests that  *)
(* were started are stopped or belong to a pass.                           *)
Silent ==
  /\ \A r \in Request : Busy(r) => mail[r] = NoMail
  /\ \A r \in Registered \cap stopped : mail[r] = NoMail
  /\ \A r \in stopped \cup sequential : r <= requestSeq

(* Of the pass: a timer and a request in flight exclude each other, there  *)
(* is at most one of them and none without a pass; what is in flight is    *)
(* the tab after those that are settled.                                   *)
Chain ==
  /\ timers > 0 => refreshActive /\ timers = 1 /\ InFlight = {}
  /\ \A q, r \in InFlight : q = r
  /\ InFlight # {} => refreshActive /\ idx < Len(pending)
  /\ refreshActive => idx <= Len(pending)

(* Of the cursors: an outcome still to come is of the first page or of the *)
(* page after the tab's cursor.                                            *)
PagesInOrder ==
  \A r \in Awaited : startIndex[r] \in {0, 1, NextPage(cursor[reqTab[r]])}

FInv == IInv /\ Silent /\ StartIndexOwned /\ RefreshFlagsAgree

PassInv == FInv /\ ~maintenance /\ Chain

PagesInv == FInv /\ PagesInOrder

-----------------------------------------------------------------------------
(* How the handlers' common parts act on what is awaited.                  *)

(* What is awaited before and after keeps its tab, page and pass.          *)
Kept ==
  \A r \in Awaited \cap Awaited' :
    /\ reqTab'[r] = reqTab[r] /\ startIndex'[r] = startIndex[r]
    /\ r \in sequential' <=> r \in sequential

Drops(S) == Awaited' = Awaited \ S /\ Kept

DropsSome == \E S : Drops(S)

Adds(k, page, inPass, S) ==
  \E n \in Request \ Awaited :
    /\ Awaited' = (Awaited \ S) \cup {n} /\ Kept
    /\ reqTab'[n] = k /\ startIndex'[n] = page /\ (n \in sequential' <=> inPass)

LEMMA InFlightAwaited ==
  InFlight = sequential \cap Awaited /\ InFlight' = sequential' \cap Awaited'
BY DEF InFlight, Awaited

LEMMA FrameFlow ==
  ASSUME Silent, StartIndexOwned,
         UNCHANGED <<registryVars, threadVars, requestVars, startIndex, mail>>
  PROVE  Silent' /\ StartIndexOwned' /\ Drops({})
BY DEF Silent, StartIndexOwned, Drops, Kept, Awaited, Registered, Busy, registryVars,
       threadVars, requestVars

(* The requests S are stopped, those of H end, those of R are popped.      *)
LEMMA CleanupFlow ==
  ASSUME TypeOK, Silent, StartIndexOwned,
         NEW S \in SUBSET Registered, NEW R \in SUBSET S, NEW H \in SUBSET R,
         Cleanup(S, H), handles' = HandlesWithout(R), startIndex' = Forget(R),
         Numbered, UNCHANGED <<requestVars, mail>>
  PROVE  Silent' /\ StartIndexOwned' /\ Drops(S)
<1>1. Registered' = Registered \ R
  BY DEF Registered, HandlesWithout
<1>2. \A r \in Request : /\ r \in H => ~Busy(r)'
                         /\ r \notin H => (Busy(r)' <=> Busy(r))
  BY DEF Cleanup, Busy
<1>3. stopped' = stopped \cup S /\ \A r \in S \ H : Busy(r)
  BY DEF Cleanup
<1>4. S \subseteq Request
  BY DEF Registered
<1>5. \A r \in S : r <= requestSeq
  BY <1>4 DEF Numbered, TypeOK, Request, Registered
<1>6. Silent'
  <2>1. \A r \in Request : Busy(r)' => mail'[r] = NoMail
    BY <1>2 DEF Silent
  <2>2. \A r \in Registered' \cap stopped' : mail'[r] = NoMail
    BY <1>1, <1>3, <1>4 DEF Silent
  <2>3. \A r \in stopped' \cup sequential' : r <= requestSeq'
    BY <1>3, <1>5 DEF Silent, requestVars
  <2> QED
    BY <2>1, <2>2, <2>3 DEF Silent
<1>7. StartIndexOwned'
  BY <1>1 DEF StartIndexOwned, Forget
<1>8. Awaited' = Awaited \ S
  <2>1. Awaited' = {r \in Registered' \ stopped' : Busy(r)' \/ mail'[r] # NoMail}
    BY DEF Awaited
  <2> QED
    BY <1>1, <1>2, <1>3, <2>1 DEF Awaited, Registered
<1>9. Kept
  BY <1>8 DEF Kept, Forget, requestVars, Awaited, Registered
<1> QED
  BY <1>6, <1>7, <1>8, <1>9 DEF Drops

LEMMA LaunchFlow ==
  ASSUME TypeOK, Core, Silent, StartIndexOwned,
         NEW k \in Keyword, NEW page, NEW inPass \in BOOLEAN,
         NEW S \in SUBSET Registered, NEW H \in SUBSET S,
         Launch(k, page, inPass, S, H, S), UNCHANGED mail
  PROVE  Silent' /\ StartIndexOwned' /\ Adds(k, page, inPass, S)
<1>1. PICK n \in Request : n = requestSeq + 1 /\ requestSeq' = n /\ requestSeq \in Nat
  BY RegistryAssumption DEF Launch, TypeOK, Request
<1>2. S \subseteq Request
  BY DEF Registered
<1>3. \A r \in Registered \cup stopped \cup sequential : r <= requestSeq /\ r # n
  BY <1>1 DEF Core, Numbered, Silent, TypeOK, Request, Registered
<1>4. /\ handles' = [r \in Request |-> IF r = n THEN k
                                       ELSE IF r \in S THEN NoKeyword ELSE handles[r]]
      /\ reqTab' = [reqTab EXCEPT ![n] = k]
      /\ phase' = [q \in Request |->
                     IF q = n THEN "net" ELSE IF q \in H THEN "dead" ELSE phase[q]]
      /\ stopped' = stopped \cup S
      /\ startIndex' = [Forget(S) EXCEPT ![n] = page]
      /\ sequential' = IF inPass THEN sequential \cup {n} ELSE sequential
      /\ \A q \in S \ H : Busy(q)
  BY <1>1 DEF Launch, PopAndRegister, HandlesWithout
<1>5. Registered' = (Registered \ S) \cup {n}
  BY <1>1, <1>4, RegistryAssumption DEF Registered
<1>6. /\ mail[n] = NoMail /\ n \notin Awaited /\ n \notin stopped'
      /\ Busy(n)'
  <2>1. mail[n] = NoMail
    BY <1>1 DEF Core, Numbered
  <2>2. n \notin Awaited /\ n \notin stopped'
    BY <1>3, <1>4 DEF Awaited
  <2>3. Busy(n)'
    BY <1>1, <1>4 DEF Busy
  <2> QED
    BY <2>1, <2>2, <2>3
<1>7. \A r \in Request \ {n} : /\ r \in H => ~Busy(r)'
                               /\ r \notin H => (Busy(r)' <=> Busy(r))
  BY <1>4 DEF Busy
<1>8. Silent'
  <2>1. \A r \in Request : Busy(r)' => mail'[r] = NoMail
    BY <1>6, <1>7 DEF Silent
  <2>2. \A r \in Registered' \cap stopped' : mail'[r] = NoMail
    BY <1>4, <1>5, <1>6 DEF Silent
  <2>3. stopped' \cup sequential' \subseteq stopped \cup sequential \cup S \cup {n}
    BY <1>4
  <2>4. stopped \cup sequential \cup S \subseteq Request
    BY <1>2 DEF TypeOK
  <2>5. \A r \in stopped' \cup sequential' : r <= requestSeq'
    BY <1>1, <1>3, <2>3, <2>4 DEF Request
  <2> QED
    BY <2>1, <2>2, <2>5 DEF Silent
<1>9. StartIndexOwned'
  BY <1>1, <1>4, <1>5 DEF StartIndexOwned, Forget
<1>10. Awaited' = (Awaited \ S) \cup {n}
  <2>1. Awaited' = {r \in Registered' \ stopped' : Busy(r)' \/ mail'[r] # NoMail}
    BY DEF Awaited
  <2> QED
    BY <1>2, <1>4, <1>5, <1>6, <1>7, <2>1 DEF Awaited, Registered
<1>11. Kept
  <2>1. \A r \in Awaited \cap Awaited' : r \in Request /\ r # n /\ r \notin S
    BY <1>6, <1>10 DEF Awaited, Registered
  <2>2. reqTab \in [Request -> Keyword \cup {NoKeyword}]
    BY DEF TypeOK
  <2> QED
    BY <1>4, <2>1, <2>2 DEF Kept, Forget
<1>12. reqTab'[n] = k /\ startIndex'[n] = page
  BY <1>1, <1>4 DEF TypeOK, Forget
<1>13. n \in sequential' <=> inPass
  BY <1>3, <1>4
<1> QED
  BY <1>1, <1>6, <1>8, <1>9, <1>10, <1>11, <1>12, <1>13 DEF Adds

LEMMA StartFlow ==
  ASSUME TypeOK, Core, Silent, StartIndexOwned,
         NEW k \in Keyword, NEW page, NEW inPass \in BOOLEAN,
         Start(k, page, inPass), UNCHANGED mail
  PROVE  Silent' /\ StartIndexOwned' /\ Adds(k, page, inPass, ActiveHandle(k))
<1>1. ActiveHandle(k) \in SUBSET Registered
  BY ActiveHandleType
<1> QED
  BY <1>1, LaunchFlow DEF Start

LEMMA SkipFlow ==
  ASSUME TypeOK, Core, Silent, StartIndexOwned,
         NEW k \in Keyword, SkipStart(k), UNCHANGED mail
  PROVE  Silent' /\ StartIndexOwned' /\ Drops(ActiveHandle(k))
<1>1. ActiveHandle(k) \in SUBSET Registered
  BY ActiveHandleType
<1>2. /\ Cleanup(ActiveHandle(k), {})
      /\ UNCHANGED <<registryVars, requestVars, startIndex>>
  BY DEF SkipStart
<1>3. handles' = HandlesWithout({}) /\ startIndex' = Forget({})
  BY <1>2 DEF HandlesWithout, Forget, TypeOK, RegistryTypeOK, registryVars
<1> QED
  BY <1>1, <1>2, <1>3, CleanupFlow DEF Core

LEMMA RaiseFlow ==
  ASSUME TypeOK, Core, Silent, StartIndexOwned,
         NEW k \in Keyword, Raise(k), UNCHANGED mail
  PROVE  Silent' /\ StartIndexOwned' /\ DropsSome
<1>1. PICK R \in {{}, ActiveHandle(k)} :
        Cleanup(R, R) /\ Pop(R) /\ startIndex' = Forget(R) /\ UNCHANGED requestVars
  BY DEF Raise
<1>2. R \in SUBSET Registered
  BY ActiveHandleType
<1>3. Silent' /\ StartIndexOwned' /\ Drops(R)
  BY <1>1, <1>2, CleanupFlow DEF Pop, Core
<1> QED
  BY <1>3 DEF DropsSome

(* A turn of the pass: a fetch, or a timer for the next turn.              *)
TakesTurn(k) == Adds(k, 1, TRUE, ActiveHandle(k))

LEMMA FetchNextFlow ==
  ASSUME TypeOK, Core, Silent, StartIndexOwned,
         NEW list \in Seq(Keyword), NEW i \in 1 .. Len(list), NEW others,
         FetchNext(list, i, others), UNCHANGED mail
  PROVE  /\ Silent' /\ StartIndexOwned'
         /\ \/ /\ TakesTurn(list[i])
               /\ idx' = i - 1 /\ timers' = others
            \/ DropsSome /\ idx' = i /\ timers' = others + 1
<1>1. list[i] \in Keyword
  OBVIOUS
<1>2. CASE Start(list[i], 1, TRUE) /\ idx' = i - 1 /\ timers' = others
  BY <1>1, <1>2, StartFlow DEF TakesTurn
<1>3. CASE (SkipStart(list[i]) \/ Raise(list[i])) /\ idx' = i /\ timers' = others + 1
  BY <1>1, <1>3, SkipFlow, RaiseFlow DEF DropsSome
<1>4. CASE /\ UNCHANGED <<registryVars, requestVars, startIndex, threadVars>>
           /\ idx' = i /\ timers' = others + 1
  BY <1>4, FrameFlow DEF DropsSome
<1> QED
  BY <1>2, <1>3, <1>4 DEF FetchNext

-----------------------------------------------------------------------------
(* The actions, one by one.                                                *)

(* fetch_news() outside a pass: one of the pages is asked for, or nothing. *)
Fetches(k, pages) ==
  DropsSome \/ \E page \in pages : \E S : Adds(k, page, FALSE, S)

LEMMA TabFlow ==
  ASSUME TypeOK, Core, Silent, StartIndexOwned, NEW k \in Keyword,
         AddTab(k) \/ RefreshTab(k) \/ LoadMore(k)
  PROVE  /\ Silent' /\ StartIndexOwned' /\ UNCHANGED <<passVars, maintenance>>
         /\ \/ cursor' = cursor /\ Fetches(k, {1, NextPage(cursor[k])})
            \/ /\ PastLimit(NextPage(cursor[k])) /\ Fetches(k, {1})
               /\ cursor' = [cursor EXCEPT ![k] = 0]
<1> USE DEF Fetches, DropsSome
<1>1. CASE AddTab(k)
  <2>1. CASE UNCHANGED <<registryVars, requestVars, startIndex, threadVars>>
    BY <1>1, <2>1, FrameFlow DEF AddTab
  <2>2. CASE Start(k, 1, FALSE) \/ SkipStart(k)
    BY <1>1, <2>2, StartFlow, SkipFlow DEF AddTab
  <2> QED
    BY <1>1, <2>1, <2>2 DEF AddTab
<1>2. CASE RefreshTab(k)
  BY <1>2, StartFlow, SkipFlow DEF RefreshTab
<1>3. CASE LoadMore(k)
  <2> DEFINE page == NextPage(cursor[k])
  <2>1. UNCHANGED <<mail, passVars, maintenance>>
    BY <1>3 DEF LoadMore
  <2>2. CASE ~PastLimit(page)
    BY <1>3, <2>1, <2>2, StartFlow, SkipFlow DEF LoadMore
  <2>3. CASE PastLimit(page)
    <3>1. /\ \/ Start(k, 1, FALSE) \/ SkipStart(k)
             \/ UNCHANGED <<registryVars, requestVars, startIndex, threadVars>>
          /\ cursor' = [cursor EXCEPT ![k] = 0]
      BY <1>3, <2>3 DEF LoadMore
    <3>2. Silent' /\ StartIndexOwned' /\ Fetches(k, {1})
      BY <2>1, <3>1, StartFlow, SkipFlow, FrameFlow
    <3> QED
      BY <2>1, <2>3, <3>1, <3>2
  <2> QED
    BY <2>2, <2>3
<1> QED
  BY <1>1, <1>2, <1>3

LEMMA ResetFlow ==
  ASSUME Silent, StartIndexOwned, NEW k \in Keyword, ResetCursor(k)
  PROVE  /\ Silent' /\ StartIndexOwned' /\ Drops({})
         /\ UNCHANGED <<passVars, maintenance>>
BY FrameFlow DEF ResetCursor

LEMMA CloseFlow ==
  ASSUME TypeOK, Core, Silent, StartIndexOwned, NEW k \in Keyword, CloseTab(k)
  PROVE  /\ Silent' /\ StartIndexOwned' /\ Drops(ActiveHandle(k))
         /\ UNCHANGED <<passVars, maintenance>>
<1> DEFINE old == ActiveHandle(k)
<1>1. old \in SUBSET Registered
  BY ActiveHandleType
<1>2. PICK ended \in SUBSET old : Cleanup(old, ended)
  BY DEF CloseTab
<1>3. /\ Pop(old) /\ startIndex' = Forget(old)
      /\ UNCHANGED <<requestVars, mail, passVars, maintenance>>
  BY DEF CloseTab
<1> QED
  BY <1>1, <1>2, <1>3, CleanupFlow DEF Pop, Core

LEMMA RenameFlow ==
  ASSUME TypeOK, Core, Silent, StartIndexOwned,
         NEW k \in Keyword, NEW n \in Keyword, RenameTab(k, n)
  PROVE  /\ Silent' /\ StartIndexOwned'
         /\ \E S : /\ ActiveHandle(k) \subseteq S
                   /\ Drops(S) \/ Adds(n, 1, FALSE, S)
         /\ UNCHANGED <<passVars, maintenance>>
<1> DEFINE old == ActiveHandle(k)
           clash == ActiveHandle(n) \ old
<1>1. old \in SUBSET Registered /\ clash \in SUBSET Registered
  BY ActiveHandleType
<1>2. PICK ended \in SUBSET old :
        \/ Launch(n, 1, FALSE, old \cup clash, ended \cup clash, old \cup clash)
        \/ /\ \E blocking \in {{}, clash} : Cleanup(old \cup blocking, ended)
           /\ Pop(old) /\ startIndex' = Forget(old) /\ UNCHANGED requestVars
  BY DEF RenameTab
<1>3. UNCHANGED <<mail, passVars, maintenance>>
  BY DEF RenameTab
<1>4. CASE Launch(n, 1, FALSE, old \cup clash, ended \cup clash, old \cup clash)
  <2>1. old \cup clash \in SUBSET Registered
    BY <1>1
  <2>2. ended \cup clash \in SUBSET (old \cup clash)
    OBVIOUS
  <2>3. Silent' /\ StartIndexOwned' /\ Adds(n, 1, FALSE, old \cup clash)
    BY <1>3, <1>4, <2>1, <2>2, LaunchFlow
  <2> QED
    BY <1>3, <2>3
<1>5. CASE /\ \E blocking \in {{}, clash} : Cleanup(old \cup blocking, ended)
           /\ Pop(old) /\ startIndex' = Forget(old) /\ UNCHANGED requestVars
  <2>1. PICK blocking \in {{}, clash} : Cleanup(old \cup blocking, ended)
    BY <1>5
  <2>2. old \cup blocking \in SUBSET Registered /\ old \in SUBSET (old \cup blocking)
    BY <1>1
  <2>3. Silent' /\ StartIndexOwned' /\ Drops(old \cup blocking)
    BY <1>3, <1>5, <2>1, <2>2, CleanupFlow DEF Pop, Core
  <2> QED
    BY <1>3, <2>3
<1> QED
  BY <1>2, <1>4, <1>5

LEMMA BeginPassFlow ==
  ASSUME FInv, NEW list \in TabLists, BeginPass(list)
  PROVE  /\ Silent' /\ StartIndexOwned' /\ ~maintenance' /\ refreshActive' = TRUE
         /\ pending' = list /\ list \in Seq(Keyword) /\ Len(list) >= 1
         /\ \/ /\ TakesTurn(list[1])
               /\ idx' = 0 /\ timers' = timers
            \/ DropsSome /\ idx' = 1 /\ timers' = timers + 1
<1>1. list \in Seq(Keyword) /\ 1 \in 1 .. Len(list)
  BY TabListType DEF FInv, IInv
<1>2. FetchNext(list, 1, timers) /\ mail' = mail
  BY DEF BeginPass
<1>3. /\ Silent' /\ StartIndexOwned'
      /\ \/ /\ TakesTurn(list[1])
            /\ idx' = 0 /\ timers' = timers
         \/ DropsSome /\ idx' = 1 /\ timers' = timers + 1
  BY <1>1, <1>2, FetchNextFlow DEF FInv, IInv
<1>4. ~maintenance' /\ refreshActive' = TRUE /\ pending' = list
  BY DEF BeginPass, RefreshBlocked
<1> QED
  BY <1>1, <1>3, <1>4

LEMMA ProcessNextFlow ==
  ASSUME TypeOK, Core, Silent, StartIndexOwned, ProcessNext
  PROVE  /\ Silent' /\ StartIndexOwned'
         /\ timers > 0 /\ refreshActive /\ idx < Len(pending)
         /\ UNCHANGED <<refreshActive, pending, refreshInProgress, cursor, maintenance>>
         /\ \/ /\ TakesTurn(pending[idx + 1])
               /\ idx' = idx /\ timers' = timers - 1
            \/ DropsSome /\ idx' = idx + 1 /\ timers' = timers
<1>1. /\ timers \in Nat /\ timers > 0 /\ refreshActive /\ idx < Len(pending)
      /\ idx \in Nat /\ pending \in Seq(Keyword)
      /\ UNCHANGED <<refreshActive, pending, refreshInProgress, cursor, maintenance, mail>>
      /\ FetchNext(pending, idx + 1, timers - 1)
  BY DEF ProcessNext, TimerFires, PassOver, TypeOK
<1>2. idx + 1 \in 1 .. Len(pending)
  BY <1>1
<1>3. /\ Silent' /\ StartIndexOwned'
      /\ \/ /\ TakesTurn(pending[idx + 1])
            /\ idx' = idx + 1 - 1 /\ timers' = timers - 1
         \/ DropsSome /\ idx' = idx + 1 /\ timers' = timers - 1 + 1
  BY <1>1, <1>2, FetchNextFlow
<1>4. idx + 1 - 1 = idx /\ timers - 1 + 1 = timers
  BY <1>1
<1> QED
  BY <1>1, <1>3, <1>4

(* The timers and dialogs that leave workers and pass alone, and the end   *)
(* of maintenance.                                                         *)
LEMMA QuietFlow ==
  ASSUME Silent, StartIndexOwned,
         \/ ChangeCredentials \/ DismissErrorDialog \/ AutoTickIdle
         \/ CooldownExpires \/ EndMaintenance \/ UNCHANGED vars
  PROVE  /\ Silent' /\ StartIndexOwned' /\ Drops({})
         /\ UNCHANGED <<passVars, cursor>> /\ (maintenance' => maintenance)
BY FrameFlow
   DEF ChangeCredentials, DismissErrorDialog, AutoTickIdle, CooldownExpires,
       EndMaintenance, vars, pageVars

LEMMA LateTimerFlow ==
  ASSUME Silent, StartIndexOwned, TimerIgnored \/ FinishPass
  PROVE  Silent' /\ StartIndexOwned' /\ Drops({}) /\ UNCHANGED <<cursor, maintenance>>
BY FrameFlow DEF TimerIgnored, FinishPass, TimerFires

(* An outcome that is handled is one that was awaited.                     *)
LEMMA ReceivedWasAwaited ==
  ASSUME TypeOK, Core, Silent, NEW r \in Request, mail[r] # NoMail,
         IsActive(reqTab[r], r)
  PROVE  r \in Awaited /\ ~Busy(r) /\ reqTab[r] \in Keyword
<1>1. r \in Nat /\ requestSeq \in Nat /\ ~(r > requestSeq)
  BY RegistryAssumption DEF Core, Numbered, TypeOK, Request
<1>2. reqTab[r] \in Keyword
  BY <1>1 DEF Core, Numbered
<1>3. r \in Registered
  BY <1>1, <1>2, RegistryAssumption
     DEF Core, RegistryConsistent, IsActive, Registered, Request, NoRequest
<1> QED
  BY <1>2, <1>3 DEF Silent, Awaited

LEMMA OutcomeFlow ==
  ASSUME TypeOK, Core, Silent, StartIndexOwned, NEW r \in Request,
         OnFetchDone(r) \/ OnFetchError(r)
  PROVE  /\ Silent' /\ StartIndexOwned' /\ Drops({r}) /\ r \in Awaited
         /\ IF r \in sequential THEN Advance ELSE UNCHANGED passVars
         /\ UNCHANGED maintenance
<1>1. PICK kinds \in {{"done"}, ErrorKind} : Receive(r, kinds)
  BY DEF OnFetchDone, OnFetchError
<1>2. /\ mail[r] # NoMail /\ IsActive(reqTab[r], r)
      /\ mail' = [mail EXCEPT ![r] = NoMail]
      /\ UNCHANGED <<registryVars, threadVars, requestVars, maintenance>>
      /\ IF r \in sequential THEN Advance ELSE UNCHANGED passVars
  BY <1>1 DEF Receive, NoMail, ErrorKind
<1>3. r \in Awaited /\ ~Busy(r)
  BY <1>2, ReceivedWasAwaited
<1>4. startIndex' = startIndex \/ startIndex' = Forget({r})
  BY DEF OnFetchDone, OnFetchError
<1>5. Registered' = Registered /\ stopped' = stopped /\ \A q \in Request : Busy(q)' <=> Busy(q)
  BY <1>2 DEF Registered, Busy, registryVars, threadVars
<1>6. \A q \in Request : mail'[q] = IF q = r THEN NoMail ELSE mail[q]
  BY <1>2 DEF TypeOK
<1>7. Silent'
  BY <1>2, <1>5, <1>6 DEF Silent, requestVars, Registered
<1>8. StartIndexOwned'
  BY <1>4, <1>5 DEF StartIndexOwned, Forget
<1>9. Awaited' = Awaited \ {r}
  <2>1. Awaited' = {q \in Registered' \ stopped' : Busy(q)' \/ mail'[q] # NoMail}
    BY DEF Awaited
  <2> QED
    BY <1>3, <1>5, <1>6, <2>1 DEF Awaited, Registered
<1>10. Kept
  <2>1. \A q \in Awaited' : q \in Request /\ q # r
    BY <1>9 DEF Awaited, Registered
  <2> QED
    BY <1>2, <1>4, <2>1 DEF Kept, Forget, requestVars
<1> QED
  BY <1>2, <1>3, <1>7, <1>8, <1>9, <1>10 DEF Drops

LEMMA LateSignalFlow ==
  ASSUME TypeOK, Core, Silent, StartIndexOwned, NEW r \in Request,
         IgnoreStale(r) \/ OnThreadFinished(r)
  PROVE  /\ Silent' /\ StartIndexOwned' /\ Drops({})
         /\ UNCHANGED <<passVars, cursor, maintenance>>
<1>1. CASE IgnoreStale(r)
  <2>1. r \notin Registered
    BY <1>1 DEF IgnoreStale, Core, RegistryConsistent
  <2>2. /\ \A q \in Request : mail'[q] = IF q = r THEN NoMail ELSE mail[q]
        /\ UNCHANGED <<registryVars, threadVars, requestVars, pageVars, passVars, maintenance>>
    BY <1>1 DEF IgnoreStale, TypeOK
  <2>3. Registered' = Registered /\ \A q \in Request : Busy(q)' <=> Busy(q)
    BY <2>2 DEF Registered, Busy, registryVars, threadVars
  <2>4. Silent' /\ StartIndexOwned'
    BY <2>2, <2>3 DEF Silent, StartIndexOwned, Registered, requestVars, threadVars, pageVars
  <2>5. Awaited' = {q \in Registered' \ stopped' : Busy(q)' \/ mail'[q] # NoMail}
    BY DEF Awaited
  <2>6. Drops({})
    BY <2>1, <2>2, <2>3, <2>5
       DEF Drops, Kept, Awaited, Registered, requestVars, threadVars, pageVars
  <2> QED
    BY <2>2, <2>4, <2>6 DEF pageVars
<1>2. CASE OnThreadFinished(r)
  <2> DEFINE R == {r} \cap Registered
  <2>1. /\ phase[r] = "dead" /\ mail[r] = NoMail
        /\ phase' = [phase EXCEPT ![r] = "gone"] /\ stopped' = stopped \cup {r}
        /\ handles' = HandlesWithout(R) /\ startIndex' = Forget(R)
        /\ UNCHANGED <<passVars, requestVars, cursor, mail, maintenance>>
    BY <1>2 DEF OnThreadFinished, Pop
  <2>2. Registered' = Registered \ R
    BY <2>1 DEF Registered, HandlesWithout
  <2>3. r \notin Awaited /\ \A q \in Request : Busy(q)' <=> Busy(q)
    BY <2>1 DEF Awaited, Busy, TypeOK
  <2>4. r <= requestSeq
    BY <2>1 DEF Core, Numbered, TypeOK, Request
  <2>5. Silent'
    <3>1. \A q \in Request : Busy(q)' => mail'[q] = NoMail
      BY <2>1, <2>3 DEF Silent
    <3>2. \A q \in Registered' \cap stopped' : mail'[q] = NoMail
      BY <2>1, <2>2 DEF Silent
    <3>3. \A q \in stopped' \cup sequential' : q <= requestSeq'
      BY <2>1, <2>4 DEF Silent, requestVars
    <3> QED
      BY <3>1, <3>2, <3>3 DEF Silent
  <2>6. StartIndexOwned'
    BY <2>1, <2>2 DEF StartIndexOwned, Forget
  <2>7. Awaited' = {q \in Registered' \ stopped' : Busy(q)' \/ mail'[q] # NoMail}
    BY DEF Awaited
  <2>8. Awaited' = Awaited
    BY <2>1, <2>2, <2>3, <2>7 DEF Awaited, Registered
  <2>9. Kept
    BY <2>1, <2>3, <2>8 DEF Kept, Forget, Awaited, Registered, requestVars
  <2> QED
    BY <2>1, <2>5, <2>6, <2>8, <2>9 DEF Drops
<1> QED
  BY <1>1, <1>2

LEMMA ThreadFlow ==
  ASSUME TypeOK, Core, Silent, StartIndexOwned, NEW r \in Request, ThreadStep(r)
  PROVE  /\ Silent' /\ StartIndexOwned' /\ Drops({})
         /\ UNCHANGED <<passVars, cursor, maintenance>>
<1>1. PICK from \in {"net", "db", "over"}, to \in {"db", "over", "dead"} :
        WorkerStep(r, from, to)
  BY DEF ThreadStep, BeginWrite, FinishWrite, NoticeStop, ThreadExit, FailFetch
<1>2. /\ phase[r] = from /\ phase' = [phase EXCEPT ![r] = to]
      /\ UNCHANGED <<registryVars, stopped, requestVars, pageVars, passVars, maintenance>>
  BY <1>1 DEF WorkerStep
<1>3. \/ Busy(r) /\ Busy(r)' /\ mail' = mail
      \/ /\ Busy(r) /\ ~Busy(r)' /\ r \notin stopped
         /\ \E m \in ErrorKind \cup {"done"} : mail' = [mail EXCEPT ![r] = m]
      \/ Busy(r) /\ ~Busy(r)' /\ r \in stopped /\ mail' = mail
      \/ ~Busy(r) /\ ~Busy(r)' /\ mail' = mail
  <2>1. CASE BeginWrite(r)
    BY <2>1 DEF BeginWrite, WorkerStep, Busy, TypeOK
  <2>2. CASE FinishWrite(r)
    BY <2>2 DEF FinishWrite, WorkerStep, Busy, TypeOK
  <2>3. CASE NoticeStop(r)
    BY <2>3 DEF NoticeStop, WorkerStep, Busy, TypeOK
  <2>4. CASE ThreadExit(r)
    BY <2>4 DEF ThreadExit, WorkerStep, Busy, TypeOK
  <2>5. ASSUME NEW kind \in Failures, FailFetch(r, kind)
        PROVE  /\ Busy(r) /\ ~Busy(r)' /\ r \notin stopped
               /\ kind \in ErrorKind /\ mail' = [mail EXCEPT ![r] = kind]
    BY <2>5, FetchFlowAssumption DEF FailFetch, WorkerStep, Busy, TypeOK
  <2> QED
    BY <2>1, <2>2, <2>3, <2>4, <2>5 DEF ThreadStep
<1>4. \A q \in Request \ {r} : (Busy(q)' <=> Busy(q)) /\ mail'[q] = mail[q]
  BY <1>2, <1>3 DEF Busy, TypeOK
<1>5. Registered' = Registered /\ stopped' = stopped
  BY <1>2 DEF Registered, registryVars
<1>6. mail[r] = NoMail \/ ~Busy(r)
  BY DEF Silent
<1>7. \/ mail'[r] = mail[r] /\ (r \in stopped \/ (Busy(r)' <=> Busy(r)))
      \/ Busy(r) /\ ~Busy(r)' /\ r \notin stopped /\ mail'[r] # NoMail
  BY <1>3 DEF TypeOK, NoMail, ErrorKind
<1>8. Silent'
  <2>1. \A q \in Request : Busy(q)' => mail'[q] = NoMail
    BY <1>3, <1>4, <1>6 DEF Silent
  <2>2. \A q \in Registered' \cap stopped' : mail'[q] = NoMail
    BY <1>4, <1>5, <1>7 DEF Silent, Registered
  <2> QED
    BY <1>2, <2>1, <2>2 DEF Silent, requestVars
<1>9. StartIndexOwned'
  BY <1>2, <1>5 DEF StartIndexOwned, pageVars
<1>10. Awaited' = Awaited
  <2>1. Awaited' = {q \in Registered' \ stopped' : Busy(q)' \/ mail'[q] # NoMail}
    BY DEF Awaited
  <2>2. r \notin stopped => ((Busy(r)' \/ mail'[r] # NoMail) <=> (Busy(r) \/ mail[r] # NoMail))
    BY <1>3, <1>7
  <2> QED
    BY <1>4, <1>5, <2>1, <2>2 DEF Awaited, Registered
<1>11. Kept
  BY <1>2 DEF Kept, requestVars, pageVars
<1> QED
  BY <1>2, <1>8, <1>9, <1>10, <1>11 DEF Drops, pageVars

LEMMA MaintenanceFlow ==
  ASSUME TypeOK, Core, Silent, StartIndexOwned, BeginMaintenance
  PROVE  Silent' /\ StartIndexOwned' /\ Drops(Registered) /\ UNCHANGED cursor
<1>1. PICK ended \in SUBSET Registered :
        Cleanup(Registered, ended) /\ Pop(ended) /\ startIndex' = Forget(ended)
  BY DEF BeginMaintenance
<1>2. UNCHANGED <<requestVars, mail, cursor>>
  BY DEF BeginMaintenance
<1> QED
  BY <1>1, <1>2, CleanupFlow DEF Pop, Core

-----------------------------------------------------------------------------
(* The flags, and the entries of _request_start_index.                     *)

LEMMA FlagsStep ==
  ASSUME RefreshFlagsAgree, [Next]_vars
  PROVE  RefreshFlagsAgree'
<1> USE DEF RefreshFlagsAgree
<1>1. ASSUME NEW k \in Keyword,
             \/ AddTab(k) \/ CloseTab(k) \/ RefreshTab(k) \/ LoadMore(k)
             \/ ResetCursor(k) \/ \E n \in Keyword : RenameTab(k, n)
      PROVE  UNCHANGED <<refreshActive, refreshInProgress, maintenance>>
  BY <1>1 DEF AddTab, CloseTab, RefreshTab, LoadMore, ResetCursor, RenameTab, passVars
<1>2. ASSUME NEW list \in TabLists, RefreshAll(list) \/ AutoTick(list)
      PROVE  RefreshFlagsAgree'
  BY <1>2 DEF RefreshAll, AutoTick, BeginPass, RefreshBlocked
<1>3. CASE \/ ChangeCredentials \/ DismissErrorDialog \/ AutoTickIdle
           \/ CooldownExpires \/ EndMaintenance \/ UNCHANGED vars
  BY <1>3 DEF ChangeCredentials, DismissErrorDialog, AutoTickIdle, CooldownExpires,
              EndMaintenance, vars, passVars
<1>4. CASE TimerIgnored \/ FinishPass \/ ProcessNext
  BY <1>4 DEF TimerIgnored, FinishPass, ProcessNext, TimerFires
<1>5. ASSUME NEW r \in Request, SignalStep(r)
      PROVE  UNCHANGED <<refreshActive, refreshInProgress, maintenance>>
  BY <1>5 DEF SignalStep, IgnoreStale, OnFetchDone, OnFetchError, OnThreadFinished,
              Receive, Advance, passVars
<1>6. ASSUME NEW r \in Request, ThreadStep(r)
      PROVE  UNCHANGED <<refreshActive, refreshInProgress, maintenance>>
  BY <1>6 DEF ThreadStep, BeginWrite, FinishWrite, FailFetch, NoticeStop, ThreadExit,
              WorkerStep, passVars
<1>7. CASE BeginMaintenance
  BY <1>7 DEF BeginMaintenance
<1> QED
  BY <1>1, <1>2, <1>3, <1>4, <1>5, <1>6, <1>7 DEF Next, UserStep, TimerStep

LEMMA SilentStep ==
  ASSUME FInv, [Next]_vars
  PROVE  Silent' /\ StartIndexOwned'
<1>0. TypeOK /\ Core /\ Silent /\ StartIndexOwned
  BY DEF FInv, IInv
<1>1. CASE UserStep
  BY <1>0, <1>1, TabFlow, ResetFlow, CloseFlow, RenameFlow, BeginPassFlow, QuietFlow
     DEF UserStep, RefreshAll
<1>2. CASE TimerStep
  BY <1>0, <1>2, BeginPassFlow, ProcessNextFlow, LateTimerFlow, QuietFlow
     DEF TimerStep, AutoTick
<1>3. ASSUME NEW r \in Request, SignalStep(r) \/ ThreadStep(r)
      PROVE  Silent' /\ StartIndexOwned'
  BY <1>0, <1>3, OutcomeFlow, LateSignalFlow, ThreadFlow DEF SignalStep
<1>4. CASE BeginMaintenance \/ EndMaintenance \/ UNCHANGED vars
  BY <1>0, <1>4, MaintenanceFlow, QuietFlow
<1> QED
  BY <1>1, <1>2, <1>3, <1>4 DEF Next

LEMMA InitFInv == Init => FInv
<1> SUFFICES ASSUME Init PROVE FInv
  OBVIOUS
<1>1. Silent
  BY DEF Init, Silent, Busy
<1>2. StartIndexOwned /\ RefreshFlagsAgree
  BY DEF Init, StartIndexOwned, RefreshFlagsAgree
<1> QED
  BY <1>1, <1>2, InitIInv DEF FInv

LEMMA NextFInv == FInv /\ [Next]_vars => FInv'
BY NextIInv, SilentStep, FlagsStep DEF FInv

LEMMA FlowInvariant == Spec => []FInv
BY InitFInv, NextFInv, PTL DEF Spec

(* _request_start_index: an entry goes with its request, whichever of the  *)
(* handlers cleans it up.                                                  *)
THEOREM StartIndexIsOwned == Spec => []StartIndexOwned
<1>1. FInv => StartIndexOwned
  BY DEF FInv
<1> QED
  BY FlowInvariant, <1>1, PTL

(* _refresh_in_progress is never left set after its pass, and maintenance  *)
(* never runs beside a pass.                                               *)
THEOREM RefreshFlags == Spec => []RefreshFlagsAgree
<1>1. FInv => RefreshFlagsAgree
  BY DEF FInv
<1> QED
  BY FlowInvariant, <1>1, PTL

-----------------------------------------------------------------------------
(* The paging cursors.                                                     *)

(* Every awaited request is the active one of its tab.                     *)
LEMMA AwaitedTab ==
  ASSUME TypeOK, Core, NEW r \in Awaited
  PROVE  r \in Request /\ reqTab[r] \in Keyword /\ r \in ActiveHandle(reqTab[r])
BY DEF Awaited, Core, RegistryConsistent, IsActive, ActiveHandle, Registered, TypeOK,
       RegistryTypeOK

LEMMA PagesDropped ==
  ASSUME TypeOK, Core, PagesInOrder, DropsSome, UNCHANGED cursor
  PROVE  PagesInOrder'
BY DEF PagesInOrder, DropsSome, Drops, Kept, NextPage

LEMMA PagesAdded ==
  ASSUME TypeOK, Core, PagesInOrder, UNCHANGED cursor,
         NEW k \in Keyword, NEW page \in {1, NextPage(cursor[k])}, NEW inPass, NEW S,
         Adds(k, page, inPass, S)
  PROVE  PagesInOrder'
BY DEF PagesInOrder, Adds, Kept, NextPage

(* The cursor of a tab goes back to the start, and what is awaited for it  *)
(* is none but the first page.                                             *)
LEMMA PagesReset ==
  ASSUME TypeOK, Core, PagesInOrder, NEW k \in Keyword, cursor' = [cursor EXCEPT ![k] = 0],
         NEW S, \A r \in Awaited \ S : reqTab[r] = k => startIndex[r] \in {0, 1},
         Drops(S) \/ \E n \in Keyword, inPass \in BOOLEAN : Adds(n, 1, inPass, S)
  PROVE  PagesInOrder'
<1>1. \A r \in Awaited \ S : startIndex[r] \in {0, 1, NextPage(cursor'[reqTab[r]])}
  BY AwaitedTab DEF PagesInOrder, NextPage, TypeOK
<1>2. CASE Drops(S)
  BY <1>1, <1>2 DEF PagesInOrder, Drops, Kept, NextPage
<1>3. ASSUME NEW n \in Keyword, NEW inPass \in BOOLEAN, Adds(n, 1, inPass, S)
      PROVE  PagesInOrder'
  BY <1>1, <1>3 DEF PagesInOrder, Adds, Kept, NextPage
<1> QED
  BY <1>2, <1>3

Contiguous ==
  \A k \in Keyword : cursor'[k] \in {cursor[k], 0, 1, NextPage(cursor[k])}

LEMMA PagesStep ==
  ASSUME PagesInv, [Next]_vars, "resetCursor" \notin Ops
  PROVE  PagesInOrder' /\ Contiguous
<1>0. TypeOK /\ Core /\ Silent /\ StartIndexOwned /\ PagesInOrder
  BY DEF PagesInv, FInv, IInv
<1>1. cursor \in [Keyword -> 0 .. PageLimit]
  BY <1>0 DEF TypeOK
<1>2. ASSUME DropsSome, UNCHANGED cursor PROVE PagesInOrder' /\ Contiguous
  BY <1>0, <1>2, PagesDropped DEF Contiguous
<1>3. ASSUME NEW k \in Keyword, cursor' = [cursor EXCEPT ![k] = 0] PROVE Contiguous
  BY <1>1, <1>3 DEF Contiguous
<1>4. ASSUME NEW k \in Keyword, AddTab(k) \/ RefreshTab(k) \/ LoadMore(k)
      PROVE  PagesInOrder' /\ Contiguous
  <2>1. CASE cursor' = cursor /\ Fetches(k, {1, NextPage(cursor[k])})
    BY <1>0, <1>2, <2>1, PagesAdded DEF Fetches, Contiguous
  <2>2. CASE /\ PastLimit(NextPage(cursor[k])) /\ Fetches(k, {1})
             /\ cursor' = [cursor EXCEPT ![k] = 0]
    <3>1. \A r \in Awaited : reqTab[r] = k => startIndex[r] \in {0, 1}
      <4>1. \A r \in Request : startIndex[r] \in 0 .. PageLimit
        BY <1>0 DEF TypeOK
      <4>2. \A r \in Request : startIndex[r] # NextPage(cursor[k])
        BY <1>1, <2>2, <4>1, FetchFlowAssumption DEF PastLimit, NextPage
      <4> QED
        BY <1>0, <4>2, AwaitedTab DEF PagesInOrder
    <3>2. PICK S : Drops(S) \/ Adds(k, 1, FALSE, S)
      BY <2>2 DEF Fetches, DropsSome
    <3>3. PagesInOrder'
      BY <1>0, <2>2, <3>1, <3>2, PagesReset
    <3> QED
      BY <1>3, <2>2, <3>3
  <2> QED
    BY <1>0, <1>4, <2>1, <2>2, TabFlow
<1>5. ASSUME NEW k \in Keyword, NEW S, ActiveHandle(k) \subseteq S,
             Drops(S) \/ \E n \in Keyword : Adds(n, 1, FALSE, S),
             cursor' = [cursor EXCEPT ![k] = 0]
      PROVE  PagesInOrder' /\ Contiguous
  <2>1. \A r \in Awaited \ S : reqTab[r] # k
    BY <1>0, <1>5, AwaitedTab
  <2> QED
    BY <1>0, <1>3, <1>5, <2>1, PagesReset
<1>6. ASSUME NEW k \in Keyword, CloseTab(k) PROVE PagesInOrder' /\ Contiguous
  <2>1. Drops(ActiveHandle(k)) /\ cursor' = [cursor EXCEPT ![k] = 0]
    BY <1>0, <1>6, CloseFlow DEF CloseTab
  <2> QED
    BY <1>5, <2>1
<1>7. ASSUME NEW k \in Keyword, NEW n \in Keyword, RenameTab(k, n)
      PROVE  PagesInOrder' /\ Contiguous
  <2>1. PICK S : ActiveHandle(k) \subseteq S /\ (Drops(S) \/ Adds(n, 1, FALSE, S))
    BY <1>0, <1>7, RenameFlow
  <2>2. CASE cursor' = [cursor EXCEPT ![k] = 0]
    BY <1>5, <2>1, <2>2
  <2>3. CASE cursor' = cursor
    BY <1>0, <1>2, <2>1, <2>3, PagesAdded DEF DropsSome, Contiguous
  <2> QED
    BY <1>7, <2>2, <2>3 DEF RenameTab
<1>8. ASSUME NEW list \in TabLists, RefreshAll(list) \/ AutoTick(list)
      PROVE  PagesInOrder' /\ Contiguous
  <2>1. BeginPass(list) /\ cursor' = cursor
    BY <1>8 DEF RefreshAll, AutoTick, BeginPass
  <2>2. /\ list \in Seq(Keyword) /\ Len(list) >= 1
        /\ TakesTurn(list[1]) \/ DropsSome
    BY <2>1, BeginPassFlow DEF PagesInv
  <2>3. list[1] \in Keyword
    BY <2>2
  <2> QED
    BY <1>0, <1>2, <2>1, <2>2, <2>3, PagesAdded DEF TakesTurn, Contiguous
<1>9. CASE ProcessNext
  <2>1. /\ idx < Len(pending) /\ cursor' = cursor
        /\ TakesTurn(pending[idx + 1]) \/ DropsSome
    BY <1>0, <1>9, ProcessNextFlow
  <2>2. pending[idx + 1] \in Keyword
    BY <1>0, <2>1 DEF TypeOK
  <2> QED
    BY <1>0, <1>2, <2>1, <2>2, PagesAdded DEF TakesTurn, Contiguous
<1>10. CASE \/ ChangeCredentials \/ DismissErrorDialog \/ AutoTickIdle
            \/ CooldownExpires \/ EndMaintenance \/ UNCHANGED vars
            \/ TimerIgnored \/ FinishPass \/ BeginMaintenance
  BY <1>0, <1>2, <1>10, QuietFlow, LateTimerFlow, MaintenanceFlow DEF DropsSome
<1>11. ASSUME NEW r \in Request, IgnoreStale(r) \/ OnThreadFinished(r) \/ ThreadStep(r)
       PROVE  PagesInOrder' /\ Contiguous
  BY <1>0, <1>2, <1>11, LateSignalFlow, ThreadFlow DEF DropsSome
<1>12. ASSUME NEW r \in Request, OnFetchDone(r) \/ OnFetchError(r)
       PROVE  PagesInOrder' /\ Contiguous
  <2> DEFINE k == reqTab[r]
  <2>1. Drops({r}) /\ r \in Awaited
    BY <1>0, <1>12, OutcomeFlow
  <2>2. k \in Keyword /\ startIndex[r] \in {0, 1, NextPage(cursor[k])}
    BY <1>0, <2>1, AwaitedTab DEF PagesInOrder
  <2>3. CASE cursor' = cursor
    BY <1>2, <2>1, <2>3 DEF DropsSome
  <2>4. CASE startIndex[r] > 0 /\ cursor' = [cursor EXCEPT ![k] = startIndex[r]]
    <3>1. \A q \in Awaited \ {r} : reqTab[q] # k
      BY <1>0, <2>1, AwaitedTab DEF ActiveHandle
    <3>2. \A q \in Awaited \ {r} : cursor'[reqTab[q]] = cursor[reqTab[q]]
      BY <1>0, <1>1, <2>4, <3>1, AwaitedTab
    <3>3. PagesInOrder'
      BY <1>0, <2>1, <3>2 DEF PagesInOrder, Drops, Kept, NextPage
    <3>4. Contiguous
      BY <1>1, <2>2, <2>4 DEF Contiguous
    <3> QED
      BY <3>3, <3>4
  <2> QED
    BY <1>12, <2>3, <2>4 DEF OnFetchDone, OnFetchError
<1>13. ASSUME NEW k \in Keyword PROVE ~ResetCursor(k)
  BY DEF ResetCursor, UserMay
<1> QED
  BY <1>4, <1>6, <1>7, <1>8, <1>9, <1>10, <1>11, <1>12, <1>13
     DEF Next, UserStep, TimerStep, SignalStep

(* on_fetch_done(): the cursor of a tab goes to the next page, to the      *)
(* first, or to none, whatever is closed, renamed, refreshed, overtaken or *)
(* stopped in between, unless the user resets it under a running fetch.    *)
THEOREM CursorNeverSkips ==
  ASSUME "resetCursor" \notin Ops
  PROVE  Spec => CursorContiguous
<1>1. Init => PagesInOrder
  BY DEF Init, PagesInOrder, Awaited, Busy, Registered
<1>2. PagesInv /\ [Next]_vars => PagesInOrder' /\ [Contiguous]_vars
  BY PagesStep
<1>3. Init => PagesInv
  BY <1>1, InitFInv DEF PagesInv
<1>4. PagesInv /\ [Next]_vars => PagesInv' /\ [Contiguous]_vars
  BY <1>2, NextFInv DEF PagesInv
<1> QED
  BY <1>3, <1>4, PTL DEF Spec, CursorContiguous, Contiguous

-----------------------------------------------------------------------------
(* The pass.                                                               *)

(* What the pass sees of a handler: what is in flight goes, or stays with  *)
(* its tab, or the fetch of tab k is added to it.                          *)
Settles == InFlight' \subseteq InFlight /\ \A r \in InFlight' : reqTab'[r] = reqTab[r]

LEMMA DropsSettles ==
  ASSUME DropsSome PROVE Settles
BY InFlightAwaited DEF DropsSome, Drops, Kept, Settles

LEMMA AddsSettles ==
  ASSUME NEW k, NEW page, NEW S, Adds(k, page, FALSE, S) PROVE Settles
BY InFlightAwaited DEF Adds, Kept, Settles

LEMMA TurnInFlight ==
  ASSUME NEW k, InFlight = {}, TakesTurn(k)
  PROVE  \E n \in Request : InFlight' = {n} /\ reqTab'[n] = k
BY InFlightAwaited DEF TakesTurn, Adds, Kept

(* The tab that is being fetched.                                          *)
LEMMA FetchedNone ==
  /\ InFlight = {} => FetchedTab = NoKeyword
  /\ InFlight' = {} => FetchedTab' = NoKeyword
BY DEF FetchedTab

LEMMA FetchedOne ==
  ASSUME NEW r
  PROVE  /\ InFlight = {r} => FetchedTab = reqTab[r]
         /\ InFlight' = {r} => FetchedTab' = reqTab'[r]
BY DEF FetchedTab

LEMMA FetchedIsTab ==
  ASSUME TypeOK, Core, Chain, InFlight # {}
  PROVE  \E r \in InFlight : InFlight = {r} /\ FetchedTab = reqTab[r] /\ reqTab[r] \in Keyword
<1>1. PICK r \in InFlight : TRUE
  OBVIOUS
<1>2. InFlight = {r}
  BY <1>1 DEF Chain
<1>3. reqTab[r] \in Keyword
  BY <1>1, InFlightAwaited, AwaitedTab
<1> QED
  BY <1>2, <1>3, FetchedOne

(* A handler that is not the pass's own leaves the pass as it is or takes  *)
(* its fetch away.                                                         *)
LEMMA SettlesPass ==
  ASSUME TypeOK, Core, Chain, Settles, UNCHANGED passVars
  PROVE  Chain' /\ (Pass!Abandon \/ UNCHANGED Pass!passVars)
<1>1. UNCHANGED <<refreshActive, pending, idx, timers>>
  BY DEF passVars
<1>2. Chain'
  BY <1>1 DEF Chain, Settles
<1>3. CASE InFlight = {}
  <2>1. InFlight' = {}
    BY <1>3 DEF Settles
  <2>2. FetchedTab' = FetchedTab
    BY <1>3, <2>1, FetchedNone
  <2> QED
    BY <1>1, <1>2, <2>2 DEF Pass!passVars
<1>4. CASE InFlight # {}
  <2>1. PICK r \in InFlight :
          InFlight = {r} /\ FetchedTab = reqTab[r] /\ reqTab[r] \in Keyword
    BY <1>4, FetchedIsTab
  <2>2. CASE InFlight' = {}
    <3>1. FetchedTab # NoKeyword /\ FetchedTab' = NoKeyword
      BY <2>1, <2>2, FetchedNone, RegistryAssumption
    <3> QED
      BY <1>1, <1>2, <3>1 DEF Pass!Abandon
  <2>3. CASE InFlight' # {}
    <3>1. InFlight' = {r} /\ reqTab'[r] = reqTab[r]
      BY <2>1, <2>3 DEF Settles
    <3>2. FetchedTab' = FetchedTab
      BY <2>1, <3>1, FetchedOne
    <3> QED
      BY <1>1, <1>2, <3>2 DEF Pass!passVars
  <2> QED
    BY <2>2, <2>3
<1> QED
  BY <1>3, <1>4

(* A turn of the pass is an attempt to fetch the next tab.                 *)
LEMMA TurnPass ==
  ASSUME InFlight = {}, NEW list \in Seq(Keyword), NEW i \in 1 .. Len(list),
         refreshActive', pending' = list,
         \/ TakesTurn(list[i]) /\ idx' = i - 1 /\ timers' = 0
         \/ DropsSome /\ idx' = i /\ timers' = 1
  PROVE  Chain' /\ Pass!Attempt(list, i)
<1>1. i \in Nat /\ i >= 1 /\ i <= Len(list) /\ Len(list) \in Nat
  OBVIOUS
<1>2. CASE TakesTurn(list[i]) /\ idx' = i - 1 /\ timers' = 0
  <2>1. PICK n \in Request : InFlight' = {n} /\ reqTab'[n] = list[i]
    BY <1>2, TurnInFlight
  <2>2. FetchedTab' = list[i]
    BY <2>1, FetchedOne
  <2>3. Chain'
    BY <1>1, <1>2, <2>1 DEF Chain
  <2>4. (timers > 0)' = FALSE
    BY <1>2
  <2> QED
    BY <1>2, <2>2, <2>3, <2>4 DEF Pass!Attempt
<1>3. CASE DropsSome /\ idx' = i /\ timers' = 1
  <2>1. InFlight' = {}
    BY <1>3, DropsSettles DEF Settles
  <2>2. FetchedTab' = NoKeyword
    BY <2>1, FetchedNone
  <2>3. Chain'
    BY <1>1, <1>3, <2>1 DEF Chain
  <2>4. (timers > 0)' = TRUE
    BY <1>3
  <2> QED
    BY <1>3, <2>2, <2>3, <2>4 DEF Pass!Attempt
<1> QED
  BY <1>2, <1>3

LEMMA BeginsPass ==
  ASSUME PassInv, NEW list \in TabLists, BeginPass(list)
  PROVE  Chain' /\ Pass!Begin
<1>1. ~refreshActive /\ timers = 0 /\ InFlight = {}
  BY DEF PassInv, FInv, IInv, TypeOK, BeginPass, RefreshBlocked, Chain
<1>2. /\ refreshActive' = TRUE /\ pending' = list
      /\ list \in Seq(Keyword) /\ Len(list) >= 1
      /\ \/ TakesTurn(list[1]) /\ idx' = 0 /\ timers' = timers
         \/ DropsSome /\ idx' = 1 /\ timers' = timers + 1
  BY BeginPassFlow DEF PassInv
<1>3. 1 \in 1 .. Len(list) /\ 1 - 1 = 0 /\ 0 + 1 = 1
  BY <1>2
<1>4. Chain' /\ Pass!Attempt(list, 1)
  BY <1>1, <1>2, <1>3, TurnPass
<1>5. list # <<>> /\ \A i, j \in DOMAIN list : list[i] = list[j] => i = j
  BY <1>2 DEF TabLists
<1> QED
  BY <1>1, <1>2, <1>4, <1>5 DEF Pass!Begin

LEMMA TakesNextPass ==
  ASSUME PassInv, ProcessNext
  PROVE  Chain' /\ Pass!NextTab
<1>1. /\ timers > 0 /\ refreshActive /\ idx < Len(pending)
      /\ UNCHANGED <<refreshActive, pending>>
      /\ \/ TakesTurn(pending[idx + 1]) /\ idx' = idx /\ timers' = timers - 1
         \/ DropsSome /\ idx' = idx + 1 /\ timers' = timers
  BY ProcessNextFlow DEF PassInv, FInv, IInv
<1>2. /\ timers = 1 /\ InFlight = {} /\ idx \in Nat /\ pending \in Seq(Keyword)
  BY <1>1 DEF PassInv, Chain, FInv, IInv, TypeOK
<1>3. idx + 1 \in 1 .. Len(pending) /\ idx + 1 - 1 = idx
  BY <1>1, <1>2
<1>4. Chain' /\ Pass!Attempt(pending, idx + 1)
  BY <1>1, <1>2, <1>3, TurnPass
<1> QED
  BY <1>1, <1>4 DEF Pass!NextTab

LEMMA FinishesPass ==
  ASSUME PassInv, FinishPass
  PROVE  Chain' /\ Pass!Finish
<1>1. /\ refreshActive /\ idx >= Len(pending) /\ timers > 0
      /\ refreshActive' = FALSE /\ pending' = <<>> /\ timers' = timers - 1 /\ idx' = idx
  BY DEF FinishPass, TimerFires, PassOver
<1>2. /\ timers = 1 /\ InFlight = {} /\ idx \in Nat /\ Len(pending) \in Nat
      /\ idx <= Len(pending)
  BY <1>1 DEF PassInv, Chain, FInv, IInv, TypeOK
<1>3. InFlight' = {}
  BY <1>2, DropsSettles, LateTimerFlow DEF PassInv, FInv, Settles, DropsSome
<1>4. Chain'
  BY <1>1, <1>2, <1>3 DEF Chain
<1>5. FetchedTab' = FetchedTab
  BY <1>2, <1>3, FetchedNone
<1>6. (timers > 0)' = FALSE /\ idx = Len(pending)
  BY <1>1, <1>2
<1> QED
  BY <1>1, <1>4, <1>5, <1>6 DEF Pass!Finish

(* The outcome of the pass's fetch settles its tab.                        *)
LEMMA OutcomeSettles ==
  ASSUME PassInv, NEW r \in Request, OnFetchDone(r) \/ OnFetchError(r)
  PROVE  Chain' /\ (Pass!Settle \/ Pass!Abandon \/ UNCHANGED Pass!passVars)
<1>0. TypeOK /\ Core /\ Silent /\ StartIndexOwned /\ Chain
  BY DEF PassInv, FInv, IInv
<1>1. /\ Drops({r}) /\ r \in Awaited
      /\ IF r \in sequential THEN Advance ELSE UNCHANGED passVars
  BY <1>0, OutcomeFlow
<1>2. Settles
  BY <1>1, DropsSettles DEF DropsSome
<1>3. CASE r \notin sequential
  BY <1>0, <1>1, <1>2, <1>3, SettlesPass
<1>4. CASE r \in sequential
  <2>1. r \in InFlight /\ r \notin InFlight'
    BY <1>1, <1>4, InFlightAwaited DEF Drops
  <2>2. /\ InFlight = {r} /\ refreshActive /\ idx < Len(pending)
        /\ ~(timers > 0)
    BY <1>0, <2>1 DEF Chain
  <2>3. InFlight' = {}
    BY <1>2, <2>1, <2>2 DEF Settles
  <2>4. /\ idx' = idx + 1 /\ timers' = timers + 1
        /\ UNCHANGED <<refreshActive, pending>>
    BY <1>1, <1>4, <2>2 DEF Advance
  <2>5. timers \in Nat /\ timers = 0 /\ idx \in Nat /\ Len(pending) \in Nat
    BY <1>0, <2>2 DEF TypeOK
  <2>6. Chain'
    BY <2>2, <2>3, <2>4, <2>5 DEF Chain
  <2>7. FetchedTab = reqTab[r] /\ reqTab[r] # NoKeyword /\ FetchedTab' = NoKeyword
    BY <1>0, <2>1, <2>2, <2>3, FetchedOne, FetchedNone, FetchedIsTab, RegistryAssumption
  <2>8. (timers > 0)' = TRUE
    BY <2>4, <2>5
  <2> QED
    BY <2>4, <2>6, <2>7, <2>8 DEF Pass!Settle
<1> QED
  BY <1>3, <1>4

LEMMA PassStep ==
  ASSUME PassInv, [Next]_vars, "maintenance" \notin Ops
  PROVE  Chain' /\ ~maintenance' /\ [Pass!Next]_Pass!passVars
<1>0. TypeOK /\ Core /\ Silent /\ StartIndexOwned /\ Chain /\ ~maintenance
  BY DEF PassInv, FInv, IInv
<1> USE DEF Pass!Next
<1>1. ASSUME Settles, UNCHANGED <<passVars, maintenance>>
      PROVE  Chain' /\ ~maintenance' /\ [Pass!Next]_Pass!passVars
  BY <1>0, <1>1, SettlesPass
<1>2. ASSUME NEW k \in Keyword, AddTab(k) \/ RefreshTab(k) \/ LoadMore(k)
      PROVE  Settles /\ UNCHANGED <<passVars, maintenance>>
  BY <1>0, <1>2, TabFlow, DropsSettles, AddsSettles DEF Fetches
<1>3. ASSUME NEW k \in Keyword, ResetCursor(k) \/ CloseTab(k)
      PROVE  Settles /\ UNCHANGED <<passVars, maintenance>>
  BY <1>0, <1>3, ResetFlow, CloseFlow, DropsSettles DEF DropsSome
<1>4. ASSUME NEW k \in Keyword, NEW n \in Keyword, RenameTab(k, n)
      PROVE  Settles /\ UNCHANGED <<passVars, maintenance>>
  BY <1>0, <1>4, RenameFlow, DropsSettles, AddsSettles DEF DropsSome
<1>5. ASSUME NEW list \in TabLists, RefreshAll(list) \/ AutoTick(list)
      PROVE  Chain' /\ ~maintenance' /\ [Pass!Next]_Pass!passVars
  BY <1>5, BeginsPass, BeginPassFlow DEF RefreshAll, AutoTick, PassInv
<1>6. CASE \/ ChangeCredentials \/ DismissErrorDialog \/ AutoTickIdle
           \/ CooldownExpires \/ EndMaintenance \/ UNCHANGED vars
  <2>1. ~EndMaintenance
    BY <1>0 DEF EndMaintenance
  <2>2. UNCHANGED maintenance
    BY <1>6, <2>1
       DEF ChangeCredentials, DismissErrorDialog, AutoTickIdle, CooldownExpires, vars
  <2>3. Settles /\ UNCHANGED passVars
    BY <1>0, <1>6, QuietFlow, DropsSettles DEF DropsSome
  <2> QED
    BY <1>1, <2>2, <2>3
<1>7. CASE FinishPass
  BY <1>0, <1>7, FinishesPass, LateTimerFlow
<1>8. CASE ProcessNext
  BY <1>0, <1>8, TakesNextPass, ProcessNextFlow
<1>9. ~TimerIgnored
  BY <1>0 DEF TimerIgnored, TimerFires, Chain
<1>10. ASSUME NEW r \in Request, IgnoreStale(r) \/ OnThreadFinished(r) \/ ThreadStep(r)
       PROVE  Settles /\ UNCHANGED <<passVars, maintenance>>
  BY <1>0, <1>10, LateSignalFlow, ThreadFlow, DropsSettles DEF DropsSome
<1>11. ASSUME NEW r \in Request, OnFetchDone(r) \/ OnFetchError(r)
       PROVE  Chain' /\ ~maintenance' /\ [Pass!Next]_Pass!passVars
  BY <1>0, <1>11, OutcomeFlow, OutcomeSettles
<1>12. ~BeginMaintenance
  BY DEF BeginMaintenance
<1>13. CASE UserStep
  BY <1>1, <1>2, <1>3, <1>4, <1>5, <1>6, <1>13 DEF UserStep
<1>14. CASE TimerStep
  BY <1>5, <1>6, <1>7, <1>8, <1>9, <1>14 DEF TimerStep
<1>15. ASSUME NEW r \in Request, SignalStep(r) \/ ThreadStep(r)
       PROVE  Chain' /\ ~maintenance' /\ [Pass!Next]_Pass!passVars
  BY <1>1, <1>10, <1>11, <1>15 DEF SignalStep
<1> QED
  BY <1>6, <1>12, <1>13, <1>14, <1>15 DEF Next

LEMMA PassStarts ==
  ASSUME Init PROVE PassInv /\ Pass!Init
<1>1. InFlight = {}
  BY DEF Init, InFlight
<1>2. Chain
  BY <1>1 DEF Init, Chain
<1>3. FetchedTab = NoKeyword /\ (timers > 0) = FALSE
  BY <1>1, FetchedNone DEF Init
<1> QED
  BY <1>2, <1>3, InitFInv DEF Init, PassInv, Pass!Init

LEMMA PassInvariant ==
  ASSUME "maintenance" \notin Ops
  PROVE  Spec => []PassInv
<1>1. PassInv /\ [Next]_vars => PassInv'
  BY PassStep, NextFInv DEF PassInv
<1> QED
  BY <1>1, PassStarts, PTL DEF Spec

(* _process_next_refresh() and _on_sequential_fetch_done(): a pass is      *)
(* driven by one timer or one awaited fetch, never by two.                 *)
THEOREM OneThreadOfControl ==
  ASSUME "maintenance" \notin Ops
  PROVE  Spec => []SingleChain
<1>1. PassInv => SingleChain
  <2> SUFFICES ASSUME PassInv PROVE SingleChain
    OBVIOUS
  <2>1. Chain /\ timers \in Nat
    BY DEF PassInv, FInv, IInv, TypeOK
  <2>2. CASE InFlight = {}
    BY <2>1, <2>2, FS_EmptySet DEF Chain, SingleChain
  <2>3. CASE InFlight # {}
    <3>1. PICK r \in InFlight : InFlight = {r}
      BY <2>1, <2>3 DEF Chain
    <3>2. timers = 0 /\ refreshActive
      BY <2>1, <2>3 DEF Chain
    <3>3. Cardinality(InFlight) = 1
      BY <3>1, FS_Singleton
    <3> QED
      BY <3>2, <3>3 DEF SingleChain
  <2> QED
    BY <2>2, <2>3
<1> QED
  BY <1>1, PassInvariant, PTL

(* The timers and callbacks of the sequential refresh, among tabs that are *)
(* added, closed, renamed and refreshed meanwhile, together fetch the      *)
(* listed tabs one by one, in order, as SequentialRefresh promises.        *)
THEOREM PassIsSequential ==
  ASSUME "maintenance" \notin Ops
  PROVE  Spec => ImplementsSequentialRefresh
<1>1. PassInv /\ [Next]_vars => [Pass!Next]_Pass!passVars
  BY PassStep
<1> QED
  BY <1>1, PassStarts, PassInvariant, PTL
     DEF Spec, ImplementsSequentialRefresh, Pass!Spec
=============================================================================
