------------------------- MODULE FetchSafetyProofs -------------------------
(***************************************************************************)
(* The safety of fetches for every set of tabs and every number of         *)
(* requests: the registry finds every worker that nobody has told to stop, *)
(* one tab never has two such workers, an outcome is never applied over a  *)
(* newer request, and maintenance begins only when all have been stopped.  *)
(***************************************************************************)
EXTENDS FetchFlow, TLAPS

-----------------------------------------------------------------------------
(* Types.                                                                  *)

(* The variables a cleanup or a launch assigns.                            *)
WorkerTypeOK ==
  /\ RegistryTypeOK
  /\ phase \in [Request -> Phase] /\ stopped \subseteq Request
  /\ requestSeq \in 0 .. MaxRequests
  /\ reqTab \in [Request -> Keyword \cup {NoKeyword}] /\ sequential \subseteq Request
  /\ startIndex \in [Request -> 0 .. PageLimit]

(* A launched request gets a legal number, tab and page.                   *)
LEMMA LaunchType ==
  ASSUME TypeOK,
         NEW k \in Keyword, NEW page \in 1 .. PageLimit, NEW inPass \in BOOLEAN,
         NEW S \in SUBSET Request, NEW H \in SUBSET Request, NEW R \in SUBSET Request,
         Launch(k, page, inPass, S, H, R)
  PROVE  WorkerTypeOK'
<1> DEFINE r == requestSeq + 1
<1>1. r \in Request
  BY RegistryAssumption DEF Launch, TypeOK, Request
<1>2. RegistryTypeOK'
  BY <1>1 DEF Launch, TypeOK, RegistryTypeOK, PopAndRegister, HandlesWithout,
              ActiveWithout
<1>3. phase' \in [Request -> Phase]
  BY <1>1 DEF Launch, TypeOK, Phase
<1>4. stopped' \subseteq Request /\ sequential' \subseteq Request
  BY <1>1 DEF Launch, TypeOK
<1>5. requestSeq' \in 0 .. MaxRequests
  BY <1>1 DEF Launch, Request
<1>6. reqTab' \in [Request -> Keyword \cup {NoKeyword}]
  BY <1>1 DEF Launch, TypeOK
<1>7. startIndex' \in [Request -> 0 .. PageLimit]
  BY SMTT(20), <1>1, FetchFlowAssumption DEF Launch, TypeOK, Forget
<1> QED
  BY <1>2, <1>3, <1>4, <1>5, <1>6, <1>7 DEF WorkerTypeOK, RegistryTypeOK

(* Cleaning up and popping keeps the types.                                *)
LEMMA CleanupType ==
  ASSUME TypeOK,
         NEW S \in SUBSET Request, NEW H \in SUBSET Request,
         Cleanup(S, H)
  PROVE  phase' \in [Request -> Phase] /\ stopped' \subseteq Request
BY DEF Cleanup, TypeOK, Phase

LEMMA PopType ==
  ASSUME TypeOK, NEW R \in SUBSET Request, Pop(R)
  PROVE  RegistryTypeOK'
BY DEF Pop, HandlesWithout, ActiveWithout, TypeOK, RegistryTypeOK

LEMMA ForgetType ==
  ASSUME TypeOK, NEW R \in SUBSET Request
  PROVE  Forget(R) \in [Request -> 0 .. PageLimit]
BY FetchFlowAssumption DEF Forget, TypeOK

LEMMA ActiveHandleType ==
  ASSUME NEW k \in Keyword
  PROVE  ActiveHandle(k) \subseteq Registered /\ Registered \subseteq Request
BY DEF ActiveHandle, Registered

(* fetch_news() past its guards keeps the types, whichever way it ends.    *)
LEMMA StartType ==
  ASSUME TypeOK, NEW k \in Keyword, NEW page \in 1 .. PageLimit, NEW inPass \in BOOLEAN,
         Start(k, page, inPass) \/ SkipStart(k)
  PROVE  WorkerTypeOK'
<1> ActiveHandle(k) \in SUBSET Request
  BY ActiveHandleType
<1>1. CASE Start(k, page, inPass)
  BY <1>1, LaunchType DEF Start
<1>2. CASE SkipStart(k)
  BY <1>2, CleanupType
     DEF SkipStart, TypeOK, WorkerTypeOK, registryVars, requestVars, RegistryTypeOK
<1> QED
  BY <1>1, <1>2

(* fetch_news() that raises inside a pass keeps the types.                 *)
LEMMA RaiseType ==
  ASSUME TypeOK, NEW k \in Keyword, Raise(k)
  PROVE  WorkerTypeOK'
<1>1. PICK R \in {{}, ActiveHandle(k)} :
        Cleanup(R, R) /\ Pop(R) /\ startIndex' = Forget(R) /\ UNCHANGED requestVars
  BY DEF Raise
<1>2. R \in SUBSET Request
  BY ActiveHandleType
<1> QED
  BY <1>1, <1>2, CleanupType, PopType, ForgetType
     DEF TypeOK, WorkerTypeOK, requestVars

(* The variables of the event loop: everything a worker's start leaves.    *)
RestTypeOK ==
  /\ tabs \subseteq Keyword /\ dialogs \in Seq(BOOLEAN) /\ credentials \in BOOLEAN
  /\ cooldown \in BOOLEAN /\ netErrors \in 0 .. MaxNetworkErrors
  /\ refreshActive \in BOOLEAN /\ pending \in Seq(Keyword)
  /\ idx \in Nat /\ timers \in Nat /\ refreshInProgress \in BOOLEAN
  /\ cursor \in [Keyword -> 0 .. PageLimit]
  /\ mail \in [Request -> {NoMail, "done"} \cup ErrorKind]
  /\ applied \subseteq Request
  /\ maintenance \in BOOLEAN

LEMMA WorkerFrame ==
  ASSUME TypeOK, UNCHANGED <<registryVars, threadVars, requestVars, startIndex>>
  PROVE  WorkerTypeOK'
BY DEF TypeOK, WorkerTypeOK, RegistryTypeOK, registryVars, threadVars, requestVars

(* A turn of the pass keeps the types.                                     *)
LEMMA FetchNextType ==
  ASSUME TypeOK, NEW list \in Seq(Keyword), NEW i \in 1 .. Len(list), NEW others \in Nat,
         FetchNext(list, i, others)
  PROVE  WorkerTypeOK' /\ idx' \in Nat /\ timers' \in Nat
<1>1. list[i] \in Keyword /\ 1 \in 1 .. PageLimit
  BY FetchFlowAssumption
<1>2. \/ idx' = i - 1 /\ timers' = others
      \/ idx' = i /\ timers' = others + 1
  BY Zenon DEF FetchNext
<1>3. WorkerTypeOK'
  BY <1>1, StartType, RaiseType, WorkerFrame DEF FetchNext
<1>4. i \in Nat /\ i >= 1
  OBVIOUS
<1> QED
  BY <1>2, <1>3, <1>4

LEMMA TabListType ==
  ASSUME TypeOK, NEW list \in TabLists
  PROVE  list \in Seq(Keyword) /\ 1 \in 1 .. Len(list)
<1>1. PICK n \in 1 .. Cardinality(tabs) : list \in [1 .. n -> tabs]
  BY DEF TabLists
<1>2. n \in Nat /\ n >= 1
  BY <1>1
<1>3. list \in Seq(Keyword) /\ Len(list) = n
  BY <1>1, <1>2 DEF TypeOK
<1> QED
  BY <1>2, <1>3

LEMMA BeginPassType ==
  ASSUME TypeOK, NEW list \in TabLists, BeginPass(list), refreshInProgress' \in BOOLEAN
  PROVE  TypeOK'
<1>1. list \in Seq(Keyword) /\ 1 \in 1 .. Len(list)
  BY TabListType
<1>2. WorkerTypeOK' /\ idx' \in Nat /\ timers' \in Nat
  BY <1>1, FetchNextType DEF BeginPass, TypeOK
<1>3. netErrors' \in 0 .. MaxNetworkErrors /\ refreshActive' \in BOOLEAN
  BY FetchFlowAssumption DEF BeginPass
<1>4. pending' \in Seq(Keyword)
  BY <1>1 DEF BeginPass
<1>5. UNCHANGED <<uiVars, cooldown, mail, cursor, applied, maintenance>>
  BY DEF BeginPass
<1>6. RestTypeOK'
  BY <1>2, <1>3, <1>4, <1>5 DEF TypeOK, RestTypeOK, uiVars
<1> QED
  BY <1>2, <1>6 DEF TypeOK, WorkerTypeOK, RestTypeOK

LEMMA CountErrorType ==
  ASSUME TypeOK, NEW b \in BOOLEAN, CountError(b)
  PROVE  netErrors' \in 0 .. MaxNetworkErrors
BY FetchFlowAssumption DEF CountError, TypeOK

LEMMA ReceiveType ==
  ASSUME TypeOK, NEW r \in Request, NEW kinds, Receive(r, kinds)
  PROVE  /\ idx' \in Nat /\ timers' \in Nat
         /\ refreshActive' \in BOOLEAN /\ pending' \in Seq(Keyword)
         /\ refreshInProgress' \in BOOLEAN
         /\ mail' \in [Request -> {NoMail, "done"} \cup ErrorKind]
         /\ applied' \subseteq Request
<1>1. /\ idx' \in Nat /\ timers' \in Nat
      /\ refreshActive' \in BOOLEAN /\ pending' \in Seq(Keyword)
      /\ refreshInProgress' \in BOOLEAN
  BY DEF Receive, Advance, passVars, TypeOK
<1> QED
  BY <1>1 DEF Receive, TypeOK

-----------------------------------------------------------------------------
(* The initial state and every step are well typed.                        *)
THEOREM InitType == Init => TypeOK
<1> SUFFICES ASSUME Init PROVE TypeOK
  OBVIOUS
<1>1. WorkerTypeOK
  BY RegistryAssumption, FetchFlowAssumption
     DEF Init, RegistryInit, WorkerTypeOK, RegistryTypeOK, Phase
<1>2. dialogs \in Seq(BOOLEAN) /\ pending \in Seq(Keyword)
  BY DEF Init
<1>3. tabs \subseteq Keyword /\ credentials \in BOOLEAN
  BY DEF Init
<1>4. /\ netErrors \in 0 .. MaxNetworkErrors /\ idx \in Nat /\ timers \in Nat
      /\ applied \subseteq Request
  BY FetchFlowAssumption DEF Init
<1>8. /\ cooldown \in BOOLEAN /\ refreshActive \in BOOLEAN
      /\ refreshInProgress \in BOOLEAN /\ maintenance \in BOOLEAN
  BY Zenon DEF Init
<1>5. cursor \in [Keyword -> 0 .. PageLimit]
  BY FetchFlowAssumption DEF Init
<1>6. mail \in [Request -> {NoMail, "done"} \cup ErrorKind]
  BY DEF Init, NoMail
<1>7. RestTypeOK
  BY <1>2, <1>3, <1>4, <1>5, <1>6, <1>8 DEF RestTypeOK
<1> QED
  BY <1>1, <1>7 DEF TypeOK, WorkerTypeOK, RestTypeOK

LEMMA CursorType ==
  ASSUME TypeOK
  PROVE  /\ cursor \in [Keyword -> 0 .. PageLimit]
         /\ \A k, c : c \in 0 .. PageLimit =>
              [cursor EXCEPT ![k] = c] \in [Keyword -> 0 .. PageLimit]
         /\ 0 \in 0 .. PageLimit
<1>1. 0 \in 0 .. PageLimit
  BY FetchFlowAssumption
<1>2. cursor \in [Keyword -> 0 .. PageLimit]
  BY DEF TypeOK
<1>3. ASSUME NEW k, NEW c \in 0 .. PageLimit
      PROVE  [cursor EXCEPT ![k] = c] \in [Keyword -> 0 .. PageLimit]
  BY <1>2
<1> QED
  BY <1>1, <1>2, <1>3

(* Each of the actions keeps the types.                                    *)
LEMMA UserType == ASSUME TypeOK, UserStep PROVE TypeOK'
<1> USE DEF uiVars, limitVars, passVars
<1>0. 1 \in 1 .. PageLimit
  BY FetchFlowAssumption
<1>1. ASSUME NEW k \in Keyword, AddTab(k) PROVE TypeOK'
  <2>1. WorkerTypeOK'
    BY <1>0, <1>1, StartType, WorkerFrame DEF AddTab
  <2>2. RestTypeOK'
    BY <1>1 DEF AddTab, TypeOK, RestTypeOK
  <2> QED
    BY <2>1, <2>2 DEF TypeOK, WorkerTypeOK, RestTypeOK
<1>2. ASSUME NEW k \in Keyword, CloseTab(k) PROVE TypeOK'
  <2>1. ActiveHandle(k) \in SUBSET Request
    BY ActiveHandleType
  <2>2. WorkerTypeOK'
    BY <1>2, <2>1, CleanupType, PopType, ForgetType
       DEF CloseTab, TypeOK, WorkerTypeOK, requestVars
  <2>3. RestTypeOK'
    BY <1>2, FetchFlowAssumption DEF CloseTab, TypeOK, RestTypeOK
  <2> QED
    BY <2>2, <2>3 DEF TypeOK, WorkerTypeOK, RestTypeOK
<1>3. ASSUME NEW k \in Keyword, NEW n \in Keyword, RenameTab(k, n) PROVE TypeOK'
  <2> DEFINE old == ActiveHandle(k)
             clash == ActiveHandle(n) \ old
  <2>1. old \in SUBSET Request /\ clash \in SUBSET Request
    BY ActiveHandleType
  <2>2. PICK ended \in SUBSET old :
          \/ Launch(n, 1, FALSE, old \cup clash, ended \cup clash, old \cup clash)
          \/ /\ \E blocking \in {{}, clash} : Cleanup(old \cup blocking, ended)
             /\ Pop(old) /\ startIndex' = Forget(old) /\ UNCHANGED requestVars
    BY <1>3 DEF RenameTab
  <2>3. WorkerTypeOK'
    <3>1. CASE Launch(n, 1, FALSE, old \cup clash, ended \cup clash, old \cup clash)
      BY <1>0, <2>1, <3>1, LaunchType
    <3>2. CASE /\ \E blocking \in {{}, clash} : Cleanup(old \cup blocking, ended)
               /\ Pop(old) /\ startIndex' = Forget(old) /\ UNCHANGED requestVars
      BY <2>1, <3>2, CleanupType, PopType, ForgetType
         DEF TypeOK, WorkerTypeOK, requestVars
    <3> QED
      BY <2>2, <3>1, <3>2
  <2>4. RestTypeOK'
    BY <1>3, FetchFlowAssumption DEF RenameTab, TypeOK, RestTypeOK
  <2> QED
    BY <2>3, <2>4 DEF TypeOK, WorkerTypeOK, RestTypeOK
<1>4. ASSUME NEW k \in Keyword, RefreshTab(k) PROVE TypeOK'
  <2>1. WorkerTypeOK'
    BY <1>0, <1>4, StartType DEF RefreshTab
  <2>2. RestTypeOK'
    BY <1>4 DEF RefreshTab, TypeOK, RestTypeOK
  <2> QED
    BY <2>1, <2>2 DEF TypeOK, WorkerTypeOK, RestTypeOK
<1>5. ASSUME NEW k \in Keyword, LoadMore(k) PROVE TypeOK'
  <2> DEFINE page == NextPage(cursor[k])
  <2>1. ~PastLimit(page) => page \in 1 .. PageLimit
    BY FetchFlowAssumption DEF TypeOK, NextPage, PastLimit
  <2>2. WorkerTypeOK'
    BY <1>0, <1>5, <2>1, StartType, WorkerFrame DEF LoadMore
  <2>3. cursor' \in [Keyword -> 0 .. PageLimit]
    <3>1. cursor' = cursor \/ cursor' = [cursor EXCEPT ![k] = 0]
      BY <1>5, Zenon DEF LoadMore
    <3> QED
      BY <3>1, <1>0, CursorType
  <2>4. UNCHANGED <<uiVars, limitVars, passVars, mail, applied, maintenance>>
    BY <1>5 DEF LoadMore
  <2>5. RestTypeOK'
    BY <2>3, <2>4 DEF TypeOK, RestTypeOK
  <2> QED
    BY <2>2, <2>5 DEF TypeOK, WorkerTypeOK, RestTypeOK
<1>6. ASSUME NEW k \in Keyword, ResetCursor(k) PROVE TypeOK'
  <2>1. WorkerTypeOK'
    BY <1>6, WorkerFrame DEF ResetCursor
  <2>2. RestTypeOK'
    BY <1>6, FetchFlowAssumption DEF ResetCursor, TypeOK, RestTypeOK
  <2> QED
    BY <2>1, <2>2 DEF TypeOK, WorkerTypeOK, RestTypeOK
<1>7. ASSUME NEW list \in TabLists, RefreshAll(list) PROVE TypeOK'
  BY <1>7, BeginPassType DEF RefreshAll, TypeOK
<1>8. CASE ChangeCredentials
  <2>1. WorkerTypeOK'
    BY <1>8, WorkerFrame DEF ChangeCredentials, pageVars
  <2>2. RestTypeOK'
    BY <1>8 DEF ChangeCredentials, TypeOK, RestTypeOK, pageVars
  <2> QED
    BY <2>1, <2>2 DEF TypeOK, WorkerTypeOK, RestTypeOK
<1>9. CASE DismissErrorDialog
  <2>1. WorkerTypeOK'
    BY <1>9, WorkerFrame DEF DismissErrorDialog, pageVars
  <2>2. Head(dialogs) \in BOOLEAN /\ dialogs' \in Seq(BOOLEAN)
    BY <1>9 DEF DismissErrorDialog, TypeOK
  <2>3. netErrors' \in 0 .. MaxNetworkErrors
    BY <1>9, <2>2, CountErrorType DEF DismissErrorDialog
  <2>4. RestTypeOK'
    BY <1>9, <2>2, <2>3 DEF DismissErrorDialog, TypeOK, RestTypeOK, pageVars
  <2> QED
    BY <2>1, <2>4 DEF TypeOK, WorkerTypeOK, RestTypeOK
<1> QED
  BY <1>1, <1>2, <1>3, <1>4, <1>5, <1>6, <1>7, <1>8, <1>9 DEF UserStep

LEMMA TimerType == ASSUME TypeOK, TimerStep PROVE TypeOK'
<1> USE DEF uiVars, limitVars, passVars, pageVars
<1>1. ASSUME NEW list \in TabLists, AutoTick(list) PROVE TypeOK'
  BY <1>1, BeginPassType DEF AutoTick
<1>2. CASE AutoTickIdle
  <2>1. WorkerTypeOK'
    BY <1>2, WorkerFrame DEF AutoTickIdle
  <2>2. RestTypeOK'
    BY <1>2, FetchFlowAssumption DEF AutoTickIdle, TypeOK, RestTypeOK
  <2> QED
    BY <2>1, <2>2 DEF TypeOK, WorkerTypeOK, RestTypeOK
<1>3. CASE TimerIgnored
  <2>1. WorkerTypeOK'
    BY <1>3, WorkerFrame DEF TimerIgnored
  <2>2. timers' \in Nat
    BY <1>3 DEF TimerIgnored, TimerFires, TypeOK
  <2>3. RestTypeOK'
    BY <1>3, <2>2 DEF TimerIgnored, TimerFires, TypeOK, RestTypeOK
  <2> QED
    BY <2>1, <2>3 DEF TypeOK, WorkerTypeOK, RestTypeOK
<1>4. CASE FinishPass
  <2>1. WorkerTypeOK'
    BY <1>4, WorkerFrame DEF FinishPass
  <2>2. timers' \in Nat /\ pending' \in Seq(Keyword)
    BY <1>4 DEF FinishPass, TimerFires, TypeOK
  <2>3. RestTypeOK'
    BY <1>4, <2>2 DEF FinishPass, TimerFires, TypeOK, RestTypeOK
  <2> QED
    BY <2>1, <2>3 DEF TypeOK, WorkerTypeOK, RestTypeOK
<1>5. CASE ProcessNext
  <2>1. idx + 1 \in 1 .. Len(pending) /\ timers - 1 \in Nat /\ pending \in Seq(Keyword)
    BY <1>5 DEF ProcessNext, TimerFires, PassOver, TypeOK
  <2>2. WorkerTypeOK' /\ idx' \in Nat /\ timers' \in Nat
    BY <1>5, <2>1, FetchNextType DEF ProcessNext
  <2>3. RestTypeOK'
    BY <1>5, <2>2 DEF ProcessNext, TimerFires, TypeOK, RestTypeOK
  <2> QED
    BY <2>2, <2>3 DEF TypeOK, WorkerTypeOK, RestTypeOK
<1>6. CASE CooldownExpires
  <2>1. WorkerTypeOK'
    BY <1>6, WorkerFrame DEF CooldownExpires
  <2>2. RestTypeOK'
    BY <1>6 DEF CooldownExpires, TypeOK, RestTypeOK
  <2> QED
    BY <2>1, <2>2 DEF TypeOK, WorkerTypeOK, RestTypeOK
<1> QED
  BY <1>1, <1>2, <1>3, <1>4, <1>5, <1>6 DEF TimerStep

LEMMA SignalType == ASSUME TypeOK, NEW r \in Request, SignalStep(r) PROVE TypeOK'
<1> USE DEF uiVars, limitVars, pageVars
<1>1. CASE IgnoreStale(r)
  <2>1. WorkerTypeOK'
    BY <1>1, WorkerFrame DEF IgnoreStale
  <2>2. RestTypeOK'
    BY <1>1 DEF IgnoreStale, TypeOK, RestTypeOK, passVars
  <2> QED
    BY <2>1, <2>2 DEF TypeOK, WorkerTypeOK, RestTypeOK
<1>2. CASE OnFetchDone(r)
  <2>1. WorkerTypeOK'
    BY <1>2, WorkerFrame DEF OnFetchDone, Receive
  <2>2. cursor' \in [Keyword -> 0 .. PageLimit] /\ netErrors' \in 0 .. MaxNetworkErrors
    <3>1. startIndex[r] \in 0 .. PageLimit
      BY DEF TypeOK
    <3>2. \/ cursor' = cursor
          \/ cursor' = [cursor EXCEPT ![reqTab[r]] = startIndex[r]]
      BY <1>2, Zenon DEF OnFetchDone
    <3>3. netErrors' = 0
      BY <1>2 DEF OnFetchDone
    <3>4. 0 \in 0 .. MaxNetworkErrors
      BY FetchFlowAssumption
    <3> QED
      BY <3>1, <3>2, <3>3, <3>4, CursorType
  <2>3. RestTypeOK'
    BY <1>2, <2>2, ReceiveType DEF OnFetchDone, Receive, TypeOK, RestTypeOK
  <2> QED
    BY <2>1, <2>3 DEF TypeOK, WorkerTypeOK, RestTypeOK
<1>3. CASE OnFetchError(r)
  <2> DEFINE isNetwork == mail[r] = "network"
  <2>1. Receive(r, ErrorKind) /\ startIndex' = Forget({r}) /\ UNCHANGED cursor
    BY <1>3 DEF OnFetchError
  <2>2. WorkerTypeOK'
    BY <2>1, ForgetType
       DEF Receive, TypeOK, WorkerTypeOK, RegistryTypeOK, registryVars, threadVars,
           requestVars
  <2>3. isNetwork \in BOOLEAN
    OBVIOUS
  <2>4. netErrors' \in 0 .. MaxNetworkErrors
    BY <1>3, <2>3, CountErrorType DEF OnFetchError, TypeOK
  <2>5. dialogs' \in Seq(BOOLEAN)
    <3>1. dialogs' = dialogs \/ dialogs' = <<isNetwork>> \o dialogs
      BY <1>3, Zenon DEF OnFetchError
    <3>2. <<isNetwork>> \in Seq(BOOLEAN) /\ dialogs \in Seq(BOOLEAN)
      BY <2>3 DEF TypeOK
    <3>3. <<isNetwork>> \o dialogs \in Seq(BOOLEAN)
      BY <3>2
    <3> QED
      BY <3>1, <3>2, <3>3, Zenon
  <2>6. cooldown' \in BOOLEAN
    BY <1>3 DEF OnFetchError, TypeOK
  <2>7. RestTypeOK'
    BY <2>1, <2>4, <2>5, <2>6, ReceiveType DEF Receive, TypeOK, RestTypeOK
  <2> QED
    BY <2>2, <2>7 DEF TypeOK, WorkerTypeOK, RestTypeOK
<1>4. CASE OnThreadFinished(r)
  <2>1. {r} \cap Registered \in SUBSET Request
    BY DEF Registered
  <2>2. phase' \in [Request -> Phase] /\ stopped' \subseteq Request
    BY <1>4 DEF OnThreadFinished, TypeOK, Phase
  <2>3. WorkerTypeOK'
    BY <1>4, <2>1, <2>2, PopType, ForgetType
       DEF OnThreadFinished, TypeOK, WorkerTypeOK, requestVars
  <2>4. RestTypeOK'
    BY <1>4 DEF OnThreadFinished, TypeOK, RestTypeOK, passVars
  <2> QED
    BY <2>3, <2>4 DEF TypeOK, WorkerTypeOK, RestTypeOK
<1> QED
  BY <1>1, <1>2, <1>3, <1>4 DEF SignalStep

LEMMA ThreadType == ASSUME TypeOK, NEW r \in Request, ThreadStep(r) PROVE TypeOK'
<1>1. PICK from \in Phase, to \in Phase : WorkerStep(r, from, to)
  BY DEF ThreadStep, BeginWrite, FinishWrite, NoticeStop, ThreadExit, FailFetch, Phase
<1>2. mail' \in [Request -> {NoMail, "done"} \cup ErrorKind]
  BY FetchFlowAssumption
     DEF ThreadStep, BeginWrite, FinishWrite, NoticeStop, ThreadExit, FailFetch, TypeOK
<1>3. WorkerTypeOK'
  BY <1>1
     DEF WorkerStep, TypeOK, WorkerTypeOK, RegistryTypeOK, registryVars, requestVars,
         pageVars
<1>4. RestTypeOK'
  BY <1>1, <1>2 DEF WorkerStep, TypeOK, RestTypeOK, uiVars, limitVars, passVars, pageVars
<1> QED
  BY <1>3, <1>4 DEF TypeOK, WorkerTypeOK, RestTypeOK

LEMMA MaintenanceType ==
  ASSUME TypeOK, BeginMaintenance \/ EndMaintenance PROVE TypeOK'
<1> USE DEF uiVars, limitVars
<1>1. CASE BeginMaintenance
  <2>1. PICK ended \in SUBSET Registered, othersDone \in BOOLEAN :
          /\ Cleanup(Registered, ended) /\ Pop(ended)
          /\ startIndex' = Forget(ended)
          /\ maintenance' = AllQuiet(ended, othersDone)
    BY <1>1 DEF BeginMaintenance
  <2>2. Registered \in SUBSET Request /\ ended \in SUBSET Request
    BY DEF Registered
  <2>3. UNCHANGED requestVars
    BY <1>1 DEF BeginMaintenance
  <2>4. WorkerTypeOK'
    BY <2>1, <2>2, <2>3, CleanupType, PopType, ForgetType
       DEF TypeOK, WorkerTypeOK, requestVars
  <2>5. maintenance' \in BOOLEAN
    BY <2>1 DEF AllQuiet
  <2>6. /\ idx' \in Nat /\ timers' \in Nat /\ pending' \in Seq(Keyword)
    BY <1>1 DEF BeginMaintenance, TypeOK
  <2>7. RestTypeOK'
    BY <1>1, <2>5, <2>6 DEF BeginMaintenance, TypeOK, RestTypeOK
  <2> QED
    BY <2>4, <2>7 DEF TypeOK, WorkerTypeOK, RestTypeOK
<1>2. CASE EndMaintenance
  <2>1. WorkerTypeOK'
    BY <1>2, WorkerFrame DEF EndMaintenance, pageVars
  <2>2. RestTypeOK'
    BY <1>2 DEF EndMaintenance, TypeOK, RestTypeOK, pageVars, passVars
  <2> QED
    BY <2>1, <2>2 DEF TypeOK, WorkerTypeOK, RestTypeOK
<1> QED
  BY <1>1, <1>2

LEMMA StutterType == ASSUME TypeOK, UNCHANGED vars PROVE TypeOK'
BY DEF TypeOK, RegistryTypeOK, vars, registryVars, uiVars, limitVars, passVars, threadVars,
       requestVars, pageVars

(* Every step keeps the types, so every variable keeps its type.           *)
THEOREM TypeCorrect == Spec => []TypeOK
<1>1. TypeOK /\ [Next]_vars => TypeOK'
  BY UserType, TimerType, SignalType, ThreadType, MaintenanceType, StutterType DEF Next
<1> QED
  BY InitType, <1>1, PTL DEF Spec

-----------------------------------------------------------------------------
(* The inductive invariant.                                                *)

(* Requests are numbered in the order of their start: a number not handed  *)
(* out yet has left no trace, one handed out has its tab.                  *)
Numbered ==
  /\ \A r \in Request : r > requestSeq =>
       handles[r] = NoKeyword /\ phase[r] = "idle" /\ mail[r] = NoMail
         /\ reqTab[r] = NoKeyword
  /\ \A r \in Request : r <= requestSeq => reqTab[r] \in Keyword

(* A registered request is the newest its tab was given.                   *)
RegisteredIsNewest ==
  \A r \in Registered, q \in Request : q > r => reqTab[q] # handles[r]

MaintenanceIdle == maintenance => Registered = {}

Core == RegistryConsistent /\ Numbered /\ LiveIsRegistered /\ RegisteredIsNewest

IInv == TypeOK /\ Core /\ MaintenanceIdle

-----------------------------------------------------------------------------
(* How the handlers' common parts act on it.                               *)

(* Steps that leave workers and registry alone.                            *)
LEMMA FrameCore ==
  ASSUME Core, UNCHANGED <<registryVars, threadVars, requestVars, mail>>
  PROVE  Core' /\ Registered' = Registered
BY DEF Core, RegistryConsistent, Numbered, LiveIsRegistered, RegisteredIsNewest,
       Registered, IsActive, registryVars, threadVars, requestVars

(* Popping requests from a consistent registry keeps it consistent.        *)
LEMMA PopConsistent ==
  ASSUME TypeOK, RegistryConsistent, NEW R \in SUBSET Request, Pop(R), UNCHANGED reqTab
  PROVE  RegistryConsistent' /\ Registered' = Registered \ R
<1>1. handles' = [r \in Request |-> IF r \in R THEN NoKeyword ELSE handles[r]]
  BY DEF Pop, HandlesWithout
<1>2. Registered' = Registered \ R
  BY <1>1 DEF Registered
<1>3. ASSUME NEW k \in Keyword, active'[k] # NoRequest
      PROVE  handles'[active'[k]] = k
  <2>1. active'[k] = active[k] /\ ~(active[k] \in R /\ handles[active[k]] = k)
    BY <1>3 DEF Pop, ActiveWithout
  <2>2. active[k] \in Request /\ handles[active[k]] = k
    BY <1>3, <2>1 DEF RegistryConsistent, TypeOK, RegistryTypeOK
  <2> QED
    BY <1>1, <2>1, <2>2
<1>4. ASSUME NEW r \in Registered'
      PROVE  handles'[r] = reqTab'[r] /\ active'[reqTab'[r]] = r
  <2>1. r \in Registered /\ r \notin R /\ r \in Request
    BY <1>2 DEF Registered
  <2>2. handles'[r] = handles[r] /\ handles[r] = reqTab[r] /\ active[reqTab[r]] = r
    BY <1>1, <2>1 DEF RegistryConsistent, IsActive
  <2>3. reqTab[r] \in Keyword
    BY <2>1, <2>2 DEF Registered, TypeOK, RegistryTypeOK
  <2>4. active'[reqTab[r]] = r
    BY <2>1, <2>2, <2>3 DEF Pop, ActiveWithout
  <2> QED
    BY <2>2, <2>4
<1> QED
  BY <1>2, <1>3, <1>4 DEF RegistryConsistent, IsActive

(* cleanup_worker() of S, with H ended and R popped; R = {} when a request *)
(* that outlasts the wait stays registered.                                *)
LEMMA CleanupCore ==
  ASSUME TypeOK, Core,
         NEW S \in SUBSET Request, NEW H \in SUBSET (S \cap Registered),
         NEW R \in SUBSET S,
         Cleanup(S, H), Pop(R), UNCHANGED <<requestVars, mail>>
  PROVE  Core' /\ Registered' \subseteq Registered
<1>1. RegistryConsistent' /\ Registered' = Registered \ R
  BY PopConsistent DEF Core, requestVars
<1>2. handles' = [r \in Request |-> IF r \in R THEN NoKeyword ELSE handles[r]]
  BY DEF Pop, HandlesWithout
<1>3. Numbered'
  BY <1>2 DEF Cleanup, Core, Numbered, Registered, requestVars
<1>4. LiveIsRegistered'
  BY <1>1 DEF Cleanup, Core, LiveIsRegistered
<1>5. RegisteredIsNewest'
  BY <1>1, <1>2 DEF Core, RegisteredIsNewest, Registered, requestVars
<1> QED
  BY <1>1, <1>3, <1>4, <1>5 DEF Core

(* A launch that pops the tab's previous request.                          *)
LEMMA LaunchCore ==
  ASSUME TypeOK, Core,
         NEW k \in Keyword, NEW page, NEW inPass,
         NEW S \in SUBSET Request, NEW H \in SUBSET (S \cap Registered),
         NEW R \in SUBSET S, ActiveHandle(k) \subseteq R,
         Launch(k, page, inPass, S, H, R), UNCHANGED mail
  PROVE  Core'
<1> DEFINE n == requestSeq + 1
<1>1. n \in Request /\ requestSeq' = n /\ requestSeq \in Nat
  BY RegistryAssumption DEF Launch, TypeOK, Request
<1>2. /\ handles' = [r \in Request |-> IF r = n THEN k
                                       ELSE IF r \in R THEN NoKeyword ELSE handles[r]]
      /\ reqTab' = [reqTab EXCEPT ![n] = k]
      /\ phase' = [q \in Request |->
                     IF q = n THEN "net" ELSE IF q \in H THEN "dead" ELSE phase[q]]
      /\ stopped' = stopped \cup S
  BY <1>1 DEF Launch, PopAndRegister, HandlesWithout
<1>3. active' = [ActiveWithout(R) EXCEPT ![k] = n]
  BY DEF Launch, PopAndRegister
<1>4. handles[n] = NoKeyword /\ n \notin Registered
  BY <1>1 DEF Core, Numbered, Registered
<1>5. ASSUME NEW r \in Registered, r \notin R
      PROVE  handles[r] # k
  <2>1. handles[r] = reqTab[r] /\ active[reqTab[r]] = r
    BY <1>5 DEF Core, RegistryConsistent, IsActive
  <2> QED
    BY <1>5, <2>1 DEF ActiveHandle
<1>6. Registered' = (Registered \ R) \cup {n}
  BY <1>1, <1>2, RegistryAssumption DEF Registered
<1>7. RegistryConsistent'
  <2>1. ASSUME NEW j \in Keyword, active'[j] # NoRequest
        PROVE  handles'[active'[j]] = j
    <3>1. CASE j = k
      BY <1>1, <1>2, <1>3, <3>1 DEF ActiveWithout
    <3>2. CASE j # k
      <4>1. active'[j] = active[j] /\ ~(active[j] \in R /\ handles[active[j]] = j)
        BY <1>3, <2>1, <3>2 DEF ActiveWithout
      <4>2. active[j] \in Request /\ handles[active[j]] = j
        BY <2>1, <4>1 DEF Core, RegistryConsistent, TypeOK, RegistryTypeOK
      <4>3. active[j] # n
        BY <1>4, <4>2, RegistryAssumption
      <4> QED
        BY <1>2, <4>1, <4>2, <4>3
    <3> QED
      BY <3>1, <3>2
  <2>2. ASSUME NEW r \in Registered'
        PROVE  handles'[r] = reqTab'[r] /\ active'[reqTab'[r]] = r
    <3>1. CASE r = n
      BY <1>1, <1>2, <1>3, <3>1 DEF ActiveWithout, TypeOK
    <3>2. CASE r # n
      <4>1. r \in Registered /\ r \notin R /\ r \in Request
        BY <1>6, <3>2 DEF Registered
      <4>2. handles'[r] = handles[r] /\ handles[r] = reqTab[r] /\ active[reqTab[r]] = r
        BY <1>2, <3>2, <4>1 DEF Core, RegistryConsistent, IsActive
      <4>3. reqTab[r] \in Keyword /\ reqTab[r] # k /\ reqTab'[r] = reqTab[r]
        BY <1>2, <1>5, <3>2, <4>1, <4>2 DEF Registered, TypeOK, RegistryTypeOK
      <4>4. active'[reqTab[r]] = r
        BY <1>3, <4>1, <4>2, <4>3 DEF ActiveWithout
      <4> QED
        BY <4>2, <4>3, <4>4
    <3> QED
      BY <3>1, <3>2
  <2> QED
    BY <2>1, <2>2 DEF RegistryConsistent, IsActive
<1>8. Numbered'
  <2>1. ASSUME NEW r \in Request, r > n
        PROVE  handles'[r] = NoKeyword /\ phase'[r] = "idle" /\ mail'[r] = NoMail
                 /\ reqTab'[r] = NoKeyword
    <3>1. r > requestSeq /\ r # n
      BY <1>1, <2>1 DEF Request
    <3>2. handles[r] = NoKeyword /\ phase[r] = "idle" /\ mail[r] = NoMail
            /\ reqTab[r] = NoKeyword
      BY <3>1 DEF Core, Numbered
    <3>3. r \notin H
      BY <3>2 DEF Registered
    <3> QED
      BY <1>2, <3>1, <3>2, <3>3 DEF TypeOK
  <2>2. ASSUME NEW r \in Request, r <= n
        PROVE  reqTab'[r] \in Keyword
    <3>1. r = n \/ r <= requestSeq
      BY <1>1, <2>2 DEF Request
    <3> QED
      BY <1>1, <1>2, <3>1 DEF Core, Numbered, TypeOK
  <2> QED
    BY <1>1, <2>1, <2>2 DEF Numbered
<1>9. LiveIsRegistered'
  BY <1>2, <1>6 DEF Core, LiveIsRegistered
<1>10. RegisteredIsNewest'
  <2> SUFFICES ASSUME NEW r \in Registered', NEW q \in Request, q > r
               PROVE  reqTab'[q] # handles'[r]
    BY DEF RegisteredIsNewest
  <2>1. CASE r = n
    <3>1. q > requestSeq /\ q # n
      BY <1>1, <2>1 DEF Request
    <3>2. reqTab'[q] = NoKeyword
      BY <1>2, <3>1 DEF Core, Numbered, TypeOK
    <3> QED
      BY <1>1, <1>2, <2>1, <3>2, RegistryAssumption
  <2>2. CASE r # n
    <3>1. r \in Registered /\ r \notin R /\ r \in Request
      BY <1>6, <2>2 DEF Registered
    <3>2. handles'[r] = handles[r] /\ handles[r] # k
      BY <1>2, <1>5, <2>2, <3>1
    <3>3. reqTab[q] # handles[r]
      BY <3>1 DEF Core, RegisteredIsNewest
    <3> QED
      BY <1>2, <3>2, <3>3 DEF TypeOK
  <2> QED
    BY <2>1, <2>2
<1> QED
  BY <1>7, <1>8, <1>9, <1>10 DEF Core

(* A cleanup that pops nothing.                                            *)
LEMMA KeepRegisteredCore ==
  ASSUME TypeOK, Core,
         NEW S \in SUBSET Request,
         Cleanup(S, {}), UNCHANGED <<registryVars, requestVars, mail>>
  PROVE  Core' /\ Registered' = Registered
<1>1. RegistryConsistent' /\ Registered' = Registered /\ RegisteredIsNewest'
  BY DEF Core, RegistryConsistent, RegisteredIsNewest, Registered, IsActive,
         registryVars, requestVars
<1>2. Numbered'
  BY DEF Core, Numbered, Cleanup, registryVars, requestVars
<1>3. LiveIsRegistered'
  BY <1>1 DEF Core, LiveIsRegistered, Cleanup
<1> QED
  BY <1>1, <1>2, <1>3 DEF Core

LEMMA StartCore ==
  ASSUME TypeOK, Core, NEW k \in Keyword, NEW page, NEW inPass,
         Start(k, page, inPass) \/ SkipStart(k), UNCHANGED mail
  PROVE  Core'
<1>1. ActiveHandle(k) \in SUBSET Registered /\ ActiveHandle(k) \in SUBSET Request
  BY ActiveHandleType
<1>2. CASE Start(k, page, inPass)
  BY <1>1, <1>2, LaunchCore DEF Start
<1>3. CASE SkipStart(k)
  BY <1>1, <1>3, KeepRegisteredCore DEF SkipStart
<1> QED
  BY <1>2, <1>3

LEMMA RaiseCore ==
  ASSUME TypeOK, Core, NEW k \in Keyword, Raise(k), UNCHANGED mail
  PROVE  Core'
<1>1. PICK R \in {{}, ActiveHandle(k)} :
        Cleanup(R, R) /\ Pop(R) /\ UNCHANGED requestVars
  BY DEF Raise
<1>2. R \in SUBSET Request /\ R \in SUBSET (R \cap Registered)
  BY ActiveHandleType
<1> QED
  BY <1>1, <1>2, CleanupCore

LEMMA FetchNextCore ==
  ASSUME TypeOK, Core, NEW list \in Seq(Keyword), NEW i \in 1 .. Len(list), NEW others,
         FetchNext(list, i, others), UNCHANGED mail
  PROVE  Core'
<1>1. list[i] \in Keyword
  OBVIOUS
<1> QED
  BY <1>1, StartCore, RaiseCore, FrameCore DEF FetchNext

LEMMA BeginPassCore ==
  ASSUME IInv, NEW list \in TabLists, BeginPass(list)
  PROVE  Core' /\ MaintenanceIdle'
<1>1. list \in Seq(Keyword) /\ 1 \in 1 .. Len(list)
  BY TabListType DEF IInv
<1>2. Core'
  BY <1>1, FetchNextCore DEF IInv, BeginPass
<1>3. ~maintenance'
  BY DEF BeginPass, RefreshBlocked
<1> QED
  BY <1>2, <1>3 DEF MaintenanceIdle

-----------------------------------------------------------------------------
(* Every action keeps it.                                                  *)

LEMMA UserCore == ASSUME IInv, UserStep PROVE Core' /\ MaintenanceIdle'
<1> USE DEF IInv, MaintenanceIdle
<1>1. ASSUME NEW k \in Keyword, AddTab(k) PROVE Core' /\ MaintenanceIdle'
  <2>1. UNCHANGED <<mail, maintenance>>
    BY <1>1 DEF AddTab
  <2>2. CASE UNCHANGED <<registryVars, requestVars, startIndex, threadVars>>
    BY <2>1, <2>2, FrameCore
  <2>3. CASE ~FetchRefused /\ (Start(k, 1, FALSE) \/ SkipStart(k))
    BY <2>1, <2>3, StartCore DEF FetchRefused
  <2> QED
    BY <1>1, <2>2, <2>3 DEF AddTab
<1>2. ASSUME NEW k \in Keyword, CloseTab(k) PROVE Core' /\ MaintenanceIdle'
  <2> DEFINE old == ActiveHandle(k)
  <2>1. old \in SUBSET Registered /\ old \in SUBSET Request
    BY ActiveHandleType
  <2>2. PICK ended \in SUBSET old : Cleanup(old, ended)
    BY <1>2 DEF CloseTab
  <2>3. Pop(old) /\ UNCHANGED <<requestVars, mail, maintenance>>
    BY <1>2 DEF CloseTab
  <2>4. Core' /\ Registered' \subseteq Registered
    BY <2>1, <2>2, <2>3, CleanupCore
  <2> QED
    BY <2>3, <2>4
<1>3. ASSUME NEW k \in Keyword, NEW n \in Keyword, RenameTab(k, n)
      PROVE  Core' /\ MaintenanceIdle'
  <2> DEFINE old == ActiveHandle(k)
             clash == ActiveHandle(n) \ old
  <2>1. /\ old \in SUBSET Registered /\ old \in SUBSET Request
        /\ clash \in SUBSET Registered /\ clash \in SUBSET Request
    BY ActiveHandleType
  <2>2. PICK ended \in SUBSET old :
          \/ /\ ~FetchRefused
             /\ Launch(n, 1, FALSE, old \cup clash, ended \cup clash, old \cup clash)
          \/ /\ \E blocking \in {{}, clash} : Cleanup(old \cup blocking, ended)
             /\ Pop(old) /\ UNCHANGED requestVars
    BY <1>3 DEF RenameTab
  <2>3. UNCHANGED <<mail, maintenance>>
    BY <1>3 DEF RenameTab
  <2>4. CASE /\ ~FetchRefused
             /\ Launch(n, 1, FALSE, old \cup clash, ended \cup clash, old \cup clash)
    <3>1. ActiveHandle(n) \subseteq old \cup clash
      OBVIOUS
    <3>2. /\ old \cup clash \in SUBSET Request
          /\ ended \cup clash \in SUBSET ((old \cup clash) \cap Registered)
      BY <2>1
    <3>3. Core'
      BY <2>3, <2>4, <3>1, <3>2, LaunchCore
    <3> QED
      BY <2>3, <2>4, <3>3 DEF FetchRefused
  <2>5. CASE /\ \E blocking \in {{}, clash} : Cleanup(old \cup blocking, ended)
             /\ Pop(old) /\ UNCHANGED requestVars
    <3>1. PICK blocking \in {{}, clash} : Cleanup(old \cup blocking, ended)
      BY <2>5
    <3>2. /\ old \cup blocking \in SUBSET Request
          /\ ended \in SUBSET ((old \cup blocking) \cap Registered)
          /\ old \in SUBSET (old \cup blocking)
      BY <2>1
    <3>3. Core' /\ Registered' \subseteq Registered
      BY <2>3, <2>5, <3>1, <3>2, CleanupCore
    <3> QED
      BY <2>3, <3>3
  <2> QED
    BY <2>2, <2>4, <2>5
<1>4. ASSUME NEW k \in Keyword, RefreshTab(k) PROVE Core' /\ MaintenanceIdle'
  BY <1>4, StartCore DEF RefreshTab, FetchRefused
<1>5. ASSUME NEW k \in Keyword, LoadMore(k) PROVE Core' /\ MaintenanceIdle'
  <2>1. ~maintenance' /\ UNCHANGED mail
    BY <1>5 DEF LoadMore, FetchRefused
  <2> QED
    BY <1>5, <2>1, StartCore, FrameCore DEF LoadMore
<1>6. ASSUME NEW k \in Keyword, ResetCursor(k) PROVE Core' /\ MaintenanceIdle'
  BY <1>6, FrameCore DEF ResetCursor
<1>7. ASSUME NEW list \in TabLists, RefreshAll(list) PROVE Core' /\ MaintenanceIdle'
  BY <1>7, BeginPassCore DEF RefreshAll
<1>8. CASE ChangeCredentials
  BY <1>8, FrameCore DEF ChangeCredentials
<1>9. CASE DismissErrorDialog
  BY <1>9, FrameCore DEF DismissErrorDialog
<1> QED
  BY <1>1, <1>2, <1>3, <1>4, <1>5, <1>6, <1>7, <1>8, <1>9 DEF UserStep

LEMMA TimerCore == ASSUME IInv, TimerStep PROVE Core' /\ MaintenanceIdle'
<1> USE DEF IInv, MaintenanceIdle
<1>1. ASSUME NEW list \in TabLists, AutoTick(list) PROVE Core' /\ MaintenanceIdle'
  BY <1>1, BeginPassCore DEF AutoTick
<1>2. CASE AutoTickIdle
  BY <1>2, FrameCore DEF AutoTickIdle
<1>3. CASE TimerIgnored
  BY <1>3, FrameCore DEF TimerIgnored, TimerFires
<1>4. CASE FinishPass
  BY <1>4, FrameCore DEF FinishPass, TimerFires
<1>5. CASE ProcessNext
  <2>1. idx + 1 \in 1 .. Len(pending) /\ pending \in Seq(Keyword)
    BY <1>5 DEF ProcessNext, PassOver, TypeOK
  <2>2. FetchNext(pending, idx + 1, timers - 1) /\ UNCHANGED <<mail, maintenance>>
    BY <1>5 DEF ProcessNext, TimerFires
  <2>3. Core'
    BY <2>1, <2>2, FetchNextCore
  <2> QED
    BY <1>5, <2>2, <2>3 DEF ProcessNext
<1>6. CASE CooldownExpires
  BY <1>6, FrameCore DEF CooldownExpires
<1> QED
  BY <1>1, <1>2, <1>3, <1>4, <1>5, <1>6 DEF TimerStep

LEMMA SignalCore ==
  ASSUME IInv, NEW r \in Request, SignalStep(r) PROVE Core' /\ MaintenanceIdle'
<1> USE DEF IInv, MaintenanceIdle
<1>1. ASSUME mail' = [mail EXCEPT ![r] = NoMail],
             UNCHANGED <<registryVars, threadVars, requestVars, maintenance>>
      PROVE  Core' /\ MaintenanceIdle'
  <2>1. Numbered'
    BY <1>1 DEF Core, Numbered, registryVars, threadVars, requestVars, TypeOK
  <2>2. RegistryConsistent' /\ LiveIsRegistered' /\ RegisteredIsNewest'
        /\ Registered' = Registered
    BY <1>1 DEF Core, RegistryConsistent, LiveIsRegistered, RegisteredIsNewest,
                Registered, IsActive, registryVars, threadVars, requestVars
  <2> QED
    BY <1>1, <2>1, <2>2 DEF Core
<1>2. CASE IgnoreStale(r)
  BY <1>1, <1>2 DEF IgnoreStale
<1>3. CASE OnFetchDone(r)
  BY <1>1, <1>3 DEF OnFetchDone, Receive
<1>4. CASE OnFetchError(r)
  BY <1>1, <1>4 DEF OnFetchError, Receive
<1>5. CASE OnThreadFinished(r)
  <2> DEFINE R == {r} \cap Registered
  <2>1. /\ phase[r] = "dead" /\ phase' = [phase EXCEPT ![r] = "gone"]
        /\ stopped' = stopped \cup {r} /\ Pop(R)
        /\ UNCHANGED <<requestVars, mail, maintenance>>
    BY <1>5 DEF OnThreadFinished
  <2>2. R \in SUBSET Request
    BY DEF Registered
  <2>3. RegistryConsistent' /\ Registered' = Registered \ R
    BY <2>1, <2>2, PopConsistent DEF Core, requestVars
  <2>4. handles' = [q \in Request |-> IF q \in R THEN NoKeyword ELSE handles[q]]
    BY <2>1 DEF Pop, HandlesWithout
  <2>5. Numbered'
    BY <2>1, <2>4 DEF Core, Numbered, requestVars, TypeOK
  <2>6. LiveIsRegistered'
    BY <2>1, <2>3 DEF Core, LiveIsRegistered, TypeOK
  <2>7. RegisteredIsNewest'
    BY <2>1, <2>3, <2>4 DEF Core, RegisteredIsNewest, Registered, requestVars
  <2> QED
    BY <2>1, <2>3, <2>5, <2>6, <2>7 DEF Core
<1> QED
  BY <1>2, <1>3, <1>4, <1>5 DEF SignalStep

LEMMA ThreadCore ==
  ASSUME IInv, NEW r \in Request, ThreadStep(r) PROVE Core' /\ MaintenanceIdle'
<1> USE DEF IInv, MaintenanceIdle
<1>1. PICK from \in {"net", "db", "over"}, to \in {"db", "over", "dead"} :
        WorkerStep(r, from, to)
  BY DEF ThreadStep, BeginWrite, FinishWrite, NoticeStop, ThreadExit, FailFetch
<1>2. /\ phase[r] = from /\ phase' = [phase EXCEPT ![r] = to]
      /\ UNCHANGED <<registryVars, stopped, requestVars, maintenance>>
  BY <1>1 DEF WorkerStep
<1>3. \E m : mail' = [mail EXCEPT ![r] = m] \/ mail' = mail
  BY DEF ThreadStep, BeginWrite, FinishWrite, NoticeStop, ThreadExit, FailFetch
<1>4. RegistryConsistent' /\ RegisteredIsNewest' /\ Registered' = Registered
  BY <1>2 DEF Core, RegistryConsistent, RegisteredIsNewest, Registered, IsActive,
              registryVars, requestVars
<1>5. LiveIsRegistered'
  BY <1>2, <1>4 DEF Core, LiveIsRegistered, TypeOK
<1>6. Numbered'
  BY <1>2, <1>3 DEF Core, Numbered, TypeOK, registryVars, requestVars
<1> QED
  BY <1>2, <1>4, <1>5, <1>6 DEF Core

LEMMA MaintenanceCore ==
  ASSUME IInv, BeginMaintenance \/ EndMaintenance PROVE Core' /\ MaintenanceIdle'
<1> USE DEF IInv, MaintenanceIdle
<1>1. CASE BeginMaintenance
  <2>1. PICK ended \in SUBSET Registered, othersDone \in BOOLEAN :
          /\ Cleanup(Registered, ended) /\ Pop(ended)
          /\ maintenance' = AllQuiet(ended, othersDone)
    BY <1>1 DEF BeginMaintenance
  <2>2. Registered \in SUBSET Request /\ ended \in SUBSET (Registered \cap Registered)
    BY DEF Registered
  <2>3. UNCHANGED <<requestVars, mail>>
    BY <1>1 DEF BeginMaintenance
  <2>4. Core'
    BY <2>1, <2>2, <2>3, CleanupCore
  <2>5. Registered' = Registered \ ended
    BY <2>1, <2>2, <2>3, PopConsistent DEF Core, requestVars
  <2> QED
    BY <2>1, <2>4, <2>5 DEF AllQuiet
<1>2. CASE EndMaintenance
  BY <1>2, FrameCore DEF EndMaintenance
<1> QED
  BY <1>1, <1>2

-----------------------------------------------------------------------------
(* The theorems.                                                           *)

LEMMA InitIInv == Init => IInv
<1> SUFFICES ASSUME Init PROVE IInv
  OBVIOUS
<1>1. Registered = {}
  BY DEF Init, RegistryInit, Registered
<1>2. Numbered
  BY RegistryAssumption DEF Init, RegistryInit, Numbered, Request
<1>3. RegistryConsistent /\ RegisteredIsNewest
  BY <1>1 DEF Init, RegistryInit, RegistryConsistent, RegisteredIsNewest
<1>4. LiveIsRegistered
  BY DEF Init, LiveIsRegistered
<1> QED
  BY <1>1, <1>2, <1>3, <1>4, InitType DEF IInv, Core, MaintenanceIdle

LEMMA NextIInv == IInv /\ [Next]_vars => IInv'
<1> SUFFICES ASSUME IInv, [Next]_vars PROVE IInv'
  OBVIOUS
<1>1. TypeOK'
  BY UserType, TimerType, SignalType, ThreadType, MaintenanceType, StutterType
     DEF IInv, Next
<1>2. CASE Next
  BY <1>1, <1>2, UserCore, TimerCore, SignalCore, ThreadCore, MaintenanceCore
     DEF Next, IInv
<1>3. CASE UNCHANGED vars
  BY <1>1, <1>3, FrameCore DEF vars, IInv, MaintenanceIdle
<1> QED
  BY <1>2, <1>3

LEMMA Invariant == Spec => []IInv
BY InitIInv, NextIInv, PTL DEF Spec

(* worker_registry.py: its two dictionaries always name each other, so a   *)
(* callback is honoured exactly for the request the registry can find.     *)
THEOREM RegistryCorrect == Spec => []RegistryConsistent
<1>1. IInv => RegistryConsistent
  BY DEF IInv, Core
<1> QED
  BY Invariant, <1>1, PTL

(* fetch_news(), close, rename and maintenance lose no worker: one that    *)
(* was not told to stop can be reached through the registry.               *)
THEOREM NoWorkerLost == Spec => []LiveIsRegistered
<1>1. IInv => LiveIsRegistered
  BY DEF IInv, Core
<1> QED
  BY Invariant, <1>1, PTL

(* fetch_news() never leaves two workers of one tab at work.               *)
THEOREM OneWorker == Spec => []OneLiveWorkerPerTab
<1>1. IInv => OneLiveWorkerPerTab
  <2> SUFFICES ASSUME IInv, NEW q \in Request \ stopped, NEW r \in Request \ stopped,
                      Busy(q), Busy(r), reqTab[q] = reqTab[r]
               PROVE  q = r
    BY DEF OneLiveWorkerPerTab
  <2>1. q \in Registered /\ r \in Registered
    BY DEF IInv, Core, LiveIsRegistered, Busy
  <2> QED
    BY <2>1 DEF IInv, Core, RegistryConsistent, IsActive
<1> QED
  BY Invariant, <1>1, PTL

(* begin_database_maintenance(): when maintenance runs no fetch is         *)
(* registered and none that still talks to the API can begin to write.     *)
THEOREM MaintenanceSafe == Spec => []MaintenanceQuiesced
<1>1. IInv => MaintenanceQuiesced
  BY DEF IInv, Core, MaintenanceIdle, LiveIsRegistered, MaintenanceQuiesced
<1> QED
  BY Invariant, <1>1, PTL

(* on_fetch_done() and on_fetch_error(): an outcome is never applied to a  *)
(* tab for which a newer request has been issued.                          *)
THEOREM OutcomesOrdered == Spec => OutcomesInOrder
<1> DEFINE InOrder == \A r \in applied' \ applied, q \in Request :
                        q > r => reqTab[q] # reqTab[r]
<1>1. IInv /\ [Next]_vars => [InOrder]_vars
  <2> SUFFICES ASSUME IInv, Next, NEW r \in applied' \ applied,
                      NEW q \in Request, q > r
               PROVE  reqTab[q] # reqTab[r]
    BY Zenon
  <2>1. PICK s \in Request : OnFetchDone(s) \/ OnFetchError(s)
    BY DEF Next, UserStep, TimerStep, SignalStep, ThreadStep, AddTab, CloseTab, RefreshTab,
           LoadMore, ResetCursor, RenameTab, RefreshAll, BeginPass, ChangeCredentials,
           DismissErrorDialog, AutoTick, AutoTickIdle, TimerIgnored, FinishPass,
           ProcessNext, TimerFires, CooldownExpires, IgnoreStale, OnThreadFinished,
           BeginWrite, FinishWrite, FailFetch, NoticeStop, ThreadExit, WorkerStep,
           BeginMaintenance, EndMaintenance
  <2>2. r = s /\ mail[s] # NoMail /\ IsActive(reqTab[s], s)
    BY <2>1 DEF OnFetchDone, OnFetchError, Receive, NoMail, ErrorKind
  <2>3. s \in Nat /\ requestSeq \in Nat /\ ~(s > requestSeq)
    BY <2>2, RegistryAssumption DEF IInv, Core, Numbered, TypeOK, Request
  <2>4. reqTab[s] \in Keyword
    BY <2>3 DEF IInv, Core, Numbered
  <2>5. s \in Registered /\ handles[s] = reqTab[s]
    BY <2>2, <2>3, <2>4, RegistryAssumption
       DEF IInv, Core, RegistryConsistent, IsActive, Registered, Request, NoRequest
  <2> QED
    BY <2>2, <2>5 DEF IInv, Core, RegisteredIsNewest
<1> QED
  BY Invariant, <1>1, PTL DEF Spec, OutcomesInOrder
=============================================================================
