---------------------------- MODULE DesktopProofs ----------------------------
(***************************************************************************)
(* Safety of the components around the window, for every plan: the update  *)
(* of the program by itself, the jobs that need the database, the start-up *)
(* entry of the system, and the settings in memory and in the file.        *)
(***************************************************************************)
EXTENDS UpdateInstall, BackgroundJobs, SettingsImport, FiniteSetTheorems, SequenceTheorems, TLAPS

-----------------------------------------------------------------------------
(* The update.                                                             *)

(* Until it replaces the program the helper has one to replace, from then  *)
(* on the new one is in place.                                             *)
Early == {"waiting", "verifying", "copied"}
Late == {"replaced", "smoked", "started"}

UpdTyped ==
  /\ window \in {"idle", "checking", "offered", "downloading", "confirming", "closing", "closed"}
  /\ running \in 0 .. Latest /\ program \in 1 .. Latest /\ passed \subseteq 1 .. Latest
  /\ helper \in [at : {"none"} \cup Early \cup Late, old : 0 .. Latest]
  /\ staged \in {"none", "whole", "spoiled"}
  /\ result \in {"none", "applied", "rolled_back", "failed"}
  /\ (window = "closed") = (running = 0)

(* A running program is the one in the file, and only an old one is ever   *)
(* offered the new release.                                                *)
RunsTheFile ==
  /\ running # 0 => running = program
  /\ window \in {"offered", "downloading", "confirming", "closing"} => running < Latest

(* What the helper relies on, and what its copy of the old program is.     *)
HelperKnows ==
  /\ helper.at # "none" => helper.old \in 1 .. Latest - 1
  /\ helper.at \in Early => program = helper.old
  /\ helper.at \in Late => program = Latest
  /\ helper.at \in {"smoked", "started"} => Latest \in passed
  /\ ~stuck => IF helper.at \in Late THEN helper.old \in passed ELSE program \in passed

UpdInv == UpdTyped /\ RunsTheFile /\ HelperKnows /\ UpdateTruthful

LEMMA UpdStarts == UpdInit => UpdInv
<1> SUFFICES ASSUME UpdInit PROVE UpdInv
  OBVIOUS
<1>1. UpdTyped
  <2>1. 1 \in 1 .. Latest /\ 1 \in 0 .. Latest /\ 0 \in 0 .. Latest
    BY LatestNumber
  <2>2. helper \in [at : {"none"} \cup Early \cup Late, old : 0 .. Latest]
    BY <2>1 DEF UpdInit, NoHelper
  <2>3. (window = "closed") = (running = 0)
    BY DEF UpdInit
  <2> QED
    BY <2>1, <2>2, <2>3 DEF UpdInit, UpdTyped
<1>2. RunsTheFile /\ UpdateTruthful
  BY LatestNumber DEF UpdInit, RunsTheFile, UpdateTruthful, NoHelper
<1>3. HelperKnows
  BY LatestNumber DEF UpdInit, HelperKnows, NoHelper, Early, Late
<1> QED
  BY <1>1, <1>2, <1>3 DEF UpdInv

(* The steps of the window and of the user.                                *)
LEMMA UpdWindowStep ==
  ASSUME UpdInv,
         CheckForUpdates \/ UpdateChecked \/ AnswerOffer \/ Downloaded \/ DropDownload
           \/ LaunchHelper \/ ExitProcess \/ StartByUser
  PROVE  UpdInv'
<1> USE LatestNumber DEF UpdInv, UpdTyped, RunsTheFile, HelperKnows, UpdateTruthful, Early, Late
<1>1. CASE CheckForUpdates
  BY <1>1 DEF CheckForUpdates
<1>2. CASE UpdateChecked
  BY <1>2 DEF UpdateChecked
<1>3. CASE AnswerOffer
  BY <1>3 DEF AnswerOffer
<1>4. CASE Downloaded
  BY <1>4 DEF Downloaded
<1>5. CASE DropDownload
  BY <1>5 DEF DropDownload
<1>6. CASE LaunchHelper
  <2>1. program = running /\ program \in 1 .. Latest - 1 /\ result # "applied"
    BY <1>6 DEF LaunchHelper
  <2>2. helper' = [at |-> "waiting", old |-> program]
    BY <1>6 DEF LaunchHelper
  <2>3. ~stuck => program \in passed
    BY <2>1
  <2> QED
    BY <1>6, <2>1, <2>2, <2>3 DEF LaunchHelper
<1>7. CASE ExitProcess
  BY <1>7 DEF ExitProcess
<1>8. CASE StartByUser
  BY <1>8 DEF StartByUser, StartProcess
<1> QED
  BY <1>1, <1>2, <1>3, <1>4, <1>5, <1>6, <1>7, <1>8

(* The steps of the helper.                                                *)
LEMMA UpdHelperStep ==
  ASSUME UpdInv,
         ParentGone \/ ParentStays \/ SpoilStaged \/ VerifyStaged \/ ReplaceProgram
           \/ SmokePasses \/ PutOldBack \/ StartNew \/ WriteApplied \/ HelperKilled
  PROVE  UpdInv'
<1> USE LatestNumber DEF UpdInv, UpdTyped, RunsTheFile, HelperKnows, UpdateTruthful, Early, Late,
                         HelperTo, EndWith, NoHelper
<1>1. CASE ParentGone
  BY <1>1 DEF ParentGone
<1>2. CASE ParentStays
  BY <1>2 DEF ParentStays
<1>3. CASE SpoilStaged
  BY <1>3 DEF SpoilStaged
<1>4. CASE VerifyStaged
  BY <1>4 DEF VerifyStaged
<1>5. CASE ReplaceProgram
  <2>1. CASE running = 0
    <3>1. /\ program' = Latest /\ helper' = [at |-> "replaced", old |-> helper.old]
          /\ UNCHANGED <<window, running, staged, result, passed, stuck>>
      BY <1>5, <2>1 DEF ReplaceProgram
    <3>2. program = helper.old /\ program < Latest /\ result # "applied"
      BY <1>5 DEF ReplaceProgram
    <3>3. ~stuck => helper.old \in passed
      BY <1>5 DEF ReplaceProgram
    <3> QED
      BY <2>1, <3>1, <3>2, <3>3
  <2>2. CASE running # 0
    BY <1>5, <2>2 DEF ReplaceProgram
  <2> QED
    BY <2>1, <2>2
<1>6. CASE SmokePasses
  BY <1>6 DEF SmokePasses
<1>7. CASE PutOldBack
  <2>1. helper.at \in Late /\ helper.old \in 1 .. Latest - 1 /\ program = Latest
    BY <1>7 DEF PutOldBack
  <2>2. ~stuck => helper.old \in passed
    BY <2>1
  <2>3. CASE running = 0 /\ program' = helper.old /\ EndWith("rolled_back") /\ UNCHANGED stuck
    BY <1>7, <2>1, <2>2, <2>3 DEF PutOldBack
  <2>4. CASE UNCHANGED program /\ EndWith("failed") /\ stuck' = TRUE
    BY <1>7, <2>1, <2>4 DEF PutOldBack
  <2> QED
    BY <1>7, <2>3, <2>4 DEF PutOldBack
<1>8. CASE StartNew
  BY <1>8 DEF StartNew, StartProcess
<1>9. CASE WriteApplied
  BY <1>9 DEF WriteApplied
<1>10. CASE HelperKilled
  <2>1. /\ helper.at \in Early \cup Late
        /\ helper' = NoHelper /\ staged' = "none" /\ stuck' = (stuck \/ helper.at \in Late)
        /\ UNCHANGED <<window, running, program, result, passed>>
    BY <1>10 DEF HelperKilled
  <2>2. ASSUME ~stuck' PROVE program \in passed /\ program < Latest
    <3>1. ~stuck /\ helper.at \notin Late
      BY <2>1, <2>2, Zenon
    <3> QED
      BY <2>1, <3>1
  <2> QED
    BY <2>1, <2>2
<1> QED
  BY <1>1, <1>2, <1>3, <1>4, <1>5, <1>6, <1>7, <1>8, <1>9, <1>10

LEMMA UpdStep == UpdInv /\ [UpdNext]_updVars => UpdInv'
<1>1. ASSUME UpdInv, UNCHANGED updVars PROVE UpdInv'
  BY <1>1 DEF updVars, UpdInv, UpdTyped, RunsTheFile, HelperKnows, UpdateTruthful
<1> QED
  BY <1>1, UpdWindowStep, UpdHelperStep DEF UpdNext

LEMMA UpdAlways == UpdSpec => []UpdInv
BY UpdStarts, UpdStep, PTL DEF UpdSpec

(* Versions, the downloaded file and the reported result keep their types, *)
(* and the window is closed exactly when no process runs.                  *)
THEOREM UpdTypeCorrect == UpdSpec => []UpdTypeOK
<1>1. UpdInv => UpdTypeOK
  BY LatestNumber DEF UpdInv, UpdTyped, UpdTypeOK
<1> QED
  BY <1>1, UpdAlways, PTL

(* The result the helper leaves for the next start is what happened to the *)
(* program file, wherever a fault, a kill or a user's start comes between. *)
THEOREM UpdateIsTruthful == UpdSpec => []UpdateTruthful
<1>1. UpdInv => UpdateTruthful
  BY DEF UpdInv
<1> QED
  BY <1>1, UpdAlways, PTL
-----------------------------------------------------------------------------
(* The jobs.                                                               *)

Holds(j) == work[j] \in Holding

(* The mode is held by one job, and begins when nothing else is at work.   *)
OneHolder == \A i, j \in JobKinds : Holds(i) /\ Holds(j) => i = j

ModeIsHeld == exit = "no" => maintenance = \E j \in JobKinds : Holds(j)

ModeIsAlone == maintenance /\ exit = "no" =>
  ~refresh /\ export # "running" /\ (backfill.at = "running" => backfill.stop)

CloseIsLast == exit = "closed" =>
  export # "running" /\ backfill.at # "running" /\ work["csv"] \notin Writing

(* Whoever stops the backfill remembers it until the outcome is heard; if  *)
(* an abandoned update did not, no refresh or job began since that does    *)
(* not have the timer set.                                                 *)
StopIsPause == exit = "no" =>
  /\ backfill.at # "none" /\ backfill.stop => pausing \/ forgone
  /\ backfill.at = "running" /\ backfill.stop => pausing \/ (~refresh /\ ~maintenance)
  /\ backfill.at # "none" /\ backfill.stop =>
       pausing \/ retryTimer \/ indexed \/ (~refresh /\ ~maintenance)
  /\ backfill.at = "cancelled" => backfill.stop
  /\ backfill.at = "finished" => indexed

JobsTyped ==
  /\ maintenance \in BOOLEAN /\ pausing \in BOOLEAN /\ retryTimer \in BOOLEAN
  /\ indexed \in BOOLEAN /\ refresh \in BOOLEAN /\ forgone \in BOOLEAN
  /\ work \in [JobKinds -> Holding \cup {"none", "tab gone"}]
  /\ backfill \in [at : {"none", "running", "finished", "error", "cancelled"}, stop : BOOLEAN]
  /\ export \in {"none", "running", "over"} /\ exit \in {"no", "closed", "deferred"}

JobsInv ==
  /\ JobsTyped /\ OneHolder /\ ModeIsHeld /\ ModeIsAlone /\ CloseIsLast
  /\ StopIsPause /\ BackfillNotForgotten

(* What pausing and resuming do to the backfill.                           *)
LEMMA PauseKeeps ==
  ASSUME JobsInv, exit = "no", Pause, UNCHANGED <<indexed, exit>>
  PROVE  /\ pausing' \in BOOLEAN /\ forgone' \in BOOLEAN /\ retryTimer' \in BOOLEAN
         /\ backfill' \in [at : {"none", "running", "finished", "error", "cancelled"}, stop : BOOLEAN]
         /\ backfill'.at = "running" => backfill'.stop
         /\ StopIsPause' /\ BackfillNotForgotten'
<1> USE DEF JobsInv, JobsTyped, StopIsPause, BackfillNotForgotten
<1>1. CASE backfill.at = "running"
  BY <1>1 DEF Pause
<1>2. CASE backfill.at # "running"
  <2>1. retryTimer' = (retryTimer \/ ~indexed) /\ UNCHANGED <<pausing, forgone, backfill>>
    BY <1>2 DEF Pause, Resume
  <2>2. retryTimer' \in BOOLEAN /\ (~indexed => retryTimer')
    BY <2>1, Zenon
  <2> QED
    BY <1>2, <2>1, <2>2
<1> QED
  BY <1>1, <1>2

LEMMA ResumeKeeps ==
  ASSUME JobsInv, exit = "no", Resume,
         UNCHANGED <<backfill, pausing, forgone, indexed, exit>>,
         refresh' => refresh, maintenance' => maintenance
  PROVE  retryTimer' \in BOOLEAN /\ StopIsPause' /\ BackfillNotForgotten'
<1>1. retryTimer' = (retryTimer \/ ~indexed)
  BY DEF Resume
<1>2. retryTimer' \in BOOLEAN /\ (~indexed => retryTimer')
  BY <1>1, Zenon DEF JobsInv, JobsTyped
<1> QED
  BY <1>2 DEF JobsInv, StopIsPause, BackfillNotForgotten

LEMMA BackfillStep ==
  ASSUME JobsInv, StartBackfill \/ BackfillEnds \/ BackfillHeard
  PROVE  JobsInv'
<1>1. /\ UNCHANGED <<maintenance, work, export, refresh, exit>> /\ exit = "no"
  BY DEF StartBackfill, BackfillEnds, BackfillHeard
<1>2. OneHolder' /\ ModeIsHeld' /\ CloseIsLast'
  BY <1>1 DEF JobsInv, OneHolder, ModeIsHeld, CloseIsLast, Holds
<1> USE <1>1, <1>2 DEF JobsInv, JobsTyped, ModeIsAlone, StopIsPause, BackfillNotForgotten, NoBackfill
<1>3. CASE StartBackfill
  <2>1. UNCHANGED indexed
    BY <1>3 DEF StartBackfill
  <2>2. CASE backfill.at = "running" /\ UNCHANGED <<backfill, pausing, forgone>> /\ retryTimer' = FALSE
    BY <2>1, <2>2
  <2>3. CASE backfill.at = "none" /\ indexed /\ pausing' = FALSE /\ retryTimer' = FALSE
             /\ UNCHANGED <<backfill, forgone>>
    BY <2>1, <2>3
  <2>4. CASE UNCHANGED <<backfill, pausing, forgone, retryTimer>>
    BY ZenonT(60), <2>1, <2>4
  <2>5. CASE /\ ~maintenance /\ backfill' = [NoBackfill EXCEPT !.at = "running"]
             /\ retryTimer' = FALSE /\ forgone' = FALSE /\ UNCHANGED pausing
    BY <2>1, <2>5
  <2> QED
    BY <1>3, <2>2, <2>3, <2>4, <2>5 DEF StartBackfill
<1>4. CASE BackfillEnds
  <2>1. UNCHANGED <<pausing, forgone, retryTimer>> /\ backfill.at = "running"
    BY <1>4 DEF BackfillEnds
  <2>2. CASE indexed' = TRUE /\ backfill' = [backfill EXCEPT !.at = IF backfill.stop THEN "cancelled" ELSE "finished"]
    BY <2>1, <2>2
  <2>3. CASE ~backfill.stop /\ UNCHANGED indexed /\ backfill' = [backfill EXCEPT !.at = "error"]
    BY <2>1, <2>3
  <2>4. CASE backfill.stop /\ UNCHANGED indexed /\ backfill' = [backfill EXCEPT !.at = "cancelled"]
    BY <2>1, <2>4
  <2> QED
    BY <1>4, <2>2, <2>3, <2>4 DEF BackfillEnds
<1>5. CASE BackfillHeard
  <2>1. backfill' = NoBackfill /\ pausing' = FALSE /\ UNCHANGED <<forgone, indexed>>
    BY <1>5 DEF BackfillHeard
  <2>2. CASE backfill.at = "finished"
    <3>1. retryTimer' = FALSE
      BY <1>5, <2>2, Zenon DEF BackfillHeard
    <3> QED
      BY <2>1, <2>2, <3>1
  <2>3. CASE backfill.at = "error"
    <3>1. retryTimer' = TRUE
      BY <1>5, <2>3, Zenon DEF BackfillHeard
    <3> QED
      BY <2>1, <3>1
  <2>4. CASE backfill.at = "cancelled"
    <3>1. IF pausing THEN Resume ELSE UNCHANGED retryTimer
      BY <1>5, <2>4, Zenon DEF BackfillHeard
    <3>2. CASE pausing
      <4>1. retryTimer' = (retryTimer \/ ~indexed)
        BY <3>1, <3>2, Zenon DEF Resume
      <4>2. retryTimer' \in BOOLEAN /\ (~indexed => retryTimer')
        BY <4>1, Zenon
      <4> QED
        BY <2>1, <4>2
    <3>3. CASE ~pausing
      <4>1. retryTimer' = retryTimer
        BY <3>1, <3>3, Zenon
      <4> QED
        BY <2>1, <2>4, <3>3, <4>1
    <3> QED
      BY <3>2, <3>3
  <2> QED
    BY <1>5, <2>2, <2>3, <2>4 DEF BackfillHeard
<1> QED
  BY <1>3, <1>4, <1>5

(* The export and the refresh.                                             *)
LEMMA ExportStep ==
  ASSUME JobsInv, StartExportJob \/ ExportEnds \/ ExportHeard
  PROVE  JobsInv'
<1>1. UNCHANGED <<maintenance, work, backfill, pausing, forgone, retryTimer, indexed, refresh, exit>>
  BY DEF StartExportJob, ExportEnds, ExportHeard, backfillVars
<1>2. OneHolder' /\ ModeIsHeld'
  BY <1>1 DEF JobsInv, OneHolder, ModeIsHeld, Holds
<1> QED
  BY ZenonT(60), <1>1, <1>2
     DEF JobsInv, JobsTyped, ModeIsAlone, CloseIsLast, StopIsPause, BackfillNotForgotten,
         StartExportJob, ExportEnds, ExportHeard

LEMMA RefreshStep ==
  ASSUME JobsInv, StartRefresh \/ FinishRefresh
  PROVE  JobsInv'
<1>1. UNCHANGED <<maintenance, work, export, indexed, exit>> /\ exit = "no" /\ refresh' \in BOOLEAN
  BY DEF StartRefresh, FinishRefresh
<1>2. OneHolder' /\ ModeIsHeld' /\ CloseIsLast'
  BY <1>1 DEF JobsInv, OneHolder, ModeIsHeld, CloseIsLast, Holds
<1>3. CASE StartRefresh
  <2>1. ~maintenance /\ Pause
    BY <1>3 DEF StartRefresh
  <2> QED
    BY <1>1, <1>2, <2>1, PauseKeeps DEF JobsInv, JobsTyped, ModeIsAlone
<1>4. CASE FinishRefresh
  <2>1. Resume /\ UNCHANGED <<backfill, pausing, forgone>> /\ ~refresh'
    BY <1>4 DEF FinishRefresh
  <2> QED
    BY ZenonT(60), <1>1, <1>2, <2>1, ResumeKeeps DEF JobsInv, JobsTyped, ModeIsAlone
<1> QED
  BY <1>3, <1>4

-----------------------------------------------------------------------------
(* A job asks for the mode, ends, and is heard.                            *)

LEMMA StartJobStep ==
  ASSUME JobsInv, NEW j \in JobKinds, NEW at \in {"asking", "running"}, StartJob(j, at)
  PROVE  JobsInv'
<1>1. exit = "no" /\ exit' = exit /\ work[j] = "none"
  BY DEF StartJob
<1>2. CASE BeginRefused
  <2>1. /\ ~maintenance /\ ~refresh' /\ export' \in {"none", "running", "over"}
        /\ refresh' \in BOOLEAN
        /\ UNCHANGED <<maintenance, work, backfill, pausing, forgone, retryTimer, indexed>>
    BY <1>2 DEF BeginRefused, backfillVars, JobsInv, JobsTyped
  <2>2. OneHolder' /\ ModeIsHeld'
    BY <1>1, <2>1 DEF JobsInv, OneHolder, ModeIsHeld, Holds
  <2> QED
    BY <1>1, <2>1, <2>2 DEF JobsInv, JobsTyped, ModeIsAlone, CloseIsLast, StopIsPause, BackfillNotForgotten
<1>3. CASE BeginMaintenance /\ work' = [work EXCEPT ![j] = at]
  <2>1. /\ ~maintenance /\ maintenance' = TRUE /\ refresh' = FALSE /\ export' \in {"none", "over"}
        /\ Pause /\ UNCHANGED indexed
    BY <1>3 DEF BeginMaintenance, JobsInv, JobsTyped
  <2>2. \A i \in JobKinds : work[i] \notin Holding
    BY <1>1, <2>1 DEF JobsInv, ModeIsHeld, Holds
  <2>3. work' \in [JobKinds -> Holding \cup {"none", "tab gone"}] /\ work'[j] \in Holding
        /\ \A i \in JobKinds \ {j} : work'[i] = work[i]
    BY <1>3 DEF Holding, JobsInv, JobsTyped
  <2>4. OneHolder' /\ ModeIsHeld'
    BY <2>1, <2>2, <2>3 DEF OneHolder, ModeIsHeld, Holds
  <2>5. ModeIsAlone' /\ CloseIsLast' /\ StopIsPause' /\ BackfillNotForgotten'
    BY <1>1, <2>1, PauseKeeps DEF ModeIsAlone, CloseIsLast
  <2> QED
    BY <1>1, <2>1, <2>3, <2>4, <2>5, PauseKeeps DEF JobsInv, JobsTyped
<1> QED
  BY <1>2, <1>3 DEF StartJob

(* The mode ends together with the job that holds it.                      *)
LEMMA EndMaintenanceStep ==
  ASSUME JobsInv, exit = "no", EndMaintenance,
         NEW j \in JobKinds, Holds(j), NEW at \in {"none", "tab gone"},
         work' = [work EXCEPT ![j] = at]
  PROVE  JobsInv'
<1>1. /\ maintenance' = FALSE
      /\ UNCHANGED <<export, backfill, pausing, forgone, indexed, refresh, exit>>
      /\ Resume \/ UNCHANGED retryTimer
  BY DEF EndMaintenance
<1>2. retryTimer' \in BOOLEAN /\ StopIsPause' /\ BackfillNotForgotten'
  BY <1>1, ResumeKeeps DEF JobsInv, JobsTyped, StopIsPause, BackfillNotForgotten
<1>3. work' \in [JobKinds -> Holding \cup {"none", "tab gone"}]
      /\ work'[j] \notin Holding /\ \A i \in JobKinds \ {j} : work'[i] = work[i]
  BY DEF Holding, JobsInv, JobsTyped
<1>4. \A i \in JobKinds : work'[i] \notin Holding
  BY <1>3 DEF JobsInv, OneHolder, Holds
<1>5. OneHolder' /\ ModeIsHeld' /\ ModeIsAlone' /\ CloseIsLast'
  BY <1>1, <1>4 DEF OneHolder, ModeIsHeld, ModeIsAlone, CloseIsLast, Holds
<1> QED
  BY <1>1, <1>2, <1>3, <1>5 DEF JobsInv, JobsTyped

(* A job moves on without giving the mode back.                            *)
LEMMA JobMovesOn ==
  ASSUME JobsInv, exit = "no", NEW j \in JobKinds,
         NEW at \in Holding \cup {"none", "tab gone"},
         work' = [work EXCEPT ![j] = at], Holds(j) <=> at \in Holding,
         UNCHANGED <<maintenance, export, backfillVars, refresh, exit>>
  PROVE  JobsInv'
<1>1. UNCHANGED <<backfill, pausing, forgone, retryTimer, indexed>>
  BY DEF backfillVars
<1>2. work' \in [JobKinds -> Holding \cup {"none", "tab gone"}]
      /\ work'[j] = at /\ \A i \in JobKinds \ {j} : work'[i] = work[i]
  BY DEF JobsInv, JobsTyped
<1>3. \A i \in JobKinds : Holds(i)' <=> Holds(i)
  BY <1>2 DEF Holds
<1>4. OneHolder' /\ ModeIsHeld'
  BY <1>3 DEF JobsInv, OneHolder, ModeIsHeld
<1> QED
  BY ZenonT(60), <1>1, <1>2, <1>4
     DEF JobsInv, JobsTyped, ModeIsAlone, CloseIsLast, StopIsPause, BackfillNotForgotten

LEMMA JobEndsStep ==
  ASSUME JobsInv, NEW j \in JobKinds, JobEnds(j)
  PROVE  JobsInv'
<1> DEFINE at == IF work[j] = "tab gone" THEN "none" ELSE "over"
<1>1. /\ exit = "no" /\ work[j] \in Writing /\ work' = [work EXCEPT ![j] = at]
      /\ UNCHANGED <<maintenance, export, backfillVars, refresh, exit>>
  BY DEF JobEnds, JobsInv, JobsTyped
<1>2. CASE work[j] = "tab gone"
  <2>1. "none" \notin Holding /\ ~Holds(j)
    BY <1>2 DEF Holds, Holding
  <2> QED
    BY <1>1, <1>2, <2>1, JobMovesOn
<1>3. CASE work[j] # "tab gone"
  <2>1. "over" \in Holding /\ Holds(j)
    BY <1>1, <1>3 DEF Holds, Holding, Writing
  <2> QED
    BY <1>1, <1>3, <2>1, JobMovesOn
<1> QED
  BY <1>2, <1>3

LEMMA JobHeardStep ==
  ASSUME JobsInv, NEW j \in JobKinds, JobHeard(j)
  PROVE  JobsInv'
<1>1. exit = "no" /\ Holds(j) /\ work' = [work EXCEPT ![j] = "none"] /\ EndMaintenance
  BY DEF JobHeard, Holds, Holding
<1> QED
  BY <1>1, EndMaintenanceStep

LEMMA AnswerPreviewStep == ASSUME JobsInv, AnswerPreview PROVE JobsInv'
<1>1. exit = "no" /\ Holds("cloud") /\ "cloud" \in JobKinds
  BY DEF AnswerPreview, Holds, Holding, JobKinds
<1>2. CASE /\ work' = [work EXCEPT !["cloud"] = "running"]
           /\ UNCHANGED <<maintenance, export, backfillVars, refresh, exit, jobsLeft>>
  <2>1. "running" \in Holding /\ Holds("cloud")
    BY <1>1 DEF Holds, Holding
  <2> QED
    BY <1>1, <1>2, <2>1, JobMovesOn
<1>3. CASE work' = [work EXCEPT !["cloud"] = "none"] /\ EndMaintenance
  BY <1>1, <1>3, EndMaintenanceStep
<1> QED
  BY <1>2, <1>3 DEF AnswerPreview

LEMMA CloseSettingsStep == ASSUME JobsInv, CloseSettings PROVE JobsInv'
<1>1. exit = "no" /\ Holds("data") /\ "data" \in JobKinds
  BY DEF CloseSettings, Holds, Holding, JobKinds
<1>2. CASE work' = [work EXCEPT !["data"] = "none"] /\ EndMaintenance
  BY <1>1, <1>2, EndMaintenanceStep
<1>3. CASE /\ work' = [work EXCEPT !["data"] = "dialog gone"]
           /\ UNCHANGED <<maintenance, export, backfillVars, refresh, exit, jobsLeft>>
  <2>1. "dialog gone" \in Holding /\ Holds("data")
    BY <1>1 DEF Holds, Holding
  <2> QED
    BY <1>1, <1>3, <2>1, JobMovesOn
<1> QED
  BY <1>2, <1>3 DEF CloseSettings

LEMMA CloseMarkingTabStep == ASSUME JobsInv, CloseMarkingTab PROVE JobsInv'
<1>1. exit = "no" /\ Holds("mark") /\ "mark" \in JobKinds /\ EndMaintenance
  BY DEF CloseMarkingTab, Holds, Holding, JobKinds
<1>2. PICK at \in {"none", "tab gone"} : work' = [work EXCEPT !["mark"] = at]
  BY DEF CloseMarkingTab
<1> QED
  BY <1>1, <1>2, EndMaintenanceStep

(* The exit, after which nothing moves.                                    *)
LEMMA RealCloseStep == ASSUME JobsInv, RealClose PROVE JobsInv'
<1>1. PICK slow \in SUBSET Waited :
        /\ exit' = IF slow = {} THEN "closed" ELSE "deferred"
        /\ export' = IF "export" \in slow THEN "running" ELSE "none"
        /\ work' = [work EXCEPT !["csv"] = IF "csv" \in slow THEN "running" ELSE "none"]
        /\ backfill' = IF "backfill" \in slow THEN [backfill EXCEPT !.stop = TRUE] ELSE NoBackfill
  BY DEF RealClose
<1>2. UNCHANGED <<maintenance, pausing, forgone, retryTimer, indexed, refresh>> /\ exit = "no"
  BY DEF RealClose
<1>3. "csv" \in JobKinds /\ ("csv" \in slow => work["csv"] = "running")
      /\ ("backfill" \in slow => backfill.at = "running")
  BY DEF Waited, JobKinds
<1>4. \A j \in JobKinds : Holds(j)' => Holds(j)
  BY <1>1, <1>3 DEF Holds, Holding, JobsInv, JobsTyped
<1>5. OneHolder' /\ ModeIsHeld' /\ ModeIsAlone'
  BY <1>1, <1>4 DEF JobsInv, OneHolder, ModeIsHeld, ModeIsAlone
<1>6. CloseIsLast'
  BY <1>1, <1>3 DEF CloseIsLast, Writing, NoBackfill, JobsInv, JobsTyped
<1>7. BackfillNotForgotten'
  BY <1>1 DEF BackfillNotForgotten
<1> QED
  BY <1>1, <1>2, <1>3, <1>5, <1>6, <1>7 DEF JobsInv, JobsTyped, Holding, NoBackfill, StopIsPause

(* An update that is abandoned interrupts the backfill.                     *)
LEMMA AbandonUpdateStep == ASSUME JobsInv, AbandonUpdate PROVE JobsInv'
<1>1. /\ UNCHANGED <<maintenance, work, pausing, retryTimer, indexed, exit>>
      /\ exit = "no" /\ ~maintenance /\ refresh' = FALSE
      /\ export' \in {"none", "running", "over"}
  BY DEF AbandonUpdate, JobsInv, JobsTyped
<1>2. OneHolder' /\ ModeIsHeld' /\ ModeIsAlone' /\ CloseIsLast'
  BY <1>1 DEF JobsInv, OneHolder, ModeIsHeld, ModeIsAlone, CloseIsLast, Holds
<1> USE <1>1, <1>2 DEF JobsInv, JobsTyped, StopIsPause, BackfillNotForgotten
<1>3. CASE UNCHANGED <<backfill, forgone>>
  BY <1>3
<1>4. CASE /\ backfill.at = "running" /\ backfill' = [backfill EXCEPT !.stop = TRUE]
           /\ forgone' = ~pausing
  <2>1. forgone' \in BOOLEAN /\ (pausing \/ forgone')
    BY <1>4, Zenon
  <2>2. /\ backfill'.at = "running"
        /\ backfill' \in [at : {"none", "running", "finished", "error", "cancelled"}, stop : BOOLEAN]
    BY <1>4
  <2> QED
    BY <2>1, <2>2
<1> QED
  BY <1>3, <1>4 DEF AbandonUpdate

LEMMA AnyJobStep ==
  ASSUME JobsInv,
         \/ StartCloudSync \/ StartCsvImport \/ StartDataTask
         \/ StartMarkAllRead \/ StartScopeTags \/ StartApplyRules
         \/ CloudSyncEnds \/ CsvImportEnds \/ DataTaskEnds
         \/ MarkAllReadEnds \/ ScopeTagsEnd \/ ApplyRulesEnds
         \/ CloudSyncHeard \/ CsvImportHeard \/ DataTaskHeard
         \/ MarkAllReadHeard \/ ScopeTagsHeard \/ ApplyRulesHeard
  PROVE  JobsInv'
<1>1. PICK j \in JobKinds : \/ \E at \in {"asking", "running"} : StartJob(j, at)
                            \/ JobEnds(j) \/ JobHeard(j)
  BY DEF StartCloudSync, StartCsvImport, StartDataTask, StartMarkAllRead, StartScopeTags,
         StartApplyRules, CloudSyncEnds, CsvImportEnds, DataTaskEnds, MarkAllReadEnds,
         ScopeTagsEnd, ApplyRulesEnds, CloudSyncHeard, CsvImportHeard, DataTaskHeard,
         MarkAllReadHeard, ScopeTagsHeard, ApplyRulesHeard, JobKinds
<1> QED
  BY <1>1, StartJobStep, JobEndsStep, JobHeardStep

LEMMA JobsStart == JobsInit => JobsInv
<1> SUFFICES ASSUME JobsInit PROVE JobsInv
  OBVIOUS
<1>1. JobsTyped /\ \A j \in JobKinds : ~Holds(j)
  BY DEF JobsInit, JobsTyped, Holds, Holding, NoBackfill
<1>2. OneHolder /\ ModeIsHeld
  BY <1>1 DEF JobsInit, OneHolder, ModeIsHeld
<1> QED
  BY <1>1, <1>2 DEF JobsInit, JobsInv, ModeIsAlone, CloseIsLast, StopIsPause, BackfillNotForgotten,
                    NoBackfill

LEMMA JobsStep == JobsInv /\ [JobsNext]_jobsVars => JobsInv'
<1>1. ASSUME JobsInv, UNCHANGED jobsVars PROVE JobsInv'
  <2>1. UNCHANGED <<maintenance, work, export, backfill, pausing, forgone, retryTimer, indexed,
                    refresh, exit>>
    BY <1>1 DEF jobsVars, backfillVars
  <2>2. OneHolder' /\ ModeIsHeld' /\ ModeIsAlone' /\ CloseIsLast'
    BY <1>1, <2>1 DEF JobsInv, OneHolder, ModeIsHeld, ModeIsAlone, CloseIsLast, Holds
  <2>3. JobsTyped'
    BY ZenonT(60), <1>1, <2>1 DEF JobsInv, JobsTyped
  <2>4. StopIsPause' /\ BackfillNotForgotten'
    BY <1>1, <2>1 DEF JobsInv, StopIsPause, BackfillNotForgotten
  <2> QED
    BY <2>2, <2>3, <2>4 DEF JobsInv
<1> QED
  BY <1>1, BackfillStep, ExportStep, RefreshStep, AnyJobStep, AnswerPreviewStep,
     CloseSettingsStep, CloseMarkingTabStep, RealCloseStep, AbandonUpdateStep DEF JobsNext

LEMMA JobsAlways == JobsSpec => []JobsInv
BY JobsStart, JobsStep, PTL DEF JobsSpec

(* The flags and the states of the workers keep their types.               *)
THEOREM JobsTypeCorrect == JobsSpec => []JobsTypeOK
<1>1. JobsInv => JobsTypeOK
  BY DEF JobsInv, JobsTyped, JobsTypeOK
<1> QED
  BY <1>1, JobsAlways, PTL

LEMMA AtMostOne ==
  ASSUME NEW S, \A x, y \in S : x = y
  PROVE  Cardinality(S) <= 1
<1>1. CASE S = {}
  BY <1>1, FS_EmptySet
<1>2. ASSUME NEW x \in S PROVE Cardinality(S) <= 1
  <2>1. S = {x}
    BY <1>2
  <2> QED
    BY <2>1, FS_Singleton
<1> QED
  BY <1>1, <1>2

(* begin_database_maintenance and end_database_maintenance: the mode is on *)
(* exactly as long as one job needs it, and nothing else works beside it.  *)
THEOREM MaintenanceIsHeld == JobsSpec => []MaintenanceHeld
<1>1. ASSUME JobsInv PROVE Cardinality({j \in JobKinds : work[j] \in Holding}) <= 1
  <2>1. \A i, k \in {j \in JobKinds : work[j] \in Holding} : i = k
    BY <1>1 DEF JobsInv, OneHolder, Holds
  <2> QED
    BY <2>1, AtMostOne
<1>2. JobsInv => MaintenanceHeld
  BY <1>1 DEF JobsInv, ModeIsHeld, ModeIsAlone, CloseIsLast, Holds, MaintenanceHeld
<1> QED
  BY <1>2, JobsAlways, PTL

(* _pause_fts_backfill and _request_fts_backfill_resume: an incomplete     *)
(* index always has a worker, an outcome to be heard, or a timer, unless   *)
(* an abandoned update interrupted the worker (_prepare_update_shutdown)   *)
(* and neither a refresh nor a job began since.                            *)
THEOREM BackfillIsRemembered == JobsSpec => []BackfillNotForgotten
<1>1. JobsInv => BackfillNotForgotten
  BY DEF JobsInv
<1> QED
  BY <1>1, JobsAlways, PTL


-----------------------------------------------------------------------------
(* The start-up entry.                                                     *)

(* The settings p and the entry agree.  An entry left over while the switch *)
(* is off would agree too, but the next change of the other switch could    *)
(* make it the right one; hence there is none.                              *)
Agrees(p) == p.auto \in BOOLEAN /\ registry = IF p.auto THEN Command(p) ELSE "none"

Switches(p) == {"auto", "mini"} \subseteq DOMAIN p

(* Of what the import has stored away, and the file, the switches matter.   *)
PrefsShaped ==
  /\ Switches(prefs) /\ Switches(prefsFile) /\ "windows" \in DOMAIN prefsLeft
  /\ drift \in BOOLEAN /\ astray \in BOOLEAN
  /\ \/ import = NoImport
     \/ /\ import.at \in {"staged", "saved", "adding", "applied", "correcting"}
        /\ {"at", "old", "new"} \subseteq DOMAIN import
        /\ Switches(import.old) /\ Switches(import.new)

(* Until the fields are applied the settings are those of the entry, then   *)
(* the old ones are, until both are reconciled.                             *)
EntryFollows ==
  prefsLeft.windows /\ ~ astray =>
    /\ import.at \in {"none", "staged", "saved", "correcting"} => Agrees(prefs)
    /\ import.at = "adding" => Agrees(import.old)
    /\ import.at \in {"staged", "saved"} => import.old = prefs

(* A start takes the command from the file.                                 *)
FileFollows ==
  /\ ~ drift /\ import.at \in {"none", "staged"} => prefsFile.mini = prefs.mini
  /\ import.at = "saved" => prefsFile.mini = import.new.mini
  /\ import.at \in {"adding", "applied", "correcting"} => prefsFile.mini = prefs.mini

PrefsInv == PrefsShaped /\ EntryFollows /\ FileFollows

LEMMA PayloadSwitches ==
  ASSUME NEW p, Switches(p)
  PROVE  Switches(Payload(p)) /\ Payload(p).mini = p.mini
BY DEF Switches, Payload

LEMMA LoadedSwitches ==
  ASSUME NEW file, Switches(file), NEW canDecrypt
  PROVE  /\ Switches(Loaded(file, canDecrypt))
         /\ Loaded(file, canDecrypt).mini = file.mini
BY DEF Switches, Loaded

LEMMA StagedSwitches ==
  ASSUME NEW f
  PROVE  Switches(Staged(f))
BY DEF Switches, Staged


LEMMA PrefsStarts == PrefsInit => PrefsInv
<1> SUFFICES ASSUME PrefsInit PROVE PrefsInv
  OBVIOUS
<1>1. /\ prefsLeft \in PrefsPlans /\ import = NoImport /\ drift = FALSE /\ astray = FALSE
      /\ registry = IF prefs.auto THEN Command(prefs) ELSE "none"
  BY DEF PrefsInit
<1>2. prefs.auto \in BOOLEAN /\ Switches(prefs)
  BY DEF PrefsInit, Switches
<1>3. Switches(prefsFile) /\ prefsFile.mini = prefs.mini
  <2>1. PICK secret : prefsFile = [Payload(prefs) EXCEPT !.secret = secret]
    BY DEF PrefsInit
  <2>2. Switches(Payload(prefs)) /\ Payload(prefs).mini = prefs.mini
    BY <1>2, PayloadSwitches
  <2> QED
    BY <2>1, <2>2 DEF Switches
<1>4. "windows" \in DOMAIN prefsLeft
  BY <1>1, PrefsPlansTyped
<1> QED
  BY <1>1, <1>2, <1>3, <1>4 DEF PrefsInv, PrefsShaped, EntryFollows, FileFollows, Agrees, NoImport

(* Spending from the budgets leaves the rest of the plan alone.             *)
LEMMA SpentPlan ==
  ASSUME PrefsShaped, NEW what \in {"imports", "faults", "starts"}, PrefsSpend(what)
  PROVE  prefsLeft'.windows = prefsLeft.windows /\ "windows" \in DOMAIN prefsLeft'
BY DEF PrefsShaped, PrefsSpend

LEMMA ImportStepsKeep ==
  ASSUME PrefsInv,
         StartImportSettings \/ SaveStaged \/ SaveStagedFails \/ ApplyFields
           \/ AddImportedTab \/ FinishApply \/ ReconcileWithoutEntries \/ Correct \/ CorrectFails
  PROVE  PrefsInv'
<1>1. /\ Switches(prefs) /\ Switches(prefsFile) /\ "windows" \in DOMAIN prefsLeft
      /\ PrefsShaped /\ EntryFollows /\ FileFollows
  BY DEF PrefsInv, PrefsShaped
<1>2. CASE StartImportSettings
  <2>1. PICK f \in ImportFiles : import' = [at |-> "staged", old |-> prefs, new |-> Staged(f)]
    BY <1>2 DEF StartImportSettings
  <2>2. Switches(Staged(f))
    BY StagedSwitches
  <2>3. /\ prefsLeft'.windows = prefsLeft.windows /\ "windows" \in DOMAIN prefsLeft'
        /\ import = NoImport /\ UNCHANGED <<prefs, prefsFile, registry, astray, drift>>
    BY <1>1, <1>2, SpentPlan DEF StartImportSettings
  <2> DEFINE new == Staged(f)
  <2> HIDE DEF new
  <2> QED
    BY <1>1, <2>1, <2>2, <2>3
       DEF new, PrefsInv, PrefsShaped, EntryFollows, FileFollows, Agrees, Command, NoImport
<1>3. CASE SaveStaged
  <2>1. /\ import.at = "staged" /\ prefsFile' = Payload(import.new)
        /\ import' = [import EXCEPT !.at = "saved"]
        /\ UNCHANGED <<prefs, registry, astray, drift, prefsLeft>>
    BY <1>3 DEF SaveStaged
  <2>2. /\ Switches(import.new) /\ Switches(import.old) /\ {"at", "old", "new"} \subseteq DOMAIN import
        /\ import # NoImport
    BY <1>1, <2>1 DEF PrefsShaped, NoImport
  <2>3. Switches(prefsFile') /\ prefsFile'.mini = import.new.mini
    BY <2>1, <2>2, PayloadSwitches
  <2>4. /\ import'.at = "saved" /\ import'.old = import.old /\ import'.new = import.new
        /\ {"at", "old", "new"} \subseteq DOMAIN import'
    BY <2>1, <2>2
  <2> QED
    BY <1>1, <2>1, <2>2, <2>3, <2>4
       DEF PrefsInv, PrefsShaped, EntryFollows, FileFollows, Agrees, Command
<1>4. CASE SaveStagedFails
  <2>1. /\ import.at = "staged" /\ import' = NoImport
        /\ prefsLeft'.windows = prefsLeft.windows /\ "windows" \in DOMAIN prefsLeft'
        /\ UNCHANGED <<prefs, prefsFile, registry, astray, drift>>
    BY <1>1, <1>4, SpentPlan DEF SaveStagedFails
  <2> QED
    BY <1>1, <2>1 DEF PrefsInv, PrefsShaped, EntryFollows, FileFollows, Agrees, Command, NoImport
<1>5. CASE ApplyFields
  <2>1. /\ import.at = "saved" /\ prefs' = [import.new EXCEPT !.tabs = import.old.tabs]
        /\ import' = [import EXCEPT !.at = "adding"]
        /\ UNCHANGED <<prefsFile, registry, astray, drift, prefsLeft>>
    BY <1>5 DEF ApplyFields
  <2>2. /\ Switches(import.new) /\ Switches(import.old) /\ {"at", "old", "new"} \subseteq DOMAIN import
        /\ import # NoImport
    BY <1>1, <2>1 DEF PrefsShaped, NoImport
  <2>3. Switches(prefs') /\ prefs'.mini = import.new.mini
    BY <2>1, <2>2 DEF Switches
  <2>4. /\ import'.at = "adding" /\ import'.old = import.old /\ import'.new = import.new
        /\ {"at", "old", "new"} \subseteq DOMAIN import'
    BY <2>1, <2>2
  <2> QED
    BY <1>1, <2>1, <2>2, <2>3, <2>4
       DEF PrefsInv, PrefsShaped, EntryFollows, FileFollows, Agrees, Command
<1>6. CASE AddImportedTab
  <2>1. PICK tabs : /\ import.at = "adding" /\ prefs' = [prefs EXCEPT !.tabs = tabs]
                    /\ UNCHANGED <<prefsFile, registry, import, astray, drift, prefsLeft>>
    BY <1>6 DEF AddImportedTab
  <2>2. Switches(prefs') /\ prefs'.mini = prefs.mini
    BY <1>1, <2>1 DEF Switches
  <2> QED
    BY <1>1, <2>1, <2>2 DEF PrefsInv, PrefsShaped, EntryFollows, FileFollows, Agrees, Command
<1>7. CASE FinishApply
  <2>1. /\ import.at = "adding" /\ import' = [import EXCEPT !.at = "applied"]
        /\ UNCHANGED <<prefs, prefsFile, registry, astray, drift, prefsLeft>>
    BY <1>7 DEF FinishApply
  <2>2. /\ Switches(import.new) /\ Switches(import.old) /\ {"at", "old", "new"} \subseteq DOMAIN import
        /\ import # NoImport
    BY <1>1, <2>1 DEF PrefsShaped, NoImport
  <2>4. /\ import'.at = "applied" /\ import'.old = import.old /\ import'.new = import.new
        /\ {"at", "old", "new"} \subseteq DOMAIN import'
    BY <2>1, <2>2
  <2> QED
    BY <1>1, <2>1, <2>2, <2>4 DEF PrefsInv, PrefsShaped, EntryFollows, FileFollows, Agrees, Command
<1>8. CASE ReconcileWithoutEntries
  <2>1. /\ import.at = "applied" /\ ~ prefsLeft.windows
        /\ prefs' = [prefs EXCEPT !.auto = FALSE] /\ import' = Closed(FALSE)
        /\ UNCHANGED <<prefsFile, registry, astray, drift, prefsLeft>>
    BY <1>8 DEF ReconcileWithoutEntries
  <2>2. Switches(prefs') /\ prefs'.mini = prefs.mini
    BY <1>1, <2>1 DEF Switches
  <2>3. /\ Switches(import.new) /\ Switches(import.old) /\ {"at", "old", "new"} \subseteq DOMAIN import
        /\ import # NoImport
    BY <1>1, <2>1 DEF PrefsShaped, NoImport
  <2>4. import' = NoImport \/ import' = [import EXCEPT !.at = "correcting"]
    BY <2>1 DEF Closed
  <2>5. prefsFile'.mini = prefs'.mini
    BY <1>1, <2>1, <2>2 DEF FileFollows
  <2>6. /\ import'.at \in {"none", "correcting"}
        /\ \/ import' = NoImport
           \/ /\ import'.at = "correcting"
              /\ {"at", "old", "new"} \subseteq DOMAIN import'
              /\ import'.old = import.old /\ import'.new = import.new
    BY <2>3, <2>4 DEF NoImport
  <2>7. PrefsShaped'
    BY <1>1, <2>1, <2>2, <2>3, <2>6 DEF PrefsShaped
  <2> QED
    BY <2>1, <2>5, <2>6, <2>7 DEF PrefsInv, EntryFollows, FileFollows
<1>9. CASE Correct
  <2>1. /\ import.at = "correcting" /\ prefsFile' = Payload(prefs) /\ import' = NoImport
        /\ UNCHANGED <<prefs, registry, astray, drift, prefsLeft>>
    BY <1>9 DEF Correct
  <2>2. Switches(prefsFile') /\ prefsFile'.mini = prefs.mini
    BY <1>1, <2>1, PayloadSwitches
  <2> QED
    BY <1>1, <2>1, <2>2
       DEF PrefsInv, PrefsShaped, EntryFollows, FileFollows, Agrees, Command, NoImport
<1>10. CASE CorrectFails
  <2>1. /\ import.at = "correcting" /\ import' = NoImport /\ drift' = TRUE
        /\ prefsLeft'.windows = prefsLeft.windows /\ "windows" \in DOMAIN prefsLeft'
        /\ UNCHANGED <<prefs, prefsFile, registry, astray>>
    BY <1>1, <1>10, SpentPlan DEF CorrectFails
  <2> QED
    BY <1>1, <2>1 DEF PrefsInv, PrefsShaped, EntryFollows, FileFollows, Agrees, Command, NoImport
<1> QED
  BY <1>2, <1>3, <1>4, <1>5, <1>6, <1>7, <1>8, <1>9, <1>10


(* An import that fails halfway is undone, in the file too unless that fails. *)
LEMMA ApplyFailsKeeps ==
  ASSUME PrefsInv, ApplyFails
  PROVE  PrefsInv'
<1>1. PICK saved \in BOOLEAN, late \in BOOLEAN :
        /\ prefs' = IF late THEN [import.old EXCEPT !.tabs = Append(@, import.new.tabs[Len(prefs.tabs) + 1])]
                           ELSE import.old
        /\ prefsFile' = IF saved THEN Payload(import.old) ELSE prefsFile
        /\ drift' = (~ saved \/ late)
  BY DEF ApplyFails
<1>2. /\ import.at = "adding" /\ import' = NoImport
      /\ prefsLeft'.windows = prefsLeft.windows /\ "windows" \in DOMAIN prefsLeft'
      /\ UNCHANGED <<registry, astray>>
  BY SpentPlan DEF ApplyFails, PrefsInv
<1>3. Switches(import.old)
  BY <1>2 DEF PrefsInv, PrefsShaped, NoImport
<1>4. Switches(prefs') /\ prefs'.mini = import.old.mini /\ prefs'.auto = import.old.auto
  <2> DEFINE tabs == Append(import.old.tabs, import.new.tabs[Len(prefs.tabs) + 1])
  <2>1. prefs' = IF late THEN [import.old EXCEPT !.tabs = tabs] ELSE import.old
    BY <1>1
  <2> HIDE DEF tabs
  <2> QED
    BY <1>3, <2>1 DEF Switches
<1>5. Switches(prefsFile') /\ (~ drift' => prefsFile'.mini = prefs'.mini)
  BY <1>1, <1>3, <1>4, PayloadSwitches DEF PrefsInv, PrefsShaped
<1>6. drift' \in BOOLEAN
  BY <1>1
<1> QED
  BY <1>2, <1>4, <1>5, <1>6
     DEF PrefsInv, PrefsShaped, EntryFollows, FileFollows, Agrees, Command, NoImport

(* The system obeys, or the entry is astray.                                *)
LEMMA EntryFollowed ==
  ASSUME NEW want, NEW mini, NEW out \in Outcomes(want, mini), Follow(out), PrefsShaped
  PROVE  /\ out.flag \in BOOLEAN
         /\ ~ astray' => /\ ~ astray
                         /\ registry' = IF ~ out.flag THEN "none"
                                        ELSE IF mini THEN "minimized" ELSE "plain"
         /\ prefsLeft'.windows = prefsLeft.windows /\ "windows" \in DOMAIN prefsLeft'
         /\ astray' \in BOOLEAN
<1> DEFINE asked == IF mini THEN "minimized" ELSE "plain"
           entry(obeys) == IF ~ obeys THEN registry ELSE IF want THEN asked ELSE "none"
<1>1. PICK o \in BOOLEAN :
        out = [obeys |-> o, entry |-> entry(o), flag |-> entry(o) = IF want THEN asked ELSE "plain"]
  BY DEF Outcomes
<1>2. out.obeys = o /\ out.entry = entry(o) /\ out.flag = (entry(o) = IF want THEN asked ELSE "plain")
  BY <1>1
<1>3. prefsLeft'.windows = prefsLeft.windows /\ "windows" \in DOMAIN prefsLeft'
  BY DEF Follow, PrefsShaped
<1>4. registry' = entry(o) /\ astray' = (astray \/ ~ o)
  BY <1>2 DEF Follow
<1>5. out.flag \in BOOLEAN
  BY <1>2
<1>6. astray' \in BOOLEAN
  BY <1>4
<1>7. ASSUME ~ astray'
      PROVE  ~ astray /\ registry' = IF ~ out.flag THEN "none" ELSE asked
  <2>1. o /\ ~ astray
    BY <1>4, <1>7
  <2>2. entry(o) = IF want THEN asked ELSE "none"
    BY <2>1
  <2>3. CASE want
    BY <1>2, <1>4, <2>1, <2>2, <2>3
  <2>4. CASE ~ want
    BY <1>2, <1>4, <2>1, <2>2, <2>4
  <2> QED
    BY <2>3, <2>4
<1> QED
  BY <1>3, <1>5, <1>6, <1>7

(* Asked after an import, the system puts up the entry the settings name.   *)
LEMMA ReconcileKeeps ==
  ASSUME PrefsInv, Reconcile
  PROVE  PrefsInv'
<1>1. PICK out \in Outcomes(prefs.auto, prefs.mini) :
        /\ Follow(out)
        /\ prefs' = [prefs EXCEPT !.auto = out.flag]
        /\ import' = Closed(out.flag)
  BY DEF Reconcile
<1>2. /\ import.at = "applied" /\ UNCHANGED <<prefsFile, drift>>
      /\ PrefsShaped /\ FileFollows
  BY DEF Reconcile, PrefsInv
<1> DEFINE flag == out.flag
<1>3. /\ flag \in BOOLEAN
      /\ ~ astray' => registry' = IF ~ flag THEN "none"
                                  ELSE IF prefs.mini THEN "minimized" ELSE "plain"
      /\ prefsLeft'.windows = prefsLeft.windows /\ "windows" \in DOMAIN prefsLeft'
      /\ astray' \in BOOLEAN
  BY <1>1, <1>2, EntryFollowed
<1>4. prefs' = [prefs EXCEPT !.auto = flag]
  BY <1>1
<1>5. import' = NoImport \/ import' = [import EXCEPT !.at = "correcting"]
  BY <1>1 DEF Closed
<1> HIDE DEF flag
<1>6. Switches(prefs') /\ prefs'.auto = flag /\ prefs'.mini = prefs.mini
  BY <1>2, <1>4 DEF PrefsShaped, Switches
<1>7. ~ astray' => Agrees(prefs)'
  BY <1>3, <1>6 DEF Agrees, Command
<1>8. /\ import'.at \in {"none", "correcting"}
      /\ \/ import' = NoImport
         \/ /\ import'.at = "correcting"
            /\ {"at", "old", "new"} \subseteq DOMAIN import'
            /\ import'.old = import.old /\ import'.new = import.new
  BY <1>2, <1>5 DEF NoImport, PrefsShaped
<1>9. prefsFile'.mini = prefs'.mini
  BY <1>2, <1>6 DEF FileFollows
<1>10. PrefsShaped'
  BY <1>2, <1>3, <1>6, <1>8 DEF PrefsShaped, NoImport
<1> QED
  BY <1>7, <1>8, <1>9, <1>10 DEF PrefsInv, EntryFollows, FileFollows

(* In the dialog the entry is left alone when nothing about it is changed.  *)
LEMMA DialogKeeps ==
  ASSUME PrefsInv, OpenSettings
  PROVE  PrefsInv'
<1>1. PICK want \in BOOLEAN, mini \in BOOLEAN :
        \E out \in IF want # prefs.auto \/ (want /\ mini # prefs.mini)
                  THEN Outcomes(want, mini)
                  ELSE {[obeys |-> TRUE, entry |-> registry,
                         flag |-> want /\ registry = IF mini THEN "minimized" ELSE "plain"]} :
          Follow(out) /\ prefs' = [prefs EXCEPT !.auto = out.flag, !.mini = mini]
  BY DEF OpenSettings
<1> DEFINE asked == IF mini THEN "minimized" ELSE "plain"
           kept == [obeys |-> TRUE, entry |-> registry, flag |-> want /\ registry = asked]
<1>2. PICK out :
        /\ out \in IF want # prefs.auto \/ (want /\ mini # prefs.mini)
                  THEN Outcomes(want, mini) ELSE {kept}
        /\ Follow(out) /\ prefs' = [prefs EXCEPT !.auto = out.flag, !.mini = mini]
  BY <1>1
<1>3. /\ import = NoImport /\ import' = NoImport
      /\ prefsFile' = Payload(prefs') \/ (prefsFile' = prefsFile /\ drift' = TRUE)
      /\ drift' \in BOOLEAN /\ PrefsShaped /\ EntryFollows
  BY DEF OpenSettings, PrefsInv
<1> DEFINE flag == out.flag
<1>4. /\ flag \in BOOLEAN /\ astray' \in BOOLEAN
      /\ prefsLeft'.windows = prefsLeft.windows /\ "windows" \in DOMAIN prefsLeft'
      /\ prefsLeft'.windows /\ ~ astray' => registry' = IF ~ flag THEN "none" ELSE asked
  <2>1. CASE want # prefs.auto \/ (want /\ mini # prefs.mini)
    <3>1. out \in Outcomes(want, mini)
      BY <1>2, <2>1
    <3> QED
      BY <1>2, <1>3, <3>1, EntryFollowed
  <2>2. CASE ~ (want # prefs.auto \/ (want /\ mini # prefs.mini))
    <3>1. out = kept
      BY <1>2, <2>2
    <3>2. /\ out.obeys = TRUE /\ out.entry = registry
          /\ out.flag = (want /\ registry = asked)
      BY <3>1
    <3>3. registry' = registry /\ astray' = (astray \/ FALSE) /\ prefsLeft' = prefsLeft
      BY <1>2, <3>2 DEF Follow
    <3>4. flag \in BOOLEAN /\ astray' = astray
      BY <1>3, <3>2, <3>3 DEF PrefsShaped
    <3>5. ASSUME prefsLeft.windows, ~ astray
          PROVE  registry = IF ~ flag THEN "none" ELSE asked
      <4>1. registry = IF prefs.auto THEN Command(prefs) ELSE "none"
        BY <1>3, <3>5 DEF EntryFollows, NoImport, Agrees
      <4>2. CASE want
        BY <2>2, <3>2, <4>1, <4>2 DEF Command
      <4>3. CASE ~ want
        BY <2>2, <3>2, <4>1, <4>3
      <4> QED
        BY <4>2, <4>3
    <3> QED
      BY <1>3, <3>3, <3>4, <3>5 DEF PrefsShaped
  <2> QED
    BY <2>1, <2>2
<1>5. prefs' = [prefs EXCEPT !.auto = flag, !.mini = mini]
  BY <1>2
<1> HIDE DEF flag
<1>6. Switches(prefs') /\ prefs'.auto = flag /\ prefs'.mini = mini
  BY <1>3, <1>5 DEF PrefsShaped, Switches
<1>7. prefsLeft'.windows /\ ~ astray' => Agrees(prefs)'
  BY <1>4, <1>6 DEF Agrees, Command
<1>8. Switches(prefsFile') /\ (~ drift' => prefsFile'.mini = prefs'.mini)
  <2>1. CASE prefsFile' = Payload(prefs')
    <3>1. Payload(prefs') = [prefs' EXCEPT !.secret = Payload(prefs').secret,
                                           !.cursors = Payload(prefs').cursors]
      BY <1>6 DEF Payload, Switches
    <3> QED
      BY <1>6, <2>1, <3>1 DEF Switches
  <2>2. CASE prefsFile' = prefsFile /\ drift' = TRUE
    BY <1>3, <2>2 DEF PrefsShaped
  <2> QED
    BY <1>3, <2>1, <2>2
<1> QED
  BY <1>3, <1>4, <1>6, <1>7, <1>8 DEF PrefsInv, PrefsShaped, EntryFollows, FileFollows, NoImport

(* A start reads the switch off the entry, with the command of the file.    *)
LEMMA StartKeeps ==
  ASSUME PrefsInv, Restart
  PROVE  PrefsInv'
<1>1. PICK canDecrypt \in BOOLEAN :
        LET file == Loaded(prefsFile, canDecrypt)
            auto == IF prefsLeft.windows THEN registry = Command(file) ELSE file.auto
        IN /\ prefs' = [file EXCEPT !.auto = auto]
           /\ prefsFile' = IF prefsLeft.windows /\ prefsFile.secret.plain # ""
                           THEN [prefsFile EXCEPT !.secret = Encoded(file.secret, TRUE)]
                           ELSE prefsFile
           /\ drift' = (auto # file.auto \/ ~ canDecrypt)
  BY DEF Restart
<1> DEFINE file == Loaded(prefsFile, canDecrypt)
           auto == IF prefsLeft.windows THEN registry = Command(file) ELSE file.auto
           secret == Encoded(file.secret, TRUE)
<1>2. /\ prefs' = [file EXCEPT !.auto = auto]
      /\ prefsFile' = [prefsFile EXCEPT !.secret = secret] \/ prefsFile' = prefsFile
      /\ drift' = (auto # file.auto \/ ~ canDecrypt)
  BY <1>1
<1>3. /\ import' = NoImport /\ registry' = registry
      /\ astray' = (astray \/ drift \/ import # NoImport)
      /\ prefsLeft'.windows = prefsLeft.windows /\ "windows" \in DOMAIN prefsLeft'
      /\ PrefsShaped /\ EntryFollows /\ FileFollows
  BY SpentPlan DEF Restart, PrefsInv
<1>4. Switches(file) /\ file.mini = prefsFile.mini
  BY <1>3, LoadedSwitches DEF PrefsShaped
<1>5. prefsLeft.windows => auto = (registry = Command(file))
  OBVIOUS
<1> HIDE DEF file, auto, secret
<1>6. Switches(prefs') /\ prefs'.auto = auto /\ prefs'.mini = prefsFile.mini
  BY <1>2, <1>4 DEF Switches
<1>7. Switches(prefsFile') /\ prefsFile'.mini = prefsFile.mini
  BY <1>2, <1>3 DEF PrefsShaped, Switches
<1>8. drift' \in BOOLEAN /\ astray' \in BOOLEAN
  BY <1>2, <1>3
<1>9. ASSUME prefsLeft.windows, ~ astray' PROVE Agrees(prefs)'
  <2>1. ~ astray /\ ~ drift /\ import = NoImport
    BY <1>3, <1>9
  <2>2. prefsFile.mini = prefs.mini /\ registry = IF prefs.auto THEN Command(prefs) ELSE "none"
    BY <1>3, <1>9, <2>1 DEF FileFollows, EntryFollows, NoImport, Agrees
  <2>3. Command(file) = Command(prefs) /\ Command(prefs)' = Command(prefs)
    BY <1>4, <1>6, <2>2 DEF Command
  <2>4. auto = (registry = Command(prefs)) /\ auto \in BOOLEAN
    BY <1>5, <1>9, <2>3
  <2>5. Command(prefs) # "none"
    BY DEF Command
  <2>6. registry = IF auto THEN Command(prefs) ELSE "none"
    BY <2>2, <2>4, <2>5
  <2> QED
    BY <1>3, <1>6, <2>3, <2>4, <2>6 DEF Agrees
<1> QED
  BY <1>3, <1>6, <1>7, <1>8, <1>9 DEF PrefsInv, PrefsShaped, EntryFollows, FileFollows, NoImport

LEMMA PrefsStep == PrefsInv /\ [PrefsNext]_prefsVars => PrefsInv'
<1> SUFFICES ASSUME PrefsInv, [PrefsNext]_prefsVars PROVE PrefsInv'
  OBVIOUS
<1>1. CASE PrefsNext
  BY <1>1, ImportStepsKeep, ApplyFailsKeeps, ReconcileKeeps, DialogKeeps, StartKeeps DEF PrefsNext
<1>2. CASE UNCHANGED prefsVars
  BY <1>2 DEF prefsVars, PrefsInv, PrefsShaped, EntryFollows, FileFollows, Agrees, Command
<1> QED
  BY <1>1, <1>2

(* The switch "start with the system" shows what the system will really do, *)
(* for every settings file and every order of dialogs, imports, failures    *)
(* and starts (settings_dialogs.py:182, 313).          *)
THEOREM StartUpSwitchIsHonest == PrefsSpec => []AutoStartHonest
<1>1. PrefsInv => AutoStartHonest
  <2> SUFFICES ASSUME PrefsInv, import = NoImport, prefsLeft.windows, ~ astray
               PROVE  prefs.auto = (registry = Command(prefs))
    BY DEF AutoStartHonest
  <2>1. prefs.auto \in BOOLEAN /\ registry = IF prefs.auto THEN Command(prefs) ELSE "none"
    BY DEF PrefsInv, EntryFollows, NoImport, Agrees
  <2>2. Command(prefs) # "none"
    BY DEF Command
  <2> QED
    BY <2>1, <2>2
<1> QED
  BY <1>1, PrefsStarts, PrefsStep, PTL DEF PrefsSpec

-----------------------------------------------------------------------------
(* The lists of the settings.                                               *)

(* The place of the n-th element a list collects is the one of rank n.      *)
LEMMA RankType ==
  ASSUME NEW m \in Nat, NEW I \in SUBSET (1..m), NEW i \in I
  PROVE  Rank(I, i) \in 1..Cardinality(I)
<1> DEFINE J == {j \in I : j <= i}
<1>1. IsFiniteSet(I) /\ Cardinality(I) \in Nat
  <2>1. IsFiniteSet(1..m)
    BY FS_Interval
  <2> QED BY <2>1, FS_Subset, FS_CardinalityType
<1>2. IsFiniteSet(J) /\ Cardinality(J) <= Cardinality(I) /\ Cardinality(J) \in Nat
  <2>1. J \in SUBSET I
    OBVIOUS
  <2> HIDE DEF J
  <2> QED BY <1>1, <2>1, FS_Subset, FS_CardinalityType
<1>3. i \in J
  OBVIOUS
<1>4. Cardinality(J) # 0
  <2> HIDE DEF J
  <2> QED BY <1>2, <1>3, FS_EmptySet
<1> QED BY <1>1, <1>2, <1>4 DEF Rank

LEMMA RankGrows ==
  ASSUME NEW m \in Nat, NEW I \in SUBSET (1..m), NEW i \in I, NEW j \in I, i < j
  PROVE  Rank(I, i) < Rank(I, j)
<1> DEFINE A == {k \in I : k <= i}
           B == {k \in I : k <= j}
<1>1. IsFiniteSet(1..m)
  BY FS_Interval
<1>2. A \in SUBSET B /\ B \in SUBSET (1..m) /\ j \in B /\ j \notin A
  <2>1. i \in Int /\ j \in Int /\ \A k \in I : k \in Int
    OBVIOUS
  <2>2. \A k \in I : k <= i => k <= j
    BY <2>1
  <2>3. ~ j <= i /\ j <= j
    BY <2>1
  <2> QED BY <2>2, <2>3
<1>3. Cardinality(A) < Cardinality(B)
  <2> HIDE DEF A, B
  <2>1. IsFiniteSet(B)
    BY <1>1, <1>2, FS_Subset
  <2>2. IsFiniteSet(A) /\ Cardinality(A) <= Cardinality(B) /\ Cardinality(A) # Cardinality(B)
    BY <1>2, <2>1, FS_Subset
  <2>3. Cardinality(A) \in Nat /\ Cardinality(B) \in Nat
    BY <2>1, <2>2, FS_CardinalityType
  <2> QED BY <2>2, <2>3
<1> QED BY <1>3 DEF Rank

LEMMA EveryRank ==
  ASSUME NEW m \in Nat, NEW I \in SUBSET (1..m), NEW n \in 1..Cardinality(I)
  PROVE  \E i \in I : Rank(I, i) = n
<1> DEFINE N == 1..Cardinality(I)
           rank == [i \in I |-> Rank(I, i)]
<1>1. IsFiniteSet(I) /\ Cardinality(I) \in Nat
  <2>1. IsFiniteSet(1..m)
    BY FS_Interval
  <2> QED BY <2>1, FS_Subset, FS_CardinalityType
<1>2. IsFiniteSet(N) /\ Cardinality(N) = Cardinality(I)
  <2>1. Cardinality(1..Cardinality(I)) = Cardinality(I) /\ IsFiniteSet(1..Cardinality(I))
    BY <1>1, FS_Interval
  <2> QED BY <2>1
<1>3. \A i \in I : Rank(I, i) \in N
  BY RankType
<1>4. rank \in [I -> N]
  BY <1>3
<1>5. ASSUME NEW i \in I, NEW j \in I, rank[i] = rank[j] PROVE i = j
  <2>1. Rank(I, i) = Rank(I, j)
    BY <1>5
  <2>2. Rank(I, i) \in Int /\ i \in Int /\ j \in Int
    BY <1>1, <1>3
  <2>3. ~ i < j
    <3>1. i < j => Rank(I, i) < Rank(I, j)
      BY RankGrows
    <3> QED BY <2>1, <2>2, <3>1
  <2>4. ~ j < i
    <3>1. j < i => Rank(I, j) < Rank(I, i)
      BY RankGrows
    <3> QED BY <2>1, <2>2, <3>1
  <2> QED BY <2>2, <2>3, <2>4
<1>6. rank \in Injection(I, N)
  <2> HIDE DEF rank, N
  <2> QED BY <1>4, <1>5 DEF Injection, IsInjective
<1>7. rank \in Surjection(I, N)
  <2> HIDE DEF rank, N
  <2> QED BY <1>1, <1>2, <1>6, FS_Injection
<1>8. \A k \in N : \E i \in I : rank[i] = k
  <2> HIDE DEF rank, N
  <2> QED BY <1>7 DEF Surjection
<1> QED BY <1>8

(* Each element collected has a place of its own.                           *)
Places(r, list, I) ==
  CHOOSE p \in [DOMAIN r -> I] :
    /\ \A n \in DOMAIN r : r[n] = list[p[n]]
    /\ \A n, k \in DOMAIN r : p[n] = p[k] => n = k

LEMMA CollectedHasPlaces ==
  ASSUME NEW S, NEW list \in Seq(S), NEW I \in SUBSET (DOMAIN list)
  PROVE  /\ Collected(list, I) \in Seq(S) /\ Len(Collected(list, I)) = Cardinality(I)
         /\ LET r == Collected(list, I)  p == Places(r, list, I)
            IN /\ p \in [DOMAIN r -> I]
               /\ \A n \in DOMAIN r : r[n] = list[p[n]]
               /\ \A n, k \in DOMAIN r : p[n] = p[k] => n = k
<1> DEFINE r == Collected(list, I)
           c == Cardinality(I)
           place(n) == CHOOSE i \in I : Rank(I, i) = n
           q == [n \in 1..c |-> place(n)]
<1>1. PICK m \in Nat : DOMAIN list = 1..m
  OBVIOUS
<1>2. c \in Nat
  <2>1. IsFiniteSet(1..m)
    BY FS_Interval
  <2> QED BY <1>1, <2>1, FS_Subset, FS_CardinalityType
<1>3. \A n \in 1..c : place(n) \in I /\ Rank(I, place(n)) = n
  BY <1>1, EveryRank
<1>4. r = [n \in 1..c |-> list[place(n)]]
  BY DEF Collected
<1> HIDE DEF r, c, place
<1>5. \A n \in 1..c : list[place(n)] \in S
  BY <1>3
<1>6. r \in [1..c -> S] /\ DOMAIN r = 1..c
  BY <1>4, <1>5
<1>7. r \in Seq(S) /\ Len(r) = c
  BY <1>2, <1>6
<1>8. /\ q \in [DOMAIN r -> I]
      /\ \A n \in DOMAIN r : r[n] = list[q[n]]
      /\ \A n, k \in DOMAIN r : q[n] = q[k] => n = k
  BY <1>3, <1>4, <1>6
<1> HIDE DEF q
<1>9. /\ Places(r, list, I) \in [DOMAIN r -> I]
      /\ \A n \in DOMAIN r : r[n] = list[Places(r, list, I)[n]]
      /\ \A n, k \in DOMAIN r : Places(r, list, I)[n] = Places(r, list, I)[k] => n = k
  BY <1>8 DEF Places
<1> QED BY <1>7, <1>9 DEF r, c

LEMMA Beginning ==
  ASSUME NEW S, NEW r \in Seq(S), NEW c \in 0..Len(r)
  PROVE  LET u == SubSeq(r, 1, c)
         IN /\ u \in Seq(S) /\ Len(u) = c /\ DOMAIN u \subseteq DOMAIN r
            /\ \A n \in DOMAIN u : u[n] = r[n]
            /\ c = Len(r) => u = r
<1> DEFINE u == SubSeq(r, 1, c)
<1>1. Len(r) \in Nat /\ DOMAIN r = 1..Len(r) /\ r \in [1..Len(r) -> S]
  BY LenProperties
<1>2. c \in Int /\ 1 \in Int /\ 1..c \subseteq 1..Len(r)
  BY <1>1
<1>3. \A i \in 1..c : r[i] \in S
  BY <1>1, <1>2
<1>4. /\ u \in Seq(S) /\ Len(u) = IF 1 <= c THEN c - 1 + 1 ELSE 0
      /\ \A n \in 1..c - 1 + 1 : u[n] = r[1 + n - 1]
  BY <1>2, <1>3, SubSeqProperties
<1> HIDE DEF u
<1>5. c - 1 + 1 = c /\ (~ 1 <= c => c = 0) /\ \A n \in 1..c : 1 + n - 1 = n
  BY <1>1, <1>2
<1>6. Len(u) = c /\ \A n \in 1..c : u[n] = r[n]
  BY <1>4, <1>5
<1>7. DOMAIN u = 1..c
  BY <1>4, <1>6, LenProperties
<1>8. c = Len(r) => u = r
  BY <1>4, <1>6, SeqEqual
<1>9. DOMAIN u \subseteq DOMAIN r
  BY <1>1, <1>2, <1>7
<1> QED BY <1>4, <1>6, <1>7, <1>8, <1>9 DEF u

LEMMA CutList ==
  ASSUME NEW S, NEW r \in Seq(S), NEW max \in Nat
  PROVE  /\ AtMost(max, r) \in Seq(S) /\ Len(AtMost(max, r)) <= max
         /\ DOMAIN AtMost(max, r) \subseteq DOMAIN r
         /\ \A n \in DOMAIN AtMost(max, r) : AtMost(max, r)[n] = r[n]
         /\ Len(r) <= max => AtMost(max, r) = r
<1>1. Len(r) \in Nat
  BY LenProperties
<1>2. PICK c \in 0..Len(r) : /\ c = IF Len(r) < max THEN Len(r) ELSE max
                             /\ c <= max /\ (Len(r) <= max => c = Len(r))
  <2>1. CASE Len(r) < max
    BY <1>1, <2>1
  <2>2. CASE ~ Len(r) < max
    <3>1. max \in 0..Len(r) /\ (Len(r) <= max => max = Len(r))
      BY <1>1, <2>2
    <3> QED BY <2>2, <3>1
  <2> QED BY <2>1, <2>2
<1>3. AtMost(max, r) = SubSeq(r, 1, c)
  BY <1>2 DEF AtMost
<1> QED BY <1>2, <1>3, Beginning

(* A list without repetitions stays as it is.                               *)
Distinct(list) == \A i, j \in DOMAIN list : list[i] = list[j] => i = j

LEMMA CollectedWhole ==
  ASSUME NEW S, NEW list \in Seq(S)
  PROVE  Collected(list, DOMAIN list) = list
<1> DEFINE I == DOMAIN list
<1>1. PICK m \in Nat : I = 1..m
  OBVIOUS
<1>2. \A i \in 1..m : {j \in 1..m : j <= i} = 1..i
  BY <1>1
<1>3. \A i \in 1..m : Cardinality(1..i) = i
  BY FS_Interval
<1>4. Cardinality(1..m) = m
  BY FS_Interval
<1>5. \A i \in 1..m : Rank(1..m, i) = i
  BY <1>2, <1>3 DEF Rank
<1>6. \A n \in 1..m : (CHOOSE i \in 1..m : Rank(1..m, i) = n) = n
  BY <1>5
<1>7. Collected(list, 1..m) =
        [n \in 1..Cardinality(1..m) |-> list[CHOOSE i \in 1..m : Rank(1..m, i) = n]]
  BY DEF Collected
<1>8. Collected(list, 1..m) = [n \in 1..m |-> list[n]]
  BY <1>4, <1>6, <1>7
<1>9. list = [n \in DOMAIN list |-> list[n]]
  OBVIOUS
<1> QED BY <1>1, <1>8, <1>9

LEMMA DistinctStays ==
  ASSUME NEW S, NEW list \in Seq(S), Distinct(list), NEW max \in Nat, Len(list) <= max
  PROVE  FirstDistinct(list, max) = list
<1>1. FirstPlaces(list) = DOMAIN list
  <2>1. \A i \in DOMAIN list : \A j \in 1..(i - 1) : j \in DOMAIN list /\ j # i
    OBVIOUS
  <2> QED BY <2>1 DEF FirstPlaces, Distinct
<1>2. Collected(list, FirstPlaces(list)) = list
  BY <1>1, CollectedWhole
<1> QED BY <1>2, CutList DEF FirstDistinct

LEMMA FirstDistinctIs ==
  ASSUME NEW S, NEW list \in Seq(S), NEW max \in Nat
  PROVE  LET w == FirstDistinct(list, max)
         IN w \in Seq(S) /\ Len(w) <= max /\ Distinct(w)
<1> DEFINE I == FirstPlaces(list)
           r == Collected(list, I)
           p == Places(r, list, I)
           w == AtMost(max, r)
<1>1. I \in SUBSET (DOMAIN list)
  BY DEF FirstPlaces
<1>2. \A i, j \in I : list[i] = list[j] => i = j
  BY DEF FirstPlaces
<1> HIDE DEF I
<1>3. /\ r \in Seq(S) /\ p \in [DOMAIN r -> I]
      /\ \A n \in DOMAIN r : r[n] = list[p[n]]
      /\ \A n, k \in DOMAIN r : p[n] = p[k] => n = k
  BY <1>1, CollectedHasPlaces
<1> HIDE DEF r, p
<1>4. Distinct(r)
  BY <1>2, <1>3 DEF Distinct
<1>5. /\ w \in Seq(S) /\ Len(w) <= max
      /\ DOMAIN w \subseteq DOMAIN r /\ \A n \in DOMAIN w : w[n] = r[n]
  BY <1>3, CutList
<1> HIDE DEF w
<1>6. Distinct(w)
  BY <1>4, <1>5 DEF Distinct
<1> QED BY <1>5, <1>6 DEF FirstDistinct, w, r, I
LEMMA FreshKeysAre ==
  ASSUME NEW S, NEW list \in Seq(S), NEW taken
  PROVE  LET w == FreshKeys(list, taken)
         IN /\ w \in Seq(S)
            /\ \A i \in DOMAIN w : KeyOf[w[i]] \notin taken
            /\ \A i, j \in DOMAIN w : KeyOf[w[i]] = KeyOf[w[j]] => i = j
<1> DEFINE I == FreshPlaces(list, taken)
           r == Collected(list, I)
           p == Places(r, list, I)
<1>1. I \in SUBSET (DOMAIN list)
  BY DEF FreshPlaces
<1>2. \A i \in I : KeyOf[list[i]] \notin taken
  BY DEF FreshPlaces
<1>3. \A i, j \in I : KeyOf[list[i]] = KeyOf[list[j]] => i = j
  <2>1. \A i, j \in DOMAIN list : i \in 1..(j - 1) \/ j \in 1..(i - 1) \/ i = j
    OBVIOUS
  <2> QED BY <1>1, <2>1 DEF FreshPlaces
<1> HIDE DEF I
<1>4. /\ r \in Seq(S) /\ p \in [DOMAIN r -> I]
      /\ \A n \in DOMAIN r : r[n] = list[p[n]]
      /\ \A n, k \in DOMAIN r : p[n] = p[k] => n = k
  BY <1>1, CollectedHasPlaces
<1> HIDE DEF r, p
<1>5. \A n \in DOMAIN r : KeyOf[r[n]] \notin taken
  BY <1>2, <1>4
<1>6. \A n, k \in DOMAIN r : KeyOf[r[n]] = KeyOf[r[k]] => n = k
  BY <1>3, <1>4
<1> QED BY <1>4, <1>5, <1>6 DEF FreshKeys, r, I

-----------------------------------------------------------------------------
OneEach(tabs) == \A i, j \in DOMAIN tabs : KeyOf[tabs[i]] = KeyOf[tabs[j]] => i = j

(* Settings have their fields, and these are in order.                      *)
Fields == {"auto", "mini", "timeout", "every", "words", "tabs", "history", "cursors",
           "totals", "policies", "secret"}
Fielded(p) == p = [x \in Fields |-> p[x]]

NumbersInOrder(p) ==
  /\ p.auto \in BOOLEAN /\ p.mini \in BOOLEAN
  /\ p.timeout \in Timeouts.lo..Timeouts.hi /\ p.every \in Allowed
ListsInOrder(p) ==
  /\ p.words \in Seq(Texts) /\ Len(p.words) <= MaxWords /\ Distinct(p.words)
  /\ p.tabs \in Seq(Texts) /\ OneEach(p.tabs)
  /\ p.history \in Seq(Texts) /\ Len(p.history) <= MaxHistory
IsMap(f) == f = [k \in DOMAIN f |-> f[k]]
MapsInOrder(p) ==
  /\ IsMap(p.cursors) /\ \A k \in DOMAIN p.cursors : p.cursors[k] \in Nat \ {0}
  /\ IsMap(p.totals) /\ \A k \in DOMAIN p.totals : p.totals[k] \in Nat

InOrder(p) == Fielded(p) /\ NumbersInOrder(p) /\ ListsInOrder(p) /\ MapsInOrder(p)

InFile(file) == InOrder(file) /\ \A k \in DOMAIN file.cursors : file.cursors[k] <= MaxCursor

Clamped(f) == [k \in DOMAIN f |-> Between(f[k], [lo |-> 1, hi |-> MaxCursor])]

(* The file holds the settings p.                                           *)
SavedAs(p, file) ==
  /\ file = [p EXCEPT !.cursors = Clamped(p.cursors), !.secret = file.secret]
  /\ Resolved(file.secret, TRUE) = p.secret

LEMMA SecretReturns ==
  ASSUME NEW secret, NEW canEncrypt \in BOOLEAN
  PROVE  Resolved(Encoded(secret, canEncrypt), TRUE) = secret
BY DEF Resolved, Encoded

LEMMA ClampedMap ==
  ASSUME NEW f, \A k \in DOMAIN f : f[k] \in Nat \ {0}
  PROVE  /\ DOMAIN Clamped(f) = DOMAIN f /\ IsMap(Clamped(f))
         /\ \A k \in DOMAIN f : Clamped(f)[k] \in Nat \ {0} /\ Clamped(f)[k] <= MaxCursor
         /\ (\A k \in DOMAIN f : f[k] <= MaxCursor) /\ IsMap(f) => Clamped(f) = f
<1> DEFINE B(v) == Between(v, [lo |-> 1, hi |-> MaxCursor])
<1>1. \A v \in Nat \ {0} : /\ B(v) \in Nat \ {0} /\ B(v) <= MaxCursor
                           /\ v <= MaxCursor => B(v) = v
  BY ListLimits DEF Between
<1>2. Clamped(f) = [k \in DOMAIN f |-> B(f[k])]
  BY DEF Clamped
<1> HIDE DEF B
<1>3. DOMAIN Clamped(f) = DOMAIN f /\ \A k \in DOMAIN f : Clamped(f)[k] = B(f[k])
  BY <1>2
<1>4. IsMap(Clamped(f))
  BY <1>2 DEF IsMap
<1>5. ASSUME \A k \in DOMAIN f : f[k] <= MaxCursor, IsMap(f) PROVE Clamped(f) = f
  <2>1. \A k \in DOMAIN f : B(f[k]) = f[k]
    BY <1>1, <1>5
  <2> QED BY <1>2, <1>5, <2>1 DEF IsMap
<1> QED BY <1>1, <1>3, <1>4, <1>5

(* Changing the cursors and the secret.                                     *)
LEMMA TwoFieldsInOrder ==
  ASSUME NEW p, InOrder(p), NEW c, NEW x, IsMap(c), \A k \in DOMAIN c : c[k] \in Nat \ {0}
  PROVE  InOrder([p EXCEPT !.cursors = c, !.secret = x])
<1> DEFINE q == [p EXCEPT !.cursors = c, !.secret = x]
<1>1. /\ Fielded(q) /\ q.cursors = c
      /\ q.auto = p.auto /\ q.mini = p.mini /\ q.timeout = p.timeout /\ q.every = p.every
      /\ q.words = p.words /\ q.tabs = p.tabs /\ q.history = p.history
      /\ q.totals = p.totals
  <2>1. Fielded(p) /\ q = [p EXCEPT !.cursors = c, !.secret = x]
    BY DEF InOrder
  <2> HIDE DEF q
  <2> QED BY <2>1 DEF Fielded, Fields
<1> HIDE DEF q
<1>2. InOrder(q)
  BY <1>1 DEF InOrder, NumbersInOrder, ListsInOrder, MapsInOrder
<1> QED BY <1>2 DEF q

LEMMA PayloadSaves ==
  ASSUME NEW p, InOrder(p), prefsLeft.windows \in BOOLEAN
  PROVE  /\ SavedAs(p, Payload(p)) /\ InOrder(Payload(p))
         /\ \A k \in DOMAIN Payload(p).cursors : Payload(p).cursors[k] <= MaxCursor
<1> DEFINE x == Encoded(p.secret, prefsLeft.windows)
           c == Clamped(p.cursors)
           q == [p EXCEPT !.cursors = c, !.secret = x]
<1>1. \A k \in DOMAIN p.cursors : p.cursors[k] \in Nat \ {0}
  BY DEF InOrder, MapsInOrder
<1>2. {k \in DOMAIN p.cursors : p.cursors[k] > 0} = DOMAIN p.cursors
  BY <1>1
<1>3. Payload(p) = [p EXCEPT !.secret = x, !.cursors = c]
  BY <1>2 DEF Payload, Clamped
<1>4. /\ IsMap(c) /\ DOMAIN c = DOMAIN p.cursors
      /\ \A k \in DOMAIN c : c[k] \in Nat \ {0} /\ c[k] <= MaxCursor
  BY <1>1, ClampedMap
<1>5. Resolved(x, TRUE) = p.secret
  BY SecretReturns
<1>6. SavedAs(p, q) <=> q = [p EXCEPT !.cursors = c, !.secret = q.secret] /\ Resolved(q.secret, TRUE) = p.secret
  BY DEF SavedAs
<1> HIDE DEF x, c
<1>7. Payload(p) = q
  BY <1>3 DEF InOrder, Fielded, Fields
<1>8. InOrder(q)
  BY <1>4, TwoFieldsInOrder
<1>9. q.secret = x /\ q.cursors = c
  <2>1. Fielded(p) /\ q = [p EXCEPT !.cursors = c, !.secret = x]
    BY DEF InOrder
  <2> HIDE DEF q
  <2> QED BY <2>1 DEF Fielded, Fields
<1> QED BY <1>4, <1>5, <1>6, <1>7, <1>8, <1>9

LEMMA LoadedIsFile ==
  ASSUME InFile(prefsFile), NEW canDecrypt
  PROVE  Loaded(prefsFile, canDecrypt) =
           [prefsFile EXCEPT !.secret = Resolved(prefsFile.secret, canDecrypt)]
<1> DEFINE f == prefsFile
<1>1. Between(f.timeout, Timeouts) = f.timeout
  <2>1. f.timeout \in Timeouts.lo..Timeouts.hi
    BY DEF InFile, InOrder, NumbersInOrder
  <2> QED BY <2>1, TimeoutRange DEF Between
<1>2. \A v, d : Parsed({v}, d) = v
  BY DEF Parsed
<1>3. Interval({f.every}, DefaultEvery) = f.every
  <2>1. f.every \in Allowed
    BY DEF InFile, InOrder, NumbersInOrder
  <2> QED BY <1>2, <2>1 DEF Interval
<1>4. FirstDistinct(f.words, MaxWords) = f.words
  <2>1. f.words \in Seq(Texts) /\ Len(f.words) <= MaxWords /\ Distinct(f.words)
    BY DEF InFile, InOrder, ListsInOrder
  <2> QED BY <2>1, DistinctStays, ListLimits
<1>5. Cursors([k \in DOMAIN f.cursors |-> {f.cursors[k]}]) = f.cursors
  <2> DEFINE raw == [k \in DOMAIN f.cursors |-> {f.cursors[k]}]
  <2>1. /\ IsMap(f.cursors) /\ \A k \in DOMAIN f.cursors : f.cursors[k] \in Nat \ {0}
        /\ \A k \in DOMAIN f.cursors : f.cursors[k] <= MaxCursor
    BY DEF InFile, InOrder, MapsInOrder
  <2>2. DOMAIN raw = DOMAIN f.cursors /\ \A k \in DOMAIN raw : Parsed(raw[k], 0) = f.cursors[k]
    BY <1>2
  <2> HIDE DEF raw
  <2>3. {k \in DOMAIN raw : Parsed(raw[k], 0) >= 1} = DOMAIN f.cursors
    BY <2>1, <2>2
  <2>4. Cursors(raw) = Clamped(f.cursors)
    BY <2>2, <2>3 DEF Cursors, Clamped
  <2>5. Clamped(f.cursors) = f.cursors
    BY <2>1, ClampedMap
  <2> QED BY <2>4, <2>5 DEF raw
<1>6. Totals([k \in DOMAIN f.totals |-> {f.totals[k]}]) = f.totals
  <2> DEFINE raw == [k \in DOMAIN f.totals |-> {f.totals[k]}]
  <2>1. IsMap(f.totals) /\ \A k \in DOMAIN f.totals : f.totals[k] \in Nat
    BY DEF InFile, InOrder, MapsInOrder
  <2>2. DOMAIN raw = DOMAIN f.totals /\ \A k \in DOMAIN raw : Parsed(raw[k], 0) = f.totals[k]
    BY <1>2
  <2> HIDE DEF raw
  <2>3. {k \in DOMAIN raw : Parsed(raw[k], 0) >= 0} = DOMAIN f.totals
    BY <2>1, <2>2
  <2>4. Totals(raw) = [k \in DOMAIN f.totals |-> f.totals[k]]
    BY <2>2, <2>3 DEF Totals
  <2> QED BY <2>1, <2>4 DEF raw, IsMap
<1>7. Fielded(f)
  BY DEF InFile, InOrder
<1>8. Loaded(f, canDecrypt) =
        [f EXCEPT !.timeout = f.timeout, !.every = f.every, !.words = f.words,
                  !.cursors = f.cursors, !.totals = f.totals,
                  !.secret = Resolved(f.secret, canDecrypt)]
  <2>1. Loaded(f, canDecrypt) =
          [f EXCEPT !.timeout = Between(f.timeout, Timeouts), !.every = Interval({f.every}, DefaultEvery),
                    !.words = FirstDistinct(f.words, MaxWords),
                    !.cursors = Cursors([k \in DOMAIN f.cursors |-> {f.cursors[k]}]),
                    !.totals = Totals([k \in DOMAIN f.totals |-> {f.totals[k]}]),
                    !.secret = Resolved(f.secret, canDecrypt)]
    BY <1>7 DEF Loaded, Fielded, Fields
  <2> QED BY <1>1, <1>3, <1>4, <1>5, <1>6, <2>1
<1> DEFINE x == Resolved(f.secret, canDecrypt)
<1> HIDE DEF x, f
<1>9. [f EXCEPT !.timeout = f.timeout, !.every = f.every, !.words = f.words,
                !.cursors = f.cursors, !.totals = f.totals, !.secret = x]
        = [f EXCEPT !.secret = x]
  BY <1>7 DEF Fielded, Fields
<1> QED BY <1>8, <1>9 DEF f, x

-----------------------------------------------------------------------------
(* What a file is staged as.                                                *)

(* The tabs a begin the tabs b.                                             *)
Begins(a, b) == Len(a) <= Len(b) /\ \A i \in DOMAIN a : b[i] = a[i]

LEMMA JoinedTabs ==
  ASSUME NEW a \in Seq(Texts), OneEach(a), NEW list \in Seq(Texts)
  PROVE  LET b == a \o FreshKeys(list, TabKeys(a))
         IN b \in Seq(Texts) /\ OneEach(b) /\ Begins(a, b)
<1> DEFINE new == FreshKeys(list, TabKeys(a))
           b == a \o new
<1>1. /\ new \in Seq(Texts)
      /\ \A i \in DOMAIN new : KeyOf[new[i]] \notin TabKeys(a)
      /\ \A i, j \in DOMAIN new : KeyOf[new[i]] = KeyOf[new[j]] => i = j
  BY FreshKeysAre
<1> HIDE DEF new
<1>2. /\ Len(a) \in Nat /\ DOMAIN a = 1..Len(a)
      /\ Len(new) \in Nat /\ DOMAIN new = 1..Len(new)
  BY <1>1, LenProperties
<1>3. /\ b \in Seq(Texts) /\ Len(b) = Len(a) + Len(new)
      /\ \A i \in 1..Len(a) + Len(new) : b[i] = IF i <= Len(a) THEN a[i] ELSE new[i - Len(a)]
  BY <1>1, ConcatProperties
<1> HIDE DEF b
<1>4. DOMAIN b = 1..Len(a) + Len(new)
  BY <1>3, LenProperties
<1>5. \A i \in DOMAIN a : i \in DOMAIN b /\ b[i] = a[i]
  BY <1>2, <1>3, <1>4
<1>6. \A i \in DOMAIN b :
        \/ i \in DOMAIN a /\ b[i] = a[i]
        \/ i - Len(a) \in DOMAIN new /\ b[i] = new[i - Len(a)]
  <2> SUFFICES ASSUME NEW i \in DOMAIN b
               PROVE  \/ i \in DOMAIN a /\ b[i] = a[i]
                      \/ i - Len(a) \in DOMAIN new /\ b[i] = new[i - Len(a)]
    OBVIOUS
  <2>1. i \in Int /\ 1 <= i /\ i <= Len(a) + Len(new)
    BY <1>2, <1>4
  <2>2. b[i] = IF i <= Len(a) THEN a[i] ELSE new[i - Len(a)]
    BY <1>3, <1>4
  <2>3. CASE i <= Len(a)
    BY <1>2, <2>1, <2>2, <2>3
  <2>4. CASE ~ i <= Len(a)
    <3>1. i - Len(a) \in 1..Len(new)
      BY <1>2, <2>1, <2>4
    <3> QED BY <1>2, <2>2, <2>4, <3>1
  <2> QED BY <2>3, <2>4
<1>7. \A i \in DOMAIN a : KeyOf[a[i]] \in TabKeys(a)
  BY DEF TabKeys
<1>8. ASSUME NEW i \in DOMAIN b, NEW j \in DOMAIN b, KeyOf[b[i]] = KeyOf[b[j]]
      PROVE  i = j
  <2>1. CASE i \in DOMAIN a /\ b[i] = a[i]
    <3>1. j \in DOMAIN a /\ b[j] = a[j]
      BY <1>1, <1>6, <1>7, <1>8, <2>1
    <3> QED BY <1>8, <2>1, <3>1 DEF OneEach
  <2>2. CASE i - Len(a) \in DOMAIN new /\ b[i] = new[i - Len(a)]
    <3>1. j - Len(a) \in DOMAIN new /\ b[j] = new[j - Len(a)]
      BY <1>1, <1>6, <1>7, <1>8, <2>2
    <3>2. i - Len(a) = j - Len(a)
      BY <1>1, <1>8, <2>2, <3>1
    <3>3. i \in Int /\ j \in Int
      BY <1>2, <1>4
    <3> QED BY <1>2, <3>2, <3>3
  <2> QED BY <1>6, <2>1, <2>2
<1>9. OneEach(b)
  BY <1>8 DEF OneEach
<1>10. Begins(a, b)
  BY <1>2, <1>3, <1>5 DEF Begins
<1> QED BY <1>3, <1>9, <1>10 DEF b, new

LEMMA MergedHistoryIs ==
  ASSUME NEW own \in Seq(Texts), NEW theirs \in Seq(Texts)
  PROVE  MergedHistory(own, theirs) \in Seq(Texts) /\ Len(MergedHistory(own, theirs)) <= MaxHistory
<1>1. theirs \o own \in Seq(Texts)
  BY ConcatProperties
<1>2. FreshKeys(theirs \o own, {}) \in Seq(Texts)
  BY <1>1, FreshKeysAre
<1> QED BY <1>2, CutList, ListLimits DEF MergedHistory

LEMMA LargestKept ==
  ASSUME NEW least \in Int, NEW own, NEW theirs,
         \A k \in DOMAIN own : own[k] \in Int /\ own[k] >= least,
         \A k \in DOMAIN theirs : theirs[k] \subseteq Int
  PROVE  /\ IsMap(KeepMax(own, theirs, least))
         /\ \A k \in DOMAIN KeepMax(own, theirs, least) :
              KeepMax(own, theirs, least)[k] \in Int /\ KeepMax(own, theirs, least)[k] >= least
<1> DEFINE good == {k \in DOMAIN theirs : theirs[k] # {} /\ Parsed(theirs[k], least) >= least}
           val(k) == IF k \notin good THEN own[k]
                     ELSE IF k \in DOMAIN own /\ own[k] >= Parsed(theirs[k], least) THEN own[k]
                     ELSE Parsed(theirs[k], least)
<1>1. KeepMax(own, theirs, least) = [k \in DOMAIN own \cup good |-> val(k)]
  BY DEF KeepMax
<1>2. \A k \in good : Parsed(theirs[k], least) \in Int /\ Parsed(theirs[k], least) >= least
  BY DEF Parsed
<1>3. \A k \in DOMAIN own \cup good : val(k) \in Int /\ val(k) >= least
  <2> HIDE DEF good
  <2> QED BY <1>2
<1> HIDE DEF val, good
<1> QED BY <1>1, <1>3 DEF IsMap

LEMMA ImportedNumbers ==
  ASSUME NEW f, f.auto \subseteq BOOLEAN, f.mini \subseteq BOOLEAN, f.timeout \subseteq Int,
         f.words \in Seq(Texts), NEW own, NumbersInOrder(own), ListsInOrder(own)
  PROVE  LET set == ImportedSettings(f, own)
         IN /\ set.auto \in BOOLEAN /\ set.mini \in BOOLEAN
            /\ set.timeout \in Timeouts.lo..Timeouts.hi /\ set.every \in Allowed
            /\ set.words \in Seq(Texts) /\ Len(set.words) <= MaxWords /\ Distinct(set.words)
<1> DEFINE set == ImportedSettings(f, own)
           list == IF f.words = <<>> THEN own.words ELSE f.words
<1>1. /\ set.auto = Parsed(f.auto, own.auto) /\ set.mini = Parsed(f.mini, own.mini)
      /\ set.timeout = Between(Parsed(f.timeout, own.timeout), Timeouts)
      /\ set.every = ImportedInterval(f.every, own.every)
      /\ set.words = FirstDistinct(list, MaxWords)
  BY DEF ImportedSettings
<1>2. Parsed(f.auto, own.auto) \in BOOLEAN
  BY DEF Parsed, NumbersInOrder
<1>3. Parsed(f.mini, own.mini) \in BOOLEAN
  BY DEF Parsed, NumbersInOrder
<1>4. Parsed(f.timeout, own.timeout) \in Int
  <2>1. own.timeout \in Int
    BY TimeoutRange DEF NumbersInOrder
  <2> QED BY <2>1 DEF Parsed
<1>5. Between(Parsed(f.timeout, own.timeout), Timeouts) \in Timeouts.lo..Timeouts.hi
  BY <1>4, TimeoutRange DEF Between
<1>6. ImportedInterval(f.every, own.every) \in Allowed
  BY IntervalDefault DEF ImportedInterval, Interval
<1>7. list \in Seq(Texts)
  BY DEF ListsInOrder
<1> HIDE DEF list
<1>8. LET w == FirstDistinct(list, MaxWords)
      IN w \in Seq(Texts) /\ Len(w) <= MaxWords /\ Distinct(w)
  BY <1>7, FirstDistinctIs, ListLimits
<1> QED BY <1>1, <1>2, <1>3, <1>5, <1>6, <1>8

LEMMA StagedInOrder ==
  ASSUME InOrder(prefs), NEW f \in ImportFiles, prefsLeft.tray \in BOOLEAN
  PROVE  InOrder(Staged(f)) /\ Begins(prefs.tabs, Staged(f).tabs)
<1> DEFINE mine == [f EXCEPT !.auto = IF f.foreign THEN {FALSE : x \in @} ELSE @]
           set == ImportedSettings(mine, prefs)
           tabs == prefs.tabs \o FreshKeys(f.tabs, TabKeys(prefs.tabs))
           history == MergedHistory(prefs.history, f.history)
           cursors == KeepMax(prefs.cursors, f.cursors, 1)
           totals == KeepMax(prefs.totals, f.totals, 0)
           mini == set.mini /\ prefsLeft.tray
           q == Staged(f)
<1>1. /\ q.auto = set.auto /\ q.mini = mini /\ q.timeout = set.timeout
      /\ q.every = set.every /\ q.words = set.words /\ q.tabs = tabs /\ q.history = history
      /\ q.cursors = cursors /\ q.totals = totals
  BY DEF Staged
<1>2. Fielded(q)
  BY DEF Fielded, Fields, Staged
<1>3. /\ {"auto", "mini", "timeout", "every", "words"} \subseteq DOMAIN f
      /\ f.auto \subseteq BOOLEAN /\ f.mini \subseteq BOOLEAN /\ f.timeout \subseteq Int
      /\ f.words \in Seq(Texts) /\ f.tabs \in Seq(Texts) /\ f.history \in Seq(Texts)
      /\ \A k \in DOMAIN f.cursors : f.cursors[k] \subseteq Int
      /\ \A k \in DOMAIN f.totals : f.totals[k] \subseteq Int
  BY ImportFilesTyped
<1>4. /\ mine.mini = f.mini /\ mine.timeout = f.timeout /\ mine.words = f.words
      /\ mine.auto \subseteq BOOLEAN
  BY <1>3
<1>5. /\ set.auto \in BOOLEAN /\ set.mini \in BOOLEAN
      /\ set.timeout \in Timeouts.lo..Timeouts.hi /\ set.every \in Allowed
      /\ set.words \in Seq(Texts) /\ Len(set.words) <= MaxWords /\ Distinct(set.words)
  <2> HIDE DEF mine
  <2> QED BY <1>3, <1>4, ImportedNumbers DEF InOrder
<1>6. tabs \in Seq(Texts) /\ OneEach(tabs) /\ Begins(prefs.tabs, tabs)
  BY <1>3, JoinedTabs DEF InOrder, ListsInOrder
<1>7. history \in Seq(Texts) /\ Len(history) <= MaxHistory
  BY <1>3, MergedHistoryIs DEF InOrder, ListsInOrder
<1>8. IsMap(cursors) /\ \A k \in DOMAIN cursors : cursors[k] \in Int /\ cursors[k] >= 1
  <2>1. \A k \in DOMAIN prefs.cursors : prefs.cursors[k] \in Int /\ prefs.cursors[k] >= 1
    BY DEF InOrder, MapsInOrder
  <2> QED BY <1>3, <2>1, LargestKept
<1>9. IsMap(totals) /\ \A k \in DOMAIN totals : totals[k] \in Int /\ totals[k] >= 0
  <2>1. \A k \in DOMAIN prefs.totals : prefs.totals[k] \in Int /\ prefs.totals[k] >= 0
    BY DEF InOrder, MapsInOrder
  <2> QED BY <1>3, <2>1, LargestKept
<1>10. mini \in BOOLEAN
  BY <1>5
<1> HIDE DEF set, tabs, history, cursors, totals, mini, q
<1>11. NumbersInOrder(q)
  BY <1>1, <1>5, <1>10 DEF NumbersInOrder
<1>12. ListsInOrder(q)
  BY <1>1, <1>5, <1>6, <1>7 DEF ListsInOrder
<1>13. MapsInOrder(q)
  BY <1>1, <1>8, <1>9 DEF MapsInOrder
<1> QED BY <1>1, <1>2, <1>6, <1>11, <1>12, <1>13 DEF InOrder, q

-----------------------------------------------------------------------------
(* What the file holds.                                                     *)

PlanKept ==
  /\ {"windows", "tray"} \subseteq DOMAIN prefsLeft
  /\ prefsLeft.windows \in BOOLEAN /\ prefsLeft.tray \in BOOLEAN

(* An import is of whole settings, and goes through the new tabs one by one. *)
ImportInOrder(i) ==
  i.at # "none" => InOrder(i.old) /\ InOrder(i.new) /\ Begins(i.old.tabs, i.new.tabs)
HalfAdded(i, p) ==
  i.at = "adding" => /\ Begins(i.old.tabs, p.tabs) /\ Begins(p.tabs, i.new.tabs)
                     /\ p = [i.new EXCEPT !.tabs = p.tabs]

(* Which settings the file holds at each step of an import.                 *)
FileHolds(i, p, file, apart) ==
  /\ ~ apart /\ i.at \in {"none", "staged"} => SavedAs(p, file)
  /\ i.at \in {"saved", "adding"} => SavedAs(i.new, file)
  /\ i.at = "applied" => SavedAs(p, file)

WholeInv ==
  /\ PlanKept /\ registry \in {"none", "plain", "minimized"}
  /\ InOrder(prefs) /\ InFile(prefsFile)
  /\ ImportInOrder(import) /\ HalfAdded(import, prefs)
  /\ FileHolds(import, prefs, prefsFile, drift)

LEMMA PlanStays ==
  ASSUME PlanKept, NEW what \in {"imports", "faults", "starts"}, PrefsSpend(what)
  PROVE  PlanKept'
BY DEF PlanKept, PrefsSpend

LEMMA WholeAtStart == PrefsInit => WholeInv
<1> SUFFICES ASSUME PrefsInit PROVE WholeInv
  OBVIOUS
<1>1. /\ prefsLeft \in PrefsPlans /\ import = NoImport
      /\ registry = IF prefs.auto THEN Command(prefs) ELSE "none"
  BY DEF PrefsInit
<1>2. PlanKept
  BY <1>1, PrefsPlansTyped DEF PlanKept
<1> DEFINE tabs == prefsLeft.tabs
           first == [k \in TabKeys(tabs) |-> 1]
           history == AtMost(MaxHistory, tabs)
<1>3. tabs \in Seq(Texts) /\ OneEach(tabs)
  BY <1>1, PrefsPlansTyped, OneTabPerKey DEF OneEach
<1>3a. history \in Seq(Texts) /\ Len(history) <= MaxHistory
  BY <1>3, CutList, ListLimits
<1>4. PICK auto \in BOOLEAN, mini \in BOOLEAN :
        prefs = [auto |-> auto, mini |-> mini, timeout |-> Timeouts.lo, every |-> DefaultEvery,
                 words |-> <<>>, tabs |-> tabs, history |-> history,
                 cursors |-> first, totals |-> first, policies |-> <<>>, secret |-> "s"]
  BY DEF PrefsInit
<1>5. IsMap(first) /\ \A k \in DOMAIN first : first[k] = 1
  BY DEF IsMap
<1> HIDE DEF tabs, first, history
<1>6. InOrder(prefs)
  <2>1. Fielded(prefs)
    BY <1>4 DEF Fielded, Fields
  <2>2. NumbersInOrder(prefs)
    BY <1>4, TimeoutRange, IntervalDefault DEF NumbersInOrder
  <2>3. <<>> \in Seq(Texts) /\ Len(<<>>) <= MaxWords /\ Distinct(<<>>)
    BY ListLimits DEF Distinct
  <2>4. ListsInOrder(prefs)
    BY <1>3, <1>4, <1>3a, <2>3 DEF ListsInOrder
  <2>5. MapsInOrder(prefs)
    BY <1>4, <1>5 DEF MapsInOrder
  <2> QED BY <2>1, <2>2, <2>4, <2>5 DEF InOrder
<1>7. PICK encrypted \in BOOLEAN :
        prefsFile = [Payload(prefs) EXCEPT !.secret = Encoded("s", encrypted /\ prefsLeft.windows)]
  BY DEF PrefsInit
<1>8. SavedAs(prefs, prefsFile) /\ InFile(prefsFile)
  <2> DEFINE saved == Payload(prefs)
             c == Clamped(prefs.cursors)
             x == Encoded("s", encrypted /\ prefsLeft.windows)
  <2>1. /\ SavedAs(prefs, saved) /\ InOrder(saved)
        /\ \A k \in DOMAIN saved.cursors : saved.cursors[k] <= MaxCursor
    BY <1>2, <1>6, PayloadSaves DEF PlanKept
  <2>2. Resolved(x, TRUE) = "s"
    <3>1. (encrypted /\ prefsLeft.windows) \in BOOLEAN
      BY <1>2 DEF PlanKept
    <3> QED BY <3>1, SecretReturns
  <2>3. saved = [prefs EXCEPT !.cursors = c, !.secret = saved.secret] /\ Fielded(prefs)
    BY <1>6, <2>1 DEF SavedAs, InOrder
  <2>4. prefsFile = [saved EXCEPT !.secret = x]
    BY <1>7
  <2> HIDE DEF saved, c, x
  <2>5. /\ prefsFile = [prefs EXCEPT !.cursors = c, !.secret = x]
        /\ prefsFile = [saved EXCEPT !.cursors = saved.cursors, !.secret = x]
        /\ prefsFile.secret = x /\ prefsFile.cursors = saved.cursors /\ prefs.secret = "s"
    BY <1>4, <2>3, <2>4 DEF Fielded, Fields
  <2>6. SavedAs(prefs, prefsFile)
    BY <2>2, <2>5 DEF SavedAs, c
  <2>7. InOrder(prefsFile)
    <3>1. IsMap(saved.cursors) /\ \A k \in DOMAIN saved.cursors : saved.cursors[k] \in Nat \ {0}
      BY <2>1 DEF InOrder, MapsInOrder
    <3>2. InOrder([saved EXCEPT !.cursors = saved.cursors, !.secret = x])
      BY <2>1, <3>1, TwoFieldsInOrder
    <3> QED BY <2>5, <3>2
  <2> QED BY <2>1, <2>5, <2>6, <2>7 DEF InFile
<1>9. registry \in {"none", "plain", "minimized"}
  BY <1>1 DEF Command
<1> QED
  BY <1>1, <1>2, <1>6, <1>8, <1>9 DEF WholeInv, ImportInOrder, HalfAdded, FileHolds, NoImport


-----------------------------------------------------------------------------
(* The steps.                                                               *)

LEMMA SwitchesInOrder ==
  ASSUME NEW p, InOrder(p), NEW a \in BOOLEAN, NEW m \in BOOLEAN
  PROVE  InOrder([p EXCEPT !.auto = a, !.mini = m])
<1> DEFINE q == [p EXCEPT !.auto = a, !.mini = m]
<1>1. /\ Fielded(q) /\ q.auto = a /\ q.mini = m
      /\ q.timeout = p.timeout /\ q.every = p.every /\ q.words = p.words /\ q.tabs = p.tabs
      /\ q.history = p.history /\ q.cursors = p.cursors /\ q.totals = p.totals
  <2>1. Fielded(p) /\ q = [p EXCEPT !.auto = a, !.mini = m]
    BY DEF InOrder
  <2> HIDE DEF q
  <2> QED BY <2>1 DEF Fielded, Fields
<1> HIDE DEF q
<1>2. InOrder(q)
  BY <1>1 DEF InOrder, NumbersInOrder, ListsInOrder, MapsInOrder
<1> QED BY <1>2 DEF q

LEMMA AutoInOrder ==
  ASSUME NEW p, InOrder(p), NEW a \in BOOLEAN
  PROVE  InOrder([p EXCEPT !.auto = a]) /\ (a = p.auto => [p EXCEPT !.auto = a] = p)
<1>1. Fielded(p) /\ p.mini \in BOOLEAN
  BY DEF InOrder, NumbersInOrder
<1>2. [p EXCEPT !.auto = a] = [p EXCEPT !.auto = a, !.mini = p.mini]
  BY <1>1 DEF Fielded, Fields
<1>3. InOrder([p EXCEPT !.auto = a, !.mini = p.mini])
  BY <1>1, SwitchesInOrder
<1>4. a = p.auto => [p EXCEPT !.auto = a] = p
  BY <1>1 DEF Fielded, Fields
<1> QED BY <1>2, <1>3, <1>4

LEMMA TabsInOrder ==
  ASSUME NEW p, InOrder(p), NEW t \in Seq(Texts), OneEach(t)
  PROVE  LET q == [p EXCEPT !.tabs = t]
         IN InOrder(q) /\ q.tabs = t /\ q = [p EXCEPT !.tabs = q.tabs]
<1> DEFINE q == [p EXCEPT !.tabs = t]
<1>1. /\ Fielded(q) /\ q.tabs = t /\ q.auto = p.auto /\ q.mini = p.mini
      /\ q.timeout = p.timeout /\ q.every = p.every /\ q.words = p.words
      /\ q.history = p.history /\ q.cursors = p.cursors /\ q.totals = p.totals
      /\ q = [p EXCEPT !.tabs = t]
  <2>1. Fielded(p) /\ q = [p EXCEPT !.tabs = t]
    BY DEF InOrder
  <2> HIDE DEF q
  <2> QED BY <2>1 DEF Fielded, Fields
<1> HIDE DEF q
<1>2. InOrder(q)
  BY <1>1 DEF InOrder, NumbersInOrder, ListsInOrder, MapsInOrder
<1>3. q = [p EXCEPT !.tabs = q.tabs]
  BY <1>1
<1> QED BY <1>1, <1>2, <1>3 DEF q

LEMMA ImportMoves ==
  ASSUME PrefsShaped, import.at # "none", NEW at, import' = [import EXCEPT !.at = at]
  PROVE  import'.at = at /\ import'.old = import.old /\ import'.new = import.new
BY DEF PrefsShaped, NoImport

(* What is saved is the present settings, or those an import brings.        *)
LEMMA SavedInFile ==
  ASSUME NEW p, InOrder(p), PlanKept
  PROVE  SavedAs(p, Payload(p)) /\ InFile(Payload(p))
BY PayloadSaves DEF PlanKept, InFile

LEMMA StartImportWhole ==
  ASSUME PrefsInv, WholeInv, StartImportSettings
  PROVE  WholeInv'
<1>1. PICK f \in ImportFiles : import' = [at |-> "staged", old |-> prefs, new |-> Staged(f)]
  BY DEF StartImportSettings
<1>2. /\ import.at = "none" /\ UNCHANGED <<prefs, prefsFile, registry, drift>>
      /\ PrefsSpend("imports")
  BY DEF StartImportSettings, NoImport
<1>3. PlanKept'
  BY <1>2, PlanStays DEF WholeInv
<1>4. InOrder(Staged(f)) /\ Begins(prefs.tabs, Staged(f).tabs)
  BY StagedInOrder DEF WholeInv, PlanKept
<1> DEFINE new == Staged(f)
<1> HIDE DEF new
<1>5. import'.at = "staged" /\ import'.old = prefs /\ import'.new = new
  BY <1>1 DEF new
<1>6. ImportInOrder(import')
  BY <1>4, <1>5 DEF ImportInOrder, WholeInv, new
<1>7. HalfAdded(import', prefs') /\ FileHolds(import', prefs', prefsFile', drift')
  BY <1>2, <1>5 DEF WholeInv, HalfAdded, FileHolds
<1> QED BY <1>2, <1>3, <1>6, <1>7 DEF WholeInv

LEMMA SaveStagedWhole ==
  ASSUME PrefsInv, WholeInv, SaveStaged \/ SaveStagedFails
  PROVE  WholeInv'
<1>1. CASE SaveStaged
  <2>1. /\ import.at = "staged" /\ prefsFile' = Payload(import.new)
        /\ UNCHANGED <<prefs, registry, drift, prefsLeft>>
    BY <1>1 DEF SaveStaged
  <2>2. import'.at = "saved" /\ import'.old = import.old /\ import'.new = import.new
    BY <1>1, <2>1, ImportMoves DEF SaveStaged, PrefsInv
  <2>3. InOrder(import.new) /\ PlanKept
    BY <2>1 DEF WholeInv, ImportInOrder
  <2>4. SavedAs(import.new, prefsFile') /\ InFile(prefsFile')
    BY <2>1, <2>3, SavedInFile
  <2>5. ImportInOrder(import') /\ HalfAdded(import', prefs')
    BY <2>1, <2>2 DEF WholeInv, ImportInOrder, HalfAdded
  <2>6. FileHolds(import', prefs', prefsFile', drift')
    BY <2>2, <2>4 DEF FileHolds
  <2> QED BY <2>1, <2>4, <2>5, <2>6 DEF WholeInv, PlanKept
<1>2. CASE SaveStagedFails
  <2>1. /\ import.at = "staged" /\ import'.at = "none" /\ PrefsSpend("faults")
        /\ UNCHANGED <<prefs, prefsFile, registry, drift>>
    BY <1>2 DEF SaveStagedFails, NoImport
  <2>2. PlanKept'
    BY <2>1, PlanStays DEF WholeInv
  <2>3. ImportInOrder(import') /\ HalfAdded(import', prefs')
    BY <2>1 DEF ImportInOrder, HalfAdded
  <2>4. FileHolds(import', prefs', prefsFile', drift')
    BY <2>1 DEF WholeInv, FileHolds
  <2> QED BY <2>1, <2>2, <2>3, <2>4 DEF WholeInv
<1> QED BY <1>1, <1>2

LEMMA ApplyFieldsWhole ==
  ASSUME PrefsInv, WholeInv, ApplyFields
  PROVE  WholeInv'
<1> DEFINE old == import.old
           new == import.new
<1>1. /\ import.at = "saved" /\ prefs' = [new EXCEPT !.tabs = old.tabs]
      /\ UNCHANGED <<prefsFile, registry, drift, prefsLeft>>
  BY DEF ApplyFields
<1>2. import'.at = "adding" /\ import'.old = old /\ import'.new = new
  BY <1>1, ImportMoves DEF ApplyFields, PrefsInv
<1>3. InOrder(old) /\ InOrder(new) /\ Begins(old.tabs, new.tabs)
  BY <1>1 DEF WholeInv, ImportInOrder
<1>4. old.tabs \in Seq(Texts) /\ OneEach(old.tabs)
  BY <1>3 DEF InOrder, ListsInOrder
<1>5. SavedAs(new, prefsFile')
  BY <1>1 DEF WholeInv, FileHolds
<1> HIDE DEF old, new
<1>6. InOrder(prefs') /\ prefs'.tabs = old.tabs /\ prefs' = [new EXCEPT !.tabs = prefs'.tabs]
  BY <1>1, <1>3, <1>4, TabsInOrder
<1>7. Begins(old.tabs, old.tabs)
  <2>1. Len(old.tabs) \in Nat
    BY <1>4, LenProperties
  <2> QED BY <2>1 DEF Begins
<1>8. ImportInOrder(import') /\ HalfAdded(import', prefs')
  BY <1>2, <1>3, <1>6, <1>7 DEF ImportInOrder, HalfAdded
<1>9. FileHolds(import', prefs', prefsFile', drift')
  BY <1>2, <1>5 DEF FileHolds
<1> QED BY <1>1, <1>6, <1>8, <1>9 DEF WholeInv, PlanKept


(* A list that begins another one has a next element there.                 *)
LEMMA NextTab ==
  ASSUME NEW a \in Seq(Texts), NEW b \in Seq(Texts), Begins(a, b), a # b
  PROVE  Len(a) < Len(b) /\ Len(a) + 1 \in DOMAIN b
<1>1. Len(a) \in Nat /\ Len(b) \in Nat /\ DOMAIN a = 1..Len(a) /\ DOMAIN b = 1..Len(b)
  BY LenProperties
<1>2. Len(a) # Len(b)
  <2> SUFFICES ASSUME Len(a) = Len(b) PROVE FALSE
    OBVIOUS
  <2>1. \A i \in 1..Len(a) : a[i] = b[i]
    BY <1>1 DEF Begins
  <2> QED BY <2>1, SeqEqual
<1>3. Len(a) <= Len(b)
  BY DEF Begins
<1>4. \A m, n \in Nat : m <= n /\ m # n => m < n /\ m + 1 \in 1..n
  OBVIOUS
<1>5. Len(a) < Len(b) /\ Len(a) + 1 \in 1..Len(b)
  BY <1>1, <1>2, <1>3, <1>4
<1> QED BY <1>1, <1>5

LEMMA AddTabWhole ==
  ASSUME PrefsInv, WholeInv, AddImportedTab
  PROVE  WholeInv'
<1> DEFINE old == import.old
           new == import.new
           tabs == SubSeq(new.tabs, 1, Len(prefs.tabs) + 1)
<1>1. /\ import.at = "adding" /\ prefs.tabs # new.tabs
      /\ UNCHANGED <<prefsFile, registry, import, drift, prefsLeft>>
  BY DEF AddImportedTab
<1>2. prefs' = [prefs EXCEPT !.tabs = tabs]
  BY DEF AddImportedTab
<1>3. /\ InOrder(prefs) /\ InOrder(old) /\ InOrder(new) /\ Begins(old.tabs, prefs.tabs)
      /\ Begins(prefs.tabs, new.tabs) /\ prefs = [new EXCEPT !.tabs = prefs.tabs]
  BY <1>1 DEF WholeInv, ImportInOrder, HalfAdded
<1>4. /\ prefs.tabs \in Seq(Texts) /\ old.tabs \in Seq(Texts) /\ new.tabs \in Seq(Texts)
      /\ OneEach(new.tabs)
  BY <1>3 DEF InOrder, ListsInOrder
<1>5. /\ Len(prefs.tabs) \in Nat /\ Len(new.tabs) \in Nat /\ Len(old.tabs) \in Nat
      /\ DOMAIN new.tabs = 1..Len(new.tabs) /\ DOMAIN old.tabs = 1..Len(old.tabs)
      /\ DOMAIN prefs.tabs = 1..Len(prefs.tabs)
  BY <1>4, LenProperties
<1>6. Len(prefs.tabs) + 1 \in 0..Len(new.tabs)
  BY <1>1, <1>3, <1>4, <1>5, NextTab
<1>7. /\ tabs \in Seq(Texts) /\ Len(tabs) = Len(prefs.tabs) + 1 /\ DOMAIN tabs \subseteq DOMAIN new.tabs
      /\ \A n \in DOMAIN tabs : tabs[n] = new.tabs[n]
  BY <1>4, <1>6, Beginning
<1> HIDE DEF tabs
<1>8. OneEach(tabs) /\ Begins(tabs, new.tabs)
  <2>1. Len(tabs) <= Len(new.tabs)
    BY <1>5, <1>6, <1>7
  <2> QED BY <1>4, <1>7, <2>1 DEF OneEach, Begins
<1>9. Begins(old.tabs, tabs)
  <2>1. DOMAIN tabs = 1..Len(prefs.tabs) + 1
    BY <1>7, LenProperties
  <2>2. Len(old.tabs) <= Len(prefs.tabs) /\ \A i \in DOMAIN old.tabs : prefs.tabs[i] = old.tabs[i]
    BY <1>3 DEF Begins
  <2>3. \A i \in DOMAIN old.tabs : i \in DOMAIN prefs.tabs /\ i \in DOMAIN tabs
    BY <1>5, <2>1, <2>2
  <2>4. \A i \in DOMAIN old.tabs : tabs[i] = old.tabs[i]
    BY <1>3, <1>7, <2>2, <2>3 DEF Begins
  <2> QED BY <1>5, <1>7, <2>2, <2>4 DEF Begins
<1>10. InOrder(prefs') /\ prefs'.tabs = tabs
  BY <1>2, <1>3, <1>7, <1>8, TabsInOrder
<1>11. prefs' = [new EXCEPT !.tabs = prefs'.tabs]
  <2> HIDE DEF new
  <2>1. Fielded(new)
    BY <1>3 DEF InOrder
  <2>2. prefs' = [[new EXCEPT !.tabs = prefs.tabs] EXCEPT !.tabs = tabs]
    BY <1>2, <1>3
  <2> QED BY <1>10, <2>1, <2>2 DEF Fielded, Fields
<1>12. HalfAdded(import', prefs') /\ ImportInOrder(import')
  BY <1>1, <1>8, <1>9, <1>10, <1>11 DEF HalfAdded, WholeInv
<1>13. FileHolds(import', prefs', prefsFile', drift')
  BY <1>1 DEF WholeInv, FileHolds
<1> QED BY <1>1, <1>10, <1>12, <1>13 DEF WholeInv, PlanKept

(* An import that fails halfway leaves the old settings, at worst with a    *)
(* tab that was already shown.                                              *)
LEMMA ApplyFailsWhole ==
  ASSUME PrefsInv, WholeInv, ApplyFails
  PROVE  WholeInv'
<1> DEFINE old == import.old
           new == import.new
           text == new.tabs[Len(prefs.tabs) + 1]
           tabs == Append(old.tabs, text)
<1>1. PICK saved \in BOOLEAN, late \in BOOLEAN :
        /\ late => prefs.tabs # new.tabs
        /\ prefs' = IF late THEN [old EXCEPT !.tabs = tabs] ELSE old
        /\ prefsFile' = IF saved THEN Payload(old) ELSE prefsFile
        /\ drift' = (~ saved \/ late)
  BY DEF ApplyFails
<1>2. /\ import.at = "adding" /\ import'.at = "none" /\ PrefsSpend("faults") /\ registry' = registry
  BY DEF ApplyFails, NoImport
<1>3. /\ InOrder(prefs) /\ InOrder(old) /\ InOrder(new) /\ Begins(old.tabs, prefs.tabs)
      /\ Begins(prefs.tabs, new.tabs) /\ Begins(old.tabs, new.tabs)
  BY <1>2 DEF WholeInv, ImportInOrder, HalfAdded
<1>4. PlanKept'
  BY <1>2, PlanStays DEF WholeInv
<1>5. InOrder(prefs')
  <2>1. CASE late
    <3>1. /\ prefs.tabs \in Seq(Texts) /\ old.tabs \in Seq(Texts) /\ new.tabs \in Seq(Texts)
          /\ OneEach(new.tabs) /\ OneEach(old.tabs)
      BY <1>3 DEF InOrder, ListsInOrder
    <3>2. /\ Len(prefs.tabs) \in Nat /\ Len(new.tabs) \in Nat /\ Len(old.tabs) \in Nat
          /\ DOMAIN new.tabs = 1..Len(new.tabs) /\ DOMAIN old.tabs = 1..Len(old.tabs)
      BY <3>1, LenProperties
    <3>3. Len(prefs.tabs) + 1 \in DOMAIN new.tabs
      BY <1>1, <1>3, <2>1, <3>1, NextTab
    <3>4. text \in Texts
      BY <3>1, <3>3
    <3>5. /\ tabs \in Seq(Texts) /\ Len(tabs) = Len(old.tabs) + 1
          /\ \A i \in 1..Len(old.tabs) : tabs[i] = old.tabs[i]
          /\ tabs[Len(old.tabs) + 1] = text
      BY <3>1, <3>4, AppendProperties
    <3> HIDE DEF tabs
    <3>6. DOMAIN tabs = 1..Len(old.tabs) + 1
      BY <3>5, LenProperties
    <3>7. /\ Len(old.tabs) <= Len(prefs.tabs)
          /\ \A i \in DOMAIN old.tabs : i \in DOMAIN new.tabs /\ new.tabs[i] = old.tabs[i]
      BY <1>3, <3>2 DEF Begins
    <3>8. \A i \in DOMAIN old.tabs : i # Len(prefs.tabs) + 1
      BY <3>2, <3>7
    <3>9. \A i \in DOMAIN old.tabs : KeyOf[old.tabs[i]] # KeyOf[text]
      BY <3>1, <3>3, <3>7, <3>8 DEF OneEach
    <3>10. \A i \in DOMAIN tabs : i \in DOMAIN old.tabs \/ i = Len(old.tabs) + 1
      BY <3>2, <3>6
    <3> HIDE DEF text
    <3>11. \A i, j \in DOMAIN tabs : KeyOf[tabs[i]] = KeyOf[tabs[j]] => i = j
      <4> SUFFICES ASSUME NEW i \in DOMAIN tabs, NEW j \in DOMAIN tabs,
                          KeyOf[tabs[i]] = KeyOf[tabs[j]]
                   PROVE  i = j
        OBVIOUS
      <4>1. CASE i \in DOMAIN old.tabs
        <5>1. tabs[i] = old.tabs[i]
          BY <3>2, <3>5, <4>1
        <5>2. j \in DOMAIN old.tabs
          BY <3>5, <3>9, <3>10, <4>1, <5>1
        <5> QED BY <3>1, <3>2, <3>5, <4>1, <5>1, <5>2 DEF OneEach
      <4>2. CASE i = Len(old.tabs) + 1
        <5>1. KeyOf[tabs[j]] = KeyOf[text]
          BY <3>5, <4>2
        <5>2. j \notin DOMAIN old.tabs
          BY <3>2, <3>5, <3>9, <5>1
        <5> QED BY <3>10, <4>2, <5>2
      <4> QED BY <3>10, <4>1, <4>2
    <3>12. OneEach(tabs)
      BY <3>11 DEF OneEach
    <3> HIDE DEF old
    <3>13. prefs' = [old EXCEPT !.tabs = tabs]
      BY <1>1, <2>1
    <3> QED BY <1>3, <3>5, <3>12, <3>13, TabsInOrder
  <2>2. CASE ~ late
    BY <1>1, <1>3, <2>2
  <2> QED BY <2>1, <2>2
<1>6. InFile(prefsFile')
  BY <1>1, <1>3, SavedInFile DEF WholeInv
<1>7. ~ drift' => SavedAs(prefs', prefsFile')
  <2> SUFFICES ASSUME ~ drift' PROVE SavedAs(prefs', prefsFile')
    OBVIOUS
  <2>1. saved /\ ~ late
    BY <1>1
  <2>2. prefs' = old /\ prefsFile' = Payload(old)
    BY <1>1, <2>1
  <2> QED BY <1>3, <2>2, SavedInFile DEF WholeInv
<1>8. ImportInOrder(import') /\ HalfAdded(import', prefs')
  BY <1>2 DEF ImportInOrder, HalfAdded
<1>9. FileHolds(import', prefs', prefsFile', drift')
  BY <1>2, <1>7 DEF FileHolds
<1> QED BY <1>2, <1>4, <1>5, <1>6, <1>8, <1>9 DEF WholeInv


LEMMA FinishApplyWhole ==
  ASSUME PrefsInv, WholeInv, FinishApply
  PROVE  WholeInv'
<1>1. /\ import.at = "adding" /\ prefs.tabs = import.new.tabs
      /\ UNCHANGED <<prefs, prefsFile, registry, drift, prefsLeft>>
  BY DEF FinishApply
<1>2. import'.at = "applied" /\ import'.old = import.old /\ import'.new = import.new
  BY <1>1, ImportMoves DEF FinishApply, PrefsInv
<1>3. ImportInOrder(import') /\ HalfAdded(import', prefs')
  BY <1>1, <1>2 DEF WholeInv, ImportInOrder, HalfAdded
<1> DEFINE new == import.new
<1>4. prefs = new
  <2>1. InOrder(new) /\ prefs = [new EXCEPT !.tabs = prefs.tabs] /\ prefs.tabs = new.tabs
    BY <1>1 DEF WholeInv, ImportInOrder, HalfAdded
  <2> HIDE DEF new
  <2> QED BY <2>1 DEF InOrder, Fielded, Fields
<1>5. FileHolds(import', prefs', prefsFile', drift')
  BY <1>1, <1>2, <1>4 DEF WholeInv, FileHolds
<1> QED BY <1>1, <1>3, <1>5 DEF WholeInv, PlanKept

(* Asking the system changes no settings but the switch, and no file.       *)
LEMMA EntryTyped ==
  ASSUME NEW want, NEW mini, NEW out \in Outcomes(want, mini), Follow(out), PlanKept,
         registry \in {"none", "plain", "minimized"}
  PROVE  out.flag \in BOOLEAN /\ PlanKept' /\ registry' \in {"none", "plain", "minimized"}
<1> DEFINE asked == IF mini THEN "minimized" ELSE "plain"
           entry(obeys) == IF ~ obeys THEN registry ELSE IF want THEN asked ELSE "none"
<1>1. PICK o \in BOOLEAN :
        out = [obeys |-> o, entry |-> entry(o), flag |-> entry(o) = IF want THEN asked ELSE "plain"]
  BY DEF Outcomes
<1>2. entry(o) \in {"none", "plain", "minimized"}
  OBVIOUS
<1>3. registry' = entry(o) /\ out.flag \in BOOLEAN
  BY <1>1 DEF Follow
<1>4. PlanKept'
  BY DEF Follow, PlanKept
<1> QED BY <1>2, <1>3, <1>4

LEMMA ReconcileWhole ==
  ASSUME PrefsInv, WholeInv, Reconcile \/ ReconcileWithoutEntries
  PROVE  WholeInv'
<1>1. import.at = "applied" /\ UNCHANGED <<prefsFile, drift>>
  BY DEF Reconcile, ReconcileWithoutEntries
<1>2. PICK flag \in BOOLEAN :
        /\ prefs' = [prefs EXCEPT !.auto = flag] /\ import' = Closed(flag)
        /\ PlanKept' /\ registry' \in {"none", "plain", "minimized"}
  <2>1. CASE Reconcile
    <3>1. PICK out \in Outcomes(prefs.auto, prefs.mini) :
            Follow(out) /\ prefs' = [prefs EXCEPT !.auto = out.flag] /\ import' = Closed(out.flag)
      BY <2>1 DEF Reconcile
    <3>2. out.flag \in BOOLEAN /\ PlanKept' /\ registry' \in {"none", "plain", "minimized"}
      BY <3>1, EntryTyped DEF WholeInv
    <3> QED BY <3>1, <3>2
  <2>2. CASE ReconcileWithoutEntries
    <3>1. /\ prefs' = [prefs EXCEPT !.auto = FALSE] /\ import' = Closed(FALSE)
          /\ UNCHANGED <<registry, prefsLeft>>
      BY <2>2 DEF ReconcileWithoutEntries
    <3> QED BY <3>1 DEF WholeInv, PlanKept
  <2> QED BY <2>1, <2>2
<1>3. InOrder(prefs') /\ (flag = prefs.auto => prefs' = prefs)
  BY <1>2, AutoInOrder DEF WholeInv
<1>4. CASE flag = prefs.auto
  <2>1. import'.at = "none" /\ prefs' = prefs
    BY <1>2, <1>3, <1>4 DEF Closed, NoImport
  <2>2. FileHolds(import', prefs', prefsFile', drift')
    BY <1>1, <2>1 DEF WholeInv, FileHolds
  <2>3. ImportInOrder(import') /\ HalfAdded(import', prefs')
    BY <2>1 DEF ImportInOrder, HalfAdded
  <2> QED BY <1>1, <1>2, <1>3, <2>2, <2>3 DEF WholeInv
<1>5. CASE flag # prefs.auto
  <2>1. import' = [import EXCEPT !.at = "correcting"]
    BY <1>2, <1>5 DEF Closed
  <2>2. import'.at = "correcting" /\ import'.old = import.old /\ import'.new = import.new
    BY <1>1, <2>1, ImportMoves DEF PrefsInv
  <2>3. FileHolds(import', prefs', prefsFile', drift')
    BY <2>2 DEF FileHolds
  <2>4. ImportInOrder(import') /\ HalfAdded(import', prefs')
    BY <1>1, <2>2 DEF WholeInv, ImportInOrder, HalfAdded
  <2> QED BY <1>1, <1>2, <1>3, <2>3, <2>4 DEF WholeInv
<1> QED BY <1>4, <1>5

LEMMA CorrectWhole ==
  ASSUME PrefsInv, WholeInv, Correct \/ CorrectFails
  PROVE  WholeInv'
<1>1. import.at = "correcting" /\ import'.at = "none" /\ UNCHANGED <<prefs, registry>>
  BY DEF Correct, CorrectFails, NoImport
<1>2. ImportInOrder(import') /\ HalfAdded(import', prefs')
  BY <1>1 DEF ImportInOrder, HalfAdded
<1>3. CASE Correct
  <2>1. prefsFile' = Payload(prefs) /\ prefsLeft' = prefsLeft
    BY <1>3 DEF Correct
  <2>2. SavedAs(prefs, prefsFile') /\ InFile(prefsFile')
    BY <2>1, SavedInFile DEF WholeInv
  <2>3. FileHolds(import', prefs', prefsFile', drift')
    BY <1>1, <2>2 DEF FileHolds
  <2> QED BY <1>1, <1>2, <2>1, <2>2, <2>3 DEF WholeInv, PlanKept
<1>4. CASE CorrectFails
  <2>1. drift' = TRUE /\ prefsFile' = prefsFile /\ PrefsSpend("faults")
    BY <1>4 DEF CorrectFails
  <2>2. PlanKept'
    BY <2>1, PlanStays DEF WholeInv
  <2>3. FileHolds(import', prefs', prefsFile', drift')
    BY <1>1, <2>1 DEF FileHolds
  <2> QED BY <1>1, <1>2, <2>1, <2>2, <2>3 DEF WholeInv
<1> QED BY <1>3, <1>4

LEMMA DialogWhole ==
  ASSUME PrefsInv, WholeInv, OpenSettings
  PROVE  WholeInv'
<1>1. PICK want \in BOOLEAN, mini \in BOOLEAN :
        \E out \in IF want # prefs.auto \/ (want /\ mini # prefs.mini)
                  THEN Outcomes(want, mini)
                  ELSE {[obeys |-> TRUE, entry |-> registry,
                         flag |-> want /\ registry = IF mini THEN "minimized" ELSE "plain"]} :
          Follow(out) /\ prefs' = [prefs EXCEPT !.auto = out.flag, !.mini = mini]
  BY DEF OpenSettings
<1> DEFINE kept == [obeys |-> TRUE, entry |-> registry,
                    flag |-> want /\ registry = IF mini THEN "minimized" ELSE "plain"]
<1>2. PICK out :
        /\ out \in IF want # prefs.auto \/ (want /\ mini # prefs.mini)
                  THEN Outcomes(want, mini) ELSE {kept}
        /\ Follow(out) /\ prefs' = [prefs EXCEPT !.auto = out.flag, !.mini = mini]
  BY <1>1
<1>3. out.flag \in BOOLEAN /\ PlanKept' /\ registry' \in {"none", "plain", "minimized"}
  <2>1. CASE want # prefs.auto \/ (want /\ mini # prefs.mini)
    <3>1. out \in Outcomes(want, mini)
      BY <1>2, <2>1
    <3> QED BY <1>2, <3>1, EntryTyped DEF WholeInv
  <2>2. CASE ~ (want # prefs.auto \/ (want /\ mini # prefs.mini))
    <3>1. out = kept
      BY <1>2, <2>2
    <3>2. out.flag \in BOOLEAN /\ out.obeys = TRUE /\ out.entry = registry
      BY <3>1
    <3>3. registry' = registry /\ prefsLeft' = prefsLeft
      BY <1>2, <3>2 DEF Follow
    <3> QED BY <3>2, <3>3 DEF WholeInv, PlanKept
  <2> QED BY <2>1, <2>2
<1> DEFINE flag == out.flag
<1>4. prefs' = [prefs EXCEPT !.auto = flag, !.mini = mini] /\ flag \in BOOLEAN
  BY <1>2, <1>3
<1> HIDE DEF flag
<1>5. InOrder(prefs')
  BY <1>4, SwitchesInOrder DEF WholeInv
<1>6. /\ import'.at = "none"
      /\ \/ prefsFile' = Payload(prefs')
         \/ prefsFile' = prefsFile /\ drift' = TRUE
  BY DEF OpenSettings, NoImport
<1>7. SavedAs(prefs', Payload(prefs')) /\ InFile(Payload(prefs'))
  BY <1>5, SavedInFile DEF WholeInv
<1>8. InFile(prefsFile') /\ FileHolds(import', prefs', prefsFile', drift')
  BY <1>6, <1>7 DEF FileHolds, WholeInv
<1>9. ImportInOrder(import') /\ HalfAdded(import', prefs')
  BY <1>6 DEF ImportInOrder, HalfAdded
<1> QED BY <1>3, <1>5, <1>8, <1>9 DEF WholeInv

(* A start reads the file, decrypts the secret and may encrypt it anew.     *)
LEMMA StartWhole ==
  ASSUME PrefsInv, WholeInv, Restart
  PROVE  WholeInv'
<1>1. PICK canDecrypt \in BOOLEAN :
        LET file == Loaded(prefsFile, canDecrypt)
            auto == IF prefsLeft.windows THEN registry = Command(file) ELSE file.auto
        IN /\ prefs' = [file EXCEPT !.auto = auto]
           /\ prefsFile' = IF prefsLeft.windows /\ prefsFile.secret.plain # ""
                           THEN [prefsFile EXCEPT !.secret = Encoded(file.secret, TRUE)]
                           ELSE prefsFile
           /\ drift' = (auto # file.auto \/ ~ canDecrypt)
  BY DEF Restart
<1>2. /\ import'.at = "none" /\ registry' = registry /\ PrefsSpend("starts")
      /\ PlanKept /\ InFile(prefsFile)
  BY DEF Restart, NoImport, WholeInv
<1>3. PlanKept'
  BY <1>2, PlanStays
<1> DEFINE secret == Resolved(prefsFile.secret, canDecrypt)
           file == Loaded(prefsFile, canDecrypt)
           auto == IF prefsLeft.windows THEN registry = Command(file) ELSE file.auto
           stored == Encoded(secret, TRUE)
           c == prefsFile.cursors
<1>4. file = [prefsFile EXCEPT !.secret = secret]
  BY <1>2, LoadedIsFile
<1>5. /\ prefs' = [file EXCEPT !.auto = auto]
      /\ prefsFile' = IF prefsLeft.windows /\ prefsFile.secret.plain # ""
                      THEN [prefsFile EXCEPT !.secret = Encoded(file.secret, TRUE)]
                      ELSE prefsFile
      /\ drift' = (auto # file.auto \/ ~ canDecrypt)
  BY <1>1
<1>6. /\ InOrder(prefsFile) /\ Fielded(prefsFile) /\ IsMap(c) /\ Clamped(c) = c
      /\ \A k \in DOMAIN c : c[k] \in Nat \ {0} /\ c[k] <= MaxCursor
  <2>1. /\ InOrder(prefsFile) /\ Fielded(prefsFile) /\ IsMap(c)
        /\ \A k \in DOMAIN c : c[k] \in Nat \ {0} /\ c[k] <= MaxCursor
    BY <1>2 DEF InFile, InOrder, MapsInOrder
  <2> QED BY <2>1, ClampedMap
<1> HIDE DEF file, secret
<1>7. file = [prefsFile EXCEPT !.cursors = c, !.secret = secret] /\ file.secret = secret
      /\ file.cursors = c
  BY <1>4, <1>6 DEF Fielded, Fields
<1>8. InOrder(file)
  <2> HIDE DEF c
  <2> QED BY <1>6, <1>7, TwoFieldsInOrder
<1>9. auto \in BOOLEAN
  <2>1. file.auto \in BOOLEAN
    BY <1>8 DEF InOrder, NumbersInOrder
  <2> QED BY <1>2, <2>1 DEF PlanKept
<1> HIDE DEF auto, stored, c
<1>10. InOrder(prefs') /\ (auto = file.auto => prefs' = file)
  BY <1>5, <1>8, <1>9, AutoInOrder
<1>11. /\ prefsFile' = prefsFile \/ prefsFile' = [prefsFile EXCEPT !.cursors = c, !.secret = stored]
  <2>1. prefsFile' = prefsFile \/ prefsFile' = [prefsFile EXCEPT !.secret = stored]
    BY <1>5, <1>7 DEF stored
  <2> QED BY <1>6, <2>1 DEF c, Fielded, Fields
<1>12. InFile([prefsFile EXCEPT !.cursors = c, !.secret = stored])
  <2> DEFINE q == [prefsFile EXCEPT !.cursors = c, !.secret = stored]
  <2>1. InOrder(q)
    BY <1>6, TwoFieldsInOrder
  <2>2. q.cursors = c
    BY <1>6 DEF Fielded, Fields
  <2> HIDE DEF q
  <2>3. InFile(q)
    BY <1>6, <2>1, <2>2 DEF InFile
  <2> QED BY <2>3 DEF q
<1>13. InFile(prefsFile')
  BY <1>2, <1>11, <1>12
<1>14. ~ drift' => SavedAs(prefs', prefsFile')
  <2> SUFFICES ASSUME ~ drift' PROVE SavedAs(prefs', prefsFile')
    OBVIOUS
  <2>1. canDecrypt /\ prefs' = file
    BY <1>5, <1>10
  <2>2. Resolved(prefsFile.secret, TRUE) = secret
    BY <2>1 DEF secret
  <2>3. Resolved(stored, TRUE) = secret
    BY SecretReturns DEF stored
  <2>4. ASSUME NEW x, NEW g, g = [prefsFile EXCEPT !.cursors = c, !.secret = x], Resolved(x, TRUE) = secret
        PROVE  SavedAs(file, g)
    <3>1. g = [file EXCEPT !.cursors = c, !.secret = x] /\ g.secret = x
      BY <1>6, <1>7, <2>4 DEF Fielded, Fields
    <3> QED BY <1>6, <1>7, <2>4, <3>1 DEF SavedAs
  <2>5. CASE prefsFile' = prefsFile
    <3>1. prefsFile = [prefsFile EXCEPT !.cursors = c, !.secret = prefsFile.secret]
      BY <1>6 DEF c, Fielded, Fields
    <3> QED BY <2>1, <2>2, <2>4, <2>5, <3>1
  <2>6. CASE prefsFile' = [prefsFile EXCEPT !.cursors = c, !.secret = stored]
    BY <2>1, <2>3, <2>4, <2>6
  <2> QED BY <1>11, <2>5, <2>6
<1>15. ImportInOrder(import') /\ HalfAdded(import', prefs') /\ FileHolds(import', prefs', prefsFile', drift')
  BY <1>2, <1>14 DEF ImportInOrder, HalfAdded, FileHolds
<1> QED BY <1>2, <1>3, <1>10, <1>13, <1>15 DEF WholeInv


LEMMA WholeStep == PrefsInv /\ WholeInv /\ [PrefsNext]_prefsVars => WholeInv'
<1>1. ASSUME WholeInv, UNCHANGED prefsVars PROVE WholeInv'
  BY <1>1 DEF prefsVars, WholeInv, PlanKept
<1> QED
  BY <1>1, StartImportWhole, SaveStagedWhole, ApplyFieldsWhole, AddTabWhole, ApplyFailsWhole,
     FinishApplyWhole, ReconcileWhole, CorrectWhole, DialogWhole, StartWhole DEF PrefsNext

LEMMA WholeAlways == PrefsSpec => [](PrefsInv /\ WholeInv)
BY PrefsStarts, WholeAtStart, PrefsStep, WholeStep, PTL DEF PrefsSpec

(* What the next start makes of the file.                                   *)
LEMMA LoadedInOrder ==
  ASSUME InFile(prefsFile)
  PROVE  InOrder(Loaded(prefsFile, TRUE))
<1> DEFINE c == prefsFile.cursors
           x == Resolved(prefsFile.secret, TRUE)
<1>1. InOrder(prefsFile) /\ IsMap(c) /\ \A k \in DOMAIN c : c[k] \in Nat \ {0}
  BY DEF InFile, InOrder, MapsInOrder
<1>2. Loaded(prefsFile, TRUE) = [prefsFile EXCEPT !.secret = x]
  BY LoadedIsFile
<1> HIDE DEF x
<1>3. Loaded(prefsFile, TRUE) = [prefsFile EXCEPT !.cursors = c, !.secret = x]
  BY <1>1, <1>2 DEF InOrder, Fielded, Fields
<1> HIDE DEF c
<1>4. InOrder([prefsFile EXCEPT !.cursors = c, !.secret = x])
  BY <1>1, TwoFieldsInOrder
<1> QED BY <1>3, <1>4

(* The settings in memory, and those the next start would load, are within  *)
(* the limits normalize_loaded_config and the import normalisation enforce. *)
THEOREM PrefsTypeCorrect == PrefsSpec => []PrefsTypeOK
<1>1. ASSUME NEW p, InOrder(p)
      PROVE  /\ {p.auto, p.mini} \subseteq BOOLEAN
             /\ p.timeout \in Timeouts.lo..Timeouts.hi /\ p.every \in Allowed
             /\ ToSet(p.tabs) \cup ToSet(p.history) \subseteq Texts
             /\ Len(p.words) <= MaxWords /\ Len(p.history) <= MaxHistory
  <2>1. p.tabs \in Seq(Texts) /\ p.history \in Seq(Texts)
    BY <1>1 DEF InOrder, ListsInOrder
  <2>2. ToSet(p.tabs) \subseteq Texts /\ ToSet(p.history) \subseteq Texts
    BY <2>1 DEF ToSet
  <2> QED BY <1>1, <2>2 DEF InOrder, NumbersInOrder, ListsInOrder
<1>2. ASSUME PrefsInv, WholeInv PROVE PrefsTypeOK
  <2>1. InOrder(prefs) /\ InOrder(Loaded(prefsFile, TRUE))
    BY <1>2, LoadedInOrder DEF WholeInv
  <2>2. \A k \in DOMAIN prefsFile.cursors : prefsFile.cursors[k] \in 1..MaxCursor
    <3>1. \A k \in DOMAIN prefsFile.cursors : prefsFile.cursors[k] \in Nat \ {0} /\ prefsFile.cursors[k] <= MaxCursor
      BY <1>2 DEF WholeInv, InFile, InOrder, MapsInOrder
    <3> QED BY <3>1, ListLimits
  <2>3. import.at \in {"none", "staged", "saved", "adding", "applied", "correcting"}
    BY <1>2 DEF PrefsInv, PrefsShaped, NoImport
  <2> DEFINE q == Loaded(prefsFile, TRUE)
  <2> HIDE DEF q
  <2>4. InOrder(q)
    BY <2>1 DEF q
  <2>5. \A p \in {prefs, q} :
          /\ {p.auto, p.mini} \subseteq BOOLEAN
          /\ p.timeout \in Timeouts.lo..Timeouts.hi /\ p.every \in Allowed
          /\ ToSet(p.tabs) \cup ToSet(p.history) \subseteq Texts
          /\ Len(p.words) <= MaxWords /\ Len(p.history) <= MaxHistory
    BY <1>1, <2>1, <2>4
  <2> QED BY <1>2, <2>2, <2>3, <2>5 DEF PrefsTypeOK, WholeInv, q
<1> QED
  BY <1>2, WholeAlways, PTL

LEMMA OnePerKey ==
  ASSUME NEW tabs \in Seq(Texts), OneEach(tabs)
  PROVE  Cardinality(TabKeys(tabs)) = Len(tabs)
<1> DEFINE n == Len(tabs)
           key == [i \in 1..n |-> KeyOf[tabs[i]]]
<1>1. n \in Nat /\ DOMAIN tabs = 1..n
  BY LenProperties
<1>2. TabKeys(tabs) = {key[i] : i \in 1..n}
  BY <1>1 DEF TabKeys
<1>3. key \in Bijection(1..n, TabKeys(tabs))
  <2>1. \A i, j \in 1..n : key[i] = key[j] => i = j
    BY <1>1 DEF OneEach
  <2>2. key \in [1..n -> TabKeys(tabs)] /\ \A k \in TabKeys(tabs) : \E i \in 1..n : key[i] = k
    BY <1>2
  <2> HIDE DEF key, n
  <2> QED BY <2>1, <2>2 DEF Bijection, Injection, Surjection, IsInjective
<1>4. ExistsBijection(1..n, TabKeys(tabs))
  BY <1>3 DEF ExistsBijection
<1> QED BY <1>1, <1>4, FS_CountingElements

(* save_config, normalize_loaded_config and the import: between two imports *)
(* a start would bring back the settings in memory, and no two tabs search  *)
(* for the same thing, wherever an import fails and however it is undone.   *)
THEOREM SettingsComeBack == PrefsSpec => []FileMatchesMemory
<1>1. ASSUME WholeInv PROVE Cardinality(TabKeys(prefs.tabs)) = Len(prefs.tabs)
  BY <1>1, OnePerKey DEF WholeInv, InOrder, ListsInOrder
<1>2. ASSUME WholeInv, import = NoImport, ~ drift
      PROVE  LET file == Loaded(prefsFile, TRUE)
             IN /\ file = [prefs EXCEPT !.cursors = file.cursors]
                /\ \A k \in DOMAIN prefs.cursors :
                     file.cursors[k] = Between(prefs.cursors[k], [lo |-> 1, hi |-> MaxCursor])
  <2> DEFINE file == Loaded(prefsFile, TRUE)
             c == Clamped(prefs.cursors)
             x == Resolved(prefsFile.secret, TRUE)
  <2>1. SavedAs(prefs, prefsFile) /\ Fielded(prefs) /\ InFile(prefsFile)
    BY <1>2 DEF WholeInv, FileHolds, NoImport, InOrder
  <2>2. prefsFile = [prefs EXCEPT !.cursors = c, !.secret = prefsFile.secret] /\ x = prefs.secret
    BY <2>1 DEF SavedAs
  <2>3. file = [prefsFile EXCEPT !.secret = x]
    BY <2>1, LoadedIsFile
  <2>4. \A k \in DOMAIN prefs.cursors : c[k] = Between(prefs.cursors[k], [lo |-> 1, hi |-> MaxCursor])
    BY DEF Clamped
  <2> HIDE DEF file, c, x
  <2>5. file = [prefs EXCEPT !.cursors = c] /\ file.cursors = c
    BY <2>1, <2>2, <2>3 DEF Fielded, Fields
  <2> QED BY <2>4, <2>5 DEF file
<1>3. WholeInv => FileMatchesMemory
  BY <1>1, <1>2 DEF FileMatchesMemory
<1> QED
  BY <1>3, WholeAlways, PTL
=============================================================================
