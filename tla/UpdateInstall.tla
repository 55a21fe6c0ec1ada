----------------------------- MODULE UpdateInstall -----------------------------
(***************************************************************************)
(* The installed program replaces itself: the window checks for a release, *)
(* downloads and verifies it, starts a helper and exits; the helper waits  *)
(* for the exit, replaces the program file, tries the new program and      *)
(* either starts it or puts the old one back, and leaves a result for the  *)
(* next start to show.  Versions are numbers.  A program file that is      *)
(* running cannot be replaced.                                             *)
(***************************************************************************)
EXTENDS Naturals

CONSTANTS
  Latest,       \* the newest release, the only one the manifest offers
  UpdatePlans   \* the budgets: checks, starts by the user and faults

ASSUME LatestNumber == Latest \in Nat \ {0}   \* the installed release is one of them

VARIABLES
  window,    \* what the window is doing about updates; "closed" without a process
  running,   \* the version of the running process, 0 for none
  program,   \* the version in the program file
  staged,    \* the downloaded file: "none", "whole" or "spoiled"
  helper,    \* how far the helper is, and the version it found
  result,    \* last-update-result.json
  passed,    \* the versions whose start-up check succeeded
  stuck,     \* the old program could not be put back, or the helper was killed
             \* after the replacement: it left no result of its own
  updLeft    \* the plan, with what remains of its budgets

updVars == <<window, running, program, staged, helper, result, passed, stuck, updLeft>>

NoHelper == [at |-> "none", old |-> 0]

UpdInit ==
  /\ updLeft \in UpdatePlans
  /\ window = "idle" /\ program = 1 /\ running = 1
  /\ staged = "none" /\ helper = NoHelper /\ result = "none"
  /\ passed = {1} /\ stuck = FALSE

UpdSpend(what) == updLeft[what] > 0 /\ updLeft' = [updLeft EXCEPT ![what] = @ - 1]

-----------------------------------------------------------------------------
(* The window *)

CheckForUpdates ==
  /\ window = "idle" /\ UpdSpend("checks")
  /\ window' = "checking"
  /\ UNCHANGED <<running, program, staged, helper, result, passed, stuck>>

\* A manifest that verifies and is newer than this build is offered; anything else
\* ends the check.
UpdateChecked ==
  /\ window = "checking"
  /\ \/ Latest > running /\ window' = "offered" /\ UNCHANGED updLeft
     \/ Latest <= running /\ window' = "idle" /\ UNCHANGED updLeft
     \/ UpdSpend("faults") /\ window' = "idle"
  /\ UNCHANGED <<running, program, staged, helper, result, passed, stuck>>

AnswerOffer ==
  /\ window = "offered"
  /\ window' \in {"downloading", "idle"}
  /\ UNCHANGED <<running, program, staged, helper, result, passed, stuck, updLeft>>

\* prepare_staged_update: size and hash are those of the manifest, or no file is left.
Downloaded ==
  /\ window = "downloading"
  /\ \/ staged' = "whole" /\ window' = "confirming" /\ UNCHANGED updLeft
     \/ UpdSpend("faults") /\ window' = "idle" /\ UNCHANGED staged
  /\ UNCHANGED <<running, program, helper, result, passed, stuck>>

\* The user declines, a job cannot be stopped, or the helper does not start.  In the last
\* two cases jobs have been interrupted for nothing: BackgroundJobs!AbandonUpdate, and for
\* the fetches and the tabs a maintenance that is refused.
DropDownload ==
  /\ window = "confirming"
  /\ staged' = "none" /\ window' = "idle"
  /\ UNCHANGED <<running, program, helper, result, passed, stuck, updLeft>>

\* The helper of an earlier update has ended: it waits for half a minute at most, and a
\* second update is checked, downloaded and confirmed in a new process.
LaunchHelper ==
  /\ window = "confirming" /\ helper.at = "none"
  /\ helper' = [at |-> "waiting", old |-> program]
  /\ window' = "closing"
  /\ UNCHANGED <<running, program, staged, result, passed, stuck, updLeft>>

\* The update ends the process, or the user does.  A download that is under way is
\* abandoned, its file is removed by a later start.
ExitProcess ==
  /\ window # "closed"
  /\ window' = "closed" /\ running' = 0
  /\ staged' = IF window = "closing" THEN staged ELSE "none"
  /\ UNCHANGED <<program, helper, result, passed, stuck, updLeft>>

\* init_update_support takes the result away to show it.
StartProcess ==
  /\ window' = "idle" /\ running' = program /\ result' = "none"

StartByUser ==
  /\ window = "closed" /\ UpdSpend("starts")
  /\ StartProcess
  /\ UNCHANGED <<program, staged, helper, passed, stuck>>

-----------------------------------------------------------------------------
(* The helper, a copy of the old program in a process of its own *)

HelperTo(at) == helper' = [helper EXCEPT !.at = at]

EndWith(status) == result' = status /\ helper' = NoHelper /\ staged' = "none"

\* The process is gone; or it seems so: on Windows signal 0 is an event for a console
\* group, and the error for a process that is in none is taken for an exit.
ParentGone ==
  /\ helper.at = "waiting"
  /\ HelperTo("verifying")
  /\ UNCHANGED <<window, running, program, staged, result, passed, stuck, updLeft>>

ParentStays ==
  /\ helper.at = "waiting" /\ running # 0
  /\ EndWith("failed")
  /\ UNCHANGED <<window, running, program, passed, stuck, updLeft>>

SpoilStaged ==
  /\ staged = "whole" /\ helper.at \in {"waiting", "verifying"} /\ UpdSpend("faults")
  /\ staged' = "spoiled"
  /\ UNCHANGED <<window, running, program, helper, result, passed, stuck>>

\* Size and hash once more, then a copy of the old program.
VerifyStaged ==
  /\ helper.at = "verifying"
  /\ IF staged = "whole" THEN HelperTo("copied") /\ UNCHANGED <<result, staged>>
                         ELSE EndWith("failed")
  /\ UNCHANGED <<window, running, program, passed, stuck, updLeft>>

\* A mutant: the new program is started without having been tried.
ReplaceUntried ==
  /\ helper.at = "copied"
  /\ IF running = 0
     THEN program' = Latest /\ HelperTo("smoked") /\ UNCHANGED <<result, staged>>
     ELSE EndWith("failed") /\ UNCHANGED program
  /\ UNCHANGED <<window, running, passed, stuck, updLeft>>

\* A running program, the old one still or again, stays in place; so does it when the
\* helper then tries to put the copy back, and the status is that of an error.
ReplaceProgram ==
  /\ helper.at = "copied"
  /\ IF running = 0
     THEN program' = Latest /\ HelperTo("replaced") /\ UNCHANGED <<result, staged>>
     ELSE EndWith("failed") /\ UNCHANGED program
  /\ UNCHANGED <<window, running, passed, stuck, updLeft>>

SmokePasses ==
  /\ helper.at = "replaced"
  /\ passed' = passed \cup {program} /\ HelperTo("smoked")
  /\ UNCHANGED <<window, running, program, staged, result, stuck, updLeft>>

\* The check or the start of the new program fails: back to the copy, which is refused
\* while somebody runs the new program, and may fail besides.
PutOldBack ==
  /\ helper.at \in {"replaced", "smoked"} /\ UpdSpend("faults")
  /\ \/ running = 0 /\ program' = helper.old /\ EndWith("rolled_back") /\ UNCHANGED stuck
     \/ UNCHANGED program /\ EndWith("failed") /\ stuck' = TRUE
  /\ UNCHANGED <<window, running, passed>>

\* A second process of the same program gives way to the first.
StartNew ==
  /\ helper.at = "smoked"
  /\ HelperTo("started")
  /\ IF window = "closed" THEN StartProcess ELSE UNCHANGED <<window, running, result>>
  /\ UNCHANGED <<program, staged, passed, stuck, updLeft>>

\* The result comes after the new program was started, which may have looked for it.
WriteApplied ==
  /\ helper.at = "started"
  /\ EndWith("applied")
  /\ UNCHANGED <<window, running, program, passed, stuck, updLeft>>

HelperKilled ==
  /\ helper.at # "none" /\ UpdSpend("faults")
  /\ helper' = NoHelper /\ staged' = "none"
  /\ stuck' = (stuck \/ helper.at \in {"replaced", "smoked", "started"})
  /\ UNCHANGED <<window, running, program, result, passed>>

UpdNext ==
  \/ CheckForUpdates \/ UpdateChecked \/ AnswerOffer \/ Downloaded \/ DropDownload
  \/ LaunchHelper \/ ExitProcess \/ StartByUser \/ ParentGone \/ ParentStays
  \/ SpoilStaged \/ VerifyStaged \/ ReplaceProgram \/ SmokePasses \/ PutOldBack
  \/ StartNew \/ WriteApplied \/ HelperKilled

UpdSpec == UpdInit /\ [][UpdNext]_updVars

-----------------------------------------------------------------------------
(* Properties *)

UpdTypeOK ==
  /\ {running, program, helper.old} \subseteq 0..Latest /\ passed \subseteq 1..Latest
  /\ staged \in {"none", "whole", "spoiled"}
  /\ result \in {"none", "applied", "rolled_back", "failed"}
  /\ (window = "closed") = (running = 0)

\* What the next start reports is what happened: "applied" that a program whose
\* start-up check succeeded is in place, the two others that the version of before
\* is; and when the helper is gone no untried program is left in place.  A copy that
\* cannot be put back, or a kill after the replacement, is the exception.
UpdateTruthful ==
  /\ result = "applied" => program = Latest /\ Latest \in passed
  /\ helper.at = "none" /\ ~ stuck =>
       /\ program \in passed
       /\ result \in {"rolled_back", "failed"} => program < Latest
=============================================================================
