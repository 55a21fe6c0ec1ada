------------------------------ MODULE LocalFiles ------------------------------
(***************************************************************************)
(* The settings file with its .backup copy, the database file with its     *)
(* write-ahead log, the backups of both, and the restore a user asks for   *)
(* in one run and the next start applies.  The contents of a file are a    *)
(* number, the save it comes from; a log belongs to one database file and  *)
(* is worthless beside another.                                            *)
(***************************************************************************)
EXTENDS Naturals, FiniteSets

CONSTANTS
  MaxManual, MaxAuto,   \* backups of each kind that retention keeps
  MaxSaves, MaxBackups, \* the largest budgets of saves and backups
  FilePlans             \* the budgets: saves, backups made, starts, faults,
                        \* and whether the files may be damaged

ASSUME RetentionPositive == {MaxManual, MaxAuto} \subseteq Nat \ {0}
ASSUME BudgetBounds == {MaxSaves, MaxBackups} \subseteq Nat
ASSUME FilePlansBounded ==
  FilePlans \subseteq [saves : 0..MaxSaves, backups : 0..MaxBackups, starts : Nat, faults : Nat,
                      damage : BOOLEAN]

VARIABLES
  conf,      \* the settings file
  spare,     \* its .backup
  data,      \* the database: the file [base] and the log beside it [log]
  shelf,     \* the backups
  pending,   \* pending_restore.json: the name of a backup and the scope
  applied,   \* the same file renamed while it is applied
  stage,     \* what the process is doing
  memory,    \* the settings of the running program
  before,    \* the files as the apply found them, its staging directory
  scars,     \* what has befallen the files: "torn", a restore cut off by a power
             \* failure between database and log; "copied", a backup of such a pair;
             \* "hurt", a settings file damaged since the last save; "stale", a save that
             \* could not renew a damaged .backup; "gone", a start without a settings file;
             \* "lost", the .backup could not be made the settings file; "reset", the
             \* defaults were saved
  filesLeft  \* the plan, with what remains of its budgets

files == <<conf, spare, data, shelf, pending, applied>>
filesVars == <<files, stage, memory, before, scars, filesLeft>>

Damaged == 0       \* a file that does not parse; no .backup, no log
Defaults == 1
Absent == 2        \* no settings file at all
Unreadable == {Damaged, Absent}
NoRequest == [name |-> 0, withData |-> FALSE]

FilesInit ==
  /\ filesLeft \in FilePlans
  /\ conf = 3 /\ spare = 3 /\ data = [base |-> 3, log |-> Damaged]
  /\ shelf = {} /\ pending = NoRequest /\ applied = NoRequest
  /\ stage = "off" /\ memory = 3 /\ scars = {}
  /\ before = [conf |-> 3, data |-> data, backup |-> NoRequest]

FilesSpend(what) == filesLeft[what] > 0 /\ filesLeft' = [filesLeft EXCEPT ![what] = @ - 1]

\* The next content, one no file holds: 4 and more.
Newer == MaxSaves + 4 - filesLeft.saves

-----------------------------------------------------------------------------
(* Start-up *)

Named(r) == CHOOSE b \in shelf : b.name = r.name
Exists(r) == \E b \in shelf : b.name = r.name

\* Metadata an earlier start could not remove goes first; a request that names no
\* backup is kept and passed over, any other is renamed.
Start ==
  /\ stage = "off" /\ FilesSpend("starts")
  /\ before' = [conf |-> conf, data |-> data, backup |-> pending]
  /\ IF Exists(pending)
     THEN stage' = "renamed" /\ applied' = pending /\ pending' = NoRequest
     ELSE stage' = "loading" /\ applied' = NoRequest /\ UNCHANGED pending
  /\ UNCHANGED <<conf, spare, data, shelf, memory, scars>>

BackToPending == applied' = NoRequest /\ pending' = applied

\* The payload is verified again, then the files are replaced one at a time.
Refuse ==
  /\ stage = "renamed" /\ ~ Named(applied).sound
  /\ BackToPending /\ stage' = "loading"
  /\ UNCHANGED <<conf, spare, data, shelf, memory, before, scars, filesLeft>>

ReplaceConfig ==
  /\ stage = "renamed" /\ Named(applied).sound
  /\ conf' = Named(applied).conf
  /\ stage' = IF applied.withData THEN "config" ELSE "applied"
  /\ UNCHANGED <<spare, data, shelf, pending, applied, memory, before, scars, filesLeft>>

ReplaceDatabase ==
  /\ stage = "config"
  /\ data' = [data EXCEPT !.base = Named(applied).base]
  /\ stage' = "database"
  /\ UNCHANGED <<conf, spare, shelf, pending, applied, memory, before, scars, filesLeft>>

\* A log the backup does not have is removed.
ReplaceLog ==
  /\ stage = "database"
  /\ data' = [data EXCEPT !.log = Named(applied).log]
  /\ scars' = scars \ {"torn"} /\ stage' = "applied"
  /\ UNCHANGED <<conf, spare, shelf, pending, applied, memory, before, filesLeft>>

\* A mutant: only the settings file is put back.
RollBackConfig ==
  /\ stage \in {"renamed", "config", "database"} /\ FilesSpend("faults")
  /\ conf' = before.conf
  /\ BackToPending /\ stage' = "loading"
  /\ UNCHANGED <<spare, data, shelf, memory, before, scars>>

\* Any of the three fails: the staged copies are put back, and the request.
RollBackFiles ==
  /\ stage \in {"renamed", "config", "database"} /\ FilesSpend("faults")
  /\ conf' = before.conf /\ data' = before.data
  /\ BackToPending /\ stage' = "loading"
  /\ UNCHANGED <<spare, shelf, memory, before, scars>>

FinishRestore ==
  /\ stage = "applied"
  /\ applied' = NoRequest /\ stage' = "loading"
  /\ UNCHANGED <<conf, spare, data, shelf, pending, memory, before, scars, filesLeft>>

\* load_config: what the settings file holds, or its .backup, which also becomes the
\* settings file; if neither can be read the defaults, which do not until the next save.
Load ==
  /\ stage = "loading" /\ conf # Absent
  /\ memory' = CASE conf # Damaged -> conf [] spare # Damaged -> spare [] OTHER -> Defaults
  /\ conf' = IF conf # Damaged THEN conf ELSE spare
  /\ stage' = "on"
  /\ UNCHANGED <<spare, data, shelf, pending, applied, before, scars, filesLeft>>

\* Without a settings file the defaults are taken, and the .backup is not looked at.
LoadNothing ==
  /\ stage = "loading" /\ conf = Absent
  /\ memory' = Defaults /\ scars' = scars \cup {"gone"}
  /\ stage' = "on"
  /\ UNCHANGED <<files, before, filesLeft>>

\* The defaults also, when the .backup can be read but not be written in the other's place.

LoadDefaults ==
  /\ stage = "loading" /\ conf = Damaged /\ FilesSpend("faults")
  /\ memory' = Defaults /\ scars' = scars \cup {"lost"}
  /\ stage' = "on"
  /\ UNCHANGED <<files, before>>

-----------------------------------------------------------------------------
(* The running program *)

\* A mutant: the file that is replaced is kept even when it does not parse.
RotateUnread(next) ==
  /\ spare' = IF conf = Absent THEN spare ELSE conf
  /\ stage' = next
  /\ UNCHANGED <<conf, data, shelf, pending, applied, before, scars>>

\* save_primary_config_file keeps the file it replaces if that one is there and parses;
\* a copy that fails is passed over, and what the .backup held stays.
Rotate(next) ==
  /\ \/ spare' = (IF conf \in Unreadable THEN spare ELSE conf) /\ UNCHANGED scars
     \/ /\ conf \notin Unreadable /\ filesLeft.faults > 0 /\ UNCHANGED spare
        /\ scars' = scars \cup IF spare = Damaged THEN {"stale"} ELSE {}
  /\ stage' = next
  /\ UNCHANGED <<conf, data, shelf, pending, applied, before>>

\* So begins the save of a change of the settings,
StartSave == stage = "on" /\ FilesSpend("saves") /\ memory' = Newer /\ Rotate("saving")

\* and the last save of a regular exit.
StartClose == stage = "on" /\ UNCHANGED <<memory, filesLeft>> /\ Rotate("closing")

\* At the exit the log is folded into the database, which is whole only if the log is
\* its own.
Checkpointed ==
  IF stage = "closing" /\ data.log = data.base THEN [data EXCEPT !.log = Damaged] ELSE data

AfterSave ==
  /\ stage \in {"saving", "closing"}
  /\ stage' = IF stage = "saving" THEN "on" ELSE "off"
  /\ data' = Checkpointed
  /\ UNCHANGED <<spare, shelf, pending, applied, memory, before>>

\* Then the new file is put in its place, ...
WriteConfig ==
  /\ AfterSave
  /\ conf' = memory
  /\ scars' = (scars \ {"hurt"}) \cup IF memory = Defaults THEN {"reset"} ELSE {}
  /\ UNCHANGED filesLeft

\* ... or that fails and is reported; an exit goes on.
WriteConfigFails ==
  /\ FilesSpend("faults") /\ AfterSave
  /\ UNCHANGED <<conf, scars>>

WriteData ==
  /\ stage = "on" /\ FilesSpend("saves")
  /\ data' = [base |-> Newer, log |-> Newer]
  /\ UNCHANGED <<conf, spare, shelf, pending, applied, stage, memory, before, scars>>

\* A kill or a power failure.
PowerOff ==
  /\ stage # "off" /\ FilesSpend("faults")
  /\ stage' = "off" /\ scars' = scars \cup IF stage = "database" THEN {"torn"} ELSE {}
  /\ UNCHANGED <<files, memory, before>>

\* The files are damaged or removed one at a time, and a save comes in between.
Damage ==
  /\ filesLeft.damage /\ "hurt" \notin scars /\ stage \in {"off", "on"} /\ FilesSpend("faults")
  /\ \/ conf' \in Unreadable /\ UNCHANGED spare
     \/ spare' = Damaged /\ UNCHANGED conf
  /\ scars' = scars \cup {"hurt"}
  /\ UNCHANGED <<data, shelf, pending, applied, stage, memory, before>>

-----------------------------------------------------------------------------
(* Backups *)

\* The trigger the list shows: a backup whose metadata cannot be read is "manual".
ListedAs(b) == IF b.info = "unreadable" THEN "manual" ELSE b.trigger

\* The order of the list: by time stamp, and one without is sorted by its name, which
\* begins with a letter and so comes before every time stamp.
ListedBefore(b, c) ==
  IF b.stamped = c.stamped THEN b.name > c.name ELSE ~ b.stamped

\* A mutant: one list for the backups of both kinds.
RetainedTogether(S) ==
  {b \in S : Cardinality({c \in S : ListedBefore(c, b)})
               < (IF ListedAs(b) = "manual" THEN MaxManual ELSE MaxAuto)}

\* _cleanup_old_backups: the first of each trigger stay.
Retained(S) ==
  {b \in S : Cardinality({c \in S : ListedAs(c) = ListedAs(b) /\ ListedBefore(c, b)})
               < (IF ListedAs(b) = "manual" THEN MaxManual ELSE MaxAuto)}

\* The name of the next backup holds the time; names grow.
NewName == MaxBackups + 1 - filesLeft.backups

\* The database is copied through SQLite, without a log, or else file by file.  The
\* copy is verified: a failed one stays on the list as such.
MadeBackup(trigger, withData) ==
  {[name |-> NewName, trigger |-> trigger, stamped |-> TRUE,
    conf |-> conf, base |-> IF withData THEN data.base ELSE Damaged,
    log |-> IF withData /\ byFile THEN data.log ELSE Damaged,
    sound |-> ok, info |-> IF ok THEN "ok" ELSE "failed"] :
     byFile \in {x \in BOOLEAN : x => withData /\ data.log # Damaged /\ filesLeft.faults > 0},
     ok \in {x \in BOOLEAN : x => conf # Damaged}}

\* A copy file by file takes the log of another database along.
Copied(b) == scars \cup IF "torn" \in scars /\ b.log # Damaged THEN {"copied"} ELSE {}

\* create_backup, which asks for a settings file; an exception leaves no backup behind.
CreateBackup ==
  /\ stage = "on" /\ conf # Absent /\ FilesSpend("backups")
  /\ \E trigger \in {"manual", "auto"}, withData \in BOOLEAN :
       /\ trigger = "auto" => ~ withData
       /\ \E b \in MadeBackup(trigger, withData) :
            /\ b.info = "failed" => conf = Damaged \/ filesLeft.faults > 0
            /\ shelf' = Retained(shelf \cup {b}) /\ scars' = Copied(b)
  /\ UNCHANGED <<conf, spare, data, pending, applied, stage, memory, before>>

\* verify_backup_entry with persist: the verdict is written into the metadata; lost
\* metadata is made anew, as a manual backup without time stamp.
Verified(b) ==
  [b EXCEPT !.trigger = ListedAs(b), !.info = IF b.sound THEN "ok" ELSE "failed"]

VerifyBackup ==
  /\ stage = "on"
  /\ \E b \in shelf : shelf' = (shelf \ {b}) \cup {Verified(b)} /\ shelf' # shelf
  /\ UNCHANGED <<conf, spare, data, pending, applied, stage, memory, before, scars, filesLeft>>

RotBackup ==
  /\ filesLeft.damage /\ FilesSpend("faults")
  /\ stage \in {"off", "on"}
  /\ \E b \in shelf :
       \/ shelf' = (shelf \ {b}) \cup {[b EXCEPT !.sound = FALSE]}
       \/ shelf' = (shelf \ {b}) \cup {[b EXCEPT !.info = "unreadable", !.stamped = FALSE]}
  /\ UNCHANGED <<conf, spare, data, pending, applied, stage, memory, before, scars>>

\* delete_backup, and delete_corrupt_backups for all that are listed as corrupt.
DeleteBackup ==
  /\ stage = "on" /\ shelf # {}
  /\ \/ \E b \in shelf : shelf' = shelf \ {b}
     \/ shelf' = {b \in shelf : b.info = "ok"}
  /\ UNCHANGED <<conf, spare, data, pending, applied, stage, memory, before, scars, filesLeft>>

\* The restore dialog: the backup must be listed as sound and verify as sound; then
\* the present state is backed up, which may retire the very backup that was chosen,
\* and if that one is still there the request is written.
RequestRestore ==
  /\ stage = "on" /\ conf # Absent /\ FilesSpend("backups")
  /\ \E b \in shelf, withData \in BOOLEAN :
       /\ b.info = "ok" /\ b.sound /\ withData = (b.base # Damaged)
       /\ \E guard \in MadeBackup("manual", withData) :
            /\ guard.info = "failed" => conf = Damaged \/ filesLeft.faults > 0
            /\ shelf' = Retained(shelf \cup {guard}) /\ scars' = Copied(guard)
            /\ pending' = IF b \in shelf' THEN [name |-> b.name, withData |-> withData] ELSE pending
  /\ UNCHANGED <<conf, spare, data, applied, stage, memory, before>>

\* Without a backup of the present state the user may go on all the same.
RequestUnguarded ==
  /\ stage = "on"
  /\ FilesSpend("faults") \/ (conf = Absent /\ UNCHANGED filesLeft)
  /\ \E b \in shelf :
       /\ b.info = "ok" /\ b.sound
       /\ pending' = [name |-> b.name, withData |-> b.base # Damaged]
  /\ UNCHANGED <<conf, spare, data, shelf, applied, stage, memory, before, scars>>

FilesNext ==
  \/ Start \/ Refuse \/ ReplaceConfig \/ ReplaceDatabase \/ ReplaceLog \/ RollBackFiles
  \/ FinishRestore \/ Load \/ LoadNothing \/ LoadDefaults \/ StartSave \/ StartClose
  \/ WriteConfig \/ WriteConfigFails \/ WriteData \/ PowerOff \/ Damage \/ CreateBackup
  \/ VerifyBackup \/ RotBackup \/ DeleteBackup \/ RequestRestore \/ RequestUnguarded

FilesSpec == FilesInit /\ [][FilesNext]_filesVars

-----------------------------------------------------------------------------
(* Properties *)

FilesTypeOK ==
  /\ {conf, spare, data.base, data.log, memory} \subseteq Nat
  /\ \A b, c \in shelf : b.name = c.name => b = c
  /\ pending = NoRequest \/ applied = NoRequest \/ stage \in {"off", "on"}
  /\ stage \in {"off", "renamed", "config", "database", "applied", "loading", "on",
                "saving", "closing"}

\* A start that nothing cut off opens the files of one moment: either what the last
\* run left, and then the request that failed is still there for the next start, or
\* all that the chosen backup holds.  A database is opened beside the log of another
\* one only if a power failure struck between the replacement of the two, or if that
\* pair was since backed up file by file.
RestoreAllOrNothing ==
  /\ stage = "loading" =>
       \/ conf = before.conf /\ data = before.data /\ pending = before.backup
       \/ /\ pending = NoRequest /\ Exists(before.backup)
          /\ LET b == Named(before.backup)
             IN /\ conf = b.conf
                /\ data = IF before.backup.withData THEN [base |-> b.base, log |-> b.log] ELSE before.data
  /\ stage = "on" /\ {"torn", "copied"} \cap scars = {} => data.log \in {Damaged, data.base}

\* Damage to one of the two settings files at a time, with a save in between, leaves one
\* of them that can be read, kills and restores included, unless that save could not
\* renew a damaged .backup.  The program starts from its defaults only after such a save,
\* when a start finds no settings file, or when it can read the .backup but not restore
\* it; after the last two the .backup holds the settings until the defaults are saved.
SettingsSurvive ==
  /\ conf \notin Unreadable \/ spare # Damaged \/ "stale" \in scars
  /\ memory = Defaults =>
       /\ {"gone", "lost", "stale"} \cap scars # {}
       /\ {"reset", "stale"} \cap scars = {} => spare \notin {Damaged, Defaults}

\* Retention retires the oldest: what it keeps of a kind is newer than what it
\* deletes, or has lost its time stamp; and as long as no backup has, the automatic
\* backups retire no manual one.
RetentionFair ==
  [][filesLeft'.backups < filesLeft.backups =>
       \A b \in {x \in shelf : ~ \E y \in shelf' : y.name = x.name} :
         /\ \A c \in shelf' : ListedAs(c) = ListedAs(b) => c.name > b.name \/ ~ c.stamped
         /\ (\E c \in shelf' : c.name = NewName /\ c.trigger = "auto")
              => ListedAs(b) = "auto" \/ \E c \in shelf : ~ c.stamped]_filesVars
=============================================================================
