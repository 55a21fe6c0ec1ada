--------------------------- MODULE LocalFilesProofs ---------------------------
(***************************************************************************)
(* The settings file, the database and the backups, for any number of      *)
(* saves, starts and faults: a restore is all or nothing, the settings     *)
(* survive, and retention retires the oldest backups.                      *)
(***************************************************************************)
EXTENDS LocalFiles, FiniteSetTheorems, WellFoundedInduction, TLAPS

Budget == [saves : 0..MaxSaves, backups : 0..MaxBackups, starts : Nat, faults : Nat,
           damage : BOOLEAN]
Backup == [name : Nat, trigger : {"manual", "auto"}, stamped : BOOLEAN,
           conf : Nat, base : Nat, log : Nat,
           sound : BOOLEAN, info : {"ok", "failed", "unreadable"}]
Request == [name : Nat, withData : BOOLEAN]
Database == [base : Nat, log : Nat]

\* The stages of a restore from which it can still be undone, and all of them.
Undoable == {"renamed", "config", "database"}
Restoring == Undoable \cup {"applied"}

FilesTyped ==
  /\ filesLeft \in Budget
  /\ conf \in Nat /\ spare \in Nat \ {Absent} /\ memory \in Nat \ Unreadable
  /\ data \in Database
  /\ shelf \subseteq Backup /\ IsFiniteSet(shelf)
  /\ pending \in Request /\ applied \in Request
  /\ stage \in Restoring \cup {"off", "loading", "on", "saving", "closing"}
  /\ before \in [conf : Nat, data : Database, backup : Request]

\* Names grow, so no two backups have the same.
NamesGrow ==
  /\ \A b \in shelf : b.name < NewName
  /\ \A b, c \in shelf : b.name = c.name => b = c

\* The request is in one file at a time, and what it names is there.
OneRequest ==
  /\ stage \in Restoring =>
       pending = NoRequest /\ applied = before.backup /\ Exists(applied)
  /\ stage \in {"config", "database"} => applied.withData
  /\ stage \in {"loading", "on", "saving", "closing"} => applied = NoRequest

\* How far the replacement has come.
Kept == conf = before.conf /\ data = before.data /\ pending = before.backup
Replaced(b) ==
  /\ conf = b.conf
  /\ data = IF before.backup.withData THEN [base |-> b.base, log |-> b.log] ELSE before.data

HalfWay ==
  /\ stage = "renamed" => conf = before.conf /\ data = before.data
  /\ stage = "config" => conf = Named(applied).conf /\ data = before.data
  /\ stage = "database" => conf = Named(applied).conf /\ data.base = Named(applied).base
  /\ stage = "applied" => Replaced(Named(applied))
  /\ stage = "loading" =>
       Kept \/ (pending = NoRequest /\ Exists(before.backup) /\ Replaced(Named(before.backup)))

\* A log lies beside its own database, unless a restore was cut off there.
Whole(d) == d.log \in {Damaged, d.base}
Untorn == {"torn", "copied"} \cap scars = {}

LogsBelong ==
  /\ "copied" \notin scars => \A b \in shelf : Whole(b)
  /\ Untorn /\ stage # "database" => Whole(data)
  /\ Untorn /\ stage \in Undoable => Whole(before.data)

\* What keeps one of the settings files readable: damage to one is not followed by
\* damage to the other before a save, which first copies one that can be read, unless
\* that copy failed.
Readable ==
  /\ \A b \in shelf : b.conf # Absent /\ (b.sound => b.conf # Damaged)
  /\ "stale" \notin scars =>
       /\ conf \notin Unreadable \/ spare # Damaged
       /\ stage \in Undoable => before.conf \notin Unreadable \/ spare # Damaged
       /\ stage \in {"saving", "closing"} => spare # Damaged
       /\ "hurt" \notin scars =>
            /\ conf \notin Unreadable /\ spare # Damaged
            /\ stage \in Undoable => before.conf \notin Unreadable

\* Nothing holds the defaults before they are saved.
DefaultsSaved ==
  /\ "reset" \notin scars =>
       /\ conf # Defaults /\ spare # Defaults
       /\ \A b \in shelf : b.conf # Defaults
       /\ stage \in Undoable => before.conf # Defaults
       /\ memory = Defaults /\ "stale" \notin scars => spare # Damaged /\ "hurt" \in scars
  /\ memory = Defaults \/ "reset" \in scars => {"gone", "lost", "stale"} \cap scars # {}

FilesInv ==
  FilesTyped /\ NamesGrow /\ OneRequest /\ HalfWay /\ LogsBelong /\ Readable /\ DefaultsSaved


-----------------------------------------------------------------------------
(* The budgets and the backups                                             *)

\* What is spent stays a budget, and only it is less.
LEMMA Spent ==
  ASSUME filesLeft \in Budget, NEW what \in {"saves", "backups", "starts", "faults"},
         FilesSpend(what)
  PROVE  /\ filesLeft' \in Budget
         /\ filesLeft[what] \in Nat \ {0} /\ filesLeft'[what] = filesLeft[what] - 1
         /\ \A other \in {"saves", "backups"} \ {what} : filesLeft'[other] = filesLeft[other]
BY BudgetBounds DEF Budget, FilesSpend

\* The next content is one that can be read, and not the defaults.
LEMMA NewerIsNew ==
  ASSUME filesLeft \in Budget
  PROVE  Newer \in Nat /\ Newer > 3
BY BudgetBounds DEF Newer, Budget

LEMMA NewNameIsName ==
  ASSUME filesLeft \in Budget
  PROVE  NewName \in Nat
BY BudgetBounds DEF NewName, Budget

\* What a new backup holds, whichever way it was made.
LEMMA MadeBackupIsBackup ==
  ASSUME filesLeft \in Budget, conf \in Nat, data \in Database,
         NEW trigger \in {"manual", "auto"}, NEW withData \in BOOLEAN,
         NEW b \in MadeBackup(trigger, withData)
  PROVE  /\ b \in Backup /\ b.name = NewName /\ b.stamped /\ b.trigger = trigger
         /\ b.info \in {"ok", "failed"}
         /\ b.conf = conf /\ (b.sound => conf # Damaged)
         /\ b.log # Damaged => b.log = data.log /\ b.base = data.base
<1>1. PICK byFile \in BOOLEAN, ok \in {x \in BOOLEAN : x => conf # Damaged} :
        /\ b = [name |-> NewName, trigger |-> trigger, stamped |-> TRUE,
                conf |-> conf, base |-> IF withData THEN data.base ELSE Damaged,
                log |-> IF withData /\ byFile THEN data.log ELSE Damaged,
                sound |-> ok, info |-> IF ok THEN "ok" ELSE "failed"]
  BY DEF MadeBackup
<1>2. NewName \in Nat /\ Damaged \in Nat /\ data.base \in Nat /\ data.log \in Nat
  BY NewNameIsName DEF Damaged, Database
<1> QED BY <1>1, <1>2 DEF Backup

LEMMA RetainedSome == \A S : Retained(S) \subseteq S
BY DEF Retained

\* A step that adds one backup and retires some.
LEMMA ShelfGrows ==
  ASSUME FilesInv, FilesSpend("backups"),
         NEW trigger \in {"manual", "auto"}, NEW withData \in BOOLEAN,
         NEW b \in MadeBackup(trigger, withData),
         shelf' = Retained(shelf \cup {b})
  PROVE  /\ shelf' \subseteq Backup /\ IsFiniteSet(shelf')
         /\ NamesGrow'
<1>1. shelf' \subseteq shelf \cup {b}
  BY RetainedSome
<1>2. b \in Backup /\ b.name = NewName
  BY MadeBackupIsBackup DEF FilesInv, FilesTyped
<1>3. IsFiniteSet(shelf \cup {b})
  BY FS_AddElement DEF FilesInv, FilesTyped
<1>4. shelf' \subseteq Backup /\ IsFiniteSet(shelf')
  BY <1>1, <1>2, <1>3, FS_Subset DEF FilesInv, FilesTyped
<1>5. NewName' = NewName + 1 /\ NewName \in Nat
  <2>1. filesLeft'.backups = filesLeft.backups - 1 /\ filesLeft.backups \in 0..MaxBackups
    BY Spent DEF FilesInv, FilesTyped, Budget
  <2> QED BY <2>1, BudgetBounds DEF NewName
<1>6. \A c \in shelf : c.name < NewName /\ c.name \in Nat
  BY DEF FilesInv, NamesGrow, FilesTyped, Backup
<1>7. b.name < NewName' /\ \A c \in shelf : c.name < NewName' /\ c.name # b.name
  BY <1>2, <1>5, <1>6
<1>8. \A c \in shelf' : c.name < NewName'
  BY <1>1, <1>7
<1>9. \A c, d \in shelf' : c.name = d.name => c = d
  <2>1. \A c, d \in shelf : c.name = d.name => c = d
    BY DEF FilesInv, NamesGrow
  <2> QED BY <1>1, <1>7, <2>1
<1> QED BY <1>4, <1>8, <1>9 DEF NamesGrow


\* What a change of one backup on the list keeps of it.
SameContent(b, c) ==
  /\ c \in Backup /\ c.name = b.name
  /\ c.conf = b.conf /\ c.base = b.base /\ c.log = b.log /\ (c.sound => b.sound)

LEMMA VerifiedContent ==
  ASSUME NEW b \in Backup
  PROVE  SameContent(b, Verified(b))
BY DEF SameContent, Verified, ListedAs, Backup

LEMMA RottenContent ==
  ASSUME NEW b \in Backup
  PROVE  /\ SameContent(b, [b EXCEPT !.sound = FALSE])
         /\ SameContent(b, [b EXCEPT !.info = "unreadable", !.stamped = FALSE])
BY DEF SameContent, Backup

\* A step that changes the list only by changing or removing backups.
ShelfTouched ==
  \/ \E b \in shelf : \E c : SameContent(b, c) /\ shelf' = (shelf \ {b}) \cup {c}
  \/ shelf' \subseteq shelf

LEMMA TouchedIsShelf ==
  ASSUME FilesInv, ShelfTouched, UNCHANGED filesLeft
         \/ \E what \in {"saves", "starts", "faults"} : FilesSpend(what)
  PROVE  /\ shelf' \subseteq Backup /\ IsFiniteSet(shelf')
         /\ NamesGrow'
         /\ \A c \in shelf' : \E b \in shelf : SameContent(b, c)
<1>1. NewName' = NewName
  <2>1. filesLeft'.backups = filesLeft.backups
    BY Spent DEF FilesInv, FilesTyped
  <2> QED BY <2>1, BudgetBounds DEF NewName
<1>2. /\ shelf \subseteq Backup /\ IsFiniteSet(shelf)
      /\ \A b \in shelf : b.name < NewName
      /\ \A b, c \in shelf : b.name = c.name => b = c
  BY DEF FilesInv, FilesTyped, NamesGrow
<1>3. \A b \in shelf : SameContent(b, b)
  BY <1>2 DEF SameContent
<1>4. CASE shelf' \subseteq shelf
  BY <1>1, <1>2, <1>3, <1>4, FS_Subset DEF NamesGrow
<1>5. CASE \E b \in shelf : \E c : SameContent(b, c) /\ shelf' = (shelf \ {b}) \cup {c}
  <2>0. PICK b \in shelf : \E c : SameContent(b, c) /\ shelf' = (shelf \ {b}) \cup {c}
    BY <1>5
  <2>1. PICK c : SameContent(b, c) /\ shelf' = (shelf \ {b}) \cup {c}
    BY <2>0
  <2>2. c \in Backup /\ c.name = b.name
    BY <2>1 DEF SameContent
  <2>3. shelf' \subseteq Backup /\ \A d \in shelf' : \E e \in shelf : SameContent(e, d)
    BY <1>2, <1>3, <2>1, <2>2
  <2>4. IsFiniteSet(shelf')
    BY <1>2, <2>1, FS_RemoveElement, FS_AddElement
  <2>5. \A d \in shelf' : d.name < NewName'
    BY <1>1, <1>2, <2>1, <2>2
  <2>6. \A d, e \in shelf' : d.name = e.name => d = e
    BY <1>2, <2>1, <2>2
  <2> QED BY <2>3, <2>4, <2>5, <2>6 DEF NamesGrow
<1> QED BY <1>4, <1>5 DEF ShelfTouched

-----------------------------------------------------------------------------
(* The steps, by what they do to the list of backups                       *)

\* The steps of a start, of a save and of a failure, which leave the backups alone.
Untouched ==
  \/ Start \/ Refuse \/ ReplaceConfig \/ ReplaceDatabase \/ ReplaceLog \/ RollBackFiles
  \/ FinishRestore \/ Load \/ LoadNothing \/ LoadDefaults \/ StartSave \/ StartClose
  \/ WriteConfig \/ WriteConfigFails \/ WriteData \/ PowerOff \/ Damage \/ RequestUnguarded

\* The steps on the list that make no backup.
Tended == VerifyBackup \/ RotBackup \/ DeleteBackup

LEMMA StepKinds == FilesNext <=> Untouched \/ Tended \/ CreateBackup \/ RequestRestore
BY DEF FilesNext, Untouched, Tended

LEMMA UntouchedShelf ==
  ASSUME Untouched
  PROVE  /\ shelf' = shelf
         /\ UNCHANGED filesLeft \/ \E what \in {"saves", "starts", "faults"} : FilesSpend(what)
BY DEF Untouched, files, Start, Refuse, BackToPending, ReplaceConfig, ReplaceDatabase,
       ReplaceLog, RollBackFiles, FinishRestore, Load, LoadNothing, LoadDefaults, StartSave,
       StartClose, Rotate, WriteConfig, WriteConfigFails, AfterSave, WriteData, PowerOff, Damage,
       RequestUnguarded

LEMMA TendedShelf ==
  ASSUME FilesInv, Tended
  PROVE  /\ ShelfTouched
         /\ UNCHANGED <<conf, spare, data, pending, applied, stage, memory, before, scars>>
         /\ stage \in {"off", "on"}
         /\ UNCHANGED filesLeft \/ \E what \in {"saves", "starts", "faults"} : FilesSpend(what)
<1>1. shelf \subseteq Backup
  BY DEF FilesInv, FilesTyped
<1>2. CASE VerifyBackup
  BY <1>1, <1>2, VerifiedContent DEF VerifyBackup, ShelfTouched
<1>3. CASE RotBackup
  BY <1>1, <1>3, RottenContent DEF RotBackup, ShelfTouched
<1>4. CASE DeleteBackup
  <2>1. shelf' \subseteq shelf
    BY <1>4 DEF DeleteBackup
  <2> QED BY <1>4, <2>1 DEF DeleteBackup, ShelfTouched
<1> QED BY <1>2, <1>3, <1>4 DEF Tended

\* The steps that make a backup.
LEMMA MakingShelf ==
  ASSUME CreateBackup \/ RequestRestore
  PROVE  /\ stage = "on" /\ conf # Absent /\ FilesSpend("backups")
         /\ UNCHANGED <<conf, spare, data, applied, stage, memory, before>>
         /\ \E trigger \in {"manual", "auto"}, withData \in BOOLEAN :
              \E b \in MadeBackup(trigger, withData) :
                shelf' = Retained(shelf \cup {b}) /\ scars' = Copied(b)
         /\ \/ UNCHANGED pending
            \/ \E c \in shelf, withData \in BOOLEAN :
                 pending' = [name |-> c.name, withData |-> withData]
BY DEF CreateBackup, RequestRestore


-----------------------------------------------------------------------------
(* The parts of the invariant, step by step                                *)

\* A backup that is named holds what backups hold.
LEMMA NamedIsBackup ==
  ASSUME FilesInv, NEW r, Exists(r)
  PROVE  Named(r) \in shelf /\ Named(r) \in Backup /\ Named(r).name = r.name
BY DEF Exists, Named, FilesInv, FilesTyped

LEMMA UntouchedTyped ==
  ASSUME FilesInv, Untouched
  PROVE  FilesTyped' /\ NamesGrow'
<1>1. FilesTyped
  BY DEF FilesInv
<1>2. shelf' \subseteq Backup /\ IsFiniteSet(shelf') /\ NamesGrow'
  BY UntouchedShelf, TouchedIsShelf DEF ShelfTouched
<1>3. filesLeft' \in Budget
  BY <1>1, UntouchedShelf, Spent DEF FilesTyped
<1>4. NoRequest \in Request
  BY DEF NoRequest, Request
<1>5. /\ Damaged \in Nat \ {Absent} /\ Absent \in Nat /\ Unreadable = {Damaged, Absent}
      /\ Defaults \in Nat \ Unreadable /\ Newer \in Nat \ Unreadable
  BY <1>1, NewerIsNew DEF Damaged, Absent, Unreadable, Defaults, FilesTyped
<1> DEFINE Rest == /\ conf' \in Nat /\ spare' \in Nat \ {Absent}
                   /\ memory' \in Nat \ Unreadable
                   /\ data' \in Database /\ pending' \in Request /\ applied' \in Request
                   /\ stage' \in Restoring \cup {"off", "loading", "on", "saving", "closing"}
                   /\ before' \in [conf : Nat, data : Database, backup : Request]
<1> SUFFICES Rest
  BY <1>2, <1>3 DEF FilesTyped
<1>6. CASE Start
  BY <1>1, <1>4, <1>6 DEF Start, FilesTyped, Restoring, Undoable
<1>7. CASE Refuse \/ FinishRestore \/ PowerOff
  BY <1>1, <1>4, <1>7 DEF Refuse, FinishRestore, PowerOff, BackToPending, files, FilesTyped
<1>8. CASE ReplaceConfig \/ ReplaceDatabase \/ ReplaceLog
  <2>1. Exists(applied)
    BY <1>8 DEF FilesInv, OneRequest, ReplaceConfig, ReplaceDatabase, ReplaceLog,
                Restoring, Undoable
  <2>2. Named(applied).conf \in Nat /\ Named(applied).base \in Nat /\ Named(applied).log \in Nat
    BY <2>1, NamedIsBackup DEF Backup
  <2>3. CASE ReplaceConfig
    BY <1>1, <2>2, <2>3 DEF ReplaceConfig, FilesTyped, Restoring, Undoable
  <2>4. CASE ReplaceDatabase
    BY <1>1, <2>2, <2>4 DEF ReplaceDatabase, FilesTyped, Restoring, Undoable, Database
  <2>5. CASE ReplaceLog
    BY <1>1, <2>2, <2>5 DEF ReplaceLog, FilesTyped, Restoring, Undoable, Database
  <2> QED BY <1>8, <2>3, <2>4, <2>5
<1>9. CASE RollBackFiles
  BY <1>1, <1>4, <1>9 DEF RollBackFiles, BackToPending, FilesTyped
<1>10. CASE Load \/ LoadNothing \/ LoadDefaults
  BY <1>1, <1>5, <1>10 DEF Load, LoadNothing, LoadDefaults, files, FilesTyped
<1>11. CASE StartSave \/ StartClose
  BY <1>1, <1>5, <1>11 DEF StartSave, StartClose, Rotate, FilesTyped
<1>12. CASE WriteConfig \/ WriteConfigFails
  <2>1. Checkpointed \in Database
    BY <1>1, <1>5 DEF Checkpointed, FilesTyped, Database
  <2> QED BY <1>1, <1>12, <2>1 DEF WriteConfig, WriteConfigFails, AfterSave, FilesTyped
<1>13. CASE WriteData
  BY <1>1, <1>5, <1>13 DEF WriteData, FilesTyped, Database
<1>14. CASE Damage
  BY <1>1, <1>5, <1>14 DEF Damage, FilesTyped
<1>15. CASE RequestUnguarded
  BY <1>1, <1>15 DEF RequestUnguarded, FilesTyped, Request, Backup
<1> QED BY <1>6, <1>7, <1>8, <1>9, <1>10, <1>11, <1>12, <1>13, <1>14, <1>15 DEF Untouched

LEMMA OtherTyped ==
  ASSUME FilesInv, Tended \/ CreateBackup \/ RequestRestore
  PROVE  FilesTyped' /\ NamesGrow'
<1>1. FilesTyped
  BY DEF FilesInv
<1>2. CASE Tended
  <2>1. shelf' \subseteq Backup /\ IsFiniteSet(shelf') /\ NamesGrow'
    BY <1>2, TendedShelf, TouchedIsShelf
  <2>2. filesLeft' \in Budget
    BY <1>1, <1>2, TendedShelf, Spent DEF FilesTyped
  <2> QED BY <1>1, <1>2, <2>1, <2>2, TendedShelf DEF FilesTyped
<1>3. CASE CreateBackup \/ RequestRestore
  <2>1. shelf' \subseteq Backup /\ IsFiniteSet(shelf') /\ NamesGrow'
    BY <1>3, MakingShelf, ShelfGrows
  <2>2. filesLeft' \in Budget
    BY <1>1, <1>3, MakingShelf, Spent DEF FilesTyped
  <2>3. pending' \in Request
    BY <1>1, <1>3, MakingShelf DEF FilesTyped, Request, Backup
  <2> QED BY <1>1, <1>3, <2>1, <2>2, <2>3, MakingShelf DEF FilesTyped
<1> QED BY <1>2, <1>3

LEMMA OneRequestStep ==
  ASSUME FilesInv, FilesNext
  PROVE  OneRequest'
<1>1. OneRequest /\ FilesTyped
  BY DEF FilesInv
<1>2. CASE Untouched
  <2>1. shelf' = shelf
    BY <1>2, UntouchedShelf
  <2>2. CASE Start
    BY <1>1, <2>1, <2>2 DEF Start, OneRequest, Exists, Restoring, Undoable
  <2>3. CASE Refuse \/ FinishRestore \/ PowerOff \/ RollBackFiles
    BY <1>1, <2>1, <2>3
       DEF Refuse, FinishRestore, PowerOff, RollBackFiles, BackToPending, files,
           OneRequest, Restoring, Undoable
  <2>4. CASE ReplaceConfig \/ ReplaceDatabase \/ ReplaceLog
    BY <1>1, <2>1, <2>4
       DEF ReplaceConfig, ReplaceDatabase, ReplaceLog, OneRequest, Exists, Restoring, Undoable,
           FilesTyped, Request
  <2>5. CASE Load \/ LoadNothing \/ LoadDefaults \/ StartSave \/ StartClose \/ WriteConfig
             \/ WriteConfigFails \/ WriteData \/ Damage \/ RequestUnguarded
    BY <1>1, <2>1, <2>5
       DEF Load, LoadNothing, LoadDefaults, StartSave, StartClose, Rotate, WriteConfig,
           WriteConfigFails, AfterSave, WriteData, Damage, RequestUnguarded, files, OneRequest,
           Restoring, Undoable
  <2> QED BY <1>2, <2>2, <2>3, <2>4, <2>5 DEF Untouched
<1>3. CASE Tended
  BY <1>1, <1>3, TendedShelf DEF OneRequest, Restoring, Undoable
<1>4. CASE CreateBackup \/ RequestRestore
  BY <1>1, <1>4, MakingShelf DEF OneRequest, Restoring, Undoable
<1> QED BY <1>2, <1>3, <1>4, StepKinds


\* Outside a start nothing is half way.
LEMMA HalfWayStep ==
  ASSUME FilesInv, FilesNext
  PROVE  HalfWay'
<1>1. FilesTyped /\ OneRequest /\ HalfWay
  BY DEF FilesInv
<1>2. CASE Untouched
  <2>1. shelf' = shelf
    BY <1>2, UntouchedShelf
  <2>2. CASE Start
    BY <1>1, <2>1, <2>2 DEF Start, HalfWay, Kept, Replaced, Named, Exists
  <2>3. CASE Refuse
    BY <1>1, <2>1, <2>3
       DEF Refuse, BackToPending, HalfWay, Kept, Replaced, Named, OneRequest, Restoring, Undoable
  <2>4. CASE ReplaceConfig
    BY <1>1, <2>1, <2>4
       DEF ReplaceConfig, HalfWay, Replaced, Named, OneRequest, Restoring, Undoable
  <2>5. CASE ReplaceDatabase
    <3>1. data'.base = Named(applied).base
      BY <1>1, <2>5 DEF ReplaceDatabase, FilesTyped, Database
    <3> QED BY <1>1, <2>1, <2>5, <3>1 DEF ReplaceDatabase, HalfWay, Named
  <2>6. CASE ReplaceLog
    <3>1. data' = [base |-> Named(applied).base, log |-> Named(applied).log]
      BY <1>1, <2>6 DEF ReplaceLog, FilesTyped, Database, HalfWay
    <3>2. before.backup.withData /\ conf = Named(applied).conf
      BY <1>1, <2>6 DEF ReplaceLog, OneRequest, HalfWay, Restoring, Undoable
    <3> QED BY <1>1, <2>1, <2>6, <3>1, <3>2 DEF ReplaceLog, HalfWay, Replaced, Named
  <2>7. CASE RollBackFiles
    BY <1>1, <2>1, <2>7
       DEF RollBackFiles, BackToPending, HalfWay, Kept, OneRequest, Restoring, Undoable
  <2>8. CASE FinishRestore
    BY <1>1, <2>1, <2>8
       DEF FinishRestore, HalfWay, Replaced, Named, Exists, OneRequest, Restoring, Undoable
  <2>9. CASE Load \/ LoadNothing \/ LoadDefaults \/ StartSave \/ StartClose \/ WriteConfig
             \/ WriteConfigFails \/ WriteData \/ PowerOff \/ Damage \/ RequestUnguarded
    BY <2>9 DEF Load, LoadNothing, LoadDefaults, StartSave, StartClose, Rotate, WriteConfig,
                WriteConfigFails, AfterSave, WriteData, PowerOff, Damage, RequestUnguarded, HalfWay
  <2> QED BY <1>2, <2>2, <2>3, <2>4, <2>5, <2>6, <2>7, <2>8, <2>9 DEF Untouched
<1>3. CASE Tended
  BY <1>3, TendedShelf DEF HalfWay
<1>4. CASE CreateBackup \/ RequestRestore
  BY <1>4, MakingShelf DEF HalfWay
<1> QED BY <1>2, <1>3, <1>4, StepKinds

LEMMA LogsBelongStep ==
  ASSUME FilesInv, FilesNext
  PROVE  LogsBelong'
<1>1. FilesTyped /\ OneRequest /\ HalfWay /\ LogsBelong
  BY DEF FilesInv
<1>2. CASE Untouched
  <2>1. shelf' = shelf
    BY <1>2, UntouchedShelf
  <2>2. CASE Start
    BY <1>1, <2>1, <2>2 DEF Start, LogsBelong, Untorn, Whole, Undoable
  <2>3. CASE Refuse \/ FinishRestore \/ ReplaceConfig
    BY <1>1, <2>1, <2>3
       DEF Refuse, FinishRestore, ReplaceConfig, BackToPending, LogsBelong, Untorn, Whole,
           Undoable
  <2>4. CASE ReplaceDatabase
    BY <1>1, <2>1, <2>4 DEF ReplaceDatabase, LogsBelong, Untorn, Whole, Undoable
  <2>5. CASE ReplaceLog
    <3>1. data' = [base |-> Named(applied).base, log |-> Named(applied).log]
      BY <1>1, <2>5 DEF ReplaceLog, FilesTyped, Database, HalfWay
    <3>2. Named(applied) \in shelf
      BY <1>1, <2>5, NamedIsBackup DEF ReplaceLog, OneRequest, Restoring, Undoable
    <3>3. "copied" \in scars' <=> "copied" \in scars
      BY <2>5 DEF ReplaceLog
    <3> QED BY <1>1, <2>1, <2>5, <3>1, <3>2, <3>3
            DEF ReplaceLog, LogsBelong, Untorn, Whole, Undoable
  <2>6. CASE RollBackFiles
    BY <1>1, <2>1, <2>6 DEF RollBackFiles, LogsBelong, Untorn, Whole, Undoable
  <2>7. CASE WriteConfig \/ WriteConfigFails
    <3>1. Whole(data) => Whole(Checkpointed)
      BY <1>1 DEF Whole, Checkpointed, FilesTyped, Database
    <3>2. /\ Untorn' => Untorn
          /\ "copied" \in scars' <=> "copied" \in scars
      BY <2>7 DEF WriteConfig, WriteConfigFails, Untorn
    <3> QED BY <1>1, <2>1, <2>7, <3>1, <3>2
            DEF WriteConfig, WriteConfigFails, AfterSave, LogsBelong, Whole, Undoable
  <2>8. CASE PowerOff
    BY <1>1, <2>1, <2>8 DEF PowerOff, files, LogsBelong, Untorn, Whole, Undoable
  <2>9. CASE WriteData
    BY <1>1, <2>1, <2>9 DEF WriteData, LogsBelong, Untorn, Whole, Undoable
  <2>10. CASE Load \/ LoadNothing \/ LoadDefaults \/ StartSave \/ StartClose \/ Damage
              \/ RequestUnguarded
    <3>1. /\ \A scar \in {"torn", "copied"} : scar \in scars' <=> scar \in scars
          /\ data' = data
      BY <2>10 DEF Load, LoadNothing, LoadDefaults, files, StartSave, StartClose, Rotate, Damage,
                   RequestUnguarded
    <3>2. stage # "database" /\ stage \notin Undoable /\ stage' \notin Undoable
      BY <2>10 DEF Load, LoadNothing, LoadDefaults, StartSave, StartClose, Rotate, Damage,
                   RequestUnguarded, Undoable
    <3> QED BY <1>1, <2>1, <3>1, <3>2 DEF LogsBelong, Untorn, Whole, Undoable
  <2> QED BY <1>2, <2>2, <2>3, <2>4, <2>5, <2>6, <2>7, <2>8, <2>9, <2>10 DEF Untouched
<1>3. CASE Tended
  <2>1. \A c \in shelf' : \E b \in shelf : SameContent(b, c)
    BY <1>3, TendedShelf, TouchedIsShelf
  <2> QED BY <1>1, <1>3, <2>1, TendedShelf DEF LogsBelong, Untorn, Whole, SameContent, Undoable
<1>4. CASE CreateBackup \/ RequestRestore
  <2>1. PICK trigger \in {"manual", "auto"}, withData \in BOOLEAN :
          \E b \in MadeBackup(trigger, withData) :
            shelf' = Retained(shelf \cup {b}) /\ scars' = Copied(b)
    BY <1>4, MakingShelf
  <2>2. PICK b \in MadeBackup(trigger, withData) :
          shelf' = Retained(shelf \cup {b}) /\ scars' = Copied(b)
    BY <2>1
  <2>3. shelf' \subseteq shelf \cup {b}
    BY <2>2, RetainedSome
  <2>4. b.log # Damaged => b.log = data.log /\ b.base = data.base
    BY <1>1, MadeBackupIsBackup DEF FilesTyped
  <2>5. UNCHANGED <<data, stage, before>> /\ stage = "on"
    BY <1>4, MakingShelf
  <2>6. "torn" \in scars' <=> "torn" \in scars
    BY <2>2 DEF Copied
  <2>7. "copied" \notin scars' => "copied" \notin scars /\ ("torn" \in scars => b.log = Damaged)
    BY <2>2 DEF Copied
  <2>8. "copied" \notin scars' => Whole(b)
    BY <1>1, <2>4, <2>5, <2>7 DEF LogsBelong, Untorn, Whole
  <2> QED BY <1>1, <2>3, <2>5, <2>6, <2>7, <2>8 DEF LogsBelong, Untorn, Whole, Undoable
<1> QED BY <1>2, <1>3, <1>4, StepKinds


LEMMA ReadableStep ==
  ASSUME FilesInv, FilesNext
  PROVE  Readable'
<1>1. FilesTyped /\ OneRequest /\ Readable
  BY DEF FilesInv
<1>2. CASE Untouched
  <2>1. shelf' = shelf
    BY <1>2, UntouchedShelf
  <2>2. CASE Start \/ Refuse \/ FinishRestore \/ ReplaceDatabase \/ ReplaceLog \/ PowerOff
    <3>1. /\ UNCHANGED <<conf, spare>>
          /\ \A scar \in {"hurt", "stale"} : scar \in scars' <=> scar \in scars
          /\ stage' \notin {"saving", "closing"}
          /\ stage' \in Undoable => before'.conf = IF stage = "off" THEN conf ELSE before.conf
          /\ stage' \in Undoable => stage \in Undoable \cup {"off"}
      BY <2>2 DEF Start, Refuse, FinishRestore, ReplaceDatabase, ReplaceLog, PowerOff,
                  BackToPending, files, Undoable
    <3> QED BY <1>1, <2>1, <3>1 DEF Readable, Undoable
  <2>3. CASE ReplaceConfig
    <3>1. Named(applied) \in shelf
      BY <1>1, <2>3, NamedIsBackup DEF ReplaceConfig, OneRequest, Restoring, Undoable
    <3>2. Named(applied).conf \notin Unreadable
      BY <1>1, <2>3, <3>1 DEF ReplaceConfig, Readable, Unreadable
    <3> QED BY <1>1, <2>1, <2>3, <3>2 DEF ReplaceConfig, Readable, Undoable
  <2>4. CASE RollBackFiles
    BY <1>1, <2>1, <2>4 DEF RollBackFiles, Readable, Undoable
  <2>5. CASE Load \/ LoadNothing \/ LoadDefaults
    BY <1>1, <2>1, <2>5
       DEF Load, LoadNothing, LoadDefaults, files, Readable, Undoable, Unreadable, FilesTyped
  <2>6. CASE StartSave \/ StartClose
    BY <1>1, <2>1, <2>6 DEF StartSave, StartClose, Rotate, Readable, Undoable, Unreadable
  <2>7. CASE WriteConfig \/ WriteConfigFails
    BY <1>1, <2>1, <2>7 DEF WriteConfig, WriteConfigFails, AfterSave, Readable, Undoable, FilesTyped
  <2>8. CASE WriteData \/ Damage \/ RequestUnguarded
    BY <1>1, <2>1, <2>8 DEF WriteData, Damage, RequestUnguarded, Readable, Undoable
  <2> QED BY <1>2, <2>2, <2>3, <2>4, <2>5, <2>6, <2>7, <2>8 DEF Untouched
<1>3. CASE Tended
  <2>1. \A c \in shelf' : \E b \in shelf : SameContent(b, c)
    BY <1>3, TendedShelf, TouchedIsShelf
  <2> QED BY <1>1, <1>3, <2>1, TendedShelf DEF Readable, SameContent
<1>4. CASE CreateBackup \/ RequestRestore
  <2>1. PICK trigger \in {"manual", "auto"}, withData \in BOOLEAN :
          \E b \in MadeBackup(trigger, withData) :
            shelf' = Retained(shelf \cup {b}) /\ scars' = Copied(b)
    BY <1>4, MakingShelf
  <2>2. PICK b \in MadeBackup(trigger, withData) :
          shelf' = Retained(shelf \cup {b}) /\ scars' = Copied(b)
    BY <2>1
  <2>3. /\ shelf' \subseteq shelf \cup {b}
        /\ \A scar \in {"hurt", "stale"} : scar \in scars' <=> scar \in scars
    BY <2>2, RetainedSome DEF Copied
  <2>4. b.conf # Absent /\ (b.sound => b.conf # Damaged)
    BY <1>1, <1>4, MakingShelf, MadeBackupIsBackup DEF FilesTyped
  <2>5. UNCHANGED <<conf, spare, stage, before>>
    BY <1>4, MakingShelf
  <2> QED BY <1>1, <2>3, <2>4, <2>5 DEF Readable
<1> QED BY <1>2, <1>3, <1>4, StepKinds

LEMMA DefaultsSavedStep ==
  ASSUME FilesInv, FilesNext
  PROVE  DefaultsSaved'
<1>1. FilesTyped /\ OneRequest /\ Readable /\ DefaultsSaved
  BY DEF FilesInv
<1>2. Defaults \notin Unreadable /\ Newer # Defaults /\ Damaged \in Unreadable
  BY <1>1, NewerIsNew DEF Damaged, Absent, Unreadable, Defaults, FilesTyped
<1>3. CASE Untouched
  <2>1. shelf' = shelf
    BY <1>3, UntouchedShelf
  <2>2. CASE Start \/ Refuse \/ FinishRestore \/ ReplaceDatabase \/ ReplaceLog \/ PowerOff
    <3>1. /\ UNCHANGED <<conf, spare, memory>>
          /\ \A scar \in {"hurt", "gone", "lost", "stale", "reset"} :
               scar \in scars' <=> scar \in scars
          /\ stage' \in Undoable => before'.conf = IF stage = "off" THEN conf ELSE before.conf
          /\ stage' \in Undoable => stage \in Undoable \cup {"off"}
      BY <2>2 DEF Start, Refuse, FinishRestore, ReplaceDatabase, ReplaceLog, PowerOff,
                  BackToPending, files, Undoable
    <3> QED BY <1>1, <2>1, <3>1 DEF DefaultsSaved, Undoable
  <2>3. CASE ReplaceConfig
    <3>1. Named(applied) \in shelf
      BY <1>1, <2>3, NamedIsBackup DEF ReplaceConfig, OneRequest, Restoring, Undoable
    <3> QED BY <1>1, <2>1, <2>3, <3>1 DEF ReplaceConfig, DefaultsSaved, Undoable
  <2>4. CASE RollBackFiles
    BY <1>1, <2>1, <2>4 DEF RollBackFiles, DefaultsSaved, Undoable
  <2>5. CASE Load \/ LoadNothing \/ LoadDefaults
    BY <1>1, <1>2, <2>1, <2>5
       DEF Load, LoadNothing, LoadDefaults, files, Readable, DefaultsSaved, Undoable, Unreadable
  <2>6. CASE StartSave \/ StartClose
    BY <1>1, <1>2, <2>1, <2>6 DEF StartSave, StartClose, Rotate, DefaultsSaved, Undoable
  <2>7. CASE WriteConfig \/ WriteConfigFails
    BY <1>1, <2>1, <2>7 DEF WriteConfig, WriteConfigFails, AfterSave, DefaultsSaved, Undoable
  <2>8. CASE WriteData \/ Damage \/ RequestUnguarded
    BY <1>1, <1>2, <2>1, <2>8
       DEF WriteData, Damage, RequestUnguarded, Readable, DefaultsSaved, Undoable
  <2> QED BY <1>3, <2>2, <2>3, <2>4, <2>5, <2>6, <2>7, <2>8 DEF Untouched
<1>4. CASE Tended
  <2>1. \A c \in shelf' : \E b \in shelf : SameContent(b, c)
    BY <1>4, TendedShelf, TouchedIsShelf
  <2> QED BY <1>1, <1>4, <2>1, TendedShelf DEF DefaultsSaved, SameContent
<1>5. CASE CreateBackup \/ RequestRestore
  <2>1. PICK trigger \in {"manual", "auto"}, withData \in BOOLEAN :
          \E b \in MadeBackup(trigger, withData) :
            shelf' = Retained(shelf \cup {b}) /\ scars' = Copied(b)
    BY <1>5, MakingShelf
  <2>2. PICK b \in MadeBackup(trigger, withData) :
          shelf' = Retained(shelf \cup {b}) /\ scars' = Copied(b)
    BY <2>1
  <2>3. /\ shelf' \subseteq shelf \cup {b}
        /\ \A scar \in {"hurt", "gone", "lost", "stale", "reset"} :
             scar \in scars' <=> scar \in scars
    BY <2>2, RetainedSome DEF Copied
  <2>4. b.conf = conf
    BY <1>1, MadeBackupIsBackup DEF FilesTyped
  <2>5. UNCHANGED <<conf, spare, memory, stage, before>>
    BY <1>5, MakingShelf
  <2> QED BY <1>1, <2>3, <2>4, <2>5 DEF DefaultsSaved
<1> QED BY <1>3, <1>4, <1>5, StepKinds

-----------------------------------------------------------------------------
(* FilesInv is inductive.                                                  *)

LEMMA InitFilesInv == FilesInit => FilesInv
<1> SUFFICES ASSUME FilesInit PROVE FilesInv
  OBVIOUS
<1> USE DEF FilesInit, Damaged, Absent, Unreadable, NoRequest
<1>1. filesLeft \in Budget
  BY FilePlansBounded DEF Budget
<1>2. FilesTyped
  BY <1>1, FS_EmptySet DEF FilesTyped, Database, Request
<1>3. NamesGrow /\ OneRequest /\ HalfWay
  BY DEF NamesGrow, OneRequest, HalfWay, Restoring, Undoable
<1>4. LogsBelong /\ Readable /\ DefaultsSaved
  BY DEF LogsBelong, Whole, Untorn, Readable, DefaultsSaved, Undoable, Defaults
<1> QED BY <1>2, <1>3, <1>4 DEF FilesInv

LEMMA NextFilesInv == FilesInv /\ [FilesNext]_filesVars => FilesInv'
<1> SUFFICES ASSUME FilesInv, [FilesNext]_filesVars PROVE FilesInv'
  OBVIOUS
<1>1. CASE FilesNext
  <2>1. FilesTyped' /\ NamesGrow'
    BY <1>1, UntouchedTyped, OtherTyped, StepKinds
  <2> QED BY <1>1, <2>1, OneRequestStep, HalfWayStep, LogsBelongStep, ReadableStep,
             DefaultsSavedStep DEF FilesInv
<1>2. CASE UNCHANGED filesVars
  BY <1>2 DEF filesVars, files, FilesInv, FilesTyped, NamesGrow, NewName, OneRequest, Exists,
              HalfWay, Kept, Replaced, Named, LogsBelong, Untorn, Whole, Readable, DefaultsSaved
<1> QED BY <1>1, <1>2

LEMMA AlwaysFilesInv == FilesSpec => []FilesInv
BY InitFilesInv, NextFilesInv, PTL DEF FilesSpec

-----------------------------------------------------------------------------
(* The types, and that one name stands for one backup and one request lies  *)
(* in one file (backup_support/manager.py).                                 *)
THEOREM FilesTypeCorrect == FilesSpec => []FilesTypeOK
<1>1. FilesInv => FilesTypeOK
  BY DEF FilesInv, FilesTyped, NamesGrow, OneRequest, FilesTypeOK, Database, Restoring, Undoable
<1> QED BY <1>1, AlwaysFilesInv, PTL

\* A start opens the files of one moment, whatever step of a restore fails: what the
\* last run left, with the request still there, or all the backup holds (restore.py).
THEOREM RestoreIsAtomic == FilesSpec => []RestoreAllOrNothing
<1>1. FilesInv => RestoreAllOrNothing
  BY DEF FilesInv, HalfWay, LogsBelong, Kept, Replaced, Untorn, Whole, RestoreAllOrNothing, Undoable
<1> QED BY <1>1, AlwaysFilesInv, PTL

\* However kills, restores and damage to one file at a time are interleaved with saves,
\* one of the two settings files can be read unless a save could not renew a damaged
\* .backup, and the defaults show up only after that, after a start without a settings
\* file or where the .backup could not be put back (config_store_support/io.py).
THEOREM SettingsOutlastDamage == FilesSpec => []SettingsSurvive
<1>1. FilesInv => SettingsSurvive
  BY DEF FilesInv, Readable, DefaultsSaved, SettingsSurvive
<1> QED BY <1>1, AlwaysFilesInv, PTL


-----------------------------------------------------------------------------
(* Retention                                                               *)

\* A set of numbers has a least one: of the initial segments up to its members one has
\* no smaller one within it.
LEMMA LeastIndex ==
  ASSUME NEW T \in SUBSET Nat, T # {}
  PROVE  \E n \in T : \A k \in T : n <= k
<1> DEFINE F == {0..n : n \in T}
<1>1. F \subseteq FiniteSubsetsOf(Nat) /\ F # {}
  <2>1. \A n \in T : 0..n \subseteq Nat /\ IsFiniteSet(0..n)
    BY FS_Interval
  <2> QED BY <2>1 DEF FiniteSubsetsOf
<1>2. IsWellFoundedOn(StrictSubsetOrdering(Nat), FiniteSubsetsOf(Nat))
  BY FS_StrictSubsetOrderingWellFounded
<1>3. PICK U \in F : \A V \in F : <<V, U>> \notin StrictSubsetOrdering(Nat)
  <2> HIDE DEF F
  <2> QED BY <1>1, <1>2, WFMin
<1>4. PICK n \in T : U = 0..n
  OBVIOUS
<1>5. ASSUME NEW k \in T, k < n PROVE FALSE
  <2>1. n \in 0..n /\ n \notin 0..k
    BY <1>5
  <2>2. 0..k \in F /\ 0..k \subseteq 0..n /\ 0..k # 0..n
    BY <1>5, <2>1
  <2>3. <<0..k, 0..n>> \in (SUBSET Nat) \X (SUBSET Nat)
    OBVIOUS
  <2>4. <<0..k, 0..n>> \in StrictSubsetOrdering(Nat)
    BY <2>2, <2>3 DEF StrictSubsetOrdering
  <2> QED BY <1>3, <1>4, <2>2, <2>4
<1> QED BY <1>5

\* The backups of S that are listed before b and with it.
AheadOf(S, b) == {c \in S : ListedAs(c) = ListedAs(b) /\ ListedBefore(c, b)}
Limit(b) == IF ListedAs(b) = "manual" THEN MaxManual ELSE MaxAuto

LEMMA RetainedByPlace ==
  ASSUME NEW S
  PROVE  Retained(S) = {b \in S : Cardinality(AheadOf(S, b)) < Limit(b)}
BY DEF Retained, AheadOf, Limit

\* What is listed before one that stays, stays.
LEMMA OlderGoFirst ==
  ASSUME NEW S \in SUBSET Backup, IsFiniteSet(S),
         NEW b \in S \ Retained(S), NEW c \in Retained(S), ListedAs(c) = ListedAs(b)
  PROVE  ~ ListedBefore(b, c)
<1> SUFFICES ASSUME ListedBefore(b, c) PROVE FALSE
  OBVIOUS
<1>1. AheadOf(S, b) \subseteq AheadOf(S, c)
  <2> SUFFICES ASSUME NEW d \in AheadOf(S, b) PROVE d \in AheadOf(S, c)
    OBVIOUS
  <2>1. {d, b, c} \subseteq Backup
    BY RetainedSome DEF AheadOf
  <2>2. ListedBefore(d, b)
    BY DEF AheadOf
  <2>3. ListedBefore(d, c)
    BY <2>1, <2>2 DEF ListedBefore, Backup
  <2> QED BY <2>3 DEF AheadOf
<1>2. IsFiniteSet(AheadOf(S, c)) /\ IsFiniteSet(AheadOf(S, b))
  BY FS_Subset DEF AheadOf
<1>3. Cardinality(AheadOf(S, b)) <= Cardinality(AheadOf(S, c))
  BY <1>1, <1>2, FS_Subset
<1>4. Limit(b) = Limit(c) /\ Limit(b) \in Nat
  BY RetentionPositive DEF Limit
<1>5. Cardinality(AheadOf(S, c)) < Limit(c) /\ ~ Cardinality(AheadOf(S, b)) < Limit(b)
  BY RetainedByPlace
<1>6. Cardinality(AheadOf(S, b)) \in Nat /\ Cardinality(AheadOf(S, c)) \in Nat
  BY <1>2, FS_CardinalityType
<1> QED BY <1>3, <1>4, <1>5, <1>6

\* The manual backups with a time stamp; those made otherwise never become one of them.
Manual(S) == {b \in S : b.stamped /\ ListedAs(b) = "manual"}

\* Retention leaves at most MaxManual of them.
LEMMA ManualLimit ==
  ASSUME NEW S \in SUBSET Backup, IsFiniteSet(S), \A b, c \in S : b.name = c.name => b = c
  PROVE  Cardinality(Manual(Retained(S))) <= MaxManual
<1> DEFINE R == Manual(Retained(S))
<1>1. R \subseteq S /\ IsFiniteSet(R)
  BY RetainedSome, FS_Subset DEF Manual
<1>2. MaxManual \in Nat
  BY RetentionPositive
<1>3. CASE R = {}
  BY <1>2, <1>3, FS_EmptySet
<1>4. CASE R # {}
  <2>1. PICK x \in R : \A y \in R : x.name <= y.name
    <3> DEFINE T == {y.name : y \in R}
    <3>1. T \in SUBSET Nat /\ T # {}
      BY <1>1, <1>4 DEF Backup
    <3>2. PICK n \in T : \A k \in T : n <= k
      <4> HIDE DEF T
      <4> QED BY <3>1, LeastIndex
    <3> QED BY <3>2
  <2>2. R \ {x} \subseteq AheadOf(S, x)
    <3> SUFFICES ASSUME NEW y \in R \ {x} PROVE y \in AheadOf(S, x)
      OBVIOUS
    <3>1. y.name > x.name
      BY <1>1, <2>1 DEF Backup
    <3>2. y.stamped /\ x.stamped /\ ListedAs(y) = ListedAs(x)
      BY DEF Manual
    <3>3. ListedBefore(y, x)
      BY <3>1, <3>2 DEF ListedBefore
    <3> QED BY <1>1, <3>2, <3>3 DEF AheadOf
  <2>3. IsFiniteSet(AheadOf(S, x))
    BY FS_Subset DEF AheadOf
  <2>4. Cardinality(R \ {x}) <= Cardinality(AheadOf(S, x))
    BY <2>2, <2>3, FS_Subset
  <2>5. Cardinality(R \ {x}) = Cardinality(R) - 1
    BY <1>1, FS_RemoveElement
  <2>6. Cardinality(AheadOf(S, x)) < MaxManual
    BY RetainedByPlace DEF Manual, Limit
  <2>7. Cardinality(R) \in Nat /\ Cardinality(AheadOf(S, x)) \in Nat
    BY <1>1, <2>3, FS_CardinalityType
  <2> HIDE DEF R
  <2>8. Cardinality(R) <= MaxManual
    BY <1>2, <2>4, <2>5, <2>6, <2>7
  <2> QED BY <2>8 DEF R
<1> QED BY <1>3, <1>4


\* There are never more of them than retention keeps.
FewManual == Cardinality(Manual(shelf)) <= MaxManual

LEMMA FewManualStep ==
  ASSUME FilesInv, FewManual, FilesNext
  PROVE  FewManual'
<1>1. shelf \subseteq Backup /\ IsFiniteSet(shelf) /\ NamesGrow
  BY DEF FilesInv, FilesTyped
<1>2. IsFiniteSet(Manual(shelf)) /\ Cardinality(Manual(shelf)) \in Nat /\ MaxManual \in Nat
  BY <1>1, FS_Subset, FS_CardinalityType, RetentionPositive DEF Manual
<1>3. CASE Untouched
  BY <1>3, UntouchedShelf DEF FewManual
<1>4. ASSUME NEW b \in shelf, NEW c, c \in Manual({c}) => b \in Manual(shelf),
             shelf' = (shelf \ {b}) \cup {c}
      PROVE  FewManual'
  <2>1. CASE c \in Manual({c})
    <3>1. Manual(shelf') = (Manual(shelf) \ {b}) \cup {c}
      BY <1>4, <2>1 DEF Manual
    <3>2. /\ IsFiniteSet(Manual(shelf) \ {b})
          /\ Cardinality(Manual(shelf) \ {b}) = Cardinality(Manual(shelf)) - 1
      BY <1>2, <1>4, <2>1, FS_RemoveElement
    <3>3. Cardinality(Manual(shelf')) \in {Cardinality(Manual(shelf) \ {b}),
                                           Cardinality(Manual(shelf) \ {b}) + 1}
      BY <3>1, <3>2, FS_AddElement
    <3>4. Cardinality(Manual(shelf')) <= Cardinality(Manual(shelf))
      BY <1>2, <3>2, <3>3
    <3>5. Cardinality(Manual(shelf')) \in Int
      BY <1>2, <3>2, <3>3
    <3> QED BY <1>2, <3>4, <3>5 DEF FewManual
  <2>2. CASE c \notin Manual({c})
    <3>1. Manual(shelf') \in SUBSET Manual(shelf)
      BY <1>4, <2>2 DEF Manual
    <3>2. IsFiniteSet(Manual(shelf')) /\ Cardinality(Manual(shelf')) <= Cardinality(Manual(shelf))
      BY <1>2, <3>1, FS_Subset
    <3> QED BY <1>2, <3>2, FS_CardinalityType DEF FewManual
  <2> QED BY <2>1, <2>2
<1>5. CASE VerifyBackup
  <2>1. PICK b \in shelf : shelf' = (shelf \ {b}) \cup {Verified(b)}
    BY <1>5 DEF VerifyBackup
  <2>2. Verified(b) \in Manual({Verified(b)}) => b \in Manual(shelf)
    BY <1>1, <2>1 DEF Manual, Verified, ListedAs, Backup
  <2> QED BY <1>4, <2>1, <2>2
<1>6. CASE RotBackup
  <2>1. PICK b \in shelf :
          \/ shelf' = (shelf \ {b}) \cup {[b EXCEPT !.sound = FALSE]}
          \/ shelf' = (shelf \ {b}) \cup {[b EXCEPT !.info = "unreadable", !.stamped = FALSE]}
    BY <1>6 DEF RotBackup
  <2> DEFINE c == [b EXCEPT !.sound = FALSE]
             d == [b EXCEPT !.info = "unreadable", !.stamped = FALSE]
  <2>2. (c \in Manual({c}) => b \in Manual(shelf)) /\ d \notin Manual({d})
    BY <1>1, <2>1 DEF Manual, ListedAs, Backup
  <2> HIDE DEF c, d
  <2>3. CASE shelf' = (shelf \ {b}) \cup {c}
    BY <1>4, <2>2, <2>3
  <2>4. CASE shelf' = (shelf \ {b}) \cup {d}
    BY <1>4, <2>2, <2>4
  <2> QED BY <2>1, <2>3, <2>4 DEF c, d
<1>7. CASE DeleteBackup
  <2>1. shelf' \subseteq shelf
    BY <1>7 DEF DeleteBackup
  <2>2. Manual(shelf') \in SUBSET Manual(shelf)
    BY <2>1 DEF Manual
  <2>3. IsFiniteSet(Manual(shelf')) /\ Cardinality(Manual(shelf')) <= Cardinality(Manual(shelf))
    BY <1>2, <2>2, FS_Subset
  <2> QED BY <1>2, <2>3, FS_CardinalityType DEF FewManual
<1>8. CASE CreateBackup \/ RequestRestore
  <2>1. PICK trigger \in {"manual", "auto"}, withData \in BOOLEAN :
          \E b \in MadeBackup(trigger, withData) :
            shelf' = Retained(shelf \cup {b}) /\ scars' = Copied(b)
    BY <1>8, MakingShelf
  <2>2. PICK b \in MadeBackup(trigger, withData) : shelf' = Retained(shelf \cup {b})
    BY <2>1
  <2>3. b \in Backup /\ \A c \in shelf : c.name # b.name
    BY <1>1, MadeBackupIsBackup, NewNameIsName DEF FilesInv, FilesTyped, NamesGrow, Backup
  <2>4. \A c, d \in shelf \cup {b} : c.name = d.name => c = d
    BY <1>1, <2>3 DEF NamesGrow
  <2>5. shelf \cup {b} \in SUBSET Backup /\ IsFiniteSet(shelf \cup {b})
    BY <1>1, <2>3, FS_AddElement
  <2> QED BY <2>2, <2>4, <2>5, ManualLimit DEF FewManual
<1> QED BY <1>3, <1>5, <1>6, <1>7, <1>8, StepKinds DEF Tended

LEMMA AlwaysFewManual == FilesSpec => [](FilesInv /\ FewManual)
<1>1. FilesInit => FilesInv /\ FewManual
  <2>1. FilesInit => FewManual
    <3>1. FilesInit => Manual(shelf) = {}
      BY DEF FilesInit, Manual
    <3> QED BY <3>1, FS_EmptySet, RetentionPositive DEF FewManual
  <2> QED BY <2>1, InitFilesInv
<1>2. FilesInv /\ FewManual /\ [FilesNext]_filesVars => (FilesInv /\ FewManual)'
  <2>1. FewManual /\ UNCHANGED filesVars => FewManual'
    BY DEF FewManual, filesVars, files
  <2> QED BY <2>1, FewManualStep, NextFilesInv
<1> QED BY <1>1, <1>2, PTL DEF FilesSpec

\* What retention deletes is older than what it keeps of the kind, and an automatic
\* backup retires no manual one while all have their time stamps
\* (backup_support/manager.py, _cleanup_old_backups).
THEOREM RetentionIsFair == FilesSpec => RetentionFair
<1> DEFINE Fair ==
      filesLeft'.backups < filesLeft.backups =>
        \A b \in {x \in shelf : ~ \E y \in shelf' : y.name = x.name} :
          /\ \A c \in shelf' : ListedAs(c) = ListedAs(b) => c.name > b.name \/ ~ c.stamped
          /\ (\E c \in shelf' : c.name = NewName /\ c.trigger = "auto")
               => ListedAs(b) = "auto" \/ \E c \in shelf : ~ c.stamped
<1>1. FilesInv /\ FewManual /\ [FilesNext]_filesVars => Fair
  <2> SUFFICES ASSUME FilesInv, FewManual, [FilesNext]_filesVars,
                      filesLeft'.backups < filesLeft.backups,
                      NEW b \in shelf, ~ \E y \in shelf' : y.name = b.name
               PROVE  /\ \A c \in shelf' :
                           ListedAs(c) = ListedAs(b) => c.name > b.name \/ ~ c.stamped
                      /\ (\E c \in shelf' : c.name = NewName /\ c.trigger = "auto")
                           => ListedAs(b) = "auto" \/ \E c \in shelf : ~ c.stamped
    OBVIOUS
  <2>1. shelf \subseteq Backup /\ IsFiniteSet(shelf) /\ filesLeft \in Budget
    BY DEF FilesInv, FilesTyped
  <2>2. CreateBackup \/ RequestRestore
    <3>1. filesLeft.backups \in Nat
      BY <2>1, BudgetBounds DEF Budget
    <3>2. filesLeft'.backups # filesLeft.backups
      BY <3>1
    <3>3. ~ UNCHANGED filesVars
      BY <3>2 DEF filesVars
    <3>4. ~ (UNCHANGED filesLeft \/ \E what \in {"saves", "starts", "faults"} : FilesSpend(what))
      BY <2>1, <3>2, Spent
    <3> QED BY <3>3, <3>4, StepKinds, UntouchedShelf, TendedShelf
  <2>3. PICK trigger \in {"manual", "auto"}, withData \in BOOLEAN :
          \E n \in MadeBackup(trigger, withData) :
            shelf' = Retained(shelf \cup {n}) /\ scars' = Copied(n)
    BY <2>2, MakingShelf
  <2>4. PICK n \in MadeBackup(trigger, withData) : shelf' = Retained(shelf \cup {n})
    BY <2>3
  <2> DEFINE S == shelf \cup {n}
  <2>5. n \in Backup /\ n.name = NewName /\ n.trigger = trigger /\ n.info \in {"ok", "failed"}
    BY <2>1, MadeBackupIsBackup DEF FilesInv, FilesTyped
  <2>6. S \in SUBSET Backup /\ IsFiniteSet(S) /\ b \in S \ Retained(S)
    BY <2>1, <2>4, <2>5, FS_AddElement
  <2>7. \A c \in shelf' : c \in S /\ c.name # b.name
    BY <2>4, RetainedSome
  <2>8. ASSUME NEW c \in shelf', ListedAs(c) = ListedAs(b), c.stamped
        PROVE  c.name > b.name
    <3>1. ~ ListedBefore(b, c)
      BY <2>4, <2>6, <2>8, OlderGoFirst
    <3>2. c.name \in Nat /\ b.name \in Nat /\ c.name # b.name /\ b.stamped \in BOOLEAN
      BY <2>6, <2>7 DEF Backup
    <3>3. b.stamped = TRUE /\ c.stamped = TRUE
      BY <2>6, <2>7, <2>8, <3>1 DEF ListedBefore, Backup
    <3>4. ~ (b.name > c.name)
      BY <3>1, <3>3 DEF ListedBefore
    <3> QED BY <3>2, <3>4
  <2>9. ASSUME NEW c \in shelf', c.name = NewName, c.trigger = "auto",
               ListedAs(b) # "auto", \A d \in shelf : d.stamped
        PROVE  FALSE
    <3>1. c = n
      <4>1. \A d \in shelf : d.name < NewName /\ d.name \in Nat
        BY <2>1 DEF FilesInv, NamesGrow, Backup
      <4> QED BY <2>5, <2>7, <2>9, <4>1, NewNameIsName, <2>1
    <3>2. ListedAs(n) = "auto" /\ ListedAs(b) = "manual"
      BY <2>1, <2>5, <2>9, <3>1 DEF ListedAs, Backup
    <3>3. AheadOf(S, b) \subseteq Manual(shelf) \ {b} /\ b \in Manual(shelf)
      <4>1. ~ ListedBefore(b, b)
        BY <2>1 DEF ListedBefore, Backup
      <4> QED BY <2>9, <3>2, <4>1 DEF AheadOf, Manual
    <3>4. IsFiniteSet(Manual(shelf)) /\ Cardinality(Manual(shelf)) \in Nat
      BY <2>1, FS_Subset, FS_CardinalityType DEF Manual
    <3>5. /\ IsFiniteSet(Manual(shelf) \ {b})
          /\ Cardinality(Manual(shelf) \ {b}) = Cardinality(Manual(shelf)) - 1
      BY <3>3, <3>4, FS_RemoveElement
    <3>6. IsFiniteSet(AheadOf(S, b)) /\ Cardinality(AheadOf(S, b)) <= Cardinality(Manual(shelf)) - 1
      <4> DEFINE M == Manual(shelf) \ {b}
                 B == AheadOf(S, b)
      <4>1. B \in SUBSET M /\ IsFiniteSet(M)
        BY <3>3, <3>5
      <4> HIDE DEF M, B
      <4>2. IsFiniteSet(B) /\ Cardinality(B) <= Cardinality(M)
        BY <4>1, FS_Subset
      <4> QED BY <3>5, <4>2 DEF M, B
    <3>7. Cardinality(AheadOf(S, b)) \in Nat /\ MaxManual \in Nat
      BY <3>6, FS_CardinalityType, RetentionPositive
    <3>8. Cardinality(AheadOf(S, b)) < MaxManual
      BY <3>4, <3>6, <3>7 DEF FewManual
    <3> QED BY <2>6, <3>2, <3>8, RetainedByPlace DEF Limit
  <2> QED BY <2>8, <2>9
<1>2. FilesInv /\ FewManual /\ [FilesNext]_filesVars => [Fair]_filesVars
  BY <1>1
<1> QED BY <1>2, AlwaysFewManual, PTL DEF FilesSpec, RetentionFair
=============================================================================
