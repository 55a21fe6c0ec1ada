---------------------------- MODULE SettingsImport ----------------------------
(***************************************************************************)
(* The settings of the running program, the file they are saved in and the *)
(* start-up entry of the system, which three operations keep in step: the  *)
(* settings dialog, the import of a settings file (which is merged into    *)
(* the present settings, and undone when a step of it fails) and a start.  *)
(* Of the fields that are merely replaced, one number and two switches are *)
(* modelled; the merged ones are each modelled.  A raw value of a file is  *)
(* the set of what it parses to: {} where it is missing or junk.           *)
(***************************************************************************)
EXTENDS Integers, Sequences, SequencesExt, FiniteSets

CONSTANTS
  Texts,         \* keywords as typed
  KeyOf,         \* the canonical fetch key of each, "" for one that is not a search
  Policies,      \* the refresh policies, "inherit" among them
  MaxWords,      \* length of the list of alert keywords
  MaxHistory,    \* length of the search history
  MaxCursor,     \* the last start index the news service accepts
  Timeouts,      \* [lo, hi], the range of the timeout
  Allowed,       \* the backup intervals on offer
  DefaultEvery,  \* the one in DEFAULT_CONFIG
  ImportFiles,   \* the settings files a user may import
  PrefsPlans     \* the budgets: imports, faults, starts; whether the system has
                 \* start-up entries and a tray

ASSUME IntervalDefault == DefaultEvery \in Allowed
ASSUME TimeoutRange == {Timeouts.lo, Timeouts.hi} \subseteq Int /\ Timeouts.lo <= Timeouts.hi
ASSUME ListLimits == {MaxWords, MaxHistory, MaxCursor} \subseteq Nat /\ MaxCursor # 0
ASSUME ImportFilesTyped ==
  \A f \in ImportFiles :
    /\ {"auto", "mini", "foreign", "timeout", "every", "words", "tabs", "history",
        "cursors", "totals", "policies"} \subseteq DOMAIN f
    /\ f.auto \subseteq BOOLEAN /\ f.mini \subseteq BOOLEAN /\ f.timeout \subseteq Int
    /\ {f.words, f.tabs, f.history} \subseteq Seq(Texts)
    /\ \A k \in DOMAIN f.cursors : f.cursors[k] \subseteq Int
    /\ \A k \in DOMAIN f.totals : f.totals[k] \subseteq Int
ASSUME PrefsPlansTyped ==
  PrefsPlans \subseteq [imports : Nat, faults : Nat, starts : Nat,
                        windows : BOOLEAN, tray : BOOLEAN, tabs : Seq(Texts)]
\* No two tabs search for the same thing.
ASSUME OneTabPerKey ==
  \A plan \in PrefsPlans :
    \A i, j \in DOMAIN plan.tabs : KeyOf[plan.tabs[i]] = KeyOf[plan.tabs[j]] => i = j

-----------------------------------------------------------------------------
(* Normalisation *)

Parsed(raw, default) == IF raw = {} THEN default ELSE CHOOSE v \in raw : TRUE

Between(v, range) == IF v < range.lo THEN range.lo ELSE IF v > range.hi THEN range.hi ELSE v

\* In a loaded file an interval not on offer gives way to the fallback, ...
Interval(raw, fallback) ==
  LET spare == IF fallback \in Allowed THEN fallback ELSE DefaultEvery
      v == Parsed(raw, spare)
  IN IF v \in Allowed THEN v ELSE spare

\* ... in an imported one to the default, unless it does not parse at all.
ImportedInterval(raw, fallback) ==
  IF raw = {} THEN Interval({}, fallback) ELSE Interval(raw, DefaultEvery)

\* What a loop over a list collects: its elements at certain places, in order.
Rank(places, i) == Cardinality({j \in places : j <= i})
Collected(list, places) ==
  [n \in 1..Cardinality(places) |-> list[CHOOSE i \in places : Rank(places, i) = n]]

AtMost(max, list) == SubSeq(list, 1, IF Len(list) < max THEN Len(list) ELSE max)

FirstPlaces(list) == {i \in DOMAIN list : \A j \in 1..(i - 1) : list[j] # list[i]}
FirstDistinct(list, max) == AtMost(max, Collected(list, FirstPlaces(list)))

\* Start indexes below one are dropped, those beyond the limit are cut to it.
Cursors(raw) ==
  [k \in {x \in DOMAIN raw : Parsed(raw[x], 0) >= 1} |->
     Between(Parsed(raw[k], 0), [lo |-> 1, hi |-> MaxCursor])]

Totals(raw) ==
  [k \in {x \in DOMAIN raw : Parsed(raw[x], 0) >= 0} |-> Parsed(raw[k], 0)]

\* encode_client_secret_for_storage and resolve_client_secret_for_runtime: an
\* encrypted secret that cannot be decrypted reads as none, and is none in the file
\* the next save writes.
Encoded(secret, canEncrypt) ==
  IF secret = "" THEN [plain |-> "", cipher |-> ""]
  ELSE IF canEncrypt THEN [plain |-> "", cipher |-> secret]
  ELSE [plain |-> secret, cipher |-> ""]

Resolved(stored, canDecrypt) ==
  IF stored.cipher # "" /\ canDecrypt THEN stored.cipher ELSE stored.plain

-----------------------------------------------------------------------------
(* Merging *)

\* The first text of each key, in order, for the keys not in taken.
FreshPlaces(list, taken) ==
  {i \in DOMAIN list : /\ KeyOf[list[i]] \notin taken \cup {""}
                       /\ \A j \in 1..(i - 1) : KeyOf[list[j]] # KeyOf[list[i]]}
FreshKeys(list, taken) == Collected(list, FreshPlaces(list, taken))

TabKeys(tabs) == {KeyOf[tabs[i]] : i \in DOMAIN tabs}

\* A mutant: the merged history grows without end.
MergedHistoryWhole(own, theirs) == FreshKeys(theirs \o own, {})

\* The imported history comes first.
MergedHistory(own, theirs) == AtMost(MaxHistory, FreshKeys(theirs \o own, {}))

\* _merge_int_mapping_keep_max
KeepMax(own, theirs, least) ==
  LET good == {k \in DOMAIN theirs : theirs[k] # {} /\ Parsed(theirs[k], least) >= least}
  IN [k \in DOMAIN own \cup good |->
        IF k \notin good THEN own[k]
        ELSE LET v == Parsed(theirs[k], least)
             IN IF k \in DOMAIN own /\ own[k] >= v THEN own[k] ELSE v]

\* _canonicalize_tab_refresh_policies: a label must name a tab; an unknown policy
\* becomes "inherit".
CanonicalPolicies(policies, tabs) ==
  LET names == {x \in DOMAIN policies : KeyOf[x] # "" /\ (tabs = <<>> \/ KeyOf[x] \in TabKeys(tabs))}
  IN [k \in {KeyOf[x] : x \in names} |->
        LET p == policies[CHOOSE x \in names : KeyOf[x] = k]
        IN IF p \in Policies THEN p ELSE "inherit"]

-----------------------------------------------------------------------------
VARIABLES
  prefs,      \* the settings in memory
  prefsFile,  \* the settings in the file
  registry,   \* the start-up entry: "none", "plain" or "minimized"
  import,     \* the import in progress
  astray,     \* the entry was left behind: the system refused a change of it, or a
              \* start found the file of an import that was never finished
  drift,      \* a second failure, or a failed save, left file and memory apart
  prefsLeft   \* the plan, with what remains of its budgets

prefsVars == <<prefs, prefsFile, registry, import, astray, drift, prefsLeft>>

NoImport == [at |-> "none"]

\* _build_runtime_config_payload.  The policies in memory are keyed by what the tabs
\* search for already (CanonicalPolicies); they are brought to these keys once more, which
\* keeps every one, also those of tabs that are not open (merge_helpers.py:148).
Payload(p) ==
  [p EXCEPT !.secret = Encoded(p.secret, prefsLeft.windows),
            !.cursors = [k \in {x \in DOMAIN p.cursors : p.cursors[x] > 0} |->
                           Between(p.cursors[k], [lo |-> 1, hi |-> MaxCursor])]]

Command(p) == IF p.mini THEN "minimized" ELSE "plain"

PrefsInit ==
  /\ prefsLeft \in PrefsPlans
  /\ \E auto, mini \in BOOLEAN :
       /\ auto => prefsLeft.windows
       /\ mini => prefsLeft.tray
       /\ prefs = [auto |-> auto, mini |-> mini, timeout |-> Timeouts.lo, every |-> DefaultEvery,
                   words |-> <<>>, tabs |-> prefsLeft.tabs,
                   history |-> AtMost(MaxHistory, prefsLeft.tabs),
                   cursors |-> [k \in TabKeys(prefsLeft.tabs) |-> 1],
                   totals |-> [k \in TabKeys(prefsLeft.tabs) |-> 1],
                   policies |-> <<>>, secret |-> "s"]
  /\ \E encrypted \in BOOLEAN :
       prefsFile = [Payload(prefs) EXCEPT !.secret = Encoded("s", encrypted /\ prefsLeft.windows)]
  /\ registry = IF prefs.auto THEN Command(prefs) ELSE "none"
  /\ import = NoImport /\ astray = FALSE /\ drift = FALSE

PrefsSpend(what) == prefsLeft[what] > 0 /\ prefsLeft' = [prefsLeft EXCEPT ![what] = @ - 1]

\* normalize_import_settings: the plain fields of a file, each with its own fallback.
ImportedSettings(f, own) ==
  [auto    |-> Parsed(f.auto, own.auto),
   mini    |-> Parsed(f.mini, own.mini),
   timeout |-> Between(Parsed(f.timeout, own.timeout), Timeouts),
   every   |-> ImportedInterval(f.every, own.every),
   words   |-> FirstDistinct(IF f.words = <<>> THEN own.words ELSE f.words, MaxWords)]

\* What _stage_settings_import makes of a file f: the entry is not taken over from
\* another machine, nor the minimised start without a tray.
Staged(f) ==
  LET new  == FreshKeys(f.tabs, TabKeys(prefs.tabs))
      mine == [f EXCEPT !.auto = IF f.foreign THEN {FALSE : x \in @} ELSE @]
      set  == ImportedSettings(mine, prefs)
  IN [auto     |-> set.auto,
      mini     |-> set.mini /\ prefsLeft.tray,
      timeout  |-> set.timeout,
      every    |-> set.every,
      words    |-> set.words,
      tabs     |-> prefs.tabs \o new,
      history  |-> MergedHistory(prefs.history, f.history),
      cursors  |-> KeepMax(prefs.cursors, f.cursors, 1),
      totals   |-> KeepMax(prefs.totals, f.totals, 0),
      policies |-> LET theirs == CanonicalPolicies(f.policies, prefs.tabs \o new)
                   IN [k \in DOMAIN theirs \cup DOMAIN prefs.policies |->
                         IF k \in DOMAIN theirs THEN theirs[k] ELSE prefs.policies[k]],
      secret   |-> prefs.secret]

-----------------------------------------------------------------------------
(* The import, which holds the user-interface thread from end to end *)

StartImportSettings ==
  /\ import = NoImport /\ PrefsSpend("imports")
  /\ \E f \in ImportFiles :
       import' = [at |-> "staged", old |-> prefs, new |-> Staged(f)]
  /\ UNCHANGED <<prefs, prefsFile, registry, astray, drift>>

SaveStaged ==
  /\ import.at = "staged"
  /\ prefsFile' = Payload(import.new)
  /\ import' = [import EXCEPT !.at = "saved"]
  /\ UNCHANGED <<prefs, registry, astray, drift, prefsLeft>>

\* Nothing was changed yet.
SaveStagedFails ==
  /\ import.at = "staged" /\ PrefsSpend("faults")
  /\ import' = NoImport
  /\ UNCHANGED <<prefs, prefsFile, registry, astray, drift>>

\* Every field but the tabs, which are created one by one.
ApplyFields ==
  /\ import.at = "saved"
  /\ prefs' = [import.new EXCEPT !.tabs = import.old.tabs]
  /\ import' = [import EXCEPT !.at = "adding"]
  /\ UNCHANGED <<prefsFile, registry, astray, drift, prefsLeft>>

AddImportedTab ==
  /\ import.at = "adding" /\ prefs.tabs # import.new.tabs
  /\ prefs' = [prefs EXCEPT !.tabs = SubSeq(import.new.tabs, 1, Len(@) + 1)]
  /\ UNCHANGED <<prefsFile, registry, import, astray, drift, prefsLeft>>

\* An exception: the file is written back and the memory put back, with the tabs
\* that were reported as added removed; one that failed after it was shown stays.
ApplyFails ==
  /\ import.at = "adding" /\ PrefsSpend("faults")
  /\ \E saved, late \in BOOLEAN :
       /\ late => prefs.tabs # import.new.tabs
       /\ prefs' = IF late THEN [import.old EXCEPT !.tabs = Append(@, import.new.tabs[Len(prefs.tabs) + 1])]
                           ELSE import.old
       /\ prefsFile' = IF saved THEN Payload(import.old) ELSE prefsFile
       /\ drift' = (~ saved \/ late)
  /\ import' = NoImport
  /\ UNCHANGED <<registry, astray>>

FinishApply ==
  /\ import.at = "adding" /\ prefs.tabs = import.new.tabs
  /\ import' = [import EXCEPT !.at = "applied"]
  /\ UNCHANGED <<prefs, prefsFile, registry, astray, drift, prefsLeft>>

\* The entry after the system was asked for it, and the flag the program then shows:
\* the health of the entry.  A removal is checked against the plain command.
Outcomes(want, mini) ==
  LET asked == IF mini THEN "minimized" ELSE "plain"
      entry(obeys) == IF ~ obeys THEN registry ELSE IF want THEN asked ELSE "none"
  IN {[obeys |-> o, entry |-> entry(o), flag |-> entry(o) = IF want THEN asked ELSE "plain"] :
        o \in {x \in BOOLEAN : x \/ prefsLeft.faults > 0}}

Follow(out) ==
  /\ registry' = out.entry /\ astray' = (astray \/ ~ out.obeys)
  /\ prefsLeft' = IF out.obeys THEN prefsLeft ELSE [prefsLeft EXCEPT !.faults = @ - 1]

\* A mutant: a flag that came out differently is not saved.
ClosedUnsaved(flag) == NoImport

Closed(flag) == IF flag = prefs.auto THEN NoImport ELSE [import EXCEPT !.at = "correcting"]

\* _reconcile_startup_state_from_import
Reconcile ==
  /\ import.at = "applied" /\ prefsLeft.windows
  /\ \E out \in Outcomes(prefs.auto, prefs.mini) :
       /\ Follow(out)
       /\ prefs' = [prefs EXCEPT !.auto = out.flag]
       /\ import' = Closed(out.flag)
  /\ UNCHANGED <<prefsFile, drift>>

ReconcileWithoutEntries ==
  /\ import.at = "applied" /\ ~ prefsLeft.windows
  /\ prefs' = [prefs EXCEPT !.auto = FALSE]
  /\ import' = Closed(FALSE)
  /\ UNCHANGED <<prefsFile, registry, astray, drift, prefsLeft>>

\* A flag that came out differently is saved once more.
Correct ==
  /\ import.at = "correcting"
  /\ prefsFile' = Payload(prefs) /\ import' = NoImport
  /\ UNCHANGED <<prefs, registry, astray, drift, prefsLeft>>

CorrectFails ==
  /\ import.at = "correcting" /\ PrefsSpend("faults")
  /\ import' = NoImport /\ drift' = TRUE
  /\ UNCHANGED <<prefs, prefsFile, registry, astray>>

-----------------------------------------------------------------------------
(* The settings dialog, and the next start *)

\* A mutant: a change of the minimised start leaves the entry alone.
OpenSettingsFlagOnly ==
  /\ import = NoImport /\ prefsLeft.imports > 0
  /\ \E want, mini \in BOOLEAN :
       /\ want => prefsLeft.windows
       /\ mini => prefsLeft.tray
       /\ \E out \in IF want # prefs.auto
                     THEN Outcomes(want, mini)
                     ELSE {[obeys |-> TRUE, entry |-> registry,
                            flag |-> want /\ registry = IF mini THEN "minimized" ELSE "plain"]} :
            /\ Follow(out)
            /\ prefs' = [prefs EXCEPT !.auto = out.flag, !.mini = mini]
  /\ prefsFile' = Payload(prefs') /\ drift' = FALSE
  /\ UNCHANGED import

\* The entry is touched when the flag changes, or the command of one that stays.  A
\* save that fails is logged.
OpenSettings ==
  /\ import = NoImport /\ prefsLeft.imports > 0
  /\ \E want, mini \in BOOLEAN :
       /\ want => prefsLeft.windows
       /\ mini => prefsLeft.tray
       /\ \E out \in IF want # prefs.auto \/ (want /\ mini # prefs.mini)
                     THEN Outcomes(want, mini)
                     ELSE {[obeys |-> TRUE, entry |-> registry,
                            flag |-> want /\ registry = IF mini THEN "minimized" ELSE "plain"]} :
            /\ Follow(out)
            /\ prefs' = [prefs EXCEPT !.auto = out.flag, !.mini = mini]
  /\ \/ prefsFile' = Payload(prefs') /\ drift' = FALSE
     \/ prefsLeft.faults > 0 /\ UNCHANGED prefsFile /\ drift' = TRUE
  /\ UNCHANGED import

\* normalize_loaded_config of a file.
Loaded(file, canDecrypt) ==
  [file EXCEPT !.timeout = Between(@, Timeouts),
               !.every = Interval({@}, DefaultEvery),
               !.words = FirstDistinct(@, MaxWords),
               !.cursors = Cursors([k \in DOMAIN @ |-> {@[k]}]),
               !.totals = Totals([k \in DOMAIN @ |-> {@[k]}]),
               !.secret = Resolved(@, canDecrypt)]

\* A start, after a regular exit or a kill in the middle of an import: the flag is read
\* off the entry, and a secret still in plain text is encrypted in the file.
Restart ==
  /\ PrefsSpend("starts")
  /\ \E canDecrypt \in BOOLEAN :
       /\ ~ canDecrypt => prefsLeft.faults > 0 /\ prefsLeft.windows /\ prefsFile.secret.cipher # ""
       /\ LET file == Loaded(prefsFile, canDecrypt)
              auto == IF prefsLeft.windows THEN registry = Command(file) ELSE file.auto
          IN /\ prefs' = [file EXCEPT !.auto = auto]
             /\ prefsFile' = IF prefsLeft.windows /\ prefsFile.secret.plain # ""
                             THEN [prefsFile EXCEPT !.secret = Encoded(file.secret, TRUE)]
                             ELSE prefsFile
             /\ drift' = (auto # file.auto \/ ~ canDecrypt)
  /\ import' = NoImport /\ astray' = (astray \/ drift \/ import # NoImport)
  /\ UNCHANGED registry

PrefsNext ==
  \/ StartImportSettings \/ SaveStaged \/ SaveStagedFails \/ ApplyFields \/ AddImportedTab
  \/ ApplyFails \/ FinishApply \/ Reconcile \/ ReconcileWithoutEntries \/ Correct
  \/ CorrectFails \/ OpenSettings \/ Restart

PrefsSpec == PrefsInit /\ [][PrefsNext]_prefsVars

-----------------------------------------------------------------------------
(* Properties *)

PrefsTypeOK ==
  /\ \A p \in {prefs, Loaded(prefsFile, TRUE)} :
       /\ {p.auto, p.mini} \subseteq BOOLEAN
       /\ p.timeout \in Timeouts.lo..Timeouts.hi /\ p.every \in Allowed
       /\ ToSet(p.tabs) \cup ToSet(p.history) \subseteq Texts
       /\ Len(p.words) <= MaxWords /\ Len(p.history) <= MaxHistory
  /\ \A k \in DOMAIN prefsFile.cursors : prefsFile.cursors[k] \in 1..MaxCursor
  /\ registry \in {"none", "plain", "minimized"}
  /\ import.at \in {"none", "staged", "saved", "adding", "applied", "correcting"}

\* Once an import is over, done or undone, the file holds what is in memory: a start
\* brings back the same settings, the secret included, and no two tabs search for the
\* same thing.  Only a second failure (the file could not be written back, a tab
\* failed when it was already shown, the secret could not be decrypted), or a save of
\* the dialog that fails, parts them, until the settings are next saved.
FileMatchesMemory ==
  /\ import = NoImport /\ ~ drift =>
       LET file == Loaded(prefsFile, TRUE)
       IN file = [prefs EXCEPT !.cursors = file.cursors]
          /\ \A k \in DOMAIN prefs.cursors :
               file.cursors[k] = Between(prefs.cursors[k], [lo |-> 1, hi |-> MaxCursor])
  /\ Cardinality(TabKeys(prefs.tabs)) = Len(prefs.tabs)

\* The switch "start with the system" is on exactly when the entry is there and starts
\* the program the way the settings say, whether it was set in the dialog, imported,
\* corrected or read at the start; unless the system refused to change the entry,
\* or a start found the file of an import that was neither finished nor undone.
AutoStartHonest ==
  import = NoImport /\ prefsLeft.windows /\ ~ astray => prefs.auto = (registry = Command(prefs))
=============================================================================
