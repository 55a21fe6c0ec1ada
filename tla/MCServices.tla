------------------------------- MODULE MCServices -------------------------------
(***************************************************************************)
(* The components around the fetch flow, checked in one run.  They share   *)
(* no state, so one of them moves in a behaviour and the others stay where *)
(* they begin.                                                             *)
(***************************************************************************)
EXTENDS CloudSync, LocalFiles, SettingsImport, UpdateInstall, BackgroundJobs

VARIABLE part   \* the component that moves

Parts == {"cloud", "files", "prefs", "update", "jobs"}

serviceVars == <<cloudVars, filesVars, prefsVars, updVars, jobsVars, part>>

\* Cloud, in the order of the plans: one machine with every operation; two machines
\* whose clocks disagree; two machines that delete, restore and tag while a cycle or an
\* import fails; pages that retitle and flag articles on both; one machine that deletes
\* all its articles chunk by chunk while it marks some, exports and imports.
Titled(t, u) == <<[link |-> "l1", title |-> t], [link |-> "l2", title |-> u]>>
OneArticle == SubSeq(Titled("t", "t"), 1, 1)
CloudPlan(edits, cycles, faults, ops, tags, skewed, modes, who, pages, start) ==
  [edits |-> edits, cycles |-> cycles, faults |-> faults, ops |-> ops, tags |-> tags,
   skewed |-> skewed, modes |-> modes, who |-> who, pages |-> pages, start |-> start]
NoCloud == CloudPlan(0, 0, 0, {}, {}, FALSE, {}, {}, {}, <<>>)
MCPlans == {NoCloud} \cup UNION {{
  CloudPlan(3, 0, 0, {"fetch", "delete", "restore", "tags", "mark", "read", "readall",
                      "retag", "bulk", "import", "note"}, Tags, FALSE, {}, {m},
            {Titled(t, u) : t \in Titles, u \in Titles}, Titled("t", "t")),
  CloudPlan(2, 2, 0, {"delete", "restore", "tags"}, {"g"}, TRUE, {"full"}, Machines,
            {}, OneArticle),
  CloudPlan(2, 3, 1, {"delete", "restore"}, {}, FALSE, {"full"}, Machines, {}, OneArticle),
  CloudPlan(2, 2, 1, {"delete", "tags"}, {"g"}, FALSE, {"full"}, Machines, {}, OneArticle),
  CloudPlan(2, 2, 0, {"fetch", "delete"}, {"g"}, FALSE, {"full"}, Machines,
            {Titled("t", "u")}, Titled("t", "t")),
  CloudPlan(2, 2, 1, {"prune", "mark"}, {}, FALSE, {"export", "import"}, {m},
            {}, Titled("t", "t"))} : m \in Machines}

\* Machines and query keys are interchangeable: no definition picks one of them.
MCSymmetry == Permutations(Machines) \cup Permutations(Keys)

\* Files: saves, backups, starts and faults; with damaged files; retention by itself;
\* starts and damage alone, until the defaults are saved.
FilePlan(saves, backups, starts, faults, damage) ==
  [saves |-> saves, backups |-> backups, starts |-> starts, faults |-> faults, damage |-> damage]
MCFilePlans == {FilePlan(1, 2, 3, 2, FALSE), FilePlan(2, 0, 2, 2, TRUE), FilePlan(0, 3, 1, 1, TRUE),
                FilePlan(0, 2, 2, 1, TRUE), FilePlan(0, 0, 3, 3, TRUE)}

\* Settings: a file with too many, repeated and empty entries, one with junk, one in order.
PrefsPlan(imports, faults, starts, windows, tray, tabs) ==
  [imports |-> imports, faults |-> faults, starts |-> starts, windows |-> windows,
   tray |-> tray, tabs |-> tabs]
MCPrefsPlans == {PrefsPlan(2, 1, 1, TRUE, TRUE, <<"p">>), PrefsPlan(1, 2, 1, TRUE, TRUE, <<>>),
                 PrefsPlan(1, 1, 1, FALSE, FALSE, <<"q">>)}
MCKeyOf == [x \in {"p", "P", "q", "-"} |-> CASE x \in {"p", "P"} -> "kp" [] x = "q" -> "kq" [] OTHER -> ""]
MCTimeouts == [lo |-> 2, hi |-> 4]
Missing == <<>>
MCImportFiles == {
  [auto |-> {TRUE}, mini |-> {TRUE}, foreign |-> FALSE, timeout |-> {9}, every |-> {7},
   words |-> <<"q", "q", "p", "P">>, tabs |-> <<"P", "q", "-", "q">>, history |-> <<"P", "q">>,
   cursors |-> [x \in {"kp", "kq"} |-> IF x = "kp" THEN {5} ELSE {0}],
   totals |-> [x \in {"kp"} |-> {7}], policies |-> [x \in {"P"} |-> "off"]],
  [auto |-> {TRUE}, mini |-> {}, foreign |-> TRUE, timeout |-> {}, every |-> {},
   words |-> Missing, tabs |-> <<"p">>, history |-> <<"p">>, cursors |-> Missing,
   totals |-> [x \in {"kq"} |-> {}], policies |-> [x \in {"q", "-"} |-> "junk"]],
  [auto |-> {FALSE}, mini |-> {TRUE}, foreign |-> FALSE, timeout |-> {1}, every |-> {20},
   words |-> <<"p">>, tabs |-> Missing, history |-> Missing,
   cursors |-> [x \in {"kq"} |-> {2}], totals |-> Missing, policies |-> Missing]}

\* Update: up to three checks, starts by the user and faults.
MCUpdatePlans == {[checks |-> 3, starts |-> 3, faults |-> 3]}
\* Jobs: two jobs that want the database, an export, two refreshes, an error of the
\* backfill and an update that is abandoned.
MCJobPlans == {[jobs |-> 2, exports |-> 1, refreshes |-> 2, errors |-> 1, updates |-> 1]}

Init ==
  /\ part \in Parts
  /\ CloudInit /\ (part = "cloud" \/ left = NoCloud)
  /\ FilesInit /\ (part = "files" \/ filesLeft = CHOOSE p \in FilePlans : TRUE)
  /\ PrefsInit /\ (part = "prefs" \/ prefsLeft = CHOOSE p \in PrefsPlans : TRUE)
  /\ UpdInit /\ (part = "update" \/ updLeft = CHOOSE p \in UpdatePlans : TRUE)
  /\ JobsInit /\ (part = "jobs" \/ jobsLeft = CHOOSE p \in JobPlans : TRUE)

CloudMoves == CloudNext /\ UNCHANGED <<filesVars, prefsVars, updVars, jobsVars, part>>
FilesMove == FilesNext /\ UNCHANGED <<cloudVars, prefsVars, updVars, jobsVars, part>>
PrefsMove == PrefsNext /\ UNCHANGED <<cloudVars, filesVars, updVars, jobsVars, part>>
UpdateMoves == UpdNext /\ UNCHANGED <<cloudVars, filesVars, prefsVars, jobsVars, part>>
JobsMove == JobsNext /\ UNCHANGED <<cloudVars, filesVars, prefsVars, updVars, part>>

Next ==
  \/ part = "cloud" /\ CloudMoves
  \/ part = "files" /\ FilesMove
  \/ part = "prefs" /\ PrefsMove
  \/ part = "update" /\ UpdateMoves
  \/ part = "jobs" /\ JobsMove

Spec == Init /\ [][Next]_serviceVars

TypeOK == CloudTypeOK /\ FilesTypeOK /\ PrefsTypeOK /\ UpdTypeOK /\ JobsTypeOK
=============================================================================
