---------------------------- MODULE ServicesProofs ----------------------------
(***************************************************************************)
(* What is proved of each component around the fetch flow holds of the     *)
(* module that runs them in turn.                                          *)
(***************************************************************************)
EXTENDS MCServices, CloudSyncProofs, LocalFilesProofs, DesktopProofs

(* A step of the whole is a step of one component, which the others sit out. *)
LEMMA OneMoves ==
  ASSUME [Next]_serviceVars
  PROVE  /\ [CloudNext]_cloudVars /\ [FilesNext]_filesVars /\ [PrefsNext]_prefsVars
         /\ [UpdNext]_updVars /\ [JobsNext]_jobsVars
<1>1. CASE CloudMoves
  BY <1>1 DEF CloudMoves
<1>2. CASE FilesMove
  BY <1>2 DEF FilesMove
<1>3. CASE PrefsMove
  BY <1>3 DEF PrefsMove
<1>4. CASE UpdateMoves
  BY <1>4 DEF UpdateMoves
<1>5. CASE JobsMove
  BY <1>5 DEF JobsMove
<1>6. CASE UNCHANGED serviceVars
  BY <1>6 DEF serviceVars
<1> QED BY <1>1, <1>2, <1>3, <1>4, <1>5, <1>6 DEF Next

LEMMA EachByItself == Spec => CloudSpec /\ FilesSpec /\ PrefsSpec /\ UpdSpec /\ JobsSpec
<1>1. Init => CloudInit /\ FilesInit /\ PrefsInit /\ UpdInit /\ JobsInit
  BY DEF Init
<1> QED
  BY <1>1, OneMoves, PTL DEF Spec, CloudSpec, FilesSpec, PrefsSpec, UpdSpec, JobsSpec

(* The rows and lists of the synchronised machines, the files and their     *)
(* requests, the normalised settings, the stages of the update and of the   *)
(* jobs keep their types, for every plan of the module that runs them.      *)
THEOREM ServicesTypeCorrect == Spec => []TypeOK
<1>1. CloudTypeOK /\ FilesTypeOK /\ PrefsTypeOK /\ UpdTypeOK /\ JobsTypeOK => TypeOK
  BY DEF TypeOK
<1> QED
  BY <1>1, EachByItself, CloudTypeCorrect, FilesTypeCorrect, PrefsTypeCorrect, UpdTypeCorrect,
     JobsTypeCorrect, PTL
===============================================================================
