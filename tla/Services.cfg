SPECIFICATION Spec
CONSTANTS
  Links = {"l1", "l2"}
  Keys = {k, j}
  Titles = {"t", "u"}
  Tags = {"g", "h"}
  Bookmarks = "bookmarks"
  AnyTag = "any"
  Machines = {a, b}
  Stamps = {1, 2, 3, 4}
  MaxImports = 1
  Keep = 2
  MaxSeen = 2
  Chunk = 1
  Plans <- MCPlans
  MaxManual = 2
  MaxAuto = 1
  MaxSaves = 7
  MaxBackups = 9
  FilePlans <- MCFilePlans
  Texts = {"p", "P", "q", "-"}
  KeyOf <- MCKeyOf
  Policies = {"inherit", "off"}
  MaxWords = 2
  MaxHistory = 1
  MaxCursor = 3
  Timeouts <- MCTimeouts
  Allowed = {10, 20}
  DefaultEvery = 10
  ImportFiles <- MCImportFiles
  PrefsPlans <- MCPrefsPlans
  Latest = 2
  UpdatePlans <- MCUpdatePlans
  JobPlans <- MCJobPlans
INVARIANTS
  TypeOK OneStampOneValue SeenMeansMerged ListingsAgree
  RestoreAllOrNothing SettingsSurvive FileMatchesMemory AutoStartHonest
  UpdateTruthful MaintenanceHeld BackfillNotForgotten
PROPERTIES NewerWins FlagsStayExact RetentionFair
SYMMETRY MCSymmetry
CHECK_DEADLOCK FALSE
