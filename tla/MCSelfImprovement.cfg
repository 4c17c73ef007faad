CONSTANTS
  c1 = c1
  c2 = c2
  f1 = f1
  f2 = f2
  Candidates = {c1, c2}
  Files = {f1, f2}
  Procs = {server}
  Changes <- MCChanges
  Original = Original
  Edited = Edited
  Torn = Torn
  Absent = Absent
  MaxLog = 2
  MaxOps = 4
  MaxEdits = 1
  MaxCrashes = 1
SPECIFICATION Spec
INVARIANT RollbackRestores
INVARIANT BackupBeforeOverwrite
CHECK_DEADLOCK FALSE
