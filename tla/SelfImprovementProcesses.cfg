CONSTANTS
  c1 = c1
  c2 = c2
  f1 = f1
  f2 = f2
  Candidates = {c1, c2}
  Files = {f1, f2}
  Procs = {server, cli}
  Changes <- MCChanges
  Original = Original
  Edited = Edited
  Torn = Torn
  Absent = Absent
  MaxLog = 1
  MaxOps = 2
  MaxEdits = 0
  MaxCrashes = 1
SPECIFICATION Spec
INVARIANT TypeOK
INVARIANT OnlyVettedContent
SYMMETRY Processes
CHECK_DEADLOCK FALSE
