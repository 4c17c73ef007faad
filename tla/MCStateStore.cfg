SPECIFICATION Spec
CONSTANTS
  server = server
  command = command
  loop = loop
  worker = worker
  main = main
  log = log
  sessions = sessions
  a = a
  b = b
  Process = {server, command}
  Thread = {loop, worker, main}
  Of <- MCOf
  Main <- MCMain
  Files <- MCFiles
  Keyed = {sessions}
  Key = {a, b}
  MaxLog = 2
  MaxSaves = 3
  MaxStarts = 2
SYMMETRY MCKeys
INVARIANTS
  TypeOK
  UndisturbedFilesAreExpected
  UnclashedFilesAreReadable
CHECK_DEADLOCK FALSE
