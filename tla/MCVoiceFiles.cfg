SPECIFICATION FilesSpec
CONSTANTS
  Audio = {"x", "v2"}
  Name = {"memo", "memo.v2"}
  Stem <- MCStem
  Trimmed <- MCTrimmed
  Named = {"memo"}
  Paths <- MCPaths
  hi = hi
  bye = bye
  Texts = {hi, bye}
  Setups = {{"piper", "whisper.cpp"}, {"whisper", "whisper.cpp"}, {"whisper", "sherpa-onnx"}}
  MaxRecordings <- MCRecordings
  MaxFresh = 1
  MaxKills = 1
INVARIANTS
  FilesTypeOK
  AnswersAreOfTheirQuestion
SYMMETRY TextSymmetry
CHECK_DEADLOCK FALSE
