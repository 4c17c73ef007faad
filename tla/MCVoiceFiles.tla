----------------------------- MODULE MCVoiceFiles -----------------------------
(* TLC instance of VoiceFiles: a recording memo, made twice, and a recording  *)
(* memo.v2, whose transcript whisper.cpp looks for under the name of memo.   *)
EXTENDS VoiceFiles, TLC

CONSTANTS hi, bye
TextSymmetry == Permutations({hi, bye})

MCStem == [a \in Audio |-> IF a = "v2" THEN "memo.v2" ELSE "memo"]
MCTrimmed == [n \in Name |-> "memo"]
MCPaths == {File("memo", ".txt"), File(1, "tts")}
MCRecordings == [a \in Audio |-> IF a = "v2" THEN 1 ELSE 2]
=============================================================================
