----------------------------- MODULE VoiceFiles -----------------------------
(***************************************************************************)
(* VoiceFiles: what the speech engines leave under data_dir/voice, and what  *)
(* VoiceService makes of it.  An engine is a program that a caller starts    *)
(* and waits for; it tells its caller an exit status, and everything else    *)
(* through a file (sherpa-onnx: through its output).  It may exit with 0     *)
(* and have written nothing: whisper and whisper-cli skip what they cannot   *)
(* read.  A caller that is killed leaves its engine running.                 *)
(*                                                                         *)
(* The server's handlers wait in its loop, so it has one call at a time.     *)
(* The classes of src/voice are used by programs of their own ("library").   *)
(* All of them write to one directory and one set of names: a reply may be   *)
(* given the name another was drawn for, and PiperSpeaker takes any path.    *)
(***************************************************************************)
EXTENDS Integers, FiniteSets

CONSTANTS
  Audio,          \* paths of recordings
  Name,           \* names of files, without what follows their last dot
  Stem,           \* [Audio -> Name]: the name of a recording
  Trimmed,        \* [Name -> Name]: what with_suffix leaves of a name
  Named,          \* the names of replies that have one
  Paths,          \* the files PiperSpeaker may be given the path of
  Texts,          \* texts synthesize accepts: 1 to 2000 characters
  Setups,         \* the engines whose program, model and configuration may be there
  MaxRecordings,  \* bound: [Audio -> Nat], times a recording is made
  MaxFresh,       \* bound: replies without a name
  MaxKills        \* bound

VARIABLES
  recorded,       \* the recording at each path, by number; 0 when there is none
  ready,          \* those that are there
  files,          \* what is in each file
  calls,          \* the call a caller waits for, or Idle
  orphans,        \* engines whose caller was killed
  fresh,          \* replies without a name, so far
  kills

filesVars == <<recorded, ready, files, calls, orphans, fresh, kills>>

Transcribers == {"whisper", "whisper.cpp", "sherpa-onnx"}
Engines == Transcribers \cup {"piper"}
Callers == {"server", "library"}

ASSUME VoiceAssumption ==
  /\ Stem \in [Audio -> Name] /\ Trimmed \in [Name -> Name]
  /\ Named \subseteq Name /\ Texts \cap Audio = {}
  /\ "nothing" \notin Texts /\ "line" \notin Texts
  /\ Setups \subseteq SUBSET Engines
  /\ MaxRecordings \in [Audio -> Nat] /\ MaxFresh \in Nat /\ MaxKills \in Nat

File(n, kind) == <<kind, n>>
Files == ({".txt", ".sherpa-onnx.txt"} \X Name) \cup ({".wav"} \X Named) \cup ({"tts"} \X (1 .. MaxFresh))
ASSUME PathsAssumption == Paths \subseteq Files

None == <<"nothing", 0>>
Line == <<"line", 0>>   \* what sherpa-onnx's last line is without a transcript
Content == (UNION {{a} \X (1 .. MaxRecordings[a]) : a \in Audio}) \cup (Texts \X {0}) \cup {None, Line}
Private == <<"a directory of its own", "">>

Idle == [engine |-> "none", about |-> "none", since |-> 0, out |-> Private, back |-> Private,
         unnamed |-> FALSE, ended |-> "none", heard |-> None, disturbed |-> FALSE]

FilesInit ==
  /\ recorded = [a \in Audio |-> 0]
  /\ ready \in Setups
  /\ files = [f \in Files |-> None]
  /\ calls = [c \in Callers |-> Idle]
  /\ orphans = {} /\ fresh = 0 /\ kills = 0

(* --- Calls -------------------------------------------------------------- *)

\* A call begins: its engine is to write the one file, its caller to read the other.
BeginAs(c, e, about, since, out, back, unnamed) ==
  /\ calls[c] = Idle
  /\ e \in ready
  /\ calls' = [calls EXCEPT ![c] = [engine |-> e, about |-> about, since |-> since, out |-> out,
                                    back |-> back, unnamed |-> unnamed,
                                    ended |-> "no", heard |-> None, disturbed |-> FALSE]]
Begin(c, e, about, since, out, back) == BeginAs(c, e, about, since, out, back, FALSE)

\* Mutated form: a recording that is not there is asked for.
WhisperAny(a) ==
  /\ Begin("server", "whisper", a, recorded[a], File(Stem[a], ".txt"), File(Stem[a], ".txt"))
  /\ UNCHANGED <<recorded, ready, files, orphans, fresh, kills>>

\* transcribe: a transcript of the name stays until whisper writes another.
Whisper(a) ==
  /\ recorded[a] > 0
  /\ Begin("server", "whisper", a, recorded[a], File(Stem[a], ".txt"), File(Stem[a], ".txt"))
  /\ UNCHANGED <<recorded, ready, files, orphans, fresh, kills>>

\* Mutated form: no transcript is removed first.
WhisperCppOver(a) ==
  /\ recorded[a] > 0
  /\ Begin("server", "whisper.cpp", a, recorded[a], File(Stem[a], ".txt"), File(Trimmed[Stem[a]], ".txt"))
  /\ UNCHANGED <<recorded, ready, files, orphans, fresh, kills>>

\* The transcript is removed first, by the name it will be looked for under.
WhisperCpp(a) ==
  /\ recorded[a] > 0
  /\ Begin("server", "whisper.cpp", a, recorded[a], File(Stem[a], ".txt"), File(Trimmed[Stem[a]], ".txt"))
  /\ files' = [files EXCEPT ![File(Trimmed[Stem[a]], ".txt")] = None]
  /\ UNCHANGED <<recorded, ready, orphans, fresh, kills>>

\* sherpa-onnx tells its caller what it heard.
Sherpa(a) ==
  /\ recorded[a] > 0
  /\ Begin("server", "sherpa-onnx", a, recorded[a], Private, Private)
  /\ UNCHANGED <<recorded, ready, files, orphans, fresh, kills>>

\* WhisperTranscriber: whisper, with a temporary directory.
Transcribe(a) ==
  /\ recorded[a] > 0
  /\ Begin("library", "whisper", a, recorded[a], Private, Private)
  /\ UNCHANGED <<recorded, ready, files, orphans, fresh, kills>>

\* The files there are names for: a drawn name is known once it is drawn.
Given == {f \in Files : f[1] = "tts" => f[2] <= fresh}

\* A name the caller gives; with its ".wav" it may be one that was drawn.
Synthesize(t, f) ==
  /\ f \in Given /\ f[1] \in {".wav", "tts"}
  /\ Begin("server", "piper", t, 0, f, f)
  /\ UNCHANGED <<recorded, ready, files, orphans, fresh, kills>>

\* A voice session asks for its reply without a name: one is drawn that nobody has.
Fresh == File(fresh + 1, "tts")
SynthesizeFresh(t) ==
  /\ fresh < MaxFresh
  /\ BeginAs("server", "piper", t, 0, Fresh, Fresh, TRUE)
  /\ fresh' = fresh + 1
  /\ UNCHANGED <<recorded, ready, files, orphans, kills>>

\* PiperSpeaker: any path its caller gives, a reply or a transcript of the server's included.
SpeakTo(t, f) ==
  /\ f \in Given \cap Paths
  /\ Begin("library", "piper", t, 0, f, f)
  /\ UNCHANGED <<recorded, ready, files, orphans, fresh, kills>>

(* --- The engines -------------------------------------------------------- *)

\* A transcriber reads its recording at some time between its start and its end.
Hears(r) == IF r.about \in Texts THEN {<<r.about, 0>>} ELSE {<<r.about, v>> : v \in r.since .. recorded[r.about]}
Disturbed(cs, f) ==
  [c \in Callers |-> [cs[c] EXCEPT !.disturbed = @ \/ (cs[c] # Idle /\ f # Private /\ f = cs[c].back)]]
Wrote(f, h) == files' = IF f = Private THEN files ELSE [files EXCEPT ![f] = h]

\* Without a transcript in its output, sherpa-onnx's caller takes the last line there is.
Unheard(r) == {None} \cup IF r.engine = "sherpa-onnx" THEN {Line} ELSE {}

EngineEnds(c, ended) ==
  /\ calls[c].ended = "no"
  /\ \E h \in IF ended = "wrote" THEN Hears(calls[c]) ELSE Unheard(calls[c]) :
       /\ IF ended = "wrote" THEN Wrote(calls[c].out, h) ELSE UNCHANGED files
       /\ LET others == IF ended = "wrote" THEN Disturbed(calls, calls[c].out) ELSE calls
          IN calls' = [others EXCEPT ![c] = [calls[c] EXCEPT !.ended = ended, !.heard = h]]
  /\ UNCHANGED <<recorded, ready, orphans, fresh, kills>>

OrphanEnds(r) ==
  /\ orphans' = orphans \ {r}
  /\ \/ UNCHANGED <<files, calls>>
     \/ \E h \in Hears(r) : Wrote(r.out, h) /\ calls' = Disturbed(calls, r.out)
  /\ UNCHANGED <<recorded, ready, fresh, kills>>

(* --- Answers ------------------------------------------------------------ *)

\* What the caller finds once its engine has exited.
Found(c) == IF calls[c].back = Private THEN calls[c].heard ELSE files[calls[c].back]

\* The engine has failed, whatever it did before, or there is nothing to answer with.
Raise(c) ==
  /\ calls[c] # Idle
  /\ calls' = [calls EXCEPT ![c] = Idle]
  /\ UNCHANGED <<recorded, ready, files, orphans, fresh, kills>>

\* The server itself keeps what sherpa-onnx said.
KeptIn(r) == IF r.engine = "sherpa-onnx" THEN File(Stem[r.about], ".sherpa-onnx.txt") ELSE Private

AnswerCall(c) ==
  /\ calls[c].ended \in {"wrote", "skipped"} /\ Found(c) # None
  /\ Wrote(KeptIn(calls[c]), Found(c))
  /\ calls' = [Disturbed(calls, KeptIn(calls[c])) EXCEPT ![c] = Idle]
  /\ UNCHANGED <<recorded, ready, orphans, fresh, kills>>

(* --- The rest of the world ---------------------------------------------- *)

MakeRecording(a) ==
  /\ recorded[a] < MaxRecordings[a]
  /\ recorded' = [recorded EXCEPT ![a] = @ + 1]
  /\ UNCHANGED <<ready, files, calls, orphans, fresh, kills>>

Kill(c) ==
  /\ calls[c] # Idle /\ kills < MaxKills
  /\ kills' = kills + 1
  /\ calls' = [calls EXCEPT ![c] = Idle]
  /\ orphans' = IF calls[c].ended = "no" /\ calls[c].out # Private THEN orphans \cup {calls[c]} ELSE orphans
  /\ UNCHANGED <<recorded, ready, files, fresh>>

FilesNext ==
  \/ \E a \in Audio : Whisper(a) \/ WhisperCpp(a) \/ Sherpa(a) \/ Transcribe(a) \/ MakeRecording(a)
  \/ \E t \in Texts, f \in Files : Synthesize(t, f) \/ SpeakTo(t, f)
  \/ \E t \in Texts : SynthesizeFresh(t)
  \/ \E c \in Callers, ended \in {"wrote", "skipped"} : EngineEnds(c, ended)
  \/ \E r \in orphans : OrphanEnds(r)
  \/ \E c \in Callers : Raise(c) \/ AnswerCall(c) \/ Kill(c)

FilesSpec == FilesInit /\ [][FilesNext]_filesVars

(* --- Properties --------------------------------------------------------- *)

CallType ==
  [engine : Engines, about : Audio \cup Texts, since : Nat, out : Files \cup {Private},
   back : Files \cup {Private}, unnamed : BOOLEAN, ended : {"no", "wrote", "skipped"},
   heard : Content, disturbed : BOOLEAN] \cup {Idle}

\* Types; a killed caller's engine has not ended, and an engine has heard its
\* recording or its text just when it wrote.
FilesTypeOK ==
  /\ recorded \in [Audio -> Nat] /\ \A a \in Audio : recorded[a] <= MaxRecordings[a]
  /\ ready \subseteq Engines
  /\ files \in [Files -> Content]
  /\ calls \in [Callers -> CallType]
  /\ orphans \subseteq CallType /\ \A r \in orphans : r.ended = "no"
  /\ fresh \in 0 .. MaxFresh /\ kills \in 0 .. MaxKills
  /\ \A c \in Callers : (calls[c].heard \notin {None, Line}) <=> (calls[c].ended = "wrote")

\* What a caller is answered is of what it asked: the transcript of the
\* recording as it was when it was asked for or later, the file of the text.
\* So it is in spite of all that earlier calls have left under the same name,
\* for every engine but one that skips its work over a file of an earlier call
\* (whisper's transcript and a named reply are not removed first) or, of
\* sherpa-onnx, ends without a transcript; and unless an engine that does not
\* belong to the call wrote the file meanwhile.
AnswersAreOfTheirQuestion ==
  \A c \in Callers :
    LET call == calls[c]
        clean == \/ call.engine = "whisper.cpp" \/ call.unnamed
                 \/ call.engine = "whisper" /\ call.out = Private
    IN /\ call.ended \in {"wrote", "skipped"} /\ Found(c) # None
       /\ ~call.disturbed /\ (call.ended = "wrote" \/ clean)
       => Found(c)[1] = call.about /\ Found(c)[2] >= call.since
=============================================================================
