---------------------------- MODULE VoiceProofs ----------------------------
(***************************************************************************)
(* Theorems about the voice components.                                     *)
(*                                                                         *)
(* VoiceFiles: for every set of recordings, names and texts.  VoiceSession: *)
(* for every number of turns, every bound on mishaps and every set of       *)
(* scenes.  The two share no state: a session's replies are played from the *)
(* files of VoiceFiles, by names that neither module takes for its own.      *)
(***************************************************************************)
EXTENDS VoiceFiles, VoiceSession, FiniteSetTheorems, TLAPS

(***************************************************************************)
(* VoiceFiles                                                               *)
(***************************************************************************)
\* What a call is, by its engine.
Piped(r, n) ==
  /\ r.engine = "piper" /\ r.about \in Texts /\ r.since = 0 /\ r.back = r.out
  /\ r.out \in Files
  /\ r.out[1] = "tts" => r.out[2] \in 1 .. n
Listening(r, rec) ==
  /\ r.engine \in Transcribers /\ r.about \in Audio /\ r.since \in 1 .. rec[r.about] /\ ~r.unnamed
  /\ r.out \in Files => r.out[1] = ".txt" /\ r.back \in Files
  /\ r.out \notin Files => r.out = Private /\ r.back = Private
  /\ r.engine # "whisper.cpp" => r.back = r.out
  /\ r.engine = "whisper.cpp" => r.out \in Files
  /\ r.engine = "sherpa-onnx" => r.out = Private
Told(r) ==
  /\ r.ended = "wrote" => r.heard \notin {None, Line} /\ r.heard[1] = r.about /\ r.heard[2] >= r.since
  /\ r.ended = "no" => r.heard = None
  /\ r.ended = "skipped" => r.heard \in {None, Line} /\ (r.heard = Line => r.engine = "sherpa-onnx")
Shape(r, rec, n) ==
  /\ r \in CallType
  /\ r # Idle => r.ended # "none" /\ Told(r) /\ (Piped(r, n) \/ Listening(r, rec))

\* What a file holds for a call no other engine has disturbed, unless it was removed.
Owns(r) == r.engine = "whisper.cpp" \/ r.unnamed \/ (r.ended = "wrote" /\ r.back = r.out)
Holds(r, f) == r # Idle /\ ~r.disturbed /\ r.out # Private /\ Owns(r) => f[r.back] \in {None, r.heard}

Base ==
  /\ recorded \in [Audio -> Nat] /\ \A a \in Audio : recorded[a] <= MaxRecordings[a]
  /\ ready \subseteq Engines
  /\ files \in [Files -> Content]
  /\ fresh \in 0 .. MaxFresh /\ kills \in 0 .. MaxKills
  /\ \A k \in 1 .. MaxFresh : k > fresh => files[File(k, "tts")] = None

CallsAreKnown ==
  /\ calls \in [Callers -> CallType]
  /\ \A c \in Callers : Shape(calls[c], recorded, fresh) /\ Holds(calls[c], files)

OrphansAreKnown ==
  \A r \in orphans : r # Idle /\ r.ended = "no" /\ r.out # Private /\ Shape(r, recorded, fresh)

FilesInv == Base /\ CallsAreKnown /\ OrphansAreKnown

(* --- Facts about calls -------------------------------------------------- *)

\* Which file a name and a kind make, and which are the files of fresh replies.
LEMMA FileFacts ==
  /\ Private \notin Files
  /\ \A n \in Name, kind \in {".txt", ".sherpa-onnx.txt"} : File(n, kind) \in Files /\ File(n, kind)[1] = kind
  /\ \A n \in Named : File(n, ".wav") \in Files /\ File(n, ".wav")[1] = ".wav"
  /\ \A k \in 1 .. MaxFresh : File(k, "tts") \in Files /\ File(k, "tts")[1] = "tts" /\ File(k, "tts")[2] = k
  /\ \A f \in Files : f[1] = "tts" => f[2] \in 1 .. MaxFresh /\ f = File(f[2], "tts")
<1>1. Private \notin Files
  BY DEF Files, Private
<1>2. \A n \in Name, kind \in {".txt", ".sherpa-onnx.txt"} : File(n, kind) \in Files /\ File(n, kind)[1] = kind
  BY DEF Files, File
<1>3. \A n \in Named : File(n, ".wav") \in Files /\ File(n, ".wav")[1] = ".wav"
  BY DEF Files, File
<1>4. \A k \in 1 .. MaxFresh : File(k, "tts") \in Files /\ File(k, "tts")[1] = "tts" /\ File(k, "tts")[2] = k
  BY DEF Files, File
<1>5. \A f \in Files : f[1] = "tts" => f[2] \in 1 .. MaxFresh /\ f = File(f[2], "tts")
  BY DEF Files, File
<1> QED
  BY <1>1, <1>2, <1>3, <1>4, <1>5

\* A caller without a call is as every clause on calls wants it.
LEMMA IdleFacts ==
  /\ Idle \in CallType /\ Idle.engine = "none" /\ Idle.out = Private /\ Idle.ended = "none"
  /\ \A rec, n : Shape(Idle, rec, n)
  /\ \A f : Holds(Idle, f)
  /\ \A r \in CallType : r.engine # "none" <=> r # Idle
BY DEF CallType, Idle, Shape, Holds, Engines, Transcribers

\* A call keeps its shape when recordings are made and replies are asked for.
LEMMA ShapeGrows ==
  ASSUME NEW r, NEW rec, NEW rec2, NEW n \in Nat, NEW n2 \in Nat,
         rec \in [Audio -> Nat], rec2 \in [Audio -> Nat],
         n <= n2, \A a \in Audio : rec[a] <= rec2[a], Shape(r, rec, n)
  PROVE  Shape(r, rec2, n2)
BY DEF Shape, Piped, Listening, Told

\* A call that begins.
BegunCall(e, about, since, out, back, unnamed) ==
  [engine |-> e, about |-> about, since |-> since, out |-> out, back |-> back, unnamed |-> unnamed,
   ended |-> "no", heard |-> None, disturbed |-> FALSE]

\* It is a call, whose caller has been told nothing.
LEMMA BegunIsACall ==
  ASSUME NEW e \in Engines, NEW about \in Audio \cup Texts, NEW since \in Nat,
         NEW out \in Files \cup {Private}, NEW back \in Files \cup {Private}, NEW unnamed \in BOOLEAN
  PROVE  LET r == BegunCall(e, about, since, out, back, unnamed)
         IN /\ r \in CallType /\ Told(r) /\ r # Idle
            /\ r.engine = e /\ r.about = about /\ r.since = since /\ r.out = out /\ r.back = back
            /\ r.unnamed = unnamed /\ r.ended = "no" /\ r.heard = None /\ ~r.disturbed
BY VoiceAssumption DEF BegunCall, CallType, Told, Content, None, Idle, Engines, Transcribers

(* --- Steps -------------------------------------------------------------- *)

\* A call begins: no file changes but one that may be removed.
LEMMA NewCall ==
  ASSUME FilesInv, NEW c \in Callers, NEW r \in CallType, r # Idle,
         calls' = [calls EXCEPT ![c] = r],
         Shape(r, recorded, fresh'), Holds(r, files'),
         files' \in [Files -> Content],
         \A f \in Files : files'[f] \in {files[f], None},
         fresh' \in 0 .. MaxFresh, fresh <= fresh',
         recorded' = recorded, ready' = ready, orphans' = orphans, kills' = kills
  PROVE  FilesInv'
<1>1. Base'
  BY FileFacts DEF FilesInv, Base
<1>2. \A q : Shape(q, recorded, fresh) => Shape(q, recorded, fresh')
  BY ShapeGrows DEF FilesInv, Base
<1>3. ASSUME NEW d \in Callers PROVE Holds(calls[d], files')
  <2>1. SUFFICES ASSUME calls[d] # Idle, calls[d].out # Private PROVE Holds(calls[d], files')
    BY DEF Holds
  <2>2. calls[d].back \in Files
    BY <2>1 DEF FilesInv, CallsAreKnown, Shape, Piped, Listening
  <2> QED
    BY <2>2 DEF FilesInv, CallsAreKnown, Holds
<1>4. CallsAreKnown'
  BY <1>2, <1>3 DEF FilesInv, CallsAreKnown
<1>5. OrphansAreKnown'
  BY <1>2 DEF FilesInv, OrphansAreKnown
<1> QED
  BY <1>1, <1>4, <1>5 DEF FilesInv

\* A call of a transcriber.
LEMMA TranscriberStep ==
  ASSUME FilesInv, NEW c \in Callers, NEW e \in Transcribers, NEW a \in Audio, recorded[a] > 0,
         NEW out \in Files \cup {Private}, NEW back \in Files \cup {Private},
         Begin(c, e, a, recorded[a], out, back),
         c = "library" => e = "whisper",
         c = "library" \/ e = "sherpa-onnx" => out = Private /\ back = Private,
         ~(c = "library" \/ e = "sherpa-onnx") => out \in Files /\ out[1] = ".txt" /\ back \in Files,
         e # "whisper.cpp" => back = out /\ files' = files,
         e = "whisper.cpp" => files' = [files EXCEPT ![back] = None],
         recorded' = recorded, ready' = ready, orphans' = orphans, fresh' = fresh, kills' = kills
  PROVE  FilesInv'
<1> DEFINE r == BegunCall(e, a, recorded[a], out, back, FALSE)
<1>1. calls[c] = Idle /\ calls' = [calls EXCEPT ![c] = r]
  BY DEF Begin, BeginAs, BegunCall
<1>2. recorded[a] \in Nat /\ a \in Audio \cup Texts /\ e \in Engines /\ FALSE \in BOOLEAN
  BY DEF FilesInv, Base, Engines
<1>3. /\ r \in CallType /\ Told(r) /\ r # Idle
      /\ r.engine = e /\ r.about = a /\ r.since = recorded[a] /\ r.out = out /\ r.back = back
      /\ r.unnamed = FALSE /\ r.ended = "no" /\ r.heard = None /\ ~r.disturbed
  BY <1>2, BegunIsACall, Zenon
<1> HIDE DEF r
<1>4. Shape(r, recorded, fresh')
  BY <1>2, <1>3, FileFacts DEF Shape, Listening
<1>5. files' \in [Files -> Content] /\ \A f \in Files : files'[f] \in {files[f], None}
  BY DEF FilesInv, Base, Content
<1>6. Holds(r, files')
  <2>1. SUFFICES ASSUME e = "whisper.cpp" PROVE files'[back] = None
    BY <1>3 DEF Holds, Owns
  <2>2. back \in Files /\ files \in [Files -> Content]
    BY <2>1 DEF FilesInv, Base
  <2> QED
    BY <2>1, <2>2
<1>7. fresh' \in 0 .. MaxFresh /\ fresh <= fresh'
  BY DEF FilesInv, Base
<1> QED
  BY <1>1, <1>3, <1>4, <1>5, <1>6, <1>7, NewCall

\* A call of piper, with a name or without: a name that is drawn has no file yet.
LEMMA PiperStep ==
  ASSUME FilesInv, NEW c \in Callers, NEW t \in Texts, NEW out \in Files, NEW unnamed \in BOOLEAN,
         unnamed => out = Fresh /\ fresh < MaxFresh /\ fresh' = fresh + 1,
         ~unnamed => out \in Given /\ fresh' = fresh,
         BeginAs(c, "piper", t, 0, out, out, unnamed), files' = files,
         recorded' = recorded, ready' = ready, orphans' = orphans, kills' = kills
  PROVE  FilesInv'
<1> DEFINE r == BegunCall("piper", t, 0, out, out, unnamed)
<1>1. calls[c] = Idle /\ calls' = [calls EXCEPT ![c] = r]
  BY DEF BeginAs, BegunCall
<1>2. /\ r \in CallType /\ Told(r) /\ r # Idle
      /\ r.engine = "piper" /\ r.about = t /\ r.since = 0 /\ r.out = out /\ r.back = out
      /\ r.unnamed = unnamed /\ r.ended = "no" /\ r.heard = None /\ ~r.disturbed
  BY BegunIsACall DEF Engines
<1> HIDE DEF r
<1>3. fresh \in Nat /\ fresh' \in 0 .. MaxFresh /\ fresh <= fresh'
  BY VoiceAssumption DEF FilesInv, Base
<1>4. unnamed => fresh + 1 \in 1 .. MaxFresh /\ out[1] = "tts" /\ out[2] = fresh + 1 /\ files[out] = None
  <2>1. SUFFICES ASSUME unnamed
                 PROVE  fresh + 1 \in 1 .. MaxFresh /\ out[1] = "tts" /\ out[2] = fresh + 1 /\ files[out] = None
    OBVIOUS
  <2>2. out = File(fresh + 1, "tts") /\ fresh + 1 \in 1 .. MaxFresh /\ fresh + 1 > fresh
    BY <1>3, <2>1, VoiceAssumption DEF Fresh
  <2> QED
    BY <2>2, FileFacts DEF FilesInv, Base
<1>5. out[1] = "tts" => out[2] \in 1 .. fresh'
  <2>1. CASE unnamed
    BY <1>3, <1>4, <2>1
  <2>2. CASE ~unnamed
    <3>1. out[1] = "tts" => out[2] \in 1 .. MaxFresh /\ out[2] <= fresh
      BY <2>2, FileFacts DEF Given
    <3> QED
      BY <1>3, <2>2, <3>1, VoiceAssumption
  <2> QED
    BY <2>1, <2>2
<1>6. Shape(r, recorded, fresh')
  BY <1>2, <1>5 DEF Shape, Piped
<1>7. Holds(r, files')
  BY <1>2, <1>4 DEF Holds, Owns
<1>8. files' \in [Files -> Content] /\ \A f \in Files : files'[f] \in {files[f], None}
  BY DEF FilesInv, Base
<1> QED
  BY <1>1, <1>2, <1>3, <1>6, <1>7, <1>8, NewCall

\* An engine writes: the files and the calls that follow from it, but for its own call.
LEMMA FileWritten ==
  ASSUME FilesInv, NEW f \in Files \cup {Private}, NEW h \in Content, Wrote(f, h)
  PROVE  /\ files' \in [Files -> Content] /\ (f \in Files => files'[f] = h)
         /\ \A g \in Files : g # f => files'[g] = files[g]
         /\ \A c \in Callers :
              LET d == Disturbed(calls, f)[c]
              IN d \in CallType /\ Shape(d, recorded, fresh) /\ Holds(d, files')
<1>1. files \in [Files -> Content] /\ files' = IF f = Private THEN files ELSE [files EXCEPT ![f] = h]
  BY DEF FilesInv, Base, Wrote
<1>2. files' \in [Files -> Content] /\ (f \in Files => files'[f] = h) /\ \A g \in Files : g # f => files'[g] = files[g]
  BY <1>1, FileFacts
<1>3. ASSUME NEW c \in Callers
      PROVE  LET d == Disturbed(calls, f)[c]
             IN d \in CallType /\ Shape(d, recorded, fresh) /\ Holds(d, files')
  <2> DEFINE r == calls[c]
             d == Disturbed(calls, f)[c]
  <2>1. d = [r EXCEPT !.disturbed = @ \/ (r # Idle /\ f # Private /\ f = r.back)]
    BY DEF Disturbed
  <2>2. r \in CallType /\ Shape(r, recorded, fresh) /\ Holds(r, files)
    BY DEF FilesInv, CallsAreKnown
  <2> HIDE DEF r, d
  <2>3. CASE r = Idle
    <3>1. d = Idle
      BY <2>1, <2>3 DEF Idle
    <3> QED
      BY <3>1, IdleFacts DEF r, d
  <2>4. CASE r # Idle
    <3>1. /\ r.disturbed \in BOOLEAN /\ d.disturbed = (r.disturbed \/ (f # Private /\ f = r.back))
          /\ d.engine # "none"
      BY <2>1, <2>2, <2>4, IdleFacts DEF CallType, Idle
    <3>2. d \in CallType /\ d # Idle
      BY <2>1, <2>2, <2>4, <3>1, IdleFacts DEF CallType
    <3>3. /\ d.engine = r.engine /\ d.about = r.about /\ d.since = r.since /\ d.out = r.out
          /\ d.back = r.back /\ d.unnamed = r.unnamed /\ d.ended = r.ended /\ d.heard = r.heard
      BY <2>1, <2>2, <2>4, IdleFacts DEF CallType
    <3>4. Shape(d, recorded, fresh)
      BY <2>2, <2>4, <3>2, <3>3 DEF Shape, Told, Piped, Listening
    <3>5. Holds(d, files')
      <4>1. SUFFICES ASSUME ~d.disturbed, d.out # Private, Owns(d) PROVE files'[d.back] \in {None, d.heard}
        BY DEF Holds
      <4>2. ~r.disturbed /\ (f = Private \/ r.back # f) /\ Owns(r)
        BY <3>1, <3>3, <4>1 DEF Owns
      <4>3. r.back \in Files
        BY <2>2, <2>4, <3>3, <4>1 DEF Shape, Piped, Listening
      <4>4. files'[r.back] = files[r.back]
        BY <1>1, <4>2, <4>3
      <4> QED
        BY <2>2, <2>4, <3>3, <4>1, <4>2, <4>4 DEF Holds
    <3> QED
      BY <3>2, <3>4, <3>5 DEF d
  <2> QED
    BY <2>3, <2>4
<1> QED
  BY <1>2, <1>3

\* A name that has not been drawn is written by no call.
LEMMA UndrawnStay ==
  ASSUME Base, NEW f \in Files \cup {Private}, f[1] = "tts" => f[2] \in 1 .. fresh,
         files' \in [Files -> Content], \A g \in Files : g # f => files'[g] = files[g],
         recorded' = recorded, ready' = ready, fresh' = fresh, kills' = kills
  PROVE  Base'
<1>1. \A k \in 1 .. MaxFresh : k > fresh => File(k, "tts") # f
  BY VoiceAssumption, FileFacts DEF Base
<1> QED
  BY <1>1, FileFacts DEF Base

\* An engine hears its own recording, as it was asked for or later, or its own text.
LEMMA HeardIsContent ==
  ASSUME Base, NEW r \in CallType, r # Idle, Shape(r, recorded, fresh), NEW h \in Hears(r)
  PROVE  h \in Content /\ h \notin {None, Line} /\ h[1] = r.about /\ h[2] >= r.since
<1>1. CASE Piped(r, fresh)
  <2>1. h = <<r.about, 0>> /\ r.about \in Texts /\ r.since = 0
    BY <1>1 DEF Hears, Piped
  <2> QED
    BY <2>1, VoiceAssumption DEF Content, None, Line
<1>2. CASE Listening(r, recorded)
  <2>1. r.about \in Audio /\ r.about \notin Texts /\ r.since \in 1 .. recorded[r.about]
    BY <1>2, VoiceAssumption DEF Listening
  <2>2. PICK v \in r.since .. recorded[r.about] : h = <<r.about, v>>
    BY <2>1 DEF Hears
  <2>3. recorded[r.about] \in Nat /\ MaxRecordings[r.about] \in Nat /\ recorded[r.about] <= MaxRecordings[r.about]
    BY <2>1, VoiceAssumption DEF Base
  <2>4. v \in 1 .. MaxRecordings[r.about] /\ v >= r.since
    BY <2>1, <2>2, <2>3
  <2>5. h \in {r.about} \X (1 .. MaxRecordings[r.about])
    BY <2>2, <2>4
  <2>6. h \in UNION {{a} \X (1 .. MaxRecordings[a]) : a \in Audio}
    BY <2>1, <2>5
  <2> QED
    BY <2>2, <2>4, <2>6 DEF Content, None, Line
<1> QED
  BY <1>1, <1>2 DEF Shape

\* An engine writes its file, or skips its work, and exits.
LEMMA EngineEndsStep ==
  ASSUME FilesInv, NEW c \in Callers, NEW ended \in {"wrote", "skipped"}, EngineEnds(c, ended)
  PROVE  FilesInv'
<1>1. /\ calls[c] \in CallType /\ calls[c] # Idle /\ calls[c].ended = "no"
      /\ Shape(calls[c], recorded, fresh) /\ Holds(calls[c], files) /\ calls \in [Callers -> CallType]
  BY IdleFacts DEF EngineEnds, FilesInv, CallsAreKnown
<1>2. recorded' = recorded /\ ready' = ready /\ orphans' = orphans /\ fresh' = fresh /\ kills' = kills
  BY DEF EngineEnds
<1>3. PICK h \in IF ended = "wrote" THEN Hears(calls[c]) ELSE Unheard(calls[c]) :
        /\ ended = "wrote" => Wrote(calls[c].out, h)
        /\ ended = "skipped" => files' = files
        /\ calls' = [IF ended = "wrote" THEN Disturbed(calls, calls[c].out) ELSE calls
                       EXCEPT ![c] = [calls[c] EXCEPT !.ended = ended, !.heard = h]]
  BY DEF EngineEnds
<1> DEFINE others == IF ended = "wrote" THEN Disturbed(calls, calls[c].out) ELSE calls
           q == [calls[c] EXCEPT !.ended = ended, !.heard = h]
<1>4. q \in CallType /\ Shape(q, recorded, fresh) /\ Holds(q, files')
  <2> DEFINE r == calls[c]
  <2>1. q = [r EXCEPT !.ended = ended, !.heard = h]
    OBVIOUS
  <2>2. /\ r \in CallType /\ r # Idle /\ r.ended = "no"
        /\ Shape(r, recorded, fresh) /\ Holds(r, files)
        /\ ended = "wrote" => h \in Hears(r) /\ Wrote(r.out, h)
        /\ ended = "skipped" => h \in Unheard(r) /\ files' = files
    BY <1>1, <1>3
  <2> HIDE DEF q, r
  <2>3. ended = "wrote" => h \in Content /\ h \notin {None, Line} /\ h[1] = r.about /\ h[2] >= r.since
    BY <2>2, HeardIsContent DEF FilesInv
  <2>4. r.engine # "none"
    BY <2>2, IdleFacts
  <2>5. ended = "skipped" => h \in {None, Line} /\ (h = Line => r.engine = "sherpa-onnx")
    BY <2>2 DEF Unheard, None, Line
  <2>6. h \in Content
    BY <2>3, <2>5 DEF Content
  <2>7. /\ q.engine = r.engine /\ q.about = r.about /\ q.since = r.since /\ q.out = r.out /\ q.back = r.back
        /\ q.unnamed = r.unnamed /\ q.ended = ended /\ q.heard = h /\ q.disturbed = r.disturbed
        /\ q # Idle /\ q \in CallType
    BY <2>1, <2>2, <2>4, <2>6 DEF CallType, Idle
  <2>8. Shape(q, recorded, fresh)
    BY <2>2, <2>3, <2>5, <2>7 DEF Shape, Told, Piped, Listening
  <2>9. Holds(q, files')
    <3>1. SUFFICES ASSUME ~r.disturbed, r.out # Private, Owns(q) PROVE files'[r.back] \in {None, h}
      BY <2>7 DEF Holds
    <3>2. r.out \in Files /\ r.back \in Files
      BY <2>2, <3>1 DEF Shape, Piped, Listening
    <3>3. r.engine = "whisper.cpp" \/ r.unnamed => files[r.back] = None
      BY <2>2, <3>1 DEF Holds, Owns, Shape, Told
    <3>4. CASE ended = "wrote"
      <4>1. files' = [files EXCEPT ![r.out] = h] /\ files \in [Files -> Content]
        BY <2>2, <3>1, <3>4 DEF Wrote, FilesInv, Base
      <4> QED
        BY <2>7, <3>1, <3>2, <3>3, <3>4, <4>1 DEF Owns
    <3>5. CASE ended = "skipped"
      BY <2>2, <2>7, <3>1, <3>3, <3>5 DEF Owns
    <3> QED
      BY <3>4, <3>5
  <2> QED
    BY <2>7, <2>8, <2>9 DEF q
<1>5. calls[c].out \in Files \cup {Private}
  BY <1>1, IdleFacts DEF CallType, Idle
<1>6. /\ files' \in [Files -> Content]
      /\ \A g \in Files : g # calls[c].out => files'[g] = files[g]
      /\ \A d \in Callers : others[d] \in CallType /\ Shape(others[d], recorded, fresh) /\ Holds(others[d], files')
  <2>1. CASE ended = "wrote"
    <3>1. h \in Content
      BY <1>1, <1>3, <2>1, HeardIsContent DEF FilesInv
    <3> QED
      BY <1>3, <1>5, <2>1, <3>1, FileWritten
  <2>2. CASE ended = "skipped"
    BY <1>3, <2>2 DEF FilesInv, Base, CallsAreKnown
  <2> QED
    BY <2>1, <2>2
<1>7. calls' = [d \in Callers |-> IF d = c THEN q ELSE others[d]]
  BY <1>1, <1>3 DEF Disturbed
<1> HIDE DEF others, q
<1>8. CallsAreKnown'
  BY <1>2, <1>4, <1>6, <1>7 DEF CallsAreKnown
<1>9. OrphansAreKnown'
  BY <1>2 DEF FilesInv, OrphansAreKnown
<1>10. calls[c].out[1] = "tts" => calls[c].out[2] \in 1 .. fresh
  <2>1. Private[1] # "tts"
    BY DEF Private
  <2> QED
    BY <1>1, <1>5, <2>1 DEF Shape, Piped, Listening
<1>11. Base'
  BY <1>2, <1>5, <1>6, <1>10, UndrawnStay DEF FilesInv
<1> QED
  BY <1>8, <1>9, <1>11 DEF FilesInv

\* An engine whose caller was killed writes its file after all, or fails.
LEMMA OrphanEndsStep ==
  ASSUME FilesInv, NEW r \in orphans, OrphanEnds(r)
  PROVE  FilesInv'
<1>1. /\ recorded' = recorded /\ ready' = ready /\ orphans' = orphans \ {r}
      /\ fresh' = fresh /\ kills' = kills
  BY DEF OrphanEnds
<1>2. r \in CallType /\ r # Idle /\ Shape(r, recorded, fresh) /\ r.out # Private
  BY DEF FilesInv, OrphansAreKnown, Shape
<1>3. OrphansAreKnown'
  BY <1>1 DEF FilesInv, OrphansAreKnown
<1>4. CASE files' = files /\ calls' = calls
  BY <1>1, <1>3, <1>4 DEF FilesInv, Base, CallsAreKnown
<1>5. CASE \E h \in Hears(r) : Wrote(r.out, h) /\ calls' = Disturbed(calls, r.out)
  <2>1. PICK h \in Hears(r) : Wrote(r.out, h) /\ calls' = Disturbed(calls, r.out)
    BY <1>5
  <2>2. h \in Content
    BY <1>2, HeardIsContent DEF FilesInv
  <2>3. r.out \in Files
    BY <1>2, IdleFacts DEF CallType, Idle
  <2>4. /\ files' \in [Files -> Content]
        /\ \A g \in Files : g # r.out => files'[g] = files[g]
        /\ \A d \in Callers : calls'[d] \in CallType /\ Shape(calls'[d], recorded, fresh) /\ Holds(calls'[d], files')
    BY <2>1, <2>2, <2>3, FileWritten
  <2>5. calls' \in [Callers -> CallType]
    <3>1. calls' = [d \in Callers |-> calls'[d]]
      BY <2>1 DEF Disturbed
    <3> QED
      BY <2>4, <3>1
  <2>6. CallsAreKnown'
    BY <1>1, <2>4, <2>5 DEF CallsAreKnown
  <2>7. r.out[1] = "tts" => r.out[2] \in 1 .. fresh
    BY <1>2, <2>3 DEF Shape, Piped, Listening
  <2>8. Base'
    BY <1>1, <2>3, <2>4, <2>7, UndrawnStay DEF FilesInv
  <2> QED
    BY <1>3, <2>6, <2>8 DEF FilesInv
<1> QED
  BY <1>4, <1>5 DEF OrphanEnds

\* A call is over, and no file has changed.
LEMMA CallOver ==
  ASSUME FilesInv, NEW c \in Callers, calls' = [calls EXCEPT ![c] = Idle],
         files' = files, recorded' = recorded, ready' = ready, fresh' = fresh, kills' \in 0 .. MaxKills
  PROVE  Base' /\ CallsAreKnown'
BY IdleFacts DEF FilesInv, Base, CallsAreKnown

\* A call ends with an error.
LEMMA RaiseStep ==
  ASSUME FilesInv, NEW c \in Callers, Raise(c)
  PROVE  FilesInv'
<1>1. /\ calls' = [calls EXCEPT ![c] = Idle]
      /\ recorded' = recorded /\ ready' = ready /\ orphans' = orphans /\ files' = files
      /\ fresh' = fresh /\ kills' = kills
  BY DEF Raise
<1>2. Base' /\ CallsAreKnown'
  BY <1>1, CallOver DEF FilesInv, Base
<1>3. OrphansAreKnown'
  BY <1>1 DEF FilesInv, OrphansAreKnown
<1> QED
  BY <1>2, <1>3 DEF FilesInv

\* A caller is killed, and leaves its engine running.
LEMMA KillStep ==
  ASSUME FilesInv, NEW c \in Callers, Kill(c)
  PROVE  FilesInv'
<1>1. /\ calls' = [calls EXCEPT ![c] = Idle] /\ calls[c] # Idle
      /\ recorded' = recorded /\ ready' = ready /\ files' = files
      /\ fresh' = fresh /\ kills' = kills + 1 /\ kills < MaxKills
      /\ \/ orphans' = orphans
         \/ orphans' = orphans \cup {calls[c]} /\ calls[c].ended = "no" /\ calls[c].out # Private
  BY DEF Kill
<1>2. kills' \in 0 .. MaxKills
  BY <1>1, VoiceAssumption DEF FilesInv, Base
<1>3. Base' /\ CallsAreKnown'
  BY <1>1, <1>2, CallOver
<1>4. OrphansAreKnown'
  BY <1>1 DEF FilesInv, OrphansAreKnown, CallsAreKnown
<1> QED
  BY <1>3, <1>4 DEF FilesInv

\* A recording is made again while engines may be reading it.
LEMMA RecordingStep ==
  ASSUME FilesInv, NEW a \in Audio, MakeRecording(a)
  PROVE  FilesInv'
<1>1. /\ recorded' = [recorded EXCEPT ![a] = @ + 1] /\ recorded[a] < MaxRecordings[a]
      /\ UNCHANGED <<ready, files, calls, orphans, fresh, kills>>
  BY DEF MakeRecording
<1>2. recorded' \in [Audio -> Nat] /\ (\A b \in Audio : recorded[b] <= recorded'[b] /\ recorded'[b] <= MaxRecordings[b])
  <2>1. recorded \in [Audio -> Nat] /\ MaxRecordings \in [Audio -> Nat]
    BY VoiceAssumption DEF FilesInv, Base
  <2>2. recorded[a] \in Nat /\ MaxRecordings[a] \in Nat /\ recorded'[a] = recorded[a] + 1
    BY <1>1, <2>1
  <2>3. \A b \in Audio : b # a => recorded'[b] = recorded[b]
    BY <1>1, <2>1
  <2>4. \A b \in Audio : recorded[b] \in Nat /\ recorded[b] <= MaxRecordings[b]
    BY <2>1 DEF FilesInv, Base
  <2>5. recorded' \in [Audio -> Nat]
    BY <1>1, <2>1, <2>2
  <2>6. \A b \in Audio : recorded[b] <= recorded'[b] /\ recorded'[b] <= MaxRecordings[b]
    BY <1>1, <2>2, <2>3, <2>4
  <2> QED
    BY <2>5, <2>6
<1>3. Base'
  BY <1>1, <1>2 DEF FilesInv, Base
<1>4. \A r : Shape(r, recorded, fresh) => Shape(r, recorded', fresh)
  BY <1>2, ShapeGrows DEF FilesInv, Base
<1> QED
  BY <1>1, <1>3, <1>4 DEF FilesInv, CallsAreKnown, OrphansAreKnown

\* What a call finds was heard for it, unless another engine has disturbed it or
\* its own has skipped a file that was there.
LEMMA FoundIsHeard ==
  ASSUME FilesInv, NEW c \in Callers, calls[c] # Idle, Found(c) # None, ~calls[c].disturbed,
         calls[c].ended # "no",
         \/ calls[c].ended = "wrote" \/ calls[c].engine = "whisper.cpp" \/ calls[c].unnamed
         \/ calls[c].engine = "whisper" /\ calls[c].out = Private
  PROVE  Found(c) = calls[c].heard /\ calls[c].ended = "wrote"
<1> DEFINE r == calls[c]
<1>1. Shape(r, recorded, fresh) /\ Holds(r, files) /\ r # Idle /\ ~r.disturbed /\ r \in CallType
  BY DEF FilesInv, CallsAreKnown
<1>2. Told(r) /\ (Piped(r, fresh) \/ Listening(r, recorded)) /\ r.ended \in {"wrote", "skipped"}
  BY <1>1 DEF Shape, CallType
<1>3. Found(c) = IF r.back = Private THEN r.heard ELSE files[r.back]
  BY DEF Found
<1>4. Found(c) # None
  OBVIOUS
<1>5. r.ended = "wrote" \/ r.engine = "whisper.cpp" \/ r.unnamed \/ (r.engine = "whisper" /\ r.out = Private)
  OBVIOUS
<1> SUFFICES Found(c) = r.heard /\ r.ended = "wrote"
  OBVIOUS
<1> HIDE DEF r
<1>6. Found(c) = r.heard
  <2>1. CASE r.back = Private
    BY <1>3, <2>1
  <2>2. CASE r.back # Private
    <3>1. r.out # Private
      BY <1>2, <2>2, FileFacts DEF Piped, Listening
    <3>2. r.back # r.out => r.engine = "whisper.cpp"
      BY <1>2 DEF Piped, Listening
    <3>3. Owns(r)
      BY <1>5, <3>1, <3>2 DEF Owns
    <3> QED
      BY <1>1, <1>3, <1>4, <2>2, <3>1, <3>3 DEF Holds
  <2> QED
    BY <2>1, <2>2
<1>7. ASSUME r.ended = "skipped" PROVE FALSE
  <2>1. r.heard = Line /\ r.engine = "sherpa-onnx"
    BY <1>2, <1>4, <1>6, <1>7 DEF Told
  <2>2. ~r.unnamed
    BY <1>2, <2>1 DEF Piped, Listening
  <2> QED
    BY <1>5, <1>7, <2>1, <2>2
<1> QED
  BY <1>2, <1>6, <1>7

\* A call is answered with what its file holds; what sherpa-onnx said is kept.
LEMMA AnswerCallStep ==
  ASSUME FilesInv, NEW c \in Callers, AnswerCall(c)
  PROVE  FilesInv'
<1> DEFINE r == calls[c]
           f == KeptIn(r)
<1>1. /\ r.ended \in {"wrote", "skipped"} /\ Wrote(f, Found(c))
      /\ calls' = [Disturbed(calls, f) EXCEPT ![c] = Idle]
      /\ recorded' = recorded /\ ready' = ready /\ orphans' = orphans /\ fresh' = fresh /\ kills' = kills
  BY DEF AnswerCall
<1>2. r # Idle /\ r \in CallType /\ Shape(r, recorded, fresh)
  BY <1>1, IdleFacts DEF FilesInv, CallsAreKnown
<1>3. Found(c) \in Content
  <2>1. r.heard \in Content /\ r.back \in Files \cup {Private} /\ files \in [Files -> Content]
    BY <1>2, IdleFacts DEF CallType, Idle, FilesInv, Base
  <2> QED
    BY <2>1 DEF Found
<1>4. f \in Files \cup {Private} /\ f[1] # "tts"
  <2>1. r.engine = "sherpa-onnx" => Stem[r.about] \in Name
    BY <1>2, VoiceAssumption DEF Shape, Piped, Listening
  <2>2. Private[1] # "tts"
    BY DEF Private
  <2> QED
    BY <2>1, <2>2, FileFacts DEF KeptIn
<1> HIDE DEF f
<1>5. /\ files' \in [Files -> Content]
      /\ \A g \in Files : g # f => files'[g] = files[g]
      /\ \A d \in Callers : LET q == Disturbed(calls, f)[d]
                            IN q \in CallType /\ Shape(q, recorded, fresh) /\ Holds(q, files')
  BY <1>1, <1>3, <1>4, FileWritten
<1>6. Base'
  BY <1>1, <1>4, <1>5, UndrawnStay DEF FilesInv
<1>7. calls' = [d \in Callers |-> IF d = c THEN Idle ELSE Disturbed(calls, f)[d]]
  BY <1>1 DEF Disturbed
<1>8. CallsAreKnown'
  BY <1>1, <1>5, <1>7, IdleFacts DEF CallsAreKnown
<1>9. OrphansAreKnown'
  BY <1>1 DEF FilesInv, OrphansAreKnown
<1> QED
  BY <1>6, <1>8, <1>9 DEF FilesInv

(* --- Theorems ----------------------------------------------------------- *)

\* The inductive invariant holds at the start and is kept by every step.
THEOREM FilesInvariant == FilesSpec => []FilesInv
<1>1. FilesInit => FilesInv
  <2>1. SUFFICES ASSUME FilesInit PROVE FilesInv
    OBVIOUS
  <2>2. \A c \in Callers : calls[c] = Idle
    BY <2>1 DEF FilesInit
  <2>3. Base
    BY <2>1, VoiceAssumption, FileFacts DEF FilesInit, Base, Content
  <2>4. CallsAreKnown
    BY <2>1, <2>2, IdleFacts DEF FilesInit, CallsAreKnown
  <2>5. OrphansAreKnown
    BY <2>1 DEF FilesInit, OrphansAreKnown
  <2> QED
    BY <2>3, <2>4, <2>5 DEF FilesInv
<1>2. FilesInv /\ [FilesNext]_filesVars => FilesInv'
  <2> SUFFICES ASSUME FilesInv, [FilesNext]_filesVars PROVE FilesInv'
    OBVIOUS
  <2>1. ASSUME NEW a \in Audio, Whisper(a) \/ WhisperCpp(a) \/ Sherpa(a) \/ Transcribe(a) PROVE FilesInv'
    <3>1. /\ File(Stem[a], ".txt") \in Files /\ File(Stem[a], ".txt")[1] = ".txt"
          /\ File(Trimmed[Stem[a]], ".txt") \in Files
      BY VoiceAssumption, FileFacts
    <3>2. /\ recorded' = recorded /\ ready' = ready /\ orphans' = orphans /\ recorded[a] > 0
          /\ fresh' = fresh /\ kills' = kills
      BY <2>1 DEF Whisper, WhisperCpp, Sherpa, Transcribe
    <3>3. CASE Whisper(a)
      BY <3>1, <3>2, <3>3, TranscriberStep DEF Whisper, Callers, Transcribers
    <3>4. CASE WhisperCpp(a)
      BY <3>1, <3>2, <3>4, TranscriberStep DEF WhisperCpp, Callers, Transcribers
    <3>5. CASE Sherpa(a)
      BY <3>2, <3>5, TranscriberStep DEF Sherpa, Callers, Transcribers
    <3>6. CASE Transcribe(a)
      BY <3>2, <3>6, TranscriberStep DEF Transcribe, Callers, Transcribers
    <3> QED
      BY <2>1, <3>3, <3>4, <3>5, <3>6
  <2>2. ASSUME NEW t \in Texts, NEW f \in Files, Synthesize(t, f) \/ SpeakTo(t, f) PROVE FilesInv'
    <3>1. \E c \in Callers : /\ BeginAs(c, "piper", t, 0, f, f, FALSE) /\ f \in Given
                             /\ files' = files /\ fresh' = fresh /\ recorded' = recorded /\ ready' = ready
                             /\ orphans' = orphans /\ kills' = kills
      BY <2>2 DEF Synthesize, SpeakTo, Begin, Callers
    <3> QED
      BY <3>1, PiperStep
  <2>3. ASSUME NEW t \in Texts, SynthesizeFresh(t) PROVE FilesInv'
    <3>1. fresh + 1 \in 1 .. MaxFresh
      BY <2>3, VoiceAssumption DEF SynthesizeFresh, FilesInv, Base
    <3>2. Fresh \in Files
      BY <3>1, FileFacts DEF Fresh
    <3>3. /\ BeginAs("server", "piper", t, 0, Fresh, Fresh, TRUE) /\ fresh < MaxFresh /\ fresh' = fresh + 1
          /\ files' = files /\ recorded' = recorded /\ ready' = ready
          /\ orphans' = orphans /\ kills' = kills
      BY <2>3 DEF SynthesizeFresh
    <3> QED
      BY <3>2, <3>3, PiperStep DEF Callers
  <2>4. ASSUME NEW c \in Callers, NEW ended \in {"wrote", "skipped"}, EngineEnds(c, ended) PROVE FilesInv'
    BY <2>4, EngineEndsStep
  <2>5. ASSUME NEW r \in orphans, OrphanEnds(r) PROVE FilesInv'
    BY <2>5, OrphanEndsStep
  <2>6. ASSUME NEW c \in Callers, Raise(c) \/ AnswerCall(c) \/ Kill(c) PROVE FilesInv'
    BY <2>6, RaiseStep, AnswerCallStep, KillStep
  <2>7. ASSUME NEW a \in Audio, MakeRecording(a) PROVE FilesInv'
    BY <2>7, RecordingStep
  <2>8. CASE UNCHANGED filesVars
    BY <2>8 DEF filesVars, FilesInv, Base, CallsAreKnown, OrphansAreKnown
  <2> QED
    BY <2>1, <2>2, <2>3, <2>4, <2>5, <2>6, <2>7, <2>8 DEF FilesNext
<1> QED
  BY <1>1, <1>2, PTL DEF FilesSpec

\* The types hold.
THEOREM FilesTypeCorrect == FilesSpec => []FilesTypeOK
<1>1. FilesInv => FilesTypeOK
  <2>1. SUFFICES ASSUME FilesInv PROVE FilesTypeOK
    OBVIOUS
  <2>2. ASSUME NEW c \in Callers PROVE (calls[c].heard \notin {None, Line}) <=> (calls[c].ended = "wrote")
    <3>1. calls[c] \in CallType /\ (calls[c] # Idle => calls[c].ended # "none" /\ Told(calls[c]))
      BY <2>1 DEF FilesInv, CallsAreKnown, Shape
    <3>2. calls[c] # Idle => calls[c].ended \in {"no", "wrote", "skipped"}
      BY <3>1 DEF CallType
    <3> QED
      BY <3>1, <3>2 DEF Told, Idle
  <2>3. orphans \subseteq CallType /\ \A r \in orphans : r.ended = "no"
    BY <2>1 DEF FilesInv, OrphansAreKnown, Shape
  <2> QED
    BY <2>1, <2>2, <2>3 DEF FilesTypeOK, FilesInv, Base, CallsAreKnown
<1> QED
  BY <1>1, FilesInvariant, PTL

\* What a caller is answered is of what it asked.
THEOREM AnswersAreTrue == FilesSpec => []AnswersAreOfTheirQuestion
<1>1. FilesInv => AnswersAreOfTheirQuestion
  <2>1. SUFFICES ASSUME FilesInv, NEW c \in Callers, calls[c].ended \in {"wrote", "skipped"}, Found(c) # None,
                        ~calls[c].disturbed,
                        \/ calls[c].ended = "wrote" \/ calls[c].engine = "whisper.cpp" \/ calls[c].unnamed
                        \/ calls[c].engine = "whisper" /\ calls[c].out = Private
                 PROVE  Found(c)[1] = calls[c].about /\ Found(c)[2] >= calls[c].since
    BY DEF AnswersAreOfTheirQuestion
  <2>2. calls[c] # Idle
    BY <2>1, IdleFacts
  <2>3. Found(c) = calls[c].heard /\ calls[c].ended = "wrote"
    BY <2>1, <2>2, FoundIsHeard
  <2> QED
    BY <2>1, <2>2, <2>3 DEF FilesInv, CallsAreKnown, Shape, Told
<1> QED
  BY <1>1, FilesInvariant, PTL

(***************************************************************************)
(* VoiceSession                                                             *)
(***************************************************************************)
\* A prepareForCommand that has begun to post knows its session.
Prepared ==
  \A j \in Job : j[1] = "prepare" /\ stage[j] \in {"posting", "seeding"} => target[j] \in Job

\* A session that takes commands has been opened since its last one.
Opened ==
  \A s \in Job : session[s].status \in {"listening-command", "interrupted"} => credit[s]

IInv == TypeOK /\ Prepared /\ Opened /\ earned

EventSet == [transcript : Transcript, final : BOOLEAN, interrupt : BOOLEAN,
             playbackFinished : BOOLEAN]

-----------------------------------------------------------------------------
(* The data.                                                               *)

\* A coroutine is a kind of callback and a turn; no coroutine is the missing session.
LEMMA Jobs ==
  /\ \A j \in Job : j[1] \in {"wake", "prepare", "partial", "final", "finished"} /\ j[2] \in Turn
  /\ \A k \in {"wake", "prepare", "partial", "final", "finished"}, t \in Turn :
       <<k, t>> \in Job
  /\ NoSession \notin Job
<1>1. \A j \in Job : j[1] \in {"wake", "prepare", "partial", "final", "finished"} /\ j[2] \in Turn
  BY DEF Job
<1>2. \A k \in {"wake", "prepare", "partial", "final", "finished"}, t \in Turn : <<k, t>> \in Job
  BY DEF Job
<1>3. NoSession \notin Job
  BY <1>1, TurnsAssumption DEF NoSession, Turn
<1> QED
  BY <1>1, <1>2, <1>3

\* The replies: none, one for each turn, one for the other client.
LEMMA Replies == 0 \in Reply /\ Outsider \in Reply /\ Turn \subseteq Reply
BY TurnsAssumption DEF Reply, Outsider, Turn

\* The answers a coroutine may find.
LEMMA Answers == Awaited \in Answer /\ Failed \in Answer /\ \A r \in Reply : Ok(r) \in Answer
BY Replies DEF Awaited, Failed, Ok, Answer

\* What the first two tests of ingest_event do to a record.
LEMMA SettledRecord ==
  ASSUME NEW r \in Record, NEW e \in EventSet
  PROVE  /\ Settled(r, e) \in Record
         /\ Settled(r, e).woken = r.woken
         /\ Settled(r, e).status \in {"listening-command", "interrupted"}
              => r.status = Settled(r, e).status \/ Interrupts(r, e)
BY DEF Record, EventSet, Settled, Interrupts, Status

\* An event without a command: only a wake word makes a session listen.
LEMMA NotedRecord ==
  ASSUME NEW r \in Record, NEW e \in EventSet
  PROVE  /\ Noted(r, e) \in Record
         /\ Noted(r, e).status \in {"listening-command", "interrupted"}
              => r.status = Noted(r, e).status \/ e.transcript \in WithWake
BY DEF Record, EventSet, Noted, Status, WithWake

\* After a command the session does not listen any more.
LEMMA CommandedRecord ==
  ASSUME NEW r \in Record, NEW e \in EventSet, NEW outcome \in {"answered", "raised", "unspoken"},
         NEW reply \in Reply
  PROVE  /\ Commanded(r, e, outcome, reply) \in Record
         /\ Commanded(r, e, outcome, reply).status \notin {"listening-command", "interrupted"}
BY DEF Record, EventSet, Commanded, Status, WithWake, Transcript

\* Whatever the event, the record keeps its type, and the session takes commands only
\* while it has been opened.
LEMMA Ingesting ==
  ASSUME IInv, NEW s \in Job, NEW e \in EventSet,
         NEW outcome \in {"answered", "raised", "unspoken"}, NEW reply \in Reply,
         Ingest(s, e, outcome, reply)
  PROVE  BackendTypes' /\ Opened' /\ earned'
<1> DEFINE r == Settled(session[s], e)
           open == credit[s] \/ Interrupts(session[s], e) \/ e.transcript \in WithWake
           next == IF Accepts(r, e) THEN Commanded(r, e, outcome, reply) ELSE Noted(r, e)
<1>0. /\ session[s] \in Record /\ credit \in [Job -> BOOLEAN] /\ session \in [Job -> Record]
      /\ earned = TRUE /\ Opened
  BY DEF IInv, TypeOK, BackendTypes
<1>1. /\ r \in Record
      /\ r.status \in {"listening-command", "interrupted"} => open
  BY <1>0, SettledRecord DEF Opened
<1>2. next \in Record
  BY <1>1, NotedRecord, CommandedRecord
<1>3. Accepts(r, e) => open
  BY <1>1 DEF Accepts, WithWake
<1>4. next.status \in {"listening-command", "interrupted"} => open /\ ~Accepts(r, e)
  BY <1>1, NotedRecord, CommandedRecord
<1>5. /\ session' = [session EXCEPT ![s] = next]
      /\ credit' = [credit EXCEPT ![s] = open /\ ~Accepts(r, e)]
      /\ earned' = (earned /\ (Accepts(r, e) => open))
  BY DEF Ingest
<1> HIDE DEF r, open, next
<1>6. earned' = TRUE
  BY <1>0, <1>3, <1>5
<1>7. BackendTypes'
  <2>1. session' \in [Job -> Record]
    BY <1>0, <1>2, <1>5
  <2>2. (open /\ ~Accepts(r, e)) \in BOOLEAN
    OBVIOUS
  <2>3. credit' \in [Job -> BOOLEAN]
    BY <1>0, <1>5, <2>2
  <2> QED
    BY <1>6, <2>1, <2>3 DEF BackendTypes
<1>8. Opened'
  BY <1>0, <1>4, <1>5 DEF Opened
<1> QED
  BY <1>6, <1>7, <1>8

-----------------------------------------------------------------------------
(* The shell's coroutines.                                                  *)

\* ensureVoiceSessionId posts to a session it has, or asks for one.
LEMMA Launching ==
  ASSUME IInv, NEW jobs \in SUBSET Job, NEW heard \in [Job -> Transcript], Launch(jobs, heard)
  PROVE  CoroutineTypes' /\ Prepared'
<1>0. CoroutineTypes /\ Prepared
  BY DEF IInv, TypeOK
<1>1. CASE sid = NoSession
  <2>1. stage' \in [Job -> Stage] /\ said' \in [Job -> Transcript]
    BY <1>0, <1>1 DEF Launch, CoroutineTypes, Stage
  <2>2. posts' \subseteq StartPost \cup EventPost
    <3> DEFINE asked == {[job |-> j, step |-> "starting", to |-> NoSession,
                          heard |-> "blank"] : j \in jobs}
    <3>1. posts' = posts \cup asked
      BY <1>1 DEF Launch
    <3>2. asked \subseteq StartPost
      BY DEF StartPost
    <3> QED
      BY <1>0, <3>1, <3>2 DEF CoroutineTypes
  <2>3. UNCHANGED <<target, answer, sid>>
    BY <1>1 DEF Launch
  <2>4. Prepared'
    BY <1>0, <1>1, <2>3 DEF Launch, Prepared, CoroutineTypes
  <2> QED
    BY <1>0, <2>1, <2>2, <2>3, <2>4 DEF CoroutineTypes
<1>2. CASE sid # NoSession
  <2>0. sid \in Job
    BY <1>0, <1>2 DEF CoroutineTypes
  <2>1. stage' \in [Job -> Stage] /\ target' \in [Job -> Job \cup {NoSession}]
    BY <1>0, <1>2, <2>0 DEF Launch, CoroutineTypes, Stage, Step
  <2>2. posts' \subseteq StartPost \cup EventPost
    <3> DEFINE posted == {[job |-> j, step |-> "posting", to |-> sid,
                           heard |-> heard[j]] : j \in jobs}
    <3>1. posts' = posts \cup posted
      BY <1>2 DEF Launch
    <3>2. posted \subseteq EventPost
      BY <2>0 DEF EventPost
    <3> QED
      BY <1>0, <3>1, <3>2 DEF CoroutineTypes
  <2>3. UNCHANGED <<said, answer, sid>>
    BY <1>2 DEF Launch
  <2>4. Prepared'
    BY <1>0, <1>2, <2>0 DEF Launch, Prepared, CoroutineTypes
  <2> QED
    BY <1>0, <2>1, <2>2, <2>3, <2>4 DEF CoroutineTypes
<1> QED
  BY <1>1, <1>2

\* The next post of a coroutine goes to a session.
LEMMA GoingOn ==
  ASSUME IInv, NEW j \in Job, NEW step \in {"posting", "seeding"}, NEW s \in Job,
         NEW heard \in Transcript, GoOn(j, step, s, heard), sid' \in Job \cup {NoSession}
  PROVE  CoroutineTypes' /\ Prepared'
<1>0. CoroutineTypes /\ Prepared
  BY DEF IInv, TypeOK
<1>1. stage' \in [Job -> Stage] /\ said' \in [Job -> Transcript]
  BY <1>0 DEF GoOn, CoroutineTypes, Stage, Step, Transcript
<1>2. target' \in [Job -> Job \cup {NoSession}]
  BY <1>0 DEF GoOn, CoroutineTypes
<1>3. answer' \in [Job -> Answer]
  BY <1>0, Answers DEF GoOn, CoroutineTypes
<1>4. posts' \subseteq StartPost \cup EventPost
  <2>1. [job |-> j, step |-> step, to |-> s, heard |-> heard] \in EventPost
    BY DEF EventPost
  <2> QED
    BY <1>0, <2>1 DEF GoOn, CoroutineTypes
<1>5. Prepared'
  BY <1>0 DEF GoOn, CoroutineTypes, Prepared
<1> QED
  BY <1>1, <1>2, <1>3, <1>4, <1>5 DEF CoroutineTypes

\* What a coroutine that comes back leaves behind.
CoroutineResult == CoroutineTypes /\ Prepared /\ active \in BOOLEAN
                   /\ speech \in [reply : Reply, turn : Turn] \cup {Silent}
                   /\ calm \in [Turn -> BOOLEAN]

\* A coroutine that is over leaves the coroutines and the device well typed.
LEMMA Ending ==
  ASSUME IInv, NEW j \in Job, NEW a \in Answer, End(j, a)
  PROVE  CoroutineResult'
<1>0. CoroutineTypes /\ DeviceTypes /\ Prepared
  BY DEF IInv, TypeOK
<1>1. stage' \in [Job -> Stage] /\ said' \in [Job -> Transcript]
  BY <1>0 DEF End, CoroutineTypes, Stage, Transcript
<1>2. target' \in [Job -> Job \cup {NoSession}] /\ answer' \in [Job -> Answer]
  BY <1>0, Answers DEF End, CoroutineTypes
<1>3. posts' \subseteq StartPost \cup EventPost /\ sid' \in Job \cup {NoSession}
  BY <1>0 DEF End, CoroutineTypes
<1>4. Prepared'
  BY <1>0 DEF End, CoroutineTypes, Prepared
<1>5. active' \in BOOLEAN
  BY <1>0 DEF End, Settle, DeviceTypes
<1>6. speech' \in [reply : Reply, turn : Turn] \cup {Silent}
  <2>1. [reply |-> a.reply, turn |-> j[2]] \in [reply : Reply, turn : Turn]
    BY Jobs DEF Answer
  <2> QED
    BY <1>0, <2>1 DEF End, Speak, DeviceTypes
<1>7. calm' \in [Turn -> BOOLEAN]
  BY <1>0 DEF End, DeviceTypes
<1> QED
  BY <1>1, <1>2, <1>3, <1>4, <1>5, <1>6, <1>7 DEF CoroutineResult, CoroutineTypes

\* Whatever the answer, a coroutine goes on with a session or ends.
LEMMA Continuing ==
  ASSUME IInv, NEW j \in Job, NEW a \in Answer, Continue(j, a)
  PROVE  CoroutineResult'
<1>0. CoroutineTypes /\ DeviceTypes /\ Prepared /\ scene \in Scene
  BY ScenesAssumption DEF IInv, TypeOK
<1>a. said[j] \in Transcript /\ scene.phrase \in Transcript
  BY <1>0 DEF CoroutineTypes, Scene, Transcript
<1>b. ASSUME UNCHANGED <<active, speech, calm>>, CoroutineTypes', Prepared'
      PROVE  CoroutineResult'
  BY <1>0, <1>b DEF CoroutineResult, DeviceTypes
<1>1. CASE stage[j] = "starting" /\ AfterStart(j, a)
  <2>1. CASE a.state = "ok" /\ sid' = j /\ GoOn(j, "posting", j, said[j])
             /\ UNCHANGED <<active, speech, calm>>
    BY <1>a, <1>b, <2>1, GoingOn
  <2>2. CASE sid # NoSession /\ GoOn(j, "posting", sid, said[j])
             /\ UNCHANGED <<sid, active, speech, calm>>
    <3>1. sid \in Job /\ sid' = sid
      BY <1>0, <2>2 DEF CoroutineTypes
    <3> QED
      BY <1>a, <1>b, <2>2, <3>1, GoingOn
  <2>3. CASE End(j, a)
    BY <2>3, Ending
  <2> QED
    BY <1>1, <2>1, <2>2, <2>3 DEF AfterStart
<1>2. CASE /\ stage[j] = "posting"
           /\ j[1] = "prepare"
           /\ GoOn(j, "seeding", target[j], scene.phrase)
           /\ UNCHANGED <<sid, active, speech, calm>>
  <2>1. target[j] \in Job /\ sid' \in Job \cup {NoSession}
    BY <1>0, <1>2 DEF Prepared, CoroutineTypes
  <2> QED
    BY <1>a, <1>b, <1>2, <2>1, GoingOn
<1>3. CASE End(j, a)
  BY <1>3, Ending
<1> QED
  BY <1>1, <1>2, <1>3 DEF Continue

\* A post that is answered, or lost, disturbs no other coroutine.
LEMMA Serving ==
  ASSUME IInv, NEW p \in posts, posts' = posts \ {p},
         answer' \in [Job -> Answer], UNCHANGED <<stage, said, target, sid>>
  PROVE  CoroutineTypes' /\ Prepared'
BY DEF IInv, TypeOK, CoroutineTypes, Prepared

\* An answer reaches its coroutine, or nobody.
LEMMA Reaching ==
  ASSUME IInv, NEW p \in posts, NEW a \in Answer, Reach(p, a)
  PROVE  answer' \in [Job -> Answer]
BY DEF IInv, TypeOK, CoroutineTypes, Reach

\* The parts of a post.
LEMMA PostParts ==
  ASSUME IInv, NEW p \in posts
  PROVE  /\ p.job \in Job /\ p.job[2] \in Reply
         /\ p.step # "starting" => p.to \in Job /\ Event(p) \in EventSet
<1>1. p \in StartPost \cup EventPost
  BY DEF IInv, TypeOK, CoroutineTypes
<1>2. p.job \in Job
  BY <1>1 DEF StartPost, EventPost
<1>3. p.job[2] \in Reply
  BY <1>2, Jobs, Replies
<1>4. p.step # "starting" => p.to \in Job /\ Event(p) \in EventSet
  BY <1>1 DEF StartPost, EventPost, Event, EventSet
<1> QED
  BY <1>2, <1>3, <1>4

-----------------------------------------------------------------------------
(* The inductive invariant.                                                 *)

\* The shell starts with no session and nothing to say.
LEMMA Initially == Init => IInv
<1> SUFFICES ASSUME Init PROVE IInv
  OBVIOUS
<1>1. CoroutineTypes
  BY Answers DEF Init, CoroutineTypes, Stage, Transcript
<1>2. DeviceTypes
  <2>1. turn \in 0..MaxTurns /\ speech = Silent
    BY TurnsAssumption DEF Init
  <2>2. calm \in [Turn -> BOOLEAN]
    BY DEF Init
  <2>3. listening = FALSE /\ active = FALSE
    BY DEF Init
  <2> QED
    BY <2>1, <2>2, <2>3, Zenon DEF DeviceTypes
<1>3. BackendTypes
  BY Replies DEF Init, BackendTypes, Absent, Record, Status
<1>4. scene \in Scenes /\ trouble \in 0..MaxTrouble
  BY TurnsAssumption DEF Init
<1>5. Prepared /\ Opened /\ earned
  BY DEF Init, Prepared, Opened, Absent
<1> QED
  BY <1>1, <1>2, <1>3, <1>4, <1>5 DEF IInv, TypeOK

\* One mishap more, if any.
LEMMA Counting ==
  ASSUME IInv, NEW m, Happens(m)
  PROVE  trouble' \in 0..MaxTrouble
BY TurnsAssumption DEF IInv, TypeOK, Happens

\* The parts of the invariant that a step leaves alone.
LEMMA Unchanging ==
  ASSUME IInv
  PROVE  /\ UNCHANGED coroutines => CoroutineTypes' /\ Prepared'
         /\ UNCHANGED device /\ UNCHANGED calm => DeviceTypes'
         /\ UNCHANGED backend => BackendTypes' /\ Opened' /\ earned'
         /\ UNCHANGED scene => (scene \in Scenes)'
         /\ UNCHANGED trouble => (trouble \in 0..MaxTrouble)'
<1>0. /\ CoroutineTypes /\ DeviceTypes /\ BackendTypes /\ scene \in Scenes
      /\ trouble \in 0..MaxTrouble /\ Prepared /\ Opened /\ earned
  BY DEF IInv, TypeOK
<1>1. ASSUME UNCHANGED coroutines PROVE CoroutineTypes' /\ Prepared'
  BY <1>0, <1>1 DEF CoroutineTypes, Prepared, coroutines
<1>2. ASSUME UNCHANGED device, UNCHANGED calm PROVE DeviceTypes'
  BY <1>0, <1>2 DEF DeviceTypes, device
<1>3. ASSUME UNCHANGED backend PROVE BackendTypes' /\ Opened' /\ earned'
  BY <1>0, <1>3 DEF BackendTypes, Opened, backend
<1> QED
  BY <1>0, <1>1, <1>2, <1>3

\* The backend keeps the invariant, whichever post it serves and however.
LEMMA BackendStep ==
  ASSUME IInv, NEW p \in posts, Serve(p) \/ Lose(p)
  PROVE  IInv'
<1> USE DEF device, backend
<1>0. /\ p.job \in Job /\ p.job[2] \in Reply
      /\ p.step # "starting" => p.to \in Job /\ Event(p) \in EventSet
  BY PostParts
<1>1. CASE ServeStart(p)
  <2>1. Ok(0) \in Answer
    BY Answers, Replies
  <2>2. CoroutineTypes' /\ Prepared'
    BY <1>1, <2>1, Reaching, Serving DEF ServeStart
  <2>3. session' = [session EXCEPT ![p.job] = Started]
    BY <1>1 DEF ServeStart
  <2>4. Started.status = "awaiting-wake-word"
    BY DEF Started
  <2>5. Started \in Record
    BY Replies DEF Started, Record, Status
  <2>6. UNCHANGED <<credit, earned, turn, listening, active, speech, scene, calm, trouble>>
    BY <1>1 DEF ServeStart
  <2>7. BackendTypes'
    BY <2>3, <2>5, <2>6 DEF IInv, TypeOK, BackendTypes
  <2>8. Opened' /\ earned'
    BY <1>0, <2>3, <2>4, <2>6 DEF IInv, TypeOK, BackendTypes, Opened
  <2> QED
    BY <2>2, <2>6, <2>7, <2>8, Unchanging DEF IInv, TypeOK
<1>2. CASE ServeEvent(p)
  <2>1. Ingest(p.to, Event(p), "answered", p.job[2]) /\ p.step # "starting"
    BY <1>2 DEF ServeEvent
  <2>2. BackendTypes' /\ Opened' /\ earned'
    BY <1>0, <2>1, Ingesting
  <2>3. Ok(session'[p.to].reply) \in Answer
    BY <1>0, <2>1, <2>2, Answers DEF BackendTypes, Record
  <2>4. CoroutineTypes' /\ Prepared'
    BY <1>2, <2>3, Reaching, Serving DEF ServeEvent
  <2> QED
    BY <1>2, <2>2, <2>4, Unchanging DEF ServeEvent, IInv, TypeOK
<1>3. CASE ServeFails(p)
  <2>1. Ingest(p.to, Event(p), "raised", p.job[2]) /\ p.step # "starting"
    BY <1>3 DEF ServeFails
  <2>2. BackendTypes' /\ Opened' /\ earned'
    BY <1>0, <2>1, Ingesting
  <2>3. CoroutineTypes' /\ Prepared'
    BY <1>3, Answers, Reaching, Serving DEF ServeFails
  <2> QED
    BY <1>3, <2>2, <2>3, Unchanging, Counting DEF ServeFails, IInv, TypeOK
<1>4. CASE ServeRefuses(p)
  <2>1. CoroutineTypes' /\ Prepared'
    BY <1>4, Answers, Reaching, Serving DEF ServeRefuses
  <2> QED
    BY <1>4, <2>1, Unchanging, Counting DEF ServeRefuses, IInv, TypeOK
<1>5. CASE Lose(p)
  <2>1. CoroutineTypes' /\ Prepared'
    BY <1>5, Serving DEF Lose, IInv, TypeOK, CoroutineTypes
  <2>2. (trouble \in 0..MaxTrouble)'
    BY <1>5, Counting, Unchanging DEF Lose
  <2> QED
    BY <1>5, <2>1, <2>2, Unchanging DEF Lose, IInv, TypeOK
<1> QED
  BY <1>1, <1>2, <1>3, <1>4, <1>5 DEF Serve

\* So does the command of another client.
LEMMA OutsiderStep ==
  ASSUME IInv, NEW s \in Job, NEW outcome \in {"answered", "unspoken"}, Inject(s, outcome)
  PROVE  IInv'
<1> DEFINE e == [transcript |-> "wakeSpeech", final |-> TRUE, interrupt |-> FALSE,
                 playbackFinished |-> FALSE]
<1>1. e \in EventSet
  BY DEF EventSet, Transcript
<1>2. Ingest(s, e, outcome, Outsider)
  BY DEF Inject
<1> HIDE DEF e
<1>3. BackendTypes' /\ Opened' /\ earned'
  BY <1>1, <1>2, Replies, Ingesting
<1>4. DeviceTypes'
  BY DEF Inject, IInv, TypeOK, DeviceTypes, device
<1> QED
  BY <1>3, <1>4, Unchanging, Counting DEF Inject, IInv, TypeOK

\* So does a coroutine that gets its answer, or gives up.
LEMMA CoroutineStep ==
  ASSUME IInv, NEW j \in Job, Resume(j) \/ TimeOut(j)
  PROVE  IInv'
<1>1. UNCHANGED <<turn, listening, scene, backend>>
  BY DEF Resume, TimeOut
<1>2. CoroutineResult'
  <2>1. answer[j] \in Answer
    BY DEF IInv, TypeOK, CoroutineTypes
  <2> QED
    BY <2>1, Answers, Continuing DEF Resume, TimeOut
<1>3. (trouble \in 0..MaxTrouble)'
  BY Counting, Unchanging DEF Resume, TimeOut
<1>4. DeviceTypes'
  BY <1>1, <1>2 DEF CoroutineResult, DeviceTypes, IInv, TypeOK
<1> QED
  BY <1>1, <1>2, <1>3, <1>4, Unchanging DEF CoroutineResult, IInv, TypeOK

\* So does a callback of the recogniser, the button or the speech output.
LEMMA CallbackStep ==
  ASSUME IInv,
         \/ \E heard \in scene.woken : Listen(heard)
         \/ \E heard \in scene.partials : Partial(heard)
         \/ \E heard \in scene.commands : Command(heard)
         \/ LocalCommand \/ NoCommand \/ OverlayInterrupted \/ SpeechDone \/ SpeechFails
  PROVE  IInv'
<1> USE DEF device, backend
<1>0. /\ DeviceTypes /\ scene \in Scene
      /\ scene.woken \subseteq Transcript /\ scene.partials \subseteq Transcript
      /\ scene.commands \subseteq Transcript
      /\ 1..scene.turns \subseteq Turn
      /\ listening => turn \in Turn
  <2>1. DeviceTypes /\ scene \in Scene
    BY ScenesAssumption DEF IInv, TypeOK
  <2>2. /\ scene.woken \subseteq Transcript /\ scene.partials \subseteq Transcript
        /\ scene.commands \subseteq Transcript
    BY <2>1 DEF Scene, Spoken
  <2>3. scene.turns \in 1..MaxTurns
    BY <2>1 DEF Scene
  <2>4. 1..scene.turns \subseteq Turn
    BY <2>3, TurnsAssumption DEF Turn
  <2>5. listening => turn \in Turn
    BY <2>1, TurnsAssumption DEF DeviceTypes, Turn
  <2> QED
    BY <2>1, <2>2, <2>4, <2>5
<1>1. ASSUME NEW heard \in scene.woken, Listen(heard) PROVE IInv'
  <2> DEFINE t == turn + 1
             heardBy == [j \in Job |-> IF j[1] = "wake" THEN heard ELSE "blank"]
             jobs == IF heard = "blank" THEN {<<"prepare", t>>}
                     ELSE {<<"wake", t>>, <<"prepare", t>>}
  <2>1. t \in Turn
    BY <1>0, <1>1 DEF Listen
  <2>2. jobs \subseteq Job
    BY <2>1, Jobs
  <2>3. heardBy \in [Job -> Transcript]
    BY <1>0, <1>1 DEF Transcript
  <2>4. Launch(jobs, heardBy)
    BY <1>1 DEF Listen
  <2>5. /\ turn' = t /\ speech' = Silent /\ listening' \in BOOLEAN /\ active' = listening'
        /\ calm' = [calm EXCEPT ![t] = BeginsCalmly(jobs)]
        /\ UNCHANGED <<scene, backend, trouble>>
    BY <1>1 DEF Listen
  <2> HIDE DEF jobs, heardBy
  <2>6. CoroutineTypes' /\ Prepared'
    BY <2>2, <2>3, <2>4, Launching
  <2>7. BeginsCalmly(jobs) \in BOOLEAN
    BY DEF BeginsCalmly
  <2>8. calm' \in [Turn -> BOOLEAN]
    BY <1>0, <2>5, <2>7 DEF DeviceTypes
  <2>9. DeviceTypes'
    BY <2>1, <2>5, <2>8, TurnsAssumption DEF DeviceTypes, Turn
  <2> QED
    BY <2>5, <2>6, <2>9, Unchanging DEF IInv, TypeOK
<1>2. ASSUME NEW heard \in scene.partials, Partial(heard) PROVE IInv'
  <2>1. {<<"partial", turn>>} \subseteq Job
    BY <1>0, <1>2, Jobs DEF Partial
  <2>2. [j \in Job |-> heard] \in [Job -> Transcript]
    BY <1>0, <1>2
  <2>3. CoroutineTypes' /\ Prepared'
    BY <1>2, <2>1, <2>2, Launching DEF Partial
  <2>4. DeviceTypes'
    BY <1>0, <1>2 DEF Partial, DeviceTypes
  <2> QED
    BY <1>2, <2>3, <2>4, Unchanging DEF Partial, IInv, TypeOK
<1>3. ASSUME NEW heard \in scene.commands, Command(heard) PROVE IInv'
  <2>1. {<<"final", turn>>} \subseteq Job
    BY <1>0, <1>3, Jobs DEF Command
  <2>2. [j \in Job |-> heard] \in [Job -> Transcript]
    BY <1>0, <1>3
  <2>3. CoroutineTypes' /\ Prepared'
    BY <1>3, <2>1, <2>2, Launching DEF Command
  <2>4. DeviceTypes'
    BY <1>0, <1>3 DEF Command, DeviceTypes
  <2> QED
    BY <1>3, <2>3, <2>4, Unchanging DEF Command, IInv, TypeOK
<1>4. CASE LocalCommand
  <2>1. turn \in Turn /\ turn \in Reply
    BY <1>0, <1>4, Replies DEF LocalCommand
  <2>2. DeviceTypes'
    BY <1>0, <1>4, <2>1 DEF LocalCommand, DeviceTypes
  <2> QED
    BY <1>4, <2>2, Unchanging DEF LocalCommand, IInv, TypeOK
<1>5. CASE NoCommand
  <2>1. DeviceTypes'
    BY <1>0, <1>5 DEF NoCommand, DeviceTypes
  <2> QED
    BY <1>5, <2>1, Unchanging DEF NoCommand, IInv, TypeOK
<1>6. CASE OverlayInterrupted
  <2>1. DeviceTypes'
    BY <1>0, <1>6 DEF OverlayInterrupted, DeviceTypes
  <2> QED
    BY <1>6, <2>1, Unchanging, Counting DEF OverlayInterrupted, IInv, TypeOK
<1>7. CASE SpeechDone
  <2>1. speech.turn \in Turn
    BY <1>0, <1>7 DEF SpeechDone, DeviceTypes
  <2>2. {<<"finished", speech.turn>>} \subseteq Job
    BY <2>1, Jobs
  <2>3. [j \in Job |-> "blank"] \in [Job -> Transcript]
    BY DEF Transcript
  <2>4. CoroutineTypes' /\ Prepared'
    BY <1>7, <2>2, <2>3, Launching DEF SpeechDone
  <2>5. DeviceTypes'
    BY <1>0, <1>7 DEF SpeechDone, DeviceTypes
  <2> QED
    BY <1>7, <2>4, <2>5, Unchanging DEF SpeechDone, IInv, TypeOK
<1>8. CASE SpeechFails
  <2>1. DeviceTypes'
    BY <1>0, <1>8 DEF SpeechFails, DeviceTypes
  <2> QED
    BY <1>8, <2>1, Unchanging, Counting DEF SpeechFails, IInv, TypeOK
<1> QED
  BY <1>1, <1>2, <1>3, <1>4, <1>5, <1>6, <1>7, <1>8

\* The invariant holds in every reachable state.
THEOREM InductiveInvariant == Spec => []IInv
<1>1. ASSUME IInv, [Next]_vars PROVE IInv'
  <2>1. CASE UNCHANGED vars
    BY <1>1, <2>1, Unchanging DEF vars, IInv, TypeOK, coroutines, device, backend
  <2>2. CASE Next
    BY <1>1, <2>2, BackendStep, OutsiderStep, CoroutineStep, CallbackStep DEF Next
  <2> QED
    BY <1>1, <2>1, <2>2
<1> QED
  BY <1>1, Initially, PTL DEF Spec

\* Every variable keeps its type, and an event is never posted to no session: no order of
\* starts, failures and late answers lets ensureVoiceSessionId go on without one.
THEOREM TypeCorrect == Spec => []TypeOK
<1>1. IInv => TypeOK
  BY DEF IInv
<1> QED
  BY <1>1, InductiveInvariant, PTL

\* ingest_event runs a command only in a session that a wake word or an interruption
\* has opened since its last command.
THEOREM EveryCommandIsOpened == Spec => []CommandsAreOpened
<1>1. IInv => CommandsAreOpened
  BY DEF IInv, CommandsAreOpened
<1> QED
  BY <1>1, InductiveInvariant, PTL

-----------------------------------------------------------------------------
(* The surface, and the calm turns.                                         *)

\* Something will yet release the surface that is shown as active.
Releasing ==
  active => \/ listening
            \/ speech # Silent
            \/ \E j \in Job : j[1] \in {"final", "finished"} /\ stage[j] \in Waiting
            \/ trouble # 0 /\ scene.mishaps \cap {"mute", "interrupted"} # {}

Prepare(t) == <<"prepare", t>>
Final(t) == <<"final", t>>

\* A session that takes a command.
Ready(s) == session[s].status \in {"listening-command", "interrupted"} /\ session[s].woken

\* A session is used by those who post to it, or may.
Uses(s) == sid = s \/ (\E q \in posts : q.to = s) \/ (\E j \in Job : target[j] = s)

\* What belongs to a coroutine comes after its beginning, and a second post after the first.
Begun ==
  /\ \A s \in Job : Uses(s) => stage[s] # "unborn"
  /\ \A j \in Job : stage[j] = "unborn" => answer[j].state = "awaited"
  /\ \A j \in Job : stage[j] = "seeding" => j[1] = "prepare"
  /\ \A p \in posts : stage[p.job] # "unborn"
  /\ \A p \in posts : p.step = "seeding" => stage[p.job] \in {"seeding", "ended"}

\* The session of a start that is on its way is used by nobody yet.
Untaken ==
  \A p \in posts : p.step = "starting" =>
    ~Uses(p.job) /\ (stage[p.job] = "starting" => answer[p.job].state = "awaited")

\* The wake phrase goes where the preparation has been.
Seeding ==
  \A p \in posts : p.step = "seeding" /\ stage[p.job] = "seeding" =>
    p.to = target[p.job] /\ p.heard = scene.phrase

Order == Begun /\ Untaken /\ Seeding

\* A calm turn before its command: nobody else starts a session or gives a command, and the
\* session is ready once the preparation is over.
Seeded ==
  \/ stage[Prepare(turn)] = "ended"
  \/ stage[Prepare(turn)] = "seeding" /\ answer[Prepare(turn)].state = "ok"

BeforeCommand ==
  /\ \A p \in posts : p.job[1] # "final"
  /\ \A j \in Job : stage[j] = "starting" => j = Prepare(turn)
  /\ (sid = NoSession) <=> (stage[Prepare(turn)] = "starting")
  /\ stage[Prepare(turn)] \in {"posting", "seeding"} => target[Prepare(turn)] = sid
  /\ scene.phrase = "wake" /\ Seeded => Ready(sid)

CalmBefore ==
  turn # 0 /\ calm[turn] /\ stage[Final(turn)] = "unborn" => BeforeCommand

\* The command of a calm turn on its way: it is the only one, nobody starts a session, and
\* it will be accepted.
Alone(p) ==
  /\ sid # NoSession
  /\ p.step = "posting"
  /\ \A j \in Job : stage[j] # "starting"
  /\ p.heard = "wakeSpeech" \/ (p.heard = "speech" /\ Ready(p.to))
  /\ \A q \in posts : q.job[1] = "final" => q = p

\* A calm turn after its command: the answer that waits is the reply to it.
AfterCommand(t) ==
  /\ stage[Final(t)] # "starting"
  /\ \A p \in posts : p.job = Final(t) => Alone(p)
  /\ stage[Final(t)] = "posting" /\ answer[Final(t)].state = "ok" => answer[Final(t)].reply = t

CalmAfter == \A t \in Turn : calm[t] => AfterCommand(t)

\* Turns to come.
Future == \A t \in Turn : t > turn => stage[Final(t)] = "unborn" /\ ~calm[t]

Calm == Future /\ CalmBefore /\ CalmAfter /\ CalmTurnGetsItsReply

-----------------------------------------------------------------------------
(* What the steps of the coroutines do, coroutine by coroutine.             *)

\* The job and the step of a post; a start is told by its job.
LEMMA Posted ==
  ASSUME IInv, NEW p \in posts
  PROVE  /\ p.job \in Job
         /\ p.step \in {"starting", "posting", "seeding"}
         /\ p.step = "starting" => p.to = NoSession
         /\ p.step # "starting" => p.to \in Job
         /\ \A q \in posts : p.step = "starting" /\ q.step = "starting" /\ p.job = q.job => p = q
<1>1. posts \subseteq StartPost \cup EventPost
  BY DEF IInv, TypeOK, CoroutineTypes
<1> QED
  BY <1>1 DEF StartPost, EventPost

Launches(jobs, heard) ==
  /\ UNCHANGED <<answer, sid>>
  /\ \A j \in Job \ jobs : stage'[j] = stage[j] /\ target'[j] = target[j]
  /\ \A j \in jobs : /\ stage[j] = "unborn"
                     /\ sid = NoSession => stage'[j] = "starting"
                     /\ sid # NoSession => stage'[j] = Step(j, "posting")
                     /\ target'[j] \in {sid, target[j]}
                     /\ sid # NoSession /\ j[1] = "prepare" => target'[j] = sid
  /\ posts \subseteq posts'
  /\ \A p \in posts' \ posts : /\ p.job \in jobs
                               /\ p.to = sid
                               /\ sid = NoSession => p.step = "starting"
                               /\ sid # NoSession => p.step = "posting" /\ p.heard = heard[p.job]

\* What a launch does, coroutine by coroutine.
LEMMA Launched ==
  ASSUME IInv, NEW jobs \in SUBSET Job, NEW heard \in [Job -> Transcript], Launch(jobs, heard)
  PROVE  Launches(jobs, heard)
<1>0. CoroutineTypes
  BY DEF IInv, TypeOK
<1>1. CASE sid = NoSession
  BY <1>0, <1>1 DEF Launch, CoroutineTypes, Launches
<1>2. CASE sid # NoSession
  BY <1>0, <1>2 DEF Launch, CoroutineTypes, Launches
<1> QED
  BY <1>1, <1>2

\* The stages a coroutine that goes on may be in.
LEMMA Stepping ==
  ASSUME NEW j \in Job, NEW step \in {"posting", "seeding"}
  PROVE  /\ Step(j, step) \in {step, "ended"}
         /\ j[1] \in {"prepare", "final", "finished"} => Step(j, step) = step
BY DEF Step, Unanswered

\* A coroutine that goes on changes its own part, and adds one post.
LEMMA GoneOn ==
  ASSUME IInv, NEW j \in Job, NEW step \in {"posting", "seeding"}, NEW s \in Job,
         NEW heard \in Transcript, GoOn(j, step, s, heard)
  PROVE  /\ \A i \in Job \ {j} : /\ stage'[i] = stage[i] /\ target'[i] = target[i]
                                 /\ answer'[i] = answer[i]
         /\ stage'[j] = Step(j, step)
         /\ target'[j] \in {s, NoSession}
         /\ j[1] = "prepare" => target'[j] = s
         /\ answer'[j].state = "awaited"
         /\ posts' = posts \cup {[job |-> j, step |-> step, to |-> s, heard |-> heard]}
BY DEF IInv, TypeOK, CoroutineTypes, GoOn, Awaited

\* A coroutine that ends changes its own part, and posts nothing.
LEMMA Ended ==
  ASSUME IInv, NEW j \in Job, NEW a \in Answer, End(j, a)
  PROVE  /\ \A i \in Job \ {j} : /\ stage'[i] = stage[i] /\ target'[i] = target[i]
                                 /\ answer'[i] = answer[i]
         /\ stage'[j] = "ended"
         /\ target'[j] = NoSession
         /\ answer'[j].state = "awaited"
         /\ UNCHANGED <<posts, sid>>
BY DEF IInv, TypeOK, CoroutineTypes, End, Awaited

\* The ways a coroutine continues.
LEMMA Ways ==
  ASSUME IInv, NEW j \in Job, NEW a \in Answer, Continue(j, a)
  PROVE  \/ /\ stage[j] = "starting"
            /\ \E s \in Job : /\ GoOn(j, "posting", s, said[j])
                              /\ sid' = s
                              /\ (a.state = "ok" /\ s = j) \/ (a.state # "ok" /\ s = sid)
            /\ UNCHANGED <<active, speech, calm>>
         \/ /\ stage[j] = "posting" /\ j[1] = "prepare"
            /\ target[j] \in Job
            /\ GoOn(j, "seeding", target[j], scene.phrase)
            /\ UNCHANGED <<sid, active, speech, calm>>
         \/ /\ \/ stage[j] = "starting" /\ a.state # "ok" /\ sid = NoSession
               \/ stage[j] = "posting" /\ j[1] # "prepare"
               \/ stage[j] = "seeding"
            /\ End(j, a)
<1>0. CoroutineTypes /\ Prepared
  BY DEF IInv, TypeOK
<1>1. CASE stage[j] = "starting" /\ AfterStart(j, a)
  <2>1. CASE a.state = "ok" /\ sid' = j /\ GoOn(j, "posting", j, said[j])
             /\ UNCHANGED <<active, speech, calm>>
    BY <1>1, <2>1
  <2>2. CASE a.state # "ok" /\ sid # NoSession /\ GoOn(j, "posting", sid, said[j])
             /\ UNCHANGED <<sid, active, speech, calm>>
    <3>1. sid \in Job
      BY <1>0, <2>2 DEF CoroutineTypes
    <3> QED
      BY <1>1, <2>2, <3>1
  <2>3. CASE a.state # "ok" /\ sid = NoSession /\ End(j, a)
    BY <1>1, <2>3
  <2> QED
    BY <1>1, <2>1, <2>2, <2>3 DEF AfterStart
<1>2. CASE /\ stage[j] = "posting"
           /\ j[1] = "prepare"
           /\ GoOn(j, "seeding", target[j], scene.phrase)
           /\ UNCHANGED <<sid, active, speech, calm>>
  BY <1>0, <1>2 DEF Prepared
<1>3. CASE ((stage[j] = "posting" /\ j[1] # "prepare") \/ stage[j] = "seeding") /\ End(j, a)
  BY <1>3
<1> QED
  BY <1>1, <1>2, <1>3 DEF Continue

\* The backend answers or drops a post, and touches no other coroutine.
Handled(p) ==
  /\ posts' = posts \ {p}
  /\ UNCHANGED <<stage, target, sid, scene>>
  /\ \A j \in Job : answer'[j] = answer[j] \/ (j = p.job /\ stage[j] = p.step)

\* Serve and Lose take one post away.
LEMMA Handling ==
  ASSUME IInv, NEW p \in posts, Serve(p) \/ Lose(p)
  PROVE  Handled(p)
<1>0. p.job \in Job /\ answer \in [Job -> Answer]
  BY Posted DEF IInv, TypeOK, CoroutineTypes
<1>1. ASSUME NEW a, Reach(p, a)
      PROVE  \A j \in Job : answer'[j] = answer[j] \/ (j = p.job /\ stage[j] = p.step)
  BY <1>0, <1>1 DEF Reach
<1>2. CASE Serve(p)
  <2>1. \E a : Reach(p, a)
    BY <1>2 DEF Serve, ServeStart, ServeEvent, ServeFails, ServeRefuses
  <2> QED
    BY <1>1, <1>2, <2>1 DEF Serve, ServeStart, ServeEvent, ServeFails, ServeRefuses, Handled
<1>3. CASE Lose(p)
  BY <1>3 DEF Lose, Handled
<1> QED
  BY <1>2, <1>3

-----------------------------------------------------------------------------
(* The order of a coroutine's posts.                                        *)

\* A launch begins coroutines that nobody knew.
LEMMA OrderOfLaunch ==
  ASSUME IInv, Order, NEW jobs \in SUBSET Job, NEW heard \in [Job -> Transcript],
         Launch(jobs, heard), UNCHANGED scene
  PROVE  Order'
<1> USE DEF Order
<1>1. /\ UNCHANGED <<answer, sid>>
      /\ \A j \in Job \ jobs : stage'[j] = stage[j] /\ target'[j] = target[j]
      /\ \A j \in jobs : stage[j] = "unborn" /\ target'[j] \in {sid, target[j]}
      /\ posts \subseteq posts'
      /\ \A p \in posts' \ posts : p.job \in jobs /\ p.to = sid /\ p.step # "seeding"
  BY Launched DEF Launches
<1>2. \A j \in jobs : stage'[j] \in {"starting", "posting", "ended"}
  BY Launched, Stepping DEF Launches
<1>3. \A s \in Job : Uses(s)' => Uses(s)
  BY <1>1 DEF Uses
<1>4. \A p \in posts : p.job \in Job \ jobs
  BY <1>1, Posted DEF Begun
<1>5. Begun'
  <2>1. \A s \in Job : Uses(s)' => stage'[s] # "unborn"
    BY <1>1, <1>2, <1>3 DEF Begun
  <2>2. \A j \in Job : (stage'[j] = "unborn" => answer'[j].state = "awaited")
                       /\ (stage'[j] = "seeding" => j[1] = "prepare")
    BY <1>1, <1>2 DEF Begun
  <2>3. \A p \in posts' : stage'[p.job] # "unborn"
                          /\ (p.step = "seeding" => stage'[p.job] \in {"seeding", "ended"})
    BY <1>1, <1>2, <1>4 DEF Begun
  <2> QED
    BY <2>1, <2>2, <2>3 DEF Begun
<1>6. Untaken'
  <2>1. ASSUME NEW p \in posts', p.step = "starting"
        PROVE  ~Uses(p.job)' /\ (stage'[p.job] = "starting" => answer'[p.job].state = "awaited")
    <3>1. CASE p \in posts
      BY <1>1, <1>3, <1>4, <2>1, <3>1 DEF Untaken
    <3>2. CASE p \notin posts
      BY <1>1, <1>3, <2>1, <3>2 DEF Begun
    <3> QED
      BY <3>1, <3>2
  <2> QED
    BY <2>1 DEF Untaken
<1>7. Seeding'
  BY <1>1, <1>4 DEF Seeding
<1> QED
  BY <1>5, <1>6, <1>7

\* A post that is served or lost upsets no order.
LEMMA OrderOfHandling ==
  ASSUME IInv, Order, NEW p \in posts, Handled(p)
  PROVE  Order'
<1> USE DEF Order
<1>1. /\ posts' \subseteq posts /\ p \notin posts'
      /\ UNCHANGED <<stage, target, sid, scene>>
      /\ \A j \in Job : answer'[j] = answer[j] \/ (j = p.job /\ stage[j] = p.step)
  BY DEF Handled
<1>2. \A s : Uses(s)' => Uses(s)
  BY <1>1 DEF Uses
<1>3. Begun'
  BY <1>1, <1>2 DEF Begun
<1>4. Untaken'
  BY <1>1, <1>2, Posted DEF Untaken
<1>5. Seeding'
  BY <1>1 DEF Seeding
<1> QED
  BY <1>3, <1>4, <1>5

\* A post goes to a session in use, or to the one just started.
LEMMA OrderOfGoingOn ==
  ASSUME IInv, Order, NEW j \in Job, NEW step \in {"posting", "seeding"}, NEW s \in Job,
         NEW heard \in Transcript, GoOn(j, step, s, heard), UNCHANGED scene,
         sid' \in {s, sid},
         \/ /\ stage[j] = "starting" /\ step = "posting"
            /\ Uses(s) \/ (s = j /\ answer[j].state = "ok")
         \/ /\ stage[j] = "posting" /\ step = "seeding" /\ j[1] = "prepare" /\ s = target[j]
            /\ heard = scene.phrase
  PROVE  Order'
<1> USE DEF Order
<1> DEFINE new == [job |-> j, step |-> step, to |-> s, heard |-> heard]
<1>1. /\ \A i \in Job \ {j} : /\ stage'[i] = stage[i] /\ target'[i] = target[i]
                              /\ answer'[i] = answer[i]
      /\ stage'[j] \in {step, "ended"}
      /\ target'[j] \in {s, NoSession}
      /\ j[1] = "prepare" => target'[j] = s
      /\ answer'[j].state = "awaited"
      /\ posts' = posts \cup {new}
  BY GoneOn, Stepping
<1>2. /\ new.job = j /\ new.step = step /\ new.to = s /\ new.heard = heard
  OBVIOUS
<1> HIDE DEF new
<1>3. \A i \in Job : Uses(i)' => i = s \/ Uses(i)
  BY <1>1, <1>2, Jobs DEF Uses
<1>4. Uses(s) \/ (s = j /\ stage[j] = "starting" /\ answer[j].state = "ok")
  BY DEF Uses
<1>5. Begun'
  <2>1. \A i \in Job : Uses(i)' => stage'[i] # "unborn"
    BY <1>1, <1>3, <1>4 DEF Begun
  <2>2. \A i \in Job : (stage'[i] = "unborn" => answer'[i].state = "awaited")
                       /\ (stage'[i] = "seeding" => i[1] = "prepare")
    BY <1>1 DEF Begun
  <2>3. \A p \in posts' : stage'[p.job] # "unborn"
                          /\ (p.step = "seeding" => stage'[p.job] \in {"seeding", "ended"})
    BY <1>1, <1>2, Posted DEF Begun
  <2> QED
    BY <2>1, <2>2, <2>3 DEF Begun
<1>6. Untaken'
  BY <1>1, <1>2, <1>3, <1>4, Posted DEF Untaken
<1>7. Seeding'
  BY <1>1, <1>2, Posted DEF Seeding, Begun
<1> QED
  BY <1>5, <1>6, <1>7

\* A coroutine that continues keeps the order of its posts.
LEMMA OrderOfContinuing ==
  ASSUME IInv, Order, NEW j \in Job, NEW a \in Answer, Continue(j, a), UNCHANGED scene,
         a.state = "ok" => a = answer[j]
  PROVE  Order'
<1>0. CoroutineTypes /\ scene \in Scene
  BY ScenesAssumption DEF IInv, TypeOK
<1>1. said[j] \in Transcript /\ scene.phrase \in Transcript
  BY <1>0 DEF CoroutineTypes, Scene, Transcript
<1>2. CASE /\ stage[j] = "starting"
           /\ \E s \in Job : /\ GoOn(j, "posting", s, said[j])
                             /\ sid' = s
                             /\ (a.state = "ok" /\ s = j) \/ (a.state # "ok" /\ s = sid)
  BY <1>1, <1>2, OrderOfGoingOn DEF Uses
<1>3. CASE /\ stage[j] = "posting" /\ j[1] = "prepare"
           /\ target[j] \in Job
           /\ GoOn(j, "seeding", target[j], scene.phrase)
           /\ UNCHANGED sid
  BY <1>1, <1>3, OrderOfGoingOn
<1>4. CASE stage[j] # "unborn" /\ End(j, a)
  <2>1. /\ \A i \in Job \ {j} : /\ stage'[i] = stage[i] /\ target'[i] = target[i]
                                /\ answer'[i] = answer[i]
        /\ stage'[j] = "ended" /\ target'[j] = NoSession /\ answer'[j].state = "awaited"
        /\ UNCHANGED <<posts, sid>>
    BY <1>4, Ended
  <2>2. \A i \in Job : Uses(i)' => Uses(i)
    BY <2>1, Jobs DEF Uses
  <2>3. Begun'
    BY <2>1, <2>2, Posted DEF Begun, Order
  <2>4. Untaken'
    BY <2>1, <2>2, Posted DEF Untaken, Order
  <2>5. Seeding'
    BY <2>1, Posted DEF Seeding, Order
  <2> QED
    BY <2>3, <2>4, <2>5 DEF Order
<1> QED
  BY <1>2, <1>3, <1>4, Ways

-----------------------------------------------------------------------------
(* The callbacks, which launch coroutines.                                  *)

\* What the recognisers hear are transcripts, and a turn that listens has begun.
LEMMA Hearing ==
  ASSUME IInv
  PROVE  /\ scene.woken \subseteq Transcript /\ scene.partials \subseteq Transcript
         /\ scene.commands \subseteq Transcript
         /\ 1..scene.turns \subseteq Turn
         /\ listening => turn \in Turn
         /\ speech # Silent => speech.turn \in Turn
         /\ turn \in Nat
<1>1. DeviceTypes /\ scene \in Scene
  BY ScenesAssumption DEF IInv, TypeOK
<1>2. scene.turns \in 1..MaxTurns
  BY <1>1 DEF Scene
<1>3. 1..scene.turns \subseteq Turn
  BY <1>2, TurnsAssumption DEF Turn
<1>4. /\ scene.woken \subseteq Transcript /\ scene.partials \subseteq Transcript
      /\ scene.commands \subseteq Transcript
  BY <1>1 DEF Scene, Spoken
<1>5. (listening => turn \in Turn) /\ turn \in Nat
  BY <1>1, TurnsAssumption DEF DeviceTypes, Turn
<1>6. speech # Silent => speech.turn \in Turn
  BY <1>1 DEF DeviceTypes
<1> QED
  BY <1>3, <1>4, <1>5, <1>6

\* What a callback launches.
LEMMA ListenLaunches ==
  ASSUME IInv, NEW heard \in scene.woken, Listen(heard)
  PROVE  /\ turn + 1 \in Turn
         /\ \E jobs \in SUBSET Job, h \in [Job -> Transcript] :
              /\ Launch(jobs, h)
              /\ Prepare(turn + 1) \in jobs
              /\ jobs \subseteq {<<"wake", turn + 1>>, Prepare(turn + 1)}
              /\ Cardinality(jobs) = 1 => jobs = {Prepare(turn + 1)}
              /\ calm' = [calm EXCEPT ![turn + 1] = BeginsCalmly(jobs)]
<1> DEFINE t == turn + 1
           h == [j \in Job |-> IF j[1] = "wake" THEN heard ELSE "blank"]
           jobs == IF heard = "blank" THEN {<<"prepare", t>>}
                   ELSE {<<"wake", t>>, <<"prepare", t>>}
<1>1. t \in Turn /\ heard \in Transcript
  BY Hearing DEF Listen
<1>2. jobs \subseteq Job
  BY <1>1, Jobs
<1>3. h \in [Job -> Transcript]
  BY <1>1 DEF Transcript
<1>4. Launch(jobs, h) /\ calm' = [calm EXCEPT ![t] = BeginsCalmly(jobs)]
  BY DEF Listen
<1>5. Cardinality(jobs) = 1 => jobs = {<<"prepare", t>>}
  <2> DEFINE w == <<"wake", t>>
             p == <<"prepare", t>>
  <2>1. w # p
    OBVIOUS
  <2> HIDE DEF w, p
  <2>2. IsFiniteSet({p})
    BY FS_Singleton
  <2>3. IsFiniteSet({p} \cup {w})
    BY <2>2, FS_AddElement
  <2>4. Cardinality({p} \cup {w}) # 1
    BY <2>1, <2>3, FS_Singleton
  <2>5. jobs = {p} \/ jobs = {p} \cup {w}
    BY DEF w, p
  <2> QED
    BY <2>4, <2>5 DEF p
<1> QED
  BY <1>1, <1>2, <1>3, <1>4, <1>5 DEF Prepare

\* So do the partial results, the command and the end of the speech.
LEMMA OthersLaunch ==
  ASSUME IInv
  PROVE  /\ \A heard \in scene.partials : Partial(heard) =>
              /\ <<"partial", turn>> \in Job /\ turn \in Turn
              /\ \E h \in [Job -> Transcript] : Launch({<<"partial", turn>>}, h)
         /\ \A heard \in scene.commands : Command(heard) =>
              /\ Final(turn) \in Job /\ turn \in Turn
              /\ \E h \in [Job -> Transcript] :
                   Launch({Final(turn)}, h) /\ h[Final(turn)] = heard
         /\ SpeechDone =>
              /\ <<"finished", speech.turn>> \in Job
              /\ \E h \in [Job -> Transcript] : Launch({<<"finished", speech.turn>>}, h)
<1>1. ASSUME NEW heard \in scene.partials, Partial(heard)
      PROVE  /\ <<"partial", turn>> \in Job /\ turn \in Turn
             /\ \E h \in [Job -> Transcript] : Launch({<<"partial", turn>>}, h)
  <2>1. turn \in Turn /\ heard \in Transcript
    BY <1>1, Hearing DEF Partial
  <2>2. [j \in Job |-> heard] \in [Job -> Transcript]
    BY <2>1
  <2> QED
    BY <1>1, <2>1, <2>2, Jobs DEF Partial
<1>2. ASSUME NEW heard \in scene.commands, Command(heard)
      PROVE  /\ Final(turn) \in Job /\ turn \in Turn
             /\ \E h \in [Job -> Transcript] :
                  Launch({Final(turn)}, h) /\ h[Final(turn)] = heard
  <2>1. turn \in Turn /\ heard \in Transcript
    BY <1>2, Hearing DEF Command
  <2>2. Final(turn) \in Job
    BY <2>1, Jobs DEF Final
  <2>3. [j \in Job |-> heard] \in [Job -> Transcript] /\ [j \in Job |-> heard][Final(turn)] = heard
    BY <2>1, <2>2
  <2>4. Launch({Final(turn)}, [j \in Job |-> heard])
    BY <1>2 DEF Command, Final
  <2> QED
    BY <2>1, <2>2, <2>3, <2>4
<1>3. ASSUME SpeechDone
      PROVE  /\ <<"finished", speech.turn>> \in Job
             /\ \E h \in [Job -> Transcript] : Launch({<<"finished", speech.turn>>}, h)
  <2>1. speech.turn \in Turn
    BY <1>3, Hearing DEF SpeechDone
  <2>2. [j \in Job |-> "blank"] \in [Job -> Transcript]
    BY DEF Transcript
  <2> QED
    BY <1>3, <2>1, <2>2, Jobs DEF SpeechDone
<1> QED
  BY <1>1, <1>2, <1>3

\* The callbacks keep the order of the posts.
LEMMA OrderOfCallbacks ==
  ASSUME IInv, Order,
         \/ \E heard \in scene.woken : Listen(heard)
         \/ \E heard \in scene.partials : Partial(heard)
         \/ \E heard \in scene.commands : Command(heard)
         \/ LocalCommand \/ NoCommand \/ OverlayInterrupted \/ SpeechDone \/ SpeechFails
  PROVE  Order'
<1>1. CASE \/ \E heard \in scene.woken : Listen(heard)
           \/ \E heard \in scene.partials : Partial(heard)
           \/ \E heard \in scene.commands : Command(heard)
           \/ SpeechDone
  <2>1. UNCHANGED scene
    BY <1>1 DEF Listen, Partial, Command, SpeechDone, device
  <2>2. \E jobs \in SUBSET Job, h \in [Job -> Transcript] : Launch(jobs, h)
    <3>1. CASE \E heard \in scene.woken : Listen(heard)
      BY <3>1, ListenLaunches
    <3>2. CASE \E heard \in scene.partials : Partial(heard)
      BY <3>2, OthersLaunch
    <3>3. CASE \E heard \in scene.commands : Command(heard)
      BY <3>3, OthersLaunch
    <3>4. CASE SpeechDone
      BY <3>4, OthersLaunch
    <3> QED
      BY <1>1, <3>1, <3>2, <3>3, <3>4
  <2> QED
    BY <2>1, <2>2, OrderOfLaunch
<1>2. CASE LocalCommand \/ NoCommand \/ OverlayInterrupted \/ SpeechFails
  <2>1. UNCHANGED <<stage, target, answer, posts, sid, scene>>
    BY <1>2 DEF LocalCommand, NoCommand, OverlayInterrupted, SpeechFails, coroutines
  <2> QED
    BY <2>1 DEF Order, Begun, Untaken, Seeding, Uses
<1> QED
  BY <1>1, <1>2

\* What a coroutine continues with: the answer it got, or none.
LEMMA Answered ==
  ASSUME IInv, NEW j \in Job, Resume(j) \/ TimeOut(j)
  PROVE  \E a \in Answer : /\ Continue(j, a)
                           /\ a.state = "ok" => a = answer[j]
                           /\ UNCHANGED <<turn, listening, scene, backend>>
                           /\ trouble' \in {trouble, trouble + 1}
<1>1. answer[j] \in Answer /\ Failed \in Answer /\ Failed.state # "ok"
  BY Answers DEF IInv, TypeOK, CoroutineTypes, Failed
<1> QED
  BY <1>1 DEF Resume, TimeOut, Happens

\* Every step keeps the order of the posts.
LEMMA OrderStep ==
  ASSUME IInv, Order, Next
  PROVE  Order'
<1>1. ASSUME NEW p \in posts, Serve(p) \/ Lose(p) PROVE Order'
  BY <1>1, Handling, OrderOfHandling
<1>2. ASSUME NEW s \in Job, NEW outcome \in {"answered", "unspoken"}, Inject(s, outcome)
      PROVE  Order'
  BY <1>2 DEF Inject, Order, Begun, Untaken, Seeding, Uses, coroutines
<1>3. ASSUME NEW j \in Job, Resume(j) \/ TimeOut(j) PROVE Order'
  BY <1>3, Answered, OrderOfContinuing
<1> QED
  BY <1>1, <1>2, <1>3, OrderOfCallbacks DEF Next

-----------------------------------------------------------------------------
(* The surface is released.                                                 *)

\* submitFinalCommand speaks or clears the surface, onPlaybackFinished clears it.
LEMMA ReleasingOnward ==
  ASSUME IInv, Releasing, NEW j \in Job, Resume(j) \/ TimeOut(j)
  PROVE  Releasing'
<1>1. PICK a \in Answer : /\ Continue(j, a)
                          /\ UNCHANGED <<listening, scene>>
                          /\ trouble' \in {trouble, trouble + 1}
  BY Answered
<1>2. trouble # 0 => trouble' # 0
  BY <1>1 DEF IInv, TypeOK
<1>3. ASSUME NEW step \in {"posting", "seeding"}, NEW s \in Job, NEW heard \in Transcript,
             GoOn(j, step, s, heard), UNCHANGED <<active, speech>>
      PROVE  Releasing'
  <2>1. /\ \A i \in Job \ {j} : stage'[i] = stage[i]
        /\ stage'[j] = Step(j, step)
    BY <1>3, GoneOn
  <2>2. j[1] \in {"final", "finished"} => stage'[j] \in Waiting
    BY <2>1, Stepping DEF Waiting
  <2> QED
    BY <1>1, <1>2, <1>3, <2>1, <2>2 DEF Releasing
<1>4. ASSUME End(j, a) PROVE Releasing'
  <2>1. \A i \in Job \ {j} : stage'[i] = stage[i]
    BY <1>4, Ended
  <2>2. Settle(j, a) /\ Speak(j, a)
    BY <1>4 DEF End
  <2>3. CASE j[1] = "finished"
    BY <2>2, <2>3 DEF Settle, Releasing
  <2>4. CASE j[1] = "final"
    <3>1. CASE a.state # "ok"
      BY <2>2, <2>4, <3>1 DEF Settle, Releasing
    <3>2. CASE a.state = "ok"
      <4>1. speech' = [reply |-> a.reply, turn |-> j[2]]
        BY <2>2, <2>4, <3>2 DEF Speak
      <4>2. speech'.turn = j[2] /\ j[2] # 0
        BY <4>1, Jobs DEF Turn
      <4>3. speech' # Silent
        BY <4>2 DEF Silent
      <4> QED
        BY <4>3 DEF Releasing
    <3> QED
      BY <3>1, <3>2
  <2>5. CASE j[1] \notin {"final", "finished"}
    <3>1. (active' => active) /\ speech' = speech
      BY <2>2, <2>5 DEF Settle, Speak
    <3>2. \A i \in Job : i[1] \in {"final", "finished"} => stage'[i] = stage[i]
      BY <2>1, <2>5
    <3> QED
      BY <1>1, <1>2, <3>1, <3>2 DEF Releasing
  <2> QED
    BY <2>3, <2>4, <2>5
<1>5. said[j] \in Transcript /\ scene.phrase \in Transcript
  BY ScenesAssumption DEF IInv, TypeOK, CoroutineTypes, Scene, Transcript
<1> QED
  BY <1>1, <1>3, <1>4, <1>5, Ways

\* A callback hands the release of the surface on.
LEMMA ReleasingCallbacks ==
  ASSUME IInv, Releasing,
         \/ \E heard \in scene.woken : Listen(heard)
         \/ \E heard \in scene.partials : Partial(heard)
         \/ \E heard \in scene.commands : Command(heard)
         \/ LocalCommand \/ NoCommand \/ OverlayInterrupted \/ SpeechDone \/ SpeechFails
  PROVE  Releasing'
<1>1. CASE \E heard \in scene.woken : Listen(heard)
  BY <1>1 DEF Listen, Releasing
<1>2. ASSUME NEW jobs \in SUBSET Job, NEW h \in [Job -> Transcript], Launch(jobs, h)
      PROVE  /\ \A j \in Job : stage[j] \in Waiting => stage'[j] = stage[j]
             /\ \A j \in jobs : j[1] \in {"final", "finished"} => stage'[j] \in Waiting
  <2>1. /\ \A j \in Job \ jobs : stage'[j] = stage[j]
        /\ \A j \in jobs : stage[j] = "unborn" /\ stage'[j] \in {"starting", Step(j, "posting")}
    BY <1>2, Launched DEF Launches
  <2>2. \A j \in jobs : j[1] \in {"final", "finished"} => Step(j, "posting") = "posting"
    BY Stepping
  <2> QED
    BY <2>1, <2>2 DEF Waiting
<1>3. CASE \E heard \in scene.partials : Partial(heard)
  <2>1. \A j \in Job : stage[j] \in Waiting => stage'[j] = stage[j]
    BY <1>2, <1>3, OthersLaunch
  <2> QED
    BY <1>3, <2>1 DEF Partial, Releasing, device
<1>4. CASE \E heard \in scene.commands : Command(heard)
  <2>1. Final(turn) \in Job /\ Final(turn)[1] = "final" /\ stage'[Final(turn)] \in Waiting
    BY <1>2, <1>4, OthersLaunch DEF Final
  <2> QED
    BY <2>1 DEF Releasing
<1>5. CASE SpeechDone
  <2> DEFINE f == <<"finished", speech.turn>>
  <2>1. f \in Job /\ f[1] = "finished" /\ stage'[f] \in Waiting
    BY <1>2, <1>5, OthersLaunch
  <2> QED
    BY <2>1 DEF Releasing
<1>6. CASE LocalCommand
  <2>1. turn # 0 /\ speech' = [reply |-> turn, turn |-> turn]
    BY <1>6, Hearing DEF LocalCommand, Turn
  <2>2. speech' # Silent
    BY <2>1 DEF Silent
  <2> QED
    BY <2>2 DEF Releasing
<1>7. CASE NoCommand
  BY <1>7 DEF NoCommand, Releasing
<1>8. CASE OverlayInterrupted
  <2>1. trouble' # 0 /\ scene' = scene /\ "interrupted" \in scene.mishaps
    BY <1>8 DEF OverlayInterrupted, Happens, IInv, TypeOK
  <2> QED
    BY <2>1 DEF Releasing
<1>9. CASE SpeechFails
  <2>1. trouble' # 0 /\ scene' = scene /\ "mute" \in scene.mishaps
    BY <1>9 DEF SpeechFails, Happens, IInv, TypeOK
  <2> QED
    BY <2>1 DEF Releasing
<1> QED
  BY <1>1, <1>3, <1>4, <1>5, <1>6, <1>7, <1>8, <1>9

\* Every step leaves somebody who will release the surface.
LEMMA ReleasingStep ==
  ASSUME IInv, Releasing, Next
  PROVE  Releasing'
<1>0. trouble \in Nat
  BY TurnsAssumption DEF IInv, TypeOK
<1>1. ASSUME NEW p \in posts, Serve(p) \/ Lose(p) PROVE Releasing'
  <2>1. UNCHANGED <<stage, listening, active, speech, scene>> /\ trouble' \in {trouble, trouble + 1}
    BY <1>1 DEF Serve, ServeStart, ServeEvent, ServeFails, ServeRefuses, Lose, Happens, device
  <2> QED
    BY <1>0, <2>1 DEF Releasing
<1>2. ASSUME NEW s \in Job, NEW outcome \in {"answered", "unspoken"}, Inject(s, outcome)
      PROVE  Releasing'
  BY <1>0, <1>2 DEF Inject, Releasing, coroutines, device, Happens
<1> QED
  BY <1>1, <1>2, ReleasingOnward, ReleasingCallbacks DEF Next

\* When all is quiet, nobody is left who would.
LEMMA ReleasingAtLast == Releasing => QuietSurfaceIsReleased
BY DEF Releasing, QuietSurfaceIsReleased, Quiet

-----------------------------------------------------------------------------
(* A calm turn: the backend.                                                *)

\* No event but a command takes a session out of its readiness.
LEMMA StaysReady ==
  ASSUME IInv, Untaken, NEW p \in posts, Serve(p) \/ Lose(p), p.job[1] # "final",
         NEW s \in Job, Ready(s), Uses(s)
  PROVE  Ready(s)'
<1>1. session \in [Job -> Record] /\ session[s] \in Record
  BY DEF IInv, TypeOK, BackendTypes
<1>2. CASE ServeStart(p)
  <2>1. s # p.job
    BY <1>2 DEF ServeStart, Untaken
  <2> QED
    BY <1>1, <1>2, <2>1 DEF ServeStart, Ready
<1>3. ASSUME NEW outcome, NEW reply, Ingest(p.to, Event(p), outcome, reply), p.step # "starting"
      PROVE  Ready(s)'
  <2> DEFINE e == Event(p)
             r == Settled(session[p.to], e)
  <2>0. p.to \in Job
    BY <1>3, PostParts
  <2>1. ~e.final
    BY DEF Event
  <2>2. session' = [session EXCEPT ![p.to] = Noted(r, e)]
    BY <1>3, <2>1 DEF Ingest, Accepts
  <2>3. CASE p.to = s
    <3>1. e \in EventSet
      BY <1>3, PostParts
    <3> HIDE DEF e
    <3>2. r.status \in {"listening-command", "interrupted"} /\ r.woken
      BY <1>1, <2>3, <3>1 DEF Ready, Settled, Record, EventSet
    <3>3. r \in Record
      BY <1>1, <2>3, <3>1, SettledRecord
    <3> HIDE DEF r
    <3>4. /\ Noted(r, e).status \in {"listening-command", "interrupted"}
          /\ Noted(r, e).woken
      BY <2>1, <3>2, <3>3 DEF Noted, Record
    <3> QED
      BY <1>1, <2>2, <2>3, <3>4 DEF Ready
  <2>4. CASE p.to # s
    BY <1>1, <2>2, <2>4 DEF Ready
  <2> QED
    BY <2>3, <2>4
<1>4. CASE ServeRefuses(p) \/ Lose(p)
  BY <1>4 DEF ServeRefuses, Lose, Ready, backend
<1> QED
  BY <1>2, <1>3, <1>4 DEF Serve, ServeEvent, ServeFails

\* The wake phrase of a preparation readies its session.
LEMMA GetsReady ==
  ASSUME IInv, NEW p \in posts, ServeEvent(p), p.job[1] # "final", p.heard = "wake"
  PROVE  Ready(p.to)'
<1> DEFINE e == Event(p)
           r == Settled(session[p.to], e)
<1>1. p.to \in Job /\ e \in EventSet
  BY PostParts DEF ServeEvent
<1>2. session \in [Job -> Record] /\ session[p.to] \in Record
  BY <1>1 DEF IInv, TypeOK, BackendTypes
<1>3. ~e.final /\ e.transcript \in WithWake
  BY DEF Event, WithWake
<1>4. session' = [session EXCEPT ![p.to] = Noted(r, e)]
  BY <1>3 DEF ServeEvent, Ingest, Accepts
<1>5. r \in Record
  BY <1>1, <1>2, SettledRecord
<1> HIDE DEF r, e
<1>6. Noted(r, e).status = "listening-command" /\ Noted(r, e).woken
  BY <1>3, <1>5 DEF Noted, Record
<1> QED
  BY <1>1, <1>2, <1>4, <1>6 DEF Ready

\* The command of a calm turn is run, and answered with its reply.
LEMMA GetsReply ==
  ASSUME IInv, NEW p \in posts, NEW t \in Turn, p.job = Final(t), Alone(p), ServeEvent(p)
  PROVE  session'[p.to].reply = t
<1> DEFINE e == Event(p)
           r == Settled(session[p.to], e)
<1>1. p.to \in Job /\ e \in EventSet
  BY PostParts DEF ServeEvent
<1>2. session \in [Job -> Record] /\ session[p.to] \in Record
  BY <1>1 DEF IInv, TypeOK, BackendTypes
<1>3. e.final /\ ~e.interrupt /\ ~e.playbackFinished /\ e.transcript = p.heard
  <2>1. p.job[1] = "final"
    BY DEF Final
  <2> QED
    BY <2>1 DEF Event
<1>4. r.status = session[p.to].status /\ r.woken = session[p.to].woken
  BY <1>1, <1>2, <1>3 DEF Settled, Record
<1>5. Accepts(r, e)
  BY <1>3, <1>4 DEF Alone, Ready, Accepts
<1>6. p.job[2] = t
  BY DEF Final
<1>7. session' = [session EXCEPT ![p.to] = Commanded(r, e, "answered", t)]
  BY <1>5, <1>6 DEF ServeEvent, Ingest
<1> HIDE DEF r, e
<1>8. Commanded(r, e, "answered", t).reply = t
  BY DEF Commanded
<1> QED
  BY <1>1, <1>2, <1>7, <1>8

\* An answer that arrives is the one of an event that was served.
LEMMA OkAnswers ==
  ASSUME IInv, NEW p \in posts, Serve(p) \/ Lose(p), NEW j \in Job, answer'[j] # answer[j],
         answer'[j].state = "ok", stage[j] # "starting"
  PROVE  /\ p.job = j /\ p.step = stage[j] /\ ServeEvent(p)
         /\ answer'[j].reply = session'[p.to].reply
<1>1. p.job = j /\ stage[j] = p.step
  BY Handling DEF Handled
<1>2. answer \in [Job -> Answer]
  BY DEF IInv, TypeOK, CoroutineTypes
<1>3. ~ServeFails(p) /\ ~ServeRefuses(p) /\ ~Lose(p)
  BY <1>1, <1>2 DEF ServeFails, ServeRefuses, Lose, Reach, Failed
<1>4. ServeEvent(p)
  BY <1>1, <1>3 DEF Serve, ServeStart
<1>5. answer'[j].reply = session'[p.to].reply
  BY <1>1, <1>2, <1>4 DEF ServeEvent, Reach, Ok
<1> QED
  BY <1>1, <1>4, <1>5

\* The backend runs the command of a calm turn, and no other before it.
LEMMA CalmBackend ==
  ASSUME IInv, Order, Calm, NEW p \in posts, Serve(p) \/ Lose(p)
  PROVE  Calm'
<1> USE DEF Calm, Order
<1>1. /\ posts' \subseteq posts /\ p \notin posts'
      /\ UNCHANGED <<stage, target, sid, scene>>
  BY Handling DEF Handled
<1>2. UNCHANGED <<turn, speech, calm>>
  BY DEF Serve, ServeStart, ServeEvent, ServeFails, ServeRefuses, Lose, device
<1>3. Future' /\ CalmTurnGetsItsReply'
  BY <1>1, <1>2 DEF Future, CalmTurnGetsItsReply
<1>4. CalmBefore'
  <2>1. SUFFICES ASSUME turn # 0, calm[turn], stage[Final(turn)] = "unborn"
                 PROVE  BeforeCommand'
    BY <1>1, <1>2 DEF CalmBefore
  <2>2. BeforeCommand
    BY <2>1 DEF CalmBefore
  <2>3. Prepare(turn)[1] = "prepare" /\ Prepare(turn) \in Job
    <3>1. turn \in Turn
      BY <2>1 DEF Turn, IInv, TypeOK, DeviceTypes
    <3> QED
      BY <3>1, Jobs DEF Prepare
  <2>4. ASSUME scene.phrase = "wake", Seeded' PROVE Ready(sid)'
    <3>1. p.job[1] # "final"
      BY <2>2 DEF BeforeCommand
    <3>2. sid \in Job
      BY <1>1, <1>2, <2>2, <2>4 DEF BeforeCommand, Seeded, Prepare, IInv, TypeOK, CoroutineTypes
    <3>3. CASE Seeded
      BY <1>1, <2>2, <2>4, <3>1, <3>2, <3>3, StaysReady DEF BeforeCommand, Uses
    <3>4. CASE ~Seeded
      <4>1. /\ stage[Prepare(turn)] = "seeding" /\ answer'[Prepare(turn)].state = "ok"
            /\ answer'[Prepare(turn)] # answer[Prepare(turn)]
        BY <1>1, <1>2, <2>4, <3>4 DEF Seeded, Prepare
      <4>2. p.job = Prepare(turn) /\ p.step = "seeding" /\ ServeEvent(p)
        BY <2>3, <4>1, OkAnswers
      <4>3. p.to = sid /\ p.heard = "wake"
        BY <2>2, <2>4, <4>1, <4>2 DEF Seeding, BeforeCommand
      <4> QED
        BY <1>1, <3>1, <4>2, <4>3, GetsReady
    <3> QED
      BY <3>3, <3>4
  <2> QED
    BY <1>1, <1>2, <2>2, <2>4 DEF BeforeCommand, Prepare
<1>5. CalmAfter'
  <2>1. SUFFICES ASSUME NEW t \in Turn, calm[t] PROVE AfterCommand(t)'
    BY <1>2 DEF CalmAfter
  <2>2. AfterCommand(t)
    BY <2>1 DEF CalmAfter
  <2>3. ASSUME NEW q \in posts', q.job = Final(t) PROVE Alone(q)'
    <3>1. q \in posts /\ q # p /\ Alone(q)
      BY <1>1, <2>2, <2>3 DEF AfterCommand
    <3>2. p.job[1] # "final"
      BY <3>1 DEF Alone
    <3>3. Ready(q.to) => Ready(q.to)'
      <4>1. q.to \in Job
        BY <3>1, Posted DEF Alone
      <4> QED
        BY <3>1, <3>2, <4>1, StaysReady DEF Uses
    <3> QED
      BY <1>1, <3>1, <3>3 DEF Alone
  <2>4. ASSUME stage[Final(t)] = "posting", answer'[Final(t)].state = "ok"
        PROVE  answer'[Final(t)].reply = t
    <3>0. Final(t) \in Job
      BY Jobs DEF Final
    <3>1. CASE answer'[Final(t)] = answer[Final(t)]
      BY <2>2, <2>4, <3>1 DEF AfterCommand
    <3>2. CASE answer'[Final(t)] # answer[Final(t)]
      <4>1. /\ p.job = Final(t) /\ ServeEvent(p)
            /\ answer'[Final(t)].reply = session'[p.to].reply
        BY <2>4, <3>0, <3>2, OkAnswers
      <4>2. Alone(p)
        BY <2>2, <4>1 DEF AfterCommand
      <4> QED
        BY <4>1, <4>2, GetsReply
    <3> QED
      BY <3>1, <3>2
  <2> QED
    BY <1>1, <2>2, <2>3, <2>4 DEF AfterCommand, Final
<1> QED
  BY <1>3, <1>4, <1>5

-----------------------------------------------------------------------------
(* A calm turn: the coroutines.                                             *)

\* The two coroutines of a turn that matter.
LEMMA TurnJobs ==
  /\ \A t \in Turn : /\ Prepare(t) \in Job /\ Final(t) \in Job
                     /\ Prepare(t)[1] = "prepare" /\ Prepare(t)[2] = t
                     /\ Final(t)[1] = "final" /\ Final(t)[2] = t
  /\ \A j \in Job : j[1] = "final" => j = Final(j[2])
  /\ \A j \in Job : j[1] = "prepare" => j = Prepare(j[2])
BY DEF Job, Prepare, Final

\* A coroutine goes on after its start.
LEMMA CalmAfterStart ==
  ASSUME IInv, Order, Calm, NEW j \in Job, NEW s \in Job, stage[j] = "starting",
         GoOn(j, "posting", s, said[j]), sid' = s, s = j \/ s = sid,
         UNCHANGED <<turn, scene, session, speech, calm>>
  PROVE  Calm'
<1> USE DEF Calm
<1> DEFINE new == [job |-> j, step |-> "posting", to |-> s, heard |-> said[j]]
<1>0. said[j] \in Transcript
  BY DEF IInv, TypeOK, CoroutineTypes
<1>1. /\ \A i \in Job \ {j} : /\ stage'[i] = stage[i] /\ target'[i] = target[i]
                              /\ answer'[i] = answer[i]
      /\ stage'[j] = Step(j, "posting")
      /\ j[1] = "prepare" => target'[j] = s
      /\ posts' = posts \cup {new}
      /\ new.job = j
  BY <1>0, GoneOn
<1>2. stage'[j] \in {"posting", "ended"} /\ (j[1] = "prepare" => stage'[j] = "posting")
  BY <1>1, Stepping
<1> HIDE DEF new
<1>3. Future' /\ CalmTurnGetsItsReply'
  BY <1>1, TurnJobs DEF Future, CalmTurnGetsItsReply
<1>4. CalmBefore'
  <2>1. SUFFICES ASSUME turn # 0, calm[turn], stage'[Final(turn)] = "unborn"
                 PROVE  BeforeCommand'
    BY DEF CalmBefore, Final
  <2>2. turn \in Turn
    BY <2>1 DEF IInv, TypeOK, DeviceTypes, Turn
  <2>3. stage[Final(turn)] = "unborn"
    BY <1>1, <1>2, <2>1, <2>2, TurnJobs
  <2>4. BeforeCommand
    BY <2>1, <2>3 DEF CalmBefore
  <2>5. j = Prepare(turn) /\ j[1] = "prepare"
    BY <2>2, <2>4, TurnJobs DEF BeforeCommand
  <2>6. s # NoSession
    BY Jobs
  <2>7. \A p \in posts' : p.job[1] # "final"
    BY <1>1, <2>4, <2>5 DEF BeforeCommand
  <2>8. \A i \in Job : stage'[i] = "starting" => i = Prepare(turn)
    BY <1>1, <2>4, <2>5 DEF BeforeCommand
  <2>9. stage'[Prepare(turn)] = "posting" /\ target'[Prepare(turn)] = s
    BY <1>1, <1>2, <2>5
  <2> QED
    BY <2>6, <2>7, <2>8, <2>9 DEF BeforeCommand, Seeded, Prepare
<1>5. CalmAfter'
  <2>1. SUFFICES ASSUME NEW t \in Turn, calm[t] PROVE AfterCommand(t)'
    BY DEF CalmAfter
  <2>2. AfterCommand(t) /\ Final(t) # j /\ Final(t) \in Job
    BY <2>1, TurnJobs DEF CalmAfter, AfterCommand
  <2>3. \A p \in posts' : p.job # Final(t)
    BY <1>1, <2>2 DEF AfterCommand, Alone
  <2> QED
    BY <1>1, <2>2, <2>3 DEF AfterCommand, Final
<1> QED
  BY <1>3, <1>4, <1>5

\* The second post of a preparation.
LEMMA CalmSeeding ==
  ASSUME IInv, Order, Calm, NEW j \in Job, stage[j] = "posting", j[1] = "prepare",
         target[j] \in Job, GoOn(j, "seeding", target[j], scene.phrase),
         UNCHANGED <<sid, turn, scene, session, speech, calm>>
  PROVE  Calm'
<1> USE DEF Calm
<1> DEFINE new == [job |-> j, step |-> "seeding", to |-> target[j], heard |-> scene.phrase]
<1>0. scene.phrase \in Transcript
  BY ScenesAssumption DEF IInv, TypeOK, Scene, Transcript
<1>1. /\ \A i \in Job \ {j} : /\ stage'[i] = stage[i] /\ target'[i] = target[i]
                              /\ answer'[i] = answer[i]
      /\ stage'[j] = Step(j, "seeding")
      /\ target'[j] = target[j]
      /\ answer'[j].state = "awaited"
      /\ posts' = posts \cup {new}
      /\ new.job = j
  BY <1>0, GoneOn
<1>2. stage'[j] = "seeding"
  BY <1>1, Stepping
<1> HIDE DEF new
<1>3. Future' /\ CalmTurnGetsItsReply'
  BY <1>1, TurnJobs DEF Future, CalmTurnGetsItsReply
<1>4. CalmBefore'
  <2>1. SUFFICES ASSUME turn # 0, calm[turn], stage'[Final(turn)] = "unborn"
                 PROVE  BeforeCommand'
    BY DEF CalmBefore, Final
  <2>2. turn \in Turn
    BY <2>1 DEF IInv, TypeOK, DeviceTypes, Turn
  <2>3. stage[Final(turn)] = "unborn" /\ Prepare(turn) \in Job
    BY <1>1, <1>2, <2>1, <2>2, TurnJobs
  <2>4. BeforeCommand
    BY <2>1, <2>3 DEF CalmBefore
  <2>5. \A p \in posts' : p.job[1] # "final"
    BY <1>1, <2>4 DEF BeforeCommand
  <2>6. \A i \in Job : stage'[i] = "starting" => i = Prepare(turn)
    BY <1>1, <1>2, <2>4 DEF BeforeCommand
  <2>7. CASE j = Prepare(turn)
    BY <1>1, <1>2, <2>4, <2>5, <2>6, <2>7 DEF BeforeCommand, Seeded, Prepare
  <2>8. CASE j # Prepare(turn)
    <3>1. /\ stage'[Prepare(turn)] = stage[Prepare(turn)]
          /\ target'[Prepare(turn)] = target[Prepare(turn)]
          /\ answer'[Prepare(turn)] = answer[Prepare(turn)]
      BY <1>1, <2>3, <2>8
    <3> QED
      BY <2>4, <2>5, <2>6, <3>1 DEF BeforeCommand, Seeded, Prepare, Ready
  <2> QED
    BY <2>7, <2>8
<1>5. CalmAfter'
  <2>1. SUFFICES ASSUME NEW t \in Turn, calm[t] PROVE AfterCommand(t)'
    BY DEF CalmAfter
  <2>2. AfterCommand(t) /\ Final(t) # j /\ Final(t) \in Job
    BY <2>1, TurnJobs DEF CalmAfter
  <2>3. ASSUME NEW p \in posts', p.job = Final(t) PROVE Alone(p)'
    <3>1. p \in posts /\ Alone(p)
      BY <1>1, <2>2, <2>3 DEF AfterCommand
    <3>2. \A q \in posts' : q.job[1] = "final" => q = p
      BY <1>1, <3>1 DEF Alone
    <3> QED
      BY <1>1, <1>2, <3>1, <3>2 DEF Alone, Ready
  <2> QED
    BY <1>1, <2>2, <2>3 DEF AfterCommand, Final
<1> QED
  BY <1>3, <1>4, <1>5

\* A coroutine ends.
LEMMA CalmEnding ==
  ASSUME IInv, Order, Calm, NEW j \in Job, NEW a \in Answer, End(j, a),
         a.state = "ok" => a = answer[j],
         \/ stage[j] = "starting" /\ a.state # "ok" /\ sid = NoSession
         \/ stage[j] = "posting" /\ j[1] # "prepare"
         \/ stage[j] = "seeding",
         UNCHANGED <<turn, scene, session>>
  PROVE  Calm'
<1> USE DEF Calm
<1>1. /\ \A i \in Job \ {j} : /\ stage'[i] = stage[i] /\ target'[i] = target[i]
                              /\ answer'[i] = answer[i]
      /\ stage'[j] = "ended"
      /\ UNCHANGED <<posts, sid>>
  BY Ended
<1>2. /\ \A t \in Turn : calm'[t] => calm[t]
      /\ j[1] = "prepare" /\ a.state # "ok" => ~calm'[j[2]]
  <2>1. calm' = IF j[1] = "prepare" /\ a.state # "ok" THEN [calm EXCEPT ![j[2]] = FALSE] ELSE calm
    BY DEF End
  <2>2. calm \in [Turn -> BOOLEAN] /\ j[2] \in Turn
    BY Jobs DEF IInv, TypeOK, DeviceTypes
  <2> QED
    BY <2>1, <2>2
<1>3. Future'
  BY <1>1, <1>2, TurnJobs DEF Future
<1>4. CalmBefore'
  <2>1. SUFFICES ASSUME turn # 0, calm'[turn], stage'[Final(turn)] = "unborn"
                 PROVE  BeforeCommand'
    BY DEF CalmBefore, Final
  <2>2. turn \in Turn
    BY <2>1 DEF IInv, TypeOK, DeviceTypes, Turn
  <2>3. stage[Final(turn)] = "unborn" /\ Prepare(turn) \in Job /\ calm[turn]
    BY <1>1, <1>2, <2>1, <2>2, TurnJobs
  <2>4. BeforeCommand
    BY <2>1, <2>3 DEF CalmBefore
  <2>5. \A i \in Job : stage'[i] = "starting" => i = Prepare(turn)
    BY <1>1, <2>4 DEF BeforeCommand
  <2>6. CASE j = Prepare(turn)
    <3>1. a.state = "ok" /\ stage[j] = "seeding"
      BY <1>2, <2>1, <2>2, <2>6, TurnJobs
    <3>2. Seeded /\ sid # NoSession
      BY <2>4, <2>6, <3>1 DEF Seeded, BeforeCommand
    <3> QED
      BY <1>1, <2>4, <2>5, <2>6, <3>2 DEF BeforeCommand, Prepare, Ready
  <2>7. CASE j # Prepare(turn)
    <3>1. /\ stage'[Prepare(turn)] = stage[Prepare(turn)]
          /\ target'[Prepare(turn)] = target[Prepare(turn)]
          /\ answer'[Prepare(turn)] = answer[Prepare(turn)]
      BY <1>1, <2>3, <2>7
    <3> QED
      BY <1>1, <2>4, <2>5, <3>1 DEF BeforeCommand, Seeded, Prepare, Ready
  <2> QED
    BY <2>6, <2>7
<1>5. CalmAfter'
  <2>1. SUFFICES ASSUME NEW t \in Turn, calm[t] PROVE AfterCommand(t)'
    BY <1>2 DEF CalmAfter
  <2>2. AfterCommand(t) /\ Final(t) \in Job
    BY <2>1, TurnJobs DEF CalmAfter
  <2>3. ASSUME NEW p \in posts', p.job = Final(t) PROVE Alone(p)'
    BY <1>1, <2>2, <2>3 DEF AfterCommand, Alone, Ready
  <2> QED
    BY <1>1, <2>2, <2>3 DEF AfterCommand, Final
<1>6. CalmTurnGetsItsReply'
  <2>1. CASE speech' = speech
    BY <1>2, <2>1 DEF CalmTurnGetsItsReply
  <2>2. CASE speech' # speech
    <3>1. /\ j[1] = "final" /\ a.state = "ok"
          /\ speech' = [reply |-> a.reply, turn |-> j[2]]
      BY <2>2 DEF End, Speak
    <3>2. j = Final(j[2]) /\ j[2] \in Turn /\ a = answer[j] /\ stage[j] = "posting"
      BY <3>1, Jobs, TurnJobs DEF Order, Begun
    <3>3. calm[j[2]] => a.reply = j[2]
      BY <3>1, <3>2 DEF CalmAfter, AfterCommand
    <3> QED
      BY <1>2, <3>1, <3>2, <3>3 DEF CalmTurnGetsItsReply
  <2> QED
    BY <2>1, <2>2
<1> QED
  BY <1>3, <1>4, <1>5, <1>6

\* A coroutine that gets its answer, or gives up, overtakes no calm turn.
LEMMA CalmOnward ==
  ASSUME IInv, Order, Calm, NEW j \in Job, Resume(j) \/ TimeOut(j)
  PROVE  Calm'
<1>1. PICK a \in Answer : /\ Continue(j, a)
                          /\ a.state = "ok" => a = answer[j]
                          /\ UNCHANGED <<turn, scene, session>>
  BY Answered DEF backend
<1> QED
  BY <1>1, Ways, CalmAfterStart, CalmSeeding, CalmEnding

-----------------------------------------------------------------------------
(* A calm turn: the callbacks.                                              *)

\* Silence belongs to no turn.
LEMMA NothingSaid == \A t \in Turn : Silent.turn # t
BY DEF Silent, Turn

\* A coroutine that only tells the backend something disturbs no turn once there is a session.
LEMMA CalmTelling ==
  ASSUME IInv, Order, Calm, NEW jobs \in SUBSET Job, NEW h \in [Job -> Transcript],
         Launch(jobs, h), \A j \in jobs : j[1] \notin {"prepare", "final"},
         calm' = IF MayStartTwice THEN [calm EXCEPT ![turn] = FALSE] ELSE calm,
         speech' \in {speech, Silent}, UNCHANGED <<turn, scene, session>>
  PROVE  Calm'
<1> USE DEF Calm
<1>a. Launches(jobs, h)
  BY Launched
<1>1. /\ UNCHANGED <<answer, sid>>
      /\ \A j \in Job \ jobs : stage'[j] = stage[j] /\ target'[j] = target[j]
      /\ sid # NoSession => \A j \in jobs : stage'[j] = Step(j, "posting")
      /\ \A p \in posts' \ posts : p.job \in jobs
  BY <1>a DEF Launches
<1>2. \A t \in Turn : /\ Prepare(t) \in Job \ jobs /\ Final(t) \in Job \ jobs
                      /\ calm'[t] => calm[t]
                      /\ t = turn /\ calm'[t] => sid # NoSession
  BY TurnJobs DEF IInv, TypeOK, DeviceTypes, MayStartTwice
<1>3. sid # NoSession => \A j \in jobs : stage'[j] # "starting"
  BY <1>1, Stepping
<1>4. Future' /\ CalmTurnGetsItsReply'
  BY <1>1, <1>2, NothingSaid DEF Future, CalmTurnGetsItsReply
<1>5. CalmBefore'
  <2>1. SUFFICES ASSUME turn # 0, calm'[turn], stage'[Final(turn)] = "unborn"
                 PROVE  BeforeCommand'
    BY DEF CalmBefore, Final
  <2>2. turn \in Turn
    BY <2>1 DEF IInv, TypeOK, DeviceTypes, Turn
  <2>3. BeforeCommand
    BY <1>1, <1>2, <2>1, <2>2 DEF CalmBefore
  <2>4. sid # NoSession
    BY <1>2, <2>1, <2>2
  <2>5. \A j \in Job : stage'[j] = "starting" => j = Prepare(turn)
    BY <1>1, <1>3, <2>3, <2>4 DEF BeforeCommand
  <2>6. /\ stage'[Prepare(turn)] = stage[Prepare(turn)]
        /\ target'[Prepare(turn)] = target[Prepare(turn)]
    BY <1>1, <1>2, <2>2
  <2> QED
    BY <1>1, <2>3, <2>5, <2>6 DEF BeforeCommand, Seeded, Prepare, Ready
<1>6. CalmAfter'
  <2>1. SUFFICES ASSUME NEW t \in Turn, calm[t] PROVE AfterCommand(t)'
    BY <1>2 DEF CalmAfter
  <2>2. AfterCommand(t) /\ stage'[Final(t)] = stage[Final(t)]
    BY <1>1, <1>2, <2>1 DEF CalmAfter
  <2>3. ASSUME NEW p \in posts', p.job = Final(t) PROVE Alone(p)'
    <3>1. p \in posts /\ Alone(p)
      BY <1>1, <1>2, <2>2, <2>3 DEF AfterCommand
    <3>2. \A j \in Job : stage'[j] # "starting"
      BY <1>1, <1>3, <3>1 DEF Alone
    <3>3. \A q \in posts' : q.job[1] = "final" => q = p
      BY <1>1, <3>1 DEF Alone
    <3> QED
      BY <1>1, <3>1, <3>2, <3>3 DEF Alone, Ready
  <2> QED
    BY <1>1, <2>2, <2>3 DEF AfterCommand, Final
<1> QED
  BY <1>4, <1>5, <1>6

\* A turn begins.
LEMMA CalmListening ==
  ASSUME IInv, Order, Calm, NEW heard \in scene.woken, Listen(heard)
  PROVE  Calm'
<1> USE DEF Calm
<1> DEFINE T == turn + 1
<1>1. PICK jobs \in SUBSET Job, h \in [Job -> Transcript] :
        /\ Launch(jobs, h)
        /\ Prepare(T) \in jobs
        /\ jobs \subseteq {<<"wake", T>>, Prepare(T)}
        /\ Cardinality(jobs) = 1 => jobs = {Prepare(T)}
        /\ calm' = [calm EXCEPT ![T] = BeginsCalmly(jobs)]
  BY ListenLaunches
<1>2. T \in Turn /\ turn \in Nat
  BY ListenLaunches, Hearing
<1>3. turn' = T /\ speech' = Silent /\ UNCHANGED <<scene, session>>
  BY DEF Listen, backend
<1> HIDE DEF T
<1>a. Launches(jobs, h)
  BY <1>1, Launched
<1>4. /\ UNCHANGED <<answer, sid>>
      /\ \A j \in Job \ jobs : stage'[j] = stage[j] /\ target'[j] = target[j]
      /\ \A j \in jobs : /\ stage[j] = "unborn"
                         /\ sid = NoSession => stage'[j] = "starting"
                         /\ sid # NoSession => stage'[j] = Step(j, "posting")
                         /\ sid # NoSession /\ j[1] = "prepare" => target'[j] = sid
      /\ \A p \in posts' \ posts : p.job \in jobs
  BY <1>a DEF Launches
<1>5. \A j \in jobs : j[1] # "final" /\ j[2] = T
  BY <1>1 DEF Prepare
<1>6. \A t \in Turn : Final(t) \in Job \ jobs /\ stage'[Final(t)] = stage[Final(t)]
  BY <1>4, <1>5, TurnJobs
<1>7. /\ calm'[T] <=> BeginsCalmly(jobs)
      /\ \A t \in Turn \ {T} : calm'[t] = calm[t]
  BY <1>1, <1>2 DEF IInv, TypeOK, DeviceTypes
<1>8. T = turn + 1
  BY DEF T
<1>9. Future' /\ CalmTurnGetsItsReply'
  BY <1>2, <1>3, <1>6, <1>7, <1>8, NothingSaid DEF Future, CalmTurnGetsItsReply, Turn
<1>10. stage[Final(T)] = "unborn"
  BY <1>2, <1>8 DEF Future, Turn
<1>11. CalmBefore'
  <2>1. SUFFICES ASSUME BeginsCalmly(jobs)
                 PROVE  BeforeCommand'
    BY <1>2, <1>3, <1>7 DEF CalmBefore, Final
  <2>2. \A p \in posts' : p.job[1] # "final"
    BY <1>4, <1>5, <2>1 DEF BeginsCalmly
  <2>3. CASE sid = NoSession
    <3>1. jobs = {Prepare(T)}
      BY <1>1, <2>1, <2>3 DEF BeginsCalmly
    <3>2. stage'[Prepare(T)] = "starting"
      BY <1>4, <2>3, <3>1
    <3>3. \A j \in Job : stage'[j] = "starting" => j = Prepare(T)
      BY <1>4, <2>1, <3>1 DEF BeginsCalmly
    <3> QED
      BY <1>3, <1>4, <2>2, <2>3, <3>2, <3>3 DEF BeforeCommand, Seeded, Prepare
  <2>4. CASE sid # NoSession
    <3>1. stage'[Prepare(T)] = "posting" /\ target'[Prepare(T)] = sid
      BY <1>1, <1>2, <1>4, <2>4, Stepping, TurnJobs
    <3>2. \A j \in Job : stage'[j] # "starting"
      BY <1>4, <2>1, <2>4, Stepping DEF BeginsCalmly
    <3> QED
      BY <1>3, <1>4, <2>2, <2>4, <3>1, <3>2 DEF BeforeCommand, Seeded, Prepare
  <2> QED
    BY <2>3, <2>4
<1>12. CalmAfter'
  <2>1. SUFFICES ASSUME NEW t \in Turn, calm'[t] PROVE AfterCommand(t)'
    BY DEF CalmAfter
  <2>2. \A p \in posts' : p.job = Final(t) => p \in posts
    BY <1>4, <1>6, <2>1
  <2>3. CASE t = T
    <3>1. \A p \in posts : p.job # Final(t)
      BY <1>10, <2>3 DEF Order, Begun
    <3> QED
      BY <1>6, <1>10, <2>2, <2>3, <3>1 DEF AfterCommand, Final
  <2>4. CASE t # T
    <3>1. AfterCommand(t)
      BY <1>7, <2>1, <2>4 DEF CalmAfter
    <3>2. ASSUME NEW p \in posts', p.job = Final(t) PROVE Alone(p)'
      <4>1. p \in posts /\ Alone(p)
        BY <2>2, <3>1, <3>2 DEF AfterCommand
      <4>2. \A j \in Job : stage'[j] # "starting"
        BY <1>4, <4>1, Stepping DEF Alone
      <4>3. \A q \in posts' : q.job[1] = "final" => q = p
        BY <1>4, <1>5, <4>1 DEF Alone
      <4> QED
        BY <1>3, <1>4, <4>1, <4>2, <4>3 DEF Alone, Ready
    <3> QED
      BY <1>4, <1>6, <3>1, <3>2 DEF AfterCommand, Final
  <2> QED
    BY <2>3, <2>4
<1> QED
  BY <1>9, <1>11, <1>12

\* A command is given.
LEMMA CalmCommanding ==
  ASSUME IInv, Order, Calm, NEW heard \in scene.commands, Command(heard)
  PROVE  Calm'
<1> USE DEF Calm
<1>0. turn \in Turn /\ Final(turn) \in Job /\ Final(turn)[1] = "final"
  BY OthersLaunch, TurnJobs
<1>1. PICK h \in [Job -> Transcript] : Launch({Final(turn)}, h) /\ h[Final(turn)] = heard
  BY OthersLaunch
<1>2. /\ UNCHANGED <<answer, sid>>
      /\ \A j \in Job \ {Final(turn)} : stage'[j] = stage[j] /\ target'[j] = target[j]
      /\ stage[Final(turn)] = "unborn"
      /\ sid = NoSession => stage'[Final(turn)] = "starting"
      /\ sid # NoSession => stage'[Final(turn)] = "posting"
      /\ \A p \in posts' \ posts :
           /\ p.job = Final(turn) /\ p.to = sid
           /\ sid # NoSession => p.step = "posting" /\ p.heard = heard
           /\ \A q \in posts' \ posts : sid # NoSession => q = p
  <2>0. Launches({Final(turn)}, h)
    BY <1>0, <1>1, Launched
  <2>1. /\ UNCHANGED <<answer, sid>>
        /\ \A j \in Job \ {Final(turn)} : stage'[j] = stage[j] /\ target'[j] = target[j]
        /\ stage[Final(turn)] = "unborn"
        /\ sid = NoSession => stage'[Final(turn)] = "starting"
        /\ sid # NoSession => stage'[Final(turn)] = Step(Final(turn), "posting")
        /\ \A p \in posts' \ posts :
             /\ p.job = Final(turn) /\ p.to = sid
             /\ sid # NoSession => p.step = "posting" /\ p.heard = heard
    BY <1>0, <1>1, <2>0 DEF Launches
  <2>2. Step(Final(turn), "posting") = "posting"
    BY <1>0, Stepping
  <2>3. sid # NoSession => \A p, q \in posts' \ posts : p = q
    BY <1>1 DEF Launch
  <2> QED
    BY <2>1, <2>2, <2>3
<1>3. UNCHANGED <<turn, speech, scene, session>>
  BY DEF Command, backend
<1>4. \A t \in Turn : calm'[t] =>
        /\ calm[t]
        /\ \A p \in posts : p.job # Final(t)
        /\ t = turn => /\ stage[Prepare(t)] = "ended"
                       /\ heard = "wakeSpeech" \/ (heard = "speech" /\ scene.phrase = "wake")
  BY DEF Command, Prepare, Final
<1>5. \A t \in Turn : t # turn => Final(t) # Final(turn)
  BY <1>0, TurnJobs
<1>6. Future'
  BY <1>0, <1>2, <1>3, <1>4, <1>5, TurnJobs DEF Future, Turn
<1>7. CalmBefore' /\ CalmTurnGetsItsReply'
  BY <1>0, <1>2, <1>3, <1>4 DEF CalmBefore, Final, CalmTurnGetsItsReply
<1>8. CalmAfter'
  <2>1. SUFFICES ASSUME NEW t \in Turn, calm'[t] PROVE AfterCommand(t)'
    BY DEF CalmAfter
  <2>2. CASE t = turn
    <3>1. BeforeCommand
      BY <1>0, <1>2, <1>4, <2>1, <2>2 DEF CalmBefore, Turn
    <3>2. sid # NoSession /\ stage'[Final(turn)] = "posting"
      BY <1>2, <1>4, <2>1, <2>2, <3>1 DEF BeforeCommand
    <3>3. \A j \in Job : stage'[j] # "starting"
      BY <1>2, <1>4, <2>1, <2>2, <3>1, <3>2 DEF BeforeCommand
    <3>4. heard = "wakeSpeech" \/ (heard = "speech" /\ Ready(sid))
      BY <1>4, <2>1, <2>2, <3>1 DEF BeforeCommand, Seeded
    <3>5. \A p \in posts' : p.job[1] = "final" => p \in posts' \ posts
      BY <3>1 DEF BeforeCommand
    <3>6. ASSUME NEW p \in posts', p.job = Final(t) PROVE Alone(p)'
      <4>1. p \in posts' \ posts
        BY <1>0, <2>2, <3>5, <3>6
      <4>2. \A q \in posts' : q.job[1] = "final" => q = p
        BY <1>2, <3>2, <3>5, <4>1
      <4>3. p.to = sid /\ p.step = "posting" /\ p.heard = heard
        BY <1>2, <3>2, <4>1
      <4> QED
        BY <1>2, <1>3, <3>2, <3>3, <3>4, <4>2, <4>3 DEF Alone, Ready
    <3>7. answer'[Final(t)].state # "ok"
      BY <1>0, <1>2, <2>2 DEF Order, Begun, Final
    <3> QED
      BY <2>2, <3>2, <3>6, <3>7 DEF AfterCommand, Final
  <2>3. CASE t # turn
    <3>1. AfterCommand(t) /\ Final(t) # Final(turn) /\ Final(t) \in Job
      BY <1>4, <1>5, <2>1, <2>3, TurnJobs DEF CalmAfter
    <3>2. \A p \in posts' : p.job # Final(t)
      BY <1>2, <1>4, <2>1, <3>1
    <3> QED
      BY <1>2, <3>1, <3>2 DEF AfterCommand, Final
  <2> QED
    BY <2>2, <2>3
<1> QED
  BY <1>6, <1>7, <1>8

\* Nor does a callback.
LEMMA CalmCallbacks ==
  ASSUME IInv, Order, Calm,
         \/ \E heard \in scene.woken : Listen(heard)
         \/ \E heard \in scene.partials : Partial(heard)
         \/ \E heard \in scene.commands : Command(heard)
         \/ LocalCommand \/ NoCommand \/ OverlayInterrupted \/ SpeechDone \/ SpeechFails
  PROVE  Calm'
<1>1. ASSUME NEW heard \in scene.partials, Partial(heard) PROVE Calm'
  <2>1. PICK h \in [Job -> Transcript] : Launch({<<"partial", turn>>}, h)
    BY <1>1, OthersLaunch
  <2>2. /\ {<<"partial", turn>>} \in SUBSET Job
        /\ \A j \in {<<"partial", turn>>} : j[1] \notin {"prepare", "final"}
    BY <1>1, OthersLaunch
  <2>3. /\ calm' = IF MayStartTwice THEN [calm EXCEPT ![turn] = FALSE] ELSE calm
        /\ speech' \in {speech, Silent} /\ UNCHANGED <<turn, scene, session>>
    BY <1>1 DEF Partial, device, backend
  <2> QED
    BY <2>1, <2>2, <2>3, CalmTelling
<1>2. CASE SpeechDone
  <2>1. PICK h \in [Job -> Transcript] : Launch({<<"finished", speech.turn>>}, h)
    BY <1>2, OthersLaunch
  <2>2. /\ {<<"finished", speech.turn>>} \in SUBSET Job
        /\ \A j \in {<<"finished", speech.turn>>} : j[1] \notin {"prepare", "final"}
    BY <1>2, OthersLaunch
  <2>3. /\ calm' = IF MayStartTwice THEN [calm EXCEPT ![turn] = FALSE] ELSE calm
        /\ speech' \in {speech, Silent} /\ UNCHANGED <<turn, scene, session>>
    BY <1>2 DEF SpeechDone, backend
  <2> QED
    BY <2>1, <2>2, <2>3, CalmTelling
<1>3. CASE LocalCommand \/ NoCommand \/ OverlayInterrupted \/ SpeechFails
  <2>1. UNCHANGED <<stage, target, answer, posts, sid, turn, scene, session, calm>>
    BY <1>3 DEF LocalCommand, NoCommand, OverlayInterrupted, SpeechFails, coroutines, backend
  <2>2. speech' = speech \/ speech' = Silent \/ speech' = [reply |-> turn, turn |-> turn]
    BY <1>3 DEF LocalCommand, NoCommand, OverlayInterrupted, SpeechFails
  <2>3. CalmTurnGetsItsReply'
    BY <2>1, <2>2, NothingSaid DEF CalmTurnGetsItsReply, Calm
  <2>4. Future' /\ CalmBefore' /\ CalmAfter'
    BY <2>1 DEF Calm, Future, CalmBefore, BeforeCommand, Seeded, Ready, CalmAfter, AfterCommand,
                Alone, Prepare, Final
  <2> QED
    BY <2>3, <2>4 DEF Calm
<1> QED
  BY <1>1, <1>2, <1>3, CalmListening, CalmCommanding

\* Every step keeps a calm turn calm, or marks it as overtaken.
LEMMA CalmStep ==
  ASSUME IInv, Order, Calm, Next
  PROVE  Calm'
<1>1. ASSUME NEW s \in Job, NEW outcome \in {"answered", "unspoken"}, Inject(s, outcome)
      PROVE  Calm'
  <2>1. UNCHANGED <<stage, turn, speech>> /\ (\A t \in Turn : ~calm'[t])
    BY <1>1 DEF Inject, coroutines, device
  <2>2. turn # 0 => turn \in Turn
    BY DEF IInv, TypeOK, DeviceTypes, Turn
  <2> QED
    BY <2>1, <2>2 DEF Calm, Future, CalmBefore, CalmAfter, CalmTurnGetsItsReply, Final
<1> QED
  BY <1>1, CalmBackend, CalmOnward, CalmCallbacks DEF Next

-----------------------------------------------------------------------------

\* The invariant of the surface and of the calm turns.
CInv == IInv /\ Releasing /\ Order /\ Calm

\* It holds in every reachable state: something will release the surface, the posts come in
\* their order, and nothing comes between a calm turn and the reply to its command.
THEOREM CalmInvariant == Spec => []CInv
<1>1. Init => Releasing /\ Order /\ Calm
  <2> SUFFICES ASSUME Init PROVE Releasing /\ Order /\ Calm
    OBVIOUS
  <2>1. Releasing
    BY DEF Init, Releasing
  <2>2. Order
    BY Jobs DEF Init, Order, Begun, Untaken, Seeding, Uses, Awaited
  <2>3. Calm
    BY TurnJobs, NothingSaid DEF Init, Calm, Future, CalmBefore, CalmAfter, CalmTurnGetsItsReply
  <2> QED
    BY <2>1, <2>2, <2>3
<1>2. ASSUME IInv, Releasing, Order, Calm, [Next]_vars PROVE (Releasing /\ Order /\ Calm)'
  <2>1. CASE UNCHANGED vars
    <3>1. /\ UNCHANGED <<stage, target, answer, posts, sid, listening, active, scene, trouble>>
          /\ UNCHANGED <<turn, speech, session, calm>>
      BY <2>1 DEF vars, coroutines, device, backend
    <3>2. Releasing'
      BY <1>2, <3>1 DEF Releasing
    <3>3. Order'
      BY <1>2, <3>1 DEF Order, Begun, Untaken, Seeding, Uses
    <3>4. Calm'
      BY <1>2, <3>1 DEF Calm, Future, CalmBefore, BeforeCommand, Seeded, Ready, CalmAfter,
                        AfterCommand, Alone, Prepare, Final, CalmTurnGetsItsReply
    <3> QED
      BY <3>2, <3>3, <3>4
  <2>2. CASE Next
    BY <1>2, <2>2, ReleasingStep, OrderStep, CalmStep
  <2> QED
    BY <1>2, <2>1, <2>2
<1> QED
  BY <1>1, <1>2, InductiveInvariant, PTL DEF Spec, CInv

\* When nothing is under way any more the voice surface is not shown as active: each way
\* submitFinalCommand, onFailure and onPlaybackFinished end reaches clearActiveVoiceSurface,
\* but for a speech error and an interrupted overlay.
THEOREM SurfacesAreReleased == Spec => []QuietSurfaceIsReleased
<1>1. CInv => QuietSurfaceIsReleased
  BY ReleasingAtLast DEF CInv
<1> QED
  BY <1>1, CalmInvariant, PTL

\* A turn whose posts nothing overtakes speaks the reply of ingest_event to its own command,
\* whatever the turns before it left behind.
THEOREM CalmTurnsGetTheirReply == Spec => []CalmTurnGetsItsReply
<1>1. CInv => CalmTurnGetsItsReply
  BY DEF CInv, Calm
<1> QED
  BY <1>1, CalmInvariant, PTL
=============================================================================
