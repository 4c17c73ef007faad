---------------------------- MODULE VoiceSession ----------------------------
(***************************************************************************)
(* A spoken command, end to end: the shell's recogniser, coroutines and     *)
(* speech output (MordecaiShellService or MordecaiAccessibilityService with *)
(* its VoiceSessionController and ShellBackendClient) and the backend's     *)
(* VoiceSessionService.ingest_event.                                        *)
(*                                                                         *)
(* Every callback of the shell launches a coroutine that posts over HTTP.   *)
(* The coroutines run side by side, each post on a connection of its own,   *)
(* so posts of different coroutines arrive in any order; a post whose       *)
(* client has given up after 12 s may still arrive.  The backend handles    *)
(* one post at a time: ingest_event does not await.                         *)
(*                                                                         *)
(* A turn is one call of listenForVoiceCommand.  Turns number the commands  *)
(* and the replies to them.                                                 *)
(***************************************************************************)
EXTENDS Integers, FiniteSets

CONSTANTS
  MaxTurns,    \* bound: calls of listenForVoiceCommand
  MaxTrouble,  \* bound: how many mishaps happen
  Scenes       \* the situations to explore: service, wake phrase, inputs, bounds

VARIABLES
  stage,       \* where each coroutine is
  said,        \* the transcript of a coroutine that has no session yet
  target,      \* the session its posts go to
  answer,      \* the answer that waits for it
  posts,       \* posts the backend has not handled
  sid,         \* VoiceSessionController.voiceSessionId
  turn,        \* turns begun
  listening,   \* the SpeechCommandProcessor is active
  active,      \* ShellState.activeVoiceSurface is this surface
  speech,      \* what the speech output is saying, and for which turn
  scene,       \* one of Scenes; never changes
  session,     \* the backend's records
  credit,      \* history: something opened the session since its last command
  earned,      \* history: every command so far was run on an opened session
  calm,        \* history: nothing overtook the turn's posts (see below)
  trouble      \* mishaps so far

coroutines == <<stage, said, target, answer, posts, sid>>
device == <<turn, listening, active, speech>>
backend == <<session, credit, earned>>
vars == <<coroutines, device, scene, backend, calm, trouble>>

Shell == "shell-service"
Overlay == "accessibility-overlay"
Turn == 1..MaxTurns
Reply == 0..(MaxTurns + 1)    \* 0: none; a turn: the answer to its command
Outsider == MaxTurns + 1      \* the answer to a command of another client

\* WakeWordDetector: nothing, words only, the wake word only, both.
Transcript == {"blank", "speech", "wake", "wakeSpeech"}
WithWake == {"wake", "wakeSpeech"}
Spoken == Transcript \ {"blank"}

\* The callbacks' coroutines: the transcript of WakePhraseManager, the three of
\* SpeechCommandProcessor's turn, and the end of the reply.
Job == {"wake", "prepare", "partial", "final", "finished"} \X Turn
NoSession == <<"none", 0>>
Stage == {"unborn", "starting", "posting", "seeding", "ended"}
Waiting == {"starting", "posting", "seeding"}

Answer == [state : {"awaited", "failed", "ok"}, reply : Reply]
Awaited == [state |-> "awaited", reply |-> 0]
Failed == [state |-> "failed", reply |-> 0]
Ok(r) == [state |-> "ok", reply |-> r]

\* A session is named by the coroutine whose post started it.
StartPost == [job : Job, step : {"starting"}, to : {NoSession}, heard : {"blank"}]
EventPost == [job : Job, step : {"posting", "seeding"}, to : Job, heard : Transcript]
Status == {"absent", "awaiting-wake-word", "listening-command", "thinking", "speaking",
           "interrupted", "error"}
Record == [status : Status, woken : BOOLEAN, reply : Reply]
Absent == [status |-> "absent", woken |-> FALSE, reply |-> 0]
Started == [status |-> "awaiting-wake-word", woken |-> FALSE, reply |-> 0]

Silent == [reply |-> 0, turn |-> 0]

ASSUME TurnsAssumption == MaxTurns \in Nat \ {0} /\ MaxTrouble \in Nat

\* What may go wrong: a post or its answer is lost or late, a plan raises, the
\* store raises, another client gives a command, speech fails, the system interrupts
\* the overlay.
Mishap == {"lost", "raised", "refused", "outsider", "mute", "interrupted"}
Happens(m) == m \in scene.mishaps /\ trouble < MaxTrouble /\ trouble' = trouble + 1

\* The service that owns the microphone, what the backend's detector makes of the
\* shell's wake phrase, what the recognisers may hear and what may go wrong.
Scene == [surface : {Shell, Overlay}, phrase : {"wake", "speech"},
          woken : SUBSET Transcript, partials : SUBSET Spoken, commands : SUBSET Spoken,
          turns : 1..MaxTurns, mishaps : SUBSET Mishap]
ASSUME ScenesAssumption == Scenes \subseteq Scene

Init ==
  /\ stage = [j \in Job |-> "unborn"]
  /\ said = [j \in Job |-> "blank"]
  /\ target = [j \in Job |-> NoSession]
  /\ answer = [j \in Job |-> Awaited]
  /\ posts = {}
  /\ sid = NoSession
  /\ turn = 0
  /\ listening = FALSE
  /\ active = FALSE
  /\ speech = Silent
  /\ scene \in Scenes
  /\ session = [s \in Job |-> Absent]
  /\ credit = [s \in Job |-> FALSE]
  /\ earned = TRUE
  /\ calm = [t \in Turn |-> FALSE]
  /\ trouble = 0

(***************************************************************************)
(* The backend.  The flags of an event, the body of the post, depend on the *)
(* coroutine and on how far it was.                                         *)
(***************************************************************************)
Event(p) ==
  [transcript |-> p.heard,
   final |-> p.job[1] = "final",
   interrupt |-> p.job[1] = "prepare" /\ p.step = "posting",
   playbackFinished |-> p.job[1] = "finished"]

\* The first two tests of ingest_event.
Settled(r, e) ==
  LET played == IF e.playbackFinished /\ r.status = "speaking"
                  THEN "awaiting-wake-word" ELSE r.status
  IN [r EXCEPT !.status = IF e.interrupt /\ played \in {"thinking", "speaking"}
                            THEN "interrupted" ELSE played]

\* The interruption is one: something was going on.
Interrupts(r, e) == r.status # "interrupted" /\ Settled(r, e).status = "interrupted"

\* A mutated form: any session that has heard its wake word takes a command.
AcceptsOnceWoken(r, e) ==
  e.final /\ (e.transcript = "wakeSpeech" \/ (e.transcript = "speech" /\ r.woken))

\* The event carries a command to run.
Accepts(r, e) ==
  /\ e.final
  /\ \/ e.transcript = "wakeSpeech"
     \/ /\ e.transcript = "speech"
        /\ r.status \in {"listening-command", "interrupted"}
        /\ r.woken

\* A mutated form: the wake word is heeded only where a session waits for it.
NotedIfAwaiting(r, e) ==
  IF e.transcript \in WithWake /\ r.status = "awaiting-wake-word"
    THEN [r EXCEPT !.status = "listening-command", !.woken = TRUE]
  ELSE IF e.final /\ e.transcript = "speech"
    THEN [r EXCEPT !.status = "awaiting-wake-word"]
  ELSE r

\* The record after an event that carries none.
Noted(r, e) ==
  IF e.transcript \in WithWake
    THEN [r EXCEPT !.status = "listening-command", !.woken = TRUE]
  ELSE IF e.final /\ e.transcript = "speech"
    THEN [r EXCEPT !.status = "awaiting-wake-word"]
  ELSE r

\* The record after a command: planner.run and the synthesis of its answer.
\* A plan with a step that does not complete raises (planner.py:115) after the
\* record was saved as thinking; so does a backend that is killed meanwhile.
Commanded(r, e, outcome, reply) ==
  [status |-> CASE outcome = "raised" -> "thinking"
                [] outcome = "unspoken" -> "error"
                [] OTHER -> "speaking",
   woken |-> r.woken \/ e.transcript \in WithWake,
   reply |-> IF outcome = "raised" THEN r.reply ELSE reply]

\* ingest_event on the record of s.
Ingest(s, e, outcome, reply) ==
  LET r == Settled(session[s], e)
      open == credit[s] \/ Interrupts(session[s], e) \/ e.transcript \in WithWake
  IN /\ session' = [session EXCEPT ![s] =
                      IF Accepts(r, e) THEN Commanded(r, e, outcome, reply) ELSE Noted(r, e)]
     /\ credit' = [credit EXCEPT ![s] = open /\ ~Accepts(r, e)]
     /\ earned' = (earned /\ (Accepts(r, e) => open))

\* The coroutine gets the answer, unless it has given up waiting for it.
Reach(p, a) ==
  answer' = IF stage[p.job] = p.step THEN [answer EXCEPT ![p.job] = a] ELSE answer

\* POST /api/voice/sessions.
ServeStart(p) ==
  /\ p.step = "starting"
  /\ posts' = posts \ {p}
  /\ session' = [session EXCEPT ![p.job] = Started]
  /\ Reach(p, Ok(0))
  /\ UNCHANGED <<stage, said, target, sid, credit, earned, device, scene, calm, trouble>>

\* POST /api/voice/sessions/{id}/events, answered with the session.
ServeEvent(p) ==
  /\ p.step # "starting"
  /\ posts' = posts \ {p}
  /\ Ingest(p.to, Event(p), "answered", p.job[2])
  /\ Reach(p, Ok(session'[p.to].reply))
  /\ UNCHANGED <<stage, said, target, sid, device, scene, calm, trouble>>

\* The same, answered with an error because the plan raised.
ServeFails(p) ==
  /\ Happens("raised")
  /\ p.step # "starting"
  /\ Accepts(Settled(session[p.to], Event(p)), Event(p))
  /\ posts' = posts \ {p}
  /\ Ingest(p.to, Event(p), "raised", p.job[2])
  /\ Reach(p, Failed)
  /\ UNCHANGED <<stage, said, target, sid, device, scene, calm>>

\* The store raises (StateStoreError): an error is the answer, and nothing has changed.
\* (A store that raises after the last save is, to the shell, a lost answer.)
ServeRefuses(p) ==
  /\ Happens("refused")
  /\ posts' = posts \ {p}
  /\ Reach(p, Failed)
  /\ UNCHANGED <<stage, said, target, sid, device, scene, backend, calm>>

\* Another client, the dashboard, puts a command into the shell's session and may
\* ask for the answer to be synthesised, which may fail.
Inject(s, outcome) ==
  /\ Happens("outsider")
  /\ session[s].status # "absent"
  /\ Ingest(s, [transcript |-> "wakeSpeech", final |-> TRUE, interrupt |-> FALSE,
                playbackFinished |-> FALSE], outcome, Outsider)
  /\ calm' = [t \in Turn |-> FALSE]
  /\ UNCHANGED <<coroutines, device, scene>>

(***************************************************************************)
(* The shell's coroutines.                                                  *)
(***************************************************************************)

\* postPartialTranscript makes nothing of the answer: it is over once it has posted.
Unanswered == {"wake", "partial"}
Step(j, step) == IF j[1] \in Unanswered THEN "ended" ELSE step

\* ensureVoiceSessionId, the head of every coroutine: it goes on with the cached
\* id, or asks the backend for a session first.
Launch(jobs, heard) ==
  /\ \A j \in jobs : stage[j] = "unborn"
  /\ IF sid = NoSession
       THEN /\ stage' = [j \in Job |-> IF j \in jobs THEN "starting" ELSE stage[j]]
            /\ said' = [j \in Job |-> IF j \in jobs THEN heard[j] ELSE said[j]]
            /\ posts' = posts \cup {[job |-> j, step |-> "starting", to |-> NoSession,
                                     heard |-> "blank"] : j \in jobs}
            /\ UNCHANGED target
       ELSE /\ stage' = [j \in Job |-> IF j \in jobs THEN Step(j, "posting") ELSE stage[j]]
            /\ target' = [j \in Job |-> IF j \in jobs /\ j[1] = "prepare" THEN sid ELSE target[j]]
            /\ posts' = posts \cup {[job |-> j, step |-> "posting", to |-> sid,
                                     heard |-> heard[j]] : j \in jobs}
            /\ UNCHANGED said
  /\ UNCHANGED <<answer, sid>>

\* Two coroutines that find no session may both start one.
MayStartTwice == sid = NoSession

\* The next post of j goes to session s.  Only prepareForCommand posts again and
\* has to keep the session.
GoOn(j, step, s, heard) ==
  /\ stage' = [stage EXCEPT ![j] = Step(j, step)]
  /\ said' = [said EXCEPT ![j] = "blank"]
  /\ target' = [target EXCEPT ![j] = IF j[1] = "prepare" THEN s ELSE NoSession]
  /\ answer' = [answer EXCEPT ![j] = Awaited]
  /\ posts' = posts \cup {[job |-> j, step |-> step, to |-> s, heard |-> heard]}

\* A mutated form: only a reply that was played releases the surface.
SettlePlayed(j, a) == active' = (active /\ j[1] # "finished")

\* What the last lines of the coroutines do with the surface: a reply that was
\* played and a command that failed release it.
Settle(j, a) ==
  active' = (active /\ j[1] # "finished" /\ (j[1] = "final" => a.state = "ok"))

\* submitFinalCommand's caller speaks lastResponse.  There always is one: a session
\* without a reply (0) has null, which optString reads as the text "null".  Speaking
\* flushes what is being said.
Speak(j, a) ==
  speech' = IF j[1] = "final" /\ a.state = "ok" THEN [reply |-> a.reply, turn |-> j[2]] ELSE speech

\* j comes back from its last post, or has no session to post to.
End(j, a) ==
  /\ stage' = [stage EXCEPT ![j] = "ended"]
  /\ said' = [said EXCEPT ![j] = "blank"]
  /\ target' = [target EXCEPT ![j] = NoSession]
  /\ answer' = [answer EXCEPT ![j] = Awaited]
  /\ Settle(j, a)
  /\ Speak(j, a)
  /\ calm' = IF j[1] = "prepare" /\ a.state # "ok" THEN [calm EXCEPT ![j[2]] = FALSE] ELSE calm
  /\ UNCHANGED <<posts, sid>>

\* A mutated form: a coroutine that has no session posts all the same.
AfterStartRegardless(j, a) ==
  /\ sid' = IF a.state = "ok" THEN j ELSE sid
  /\ GoOn(j, "posting", sid', said[j])
  /\ UNCHANGED <<active, speech, calm>>

\* The rest of ensureVoiceSessionId: the answer overwrites the cached id; without
\* one, an id another coroutine has cached meanwhile will do.
AfterStart(j, a) ==
  \/ /\ a.state = "ok"
     /\ sid' = j
     /\ GoOn(j, "posting", j, said[j])
     /\ UNCHANGED <<active, speech, calm>>
  \/ /\ a.state # "ok"
     /\ sid # NoSession
     /\ GoOn(j, "posting", sid, said[j])
     /\ UNCHANGED <<sid, active, speech, calm>>
  \/ /\ a.state # "ok"
     /\ sid = NoSession
     /\ End(j, a)

\* j goes on with answer a: prepareForCommand has a second post, whatever became
\* of the first.
Continue(j, a) ==
  \/ stage[j] = "starting" /\ AfterStart(j, a)
  \/ /\ stage[j] = "posting"
     /\ j[1] = "prepare"
     /\ GoOn(j, "seeding", target[j], scene.phrase)
     /\ UNCHANGED <<sid, active, speech, calm>>
  \/ /\ \/ stage[j] = "posting" /\ j[1] # "prepare"
        \/ stage[j] = "seeding"
     /\ End(j, a)

Resume(j) ==
  /\ answer[j].state # "awaited"
  /\ Continue(j, answer[j])
  /\ UNCHANGED <<turn, listening, scene, backend, trouble>>

\* readTimeout, or no connection: the post arrives later, or never.
TimeOut(j) ==
  /\ Happens("lost")
  /\ stage[j] \in Waiting
  /\ answer[j].state = "awaited"
  /\ Continue(j, Failed)
  /\ UNCHANGED <<turn, listening, scene, backend>>

\* A post its coroutine has given up, or does not wait for, may never arrive.
Lose(p) ==
  /\ IF p.step = "posting" /\ p.job[1] \in Unanswered
       THEN Happens("lost")
       ELSE stage[p.job] # p.step /\ UNCHANGED trouble
  /\ posts' = posts \ {p}
  /\ UNCHANGED <<stage, said, target, answer, sid, device, scene, backend, calm>>

(***************************************************************************)
(* The shell's callbacks.                                                   *)
(***************************************************************************)

\* A turn is calm when its posts cannot be overtaken: no command and no new
\* session is on its way as it begins, and its own preparation does not race.
BeginsCalmly(jobs) ==
  /\ \A p \in posts : p.job[1] # "final"
  /\ \A j \in Job : stage[j] # "starting"
  /\ sid # NoSession \/ Cardinality(jobs) = 1

\* listenForVoiceCommand, by button or by wake phrase (WakePhraseManager then posts
\* its transcript first, to the shell service's own session only).  Speech is cut
\* off; the recogniser may turn out to be unavailable.
Listen(heard) ==
  LET t == turn + 1
      heardBy == [j \in Job |-> IF j[1] = "wake" THEN heard ELSE "blank"]
      jobs == IF heard = "blank" THEN {<<"prepare", t>>}
              ELSE {<<"wake", t>>, <<"prepare", t>>}
  IN /\ t \in 1..scene.turns
     /\ heard # "blank" => scene.surface = Shell
     /\ turn' = t
     /\ Launch(jobs, heardBy)
     /\ speech' = Silent
     /\ listening' \in BOOLEAN
     /\ active' = listening'
     /\ calm' = [calm EXCEPT ![t] = BeginsCalmly(jobs)]
     /\ UNCHANGED <<scene, backend, trouble>>

\* onPartialResults of the command recogniser: postPartialTranscript.  Bound: one a turn.
Partial(heard) ==
  /\ listening
  /\ Launch({<<"partial", turn>>}, [j \in Job |-> heard])
  /\ calm' = IF MayStartTwice THEN [calm EXCEPT ![turn] = FALSE] ELSE calm
  /\ UNCHANGED <<device, scene, backend, trouble>>

\* onResults with a match: submitFinalCommand.
Command(heard) ==
  /\ listening
  /\ listening' = FALSE
  /\ Launch({<<"final", turn>>}, [j \in Job |-> heard])
  /\ calm' = [t \in Turn |->
       /\ calm[t]
       /\ \A p \in posts : p.job # <<"final", t>>
       /\ t = turn => /\ stage[<<"prepare", t>>] = "ended"
                      /\ heard = "wakeSpeech" \/ (heard = "speech" /\ scene.phrase = "wake")]
  /\ UNCHANGED <<turn, active, speech, scene, backend, trouble>>

\* onResults with a command the overlay can carry out by itself.
LocalCommand ==
  /\ scene.surface = Overlay
  /\ listening
  /\ listening' = FALSE
  /\ speech' = [reply |-> turn, turn |-> turn]
  /\ UNCHANGED <<coroutines, turn, active, scene, backend, calm, trouble>>

\* onFailure: nothing was heard, or the recogniser gave an error.
NoCommand ==
  /\ listening
  /\ listening' = FALSE
  /\ active' = FALSE
  /\ UNCHANGED <<coroutines, turn, speech, scene, backend, calm, trouble>>

\* The accessibility service's onInterrupt stops the recogniser and no more.
OverlayInterrupted ==
  /\ Happens("interrupted")
  /\ scene.surface = Overlay
  /\ listening
  /\ listening' = FALSE
  /\ UNCHANGED <<coroutines, turn, active, speech, scene, backend, calm>>

\* onDone: the coroutine of onPlaybackFinished.
SpeechDone ==
  /\ speech # Silent
  /\ Launch({<<"finished", speech.turn>>}, [j \in Job |-> "blank"])
  /\ speech' = Silent
  /\ calm' = IF MayStartTwice THEN [calm EXCEPT ![turn] = FALSE] ELSE calm
  /\ UNCHANGED <<turn, listening, active, scene, backend, trouble>>

\* onError, which does nothing, or an engine that never becomes ready.
SpeechFails ==
  /\ Happens("mute")
  /\ speech # Silent
  /\ speech' = Silent
  /\ UNCHANGED <<coroutines, turn, listening, active, scene, backend, calm>>

Serve(p) == ServeStart(p) \/ ServeEvent(p) \/ ServeFails(p) \/ ServeRefuses(p)

Next ==
  \/ \E p \in posts : Serve(p) \/ Lose(p)
  \/ \E s \in Job, outcome \in {"answered", "unspoken"} : Inject(s, outcome)
  \/ \E j \in Job : Resume(j) \/ TimeOut(j)
  \/ \E heard \in scene.woken : Listen(heard)
  \/ \E heard \in scene.partials : Partial(heard)
  \/ \E heard \in scene.commands : Command(heard)
  \/ LocalCommand \/ NoCommand \/ OverlayInterrupted \/ SpeechDone \/ SpeechFails

Spec == Init /\ [][Next]_vars

(***************************************************************************)
(* Properties.                                                              *)
(***************************************************************************)

CoroutineTypes ==
  /\ stage \in [Job -> Stage]
  /\ said \in [Job -> Transcript]
  /\ target \in [Job -> Job \cup {NoSession}]
  /\ answer \in [Job -> Answer]
  /\ posts \subseteq StartPost \cup EventPost
  /\ sid \in Job \cup {NoSession}

DeviceTypes ==
  /\ turn \in 0..MaxTurns
  /\ listening \in BOOLEAN
  /\ listening => turn # 0
  /\ active \in BOOLEAN
  /\ speech \in [reply : Reply, turn : Turn] \cup {Silent}
  /\ calm \in [Turn -> BOOLEAN]

BackendTypes ==
  /\ session \in [Job -> Record]
  /\ credit \in [Job -> BOOLEAN]
  /\ earned \in BOOLEAN

\* Types, and: an event is posted to some session, although starts fail, race and are
\* answered late (ensureVoiceSessionId returns null and its callers return).
TypeOK ==
  /\ CoroutineTypes
  /\ DeviceTypes
  /\ BackendTypes
  /\ scene \in Scenes
  /\ trouble \in 0..MaxTrouble

\* ingest_event runs a command only if a wake word or an effective interruption has
\* opened the session since the last command: one opening, one command, whatever
\* order, loss or failure the posts meet.
CommandsAreOpened == earned

Quiet ==
  /\ posts = {}
  /\ \A j \in Job : stage[j] \notin Waiting
  /\ speech = Silent
  /\ ~listening

\* A calm turn speaks the reply to its own command, whatever earlier turns left
\* behind: stuck sessions, lost answers, late posts, replies cut off.
CalmTurnGetsItsReply ==
  \A t \in Turn : speech.turn = t /\ calm[t] => speech.reply = t

\* When all is quiet the voice surface is not shown as active any more: every way a
\* turn can end, a lost post or a failed command too, reaches clearActiveVoiceSurface.
\* Only a speech error and an interrupted overlay, which call nothing, are excepted.
QuietSurfaceIsReleased ==
  Quiet /\ (trouble = 0 \/ scene.mishaps \cap {"mute", "interrupted"} = {}) => ~active
=============================================================================
