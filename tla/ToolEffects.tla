----------------------------- MODULE ToolEffects -----------------------------
(***************************************************************************)
(* ToolEffects: what the handlers of the home tools and of git.backup do to  *)
(* lights and to a repository, under the attempts of ToolRegistry.execute.   *)
(*                                                                         *)
(* The server answers one call after the other (its handlers block the       *)
(* loop).  An attempt runs in a thread of its own; one that times out is     *)
(* abandoned and goes on beside the next attempt and later calls.  The       *)
(* registry itself is in ToolExecution; here an attempt succeeds, fails and  *)
(* may be tried again ("error"), or fails for good ("final").                *)
(***************************************************************************)
EXTENDS Integers, Sequences, FiniteSets

CONSTANTS
  Backend,          \* the backends that are configured
  AllowedLights, AllowedScenes,  \* the allowlist of each
  Sets,             \* what a scene does to lights of its backend
  Call,             \* the calls that may be made
  RequireConfirmation,  \* home_automation_require_confirmation
  AllowPush,        \* allow_git_push
  MostRetries,      \* the most retries a request asks for
  MaxCalls, MaxEdits   \* bounds

VARIABLES
  calls,            \* the requests so far, with what became of them
  thread,           \* where each attempt is
  attempt,          \* the number of the latest attempt of the latest call
  light,            \* whether each light is on
  late,             \* threads whose write has failed and may yet arrive
  work, index, head, remote,   \* versions of the workspace, and what git has of it
  locked,           \* .git/index.lock exists
  before,           \* history: the lights when the latest call began
  writes            \* history: who has since written which light

lights == <<light, late, before, writes>>
repository == <<work, index, head, remote, locked>>
effectVars == <<calls, thread, attempt, lights, repository>>

\* A light or scene of a backend; what a caller may name: with a backend or without.
Light == {<<b, r>> : b \in Backend, r \in UNION {AllowedLights[x] : x \in Backend}}
NoPrefix == "none"

Thread == (1..MaxCalls) \X (1..MostRetries + 1)
Person == <<0, 0>>

ASSUME EffectsAssumption ==
  /\ AllowedLights \in [Backend -> SUBSET STRING] /\ AllowedScenes \in [Backend -> SUBSET STRING]
  /\ NoPrefix \notin Backend
  /\ \A b \in Backend : \A s \in AllowedScenes[b] :
       DOMAIN Sets[<<b, s>>] \subseteq Light /\ \A l \in DOMAIN Sets[<<b, s>>] : Sets[<<b, s>>][l] \in BOOLEAN
  /\ {RequireConfirmation, AllowPush} \subseteq BOOLEAN
  /\ {MostRetries, MaxCalls, MaxEdits} \subseteq Nat
  /\ Call \subseteq
       [tool : {"toggle", "scene", "backup"}, prefix : STRING, raw : STRING, push : BOOLEAN,
        api : BOOLEAN, retries : 0..MostRetries, refused : BOOLEAN]
  /\ \A r \in Call : r.api => r.tool = "backup" /\ r.retries = 0

Current == <<Len(calls), attempt>>
Waited == calls # <<>> /\ calls[Len(calls)].state = "running"
Of(t) == calls[t[1]]

EffectsInit ==
  /\ calls = <<>> /\ attempt = 0
  /\ thread = [t \in Thread |-> [at |-> "none", seen |-> FALSE]]
  /\ light \in [Light -> BOOLEAN]
  /\ late = {} /\ before = light /\ writes = {}
  /\ work = 0 /\ index = 0 /\ head = 0 /\ remote = 0 /\ locked = FALSE

(***************************************************************************)
(* Names: _resolve_entity_identifier, _resolve_scene_identifier.            *)
(***************************************************************************)
Allowed(r) == IF r.tool = "toggle" THEN AllowedLights ELSE AllowedScenes

\* The backends a name without one may mean.
Matches(r) == {b \in Backend : r.raw \in Allowed(r)[b]}

\* The backends a request names.
Named(r) ==
  IF r.prefix = NoPrefix THEN Matches(r)
  ELSE {b \in Backend : b = r.prefix /\ r.raw \in Allowed(r)[b]}

Resolves(r) == Cardinality(Named(r)) = 1
Target(r) == <<CHOOSE b \in Named(r) : TRUE, r.raw>>

(***************************************************************************)
(* The registry, as its handlers see it.                                    *)
(***************************************************************************)
First(r) == IF r.tool = "backup" THEN "add" ELSE "fetch"

\* A request comes; permissions, safe mode and arguments are checked, or allow_git_push.
Begin(r) ==
  /\ ~Waited /\ Len(calls) < MaxCalls
  /\ LET state == IF r.refused \/ (r.api /\ r.push /\ ~AllowPush) THEN "failed" ELSE "running" IN
     /\ calls' = Append(calls, [asked |-> r, state |-> state, work |-> work])
     /\ thread' = IF state = "failed" THEN thread
                  ELSE [thread EXCEPT ![<<Len(calls'), 1>>].at = First(r)]
  /\ attempt' = 1
  /\ before' = light /\ writes' = {}
  /\ UNCHANGED <<light, late, repository>>

\* The call is answered, or tried again; t is the thread that has ended, if one has.
Answer(result, others) ==
  LET n == Len(calls)
      again == result = "error" /\ attempt <= calls[n].asked.retries IN
  IF again
    THEN /\ attempt' = attempt + 1
         /\ thread' = [others EXCEPT ![<<n, attempt'>>].at = First(calls[n].asked)]
         /\ UNCHANGED calls
    ELSE /\ calls' = [calls EXCEPT ![n].state = IF result = "ok" THEN "completed" ELSE "failed"]
         /\ thread' = others
         /\ UNCHANGED attempt

\* A thread ends.  Only the current one of a call is listened to, and a success that
\* the recorder cannot store is an error to the registry.
End(t, result) ==
  LET others == [thread EXCEPT ![t] = [at |-> "none", seen |-> FALSE]] IN
  IF Waited /\ t = Current
    THEN \/ Answer(result, others)
         \/ result = "ok" /\ ~Of(t).asked.api /\ Answer("error", others)
    ELSE thread' = others /\ UNCHANGED <<calls, attempt>>

Continue(t, at, seen) ==
  /\ thread' = [thread EXCEPT ![t] = [at |-> at, seen |-> seen]]
  /\ UNCHANGED <<calls, attempt>>

\* future.result(timeout): the thread goes on.  The endpoint for backups has no limit.
GiveUp ==
  /\ Waited /\ ~Of(Current).asked.api
  /\ Answer("error", thread)
  /\ UNCHANGED <<lights, repository>>

(***************************************************************************)
(* home.toggle_light and home.activate_scene.                               *)
(***************************************************************************)
At(t, step) == thread[t].at = step

\* Refused before anything is sent: by the setting, or by the name.
Refuse(t) ==
  /\ At(t, "fetch") /\ ~(RequireConfirmation /\ Resolves(Of(t).asked))
  /\ End(t, "final")
  /\ UNCHANGED <<lights, repository>>

\* _fetch_entity_state, _fetch_scene_state
Fetch(t) ==
  /\ At(t, "fetch") /\ RequireConfirmation /\ Resolves(Of(t).asked)
  /\ Continue(t, "write", Of(t).asked.tool = "toggle" /\ light[Target(Of(t).asked)])
  /\ UNCHANGED <<lights, repository>>

\* Mutated form: the service that keeps the light as it was.
Kept(seen) == seen

\* turn_off if it was on, and else turn_on.
Toggled(seen) == ~seen

\* What the write of a thread makes of the lights.
Written(t, seen) ==
  LET r == Of(t).asked IN
  IF r.tool = "toggle" THEN [light EXCEPT ![Target(r)] = Toggled(seen)]
  ELSE [l \in Light |-> IF l \in DOMAIN Sets[Target(r)] THEN Sets[Target(r)][l] ELSE light[l]]

Touched(t) ==
  LET r == Of(t).asked IN
  {[who |-> t, light |-> l] :
     l \in IF r.tool = "toggle" THEN {Target(r)} ELSE DOMAIN Sets[Target(r)]}

\* The write is done, and so is a scene; or its response is lost.
Write(t) ==
  /\ At(t, "write")
  /\ light' = Written(t, thread[t].seen)
  /\ writes' = writes \cup Touched(t)
  /\ \/ IF Of(t).asked.tool = "toggle" THEN Continue(t, "look", thread[t].seen) ELSE End(t, "ok")
     \/ End(t, "error")
  /\ UNCHANGED <<late, before, repository>>

\* Mutated form: nobody looks whether the write got an answer.
LoseWriteUnnoticed(t) ==
  /\ At(t, "write")
  /\ End(t, "ok")
  /\ UNCHANGED <<lights, repository>>

\* The write is refused or lost; or it has timed out here and may yet arrive.
LoseWrite(t) ==
  /\ At(t, "write")
  /\ late' \in {late, late \cup {<<t, thread[t].seen>>}}
  /\ End(t, "error")
  /\ UNCHANGED <<light, before, writes, repository>>

Arrive(w) ==
  /\ late' = late \ {w}
  /\ light' = Written(w[1], w[2])
  /\ writes' = writes \cup Touched(w[1])
  /\ UNCHANGED <<calls, thread, attempt, before, repository>>

\* The second fetch of a toggle.
Look(t) ==
  /\ At(t, "look")
  /\ End(t, "ok")
  /\ UNCHANGED <<lights, repository>>

\* A fetch fails: as any exception does, or, with no data of the bridge, for good.
FailFetch(t) ==
  /\ At(t, "fetch") \/ At(t, "look")
  /\ RequireConfirmation /\ Resolves(Of(t).asked)
  /\ \/ End(t, "error")
     \/ Target(Of(t).asked)[1] = "philips-hue" /\ End(t, "final")
  /\ UNCHANGED <<lights, repository>>

\* Somebody switches a light (bound: once during a home call and after it).
Touch(l) ==
  /\ calls # <<>> /\ calls[Len(calls)].asked.tool # "backup" /\ \A w \in writes : w.who # Person
  /\ light' = [light EXCEPT ![l] = ~@]
  /\ writes' = writes \cup {[who |-> Person, light |-> l]}
  /\ UNCHANGED <<calls, thread, attempt, late, before, repository>>

(***************************************************************************)
(* git.backup: add, commit, push.                                           *)
(***************************************************************************)

\* Mutated form: an add goes on though somebody has the lock.
AddUnlocked(t) ==
  /\ At(t, "add")
  /\ locked' = TRUE /\ Continue(t, "adding", FALSE)
  /\ UNCHANGED <<lights, work, index, head, remote>>

\* git add . takes the lock of the index, or fails if somebody has it.
Add(t) ==
  /\ At(t, "add")
  /\ \/ ~locked /\ locked' = TRUE /\ Continue(t, "adding", FALSE)
     \/ locked /\ End(t, "error") /\ UNCHANGED locked
  /\ UNCHANGED <<lights, work, index, head, remote>>

\* ... and has read the workspace, or fails on a file of it.
Added(t) ==
  /\ At(t, "adding")
  /\ locked' = FALSE
  /\ \/ index' = work /\ Continue(t, "commit", FALSE)
     \/ End(t, "error") /\ UNCHANGED index
  /\ UNCHANGED <<lights, work, head, remote>>

\* git commit has something to commit; or finds nothing to commit, with a clean workspace
\* (otherwise it says "no changes added to commit", and fails).
CommitWorks == ~locked /\ (index # head \/ work = index)

Commit(t) ==
  /\ At(t, "commit")
  /\ \/ /\ CommitWorks
        /\ head' = index
        /\ IF Of(t).asked.push THEN Continue(t, "push", FALSE) ELSE End(t, "ok")
     \/ End(t, "error") /\ UNCHANGED head
  /\ UNCHANGED <<lights, work, index, remote, locked>>

\* Mutated form: the exit code of git push is not looked at.
PushUnchecked(t) ==
  /\ At(t, "push")
  /\ remote' \in {head, remote} /\ End(t, "ok")
  /\ UNCHANGED <<lights, work, index, head, locked>>

\* git push reaches the remote, or fails, or fails after it has.
Push(t) ==
  /\ At(t, "push")
  /\ \/ remote' = head /\ (End(t, "ok") \/ End(t, "error"))
     \/ End(t, "error") /\ UNCHANGED remote
  /\ UNCHANGED <<lights, work, index, head, locked>>

\* Somebody edits the workspace.
Edit ==
  /\ work < MaxEdits
  /\ work' = work + 1
  /\ UNCHANGED <<calls, thread, attempt, lights, index, head, remote, locked>>

\* The server is killed, its threads and their git with it: a lock may be left behind.
Kill ==
  /\ \E t \in Thread : ~At(t, "none")
  /\ calls' = [calls EXCEPT ![Len(calls)].state = IF @ = "running" THEN "killed" ELSE @]
  /\ thread' = [t \in Thread |-> [at |-> "none", seen |-> FALSE]]
  /\ locked' \in {locked, FALSE}
  /\ UNCHANGED <<attempt, lights, work, index, head, remote>>

EffectsNext ==
  \/ \E r \in Call : Begin(r)
  \/ GiveUp
  \/ \E t \in Thread :
       \/ Refuse(t) \/ Fetch(t) \/ FailFetch(t) \/ Write(t) \/ LoseWrite(t) \/ Look(t)
       \/ Add(t) \/ Added(t) \/ Commit(t) \/ Push(t)
  \/ \E w \in late : Arrive(w)
  \/ \E l \in Light : Touch(l)
  \/ Edit
  \/ Kill

EffectsSpec == EffectsInit /\ [][EffectsNext]_effectVars

(***************************************************************************)
(* Properties.                                                              *)
(***************************************************************************)

\* Types; the versions git has follow each other; only the running attempts hold the lock.
EffectsTypeOK ==
  /\ attempt \in 0..MostRetries + 1 /\ Len(calls) <= MaxCalls
  /\ \A n \in DOMAIN calls :
       /\ calls[n].asked \in Call /\ calls[n].work \in 0..work
       /\ calls[n].state \in {"running", "completed", "failed", "killed"}
  /\ thread \in [Thread -> [at : {"none", "fetch", "write", "look", "add", "adding", "commit", "push"},
                            seen : BOOLEAN]]
  /\ light \in [Light -> BOOLEAN] /\ before \in [Light -> BOOLEAN]
  /\ late \subseteq Thread \X BOOLEAN /\ writes \subseteq [who : Thread \cup {Person}, light : Light]
  /\ locked \in BOOLEAN
  /\ work \in 0..MaxEdits /\ index \in 0..work /\ head \in 0..index /\ remote \in 0..head
  /\ \A t, u \in Thread : At(t, "adding") => locked /\ (At(u, "adding") => t = u)

Completed(tool) == calls # <<>> /\ calls[Len(calls)].state = "completed" /\ Of(Current).asked.tool = tool
Writers(L) == {w.who : w \in {x \in writes : x.light \in L}}

\* The attempts of the latest call.
Own == {t \in Thread : t[1] = Len(calls)}

\* A toggle that is answered as completed has inverted the light, if nobody else has
\* written it meanwhile: neither a person, nor an abandoned thread of a call before, nor an
\* earlier attempt of its own (which may have been abandoned, or have lost its answer).
LoneTogglesInvert ==
  Completed("toggle") =>
    LET l == Target(Of(Current).asked) IN
    Writers({l}) \subseteq {Current} => light[l] = ~before[l]

\* A scene may be tried as often as it takes: when it is completed its lights are set, and
\* no abandoned attempt and no late write of its own unsets them.
ScenesHold ==
  Completed("scene") =>
    LET s == Target(Of(Current).asked) IN
    Writers(DOMAIN Sets[s]) \subseteq Own =>
      \A l \in DOMAIN Sets[s] : light[l] = Sets[s][l]

\* A completed backup holds the workspace as it was when it was asked for, and so does the
\* remote of one that was to push, whatever abandoned attempts have done to the index and
\* whichever attempt has made the commit.
BackupsHold ==
  \A n \in DOMAIN calls :
    calls[n].asked.tool = "backup" /\ calls[n].state = "completed" =>
      /\ head >= calls[n].work
      /\ calls[n].asked.push => remote >= calls[n].work
=============================================================================
