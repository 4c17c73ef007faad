# TLA+ models of Mordecai

Mordecai is a policy-bound assistant runtime (a FastAPI service in Python) with
an Android shell (Kotlin) in front of it. This directory holds TLA+ modules of
its core, the TLC configurations that check them on small instances, and proofs
of the properties that matter most, checked by TLAPS for every value of the
constants. `PROJECT.json` lists the runs, the theorems, the mutated forms each
property is tested against, the source lines every definition models, the
hazards of the code and the disagreements found.

To run: `tlc -workers 4 -config <X>.cfg <Module>.tla` for the runs below and
`tlapm <X>Proofs.tla` for the proofs.

## 1. Inventory

Paths are relative to the repository. "S" is `src/mordecai`, "K" is
`android-shell/src/main/java/ai/mordecai/shell`.

| component | state | operations | what is hard | what makes it correct |
|---|---|---|---|---|
| Tool execution, `mordecai_core/tool_registry.py` | locals of `execute`, worker threads, event history, recorded rows | `execute` (validate, attempt, time out, retry, record), `invoke`, `register` | a handler outlives its timeout and runs beside its retry; the recorder fails inside the `try`; cancellation is polled | nothing runs for a refused request; bounded and justified repetition; one truthful row; the caller comes back |
| Self-improvement, `S/self_improvement.py`, `self_mod/` | workspace files, `candidates/`, `backups/`, `candidates.json` | `create_candidate`, `apply_candidate`, `rollback_candidate` | several processes, no lock on files, crash between two files, stale backups, double apply, log truncation | only vetted content goes live; a backup precedes each overwrite; rollback gives back what the apply replaced |
| StateStore, `S/store.py` | 17 JSON files, one lock per instance | append, save, read, filters | read-modify-write between processes, the shared `.tmp` name, truncation at `max_log_entries`, start-up defaults written in place | no reader sees a torn file; a process's own appends are in order and the last N are kept |
| Policy engine, `S/policy.py` | settings, audit trail | `validate_*` | pure decisions; audits only once a store is attached | a decision is a function of its input, and is audited |
| Voice sessions, `S/voice_sessions.py` | one record per session | `start_session`, `ingest_event` | an exception between two saves; events out of order | a session always comes back to a state a user can leave |
| Planner, `S/planner.py` | plans, timelines | `build_plan`, `run` | a failing step; each step is a tool execution | a plan that ran is stored with what happened |
| Outbound HTTP, `S/proxy.py`, `net_proxy/` | request stamps, lock, proxy log | `gate_request`, `_request`, `download_file` | awaits between gate and answer, redirects, several event loops, shared temporary files | at most N requests a minute; every hop is gated; a file appears whole or not at all |
| Model installer, `S/local_models.py` | `models/` | `install` | approval gate, partial bundles, half-done extraction | nothing is installed without approval; what counts as installed is complete |
| Chat and routing, `S/agent.py`, `S/providers.py`, `mordecai_core/provider_contracts.py` | conversation log, decisions, health cache | `chat`, `generate`, `choose` | chats interleave at their awaits; fallback covers only the choice | each answer follows its question; a usable provider is chosen when there is one |
| Shell coordinator, `K/coordinator/`, `K/MordecaiShellService.kt` | `ShellState`, preferences, poll job | `refreshState`, `performStartup`, start and stop | phase read before the mutex, copies outside it, poll against stop | the state shown is one that was true; a runtime is started once |
| Shell voice surfaces, `K/voice/`, `K/accessibility/`, `K/Speech*.kt` | session id, recogniser, speech output | prepare, partial, final, playback finished | coroutines reorder posts, lost answers, double session | the session follows what the user does; nothing is spoken twice |
| Shell backend client, `K/backend/` | none | HTTP calls, Termux intents | time-outs | - |
| API and composition, `S/main.py`, `mordecai_core/runtime.py` | wiring | endpoints | handlers that do not await are atomic, others interleave | - |
| Event bus, `mordecai_core/events.py` | last 250 events | `publish`, `recent` | bound | - |
| Home automation, `S/home_automation.py` | none here; lights outside | `toggle_light`, `activate_scene` | read-then-write under retry, beside abandoned attempts | a completed toggle inverted the light, a completed scene holds |
| Git backup, `S/git_tools.py` | repository | `backup` | commit done, push failed; an abandoned `git add` holds the lock of the index | a completed backup holds what there was to back up |
| Android control, `S/android_control.py` | none | `perform`, `collect_diagnostic`, `get_mode_b_state` | several ways to the device with gates of their own; a command goes on after its time-out | nothing runs before every gate |
| Voice engines, `S/voice.py`, `src/voice` | `data_dir/voice` | `synthesize`, `transcribe` | engines are programs that may skip their work, and outlive the server; names shared by recordings | an answer is of its question |
| Perception, watchdog, avatar, dashboard, scripts | snapshots, catalogues, HTML | - | - | - |

How they interact. The shell posts to the API over HTTP. API handlers call the
services directly, on one event loop: a handler that does not await runs to its
end before the next one begins, and only chat, fetch, search and model installs
await. Tools run in worker threads made per attempt. Everything persists
through `StateStore`. The `self_mod` commands, `python -m mordecai.local_models`
and `net_proxy` are processes of their own, over the same directories.

## 2. Modules

| module | models |
|---|---|
| `ExecutionContract` | what a caller of `execute` may rely on: granted or refused once, handler begun only while a granted request is open, answered once |
| `ToolExecution` | `ToolRegistry.execute`, its worker threads, the recorder |
| `MCToolExecution` | TLC instance |
| `SelfImprovement` | `SelfImprovementManager` in several processes over one workspace and one store |
| `MCSelfImprovement` | TLC instance |
| `SelfImprovementProofs` | theorems about `SelfImprovement` |
| `VoiceSession` | a spoken command: the shell's callbacks and coroutines, the posts between them and the backend, `VoiceSessionService` |
| `MCVoiceSession` | TLC instance: the situations (scenes) to explore |
| `ModelInstall` | `LocalModelService.install` and `SafeHttpClient.download_file`: requests of the server and command lines over one models directory |
| `MCModelInstall` | TLC instance |
| `ModelInstallProofs` | theorems about `ModelInstall` |
| `StateStore` | `StateStore`: the files of one directory under several processes and their threads |
| `MCStateStore` | TLC instance |
| `StateStoreProofs` | theorems about `StateStore` |
| `Lists` | the list comprehension both stores filter their records with |
| `ListProofs` | what it returns, for lists of any length |
| `OutboundGate` | `SafeHttpClient`: the policy at every hop, the lock and the sliding minute, shared by several event loops |
| `MCOutboundGate` | TLC instance: the server with two tasks, the thread of a tool |
| `OutboundGateProofs` | theorems about `OutboundGate` |
| `Conversation` | `MordecaiRuntime.chat`, the log and the memories, the choice of a provider |
| `MCConversation` | TLC instance |
| `ToolEffects` | the handlers of the home tools and of `git.backup`, under the attempts of the registry |
| `MCToolEffects` | TLC instance |
| `ToolProofs` | theorems about `ToolExecution` and `ToolEffects` |
| `AgentPlans` | `PlannerService` and its records, and every way to a command of the device |
| `MCAgentPlans` | TLC instance |
| `AgentProofs` | theorems about `Conversation` and `AgentPlans` |
| `VoiceFiles` | `VoiceService.synthesize` and `transcribe`, the classes of `src/voice`, the files of their engines |
| `MCVoiceFiles` | TLC instance |
| `VoiceProofs` | theorems about `VoiceFiles` and `VoiceSession` |

How they fit together. `ToolExecution` implements `ExecutionContract`.
`ToolEffects` and `AgentPlans` take from it what a handler sees of the registry:
an attempt succeeds, fails and may be repeated, fails for good, or is abandoned
and goes on. `VoiceSession` takes from the planner that a plan may raise, which
`AgentPlans` shows; `SelfImprovement`, `VoiceSession`, `Conversation` and
`AgentPlans` save to the store that `StateStore` models file by file;
`ModelInstall` downloads through the client whose gate is `OutboundGate`. Three modules
name their specifications after themselves (`EffectsSpec`, `PlansSpec`, `FilesSpec`, and
so their variables and types), because their theorems share a module with another's.

### ToolExecution

One record of state per execution id. `phase` is where `execute` is: `new`,
`looping` (about to begin an attempt), `waiting` (in `future.result`),
`closing` (past the loop, about to publish the failure), `returned`, `raised`.
`worker[e][n]` is the thread of attempt n, which has a life of its own:
`queued`, `running`, `acted` (its side effect is done), then how it ended.

| action | code |
|---|---|
| `Start` | `tool.execution.started`, `_validate_request` (permissions, safe mode, arguments, in that order) |
| `BeginAttempt` | `attempts += 1`, `_check_cancellation`, `executor.submit` |
| `BeginHandler`, `Act`, `EndHandler` | the worker thread |
| `HandlerFailed` | the two `except` clauses of the loop |
| `TimeOut` | `FutureTimeoutError`: `future.cancel()` drops a handler that has not begun and leaves one that has |
| `Complete` | completed event, recorder, return |
| `CompleteUnrecorded` | the same with a recorder that raises: it is inside the `try`, so this is a failure of the attempt |
| `Close`, `CloseUnrecorded` | the failed or cancelled report, with a recorder that stores or raises |
| `Cancel` | whoever holds `RuntimeContext.cancellation` sets it (in the repository only tests do) |

`retryable` stands for a `ToolExecutionFailure` with that flag and for a
`TimeoutError` a handler raises itself, which Python 3.12 does not tell from
the future's own. A handler that raises `ToolCancelled` itself is not modelled:
none in the repository does. Arguments, outputs, durations and event payloads
are left out.

Start takes an execution when no other is in its loop: every caller is an
`async def` handler that does not await inside `execute`. The instance has one
execution, because executions share nothing but the event loop and the bound on
recorder failures; the proofs are for any set of them.

### SelfImprovement

`live` is the workspace, `backup[c]` the directory `backups/<c>`, `store` the
list in `candidates.json`, cut to `MaxLog`. A process (`pc`, `cand`, `pos`,
`kind`, `snap`) is the server, whose handlers are atomic with respect to each
other, or a `self_mod` command. The content of a file is the candidate that
wrote it, the original, an edit, or `Torn` (`write_text` truncates first).

| action | code |
|---|---|
| `BeginCreate` | `create_candidate` up to its save: policy verdicts, sandbox copy, tests. Nothing else sees the sandbox before the save, so this is one step |
| `LoadStore`, `SaveStore` | `save_candidate`: load, replace, truncate, write and rename. Another process may save between the two |
| `AutoApply`, `AutoApplyUnknown` | the `auto_apply` branch, with the candidate found in the store or not |
| `BeginApply`, `Backup`, `Install` | `apply_candidate`: its checks, then two steps per file |
| `BeginRollback`, `Restore` | `rollback_candidate`: its checks, then a step per file |
| `Crash` | a process is killed, or fails with an `OSError` or a `StateStoreError`: it stops where it is, and the file it was writing may be torn |
| `Edit` | somebody changes or deletes a file of the workspace |

`backups.json` and `events.json` are written by these operations and read by
none of them; they are left out. A sandbox is taken to hold what the candidate
proposed, and a verdict as final (the code has no second look at either). Two
processes that write `candidates.tmp` at once are left to `StateStore`.

History variables say what the properties compare with: `pre` (the files as the
last apply found them), `reached` (those it has backed up), `undone` (a
rollback has run to its end since) and `clean` (nobody else has written to the
candidate's files since, no path is listed twice, and no backup is left of a
file that no longer exists).

### VoiceSession

The shell has no state machine of its own: every callback launches a coroutine
that posts to the backend, and the order in which posts arrive decides what the
session becomes. A coroutine is named by its kind and its turn: `wake` (the
transcript of the wake phrase), `prepare`, `partial`, `final`, `finished`.
`stage` is the post it waits for (`starting` a session, `posting`, and for
`prepareForCommand` its second post, `seeding`), `posts` what the backend has
not handled, `answer` what has come back. A post carries the session it goes to;
sessions are named by the coroutine whose post started them, because two may.

| action | code |
|---|---|
| `Listen` | `listenForVoiceCommand`, with `onWakeTranscript` before it when the wake phrase began the turn: stop the speech, set the surface, launch `prepareForCommand`; the recogniser may be unavailable |
| `Partial`, `Command`, `NoCommand` | `SpeechCommandProcessor`'s callbacks |
| `LocalCommand`, `OverlayInterrupted` | the accessibility service's own command and `onInterrupt` |
| `SpeechDone`, `SpeechFails` | `onDone` and `onError` of the speech engine |
| `Resume` | a coroutine goes on with its answer: `AfterStart` is the rest of `ensureVoiceSessionId`, `GoOn` the next post, `End` its last lines (`Speak`, `Settle`) |
| `TimeOut` | the same with the failure the client makes of a time-out; the post is still on its way |
| `Lose` | a post nobody waits for never arrives |
| `ServeStart`, `ServeEvent` | `start_session`, `ingest_event` |
| `ServeFails`, `ServeRefuses` | the plan raises after the record was saved as thinking; the store raises before anything was saved |
| `Inject` | another client of the API puts a command into the shell's session |

`Ingest` is `ingest_event` on one record: `Settled` its first two tests,
`Accepts` whether the event carries a command to run, `Noted` and `Commanded`
the record it returns with. A transcript is what the backend's detector tells
apart (nothing, words, the wake word, both), and a reply is the number of the
turn whose command it answers. A handler of the API does not await here, so an
event is one step. Abstractions: a coroutine runs up to its first post when it is
launched; a partial transcript is over once posted (nothing reads its answer);
a turn has one partial transcript at most; one surface is in use, as
`requestVoiceCommand` gives the microphone to the overlay whenever it runs. Left
out: the loss of a session when the store holds more than `max_log_entries` (500), the text queued before the speech engine is ready, and the avatar the overlay
fetches.

A session without a reply has `last_response` null, which `optString` of the shell's
JSON library reads as the text "null": a completed event always has something to
speak (`Speak`), and the surface is released when it was spoken. Reply 0 is that text.

History variables: `credit` (something has opened the session since its last
command: a wake word, or an interruption that found it at work), `earned` (every
command so far had such credit) and `calm` (nothing overtakes the posts of the
turn: no earlier command or second session is on its way when it begins, its
preparation has ended when its command is heard, and the command can be taken).

Liveness is stated as invariants of quiet states, in which no post, coroutine,
speech or recogniser is under way: nothing would then happen unless the user
begins a turn, so what a quiet state is left with stays. This needs no fairness.

### ModelInstall

An installer (`pc`, `req`, `pos`, `wrote`) is a request of the server or a run of
`python -m mordecai.local_models`. `temp[a]` is the file `<name>.download`,
`dest[a]` the installed file, `dir[a]` the directory of an archive; each is the
set of chunks or parts it holds, or `Missing`. A file stays open while others
unlink or rename it, so `at[i]` says where the file that i writes to is by now:
still the temporary file, the installed one, or gone from every directory.

| action | code |
|---|---|
| `Begin` | the head of `install`: the assets, without duplicates, and the approval |
| `Skip`, `ExtractSkipped` | an asset that exists, without `overwrite`; an archive without a directory is extracted |
| `Download` | `download_file` up to its first await: the temporary file is unlinked |
| `Open`, `Write` | the response is there; a chunk is |
| `Break` | a failed body, the size limit, another digest: the temporary file is unlinked |
| `Place`, `PlaceFails` | `temp_path.replace(destination)`, with the temporary file there or not |
| `Unpack`, `Extract` | `_extract_tar_bz2` of a new archive: an empty directory, then its files, the manifest last |
| `Fail` | a request that is refused, redirected too often or fails; a store that raises after the rename; an archive that cannot be extracted |
| `Finish` | `install` returns |
| `Kill` | the server, with all its requests, or a command line is killed |

`HasLoop` is the event loop: a request of the server goes on from where it is
only while every other one is in an await, that is while it fetches or waits for
a chunk. A command line is a process and obeys nobody. Bodies of one URL are taken
to be equal and complete in `Chunks` chunks; no asset of `default_assets` has a
digest, so `Break` stands for every failure that unlinks. Removing and making the
directory is one step, and so is the manifest with the note written after it. A
file of an archive that is torn by a kill is taken as not there.

History variables: `approved` (assets asked for with an acknowledgement),
`shared` (assets two installers have downloaded at once) and `alone` (nobody
else has worked on an asset of the request since it began).

### StateStore

Every process has a `StateStore`, hence a lock, of its own; `Of` gives the
process of a thread. `stage[p]` is where the constructor is in its loop over the
files; `pc`, `job`, `value` are what a thread is doing, to which file, with which
list. A path holds a whole list, nothing, an empty text (`write_text` opens before
it writes), or one text over the end of another, which `json.loads` refuses.
Both the live files and the temporary ones are shared, and `at[t]` follows the file
a thread has open when others rename it.

| action | code |
|---|---|
| `Start`, `CheckDefault`, `OpenDefault`, `WriteDefault` | the constructor: one file after the other, `exists`, then `write_text` in place |
| `Load` | the head of every `append_*` and `save_*`: the lock, `_load`, the new record after the others (in place of the one with its key); a file that cannot be read raises and changes nothing |
| `OpenTemp`, `WriteTemp`, `Replace` | `_save` |
| `SaveFails` | `StateStoreError`, at any step of `_save` |
| `Kill` | a process ends or is killed |

The lock is not a variable: a thread has it from `Load` on, until its save ends.
Records are a key and a number; the 17 files differ only in whether records are
replaced by key. The temporary name is one per file (`with_suffix`). Readers hold
the same lock and change nothing; they are left out. `SelfImprovement` and
`VoiceSession` use stores of their own, of one file, at the grain of load and save.
That a command line creates the store it is given before anything else is the
order in its `_manager()`.

History variables: `expected[f]` is what the acknowledged saves make of a file one
after the other, `ready` the files whose default has been written, `overlapped`
those two processes have worked on at once, `clashed` those they have had open at
once.

### OutboundGate

One client serves the loop of the server and the loops that `asyncio.run` makes in
the threads of tools. They share `times` (the deque of stamps) and one
`asyncio.Lock`, whose parts are variables: `locked`, `waiters`, `woken` (the
future of the first waiter is done), `contended` (the queue has been made) and
`boundTo` (its loop). A task runs until it awaits (`HasLoop`), a thread may stop
anywhere. The clock the code reads is real time and an `offset` the device may set.

| action | code |
|---|---|
| `Begin`, `Refuse` | a request, with `validate_outbound_request`, which `Follow` repeats for every hop |
| `Acquire`, `TestLock`, `TakeLock`, `Wait`, `Resume` | `asyncio.Lock.acquire` as it is when nobody, this loop or another loop has met it |
| `Count`, `Admit`, `Leave`, `LeaveUnlocked` | `gate_request` in the lock: the time, the deque pruned and counted, the stamp, `release` |
| `Follow`, `Finish` | a redirect; the response, or an error |
| `Tick`, `SetClock` | time, and the device's clock |

A URL is a member of the classes the policy tells apart. The rows of the proxy log
are left out. History: `admitted` is the real time of every stamp, `clockSet` how the
clock was set. What the lock of one loop does between several was taken from
`asyncio.locks` (marked external): a test of an empty queue and the assignment
after it can be divided by another thread only once somebody has waited.

### Conversation

Chats are tasks of the server's loop. `log` and `memories` are the store's, `pc` and
`turn` say which task awaits the answer to which question. Lengths are numbers;
whether an entry holds personal data is a Boolean.

| action | code |
|---|---|
| `AnswerAtOnce` | `chat` that awaits nothing that suspends: `override:`, and the rule-based provider |
| `FailAtOnce` | an exception before anything has gone out: no `base_url` to post to, or the policy refuses what would be posted |
| `GoOut`, `Return`, `Fail` | `chat` up to its await, and from there |
| `Remember`, `Restart` | `POST /api/memory/records`; the server is killed and started again |

`Ask` is what they have in common: the question is logged before anything else, and
may make a memory. `Hits` leaves the ranking of memories open: any `Recall` of those
with a word in common. A refusal while a page is fetched is one of the failures of
`Fail`. What an answer says is its length and whether it repeats personal data.

### ToolEffects

`calls` are the requests the server has answered or is working on, one after the
other; `thread[<<n, k>>]` is attempt k of call n, which goes on when it has been
abandoned. `light` is outside, `late` the writes that were given up and may yet
arrive. Of a repository the versions are kept: of the workspace (`work`), the
index, the last commit and the remote, with the lock of the index.

| action | code |
|---|---|
| `Begin`, `GiveUp`, and `End` with `Answer` in the others | the registry, or `POST /api/git/backup`, which has one attempt and no limit |
| `Refuse`, `Fetch`, `FailFetch`, `Write`, `LoseWrite`, `Look` | `toggle_light`, `activate_scene`, request by request |
| `Arrive`, `Touch` | a late write, a person at the switch |
| `Add`, `Added`, `Commit`, `Push` | `backup` |
| `Edit`, `Kill` | the workspace changes; the server and its threads are killed |

The lights and scenes listed by the backends are queries and left out. History: `before`
is the lights as the call found them, `writes` who has written which since.

### AgentPlans

The server is blocked while a plan runs, so `plan` is the one plan under way, `next`
its position. `timelines` and `plans` are the stored records, both cut to the last
`MaxLogEntries` by every save (`Cut`; 0 keeps all, as in the code). A plan that ran has a
record in `timelines` for each of its steps and one in `plans`, so the timeline is cut
first: after some 250 plans of two steps with the code's 500 entries, stored plans
outlive the records of their steps, and after 500 the oldest plans are gone.
`abandoned` are the plans whose device command has timed out and is still on its way.

| action | code |
|---|---|
| `Request` | `build_plan`: the candidates in the code's order, cut to `max_steps`; stored at once unless it is to be run |
| `Skip`, `StepCompletes`, `StepFails`, `StepTimesOut`, `Finish` | the loop of `run` and what follows it |
| `Land` | an abandoned command is done after all, or comes to nothing |
| `Ingest` | `POST /api/android/perception` |
| `Act`, `Diagnose`, `ReadModeB` | the endpoints that send commands themselves |
| `CallControl`, `CallDump`, `RunShell` | `POST /api/tools/execute` of `android.control`, `android.accessibility_dump` and `shell.run` |
| `Kill` | the server is killed |

`StepFails` and `StepTimesOut` leave `run` altogether (`Raise`): see section 5.
`TakesItsArguments` is a mismatch of the code as it is: the manifest of
`filesystem.read` declares `path`, its handler takes `relative_path`, so the step
always fails. The same holds of `filesystem.write`, which no plan uses. Texts of
actions are well-formed, malformed or on the list of blocked commands.

`command` is the latest command the device was sent, with the tool that sent it and what
its caller had been granted. `shell.run` runs any program, `adb` with any arguments among
them. It is there unless the mode is `mode-a` (`shell`), asks for the permission `shell`, is
denied in safe mode, and looks at the text of the command alone: Android control, the
allowlist, mode B and the ban of direct input do not stand before it. Left out is what a
program that `shell.run`, or a candidate's test, has started does by itself.

### VoiceFiles

An engine is a program. A call (`calls`) says which file its engine is to write
(`out`) and which its caller will read (`back`): they differ where whisper.cpp's
caller drops what follows the last dot of the recording's name. `files` holds, for each
file, which recording or text it came from. `orphans` are engines whose caller was
killed. `disturbed` says that an engine of another call wrote the file a call will read.

All files are in one directory. A reply without a name gets one from `uuid4`, which nobody
has yet (`Fresh`); once drawn it is a name like any other, which `output_filename` or a
path given to `PiperSpeaker` may be (`Given`), and `PiperSpeaker` may be given the path of a
transcript (`Paths`). So nothing keeps a reply what it was once its call is over, and
no property says it.

| action | code |
|---|---|
| `Whisper`, `WhisperCpp`, `Sherpa` | `transcribe` up to `subprocess.run`, by provider; whisper.cpp's transcript is removed first |
| `Synthesize`, `SynthesizeFresh` | `synthesize` with and without a name |
| `Transcribe`, `SpeakTo` | `WhisperTranscriber`, `PiperSpeaker` of `src/voice`, used by programs of their own |
| `EngineEnds`, `OrphanEnds` | the engine has written, or has skipped what it cannot read and exits with 0; sherpa-onnx may then have printed a line all the same, which is taken for the text (`Line`) |
| `AnswerCall`, `Raise` | the file is there and is the answer, or an exception |
| `MakeRecording`, `Kill` | a recording is made at a path; a caller is killed |

Calls that are refused before an engine begins change nothing and are left out, and
so are the validation of texts, what an engine writes before it is done, and a reply
spoken over a recording (`MakeRecording` replaces recordings). Which
engines are installed does not change in a behaviour. Engines have no time-out in the
code: one that hangs stops the server's loop, here as a call that never ends.

## 3. Runs

| run | configuration | shows |
|---|---|---|
| `tool_execution` | 1 execution, 0 to 3 retries (the API's own cap), 2 recorder failures | types, who may outlive the call, why it repeats, that the audit row is true, that the caller is answered, and refinement of `ExecutionContract` |
| `selfmod_restart` | 1 process, 2 candidates sharing a file, 4 applies or rollbacks, 1 crash, 1 edit | backups precede overwrites, rollback restores |
| `selfmod_processes` | 2 processes, log of 1 entry, 2 applies or rollbacks, 1 crash | vetted content only, type and log bound under lost updates and eviction |
| `voice_session` | 2 turns, 1 mishap, seven scenes | commands are opened, a calm turn speaks its own reply, a quiet surface is released |
| `model_install` | 2 requests and 1 command line, 2 assets of 2 chunks, an archive of 2 files, 3 installs | gated assets need approval, what is installed is whole unless downloads overlapped, a request that is alone finishes its assets |
| `state_store` | server with 2 threads and a command line, a log and a keyed file of 2 entries, 3 saves, 2 starts | alone, a file is what its acknowledged saves make of it; overlaps lose records, only clashes make it unreadable |
| `outbound_gate` | 2 tasks of the server and 1 of a tool, limit 1, 2 hops, 3 requests, 2 ticks, the clock set by 1 | no refused hop goes out, a minute holds the limit while no two threads have met, refusals are due, a waiting task of the server gets the lock |
| `conversation` | 2 chats, 5 messages, 4 questions, a log of 3 and a window of 2 entries, three configurations | answers stand by their questions, a conversation does not get stuck |
| `tool_effects` | 2 calls of one kind, 1 retry, 2 backends with a light of the same name, 2 edits | completed toggles, scenes and backups have done what they say |
| `agent_plans` | 3 plans of up to 2 steps, two goals, six actions, two sets of permissions, logs of 2 entries | every plan is accounted for, stored plans agree with the timeline as far as it goes back, the device follows the plans, which gates stand before a command on each way to the device |
| `voice_files` | 2 recordings whose names differ after a dot, one made twice, 1 reply without a name and 1 name that is given, 2 texts, 2 paths, 1 kill, three sets of engines | an answer is of its question |
| `plans_lost` | 2 plans of up to 2 steps, seven goals, without kills | violation: a plan whose step fails is not stored |

Bounds. `MaxRetries` is the program's bound. Two recorder failures allow one in
an attempt and one in the report, and two attempts lost in a row. Two
candidates of two and one files give every overlap of an apply with a rollback;
four operations allow apply, apply of the other, and both rollbacks in either
order; a log of one entry makes every second save evict. Recorder failures,
edits, crashes and operations are the only counters, and each is named by a
constant.

Two turns give every overlap of one turn's posts with those of the next, and a
session left behind by the first with what the second makes of it. The scenes of
`MCVoiceSession` divide the inputs: one turn with everything the recognisers may
hear and no mishap; one turn with one mishap of any kind, on either surface; two
overlapping turns on either surface; two turns with a lost post or a failing
plan; and a wake phrase of the shell that is none of the backend's. One mishap
at a time tells which of them each property withstands.

Three installs give two requests of the server that overlap with a command line,
and an install after what two others left. Two chunks are the least with which a
file can be half there, or be written by two handles; two parts are a file of the
archive and the manifest. The four requests name one asset or both, with and
without `overwrite`, and the archive with and without its approval.

Three saves fill a log of two entries and cut it; with three threads in two
processes they give a save behind the lock, one beside it, and one after both. Two
starts are both processes at once, or one killed and started again. Two keys are
the least with which one record is replaced and another kept.

Limit 1 with three requests fills the minute, and two ticks leave it; one task of the
server finds the lock taken by the other, or by the tool's loop. Two questions overlap
at their awaits and a third and fourth push them out of the log and the window; the
sizes in `MCConversation` are such that one long message takes a window beyond the
rules' context. Two calls of a kind are a call beside one it has left behind; pairs of
different kinds share no state, so `Alike` leaves them out, and edits beside home
calls. Three plans of two steps are one more than a log of two entries holds: the
timeline is cut in the middle of a plan and between two, and a plan falls out of the
store. The commands have no memory: two goals, one with a way to each outcome of the
app in front, a caller without the device's permissions and one with little else, and
an action for each gate meet every gate; the theorem has the goals left out. In `voice_files` piper is beside whisper.cpp, whose transcript it may be
told to write, whisper beside whisper.cpp and beside sherpa-onnx; piper beside the two
others meets no case but these, and the theorem has every set of engines.

Symmetry is used for the two processes of `SelfImprovement`, the two requests
of the server in `ModelInstall`, the keys of `StateStore`, the chats of `Conversation`
and the texts of `VoiceFiles`, whose names nothing tells apart. It is sound there: the runs check invariants only.

Deadlock is not checked: every instance stops when its executions are answered
or its operations used up.

Fairness. `FairSpec` has weak fairness of the caller's own step: its thread is
scheduled, and `future.result` comes back by its timeout, which the API bounds
to (0, 60] seconds. Handlers get none: they may hang for ever, and the caller is
answered all the same. `SelfImprovement` has no liveness property; its
operations are loops over a fixed list. `ModelInstall` has none: a download has
no bound on its time. `StateStore` has none: a save ends or its process does, and nothing
waits for it but the lock of that process. `OutboundGate` has: a thread that is inside
the lock goes on (weak), a loop gets to a task that asks for the lock again and again
(strong, as its tasks give way to each other only at awaits), and the server's loop,
which other work wakes, notices a future another thread has set. A loop of a tool's
thread may sleep on: its tasks get no such fairness, and `ServerGetsThrough` does not
speak of them. Targets, clocks and requests get none. The other modules state no
liveness: `StallsPass` says as an invariant that the next question passes.

Every property of a passing run is also tested against a mutated form of a
definition (the operators called "A mutated form" in the modules), which TLC
must find it to reject.

## 4. Proofs

Every invariant and every safety action property that a run checks is also a theorem,
for every value of the constants; `PROJECT.json` lists them.

`ToolProofs` proves of `ToolExecution`, for any set of executions, retry cap, set of
requests and number of recorder failures:

- `InductiveInvariant`: `Spec => []IInv`. The properties are not inductive
  alone. `LoopState` adds what each phase knows (past validation the request
  was granted; a waiting call waits for a thread that is not abandoned),
  `ThreadHistory` what the threads know (attempts beyond the last are idle, past
  ones have a reason to be repeated, a thread that acted is recorded as such),
  `UnansweredState` that nothing was announced before the end.
- `TypeCorrect`, `OnlyTimeoutsLeaveHandlers`, `RetriesAreBounded`,
  `AuditIsTruthful` follow from it; `CancellationStopsTheLoop` is an action
  property proved per action.
- `ImplementationOfContract`: each action is a step of `ExecutionContract` under
  `lifeBar`, `ranBar`, or leaves them unchanged. `Start` admits, `BeginHandler`
  runs, `Complete`, `Close` and `CloseUnrecorded` reply.

and of `ToolEffects`, for any lights, scenes, backends and bounds:

- `EffectsInvariant`: `Placing` says of every thread, abandoned or not, where it may be.
  `Placed`: a thread that runs has begun, is in a handler of what its call asked for, and
  is either the one waited for or past (a later attempt or call has begun, or its call
  has failed or been killed); `LateInPlace`, `WritersStarted`: late writes belong to past
  attempts, and writers have begun. `Versions`: of a repository nothing is ahead of what
  it is made from; `Locks`: one attempt at most is adding, and then the lock exists.
  `EffectsTypeCorrect` follows.
- `TogglesInvert`, from `TogglesGoOn` and `Untouched`: what the attempt has read was read
  after the call began, so unless somebody else wrote the light meanwhile it is what the
  light was, and what is put is its opposite.
- `ScenesStay`, from `ScenesGoOn`: once an attempt has set the lights, every later writer
  in the same call sets them to the same. Repeating a scene is harmless, which is why its
  property allows all attempts of the call where that of a toggle allows one.
- `BackupsStay`, from `CommitsGoOn`: an attempt that commits finds its version in the
  index, one that pushes finds it in the last commit, because versions never go back.
- `LatestGoesOn` is what the three rest on: only the attempt that is waited for
  completes a call, and the next attempt starts at the beginning.

`SelfImprovementProofs` proves, for any candidates, files, change lists,
processes and bounds:

- `VettedInvariant` and `OnlyVettedContentGoesLive`. The strengthening is
  `VettedWork`: a process in the copying loop works for a candidate that passed.
- `RollbackInvariant`: `RInv`, for every candidate whose history is clean, says
  where each loop is. `ApplyAt`: files from the position on are as the apply
  found them. `RollbackAt`: files before the position are restored. `CleanAt`
  adds that one process at most works on the candidate and that backups of
  reached files hold what was there. The lemma `Frame` covers every step that is
  not of the candidate's own loops; `Opening`, `OpeningRollback`, `BackingUp`,
  `Installing`, `Restoring`, `Crashing`, `Editing` and `Bookkeeping` the others.
- `RollbackIsFaithful` and `BackupsComeFirst` follow.
- `TypeCorrect`: `LogsInvariant` (the file, and what each process has read of it, are lists
  of records; `ReplacedIsList` and `KeptIsLog` are the two halves of `save_candidate`) and
  `BudgetInvariant`, with the types of `VettedInvariant`.

`VoiceProofs` proves of `VoiceSession`, for any number of turns and mishaps and any set of
scenes:

- `InductiveInvariant`: `IInv` is `TypeOK`, `earned` and two facts. `Prepared`:
  a preparation that is going on has a session, so its second post has one.
  `Opened`: a session that listens for a command or was interrupted has credit,
  which is what `Accepts` rests on when the command itself lacks the wake word.
  `SettledRecord`, `NotedRecord` and `CommandedRecord` say what `ingest_event`
  does to one record, `Ingesting` to all of them; `Launching`, `GoingOn`,
  `Ending` and `Continuing` what the coroutines do.
- `TypeCorrect` and `EveryCommandIsOpened` follow.
- `CalmInvariant`: `CInv` adds three parts to `IInv`. `Releasing`: while the surface is
  active, the recogniser, the speech, or a coroutine that ends in
  `clearActiveVoiceSurface` is under way (or a mishap has happened that is known to leave
  it). `Order`: a session is used only after the coroutine that starts it has begun, and
  the second post of a preparation goes where its first went. `Calm`: before its command
  a calm turn has the session to itself and, once prepared by the wake word, finds it
  ready (`CalmBefore`); after it, its command is the only one on its way, nobody starts
  another session, and the answer that waits is the reply to it (`CalmAfter`, `Alone`).
- `SurfacesAreReleased` and `CalmTurnsGetTheirReply` follow.

`ModelInstallProofs` proves, for any installers, assets, bundles, requests and
bounds:

- `TypeInvariant`, whose `Resting` and `Handles` say what each position has
  written and that the file written to exists; `TypeCorrect` follows.
- `GatedAssetsAreApproved`. The strengthening is `Acknowledged`: whoever is at
  work on something gated has an acknowledgement for it. `OnlyItsAsset` says that
  a step changes files of the current asset alone.
- `OverlapInvariant`: `shared` and `alone` mean what they say. `HistoryGrows` is
  what a step does to them.
- `SoleDownloads`, and from it `InstalledIsWhole`. The strengthening is `OwnFile`:
  an undisturbed download has its temporary file to itself, with what it has
  written in it. `OtherDownloads` says that others leave it so.
- `AssetInvariant`, and from it `FinishedAssets`. `OwnAsset` is what an installer
  that is alone has made of its current asset; `OwnProgress`, `OwnWork`,
  `OthersKeepOut` and `WorkKeepsDone` are its steps.

`StateStoreProofs` proves, for any processes, threads, files, keys and bounds:

- `LockInvariant`: `Exclusion` is the lock, `Turns` keeps the constructor's
  writes apart from the saves.
- `AloneInvariant`, and from it `UndisturbedFiles`. The strengthening is `Alone`:
  nobody else works on the file, and whoever does `Knows` what it holds: the list
  to be written is the one the last acknowledged save left, with one record more.
- `ApartInvariant`, and from it `UnclashedFiles`. `Apart` lets several threads
  work on a file, with other lists, and one at a time have it open (`Holds`).
- `Elsewhere` divides the steps for both: those of threads on the file, and those
  that leave it to them (`Untouched`), kills and failures among them.
- `TypeCorrect`: `ListsInvariant` (what is on the disk is nothing, an unreadable text or a
  list within `max_log_entries`, and so is what a thread has in hand: `TruncatedIsList`,
  `KeptIsList`) and `BoundsInvariant`. Two threads that write one file may leave a mixture,
  never a longer list.

`ListProofs` proves `AmongIsFaithful`: the comprehension both stores filter with returns, for
a list of any length, a list no longer with the items to be kept, and all of them.
`Among` is a recursive function, where `SelectSeq` declares an operator the provers cannot
reach; the induction over prefixes is stated with sets of numbers (`SetInduction`, from
well-foundedness), as the library's takes an operator.

`OutboundGateProofs` proves, for any loops, tasks, limits and clocks:

- `InductiveInvariant`: `IInv` is `TypeOK`, `PastThePolicy` (a task past the policy has
  a request it lets out), `LockExcludes` (until threads have met, one task is inside),
  `DequeIsHistory` (the deque is the end of the history, and what has been popped is
  more than a minute old by a clock that was not set forward) and `RoomIsKept` (between
  the count and the append nothing changes).
- `TypeCorrect`, `NothingRefused` and `RateIsLimited` follow.
- `RefusalsStayDue`, an action property: a request that is refused finds `Limit` requests
  in the minute before. `gate_request` pops from the left while the first stamp is
  old, so what stays is recent only if the deque is in order. That is `OrderInvariant`
  (`DequeIsOrdered`): until threads have met or the clock is set back, stamps follow each
  other, and none is after its real time as the clock counts now. `WhatStaysIsRecent` is
  the step from the order to the minute.

`AgentProofs` proves of `Conversation`, for any messages, lengths, windows and tasks:

- `TypeCorrect`: the log is never longer than its bound, and a task waits for the
  answer to a question of its own.
- `AnswersStand`, from `LogInv`: what is logged is numbered, and the answer a task
  waits for is `Due`, as two that wait have overlapped. `DueEntryStands` is the
  argument: an entry that is due leaves every answer by its question, cut or not.
- `StallsAlwaysPass`, from `TailIsClean`: the last entries, as many as questions have
  stalled, are short and hold no personal data, so once they fill the window the
  context fits the rules (`ShortContextFits`) and nothing in it is refused.

and of `AgentPlans`, for any requests, packages, allowlists, bounds and length of the logs:

- `PlansInvariant`: `Numbers` accounts for every plan that was asked for: lost, under way,
  stored, or older than all of a full store (`Accounted`). The stored plans are in the
  order of their numbers, so what `Cut` drops comes before all that stay; `Cutting` is what
  a cut does to a log. `PlansTypeCorrect` follows.
- `StoredPlansAreTrue`, from `TruthInv`: the timeline is `Ascending`, by plan and step, and each
  step with a tool of a stored plan, or of the plan under way before its position, has
  its record with its status or is `Gone`: older than all that a full timeline holds
  (`Tells`). The timeline is saved step by step and the plan at the end, so a crash between
  leaves entries about a lost plan only.
- `EffectsAreOrdered`, from `EffectInv`: the command of a plan is its first step, so it has
  been done when the position has passed it; an abandoned command has not been done yet,
  and when it is, its plan is among the lost.
- `CommandsPassTheGates`: the gates of every action that sends a command, one by one, and
  for `shell.run` the permission, safe mode and mode that are all it has.
  The attempt to prove it found `Builds` too wide: it let the model send
  actions `_build_command` does not know. `Buildable` lists those it does.

`VoiceProofs` proves of `VoiceFiles`, for any recordings, names, texts, paths and engines:

- `FilesInvariant`: `Base` (a name that is not drawn yet has no file), `CallsAreKnown` (a
  call has the files its engine gives it, and unless disturbed the file it `Owns` holds
  what was heard for it, or was removed by a call of whisper.cpp) and `OrphansAreKnown`.
- `FilesTypeCorrect` and `AnswersAreTrue` follow.

The assumptions are those of the modules: bounds are naturals, requests have
their type and name no asset twice, candidates' contents are distinct from the
others, and every candidate lists at least one file (`ImprovementRequest.changes`
has `min_length=1`). The runs evaluate them.

`Conversation` assumes further that a full window of short entries, short memories
and a short question fit the context of the rules (`ShortAssumption`); with the
numbers of the code (6 entries, 4 memories, 4096 characters) a length of some three
hundred characters is such.

Only model-checked: `CallerIsAnswered` and `ServerGetsThrough`. Both are liveness under
fairness, and the provers have no `ENABLED`; safety says what they rest on
(`InductiveInvariant` of `ToolExecution`, whose phases are all left by some action of the
caller, and `LockExcludes` and the parts of the lock in the types of `OutboundGate`).

## 5. Disagreements between the code and its documentation

Shown by a run:

- A plan whose step fails is never stored: `run` calls `model_dump` on an error that
  has none (`planner.py:115`), and the exception leaves before the timeline and the plan
  are saved, against `docs/architecture.md:56` (`plans_lost`).

Met while modelling. The models show these behaviours (the weaker properties that do
hold are worded around them), but no run states the document's claim:

- A recorder failure on a success is retried and hidden, against
  `docs/security-and-reliability.md` section 11.
- A second apply destroys the backup, so that a rollback leaves the candidate live,
  against `README.md:422` and `docs/architecture.md:19`. `RollbackRestores` compares
  with the files as the last apply found them.
- Rollback after an apply that stopped half-way deletes files the candidate had
  not replaced, against `docs/architecture.md:20`. `RollbackRestores` speaks of the
  files the apply has reached.
- Two coroutines may start two sessions, and the end of the reply is reported to
  the wrong one, against `docs/android-shell.md:23`.
- An archive whose extraction stopped half-way is skipped by every later install
  and never gets its manifest, against `README.md:303`. `FinishedAssetsAreThere` asks for
  the files of an archive only when the request overwrites.
- Two processes lose each other's appends, against
  `docs/security-and-reliability.md:44`. `UndisturbedFilesAreExpected` excepts them.
- Without `MORDECAI_OPENAI_*` a conversation whose context exceeds 4096 characters
  chooses the OpenAI-compatible provider and fails for want of a URL, until its long
  entries have left the window, against `README.md:325`. `StallsPass` bounds it.
- The tool `git.backup` pushes whatever `allow_git_push` says; only the endpoint looks
  (`providers/git_ops.py`), against `README.md:245`. `Begin` of `ToolEffects` has the test where the
  code has it.
- `get_mode_b_state` sends its reads with Android control disabled.
  `CommandsAreGated` excepts it (`state files`).
- whisper's transcript is not removed before a new one is asked for: a recording that
  whisper skips is answered with the transcript of an earlier one of the same name.
  `AnswersAreOfTheirQuestion` excepts it, and named replies, which are overwritten
  in place. The transcript of `memo.v2.wav` is sought by whisper.cpp's caller as
  `memo.txt`. A run of sherpa-onnx that ends without a transcript is answered with the last
  line it printed, whatever that is; the property excepts it too.
- `shell.run` reaches the device past the gates of Android control. `CommandsAreGated`
  says which gates hold for it.

## 6. Plan

Done: tool execution, self-improvement, voice sessions, the installer, the store, the
outbound gate, conversations, tool effects, plans and device commands, voice files.

Theorems worth adding: that an undisturbed store keeps one record for each key (`Kept` with
`Among`, which `AmongIsFaithful` is the start of); that `SelfImprovement` saves what a file of
`StateStore` would hold, step by step; and the safety half of the two liveness properties
(no state in which the caller, or a task the lock was passed to, has no step).

A module of the shell's start-up is the one component with state that is still
missing: a refresh that began before a start-up writes back an older phase, and
copies outside the mutex can lose a flag.

## 7. Not modelled

Screens, HTML, SVG, the catalogue of voice repositories (data and a filter), the
dashboard, the avatar, the watchdog (which reports what others keep), scripts and build
files keep no state that two actors share. The shell's coordinator composes snapshots of a
dozen HTTP calls and Android's settings, and no document says which of two
overlapping ones must win; it is left out but for the active voice surface. The
command lines beside those named above read, or call one modelled operation. Of the
store, the reads; of every log, the rows no decision reads. Provider answers, test
outcomes, speech recognition, home backends, git, the engines and Android itself are
inputs, marked external where a definition stands for them. `PROJECT.json` gives the
reason for each component.
