---------------------------- MODULE Conversation ----------------------------
(***************************************************************************)
(* Conversation: MordecaiRuntime.chat over the conversation log and the     *)
(* memories, and the choice of a provider by ProviderRouter.                *)
(*                                                                         *)
(* The chats are tasks of one event loop.  A chat that needs nothing from    *)
(* outside never awaits; the others are suspended between their question     *)
(* and their answer, while others ask and are answered.                      *)
(***************************************************************************)
EXTENDS Integers, Sequences, FiniteSets

CONSTANTS
  Task,             \* the chats that may be under way at once
  Message,
  Override, Github, Fetch,  \* messages that begin with override:, github search, fetch
  Brief,            \* plain ones the rules answer with a fixed sentence
  Memorable,        \* ... that make a memory: a preference, project, task or episode
  Secret,           \* ... with personal data, as the policy sees it
  Size,             \* the length of each message
  Related,          \* the messages each one shares words with
  Configs,          \* how the OpenAI settings may be: "all", "url" (not all) or "none"
  AnswerSizes,      \* the lengths of answers from outside
  Prompt,           \* the length of the system prompt and the frame of a context
  LocalContext,     \* max_context of the rules: 4096
  RemoteContext,    \* ... of the OpenAI-compatible provider: 128000
  Sentence,         \* the length of a fixed sentence of the rules
  Excerpt,          \* what they repeat of the context: 500
  Window,           \* the entries of the log in a context: 6
  Recall,           \* the memories in it: 4
  MaxLog,           \* max_log_entries
  Short,            \* an entry is short up to here
  MaxTurns          \* bound: questions

VARIABLES
  config,           \* the settings
  log,              \* the conversation
  memories,
  pc,               \* where each task is
  turn,             \* the number of its question
  turns,            \* questions so far
  overlapped,       \* history: the questions that were open while another was asked
  stalled           \* history: blameless questions that failed at once, one after the other

chats == <<pc, turn>>
vars == <<config, log, memories, chats, turns, overlapped, stalled>>

\* The least of a set of numbers.
Least(S) == CHOOSE n \in S : \A k \in S : n <= k

ASSUME ChatAssumption ==
  /\ Override \cup Github \cup Fetch \cup Brief \cup Memorable \cup Secret \subseteq Message
  /\ Size \in [Message -> Nat] /\ Related \in [Message -> SUBSET Message]
  /\ AnswerSizes \subseteq Nat /\ {Prompt, LocalContext, RemoteContext, Sentence, Excerpt} \subseteq Nat
  /\ LocalContext <= RemoteContext
  /\ Window \in Nat \ {0} /\ Recall \in Nat /\ MaxLog \in Nat \ {0} /\ MaxTurns \in Nat
  /\ Configs \subseteq {"all", "url", "none"}
  /\ IsFiniteSet(Message)

\* A window of short entries, with short memories and a short question, is within the
\* context of the rules.
ASSUME ShortAssumption ==
  /\ Short \in Nat
  /\ Prompt + Short + Window * Short + Recall * Short <= LocalContext

Question(m, t) == [role |-> "user", turn |-> t, size |-> Size[m], secret |-> m \in Secret]
Answer(t, n, secret) == [role |-> "assistant", turn |-> t, size |-> n, secret |-> secret]
Entry == [role : {"user", "assistant"}, turn : 1..MaxTurns, size : Nat, secret : BOOLEAN]

\* The last n of a list.
Last(s, n) == IF Len(s) <= n THEN s ELSE SubSeq(s, Len(s) - n + 1, Len(s))

\* Mutated form: the log is saved whole.
Uncut(entry) == Append(log, entry)

\* append_conversation, with the cut of _save.
Logged(entry) == Last(Append(log, entry), MaxLog)

Init ==
  /\ config \in Configs
  /\ log = <<>> /\ memories = {}
  /\ pc = [c \in Task |-> "idle"] /\ turn = [c \in Task |-> 0]
  /\ turns = 0 /\ overlapped = {} /\ stalled = 0

(***************************************************************************)
(* The context of a question and the choice of a provider.                  *)
(***************************************************************************)

\* search_memories: the best Recall of those with a word of the question.
Hits(m, known) ==
  {h \in SUBSET (known \cap Related[m]) :
     \/ Cardinality(h) = Recall
     \/ Cardinality(h) < Recall /\ h = known \cap Related[m]}

\* The characters of the entries, and of the memories.
Characters(w) == UNION {{i} \X (1..w[i].size) : i \in DOMAIN w}
MemoryCharacters(hits) == UNION {{h} \X (1..Size[h]) : h \in hits}

ContextSize(w, hits) == Prompt + Cardinality(Characters(w)) + Cardinality(MemoryCharacters(hits))

\* min_context_window
Required(m, w, hits) == Least({ContextSize(w, hits) + Size[m], RemoteContext})

\* _preferred_provider_name
Preferred == IF config = "all" THEN "openai-compatible" ELSE "rule-based"

Supports(provider, n) ==
  n <= IF provider = "rule-based" THEN LocalContext ELSE RemoteContext

\* catalog.choose: the preferred provider, or else the other one.
Choose(m, w, hits) ==
  IF Supports(Preferred, Required(m, w, hits)) THEN Preferred ELSE "openai-compatible"

\* What is posted holds personal data: the policy refuses it.
Revealing(m, w, hits) ==
  m \in Secret \/ hits \cap Secret # {} \/ \E i \in DOMAIN w : w[i].secret

(***************************************************************************)
(* A chat.                                                                  *)
(***************************************************************************)

Plain(m) == m \notin Override \cup Github \cup Fetch

\* Mutated form: the whole log is sent along.
WholeLog(s) == s

\* _build_context: read_conversation()[-6:]
Recent(s) == Last(s, Window)

\* The question fails before it has gone out: the OpenAI-compatible provider has no
\* base_url to post to, or the policy refuses what it posts, or what is searched for.
FailsAtOnce(m, w, hits) ==
  \/ /\ Plain(m) /\ Choose(m, w, hits) = "openai-compatible"
     /\ config = "none" \/ Revealing(m, w, hits)
  \/ m \in Github \cap Secret

\* ... or is answered without going out.
AnswersAtOnce(m, w, hits) ==
  m \in Override \/ (Plain(m) /\ Choose(m, w, hits) = "rule-based")

\* What the rules and the override say.
OwnWords(m, t, w, hits) ==
  IF m \in Override \cup Brief
    THEN {Answer(t, Sentence, FALSE)}
    ELSE {Answer(t, Sentence + Least({Excerpt, ContextSize(w, hits) - Prompt}), secret) :
            secret \in {FALSE, Revealing(m, w, hits)}}

Waiting == {c \in Task : pc[c] = "waiting"}

\* _remember_from_message: a preference, a project, a task or an episode, once.
Remembered(m) == IF m \in Memorable THEN memories \cup {m} ELSE memories

\* The question is logged, before anything else, and may make a memory.
Ask(c, m) ==
  /\ pc[c] = "idle" /\ turns < MaxTurns
  /\ turns' = turns + 1
  /\ memories' = Remembered(m)
  /\ overlapped' = IF Waiting = {} THEN overlapped
                   ELSE overlapped \cup {turn[d] : d \in Waiting} \cup {turns'}
  /\ UNCHANGED config

Clean(m) == Size[m] <= Short /\ m \notin Secret

\* override:, and whatever the rules answer: nothing is awaited.
AnswerAtOnce(c, m) ==
  /\ Ask(c, m)
  /\ LET asked == Logged(Question(m, turns')) IN
     \E hits \in Hits(m, memories') :
       /\ AnswersAtOnce(m, Recent(asked), hits)
       /\ \E a \in OwnWords(m, turns', Recent(asked), hits) :
            log' = Last(Append(asked, a), MaxLog)
  /\ stalled' = 0
  /\ UNCHANGED chats

\* The exception goes to the client of the API; the question stays in the log.
FailAtOnce(c, m) ==
  /\ Ask(c, m)
  /\ log' = Logged(Question(m, turns'))
  /\ \E hits \in Hits(m, memories') :
       /\ FailsAtOnce(m, Recent(log'), hits)
       /\ stalled' = IF Clean(m) /\ \A h \in hits : Clean(h) THEN stalled + 1 ELSE 0
  /\ UNCHANGED chats

\* Up to the first await: GitHub, a fetched page, or the OpenAI-compatible provider.
GoOut(c, m) ==
  /\ Ask(c, m)
  /\ log' = Logged(Question(m, turns'))
  /\ \E hits \in Hits(m, memories') :
       ~FailsAtOnce(m, Recent(log'), hits) /\ ~AnswersAtOnce(m, Recent(log'), hits)
  /\ pc' = [pc EXCEPT ![c] = "waiting"]
  /\ turn' = [turn EXCEPT ![c] = turns']
  /\ stalled' = IF Clean(m) THEN stalled ELSE 0

\* The task is over.
Over(c) ==
  /\ pc' = [pc EXCEPT ![c] = "idle"]
  /\ turn' = [turn EXCEPT ![c] = 0]

\* Mutated form: an answer is logged for the question asked last.
ReturnToLast(c) ==
  /\ pc[c] = "waiting"
  /\ \E n \in AnswerSizes, secret \in BOOLEAN : log' = Logged(Answer(turns, n, secret))
  /\ Over(c)
  /\ stalled' = 0
  /\ UNCHANGED <<config, memories, turns, overlapped>>

\* The answer from outside.
Return(c) ==
  /\ pc[c] = "waiting"
  /\ \E n \in AnswerSizes, secret \in BOOLEAN : log' = Logged(Answer(turn[c], n, secret))
  /\ Over(c)
  /\ stalled' = 0
  /\ UNCHANGED <<config, memories, turns, overlapped>>

\* A refusal, an error of the target, a time-out, the limit of the gate.
Fail(c) ==
  /\ pc[c] = "waiting"
  /\ Over(c)
  /\ UNCHANGED <<config, log, memories, turns, overlapped, stalled>>

\* POST /api/memory/records
Remember(m) ==
  /\ m \notin memories
  /\ memories' = memories \cup {m}
  /\ UNCHANGED <<config, log, chats, turns, overlapped, stalled>>

\* The server is killed and started again: its tasks are gone, the files are not.
Restart ==
  /\ pc' = [c \in Task |-> "idle"] /\ turn' = [c \in Task |-> 0]
  /\ UNCHANGED <<config, log, memories, turns, overlapped, stalled>>

Next ==
  \/ \E c \in Task :
       \/ \E m \in Message : AnswerAtOnce(c, m) \/ FailAtOnce(c, m) \/ GoOut(c, m)
       \/ Return(c) \/ Fail(c)
  \/ \E m \in Message : Remember(m)
  \/ Restart

Spec == Init /\ [][Next]_vars

(***************************************************************************)
(* Properties.                                                              *)
(***************************************************************************)

\* Types, and a task waits for the answer to a question of its own.
TypeOK ==
  /\ config \in Configs /\ memories \subseteq Message
  /\ log \in Seq(Entry) /\ Len(log) <= MaxLog
  /\ pc \in [Task -> {"idle", "waiting"}] /\ turn \in [Task -> 0..turns]
  /\ \A c \in Task : pc[c] = "waiting" <=> turn[c] # 0
  /\ \A c, d \in Task : turn[c] = turn[d] /\ turn[c] # 0 => c = d
  /\ turns \in 0..MaxTurns /\ overlapped \subseteq 1..MaxTurns
  /\ stalled \in Nat

IsAnswer(i) == log[i].role = "assistant"

\* However chats interleave at their awaits, an answer comes once and after its question,
\* and directly after it unless another question was asked while it was awaited (or the
\* question has been cut from the log).
AnswersStandByTheirQuestions ==
  \A i \in DOMAIN log : IsAnswer(i) =>
    /\ \A j \in DOMAIN log \ {i} :
         log[j].turn = log[i].turn => ~IsAnswer(j) /\ j < i
    /\ log[i].turn \notin overlapped /\ i > 1 => log[i - 1].turn = log[i].turn

\* A conversation cannot get stuck: however long its answers, and whatever personal data
\* it holds, after Window - 1 questions that failed at once for no fault of their own (they
\* are short, hold no personal data, and recall no memory that does or is long) the
\* next one does not.
StallsPass == stalled < Window
=============================================================================
