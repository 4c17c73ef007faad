---------------------------- MODULE AgentProofs ----------------------------
(***************************************************************************)
(* Proofs about the agent: Conversation, for any messages, lengths, windows *)
(* and tasks, and then AgentPlans, for any goals, grants, packages and      *)
(* requests to the device.                                                  *)
(***************************************************************************)
EXTENDS Conversation, AgentPlans, FiniteSetTheorems, SequenceTheorems, TLAPS

(***************************************************************************)
(* Facts about the operators.                                               *)
(***************************************************************************)

\* The last n of a list are a suffix of it.
LEMMA LastIsSuffix ==
  ASSUME NEW s \in Seq(Entry), NEW n \in Nat \ {0}
  PROVE  LET r == Last(s, n) IN
         /\ r \in Seq(Entry) /\ Len(r) <= n /\ Len(r) <= Len(s)
         /\ Len(s) > 0 => Len(r) > 0
         /\ \A i \in 1..Len(r) : r[i] = s[i + Len(s) - Len(r)]
<1>1. CASE Len(s) <= n
  BY <1>1 DEF Last
<1>2. CASE ~(Len(s) <= n)
  <2>1. Last(s, n) = SubSeq(s, Len(s) - n + 1, Len(s))
    BY <1>2 DEF Last
  <2>2. Len(s) - n + 1 \in 1..Len(s)
    BY <1>2
  <2> QED
    BY SMTT(30), <2>1, <2>2
<1> QED
  BY <1>1, <1>2

\* Logging an entry puts it at the end of the list and may drop entries at its head.
LEMMA LogAtEnd ==
  ASSUME NEW s \in Seq(Entry), NEW e \in Entry
  PROVE  LET r == Last(Append(s, e), MaxLog) IN
         /\ r \in Seq(Entry) /\ Len(r) \in 1..MaxLog /\ Len(r) <= Len(s) + 1
         /\ r[Len(r)] = e
         /\ \A i \in 1..(Len(r) - 1) :
              /\ i + Len(s) + 1 - Len(r) \in 1..Len(s)
              /\ r[i] = s[i + Len(s) + 1 - Len(r)]
<1> DEFINE t == Append(s, e)
           r == Last(t, MaxLog)
<1>1. t \in Seq(Entry) /\ Len(t) = Len(s) + 1 /\ t[Len(s) + 1] = e
      /\ \A i \in 1..Len(s) : t[i] = s[i]
  OBVIOUS
<1>2. MaxLog \in Nat \ {0}
  BY ChatAssumption
<1> HIDE DEF t
<1>3. /\ r \in Seq(Entry) /\ Len(r) <= MaxLog /\ Len(r) <= Len(t)
      /\ Len(t) > 0 => Len(r) > 0
      /\ \A i \in 1..Len(r) : r[i] = t[i + Len(t) - Len(r)]
  BY <1>1, <1>2, LastIsSuffix
<1> HIDE DEF r
<1>4. Len(r) \in Nat /\ Len(s) \in Nat
  BY <1>3
<1>5. r[Len(r)] = e
  <2>1. Len(r) \in 1..Len(r) /\ Len(r) + Len(t) - Len(r) = Len(s) + 1
    BY <1>1, <1>3, <1>4
  <2> QED
    BY <1>1, <1>3, <2>1
<1>6. ASSUME NEW i \in 1..(Len(r) - 1)
      PROVE  /\ i + Len(s) + 1 - Len(r) \in 1..Len(s)
             /\ r[i] = s[i + Len(s) + 1 - Len(r)]
  <2>1. i + Len(t) - Len(r) = i + Len(s) + 1 - Len(r) /\ i \in 1..Len(r)
        /\ i + Len(s) + 1 - Len(r) \in 1..Len(s)
    BY <1>1, <1>3, <1>4
  <2> QED
    BY <1>1, <1>3, <2>1
<1> QED
  BY <1>1, <1>2, <1>3, <1>4, <1>5, <1>6 DEF t, r

\* The least of two numbers is one of them, and no more than the other.
LEMMA LeastOfTwo ==
  ASSUME NEW a \in Nat, NEW b \in Nat
  PROVE  Least({a, b}) \in Nat /\ Least({a, b}) <= a /\ Least({a, b}) <= b
<1>1. \E n \in {a, b} : \A k \in {a, b} : n <= k
  OBVIOUS
<1>2. Least({a, b}) \in {a, b} /\ \A k \in {a, b} : Least({a, b}) <= k
  BY <1>1 DEF Least
<1> QED
  BY <1>2

\* A context has a length: that of finitely many characters.
LEMMA ContextHasSize ==
  ASSUME NEW w \in Seq(Entry), NEW hits \in SUBSET Message
  PROVE  /\ IsFiniteSet(Characters(w)) /\ Cardinality(Characters(w)) \in Nat
         /\ IsFiniteSet(MemoryCharacters(hits)) /\ Cardinality(MemoryCharacters(hits)) \in Nat
         /\ ContextSize(w, hits) \in Nat /\ ContextSize(w, hits) >= Prompt
<1>1. IsFiniteSet(Characters(w))
  <2> DEFINE Of(i) == {i} \X (1..w[i].size)
             All == {Of(i) : i \in DOMAIN w}
  <2>1. \A i \in DOMAIN w : IsFiniteSet(Of(i))
    <3> SUFFICES ASSUME NEW i \in DOMAIN w PROVE IsFiniteSet(Of(i))
      OBVIOUS
    <3>1. w[i] \in Entry
      OBVIOUS
    <3>2. w[i].size \in Nat
      BY <3>1 DEF Entry
    <3>3. IsFiniteSet(1..w[i].size)
      BY <3>2, FS_Interval
    <3>4. IsFiniteSet({i})
      BY FS_Singleton
    <3> QED
      BY <3>3, <3>4, FS_Product
  <2>2. IsFiniteSet(All)
    <3>1. DOMAIN w = 1..Len(w) /\ Len(w) \in Nat
      OBVIOUS
    <3>2. IsFiniteSet(DOMAIN w)
      BY <3>1, FS_Interval
    <3>3. [i \in DOMAIN w |-> Of(i)] \in Surjection(DOMAIN w, All)
      BY DEF Surjection
    <3> QED
      BY <3>2, <3>3, FS_Surjection
  <2>3. IsFiniteSet(UNION All)
    BY <2>1, <2>2, FS_UNION
  <2> QED
    BY <2>3 DEF Characters
<1>2. IsFiniteSet(MemoryCharacters(hits))
  <2> DEFINE Of(h) == {h} \X (1..Size[h])
             All == {Of(h) : h \in hits}
  <2>1. \A h \in hits : IsFiniteSet(Of(h))
    <3> SUFFICES ASSUME NEW h \in hits PROVE IsFiniteSet(Of(h))
      OBVIOUS
    <3>1. Size[h] \in Nat
      BY ChatAssumption
    <3>2. IsFiniteSet(1..Size[h])
      BY <3>1, FS_Interval
    <3>3. IsFiniteSet({h})
      BY FS_Singleton
    <3> QED
      BY <3>2, <3>3, FS_Product
  <2>2. IsFiniteSet(All)
    <3>1. IsFiniteSet(hits)
      BY ChatAssumption, FS_Subset
    <3>2. [h \in hits |-> Of(h)] \in Surjection(hits, All)
      BY DEF Surjection
    <3> QED
      BY <3>1, <3>2, FS_Surjection
  <2>3. IsFiniteSet(UNION All)
    BY <2>1, <2>2, FS_UNION
  <2> QED
    BY <2>3 DEF MemoryCharacters
<1>3. Cardinality(Characters(w)) \in Nat /\ Cardinality(MemoryCharacters(hits)) \in Nat
  BY <1>1, <1>2, FS_CardinalityType
<1> QED
  BY <1>1, <1>2, <1>3, ChatAssumption DEF ContextSize

\* The entries a chat logs are entries.
LEMMA EntryFacts ==
  ASSUME NEW t \in 1..MaxTurns
  PROVE  /\ \A m \in Message : Question(m, t) \in Entry
         /\ \A n \in Nat, b \in BOOLEAN : Answer(t, n, b) \in Entry
         /\ \A m \in Message, w \in Seq(Entry), hits \in SUBSET Message :
              OwnWords(m, t, w, hits) \subseteq {Answer(t, n, b) : n \in Nat, b \in BOOLEAN}
<1>1. \A m \in Message : Question(m, t) \in Entry
  BY ChatAssumption DEF Question, Entry
<1>2. \A n \in Nat, b \in BOOLEAN : Answer(t, n, b) \in Entry
  BY DEF Answer, Entry
<1>3. ASSUME NEW m \in Message, NEW w \in Seq(Entry), NEW hits \in SUBSET Message
      PROVE  OwnWords(m, t, w, hits) \subseteq {Answer(t, n, b) : n \in Nat, b \in BOOLEAN}
  <2> DEFINE size == Sentence + Least({Excerpt, ContextSize(w, hits) - Prompt})
  <2>1. ContextSize(w, hits) - Prompt \in Nat
    BY ContextHasSize, ChatAssumption
  <2>2. Excerpt \in Nat /\ Sentence \in Nat
    BY ChatAssumption
  <2>3. size \in Nat
    BY <2>1, <2>2, LeastOfTwo
  <2>4. Revealing(m, w, hits) \in BOOLEAN
    BY DEF Revealing
  <2> HIDE DEF size
  <2>5. OwnWords(m, t, w, hits) \subseteq
          {Answer(t, Sentence, FALSE)} \cup {Answer(t, size, b) : b \in BOOLEAN}
    BY <2>4 DEF OwnWords, size
  <2> SUFFICES ASSUME NEW a \in OwnWords(m, t, w, hits)
               PROVE  \E n \in Nat, b \in BOOLEAN : a = Answer(t, n, b)
    OBVIOUS
  <2>6. CASE a = Answer(t, Sentence, FALSE)
    BY <2>2, <2>6
  <2>7. CASE \E b \in BOOLEAN : a = Answer(t, size, b)
    BY <2>3, <2>7
  <2> QED
    BY <2>5, <2>6, <2>7
<1> QED
  BY <1>1, <1>2, <1>3

(***************************************************************************)
(* Types.                                                                   *)
(***************************************************************************)

\* A question is logged, and numbered.
LEMMA AskTypes ==
  ASSUME TypeOK, NEW c \in Task, NEW m \in Message, Ask(c, m)
  PROVE  /\ turns' \in 1..MaxTurns /\ turns' = turns + 1
         /\ overlapped' \subseteq 1..MaxTurns /\ overlapped \subseteq overlapped'
         /\ memories' \subseteq Message /\ config' = config
         /\ Question(m, turns') \in Entry
<1>1. turns' \in 1..MaxTurns /\ turns' = turns + 1
  BY ChatAssumption DEF TypeOK, Ask
<1>2. \A d \in Waiting : turn[d] \in 1..MaxTurns
  BY ChatAssumption DEF TypeOK, Waiting
<1>3. overlapped' \subseteq 1..MaxTurns /\ overlapped \subseteq overlapped'
  <2>1. CASE Waiting = {}
    BY <2>1 DEF Ask, TypeOK
  <2>2. CASE Waiting # {}
    <3>1. overlapped' = overlapped \cup {turn[d] : d \in Waiting} \cup {turns'}
      BY <2>2 DEF Ask
    <3>2. overlapped \subseteq 1..MaxTurns
      BY DEF TypeOK
    <3>3. {turn[d] : d \in Waiting} \subseteq 1..MaxTurns
      BY <1>2
    <3> QED
      BY <1>1, <3>1, <3>2, <3>3
  <2> QED
    BY <2>1, <2>2
<1>4. Question(m, turns') \in Entry
  BY <1>1, EntryFacts
<1> QED
  BY <1>1, <1>3, <1>4 DEF TypeOK, Ask, Remembered

\* The tasks: where they are, and that each has a question of its own.
TasksOK ==
  /\ pc \in [Task -> {"idle", "waiting"}] /\ turn \in [Task -> 0..turns]
  /\ \A c \in Task : pc[c] = "waiting" <=> turn[c] # 0
  /\ \A c, d \in Task : turn[c] = turn[d] /\ turn[c] # 0 => c = d

\* A task that is over leaves the others theirs.
LEMMA OverTypes ==
  ASSUME TypeOK, NEW c \in Task, Over(c), turns' = turns
  PROVE  TasksOK'
<1>1. /\ pc' = [pc EXCEPT ![c] = "idle"] /\ turn' = [turn EXCEPT ![c] = 0]
      /\ pc \in [Task -> {"idle", "waiting"}] /\ turn \in [Task -> 0..turns] /\ turns \in Nat
  BY DEF Over, TypeOK
<1>2. ASSUME NEW d \in Task PROVE pc'[d] = "waiting" <=> turn'[d] # 0
  BY <1>1 DEF TypeOK
<1>3. ASSUME NEW d \in Task, NEW b \in Task, turn'[d] = turn'[b], turn'[d] # 0 PROVE d = b
  <2>1. d # c /\ b # c
    BY <1>1, <1>3
  <2> QED
    BY <1>1, <1>3, <2>1 DEF TypeOK
<1>4. pc' \in [Task -> {"idle", "waiting"}] /\ turn' \in [Task -> 0..turns]
  BY <1>1
<1> QED
  BY <1>2, <1>3, <1>4 DEF TasksOK

\* A task that goes out has the newest question.
LEMMA OutTypes ==
  ASSUME TypeOK, NEW c \in Task, turns' = turns + 1,
         pc' = [pc EXCEPT ![c] = "waiting"], turn' = [turn EXCEPT ![c] = turns']
  PROVE  TasksOK'
<1>1. /\ pc \in [Task -> {"idle", "waiting"}] /\ turn \in [Task -> 0..turns] /\ turns \in Nat
  BY DEF TypeOK
<1>2. ASSUME NEW d \in Task PROVE pc'[d] = "waiting" <=> turn'[d] # 0
  BY <1>1 DEF TypeOK
<1>3. ASSUME NEW d \in Task, NEW b \in Task, turn'[d] = turn'[b], turn'[d] # 0 PROVE d = b
  <2>1. \A x \in Task : turn[x] # turns'
    BY <1>1
  <2>2. d = c <=> b = c
    BY <1>1, <1>3, <2>1
  <2> QED
    BY <1>1, <1>3, <2>2 DEF TypeOK
<1>4. pc' \in [Task -> {"idle", "waiting"}]
  BY <1>1
<1>5. turn' \in [Task -> 0..turns']
  BY <1>1
<1> QED
  BY <1>2, <1>3, <1>4, <1>5 DEF TasksOK

\* The types are preserved by every step.
LEMMA TypeStep ==
  ASSUME TypeOK, [Next]_vars
  PROVE  TypeOK'
<1>1. ASSUME NEW c \in Task, NEW m \in Message, AnswerAtOnce(c, m) PROVE TypeOK'
  <2>1. Ask(c, m) /\ stalled' = 0 /\ pc' = pc /\ turn' = turn
    BY <1>1 DEF AnswerAtOnce, chats
  <2> DEFINE asked == Logged(Question(m, turns'))
  <2>2. asked \in Seq(Entry)
    BY <2>1, AskTypes, LogAtEnd DEF Logged, TypeOK
  <2>3. PICK hits \in Hits(m, memories') :
          \E a \in OwnWords(m, turns', Recent(asked), hits) : log' = Last(Append(asked, a), MaxLog)
    BY <1>1 DEF AnswerAtOnce
  <2>4. hits \in SUBSET Message
    BY <2>1, AskTypes DEF Hits
  <2>5. Recent(asked) \in Seq(Entry)
    BY <2>2, LastIsSuffix, ChatAssumption DEF Recent
  <2> HIDE DEF asked
  <2>6. PICK a \in Entry : log' = Last(Append(asked, a), MaxLog)
    BY <2>1, <2>3, <2>4, <2>5, AskTypes, EntryFacts
  <2>7. log' \in Seq(Entry) /\ Len(log') <= MaxLog
    BY <2>2, <2>6, LogAtEnd
  <2> QED
    BY <2>1, <2>7, AskTypes DEF TypeOK
<1>2. ASSUME NEW c \in Task, NEW m \in Message, FailAtOnce(c, m) PROVE TypeOK'
  <2>1. Ask(c, m) /\ pc' = pc /\ turn' = turn /\ log' = Logged(Question(m, turns'))
    BY <1>2 DEF FailAtOnce, chats
  <2>2. stalled' \in Nat
    BY <1>2 DEF FailAtOnce, TypeOK
  <2>3. log' \in Seq(Entry) /\ Len(log') <= MaxLog
    BY <2>1, AskTypes, LogAtEnd DEF Logged, TypeOK
  <2> QED
    BY <2>1, <2>2, <2>3, AskTypes DEF TypeOK
<1>3. ASSUME NEW c \in Task, NEW m \in Message, GoOut(c, m) PROVE TypeOK'
  <2>1. /\ Ask(c, m) /\ log' = Logged(Question(m, turns')) /\ pc[c] = "idle"
        /\ pc' = [pc EXCEPT ![c] = "waiting"] /\ turn' = [turn EXCEPT ![c] = turns']
    BY <1>3 DEF GoOut, Ask
  <2>2. stalled' \in Nat
    BY <1>3 DEF GoOut, TypeOK
  <2>3. log' \in Seq(Entry) /\ Len(log') <= MaxLog
    BY <2>1, AskTypes, LogAtEnd DEF Logged, TypeOK
  <2>4. TasksOK'
    BY <2>1, AskTypes, OutTypes
  <2> QED
    BY <2>1, <2>2, <2>3, <2>4, AskTypes DEF TypeOK, TasksOK
<1>4. ASSUME NEW c \in Task, Return(c) PROVE TypeOK'
  <2>1. PICK n \in AnswerSizes, b \in BOOLEAN : log' = Logged(Answer(turn[c], n, b))
    BY <1>4 DEF Return
  <2>2. turn[c] \in 1..MaxTurns /\ n \in Nat
    BY <1>4, ChatAssumption DEF Return, TypeOK
  <2>3. log' \in Seq(Entry) /\ Len(log') <= MaxLog
    BY <2>1, <2>2, EntryFacts, LogAtEnd DEF Logged, TypeOK
  <2>4. TasksOK'
    BY <1>4, OverTypes DEF Return
  <2> QED
    BY <1>4, <2>3, <2>4 DEF Return, TypeOK, TasksOK
<1>5. ASSUME NEW c \in Task, Fail(c) PROVE TypeOK'
  <2>1. TasksOK'
    BY <1>5, OverTypes DEF Fail
  <2> QED
    BY <1>5, <2>1 DEF Fail, TypeOK, TasksOK
<1>6. ASSUME NEW m \in Message, Remember(m) PROVE TypeOK'
  BY <1>6 DEF Remember, chats, TypeOK
<1>7. CASE Restart
  BY <1>7 DEF Restart, TypeOK
<1>8. CASE UNCHANGED vars
  BY <1>8 DEF vars, chats, TypeOK
<1> QED
  BY <1>1, <1>2, <1>3, <1>4, <1>5, <1>6, <1>7, <1>8 DEF Next

\* At the start too.
LEMMA TypeInit == Init => TypeOK
BY ChatAssumption DEF Init, TypeOK

\* For any messages, lengths, windows and tasks the types hold: the log is never longer
\* than MaxLog, and a task waits for the answer to a question of its own.
THEOREM TypeCorrect == Spec => []TypeOK
<1>1. Init => TypeOK
  BY TypeInit
<1>2. TypeOK /\ [Next]_vars => TypeOK'
  BY TypeStep
<1> QED
  BY <1>1, <1>2, PTL DEF Spec

(***************************************************************************)
(* Answers and their questions.                                             *)
(***************************************************************************)

\* AnswersStandByTheirQuestions, of any log and any set of overlapped turns.
Stands(s, o) ==
  \A i \in 1..Len(s) : s[i].role = "assistant" =>
    /\ \A j \in 1..Len(s) \ {i} : s[j].turn = s[i].turn => s[j].role # "assistant" /\ j < i
    /\ s[i].turn \notin o /\ i > 1 => s[i - 1].turn = s[i].turn

\* An entry is due: its turn has no answer, and if it is one itself it comes directly
\* after its question, or is known to have been overlapped.
Due(s, o, e) ==
  /\ \A i \in 1..Len(s) : s[i].turn = e.turn => s[i].role # "assistant"
  /\ e.role = "assistant" /\ e.turn \notin o /\ Len(s) > 0 => s[Len(s)].turn = e.turn

\* Logging an entry that is due leaves every answer by its question.
LEMMA DueEntryStands ==
  ASSUME NEW s \in Seq(Entry), NEW e \in Entry, NEW o, NEW p, o \subseteq p,
         Stands(s, o), Due(s, p, e)
  PROVE  Stands(Last(Append(s, e), MaxLog), p)
<1> DEFINE r == Last(Append(s, e), MaxLog)
           k == Len(s) + 1 - Len(r)
<1>1. /\ r \in Seq(Entry) /\ Len(r) \in 1..MaxLog /\ Len(r) <= Len(s) + 1
      /\ r[Len(r)] = e
      /\ \A i \in 1..(Len(r) - 1) : i + Len(s) + 1 - Len(r) \in 1..Len(s)
                                    /\ r[i] = s[i + Len(s) + 1 - Len(r)]
  BY LogAtEnd
<1> HIDE DEF r
<1>2. Len(r) \in Nat /\ Len(s) \in Nat /\ k \in Nat
  BY <1>1
<1>3. \A i \in 1..(Len(r) - 1) : i + k \in 1..Len(s) /\ r[i] = s[i + k]
  BY <1>1, <1>2
<1>4. \A i \in 1..Len(r) : i = Len(r) \/ i \in 1..(Len(r) - 1)
  BY <1>2
<1> SUFFICES ASSUME NEW i \in 1..Len(r), r[i].role = "assistant"
             PROVE  /\ \A j \in 1..Len(r) \ {i} :
                         r[j].turn = r[i].turn => r[j].role # "assistant" /\ j < i
                    /\ r[i].turn \notin p /\ i > 1 => r[i - 1].turn = r[i].turn
  BY DEF Stands, r
<1> HIDE DEF k
<1>5. CASE i = Len(r)
  <2>1. r[i] = e
    BY <1>1, <1>5
  <2>2. ASSUME NEW j \in 1..Len(r) \ {i}, r[j].turn = r[i].turn
        PROVE  r[j].role # "assistant" /\ j < i
    <3>1. j \in 1..(Len(r) - 1)
      BY <1>2, <1>5
    <3> QED
      BY <1>2, <1>3, <1>5, <2>1, <2>2, <3>1 DEF Due
  <2>3. ASSUME r[i].turn \notin p, i > 1 PROVE r[i - 1].turn = r[i].turn
    <3>1. i - 1 \in 1..(Len(r) - 1) /\ i - 1 + k = Len(s)
      BY <1>2, <1>5, <2>3 DEF k
    <3>2. r[i - 1] = s[Len(s)] /\ Len(s) > 0
      BY <1>2, <1>3, <3>1
    <3> QED
      BY <2>1, <2>3, <3>2 DEF Due
  <2> QED
    BY <2>2, <2>3
<1>6. CASE i \in 1..(Len(r) - 1)
  <2>1. i + k \in 1..Len(s) /\ r[i] = s[i + k]
    BY <1>3, <1>6
  <2>2. ASSUME NEW j \in 1..Len(r) \ {i}, r[j].turn = r[i].turn
        PROVE  r[j].role # "assistant" /\ j < i
    <3>1. CASE j = Len(r)
      BY <1>1, <2>1, <2>2, <3>1 DEF Due
    <3>2. CASE j \in 1..(Len(r) - 1)
      <4>1. j + k \in 1..Len(s) \ {i + k} /\ r[j] = s[j + k]
        BY <1>2, <1>3, <3>2
      <4>2. s[j + k].role # "assistant" /\ j + k < i + k
        BY <2>1, <2>2, <4>1 DEF Stands
      <4> QED
        BY <1>2, <4>1, <4>2
    <3> QED
      BY <1>4, <3>1, <3>2
  <2>3. ASSUME r[i].turn \notin p, i > 1 PROVE r[i - 1].turn = r[i].turn
    <3>1. i - 1 \in 1..(Len(r) - 1) /\ i - 1 + k = i + k - 1 /\ i + k > 1
      BY <1>2, <1>6, <2>3
    <3>2. r[i - 1] = s[i + k - 1]
      BY <1>3, <3>1
    <3>3. s[i + k - 1].turn = s[i + k].turn
      BY <1>2, <2>1, <2>3, <3>1 DEF Stands
    <3> QED
      BY <2>1, <3>2, <3>3
  <2> QED
    BY <2>2, <2>3
<1> QED
  BY <1>4, <1>5, <1>6

\* What is asked is numbered.
Numbered == \A i \in 1..Len(log) : log[i].turn \in 1..turns

\* The answer a task waits for is due: two that wait have overlapped, and after the
\* question of one that has not nothing was logged.
AnswersAreDue ==
  \A c \in Waiting :
    /\ \A i \in 1..Len(log) : log[i].turn = turn[c] => log[i].role # "assistant"
    /\ turn[c] \notin overlapped => Len(log) > 0 /\ log[Len(log)].turn = turn[c]
    /\ \A d \in Waiting \ {c} : turn[c] \in overlapped

\* The log, with its numbers, its due answers and the standing of its entries, is kept
\* together.
LogInv == TypeOK /\ Numbered /\ AnswersAreDue /\ Stands(log, overlapped)

\* The entries of a log after one more are the old ones and the new one.
LEMMA LogEntries ==
  ASSUME NEW s \in Seq(Entry), NEW e \in Entry,
         NEW i \in 1..Len(Last(Append(s, e), MaxLog))
  PROVE  \/ Last(Append(s, e), MaxLog)[i] = e
         \/ \E j \in 1..Len(s) : Last(Append(s, e), MaxLog)[i] = s[j]
<1> DEFINE r == Last(Append(s, e), MaxLog)
<1>1. /\ r \in Seq(Entry) /\ r[Len(r)] = e
      /\ \A n \in 1..(Len(r) - 1) : n + Len(s) + 1 - Len(r) \in 1..Len(s)
                                    /\ r[n] = s[n + Len(s) + 1 - Len(r)]
  BY LogAtEnd
<1> HIDE DEF r
<1>2. i = Len(r) \/ i \in 1..(Len(r) - 1)
  BY <1>1 DEF r
<1> QED
  BY <1>1, <1>2 DEF r

\* A question is due, and nothing with its turn is logged yet.
LEMMA QuestionIsDue ==
  ASSUME LogInv, NEW c \in Task, NEW m \in Message, Ask(c, m)
  PROVE  /\ \A i \in 1..Len(log) : log[i].turn # turns'
         /\ Due(log, overlapped', Question(m, turns'))
         /\ LET s == Logged(Question(m, turns')) IN
            /\ s \in Seq(Entry) /\ Stands(s, overlapped')
            /\ Len(s) > 0 /\ s[Len(s)] = Question(m, turns')
            /\ \A i \in 1..Len(s) : s[i].turn \in 1..turns'
            /\ \A i \in 1..Len(s) : s[i].turn = turns' => s[i].role # "assistant"
<1> DEFINE q == Question(m, turns')
           s == Logged(q)
<1>1. /\ turns' = turns + 1 /\ turns \in Nat /\ q \in Entry /\ overlapped \subseteq overlapped'
      /\ log \in Seq(Entry)
  BY AskTypes, ChatAssumption DEF LogInv, TypeOK
<1>2. q.role = "user" /\ q.turn = turns'
  BY DEF Question
<1>3. \A i \in 1..Len(log) : log[i].turn # turns' /\ log[i].turn \in 1..turns'
  BY <1>1 DEF LogInv, Numbered
<1> HIDE DEF q
<1>4. Due(log, overlapped', q)
  BY <1>2, <1>3 DEF Due
<1>5. s \in Seq(Entry) /\ Len(s) \in 1..MaxLog /\ s[Len(s)] = q
  BY <1>1, LogAtEnd DEF Logged
<1>6. Stands(s, overlapped')
  BY <1>1, <1>4, DueEntryStands DEF Logged, LogInv
<1>7. ASSUME NEW i \in 1..Len(s)
      PROVE  s[i].turn \in 1..turns' /\ (s[i].turn = turns' => s[i].role # "assistant")
  <2>1. s[i] = q \/ \E j \in 1..Len(log) : s[i] = log[j]
    BY <1>1, LogEntries DEF Logged
  <2> QED
    BY <1>1, <1>2, <1>3, <2>1
<1> QED
  BY <1>3, <1>4, <1>5, <1>6, <1>7 DEF q

\* When a question is asked while tasks wait, all of these have overlapped.
LEMMA WaitingOverlap ==
  ASSUME TypeOK, NEW c \in Task, NEW m \in Message, Ask(c, m)
  PROVE  \A d \in Waiting : turn[d] \in overlapped' /\ turns' \in overlapped' /\ turn[d] # turns'
BY AskTypes DEF Ask, TypeOK, Waiting

\* While the chats are left alone, what they wait for stays due after a question.
LEMMA DueAfterQuestion ==
  ASSUME LogInv, NEW c \in Task, NEW m \in Message, Ask(c, m), UNCHANGED chats,
         \A i \in 1..Len(log') : log'[i].turn = turns' \/ \E j \in 1..Len(log) : log'[i] = log[j]
  PROVE  AnswersAreDue'
<1>1. Waiting' = Waiting /\ turn' = turn
  BY DEF Waiting, chats
<1>2. \A d \in Waiting : turn[d] \in overlapped' /\ turn[d] # turns'
  BY WaitingOverlap DEF LogInv
<1>3. \A d \in Waiting : \A i \in 1..Len(log') :
        log'[i].turn = turn[d] => log'[i].role # "assistant"
  BY <1>2 DEF LogInv, AnswersAreDue
<1> QED
  BY <1>1, <1>2, <1>3 DEF AnswersAreDue

\* LogInv is preserved by every step.
LEMMA LogStep ==
  ASSUME LogInv, [Next]_vars
  PROVE  LogInv'
<1>0. TypeOK' /\ TypeOK /\ log \in Seq(Entry) /\ turns \in Nat
  BY SMTT(30), TypeStep, ChatAssumption DEF LogInv, TypeOK
<1>1. ASSUME NEW c \in Task, NEW m \in Message, AnswerAtOnce(c, m) PROVE LogInv'
  <2> DEFINE asked == Logged(Question(m, turns'))
  <2>1. Ask(c, m) /\ UNCHANGED chats
    BY <1>1 DEF AnswerAtOnce
  <2>2. /\ asked \in Seq(Entry) /\ Stands(asked, overlapped')
        /\ Len(asked) > 0 /\ asked[Len(asked)] = Question(m, turns')
        /\ \A i \in 1..Len(asked) : asked[i].turn \in 1..turns'
        /\ \A i \in 1..Len(asked) : asked[i].turn = turns' => asked[i].role # "assistant"
    BY <2>1, QuestionIsDue
  <2>3. PICK hits \in Hits(m, memories') :
          \E a \in OwnWords(m, turns', Recent(asked), hits) : log' = Last(Append(asked, a), MaxLog)
    BY <1>1 DEF AnswerAtOnce
  <2>4. hits \in SUBSET Message /\ Recent(asked) \in Seq(Entry) /\ turns' \in 1..MaxTurns
    BY <1>0, <2>1, <2>2, AskTypes, LastIsSuffix, ChatAssumption DEF Hits, Recent
  <2>5. asked[Len(asked)].turn = turns'
    BY <2>2 DEF Question
  <2>9. \A i \in 1..Len(asked) : asked[i].turn = turns' \/ \E j \in 1..Len(log) : asked[i] = log[j]
    <3>1. Question(m, turns') \in Entry /\ Question(m, turns').turn = turns'
      BY <1>0, <2>1, AskTypes DEF Question
    <3> QED
      BY <1>0, <3>1, LogEntries DEF Logged
  <2> HIDE DEF asked
  <2>6. PICK n \in Nat, b \in BOOLEAN : log' = Last(Append(asked, Answer(turns', n, b)), MaxLog)
    BY <2>3, <2>4, EntryFacts
  <2> DEFINE a == Answer(turns', n, b)
  <2>7. a \in Entry /\ a.turn = turns' /\ a.role = "assistant"
    BY <2>4, EntryFacts DEF Answer
  <2> HIDE DEF a
  <2>8. Stands(log', overlapped')
    <3>1. Due(asked, overlapped', a)
      BY <2>2, <2>5, <2>7 DEF Due
    <3> QED
      BY <2>2, <2>6, <2>7, <3>1, DueEntryStands DEF a
  <2>10. \A i \in 1..Len(log') : log'[i] = a \/ \E j \in 1..Len(asked) : log'[i] = asked[j]
    BY <2>2, <2>6, <2>7, LogEntries DEF a
  <2>11. Numbered'
    BY <2>2, <2>4, <2>7, <2>10 DEF Numbered
  <2>12. AnswersAreDue'
    <3>1. \A i \in 1..Len(log') : log'[i].turn = turns' \/ \E j \in 1..Len(log) : log'[i] = log[j]
      BY <2>7, <2>9, <2>10
    <3> QED
      BY <2>1, <3>1, DueAfterQuestion
  <2> QED
    BY <1>0, <2>8, <2>11, <2>12 DEF LogInv
<1>2. ASSUME NEW c \in Task, NEW m \in Message, FailAtOnce(c, m) PROVE LogInv'
  <2>1. Ask(c, m) /\ UNCHANGED chats /\ log' = Logged(Question(m, turns'))
    BY <1>2 DEF FailAtOnce
  <2>2. Stands(log', overlapped') /\ Numbered'
    BY <2>1, QuestionIsDue DEF Numbered
  <2>3. \A i \in 1..Len(log') : log'[i].turn = turns' \/ \E j \in 1..Len(log) : log'[i] = log[j]
    <3>1. Question(m, turns') \in Entry /\ Question(m, turns').turn = turns'
      BY <1>0, <2>1, AskTypes DEF Question
    <3> QED
      BY <1>0, <2>1, <3>1, LogEntries DEF Logged
  <2>4. AnswersAreDue'
    BY <2>1, <2>3, DueAfterQuestion
  <2> QED
    BY <1>0, <2>2, <2>4 DEF LogInv
<1>3. ASSUME NEW c \in Task, NEW m \in Message, GoOut(c, m) PROVE LogInv'
  <2>1. /\ Ask(c, m) /\ log' = Logged(Question(m, turns')) /\ pc[c] = "idle"
        /\ pc' = [pc EXCEPT ![c] = "waiting"] /\ turn' = [turn EXCEPT ![c] = turns']
    BY <1>3 DEF GoOut, Ask
  <2>2. /\ Stands(log', overlapped') /\ Numbered'
        /\ Len(log') > 0 /\ log'[Len(log')] = Question(m, turns')
        /\ \A i \in 1..Len(log') : log'[i].turn = turns' => log'[i].role # "assistant"
    BY <2>1, QuestionIsDue DEF Numbered
  <2>3. log'[Len(log')].turn = turns'
    BY <2>2 DEF Question
  <2>4. \A i \in 1..Len(log') : log'[i].turn = turns' \/ \E j \in 1..Len(log) : log'[i] = log[j]
    <3>1. Question(m, turns') \in Entry /\ Question(m, turns').turn = turns'
      BY <1>0, <2>1, AskTypes DEF Question
    <3> QED
      BY <1>0, <2>1, <3>1, LogEntries DEF Logged
  <2>5. Waiting' = Waiting \cup {c} /\ c \notin Waiting
    BY <1>0, <2>1 DEF Waiting, TypeOK
  <2>6. turn'[c] = turns' /\ \A d \in Waiting : turn'[d] = turn[d]
    BY <1>0, <2>1, <2>5 DEF TypeOK, Waiting
  <2>7. \A d \in Waiting : turn[d] \in overlapped' /\ turns' \in overlapped' /\ turn[d] # turns'
    BY <1>0, <2>1, WaitingOverlap
  <2>8. ASSUME NEW d \in Waiting'
        PROVE  /\ \A i \in 1..Len(log') : log'[i].turn = turn'[d] => log'[i].role # "assistant"
               /\ turn'[d] \notin overlapped' => Len(log') > 0 /\ log'[Len(log')].turn = turn'[d]
               /\ \A x \in Waiting' \ {d} : turn'[d] \in overlapped'
    <3>1. CASE d = c
      BY <2>2, <2>3, <2>5, <2>6, <2>7, <3>1
    <3>2. CASE d \in Waiting
      BY <2>4, <2>6, <2>7, <3>2 DEF LogInv, AnswersAreDue
    <3> QED
      BY <2>5, <3>1, <3>2
  <2>9. AnswersAreDue'
    BY <2>8 DEF AnswersAreDue
  <2> QED
    BY <1>0, <2>2, <2>9 DEF LogInv
<1>4. ASSUME NEW c \in Task, Return(c) PROVE LogInv'
  <2>1. PICK n \in AnswerSizes, b \in BOOLEAN : log' = Logged(Answer(turn[c], n, b))
    BY <1>4 DEF Return
  <2> DEFINE a == Answer(turn[c], n, b)
  <2>2. turn[c] \in 1..turns /\ turn[c] \in 1..MaxTurns /\ n \in Nat /\ c \in Waiting
    BY <1>0, <1>4, ChatAssumption DEF Return, TypeOK, Waiting
  <2>3. a \in Entry /\ a.turn = turn[c] /\ a.role = "assistant"
    BY <2>2, EntryFacts DEF Answer
  <2> HIDE DEF a
  <2>4. log' = Last(Append(log, a), MaxLog)
    BY <2>1 DEF Logged, a
  <2>5. Due(log, overlapped, a)
    BY <2>2, <2>3 DEF Due, LogInv, AnswersAreDue
  <2>6. Stands(log', overlapped')
    <3>1. overlapped' = overlapped
      BY <1>4 DEF Return
    <3> QED
      BY <1>0, <2>3, <2>4, <2>5, <3>1, DueEntryStands DEF LogInv
  <2>7. \A i \in 1..Len(log') : log'[i] = a \/ \E j \in 1..Len(log) : log'[i] = log[j]
    BY <1>0, <2>3, <2>4, LogEntries
  <2>8. Numbered'
    BY <1>4, <2>2, <2>3, <2>7 DEF Numbered, LogInv, Return
  <2>9. AnswersAreDue'
    <3>1. Waiting' = Waiting \ {c} /\ \A d \in Waiting \ {c} : turn'[d] = turn[d]
      BY <1>0, <1>4 DEF Return, Over, Waiting, TypeOK
    <3>2. \A d \in Waiting \ {c} : turn[d] \in overlapped /\ turn[d] # turn[c]
      BY <1>0, <2>2 DEF LogInv, AnswersAreDue, TypeOK, Waiting
    <3>3. overlapped' = overlapped
      BY <1>4 DEF Return
    <3>4. \A d \in Waiting \ {c} : \A i \in 1..Len(log') :
            log'[i].turn = turn[d] => log'[i].role # "assistant"
      BY <2>3, <2>7, <3>2 DEF LogInv, AnswersAreDue
    <3> QED
      BY <3>1, <3>2, <3>3, <3>4 DEF AnswersAreDue
  <2> QED
    BY <1>0, <2>6, <2>8, <2>9 DEF LogInv
<1>5. ASSUME NEW c \in Task, Fail(c) PROVE LogInv'
  <2>1. log' = log /\ turns' = turns /\ overlapped' = overlapped
    BY <1>5 DEF Fail
  <2>2. Waiting' = Waiting \ {c} /\ \A d \in Waiting \ {c} : turn'[d] = turn[d]
    BY <1>0, <1>5 DEF Fail, Over, Waiting, TypeOK
  <2>3. AnswersAreDue'
    BY <2>1, <2>2 DEF AnswersAreDue, LogInv
  <2> QED
    BY <1>0, <2>1, <2>3 DEF LogInv, Numbered
<1>6. ASSUME NEW m \in Message, Remember(m) PROVE LogInv'
  <2>1. Waiting' = Waiting /\ AnswersAreDue'
    BY <1>6 DEF Remember, chats, Waiting, AnswersAreDue, LogInv
  <2> QED
    BY <1>0, <1>6, <2>1 DEF Remember, LogInv, Numbered
<1>7. CASE Restart
  <2>1. Waiting' = {}
    BY <1>7 DEF Restart, Waiting
  <2> QED
    BY <1>0, <1>7, <2>1 DEF Restart, LogInv, Numbered, AnswersAreDue
<1>8. CASE UNCHANGED vars
  <2>1. Waiting' = Waiting /\ AnswersAreDue'
    BY <1>8 DEF vars, chats, Waiting, AnswersAreDue, LogInv
  <2> QED
    BY <1>0, <1>8, <2>1 DEF vars, LogInv, Numbered
<1> QED
  BY <1>1, <1>2, <1>3, <1>4, <1>5, <1>6, <1>7, <1>8 DEF Next

\* For any number of tasks and any length of the log: however chats interleave at their
\* awaits and wherever the server is restarted, an answer comes once and after its
\* question, and directly after it unless another was asked meanwhile (chat in agent.py).
THEOREM AnswersStand == Spec => []AnswersStandByTheirQuestions
<1>1. Init => LogInv
  BY TypeInit DEF Init, LogInv, Numbered, AnswersAreDue, Waiting, Stands
<1>2. LogInv /\ [Next]_vars => LogInv'
  BY LogStep
<1>3. LogInv => AnswersStandByTheirQuestions
  <2> SUFFICES ASSUME LogInv PROVE AnswersStandByTheirQuestions
    OBVIOUS
  <2>1. DOMAIN log = 1..Len(log)
    BY DEF LogInv, TypeOK
  <2> QED
    BY <2>1 DEF LogInv, Stands, AnswersStandByTheirQuestions, IsAnswer
<1> QED
  BY <1>1, <1>2, <1>3, PTL DEF Spec

(***************************************************************************)
(* Stalls.                                                                  *)
(***************************************************************************)

\* More times as much is more.
LEMMA TimesGrows ==
  ASSUME NEW a \in Nat, NEW b \in Nat, NEW n \in Nat, a <= b
  PROVE  a * n <= b * n
<1>1. (b - a) * n \in Nat /\ (b - a) * n = b * n - a * n
  OBVIOUS
<1>2. a * n \in Nat /\ b * n \in Nat
  OBVIOUS
<1> QED
  BY <1>1, <1>2

\* As many numbers as there are up to n.
LEMMA Interval == ASSUME NEW n \in Nat PROVE IsFiniteSet(1..n) /\ Cardinality(1..n) = n
<1>1. IsFiniteSet(1..n) /\ Cardinality(1..n) = IF 1 > n THEN 0 ELSE n - 1 + 1
  BY FS_Interval
<1> QED
  BY <1>1

\* Short entries, memories and questions are within the context of the rules.
LEMMA ShortContextFits ==
  ASSUME NEW m \in Message, NEW w \in Seq(Entry), NEW hits \in SUBSET Message,
         Len(w) <= Window, \A i \in 1..Len(w) : w[i].size <= Short,
         Cardinality(hits) <= Recall, \A h \in hits : Size[h] <= Short, Size[m] <= Short
  PROVE  Required(m, w, hits) \in Nat /\ Required(m, w, hits) <= LocalContext
<1>1. Window \in Nat /\ Short \in Nat /\ Recall \in Nat /\ Prompt \in Nat /\ Size[m] \in Nat
      /\ RemoteContext \in Nat /\ LocalContext \in Nat
      /\ Prompt + Short + Window * Short + Recall * Short <= LocalContext
  BY ChatAssumption, ShortAssumption
<1>2. Cardinality(Characters(w)) <= Window * Short
  <2>1. Characters(w) \subseteq (1..Window) \X (1..Short)
    <3>1. ASSUME NEW i \in DOMAIN w
          PROVE  i \in 1..Window /\ w[i].size <= Short /\ w[i].size \in Nat
      <4>1. i \in 1..Len(w) /\ Len(w) \in Nat /\ w[i] \in Entry
        OBVIOUS
      <4> QED
        BY <1>1, <4>1 DEF Entry
    <3> QED
      BY <1>1, <3>1 DEF Characters
  <2>2. /\ IsFiniteSet((1..Window) \X (1..Short))
        /\ Cardinality((1..Window) \X (1..Short)) = Window * Short
    <3>1. /\ IsFiniteSet(1..Window) /\ Cardinality(1..Window) = Window
          /\ IsFiniteSet(1..Short) /\ Cardinality(1..Short) = Short
      BY <1>1, Interval
    <3>2. /\ IsFiniteSet((1..Window) \X (1..Short))
          /\ Cardinality((1..Window) \X (1..Short)) = Cardinality(1..Window) * Cardinality(1..Short)
      BY <3>1, FS_Product
    <3> QED
      BY <3>1, <3>2
  <2> QED
    BY <2>1, <2>2, FS_Subset
<1>3. Cardinality(MemoryCharacters(hits)) <= Recall * Short
  <2>1. MemoryCharacters(hits) \subseteq hits \X (1..Short)
    <3>1. \A h \in hits : Size[h] \in Nat /\ Size[h] <= Short
      BY ChatAssumption
    <3> QED
      BY <1>1, <3>1 DEF MemoryCharacters
  <2>2. IsFiniteSet(hits)
    BY ChatAssumption, FS_Subset
  <2>3. IsFiniteSet(hits \X (1..Short)) /\ Cardinality(hits \X (1..Short)) = Cardinality(hits) * Short
    <3>1. IsFiniteSet(1..Short) /\ Cardinality(1..Short) = Short
      BY <1>1, Interval
    <3>2. /\ IsFiniteSet(hits \X (1..Short))
          /\ Cardinality(hits \X (1..Short)) = Cardinality(hits) * Cardinality(1..Short)
      BY <2>2, <3>1, FS_Product
    <3> QED
      BY <3>1, <3>2
  <2>4. Cardinality(MemoryCharacters(hits)) <= Cardinality(hits) * Short
    BY <2>1, <2>3, FS_Subset
  <2>5. Cardinality(hits) \in Nat
    BY <2>2, FS_CardinalityType
  <2>6. Cardinality(hits) * Short <= Recall * Short
    BY <1>1, <2>5, TimesGrows
  <2>7. Cardinality(hits) * Short \in Nat /\ Recall * Short \in Nat
    BY <1>1, <2>5
  <2> QED
    BY <2>4, <2>6, <2>7, ContextHasSize
<1>4. /\ Prompt \in Nat /\ Short \in Nat /\ Size[m] \in Nat /\ Size[m] <= Short
      /\ RemoteContext \in Nat /\ LocalContext \in Nat
  BY <1>1
<1> DEFINE x == Window * Short
           y == Recall * Short
           entries == Cardinality(Characters(w))
           recalled == Cardinality(MemoryCharacters(hits))
<1>5. x \in Nat /\ y \in Nat /\ Prompt + Short + x + y <= LocalContext
  BY <1>1
<1>6. entries \in Nat /\ entries <= x /\ recalled \in Nat /\ recalled <= y
  BY <1>2, <1>3, ContextHasSize
<1>7. ContextSize(w, hits) = Prompt + entries + recalled
  BY DEF ContextSize
<1> HIDE DEF x, y, entries, recalled
<1>8. ContextSize(w, hits) + Size[m] <= LocalContext /\ ContextSize(w, hits) + Size[m] \in Nat
  BY <1>4, <1>5, <1>6, <1>7
<1>9. /\ Required(m, w, hits) \in Nat
      /\ Required(m, w, hits) <= ContextSize(w, hits) + Size[m]
  BY <1>4, <1>8, LeastOfTwo DEF Required
<1> QED
  BY <1>4, <1>8, <1>9

\* A blameless question does not fail at once when all it is sent with is short and holds
\* no personal data.
LEMMA BlamelessPasses ==
  ASSUME NEW m \in Message, Clean(m), NEW known \in SUBSET Message, NEW hits \in Hits(m, known),
         \A h \in hits : Clean(h), NEW w \in Seq(Entry), Len(w) <= Window,
         \A i \in 1..Len(w) : w[i].size <= Short /\ ~w[i].secret
  PROVE  ~FailsAtOnce(m, w, hits)
<1>1. hits \in SUBSET Message /\ Cardinality(hits) <= Recall
  <2>1. hits \in SUBSET Message /\ (Cardinality(hits) = Recall \/ Cardinality(hits) < Recall)
    BY DEF Hits
  <2>2. IsFiniteSet(hits)
    BY <2>1, ChatAssumption, FS_Subset
  <2>3. Cardinality(hits) \in Nat
    BY <2>2, FS_CardinalityType
  <2> QED
    BY <2>1, <2>3, ChatAssumption
<1>2. Required(m, w, hits) <= LocalContext
  BY <1>1, ShortContextFits DEF Clean
<1>3. ~Revealing(m, w, hits)
  <2>1. DOMAIN w = 1..Len(w)
    OBVIOUS
  <2> QED
    BY <2>1 DEF Revealing, Clean
<1>4. m \notin Secret
  BY DEF Clean
<1>5. config = "all" \/ Choose(m, w, hits) = "rule-based"
  BY <1>2 DEF Choose, Preferred, Supports
<1>6. Choose(m, w, hits) = "openai-compatible" => config = "all"
  BY <1>5
<1> QED
  BY <1>3, <1>4, <1>6 DEF FailsAtOnce

\* The last entries, as many as questions have stalled, are short and hold no personal
\* data.
TailIsClean ==
  \A i \in 1..Len(log) : i > Len(log) - stalled => log[i].size <= Short /\ ~log[i].secret

\* What StallsPass needs: the messages after the last answer are blameless.
StallInv == TypeOK /\ TailIsClean /\ StallsPass

\* One more such entry.
LEMMA CleanTailGrows ==
  ASSUME TypeOK, TailIsClean, NEW e \in Entry, e.size <= Short, ~e.secret
  PROVE  LET r == Last(Append(log, e), MaxLog) IN
         \A i \in 1..Len(r) : i > Len(r) - (stalled + 1) => r[i].size <= Short /\ ~r[i].secret
<1> DEFINE r == Last(Append(log, e), MaxLog)
<1>1. /\ r \in Seq(Entry) /\ r[Len(r)] = e
      /\ \A i \in 1..(Len(r) - 1) : i + Len(log) + 1 - Len(r) \in 1..Len(log)
                                    /\ r[i] = log[i + Len(log) + 1 - Len(r)]
  BY ZenonT(30), LogAtEnd DEF TypeOK
<1> HIDE DEF r
<1>2. Len(r) \in Nat /\ Len(log) \in Nat /\ stalled \in Nat
  BY <1>1 DEF TypeOK
<1> SUFFICES ASSUME NEW i \in 1..Len(r), i > Len(r) - (stalled + 1)
             PROVE  r[i].size <= Short /\ ~r[i].secret
  BY DEF r
<1>3. CASE i = Len(r)
  BY <1>1, <1>3
<1>4. CASE i \in 1..(Len(r) - 1)
  <2> DEFINE j == i + Len(log) + 1 - Len(r)
  <2>1. j \in 1..Len(log) /\ r[i] = log[j]
    BY <1>1, <1>4
  <2>2. j > Len(log) - stalled
    BY <1>2, <1>4
  <2> QED
    BY <2>1, <2>2 DEF TailIsClean
<1> QED
  BY <1>2, <1>3, <1>4

\* StallInv is preserved by every step.
LEMMA StallStep ==
  ASSUME StallInv, [Next]_vars
  PROVE  StallInv'
<1>0. /\ TypeOK /\ TypeOK' /\ Window \in Nat \ {0} /\ stalled \in Nat
      /\ log \in Seq(Entry) /\ log' \in Seq(Entry)
  BY TypeStep, ChatAssumption DEF StallInv, TypeOK
<1>1. ASSUME stalled' = 0 PROVE StallInv'
  BY <1>0, <1>1 DEF StallInv, TailIsClean, StallsPass
<1>2. ASSUME NEW c \in Task, NEW m \in Message, FailAtOnce(c, m) PROVE StallInv'
  <2>1. Ask(c, m) /\ log' = Last(Append(log, Question(m, turns')), MaxLog)
    BY <1>2 DEF FailAtOnce, Logged
  <2>2. PICK hits \in Hits(m, memories') :
          /\ FailsAtOnce(m, Recent(log'), hits)
          /\ stalled' = IF Clean(m) /\ \A h \in hits : Clean(h) THEN stalled + 1 ELSE 0
    BY <1>2 DEF FailAtOnce
  <2>3. CASE Clean(m) /\ \A h \in hits : Clean(h)
    <3> DEFINE q == Question(m, turns')
    <3>1. q \in Entry /\ q.size <= Short /\ ~q.secret
      BY <1>0, <2>1, <2>3, AskTypes DEF Question, Clean
    <3> HIDE DEF q
    <3>2. stalled' = stalled + 1
      BY <2>2, <2>3
    <3>3. TailIsClean'
      BY <1>0, <2>1, <3>1, <3>2, CleanTailGrows DEF TailIsClean, StallInv, q
    <3>4. stalled' # Window
      <4> SUFFICES ASSUME stalled' = Window PROVE FALSE
        OBVIOUS
      <4> DEFINE w == Last(log', Window)
      <4>1. /\ w \in Seq(Entry) /\ Len(w) <= Window /\ Len(w) <= Len(log')
            /\ \A i \in 1..Len(w) : w[i] = log'[i + Len(log') - Len(w)]
        BY <1>0, LastIsSuffix
      <4> HIDE DEF w
      <4>2. ASSUME NEW i \in 1..Len(w) PROVE w[i].size <= Short /\ ~w[i].secret
        <5>1. i + Len(log') - Len(w) \in 1..Len(log')
          BY <1>0, <4>1
        <5>2. i + Len(log') - Len(w) > Len(log') - stalled'
          BY <1>0, <4>1
        <5> QED
          BY <3>3, <4>1, <5>1, <5>2 DEF TailIsClean
      <4>3. memories' \in SUBSET Message
        BY <1>0 DEF TypeOK
      <4>4. ~FailsAtOnce(m, w, hits)
        BY <2>3, <4>1, <4>2, <4>3, BlamelessPasses
      <4> QED
        BY <2>2, <4>4 DEF Recent, w
    <3> QED
      BY <1>0, <3>2, <3>3, <3>4 DEF StallInv, StallsPass
  <2>4. CASE ~(Clean(m) /\ \A h \in hits : Clean(h))
    BY <1>1, <2>2, <2>4
  <2> QED
    BY <2>3, <2>4
<1>3. ASSUME NEW c \in Task, NEW m \in Message, GoOut(c, m) PROVE StallInv'
  <2>1. /\ Ask(c, m) /\ log' = Last(Append(log, Question(m, turns')), MaxLog)
        /\ stalled' = IF Clean(m) THEN stalled ELSE 0
    BY <1>3 DEF GoOut, Logged
  <2>2. CASE Clean(m)
    <3> DEFINE q == Question(m, turns')
    <3>1. q \in Entry /\ q.size <= Short /\ ~q.secret
      BY <1>0, <2>1, <2>2, AskTypes DEF Question, Clean
    <3> HIDE DEF q
    <3>2. \A i \in 1..Len(log') : i > Len(log') - (stalled + 1) => log'[i].size <= Short /\ ~log'[i].secret
      BY <1>0, <2>1, <3>1, CleanTailGrows DEF StallInv, q
    <3>3. TailIsClean'
      BY <1>0, <2>1, <2>2, <3>2 DEF TailIsClean
    <3> QED
      BY <1>0, <2>1, <2>2, <3>3 DEF StallInv, StallsPass
  <2>3. CASE ~Clean(m)
    BY <1>1, <2>1, <2>3
  <2> QED
    BY <2>2, <2>3
<1>4. ASSUME NEW c \in Task, NEW m \in Message, AnswerAtOnce(c, m) PROVE StallInv'
  BY <1>1, <1>4 DEF AnswerAtOnce
<1>5. ASSUME NEW c \in Task, Return(c) PROVE StallInv'
  BY <1>1, <1>5 DEF Return
<1>6. ASSUME UNCHANGED <<log, stalled>> PROVE StallInv'
  BY <1>0, <1>6 DEF StallInv, TailIsClean, StallsPass
<1>7. ASSUME NEW c \in Task, Fail(c) PROVE StallInv'
  BY <1>6, <1>7 DEF Fail
<1>8. ASSUME NEW m \in Message, Remember(m) PROVE StallInv'
  BY <1>6, <1>8 DEF Remember
<1>9. CASE Restart
  BY <1>6, <1>9 DEF Restart
<1>10. CASE UNCHANGED vars
  BY <1>6, <1>10 DEF vars
<1> QED
  BY <1>2, <1>3, <1>4, <1>5, <1>7, <1>8, <1>9, <1>10 DEF Next

\* For any window and recall within which short entries fit the context of the rules: a
\* conversation does not get stuck, whatever long answers or personal data are in its log
\* (ProviderRouter.chat and the [-6:] of _build_context).
THEOREM StallsAlwaysPass == Spec => []StallsPass
<1>1. Init => StallInv
  <2> SUFFICES ASSUME Init PROVE StallInv
    OBVIOUS
  <2>1. TypeOK /\ stalled = 0 /\ log = <<>> /\ Window \in Nat \ {0}
    BY TypeInit, ChatAssumption DEF Init
  <2> QED
    BY <2>1 DEF StallInv, TailIsClean, StallsPass
<1>2. StallInv /\ [Next]_vars => StallInv'
  BY StallStep
<1>3. StallInv => StallsPass
  BY DEF StallInv
<1> QED
  BY <1>1, <1>2, <1>3, PTL DEF Spec

-----------------------------------------------------------------------------
(***************************************************************************)
(* AgentPlans.  First, what build_plan makes.                               *)
(***************************************************************************)

\* Steps as build_plan makes them, and those of them that send no command of a plan.
Fresh == {s \in AStep : s.status = "planned"}
Deviceless == {s \in Fresh : s.tool # "android.control"}

\* Only the first step of a list controls the device.
Led(s) == s \in Seq(Fresh) /\ \A i \in 2..Len(s) : s[i].tool # "android.control"

\* Steps that do not control the device may be added to a list that is led.
LEMMA Extending ==
  ASSUME NEW s, Led(s), NEW t \in Seq(Deviceless)
  PROVE  Led(s \o t)
<1>1. s \in Seq(Fresh) /\ t \in Seq(Fresh)
  <2> Deviceless \subseteq Fresh
    BY DEF Deviceless
  <2> QED
    BY SeqMonotonic DEF Led
<1>2. s \o t \in Seq(Fresh) /\ Len(s \o t) = Len(s) + Len(t)
  BY <1>1, ConcatProperties
<1>3. ASSUME NEW i \in 2..Len(s) + Len(t) PROVE (s \o t)[i].tool # "android.control"
  <2>1. Len(s) \in Nat /\ Len(t) \in Nat
    BY <1>1
  <2>2. i \in 1..Len(s) + Len(t)
    BY <2>1
  <2>3. (s \o t)[i] = IF i <= Len(s) THEN s[i] ELSE t[i - Len(s)]
    BY <1>1, <2>2, ConcatProperties
  <2>4. CASE i <= Len(s)
    BY <2>1, <2>3, <2>4 DEF Led
  <2>5. CASE ~(i <= Len(s))
    <3>1. i - Len(s) \in 1..Len(t)
      BY <2>1, <2>5
    <3>2. t[i - Len(s)] \in Deviceless
      BY <3>1, ElementOfSeq
    <3> QED
      BY <2>3, <2>5, <3>2 DEF Deviceless
  <2> QED
    BY <2>4, <2>5
<1> QED
  BY <1>2, <1>3 DEF Led

\* No steps are led, and so is one step that is planned.
LEMMA LedAlone == Led(<<>>) /\ \A s \in Fresh : Led(<<s>>)
BY DEF Led

\* Steps of other tools, taken on a condition, do not control the device.
LEMMA PlainOnes ==
  ASSUME NEW c \in BOOLEAN,
         NEW tool \in {None, "git.status", "filesystem.read", "github.search", "web.search",
                       "android.accessibility_dump"}
  PROVE  If(c, Step(tool, None, None)) \in Seq(Deviceless)
<1>1. Step(tool, None, None) \in Deviceless
  BY DEF Step, Deviceless, Fresh, AStep, None
<1> QED
  BY <1>1 DEF If

\* The lowest number of an action that is asked for.
LEMMA ForemostFacts ==
  ASSUME NEW S \in SUBSET (1..5), S # {}
  PROVE  Foremost(S) \in 1..5
<1>1. \E n \in S : \A k \in S : n <= k
  <2>1. CASE 1 \in S
    BY <2>1
  <2>2. CASE 1 \notin S /\ 2 \in S
    BY <2>2
  <2>3. CASE 1 \notin S /\ 2 \notin S /\ 3 \in S
    BY <2>3
  <2>4. CASE 1 \notin S /\ 2 \notin S /\ 3 \notin S /\ 4 \in S
    BY <2>4
  <2>5. CASE 1 \notin S /\ 2 \notin S /\ 3 \notin S /\ 4 \notin S
    <3>1. \A k \in S : k = 5
      BY <2>5
    <3>2. 5 \in S
      BY <3>1
    <3> QED
      BY <3>1, <3>2
  <2> QED
    BY <2>1, <2>2, <2>3, <2>4, <2>5
<1>2. Foremost(S) \in S
  BY <1>1 DEF Foremost
<1> QED
  BY <1>2

\* What build_plan asks of the device is one step, or none.
LEMMA DeviceSteps ==
  ASSUME NEW g \in Goals, snapshot \in Package \cup {None, NoSnapshot}
  PROVE  Led(DeviceStep(g))
<1> DEFINE asked == {i \in DOMAIN Navigation : Navigation[i] \in g.asks}
<1>1. DOMAIN Navigation = 1..5
  BY DEF Navigation
<1>2. \A p \in Package \cup {None} : Step("android.control", "open", p) \in Fresh
  BY DEF Step, Fresh, AStep
<1>3. CASE asked # {}
  <2>1. Foremost(asked) \in DOMAIN Navigation
    BY <1>1, <1>3, ForemostFacts
  <2> DEFINE step == Step("android.control", Navigation[Foremost(asked)], None)
  <2>2. step \in Fresh
    BY <2>1, <1>1 DEF Step, Fresh, AStep
  <2>3. DeviceStep(g) = <<step>>
    BY <1>3 DEF DeviceStep
  <2> HIDE DEF step
  <2> QED
    BY <2>2, <2>3, LedAlone
<1>4. CASE asked = {}
  <2>1. Match(g) \in Package \cup {None}
    BY PlansAssumption DEF Match
  <2> DEFINE step == Step("android.control", "open", Match(g))
  <2>2. step \in Fresh
    BY <1>2, <2>1
  <2>3. DeviceStep(g) = <<step>> \/ DeviceStep(g) = <<>>
    BY <1>4 DEF DeviceStep, If
  <2> HIDE DEF step
  <2> QED
    BY <2>2, <2>3, LedAlone
<1> QED
  BY <1>3, <1>4

\* Every list of steps build_plan may make is led.
LEMMA CandidatesAreLed ==
  ASSUME NEW g \in Goals, snapshot \in Package \cup {None, NoSnapshot}, android \in BOOLEAN
  PROVE  Led(Candidates(g))
<1> DEFINE D == IF android THEN DeviceStep(g) ELSE <<>>
           A == If("git" \in g.asks, Step("git.status", None, None))
           B == If("file" \in g.asks, Step("filesystem.read", None, None))
           C == If("github" \in g.asks, Step("github.search", None, None))
           E == If("search" \in g.asks, Step("web.search", None, None))
           F == If(snapshot = NoSnapshot /\ android /\ "screen" \in g.asks,
                   Step("android.accessibility_dump", None, None))
<1>1. Led(D)
  <2> QED
    BY LedAlone, DeviceSteps
<1>2. A \in Seq(Deviceless) /\ B \in Seq(Deviceless) /\ C \in Seq(Deviceless) /\ E \in Seq(Deviceless) /\ F \in Seq(Deviceless)
  <2>1. ("git" \in g.asks) \in BOOLEAN /\ ("file" \in g.asks) \in BOOLEAN
        /\ ("github" \in g.asks) \in BOOLEAN /\ ("search" \in g.asks) \in BOOLEAN
        /\ (snapshot = NoSnapshot /\ android /\ "screen" \in g.asks) \in BOOLEAN
    OBVIOUS
  <2> QED
    BY <2>1, PlainOnes
<1>3. Candidates(g) = ((((D \o A) \o B) \o C) \o E) \o F
  BY DEF Candidates
<1> HIDE DEF D, A, B, C, E, F
<1>4. Led((((D \o A) \o B) \o C) \o E)
  <2>1. Led(D \o A)
    BY <1>1, <1>2, Extending
  <2>2. Led((D \o A) \o B)
    BY <2>1, <1>2, Extending
  <2>3. Led(((D \o A) \o B) \o C)
    BY <2>2, <1>2, Extending
  <2> QED
    BY <2>3, <1>2, Extending
<1> QED
  BY <1>2, <1>3, <1>4, Extending

\* What build_plan makes: at least one step, all of them to be done, and only the first one
\* a command of the plan to the device.
LEMMA BuiltFacts ==
  ASSUME NEW r \in Requests, snapshot \in Package \cup {None, NoSnapshot}, android \in BOOLEAN
  PROVE  Led(Built(r)) /\ Len(Built(r)) \in Nat \ {0}
<1> DEFINE c == Candidates(r.goal)
           s == First(c, r.max)
<1>1. Led(c)
  BY CandidatesAreLed DEF Requests
<1>2. r.max \in Nat
  BY PlansAssumption DEF Requests
<1>3. Built(r) = IF s # <<>> THEN s ELSE <<Step(None, None, None)>>
  BY DEF Built
<1>4. s = SubSeq(c, 1, IF Len(c) <= r.max THEN Len(c) ELSE r.max)
  BY DEF First
<1> HIDE DEF c, s
<1>5. Led(s) /\ Len(s) \in Nat
  <2> c \in Seq(Fresh)
    BY <1>1 DEF Led
  <2> QED
    BY <1>1, <1>2, <1>4 DEF Led
<1>6. Led(<<Step(None, None, None)>>)
  <2> Step(None, None, None) \in Fresh
    BY DEF Step, Fresh, AStep, None
  <2> QED
    BY LedAlone
<1>7. s # <<>> => Len(s) # 0
  BY <1>5 DEF Led
<1> QED
  BY <1>3, <1>5, <1>6, <1>7

(***************************************************************************)
(* The types and the numbers of plans.                                      *)
(***************************************************************************)
StepEntry == [plan : Nat, step : Nat, status : {"planned", "completed"}]
StoredPlan == [id : Nat, safe : BOOLEAN, steps : Seq(AStep), executed : BOOLEAN]
Underway == [id : Nat, request : Requests, steps : Seq(AStep), next : Nat]

\* The types of the state, with the plans that are stored and the one that is under way.
Types ==
  /\ android \in BOOLEAN /\ adb \in BOOLEAN /\ modeB \in BOOLEAN /\ shell \in BOOLEAN
  /\ snapshot \in Package \cup {None, NoSnapshot}
  /\ started \in Nat
  /\ timelines \in Seq(StepEntry) /\ plans \in Seq(StoredPlan) /\ effects \in Seq(Nat)
  /\ Idle \/ plan \in Underway

\* Plan n is stored, or older than all of a full store.
InTurn(store) == \A i, j \in DOMAIN store : i < j => store[i].id < store[j].id
Accounted(store, n) ==
  \/ \E k \in DOMAIN store : store[k].id = n
  \/ Full(store) /\ n < store[1].id

\* A plan under way is the last one that was asked for, and every other one is lost or
\* accounted for by the store; a record, an effect or an abandoned command is of a plan
\* that was asked for.
Numbers ==
  /\ abandoned \subseteq lost /\ lost \subseteq 1..started
  /\ InTurn(plans)
  /\ \A k \in DOMAIN plans : plans[k].id \in 1..started /\ plans[k].id \notin lost
  /\ \A n \in 1..started : n \in lost \/ plan.id = n \/ Accounted(plans, n)
  /\ MaxLogEntries # 0 => Len(plans) <= MaxLogEntries /\ Len(timelines) <= MaxLogEntries
  /\ \A i \in DOMAIN timelines : timelines[i].plan \in 1..started
  /\ \A i \in DOMAIN effects : effects[i] \in 1..started
  /\ ~Idle => /\ plan.id = started /\ started # 0 /\ plan.next \in 1..Len(plan.steps) + 1
              /\ plan.id \notin lost /\ \A k \in DOMAIN plans : plans[k].id # plan.id

\* Types, and the numbers that plans and runs have.
PInv == Types /\ Numbers

\* The step that is next.
LEMMA CurrentFacts ==
  ASSUME PInv, Running
  PROVE  /\ plan \in Underway /\ plan.id = started /\ started # 0
         /\ plan.next \in 1..Len(plan.steps) /\ Len(plan.steps) \in Nat
         /\ Current = plan.steps[plan.next] /\ Current \in AStep
<1>1. ~Idle /\ plan.next <= Len(plan.steps)
  BY DEF Running
<1>2. plan \in Underway /\ plan.id = started /\ started # 0 /\ plan.next \in 1..Len(plan.steps) + 1
  BY <1>1 DEF PInv, Types, Numbers
<1>3. plan.steps \in Seq(AStep) /\ plan.next \in Nat
  BY <1>2 DEF Underway
<1>4. plan.next \in 1..Len(plan.steps) /\ Len(plan.steps) \in Nat
  BY <1>1, <1>2, <1>3
<1> QED
  BY <1>2, <1>3, <1>4, ElementOfSeq DEF Current

\* What appending does to a sequence.
LEMMA Appended ==
  ASSUME NEW S, NEW s \in Seq(S), NEW e \in S
  PROVE  /\ Append(s, e) \in Seq(S) /\ Len(s) + 1 \notin DOMAIN s
         /\ DOMAIN Append(s, e) = DOMAIN s \cup {Len(s) + 1}
         /\ \A i \in DOMAIN s : Append(s, e)[i] = s[i] /\ i < Len(s) + 1
         /\ Append(s, e)[Len(s) + 1] = e
OBVIOUS

\* A log with an entry more: it may have lost some at its head, if it is full.
LEMMA Cutting ==
  ASSUME NEW S, NEW s \in Seq(S), NEW e \in S
  PROVE  LET kept == Cut(Append(s, e)) IN
         /\ kept \in Seq(S) /\ (MaxLogEntries # 0 => Len(kept) <= MaxLogEntries)
         /\ \E d \in 0..Len(s) :
              /\ Len(kept) = Len(s) + 1 - d
              /\ \A i \in 1..Len(s) - d : kept[i] = s[i + d]
              /\ kept[Len(s) + 1 - d] = e
              /\ d # 0 => Full(kept)
<1> DEFINE more == Append(s, e)
           d == Len(more) - MaxLogEntries
<1>1. /\ more \in Seq(S) /\ Len(more) = Len(s) + 1 /\ more[Len(s) + 1] = e
      /\ \A i \in 1..Len(s) : more[i] = s[i]
  OBVIOUS
<1>2. Len(s) \in Nat /\ MaxLogEntries \in Nat
  BY PlansAssumption
<1> HIDE DEF more
<1>3. CASE MaxLogEntries = 0 \/ Len(more) <= MaxLogEntries
  <2>1. Cut(more) = more
    BY <1>3 DEF Cut
  <2>2. 0 \in 0..Len(s) /\ \A i \in 1..Len(s) - 0 : i + 0 = i
    BY <1>2
  <2>3. \A i \in 1..Len(s) - 0 : more[i] = s[i + 0]
    BY <1>1, <1>2
  <2> QED
    BY <1>1, <1>2, <1>3, <2>1, <2>2, <2>3 DEF more
<1>4. CASE ~(MaxLogEntries = 0 \/ Len(more) <= MaxLogEntries)
  <2>1. Cut(more) = SubSeq(more, d + 1, Len(more))
    BY <1>1, <1>2, <1>4 DEF Cut
  <2>2. d \in 1..Len(s) /\ d # 0 /\ Len(more) - d = MaxLogEntries /\ d + 1 \in 1..Len(more)
    BY <1>1, <1>2, <1>4
  <2> HIDE DEF d
  <2>3. /\ Cut(more) \in Seq(S) /\ Len(Cut(more)) = Len(more) - d
        /\ \A i \in 1..Len(more) - d : Cut(more)[i] = more[i + d]
    BY SMTT(30), <1>1, <2>1, <2>2
  <2>4. d \in 0..Len(s) /\ Len(Cut(more)) = Len(s) + 1 - d /\ Full(Cut(more))
    BY <1>1, <1>2, <1>4, <2>2, <2>3 DEF Full
  <2>5. \A i \in 1..Len(s) - d : i \in 1..Len(more) - d /\ i + d \in 1..Len(s)
    BY <1>1, <1>2, <2>2
  <2>6. \A i \in 1..Len(s) - d : Cut(more)[i] = s[i + d]
    BY <1>1, <2>3, <2>5
  <2>7. Cut(more)[Len(s) + 1 - d] = e
    BY <1>1, <1>2, <2>2, <2>3, SMTT(30)
  <2> QED
    BY <2>2, <2>3, <2>4, <2>6, <2>7 DEF more
<1> QED
  BY <1>3, <1>4

\* The latest plan is stored, and no other one is lost sight of.
LEMMA Keeping ==
  ASSUME NEW s \in Seq(StoredPlan), InTurn(s), NEW p \in StoredPlan,
         \A k \in DOMAIN s : s[k].id < p.id
  PROVE  LET kept == Cut(Append(s, p)) IN
         /\ kept \in Seq(StoredPlan) /\ InTurn(kept)
         /\ MaxLogEntries # 0 => Len(kept) <= MaxLogEntries
         /\ \A k \in DOMAIN kept : kept[k] = p \/ \E i \in DOMAIN s : kept[k] = s[i]
         /\ Accounted(kept, p.id)
         /\ \A n \in Nat : Accounted(s, n) => Accounted(kept, n)
<1> DEFINE kept == Cut(Append(s, p))
<1>1. kept \in Seq(StoredPlan) /\ (MaxLogEntries # 0 => Len(kept) <= MaxLogEntries)
  BY Cutting
<1>2. PICK d \in 0..Len(s) : /\ Len(kept) = Len(s) + 1 - d
                             /\ \A i \in 1..Len(s) - d : kept[i] = s[i + d]
                             /\ kept[Len(s) + 1 - d] = p
                             /\ d # 0 => Full(kept)
  BY Cutting
<1> HIDE DEF kept
<1>3. /\ Len(s) \in Nat /\ DOMAIN s = 1..Len(s) /\ DOMAIN kept = 1..Len(s) + 1 - d
      /\ p.id \in Nat /\ \A k \in 1..Len(s) : s[k].id \in Nat
  <2> \A k \in 1..Len(s) : s[k] \in StoredPlan
    BY ElementOfSeq
  <2> QED
    BY <1>1, <1>2, SMTT(30) DEF StoredPlan
<1>4. ASSUME NEW k \in DOMAIN kept, k # Len(s) + 1 - d
      PROVE  k \in Nat /\ k + d \in 1..Len(s) /\ kept[k] = s[k + d]
  <2>1. k \in 1..Len(s) - d /\ k + d \in 1..Len(s)
    BY <1>3, <1>4
  <2> QED
    BY <1>2, <2>1
<1>5. \A k \in DOMAIN kept : kept[k] = p \/ \E i \in DOMAIN s : kept[k] = s[i]
  BY <1>2, <1>3, <1>4
<1>6. InTurn(kept)
  <2> SUFFICES ASSUME NEW i \in DOMAIN kept, NEW j \in DOMAIN kept, i < j
               PROVE  kept[i].id < kept[j].id
    BY DEF InTurn
  <2>0. i # Len(s) + 1 - d
    BY <1>3
  <2>1. i \in Nat /\ i + d \in 1..Len(s) /\ kept[i] = s[i + d]
    BY <1>4, <2>0
  <2>2. CASE j = Len(s) + 1 - d
    BY <1>2, <1>3, <2>1, <2>2
  <2>3. CASE j # Len(s) + 1 - d
    <3>1. j \in Nat /\ j + d \in 1..Len(s) /\ kept[j] = s[j + d]
      BY <1>4, <2>3
    <3>2. i + d < j + d
      BY <2>1, <3>1
    <3> QED
      BY <1>3, <2>1, <3>1, <3>2 DEF InTurn
  <2> QED
    BY <2>2, <2>3
<1>7. Accounted(kept, p.id)
  <2> Len(s) + 1 - d \in DOMAIN kept
    BY <1>3
  <2> QED
    BY <1>2 DEF Accounted
<1>8. ASSUME NEW n \in Nat, NEW k \in 1..Len(s), n <= s[k].id, k <= d
      PROVE  Full(kept) /\ n < kept[1].id
  <2>1. d # 0 /\ 1 \in 1..Len(s) + 1 - d
    BY <1>3, <1>8
  <2>2. s[k].id < kept[1].id
    <3>1. CASE d = Len(s)
      BY <1>2, <1>3, <3>1
    <3>2. CASE d # Len(s)
      <4> 1 \in 1..Len(s) - d /\ 1 + d \in 1..Len(s) /\ k < 1 + d
        BY <1>3, <1>8, <3>2
      <4> QED
        BY <1>2, <1>3 DEF InTurn
    <3> QED
      BY <3>1, <3>2
  <2>3. kept[1].id \in Nat
    <3> kept[1] \in StoredPlan
      BY <1>1, <1>3, <2>1, ElementOfSeq
    <3> QED
      BY DEF StoredPlan
  <2> QED
    BY <1>2, <1>3, <1>8, <2>1, <2>2, <2>3
<1>9. ASSUME NEW n \in Nat, Accounted(s, n)
      PROVE  Accounted(kept, n)
  <2>1. ASSUME NEW k \in DOMAIN s, s[k].id = n PROVE Accounted(kept, n)
    <3>1. CASE k <= d
      BY <1>3, <1>8, <2>1, <3>1 DEF Accounted
    <3>2. CASE ~(k <= d)
      <4> k - d \in 1..Len(s) - d /\ k - d \in DOMAIN kept /\ (k - d) + d = k
        BY <1>3, <3>2
      <4> QED
        BY <1>2, <2>1 DEF Accounted
    <3> QED
      BY <3>1, <3>2
  <2>2. ASSUME Full(s), n < s[1].id PROVE Accounted(kept, n)
    <3>1. MaxLogEntries \in Nat \ {0} /\ Len(s) >= MaxLogEntries
      BY <2>2, PlansAssumption DEF Full
    <3>2. 1 \in 1..Len(s) /\ 1 <= d /\ n <= s[1].id
      BY <1>1, <1>2, <1>3, <2>2, <3>1
    <3> QED
      BY <1>8, <3>2 DEF Accounted
  <2> QED
    BY <1>9, <2>1, <2>2 DEF Accounted
<1> QED
  BY <1>1, <1>5, <1>6, <1>7, <1>9 DEF kept

\* What is stored after a plan is.
LEMMA StoredOnes ==
  ASSUME NEW s \in Seq(StoredPlan), NEW p \in StoredPlan
  PROVE  \A k \in DOMAIN Cut(Append(s, p)) :
           Cut(Append(s, p))[k] = p \/ \E i \in DOMAIN s : Cut(Append(s, p))[k] = s[i]
<1> DEFINE kept == Cut(Append(s, p))
<1>1. kept \in Seq(StoredPlan)
  BY Cutting
<1>2. PICK d \in 0..Len(s) : /\ Len(kept) = Len(s) + 1 - d
                             /\ \A i \in 1..Len(s) - d : kept[i] = s[i + d]
                             /\ kept[Len(s) + 1 - d] = p
  BY Cutting
<1> HIDE DEF kept
<1>3. \A k \in DOMAIN kept : k = Len(s) + 1 - d \/ (k \in 1..Len(s) - d /\ k + d \in DOMAIN s)
  BY <1>1, <1>2
<1> QED
  BY <1>2, <1>3 DEF kept

\* A request keeps the types and numbers.
LEMMA Requesting ==
  ASSUME PInv, NEW r \in Requests, Request(r)
  PROVE  PInv'
<1> DEFINE new == [id |-> started + 1, request |-> r, steps |-> Built(r), next |-> 1]
<1>1. Built(r) \in Seq(AStep) /\ Len(Built(r)) \in Nat \ {0}
  <2>1. Led(Built(r)) /\ Len(Built(r)) \in Nat \ {0}
    BY BuiltFacts DEF PInv, Types
  <2>2. Built(r) \in Seq(Fresh) /\ Fresh \subseteq AStep
    BY <2>1 DEF Led, Fresh
  <2> QED
    BY <2>1, <2>2, SeqMonotonic
<1>2. started' = started + 1 /\ started \in Nat /\ Idle /\ plan.id = 0
  BY DEF Request, PInv, Types, Idle, NoPlan
<1>3. UNCHANGED <<settings, snapshot, timelines, device, lost>>
  BY DEF Request
<1>4. CASE r.auto
  <2>1. plan' = new /\ plans' = plans
    BY <1>2, <1>4 DEF Request
  <2>2. new \in Underway /\ new.id = started + 1 /\ new.next \in 1..Len(new.steps) + 1
    BY <1>1, <1>2 DEF Underway
  <2> HIDE DEF new
  <2>3. Types'
    BY <1>2, <1>3, <2>1, <2>2 DEF PInv, Types, settings, device
  <2>4. Numbers'
    <3>1. UNCHANGED <<plans, abandoned, lost, timelines, effects>> /\ plan'.id = started + 1
      BY <1>3, <2>1, <2>2 DEF device
    <3>2. 1..started' = 1..started \cup {started + 1} /\ started + 1 \notin 1..started
      BY <1>2
    <3>3. \A n \in 1..started' : n \in lost' \/ plan'.id = n \/ Accounted(plans', n)
      <4> 0 \notin 1..started
        BY <1>2
      <4> QED
        BY <1>2, <3>1, <3>2 DEF PInv, Numbers
    <3> QED
      BY <1>2, <2>1, <2>2, <3>1, <3>2, <3>3 DEF PInv, Types, Numbers
  <2> QED
    BY <2>3, <2>4 DEF PInv
<1>5. CASE ~r.auto
  <2> DEFINE kept == [id |-> started + 1, safe |-> r.safe, steps |-> Built(r), executed |-> FALSE]
  <2>1. plans' = Cut(Append(plans, kept)) /\ plan' = plan
    BY <1>2, <1>5 DEF Request, Stored
  <2>2. kept \in StoredPlan /\ kept.id = started + 1
    BY <1>1, <1>2 DEF StoredPlan, Requests
  <2> HIDE DEF kept
  <2>3. 1..started' = 1..started \cup {started + 1} /\ started + 1 \notin 1..started /\ 1..started' \subseteq Nat
    BY <1>2
  <2>4. /\ plans' \in Seq(StoredPlan) /\ InTurn(plans')
        /\ MaxLogEntries # 0 => Len(plans') <= MaxLogEntries
        /\ \A k \in DOMAIN plans' : plans'[k] = kept \/ \E i \in DOMAIN plans : plans'[k] = plans[i]
        /\ Accounted(plans', started + 1)
        /\ \A n \in Nat : Accounted(plans, n) => Accounted(plans', n)
    <3> plans \in Seq(StoredPlan) /\ InTurn(plans) /\ \A k \in DOMAIN plans : plans[k].id < kept.id
      BY <1>2, <2>2 DEF PInv, Types, Numbers
    <3> QED
      BY <2>1, <2>2, Keeping
  <2>5. UNCHANGED <<abandoned, lost, timelines, effects>>
    BY <1>3 DEF device
  <2>6. Types'
    BY <1>2, <1>3, <2>1, <2>4, <2>5 DEF PInv, Types, settings, Idle
  <2>7. Numbers'
    <3>1. /\ abandoned' \subseteq lost' /\ lost' \subseteq 1..started'
          /\ \A i \in DOMAIN timelines' : timelines'[i].plan \in 1..started'
          /\ \A i \in DOMAIN effects' : effects'[i] \in 1..started'
          /\ MaxLogEntries # 0 => Len(timelines') <= MaxLogEntries
      BY <2>3, <2>5 DEF PInv, Numbers
    <3>2. \A k \in DOMAIN plans' : plans'[k].id \in 1..started' /\ plans'[k].id \notin lost'
      BY <2>2, <2>3, <2>4, <2>5 DEF PInv, Numbers
    <3>3. \A n \in 1..started' : n \in lost' \/ plan'.id = n \/ Accounted(plans', n)
      BY <2>1, <2>3, <2>4, <2>5 DEF PInv, Numbers
    <3>4. Idle'
      BY <1>2, <2>1 DEF Idle
    <3> QED
      BY <2>4, <3>1, <3>2, <3>3, <3>4 DEF Numbers
  <2> QED
    BY <2>6, <2>7 DEF PInv
<1> QED
  BY <1>4, <1>5

\* A step that leaves the numbers and the plans that are over as they were.
LEMMA Advancing ==
  ASSUME PInv, Running, NEW steps \in Seq(AStep), Len(steps) = Len(plan.steps),
         plan' = [plan EXCEPT !.steps = steps, !.next = @ + 1]
  PROVE  /\ plan' \in Underway /\ plan'.id = plan.id /\ plan'.id # 0 /\ ~(Idle')
         /\ plan'.next \in 1..Len(plan'.steps) + 1
<1>1. plan \in Underway /\ plan.id # 0 /\ plan.next \in 1..Len(plan.steps) /\ Len(plan.steps) \in Nat
  BY CurrentFacts DEF Underway
<1>2. plan' = [id |-> plan.id, request |-> plan.request, steps |-> steps, next |-> plan.next + 1]
  BY <1>1 DEF Underway
<1> QED
  BY <1>1, <1>2 DEF Underway, Idle, NoPlan

\* A step that is skipped keeps the types and numbers.
LEMMA Skipping ==
  ASSUME PInv, Skip
  PROVE  PInv'
<1>1. plan.steps \in Seq(AStep) /\ plan \in Underway
  BY CurrentFacts DEF Skip, Underway
<1>2. plan' = [plan EXCEPT !.steps = plan.steps, !.next = @ + 1]
  BY <1>1 DEF Skip, Underway
<1>3. /\ plan' \in Underway /\ plan'.id = plan.id /\ plan'.id # 0 /\ ~(Idle')
      /\ plan'.next \in 1..Len(plan'.steps) + 1
  BY <1>1, <1>2, Advancing DEF Skip
<1>4. ~Idle /\ UNCHANGED <<settings, snapshot, started, records, device, lost>>
  BY DEF Skip, Running
<1>5. Types'
  BY <1>3, <1>4 DEF PInv, Types, settings, records, device
<1>6. Numbers'
  BY <1>3, <1>4 DEF PInv, Numbers, records, device
<1> QED
  BY <1>5, <1>6 DEF PInv

\* The commands of a plan are numbered with it.
LEMMA DoneFacts ==
  ASSUME PInv, Running
  PROVE  /\ effects \o Done \in Seq(Nat)
         /\ effects \o Done = effects \/ effects \o Done = Append(effects, plan.id)
<1>1. plan.id \in Nat /\ effects \in Seq(Nat)
  BY CurrentFacts DEF Underway, PInv, Types
<1>2. Done = <<>> \/ Done = <<plan.id>>
  BY DEF Done
<1>3. Append(effects, plan.id) \in Seq(Nat) /\ effects \o <<plan.id>> = Append(effects, plan.id)
  BY <1>1, AppendIsConcat
<1>4. effects \o <<>> = effects
  BY <1>1, ConcatEmptySeq
<1> QED
  BY <1>1, <1>2, <1>3, <1>4

\* Effects and attempts are of plans that have been numbered.
LEMMA EffectNumbers ==
  ASSUME PInv, started' = started, NEW id \in 1..started,
         effects' = effects \/ effects' = Append(effects, id)
  PROVE  effects' \in Seq(Nat) /\ \A i \in DOMAIN effects' : effects'[i] \in 1..started
<1>1. effects \in Seq(Nat) /\ \A i \in DOMAIN effects : effects[i] \in 1..started
  BY DEF PInv, Types, Numbers
<1>2. id \in Nat
  BY DEF PInv, Types
<1>3. CASE effects' = effects
  BY <1>1, <1>3
<1>4. CASE effects' = Append(effects, id)
  <2>1. /\ effects' \in Seq(Nat) /\ DOMAIN effects' = DOMAIN effects \cup {Len(effects) + 1}
        /\ \A i \in DOMAIN effects : effects'[i] = effects[i]
        /\ effects'[Len(effects) + 1] = id
    BY <1>1, <1>2, <1>4, Appended
  <2> QED
    BY <1>1, <2>1
<1> QED
  BY <1>3, <1>4

\* A step that is completed keeps the types and numbers.
LEMMA Completing ==
  ASSUME PInv, StepCompletes
  PROVE  PInv'
<1> DEFINE steps == [plan.steps EXCEPT ![plan.next].status = "completed"]
           entry == [plan |-> plan.id, step |-> plan.next, status |-> "completed"]
<1>1. /\ Running /\ plan \in Underway /\ plan.id = started /\ started # 0
      /\ plan.next \in 1..Len(plan.steps) /\ Len(plan.steps) \in Nat
      /\ Current = plan.steps[plan.next] /\ Current \in AStep
  BY CurrentFacts DEF StepCompletes
<1>2. steps \in Seq(AStep) /\ Len(steps) = Len(plan.steps)
  <2>1. [Current EXCEPT !.status = "completed"] \in AStep
    BY <1>1 DEF AStep
  <2>2. steps = [plan.steps EXCEPT ![plan.next] = [Current EXCEPT !.status = "completed"]]
    BY <1>1
  <2>3. plan.steps \in Seq(AStep)
    BY <1>1 DEF Underway
  <2> QED
    BY <1>1, <2>1, <2>2, <2>3, ExceptSeq
<1>3. plan' = [plan EXCEPT !.steps = steps, !.next = @ + 1]
  BY <1>1 DEF StepCompletes, Underway
<1>4. entry \in StepEntry /\ entry.plan = plan.id
  BY <1>1 DEF StepEntry, Underway
<1>5. timelines' = Cut(Append(timelines, entry))
  BY DEF StepCompletes, Told
<1> HIDE DEF steps, entry
<1>6. /\ plan' \in Underway /\ plan'.id = plan.id /\ plan'.id # 0 /\ ~(Idle')
      /\ plan'.next \in 1..Len(plan'.steps) + 1
  BY <1>1, <1>2, <1>3, Advancing
<1>7. ~Idle /\ UNCHANGED <<settings, snapshot, started, plans, abandoned, lost>>
  BY <1>1 DEF StepCompletes, Running
<1>8. started \in Nat /\ plan.id \in 1..started
  BY <1>1 DEF PInv, Types
<1>9. effects' \in Seq(Nat) /\ \A i \in DOMAIN effects' : effects'[i] \in 1..started
  <2>1. effects' = effects \/ effects' = Append(effects, plan.id)
    BY <1>1, DoneFacts DEF StepCompletes
  <2> QED
    BY <1>7, <1>8, <2>1, EffectNumbers
<1>10. /\ timelines' \in Seq(StepEntry) /\ \A i \in DOMAIN timelines' : timelines'[i].plan \in 1..started
       /\ MaxLogEntries # 0 => Len(timelines') <= MaxLogEntries
  <2>1. timelines \in Seq(StepEntry) /\ \A i \in DOMAIN timelines : timelines[i].plan \in 1..started
    BY DEF PInv, Types, Numbers
  <2> DEFINE line == Cut(Append(timelines, entry))
  <2>2. line \in Seq(StepEntry) /\ (MaxLogEntries # 0 => Len(line) <= MaxLogEntries)
    BY <1>4, <2>1, Cutting
  <2>3. PICK d \in 0..Len(timelines) : /\ Len(line) = Len(timelines) + 1 - d
                                       /\ \A i \in 1..Len(timelines) - d : line[i] = timelines[i + d]
                                       /\ line[Len(timelines) + 1 - d] = entry
    BY <1>4, <2>1, Cutting
  <2>4. ASSUME NEW i \in DOMAIN line PROVE line[i].plan \in 1..started
    <3>1. i = Len(timelines) + 1 - d \/ (i \in 1..Len(timelines) - d /\ i + d \in 1..Len(timelines))
      BY <2>1, <2>2, <2>3
    <3>2. CASE i = Len(timelines) + 1 - d
      BY <1>4, <1>8, <2>3, <3>2
    <3>3. CASE i \in 1..Len(timelines) - d /\ i + d \in 1..Len(timelines)
      BY <2>1, <2>3, <3>3, SMTT(30)
    <3> QED
      BY <3>1, <3>2, <3>3
  <2> QED
    BY <1>5, <2>2, <2>4
<1>11. Types'
  BY <1>6, <1>7, <1>9, <1>10 DEF PInv, Types, settings
<1>12. Numbers'
  BY <1>6, <1>7, <1>9, <1>10 DEF PInv, Numbers
<1> QED
  BY <1>11, <1>12 DEF PInv

\* The plan that is under way is given up.
LEMMA Losing ==
  ASSUME PInv, Running, Raise, NEW late \in SUBSET {plan.id}, abandoned' = abandoned \cup late,
         effects' = effects \/ effects' = Append(effects, plan.id)
  PROVE  PInv'
<1>1. plan \in Underway /\ plan.id = started /\ started # 0 /\ ~Idle
  BY CurrentFacts DEF Running
<1>2. started \in Nat /\ plan.id \in 1..started
  BY <1>1 DEF PInv, Types
<1>3. /\ plan' = NoPlan /\ lost' = lost \cup {plan.id} /\ Idle' /\ plan'.id = 0
      /\ UNCHANGED <<settings, snapshot, started, records>>
  BY DEF Raise, Idle, NoPlan
<1>4. effects' \in Seq(Nat) /\ \A i \in DOMAIN effects' : effects'[i] \in 1..started
  BY <1>2, <1>3, EffectNumbers
<1>5. Types'
  BY <1>3, <1>4 DEF PInv, Types, settings, records
<1>6. Numbers'
  BY <1>1, <1>2, <1>3, <1>4 DEF PInv, Numbers, records
<1> QED
  BY <1>5, <1>6 DEF PInv

\* A step that fails keeps the types and numbers.
LEMMA Failing ==
  ASSUME PInv, StepFails \/ StepTimesOut
  PROVE  PInv'
<1>1. Running /\ Raise
  BY DEF StepFails, StepTimesOut
<1>2. effects' = effects \/ effects' = Append(effects, plan.id)
  BY <1>1, DoneFacts DEF StepFails, StepTimesOut
<1>3. \E late \in SUBSET {plan.id} : abandoned' = abandoned \cup late
  <2>1. abandoned' = abandoned \/ abandoned' = abandoned \cup {plan.id}
    BY DEF StepFails, StepTimesOut
  <2>2. abandoned' = abandoned \cup {} \/ abandoned' = abandoned \cup {plan.id}
    BY <2>1
  <2> QED
    BY <2>2
<1> QED
  BY <1>1, <1>2, <1>3, Losing

\* The end of a plan keeps the types and numbers.
LEMMA Finishing ==
  ASSUME PInv, Finish
  PROVE  PInv'
<1> DEFINE kept == [id |-> plan.id, safe |-> plan.request.safe, steps |-> plan.steps, executed |-> TRUE]
<1>1. ~Idle /\ plan \in Underway /\ plan.id = started /\ started # 0 /\ plan.id \notin lost
  BY DEF Finish, PInv, Types, Numbers
<1>2. /\ plans' = Cut(Append(plans, kept)) /\ plan' = NoPlan /\ Idle' /\ plan'.id = 0
      /\ UNCHANGED <<settings, snapshot, started, timelines, device, lost>>
  BY DEF Finish, Stored, Idle, NoPlan
<1>3. kept \in StoredPlan /\ kept.id = started
  BY <1>1 DEF StoredPlan, Underway, Requests
<1> HIDE DEF kept
<1>4. /\ plans' \in Seq(StoredPlan) /\ InTurn(plans')
      /\ MaxLogEntries # 0 => Len(plans') <= MaxLogEntries
      /\ \A k \in DOMAIN plans' : plans'[k] = kept \/ \E i \in DOMAIN plans : plans'[k] = plans[i]
      /\ Accounted(plans', started)
      /\ \A n \in Nat : Accounted(plans, n) => Accounted(plans', n)
  <2> plans \in Seq(StoredPlan) /\ InTurn(plans) /\ \A k \in DOMAIN plans : plans[k].id < kept.id
    BY <1>1, <1>3 DEF PInv, Types, Numbers
  <2> QED
    BY <1>2, <1>3, Keeping
<1>5. Types'
  BY <1>2, <1>4 DEF PInv, Types, settings, device
<1>6. Numbers'
  <2>1. UNCHANGED <<started, abandoned, lost, timelines, effects>> /\ started \in Nat \ {0}
    BY <1>1, <1>2 DEF device, PInv, Types
  <2>2. \A k \in DOMAIN plans' : plans'[k].id \in 1..started' /\ plans'[k].id \notin lost'
    BY <1>1, <1>3, <1>4, <2>1 DEF PInv, Numbers
  <2>3. \A n \in 1..started' : n \in lost' \/ plan'.id = n \/ Accounted(plans', n)
    BY <1>1, <1>4, <2>1 DEF PInv, Numbers
  <2> QED
    BY <1>2, <1>4, <2>1, <2>2, <2>3 DEF PInv, Numbers
<1> QED
  BY <1>5, <1>6 DEF PInv

\* Whatever concerns neither plans nor records.
LEMMA Apart ==
  ASSUME PInv, snapshot' \in Package \cup {None, NoSnapshot},
         UNCHANGED <<settings, plan, started, records, abandoned, effects, lost>>
  PROVE  PInv'
<1>1. Types'
  BY DEF PInv, Types, settings, records, Idle
<1>2. Numbers'
  BY DEF PInv, Numbers, records, Idle
<1> QED
  BY <1>1, <1>2 DEF PInv

\* An abandoned attempt that acts late keeps the types and numbers.
LEMMA Landing ==
  ASSUME PInv, NEW id \in abandoned, Land(id)
  PROVE  PInv'
<1>1. id \in 1..started
  BY DEF PInv, Numbers
<1>2. UNCHANGED <<settings, snapshot, plan, started, records, lost>> /\ abandoned' \subseteq abandoned
  BY DEF Land
<1>3. effects' \in Seq(Nat) /\ \A i \in DOMAIN effects' : effects'[i] \in 1..started
  BY <1>1, <1>2, EffectNumbers DEF Land
<1>4. Types'
  BY <1>2, <1>3 DEF PInv, Types, settings, records, Idle
<1>5. Numbers'
  BY <1>2, <1>3 DEF PInv, Numbers, records, Idle
<1> QED
  BY <1>4, <1>5 DEF PInv

\* A crash keeps the types and numbers.
LEMMA Dying ==
  ASSUME PInv, Kill
  PROVE  PInv'
<1>1. UNCHANGED <<settings, snapshot, started, records, effects>> /\ plan' = NoPlan /\ abandoned' = {}
      /\ Idle' /\ plan'.id = 0
  BY DEF Kill, Idle, NoPlan
<1>2. Types'
  BY <1>1 DEF PInv, Types, settings, records
<1>3. CASE Idle
  <2> lost' = lost /\ plan.id = 0
    BY <1>3 DEF Kill, Idle, NoPlan
  <2> Numbers'
    BY <1>1, <1>3 DEF PInv, Types, Numbers, records
  <2> QED
    BY <1>2 DEF PInv
<1>4. CASE ~Idle
  <2> lost' = lost \cup {plan.id} /\ plan.id = started /\ started \in Nat \ {0}
    BY <1>4 DEF Kill, PInv, Types, Numbers
  <2> Numbers'
    BY <1>1, <1>4 DEF PInv, Numbers, records
  <2> QED
    BY <1>2 DEF PInv
<1> QED
  BY <1>3, <1>4

\* A restart keeps the types and numbers.
LEMMA Starting ==
  ASSUME PlansInit
  PROVE  PInv
<1>1. Types
  BY DEF PlansInit, Types, Idle
<1>2. Numbers
  <2>1. started = 0 /\ 1..started = {} /\ abandoned = {} /\ lost = {} /\ Idle
    BY DEF PlansInit, Idle
  <2>2. /\ plans = <<>> /\ timelines = <<>> /\ effects = <<>>
        /\ DOMAIN plans = {} /\ DOMAIN timelines = {} /\ DOMAIN effects = {}
        /\ Len(plans) = 0 /\ Len(timelines) = 0
    BY DEF PlansInit
  <2> QED
    BY <2>1, <2>2, PlansAssumption DEF Numbers, InTurn
<1> QED
  BY <1>1, <1>2 DEF PInv

\* Every plan that was asked for is lost, under way, stored, or older than all of a full store.
THEOREM PlansInvariant == PlansSpec => []PInv
<1>1. PInv /\ [PlansNext]_planVars => PInv'
  <2> SUFFICES ASSUME PInv, [PlansNext]_planVars PROVE PInv'
    OBVIOUS
  <2>1. CASE \E r \in Requests : Request(r)
    BY <2>1, Requesting
  <2>2. CASE Skip
    BY <2>2, Skipping
  <2>3. CASE StepCompletes
    BY <2>3, Completing
  <2>4. CASE StepFails \/ StepTimesOut
    BY <2>4, Failing
  <2>5. CASE Finish
    BY <2>5, Finishing
  <2>6. CASE \E id \in abandoned : Land(id)
    BY <2>6, Landing
  <2>7. CASE \E app \in Apps : Ingest(app)
    BY <2>7, Apart DEF Ingest, Apps, device
  <2>8. CASE \/ \E a \in Actions : Act(a)
             \/ \E c \in Diagnostics, p \in Package \cup {None} : Diagnose(c, p)
             \/ \E r \in Callers : CallDump(r)
             \/ \E a \in Actions, r \in Callers : CallControl(a, r) \/ RunShell(a, r)
             \/ ReadModeB \/ UNCHANGED planVars
    <3>1. UNCHANGED <<settings, snapshot, plan, started, records, abandoned, effects, lost>>
      BY <2>8 DEF Act, Diagnose, ReadModeB, CallDump, CallControl, RunShell, planVars, device
    <3> QED
      BY <3>1, Apart DEF PInv, Types
  <2>9. CASE Kill
    BY <2>9, Dying
  <2> QED
    BY <2>1, <2>2, <2>3, <2>4, <2>5, <2>6, <2>7, <2>8, <2>9 DEF PlansNext
<1> QED
  BY Starting, <1>1, PTL DEF PlansSpec

\* The type invariant of AgentPlans (PlansTypeOK).
THEOREM PlansTypeCorrect == PlansSpec => []PlansTypeOK
<1>1. PInv => PlansTypeOK
  <2> SUFFICES ASSUME PInv PROVE PlansTypeOK
    OBVIOUS
  <2> DEFINE kept == {plans[i].id : i \in DOMAIN plans}
  <2>1. settings \in BOOLEAN \X BOOLEAN \X BOOLEAN \X BOOLEAN /\ snapshot \in Package \cup {None, NoSnapshot}
    BY DEF PInv, Types, settings
  <2>2. Idle \/ (plan.request \in Requests /\ plan.steps \in Seq(AStep) /\ plan.next \in 1..Len(plan.steps) + 1)
    BY DEF PInv, Types, Numbers, Underway
  <2>3. (kept \cup lost \cup {plan.id}) \ {0} \subseteq 1..started
    <3>1. plan.id = 0 \/ plan.id \in 1..started
      BY DEF PInv, Types, Numbers, Idle, NoPlan
    <3>2. kept \subseteq 1..started /\ lost \subseteq 1..started
      BY DEF PInv, Types, Numbers
    <3> QED
      BY <3>1, <3>2
  <2>4. \A n \in 1..started : n \notin kept \cup lost \cup {plan.id} => Full(plans) /\ n < plans[1].id
    BY DEF PInv, Numbers, Accounted
  <2>5. 0 \notin 1..started
    OBVIOUS
  <2>6. kept \cap lost = {} /\ plan.id \notin kept \cup lost /\ abandoned \subseteq lost
    BY DEF PInv, Types, Numbers, Idle, NoPlan
  <2>7. /\ MaxLogEntries # 0 => Len(plans) <= MaxLogEntries /\ Len(timelines) <= MaxLogEntries
        /\ \A i, j \in DOMAIN plans : i < j => plans[i].id < plans[j].id
    BY DEF PInv, Numbers, InTurn
  <2> HIDE DEF kept
  <2>8. \A n \in 1..started \ ((kept \cup lost \cup {plan.id}) \ {0}) : Full(plans) /\ n < plans[1].id
    BY <2>4, <2>5
  <2> QED
    BY <2>1, <2>2, <2>3, <2>6, <2>7, <2>8 DEF PlansTypeOK, kept
<1> QED
  BY <1>1, PlansInvariant, PTL

(***************************************************************************)
(* What the records say.                                                    *)
(***************************************************************************)

\* The entries of a timeline about plan id tell of its first n steps, but for those older
\* than all of a full timeline.
About(line, id) == {i \in DOMAIN line : line[i].plan = id}
Gone(line, id, k) == Full(line) /\ Before(id, k, line[1])
Tells(line, id, steps, n) ==
  /\ \A i \in About(line, id) :
       /\ line[i].step \in 1..n
       /\ steps[line[i].step].tool # None /\ line[i].status = steps[line[i].step].status
  /\ \A k \in 1..n : steps[k].tool # None => Gone(line, id, k) \/ \E i \in About(line, id) : line[i].step = k
Ascending(line) ==
  \A i, j \in DOMAIN line : i < j => Before(line[i].plan, line[i].step, line[j])

\* What is stored of a plan agrees with the entries about it.
TruthInv ==
  /\ Ascending(timelines)
  /\ \A k \in DOMAIN plans :
       /\ plans[k].executed => Tells(timelines, plans[k].id, plans[k].steps, Len(plans[k].steps))
       /\ ~plans[k].executed =>
            /\ About(timelines, plans[k].id) = {}
            /\ \A i \in DOMAIN plans[k].steps : plans[k].steps[i].status = "planned"
  /\ ~Idle => Tells(timelines, plan.id, plan.steps, plan.next - 1)

\* What is older than a full timeline stays so when an entry is added.
LEMMA GoneForGood ==
  ASSUME NEW line \in Seq(StepEntry), NEW entry, NEW id, NEW k, Gone(line, id, k)
  PROVE  Gone(Append(line, entry), id, k)
<1>1. Full(line) /\ Before(id, k, line[1])
  BY DEF Gone
<1>2. MaxLogEntries \in Nat \ {0} /\ Len(line) \in Nat /\ Len(line) >= MaxLogEntries
  BY <1>1, PlansAssumption DEF Full
<1>3. Len(Append(line, entry)) = Len(line) + 1 /\ Append(line, entry)[1] = line[1]
  BY <1>2
<1>4. Full(Append(line, entry))
  BY <1>2, <1>3 DEF Full
<1> QED
  BY <1>1, <1>3, <1>4 DEF Gone

\* An entry about a plan says nothing of the others.
LEMMA TellingOfAnother ==
  ASSUME NEW line \in Seq(StepEntry), NEW entry \in StepEntry, NEW id, entry.plan # id,
         NEW steps, NEW n
  PROVE  /\ About(Append(line, entry), id) = About(line, id)
         /\ Tells(line, id, steps, n) => Tells(Append(line, entry), id, steps, n)
<1> DEFINE more == Append(line, entry)
<1>1. /\ DOMAIN more = DOMAIN line \cup {Len(line) + 1}
      /\ \A i \in DOMAIN line : more[i] = line[i]
      /\ more[Len(line) + 1] = entry
  BY Appended
<1>0. \A k : Gone(line, id, k) => Gone(more, id, k)
  BY GoneForGood
<1> HIDE DEF more
<1>2. About(more, id) = About(line, id)
  BY <1>1 DEF About
<1>3. Tells(line, id, steps, n) => Tells(more, id, steps, n)
  <2>1. \A i \in About(line, id) : more[i] = line[i]
    BY <1>1 DEF About
  <2> QED
    BY <1>0, <1>2, <2>1 DEF Tells
<1> QED
  BY <1>2, <1>3 DEF more

\* The entry of a step that is completed.
LEMMA TellingMore ==
  ASSUME NEW line \in Seq(StepEntry), NEW id \in Nat, NEW steps \in Seq(AStep),
         NEW next \in 1..Len(steps), steps[next].tool # None,
         Tells(line, id, steps, next - 1)
  PROVE  LET done == [steps EXCEPT ![next].status = "completed"]
             entry == [plan |-> id, step |-> next, status |-> "completed"] IN
         Tells(Append(line, entry), id, done, next)
<1> DEFINE done == [steps EXCEPT ![next].status = "completed"]
           entry == [plan |-> id, step |-> next, status |-> "completed"]
           more == Append(line, entry)
           last == Len(line) + 1
<1>1. next \in Nat /\ Len(steps) \in Nat /\ DOMAIN steps = 1..Len(steps) /\ steps[next] \in AStep
  OBVIOUS
<1>2. entry \in StepEntry
  BY <1>1 DEF StepEntry
<1>3. /\ DOMAIN more = DOMAIN line \cup {last} /\ last \notin DOMAIN line
      /\ \A i \in DOMAIN line : more[i] = line[i] /\ i < last
      /\ more[last] = entry
  BY <1>2, Appended
<1>4. /\ \A k \in 1..Len(steps) : k # next => done[k] = steps[k]
      /\ done[next].status = "completed" /\ done[next].tool = steps[next].tool
  BY <1>1 DEF AStep
<1>5. entry.plan = id /\ entry.step = next /\ entry.status = "completed"
  OBVIOUS
<1>0. \A k : Gone(line, id, k) => Gone(more, id, k)
  BY GoneForGood
<1> HIDE DEF entry, done
<1>6. \A k \in 1..next - 1 : k \in 1..Len(steps) /\ k # next /\ k < next /\ k \in 1..next
  BY <1>1
<1>7. About(more, id) = About(line, id) \cup {last}
  BY <1>3, <1>5 DEF About
<1>8. ASSUME NEW i \in About(line, id)
      PROVE  more[i] = line[i] /\ line[i].step \in 1..next - 1 /\ i < last /\ i # last
  BY <1>3 DEF About, Tells
<1> HIDE DEF more, last
<1>9. ASSUME NEW i \in About(more, id)
      PROVE  /\ more[i].step \in 1..next /\ done[more[i].step].tool # None
             /\ more[i].status = done[more[i].step].status
  <2>1. CASE i = last
    BY <1>1, <1>3, <1>4, <1>5, <2>1
  <2>2. CASE i \in About(line, id)
    <3>1. line[i].step \in 1..next - 1 /\ more[i] = line[i]
      BY <1>8, <2>2
    <3>2. done[line[i].step] = steps[line[i].step] /\ line[i].step \in 1..next
      BY <1>4, <1>6, <3>1
    <3> QED
      BY <2>2, <3>1, <3>2 DEF Tells
  <2> QED
    BY <1>7, <2>1, <2>2
<1>10. ASSUME NEW k \in 1..next, done[k].tool # None
       PROVE  Gone(more, id, k) \/ \E i \in About(more, id) : more[i].step = k
  <2>1. CASE k = next
    BY <1>3, <1>5, <1>7, <2>1
  <2>2. CASE k # next
    <3>1. k \in 1..next - 1
      BY <1>1, <2>2
    <3>2. steps[k].tool # None
      BY <1>4, <1>6, <1>10, <3>1
    <3>3. CASE Gone(line, id, k)
      BY <1>0, <3>3
    <3>4. CASE \E i \in About(line, id) : line[i].step = k
      BY <1>7, <1>8, <3>4
    <3> QED
      BY <3>1, <3>2, <3>3, <3>4 DEF Tells
  <2> QED
    BY <2>1, <2>2
<1> QED
  BY <1>9, <1>10 DEF Tells, done, entry, more

\* A timeline whose entries are in order is cut at its head: what is cut off is older than
\* what is left, and of that nothing else is told.
LEMMA TellingLess ==
  ASSUME NEW line \in Seq(StepEntry), NEW entry \in StepEntry, Ascending(Append(line, entry)),
         NEW id \in Nat, NEW steps, NEW n \in Nat
  PROVE  LET more == Append(line, entry)  kept == Cut(more) IN
         /\ Ascending(kept)
         /\ About(more, id) = {} => About(kept, id) = {}
         /\ Tells(more, id, steps, n) => Tells(kept, id, steps, n)
<1> DEFINE more == Append(line, entry)
           kept == Cut(more)
           last == Len(line) + 1
<1>1. /\ more \in Seq(StepEntry) /\ Len(more) = last /\ DOMAIN more = 1..last /\ Len(line) \in Nat
      /\ more[last] = entry /\ \A i \in 1..Len(line) : more[i] = line[i]
  OBVIOUS
<1>2. PICK d \in 0..Len(line) : /\ Len(kept) = last - d
                                /\ \A i \in 1..Len(line) - d : kept[i] = line[i + d]
                                /\ kept[last - d] = entry
                                /\ d # 0 => Full(kept)
  BY Cutting
<1>3. kept \in Seq(StepEntry)
  BY Cutting
<1>4. Ascending(more)
  OBVIOUS
<1> HIDE DEF more, kept
<1>5. DOMAIN kept = 1..last - d /\ 1 \in DOMAIN kept
  BY <1>1, <1>2, <1>3
<1>6. ASSUME NEW i \in DOMAIN kept PROVE i + d \in DOMAIN more /\ kept[i] = more[i + d]
  <2>1. i + d \in 1..last
    BY <1>1, <1>5
  <2>2. CASE i = last - d
    BY <1>1, <1>2, <2>1, <2>2
  <2>3. CASE i # last - d
    <3> i \in 1..Len(line) - d /\ i + d \in 1..Len(line)
      BY <1>1, <1>5, <2>3
    <3> QED
      BY <1>1, <1>2, <2>1
  <2> QED
    BY <2>2, <2>3
<1>7. Ascending(kept)
  <2> SUFFICES ASSUME NEW i \in DOMAIN kept, NEW j \in DOMAIN kept, i < j
               PROVE  Before(kept[i].plan, kept[i].step, kept[j])
    BY DEF Ascending
  <2> i + d < j + d
    BY <1>5
  <2> QED
    BY <1>4, <1>6 DEF Ascending
<1>8. ASSUME NEW i \in About(kept, id) PROVE i + d \in About(more, id) /\ kept[i] = more[i + d]
  BY <1>6 DEF About
<1>9. ASSUME NEW k \in Nat, NEW i \in DOMAIN more, i <= d,
             Before(id, k, more[i]) \/ (more[i].plan = id /\ more[i].step = k)
      PROVE  Gone(kept, id, k)
  <2>1. /\ d # 0 /\ kept[1] = more[1 + d] /\ 1 + d \in DOMAIN more /\ i < 1 + d
    BY <1>1, <1>5, <1>6, <1>9, SMTT(30)
  <2>2. Before(more[i].plan, more[i].step, kept[1])
    BY <1>4, <2>1 DEF Ascending
  <2>3. more[i] \in StepEntry /\ kept[1] \in StepEntry
    BY <1>1, <1>3, <1>5, <2>1
  <2>4. Before(id, k, kept[1])
    BY <1>9, <2>2, <2>3 DEF Before, StepEntry
  <2> QED
    BY <1>2, <2>1, <2>4 DEF Gone
<1>10. ASSUME Tells(more, id, steps, n) PROVE Tells(kept, id, steps, n)
  <2>1. ASSUME NEW k \in 1..n, steps[k].tool # None
        PROVE  Gone(kept, id, k) \/ \E i \in About(kept, id) : kept[i].step = k
    <3>1. ASSUME NEW i \in About(more, id), more[i].step = k
          PROVE  Gone(kept, id, k) \/ \E j \in About(kept, id) : kept[j].step = k
      <4>1. i \in DOMAIN more /\ more[i].plan = id
        BY DEF About
      <4>2. CASE i <= d
        BY <1>9, <3>1, <4>1, <4>2
      <4>3. CASE ~(i <= d)
        <5> i - d \in DOMAIN kept /\ (i - d) + d = i
          BY <1>1, <1>5, <4>1, <4>3
        <5> i - d \in About(kept, id) /\ kept[i - d].step = k
          BY <1>6, <3>1, <4>1 DEF About
        <5> QED
          OBVIOUS
      <4> QED
        BY <4>2, <4>3
    <3>2. CASE Gone(more, id, k)
      <4>1. CASE d = 0
        <5> kept[1] = more[1] /\ Len(kept) = Len(more)
          BY <1>1, <1>2, <1>5, <1>6, <4>1
        <5> QED
          BY <3>2 DEF Gone, Full
      <4>2. CASE d # 0
        <5> 1 \in DOMAIN more /\ 1 <= d /\ Before(id, k, more[1])
          BY <1>1, <3>2, <4>2 DEF Gone
        <5> QED
          BY <1>9
      <4> QED
        BY <4>1, <4>2
    <3> QED
      BY <1>10, <2>1, <3>1, <3>2 DEF Tells
  <2> QED
    BY <1>8, <1>10, <2>1 DEF Tells
<1>11. About(more, id) = {} => About(kept, id) = {}
  BY <1>8
<1> QED
  BY <1>7, <1>10, <1>11 DEF kept, more

\* An entry about the step that is next is the last one of its timeline.
LEMMA TellingInOrder ==
  ASSUME NEW line \in Seq(StepEntry), Ascending(line), NEW entry \in StepEntry,
         \A i \in DOMAIN line : Before(line[i].plan, line[i].step, entry)
  PROVE  Ascending(Append(line, entry))
<1> DEFINE more == Append(line, entry)
<1>1. /\ DOMAIN more = DOMAIN line \cup {Len(line) + 1}
      /\ \A i \in DOMAIN line : more[i] = line[i] /\ i < Len(line) + 1
      /\ more[Len(line) + 1] = entry /\ DOMAIN line = 1..Len(line) /\ Len(line) \in Nat
  BY Appended
<1> HIDE DEF more
<1>2. ASSUME NEW i \in DOMAIN more, NEW j \in DOMAIN more, i < j
      PROVE  Before(more[i].plan, more[i].step, more[j])
  <2>1. i \in DOMAIN line
    BY <1>1, <1>2
  <2> QED
    BY <1>1, <1>2, <2>1 DEF Ascending
<1> QED
  BY <1>2 DEF Ascending, more

\* A plan is stored with what the timeline tells of it, and the records of the others stay.
LEMMA TruthStored ==
  ASSUME PInv, TruthInv, NEW kept \in StoredPlan, plans' = Cut(Append(plans, kept)),
         timelines' = timelines,
         kept.executed => Tells(timelines, kept.id, kept.steps, Len(kept.steps)),
         ~kept.executed => /\ About(timelines, kept.id) = {}
                           /\ \A i \in DOMAIN kept.steps : kept.steps[i].status = "planned",
         plan' = plan \/ Idle'
  PROVE  TruthInv'
<1>1. \A k \in DOMAIN plans' : plans'[k] = kept \/ \E i \in DOMAIN plans : plans'[k] = plans[i]
  BY StoredOnes DEF PInv, Types
<1>2. ~Idle' => ~Idle /\ plan' = plan
  BY DEF Idle
<1> DEFINE Agrees(p) ==
             /\ p.executed => Tells(timelines, p.id, p.steps, Len(p.steps))
             /\ ~p.executed => /\ About(timelines, p.id) = {}
                               /\ \A i \in DOMAIN p.steps : p.steps[i].status = "planned"
<1>3. Agrees(kept)
  OBVIOUS
<1>4. \A k \in DOMAIN plans : Agrees(plans[k])
  BY DEF TruthInv
<1>5. \A k \in DOMAIN plans' : Agrees(plans'[k])
  <2> HIDE DEF Agrees
  <2> QED
    BY <1>1, <1>3, <1>4
<1>6. ~Idle' => Tells(timelines', plan'.id, plan'.steps, plan'.next - 1)
  <2> SUFFICES ASSUME ~Idle' PROVE Tells(timelines, plan.id, plan.steps, plan.next - 1)
    BY <1>2
  <2> QED
    BY <1>2 DEF TruthInv
<1>7. Ascending(timelines')
  BY DEF TruthInv
<1>8. TruthInv' <=> /\ Ascending(timelines')
                    /\ \A k \in DOMAIN plans' : Agrees(plans'[k])
                    /\ ~Idle' => Tells(timelines', plan'.id, plan'.steps, plan'.next - 1)
  BY DEF TruthInv
<1> QED
  BY <1>5, <1>6, <1>7, <1>8

\* A stored plan tells of what was done, through every step and every crash.
THEOREM TruthInvariant == PlansSpec => []TruthInv
<1>1. PlansInit => TruthInv
  BY DEF PlansInit, TruthInv, Ascending, Idle
<1>2. PInv /\ TruthInv /\ [PlansNext]_planVars => TruthInv'
  <2> SUFFICES ASSUME PInv, TruthInv, [PlansNext]_planVars PROVE TruthInv'
    OBVIOUS
  <2>1. ASSUME NEW r \in Requests, Request(r) PROVE TruthInv'
    <3>1. /\ Led(Built(r)) /\ Len(Built(r)) \in Nat \ {0} /\ Built(r) \in Seq(AStep)
          /\ \A i \in DOMAIN Built(r) : Built(r)[i].status = "planned"
      <4>1. Led(Built(r)) /\ Len(Built(r)) \in Nat \ {0}
        BY BuiltFacts DEF PInv, Types
      <4>2. Built(r) \in Seq(Fresh) /\ Fresh \subseteq AStep /\ \A s \in Fresh : s.status = "planned"
        BY <4>1 DEF Led, Fresh
      <4> QED
        BY <4>1, <4>2, SeqMonotonic
    <3>2. started' = started + 1 /\ started \in Nat /\ timelines' = timelines /\ Idle
      BY <2>1 DEF Request, PInv, Types
    <3>3. About(timelines, started + 1) = {}
      BY <3>2 DEF About, PInv, Numbers
    <3>4. CASE r.auto
      <4>1. /\ plans' = plans
            /\ plan' = [id |-> started + 1, request |-> r, steps |-> Built(r), next |-> 1]
        BY <2>1, <3>2, <3>4 DEF Request
      <4>2. Tells(timelines, started + 1, Built(r), 0)
        BY <3>3 DEF Tells
      <4>3. plan'.id = started + 1 /\ plan'.steps = Built(r) /\ plan'.next - 1 = 0
        BY <4>1
      <4> QED
        BY <3>2, <4>1, <4>2, <4>3 DEF TruthInv
    <3>5. CASE ~r.auto
      <4> DEFINE kept == [id |-> started + 1, safe |-> r.safe, steps |-> Built(r), executed |-> FALSE]
      <4>1. plans' = Cut(Append(plans, kept)) /\ plan' = plan
        BY <2>1, <3>2, <3>5 DEF Request, Stored
      <4>2. kept \in StoredPlan /\ kept.id = started + 1 /\ kept.steps = Built(r) /\ ~kept.executed
        BY <3>1, <3>2 DEF StoredPlan, Requests
      <4> HIDE DEF kept
      <4> QED
        BY <3>1, <3>2, <3>3, <4>1, <4>2, TruthStored
    <3> QED
      BY <3>4, <3>5
  <2>2. CASE Skip
    <3>1. /\ Running /\ plan \in Underway /\ plan.next \in 1..Len(plan.steps) /\ Len(plan.steps) \in Nat
          /\ plan.steps[plan.next].tool = None
      BY <2>2, CurrentFacts DEF Skip
    <3>2. plan'.id = plan.id /\ plan'.steps = plan.steps /\ plan'.next = plan.next + 1
      BY <2>2, <3>1 DEF Skip, Underway
    <3>3. Tells(timelines, plan.id, plan.steps, plan.next - 1)
      BY <3>1 DEF TruthInv, Running
    <3>4. Tells(timelines, plan.id, plan.steps, plan.next)
      <4>1. \A k \in 1..plan.next : k = plan.next \/ k \in 1..plan.next - 1
        BY <3>1
      <4>2. \A k \in 1..plan.next - 1 : k \in 1..plan.next
        BY <3>1
      <4> QED
        BY <3>1, <3>3, <4>1, <4>2 DEF Tells
    <3>5. plan'.next - 1 = plan.next
      BY <3>1, <3>2
    <3>6. plans' = plans /\ timelines' = timelines
      BY <2>2 DEF Skip, records
    <3> QED
      BY <3>2, <3>4, <3>5, <3>6 DEF TruthInv
  <2>3. CASE StepCompletes
    <3> DEFINE done == [plan.steps EXCEPT ![plan.next].status = "completed"]
               entry == [plan |-> plan.id, step |-> plan.next, status |-> "completed"]
    <3>1. /\ Running /\ plan \in Underway /\ plan.next \in 1..Len(plan.steps) /\ Len(plan.steps) \in Nat
          /\ plan.steps[plan.next].tool # None
      BY <2>3, CurrentFacts DEF StepCompletes
    <3>2. /\ plan'.id = plan.id /\ plan'.steps = done /\ plan'.next = plan.next + 1
          /\ timelines' = Cut(Append(timelines, entry)) /\ plans' = plans
      BY <2>3, <3>1 DEF StepCompletes, Told, Underway
    <3>3. plan.id \in Nat /\ plan.steps \in Seq(AStep) /\ timelines \in Seq(StepEntry)
      BY <3>1 DEF Underway, PInv, Types
    <3>4. Tells(timelines, plan.id, plan.steps, plan.next - 1)
      BY <3>1 DEF TruthInv, Running
    <3>5. Tells(Append(timelines, entry), plan.id, done, plan.next)
      BY <3>1, <3>3, <3>4, TellingMore
    <3>6. entry \in StepEntry /\ entry.plan = plan.id /\ entry.step = plan.next
      BY <3>1, <3>3 DEF StepEntry
    <3>7. /\ plan'.next - 1 = plan.next /\ plan.next \in Nat
          /\ \A k \in DOMAIN plans : plans[k].id # plan.id /\ plans[k].id \in Nat
          /\ plan.id = started /\ started \in Nat
          /\ \A i \in DOMAIN timelines : timelines[i].plan \in 1..started
      BY <3>1, <3>2, CurrentFacts, SMTT(30) DEF PInv, Types, Numbers, Running
    <3> HIDE DEF done, entry
    <3>8. Ascending(Append(timelines, entry))
      <4> ASSUME NEW i \in DOMAIN timelines PROVE Before(timelines[i].plan, timelines[i].step, entry)
        <5>1. timelines[i].plan \in 1..started
          BY <3>7
        <5>2. timelines[i].plan = plan.id => timelines[i].step \in 1..plan.next - 1
          BY <3>4 DEF Tells, About
        <5> QED
          BY <3>6, <3>7, <5>1, <5>2 DEF Before
      <4> QED
        BY <3>3, <3>6, TellingInOrder DEF TruthInv
    <3>9. Ascending(timelines') /\ Tells(timelines', plan.id, done, plan.next)
      BY <3>2, <3>3, <3>5, <3>6, <3>7, <3>8, TellingLess
    <3>10. ASSUME NEW k \in DOMAIN plans
           PROVE  /\ About(timelines, plans[k].id) = {} => About(timelines', plans[k].id) = {}
                  /\ Tells(timelines, plans[k].id, plans[k].steps, Len(plans[k].steps)) =>
                       Tells(timelines', plans[k].id, plans[k].steps, Len(plans[k].steps))
      <4>1. /\ About(Append(timelines, entry), plans[k].id) = About(timelines, plans[k].id)
            /\ Tells(timelines, plans[k].id, plans[k].steps, Len(plans[k].steps)) =>
                 Tells(Append(timelines, entry), plans[k].id, plans[k].steps, Len(plans[k].steps))
        BY <3>3, <3>6, <3>7, TellingOfAnother
      <4>2. Len(plans[k].steps) \in Nat
        <5> plans[k] \in StoredPlan
          BY ElementOfSeq DEF PInv, Types
        <5> QED
          BY DEF StoredPlan
      <4> QED
        BY <3>2, <3>3, <3>6, <3>7, <3>8, <4>1, <4>2, TellingLess
    <3> QED
      BY <3>2, <3>7, <3>9, <3>10 DEF TruthInv
  <2>4. CASE Finish
    <3> DEFINE kept == [id |-> plan.id, safe |-> plan.request.safe, steps |-> plan.steps, executed |-> TRUE]
    <3>1. ~Idle /\ ~Running /\ plan \in Underway /\ plan.next \in 1..Len(plan.steps) + 1
      BY <2>4 DEF Finish, PInv, Types, Numbers
    <3>2. plan.next - 1 = Len(plan.steps)
      <4> plan.steps \in Seq(AStep) /\ plan.next \in Nat
        BY <3>1 DEF Underway
      <4> QED
        BY <3>1 DEF Running
    <3>3. Tells(timelines, plan.id, plan.steps, Len(plan.steps))
      BY <3>1, <3>2 DEF TruthInv
    <3>4. plans' = Cut(Append(plans, kept)) /\ Idle' /\ timelines' = timelines
      BY <2>4 DEF Finish, Stored, Idle
    <3>5. kept \in StoredPlan /\ kept.id = plan.id /\ kept.steps = plan.steps /\ kept.executed
      BY <3>1 DEF StoredPlan, Underway, Requests
    <3> HIDE DEF kept
    <3> QED
      BY <3>3, <3>4, <3>5, TruthStored
  <2>5. CASE StepFails \/ StepTimesOut \/ Kill
    BY <2>5 DEF StepFails, StepTimesOut, Raise, Kill, records, TruthInv, Idle
  <2>6. CASE UNCHANGED <<plan, records>>
    BY <2>6 DEF records, TruthInv, Idle
  <2>7. ASSUME \/ \E id \in abandoned : Land(id)
               \/ \E app \in Apps : Ingest(app)
               \/ \E a \in Actions : Act(a)
               \/ \E c \in Diagnostics, p \in Package \cup {None} : Diagnose(c, p)
               \/ \E r \in Callers : CallDump(r)
               \/ \E a \in Actions, r \in Callers : CallControl(a, r) \/ RunShell(a, r)
               \/ ReadModeB \/ UNCHANGED planVars
        PROVE  UNCHANGED <<plan, records>>
    BY <2>7 DEF Land, Ingest, Act, Diagnose, ReadModeB, CallDump, CallControl, RunShell, planVars
  <2> QED
    BY <2>1, <2>2, <2>3, <2>4, <2>5, <2>6, <2>7 DEF PlansNext
<1> QED
  BY <1>1, <1>2, PlansInvariant, PTL DEF PlansSpec

\* Stored plans and the timeline agree, as far as the timeline goes back.
THEOREM StoredPlansAreTrue == PlansSpec => []StoredPlansTellTheTruth
<1>1. PInv /\ TruthInv => StoredPlansTellTheTruth
  <2> SUFFICES ASSUME PInv, TruthInv PROVE StoredPlansTellTheTruth
    OBVIOUS
  <2>1. ASSUME NEW k \in DOMAIN plans
        PROVE  LET p == plans[k]
                   tools == {i \in DOMAIN p.steps : p.steps[i].tool # None}
                   told == {i \in DOMAIN timelines : timelines[i].plan = p.id} IN
               /\ \A i \in told :
                    /\ timelines[i].step \in tools /\ p.executed
                    /\ timelines[i].status = p.steps[timelines[i].step].status
               /\ p.executed =>
                    \A n \in tools :
                      \/ \E i \in told : timelines[i].step = n
                      \/ Full(timelines) /\ Before(p.id, n, timelines[1])
               /\ ~p.executed => \A n \in tools : p.steps[n].status = "planned"
    <3> DEFINE p == plans[k]
               tools == {i \in DOMAIN p.steps : p.steps[i].tool # None}
               told == {i \in DOMAIN timelines : timelines[i].plan = p.id}
    <3>1. DOMAIN p.steps = 1..Len(p.steps)
      <4> p \in StoredPlan
        BY ElementOfSeq DEF PInv, Types
      <4> QED
        BY DEF StoredPlan
    <3>2. told = About(timelines, p.id)
      BY DEF About
    <3>3. CASE p.executed
      <4>1. Tells(timelines, p.id, p.steps, Len(p.steps))
        BY <3>3 DEF TruthInv
      <4> QED
        BY <3>1, <3>2, <3>3, <4>1 DEF Tells, Gone
    <3>4. CASE ~p.executed
      <4>1. told = {} /\ \A i \in DOMAIN p.steps : p.steps[i].status = "planned"
        BY <3>2, <3>4 DEF TruthInv
      <4> QED
        BY <3>4, <4>1
    <3> QED
      BY <3>3, <3>4
  <2>2. \A i, j \in DOMAIN timelines : i < j => Before(timelines[i].plan, timelines[i].step, timelines[j])
    BY DEF TruthInv, Ascending
  <2> QED
    BY <2>1, <2>2 DEF StoredPlansTellTheTruth
<1> QED
  BY <1>1, PlansInvariant, TruthInvariant, PTL

(***************************************************************************)
(* What the device does, and in which order.                                *)
(***************************************************************************)
InOrder(done, gone) ==
  \A i, j \in DOMAIN done : i < j => done[i] < done[j] \/ (done[j] < done[i] /\ done[j] \in gone)

Controls(steps) == \E i \in DOMAIN steps : steps[i].tool = "android.control"
Occurs(done, id) == \E i \in DOMAIN done : done[i] = id

\* The command of a plan is its first step.
EffectInv ==
  /\ InOrder(effects, lost)
  /\ \A id \in abandoned : ~Occurs(effects, id)
  /\ \A k \in DOMAIN plans : plans[k].executed /\ Controls(plans[k].steps) => Occurs(effects, plans[k].id)
  /\ ~Idle => /\ Len(plan.steps) # 0
              /\ \A i \in 2..Len(plan.steps) : plan.steps[i].tool # "android.control"
              /\ plan.next = 1 => ~Occurs(effects, plan.id)
              /\ plan.next # 1 /\ plan.steps[1].tool = "android.control" => Occurs(effects, plan.id)

\* Something is done that was not done before: for the latest plan, or for a lost one.
LEMMA EffectAppended ==
  ASSUME NEW done \in Seq(Nat), NEW id \in Nat, NEW gone, InOrder(done, gone),
         \A i \in DOMAIN done : done[i] < id \/ (id < done[i] /\ id \in gone)
  PROVE  /\ InOrder(Append(done, id), gone)
         /\ \A n : Occurs(Append(done, id), n) <=> Occurs(done, n) \/ n = id
<1> DEFINE more == Append(done, id)
<1>1. /\ DOMAIN more = DOMAIN done \cup {Len(done) + 1} /\ Len(done) + 1 \notin DOMAIN done
      /\ \A i \in DOMAIN done : more[i] = done[i] /\ i < Len(done) + 1
      /\ more[Len(done) + 1] = id
  BY Appended
<1>2. DOMAIN done \subseteq Nat /\ Len(done) \in Nat /\ \A i \in DOMAIN done : done[i] \in Nat
  OBVIOUS
<1> HIDE DEF more
<1>3. InOrder(more, gone)
  <2> SUFFICES ASSUME NEW i \in DOMAIN more, NEW j \in DOMAIN more, i < j
               PROVE  more[i] < more[j] \/ (more[j] < more[i] /\ more[j] \in gone)
    BY DEF InOrder
  <2>1. i \in DOMAIN done
    BY <1>1, <1>2
  <2>2. CASE j \in DOMAIN done
    BY <1>1, <2>1, <2>2 DEF InOrder
  <2>3. CASE j = Len(done) + 1
    BY <1>1, <2>1, <2>3
  <2> QED
    BY <1>1, <2>2, <2>3
<1>4. \A n : Occurs(more, n) <=> Occurs(done, n) \/ n = id
  BY <1>1 DEF Occurs
<1> QED
  BY <1>3, <1>4 DEF more

\* What the step that is next does to the effects: it adds the plan once, if it is its command.
LEMMA EffectOfStep ==
  ASSUME PInv, EffectInv, Running, effects' = effects \/ effects' = effects \o Done
  PROVE  /\ InOrder(effects', lost)
         /\ \A n : n # plan.id => (Occurs(effects', n) <=> Occurs(effects, n))
         /\ Occurs(effects, plan.id) => Occurs(effects', plan.id)
         /\ effects' = effects \o Done =>
              (Current.tool = "android.control" => plan.next = 1 /\ Occurs(effects', plan.id))
<1>1. /\ plan \in Underway /\ plan.id = started /\ started # 0 /\ plan.id \in Nat
      /\ plan.next \in 1..Len(plan.steps) /\ Len(plan.steps) \in Nat
      /\ Current = plan.steps[plan.next] /\ ~Idle
  BY CurrentFacts DEF Running, Underway
<1>2. effects \in Seq(Nat) /\ \A i \in DOMAIN effects : effects[i] \in 1..plan.id
  BY <1>1 DEF PInv, Types, Numbers
<1>3. CASE Current.tool # "android.control"
  <2> effects \o Done = effects
    BY <1>2, <1>3, ConcatEmptySeq DEF Done
  <2> QED
    BY <1>3 DEF EffectInv
<1>4. CASE Current.tool = "android.control"
  <2>1. plan.next = 1
    BY <1>1, <1>4 DEF EffectInv
  <2>2. effects \o Done = Append(effects, plan.id)
    BY <1>1, <1>2, <1>4, AppendIsConcat DEF Done
  <2>3. \A i \in DOMAIN effects : effects[i] < plan.id
    <3> \A i \in DOMAIN effects : effects[i] # plan.id
      BY <1>1, <2>1 DEF EffectInv, Occurs
    <3> QED
      BY <1>1, <1>2
  <2>4. /\ InOrder(Append(effects, plan.id), lost)
        /\ \A n : Occurs(Append(effects, plan.id), n) <=> Occurs(effects, n) \/ n = plan.id
    BY <1>1, <1>2, <2>3, EffectAppended DEF EffectInv
  <2> QED
    BY <2>1, <2>2, <2>4 DEF EffectInv
<1> QED
  BY <1>3, <1>4

\* A step fails or times out: its plan is lost.
LEMMA EffectsOfFailure ==
  ASSUME PInv, EffectInv, StepFails \/ StepTimesOut
  PROVE  EffectInv'
<1>1. /\ Running /\ Idle' /\ lost' = lost \cup {plan.id} /\ plans' = plans
      /\ effects' = effects \/ effects' = effects \o Done
  BY DEF StepFails, StepTimesOut, Raise, records, Idle
<1>2. /\ InOrder(effects', lost)
      /\ \A n : n # plan.id => (Occurs(effects', n) <=> Occurs(effects, n))
  BY <1>1, EffectOfStep
<1>3. plan.id \notin lost /\ abandoned \subseteq lost /\ \A k \in DOMAIN plans : plans[k].id # plan.id
  BY <1>1 DEF PInv, Numbers, Running
<1>4. InOrder(effects', lost')
  BY <1>1, <1>2 DEF InOrder
<1>5. \A id \in abandoned' : ~Occurs(effects', id)
  <2>1. CASE abandoned' = abandoned
    BY <1>2, <1>3, <2>1 DEF EffectInv
  <2>2. CASE abandoned' # abandoned
    <3>1. /\ StepTimesOut /\ effects' = effects /\ abandoned' = abandoned \cup {plan.id}
          /\ Current.tool = "android.control"
      BY <2>2 DEF StepFails, StepTimesOut
    <3>2. ~Occurs(effects, plan.id)
      BY <1>1, <3>1, EffectOfStep, CurrentFacts DEF EffectInv, Running
    <3> QED
      BY <3>1, <3>2 DEF EffectInv
  <2> QED
    BY <2>1, <2>2
<1>6. \A k \in DOMAIN plans : plans[k].executed /\ Controls(plans[k].steps) => Occurs(effects', plans[k].id)
  BY <1>2, <1>3 DEF EffectInv
<1> QED
  BY <1>1, <1>4, <1>5, <1>6 DEF EffectInv

\* A step is done.
LEMMA EffectsOfSuccess ==
  ASSUME PInv, EffectInv, StepCompletes
  PROVE  EffectInv'
<1> DEFINE done == [plan.steps EXCEPT ![plan.next].status = "completed"]
<1>1. /\ Running /\ ~Idle /\ plan \in Underway /\ plan.next \in 1..Len(plan.steps)
      /\ Len(plan.steps) \in Nat /\ Current = plan.steps[plan.next] /\ plan.steps \in Seq(AStep)
      /\ Current \in AStep
  BY CurrentFacts DEF StepCompletes, Running, Underway
<1>2. /\ plan'.id = plan.id /\ plan'.steps = done /\ plan'.next = plan.next + 1
      /\ plans' = plans /\ lost' = lost /\ abandoned' = abandoned /\ effects' = effects \o Done
  BY <1>1 DEF StepCompletes, Underway
<1>3. Len(done) = Len(plan.steps) /\ \A i \in 1..Len(plan.steps) : done[i].tool = plan.steps[i].tool
  BY <1>1 DEF AStep
<1> HIDE DEF done
<1>4. /\ InOrder(effects', lost)
      /\ \A n : n # plan.id => (Occurs(effects', n) <=> Occurs(effects, n))
      /\ Occurs(effects, plan.id) => Occurs(effects', plan.id)
      /\ Current.tool = "android.control" => Occurs(effects', plan.id)
  BY <1>1, <1>2, EffectOfStep
<1>5. plan.id \notin lost /\ abandoned \subseteq lost /\ \A k \in DOMAIN plans : plans[k].id # plan.id
  BY <1>1 DEF PInv, Numbers
<1>6. plan.steps[1].tool = "android.control" => Occurs(effects', plan.id)
  BY <1>1, <1>4 DEF EffectInv
<1>7. /\ Len(plan'.steps) # 0 /\ plan'.next # 1
      /\ \A i \in 2..Len(plan'.steps) : plan'.steps[i].tool # "android.control"
      /\ plan'.steps[1].tool = "android.control" => Occurs(effects', plan'.id)
  BY SMTT(30), <1>1, <1>2, <1>3, <1>6 DEF EffectInv
<1> QED
  BY <1>2, <1>4, <1>5, <1>7 DEF EffectInv

\* An abandoned command is done late.
LEMMA EffectsOfLanding ==
  ASSUME PInv, EffectInv, NEW id \in abandoned, Land(id)
  PROVE  EffectInv'
<1>1. /\ abandoned' = abandoned \ {id}
      /\ effects' = effects \/ effects' = Append(effects, id)
      /\ UNCHANGED <<plan, plans, lost>>
  BY DEF Land, records
<1>2. /\ id \in lost /\ id \in 1..started /\ started \in Nat /\ effects \in Seq(Nat) /\ id \in Nat
      /\ \A i \in DOMAIN effects : effects[i] \in 1..started
  <2>1. id \in lost /\ lost \subseteq 1..started /\ started \in Nat
    BY DEF PInv, Types, Numbers
  <2> QED
    BY <2>1 DEF PInv, Types, Numbers
<1>3. \A i \in DOMAIN effects : effects[i] < id \/ (id < effects[i] /\ id \in lost)
  <2> \A i \in DOMAIN effects : effects[i] # id
    BY DEF EffectInv, Occurs
  <2> QED
    BY <1>2
<1>4. /\ InOrder(Append(effects, id), lost)
      /\ \A n : Occurs(Append(effects, id), n) <=> Occurs(effects, n) \/ n = id
  <2> InOrder(effects, lost)
    BY DEF EffectInv
  <2> QED
    BY <1>2, <1>3, EffectAppended
<1>5. /\ InOrder(effects', lost)
      /\ \A n : n # id => (Occurs(effects', n) <=> Occurs(effects, n))
      /\ \A n : Occurs(effects, n) => Occurs(effects', n)
  <2>1. CASE effects' = effects
    BY <2>1 DEF EffectInv
  <2>2. CASE effects' = Append(effects, id)
    BY <1>4, <2>2
  <2> QED
    BY <1>1, <2>1, <2>2
<1>6. ~Idle => plan.id # id
  BY <1>2 DEF PInv, Numbers
<1> QED
  BY <1>1, <1>5, <1>6 DEF EffectInv, Idle

\* The effects of a plan come in the order of its steps, through every step and every crash.
THEOREM EffectInvariant == PlansSpec => []EffectInv
<1>1. PlansInit => EffectInv
  BY DEF PlansInit, EffectInv, InOrder, Occurs, Idle
<1>2. PInv /\ EffectInv /\ [PlansNext]_planVars => EffectInv'
  <2> SUFFICES ASSUME PInv, EffectInv, [PlansNext]_planVars PROVE EffectInv'
    OBVIOUS
  <2>1. ASSUME NEW r \in Requests, Request(r) PROVE EffectInv'
    <3>1. Led(Built(r)) /\ Len(Built(r)) \in Nat \ {0} /\ Built(r) \in Seq(Fresh)
      BY BuiltFacts DEF PInv, Types, Led
    <3>2. started \in Nat /\ UNCHANGED <<abandoned, effects, lost>> /\ Idle
      BY <2>1 DEF Request, PInv, Types, device
    <3>3. ~Occurs(effects, started + 1)
      BY <3>2 DEF Occurs, PInv, Numbers
    <3>4. CASE r.auto
      <4>1. /\ plans' = plans
            /\ plan' = [id |-> started + 1, request |-> r, steps |-> Built(r), next |-> 1]
        BY <2>1, <3>2, <3>4 DEF Request
      <4>2. plan'.id = started + 1 /\ plan'.steps = Built(r) /\ plan'.next = 1
        BY <4>1
      <4> QED
        BY <3>1, <3>2, <3>3, <4>1, <4>2 DEF EffectInv, Led
    <3>5. CASE ~r.auto
      <4> DEFINE kept == [id |-> started + 1, safe |-> r.safe, steps |-> Built(r), executed |-> FALSE]
      <4>1. plans' = Cut(Append(plans, kept)) /\ plan' = plan /\ ~kept.executed
        BY <2>1, <3>2, <3>5 DEF Request, Stored
      <4>2. kept \in StoredPlan
        <5> Built(r) \in Seq(AStep)
          BY <3>1, SeqMonotonic DEF Fresh
        <5> QED
          BY <3>2 DEF StoredPlan, Requests
      <4> HIDE DEF kept
      <4>3. \A k \in DOMAIN plans' : plans'[k] = kept \/ \E i \in DOMAIN plans : plans'[k] = plans[i]
        BY <4>1, <4>2, StoredOnes DEF PInv, Types
      <4> QED
        BY <3>2, <4>1, <4>3 DEF EffectInv, Idle
    <3> QED
      BY <3>4, <3>5
  <2>2. CASE Skip
    <3>1. /\ ~Idle /\ plan \in Underway /\ plan.next \in 1..Len(plan.steps) /\ Len(plan.steps) \in Nat
          /\ plan.steps[plan.next].tool = None
      BY <2>2, CurrentFacts DEF Skip, Running
    <3>2. plan'.id = plan.id /\ plan'.steps = plan.steps /\ plan'.next = plan.next + 1
      BY <2>2, <3>1 DEF Skip, Underway
    <3>3. plan'.next # 1 /\ (plan.next = 1 => plan.steps[1].tool # "android.control")
      BY <3>1, <3>2 DEF None
    <3>4. UNCHANGED <<plans, abandoned, effects, lost>>
      BY <2>2 DEF Skip, records, device
    <3> QED
      BY <3>1, <3>2, <3>3, <3>4 DEF EffectInv
  <2>3. CASE StepCompletes
    BY <2>3, EffectsOfSuccess
  <2>4. CASE StepFails \/ StepTimesOut
    BY <2>4, EffectsOfFailure
  <2>5. CASE Finish
    <3> DEFINE kept == [id |-> plan.id, safe |-> plan.request.safe, steps |-> plan.steps, executed |-> TRUE]
    <3>1. ~Idle /\ plan \in Underway /\ plan.steps \in Seq(AStep) /\ plan.next \in Nat
          /\ ~(plan.next <= Len(plan.steps))
      BY <2>5 DEF Finish, Running, PInv, Types, Underway
    <3>2. Controls(plan.steps) => Occurs(effects, plan.id)
      <4>1. Len(plan.steps) \in Nat \ {0} /\ DOMAIN plan.steps = 1..Len(plan.steps)
        BY <3>1 DEF EffectInv
      <4>2. plan.next # 1
        BY <3>1, <4>1
      <4>3. Controls(plan.steps) => plan.steps[1].tool = "android.control"
        <5> SUFFICES ASSUME NEW i \in 1..Len(plan.steps), plan.steps[i].tool = "android.control"
                     PROVE  i = 1
          BY <4>1 DEF Controls
        <5> i \notin 2..Len(plan.steps)
          BY <3>1 DEF EffectInv
        <5> QED
          BY <4>1
      <4> QED
        BY <3>1, <4>2, <4>3 DEF EffectInv
    <3>3. plans' = Cut(Append(plans, kept)) /\ Idle' /\ UNCHANGED <<abandoned, effects, lost>>
      BY <2>5 DEF Finish, Stored, Idle, device
    <3>4. kept \in StoredPlan /\ kept.id = plan.id /\ kept.steps = plan.steps
      BY <3>1 DEF StoredPlan, Underway, Requests
    <3> HIDE DEF kept
    <3>5. \A k \in DOMAIN plans' : plans'[k] = kept \/ \E i \in DOMAIN plans : plans'[k] = plans[i]
      BY <3>3, <3>4, StoredOnes DEF PInv, Types
    <3> QED
      BY <3>2, <3>3, <3>4, <3>5 DEF EffectInv
  <2>6. CASE \E id \in abandoned : Land(id)
    BY <2>6, EffectsOfLanding
  <2>7. CASE Kill
    <3> Idle' /\ abandoned' = {} /\ lost \subseteq lost' /\ UNCHANGED <<plans, effects>>
      BY <2>7 DEF Kill, Idle, records
    <3> QED
      BY DEF EffectInv, InOrder
  <2>8. CASE UNCHANGED <<plan, plans, abandoned, effects, lost>>
    BY <2>8 DEF EffectInv, Idle
  <2>9. ASSUME \/ \E app \in Apps : Ingest(app)
               \/ \E a \in Actions : Act(a)
               \/ \E c \in Diagnostics, p \in Package \cup {None} : Diagnose(c, p)
               \/ \E r \in Callers : CallDump(r)
               \/ \E a \in Actions, r \in Callers : CallControl(a, r) \/ RunShell(a, r)
               \/ ReadModeB \/ UNCHANGED planVars
        PROVE  UNCHANGED <<plan, plans, abandoned, effects, lost>>
    BY <2>9 DEF Ingest, Act, Diagnose, ReadModeB, CallDump, CallControl, RunShell, planVars, records, device
  <2> QED
    BY <2>1, <2>2, <2>3, <2>4, <2>5, <2>6, <2>7, <2>8, <2>9 DEF PlansNext
<1> QED
  BY <1>1, <1>2, PlansInvariant, PTL DEF PlansSpec

\* The device does what plans asked for once, and in their order but for lost ones.
THEOREM EffectsAreOrdered == PlansSpec => []EffectsFollowPlans
<1>1. EffectInv => EffectsFollowPlans
  BY DEF EffectInv, EffectsFollowPlans, InOrder, Controls, Occurs
<1> QED
  BY <1>1, EffectInvariant, PTL

(***************************************************************************)
(* What the device is sent.                                                 *)
(***************************************************************************)
Actable == Buildable \ {"tap", "swipe", "type"}

\* An action that is performed has passed the policy and has been built.
LEMMA PerformedActions ==
  ASSUME NEW a, Performs(a)
  PROVE  /\ android /\ adb /\ a.action \in Actable
         /\ a.package \in AllowedPackages \cup {None}
         /\ a.action = "open" => a.package \notin Commerce
         /\ a.action \in ModeBActions => modeB
BY DEF Performs, PolicyRefuses, Builds, Actable

\* A command that android.control or the dump sends has passed their gates.
Gated(c) ==
  /\ android /\ adb
  /\ c.by \in {"android.control", "android.accessibility_dump"} /\ Needs(c.by) \subseteq c.granted
  /\ c.what \in Actable \cup {"dump"} /\ c.package \in AllowedPackages \cup {None}
  /\ c.what = "open" => c.package \notin Commerce
  /\ c.what \in ModeBActions => modeB
  /\ c.safe => c.what = "dump" /\ c.by = "android.accessibility_dump"

LEMMA Controlling ==
  ASSUME NEW a, NEW r, Performs(a), Admitted("android.control", r)
  PROVE  Gated(Command("android.control", a.action, a.package, r))
<1> DEFINE c == Command("android.control", a.action, a.package, r)
<1>1. /\ c.by = "android.control" /\ c.what = a.action /\ c.package = a.package
      /\ c.granted = r.granted /\ c.safe = r.safe
  BY DEF Command
<1>2. Needs("android.control") \subseteq r.granted /\ ~r.safe
  BY DEF Admitted, DeniedInSafeMode
<1> HIDE DEF c
<1>3. Gated(c)
  BY <1>1, <1>2, PerformedActions DEF Gated
<1> QED
  BY <1>3 DEF c

LEMMA Dumping ==
  ASSUME NEW r, android, adb, Admitted("android.accessibility_dump", r)
  PROVE  Gated(Command("android.accessibility_dump", "dump", None, r))
<1> DEFINE c == Command("android.accessibility_dump", "dump", None, r)
<1>1. /\ c.by = "android.accessibility_dump" /\ c.what = "dump" /\ c.package = None
      /\ c.granted = r.granted
  BY DEF Command
<1>2. Needs("android.accessibility_dump") \subseteq r.granted
  BY DEF Admitted
<1> HIDE DEF c
<1>3. Gated(c)
  BY <1>1, <1>2 DEF Gated, ModeBActions
<1> QED
  BY <1>3 DEF c

LEMMA Sendings ==
  ASSUME Gets, NEW c \in Sends
  PROVE  Gated(c)
<1>1. Admitted(Current.tool, plan.request)
  BY DEF Gets
<1>2. CASE Current.tool = "android.control"
  <2>1. /\ Performs(Asked(Current))
        /\ c = Command("android.control", Current.action, Current.package, plan.request)
    BY <1>2 DEF Sends
  <2>2. Asked(Current).action = Current.action /\ Asked(Current).package = Current.package
    BY DEF Asked
  <2> QED
    BY <1>1, <1>2, <2>1, <2>2, Controlling
<1>3. CASE Current.tool = "android.accessibility_dump"
  <2> android /\ adb /\ c = Command("android.accessibility_dump", "dump", None, plan.request)
    BY <1>3 DEF Sends
  <2> QED
    BY <1>1, <1>3, Dumping
<1>4. Current.tool \in {"android.control", "android.accessibility_dump"}
  BY DEF Sends
<1> QED
  BY <1>2, <1>3, <1>4

\* Names of what is sent are told apart.
LEMMA NamesOfCommands ==
  /\ Actable \cap Diagnostics = {} /\ "state files" \notin Actable /\ "dump" \notin Actable
  /\ Diagnostics \cap ({"open", "dump", "state files"} \cup ModeBActions) = {}
  /\ {"tap", "swipe", "type"} \cap (Actable \cup Diagnostics) = {}
<1>1. {Navigation[i] : i \in DOMAIN Navigation} = {"notifications", "quick settings", "home", "back", "recents"}
  <2>1. DOMAIN Navigation = 1..5
    BY DEF Navigation
  <2>2. /\ Navigation[1] = "notifications" /\ Navigation[2] = "quick settings" /\ Navigation[3] = "home"
        /\ Navigation[4] = "back" /\ Navigation[5] = "recents"
    BY DEF Navigation
  <2>3. 1..5 = {1, 2, 3, 4, 5}
    OBVIOUS
  <2> HIDE DEF Navigation
  <2> QED
    BY <2>1, <2>2, <2>3
<1> QED
  BY <1>1 DEF Actable, Buildable, Diagnostics, ModeBActions

\* What is sent past the gates of the tools is what the property says.
LEMMA GatedIsGated ==
  ASSUME Gated(command'), UNCHANGED settings
  PROVE  CommandsAreGated'
<1>1. /\ android' = android /\ adb' = adb /\ modeB' = modeB
  BY DEF settings
<1>2. command'.by # "shell.run"
  BY DEF Gated
<1>3. /\ Needs(command'.by) \subseteq command'.granted
      /\ command'.safe => command'.what = "dump" /\ command'.by = "android.accessibility_dump"
  BY DEF Gated
<1>4. /\ command'.what \notin {"tap", "swipe", "type"}
      /\ command'.package \in AllowedPackages \cup {None}
      /\ command'.what = "open" => command'.package \notin Commerce
      /\ command'.what \in ModeBActions \cup Diagnostics \cup {"state files"} => modeB
      /\ android /\ adb
  BY NamesOfCommands DEF Gated
<1> QED
  BY <1>1, <1>2, <1>3, <1>4 DEF CommandsAreGated

\* An endpoint is no tool, and has no caller.
LEMMA Ending ==
  ASSUME NEW what, NEW package, command' = Endpoint(what, package), UNCHANGED settings,
         what \notin {"tap", "swipe", "type"}, package \in AllowedPackages \cup {None},
         what = "open" => package \notin Commerce,
         what \in ModeBActions \cup Diagnostics \cup {"state files"} => modeB,
         what # "state files" => android /\ adb
  PROVE  CommandsAreGated'
<1>1. /\ command'.by = None /\ command'.what = what /\ command'.package = package
      /\ command'.safe = FALSE
  BY DEF Endpoint, Command
<1>2. None # "shell.run"
  BY DEF None
<1>3. /\ android' = android /\ adb' = adb /\ modeB' = modeB
  BY DEF settings
<1> QED
  BY <1>1, <1>2, <1>3 DEF CommandsAreGated

\* shell.run is one of the tools that safe mode denies.
LEMMA Shelling ==
  ASSUME NEW a, NEW r, RunShell(a, r)
  PROVE  CommandsAreGated'
<1>1. /\ command'.by = "shell.run" /\ command'.granted = r.granted /\ command'.safe = r.safe
  BY DEF RunShell, Command
<1>2. Needs("shell.run") \subseteq r.granted /\ ~r.safe /\ shell /\ shell' = shell
  BY DEF RunShell, Admitted, DeniedInSafeMode, settings
<1> QED
  BY <1>1, <1>2 DEF CommandsAreGated

\* Whichever way a command takes through the API to the device, the gates of that way stand
\* before it.
THEOREM CommandsPassTheGates == PlansSpec => []CommandsAreGated
<1>1. PlansInit => CommandsAreGated
  BY DEF PlansInit, CommandsAreGated
<1>2. CommandsAreGated /\ [PlansNext]_planVars => CommandsAreGated'
  <2> SUFFICES ASSUME CommandsAreGated, [PlansNext]_planVars PROVE CommandsAreGated'
    OBVIOUS
  <2>1. UNCHANGED settings
    BY DEF PlansNext, Request, Skip, StepCompletes, StepFails, StepTimesOut, Raise, Finish, Land,
       Ingest, Act, Diagnose, ReadModeB, CallDump, CallControl, RunShell, Kill, planVars
  <2>2. CASE command' = command
    BY <2>1, <2>2 DEF CommandsAreGated, settings
  <2>3. CASE Gets /\ command' \in Sends
    BY <2>1, <2>3, Sendings, GatedIsGated
  <2>4. ASSUME NEW a \in Actions, Act(a) PROVE CommandsAreGated'
    <3>1. Performs(a) /\ command' = Endpoint(a.action, a.package)
      BY <2>4 DEF Act
    <3>2. /\ a.action \in Actable => a.action \notin {"tap", "swipe", "type"} \cup Diagnostics \cup {"state files"}
      BY NamesOfCommands
    <3> QED
      BY <2>1, <3>1, <3>2, PerformedActions, Ending
  <2>5. ASSUME NEW c \in Diagnostics, NEW p \in Package \cup {None}, Diagnose(c, p) PROVE CommandsAreGated'
    <3>1. /\ command' = Endpoint(c, p) /\ android /\ adb /\ modeB /\ p \in AllowedPackages \cup {None}
      BY <2>5 DEF Diagnose, FreeOfModeB
    <3>2. c \notin {"tap", "swipe", "type"} /\ c # "open"
      BY NamesOfCommands
    <3> QED
      BY <2>1, <3>1, <3>2, Ending
  <2>6. CASE ReadModeB
    <3>1. command' = Endpoint("state files", None) /\ modeB
      BY <2>6 DEF ReadModeB
    <3> QED
      BY <2>1, <3>1, Ending
  <2>7. CASE StepCompletes \/ StepFails \/ StepTimesOut
    <3> command' = command \/ (Gets /\ command' \in Sends)
      BY <2>7 DEF StepCompletes, StepFails, StepTimesOut, Sent
    <3> QED
      BY <2>2, <2>3
  <2>8. ASSUME NEW r \in Callers, CallDump(r) PROVE CommandsAreGated'
    BY <2>1, <2>8, Dumping, GatedIsGated DEF CallDump
  <2>9. ASSUME NEW a \in Actions, NEW r \in Callers, CallControl(a, r) PROVE CommandsAreGated'
    BY <2>1, <2>9, Controlling, GatedIsGated DEF CallControl
  <2>10. ASSUME NEW a \in Actions, NEW r \in Callers, RunShell(a, r) PROVE CommandsAreGated'
    BY <2>10, Shelling
  <2>11. CASE \/ \E r \in Requests : Request(r)
              \/ Skip \/ Finish \/ Kill \/ UNCHANGED planVars
              \/ \E id \in abandoned : Land(id)
              \/ \E app \in Apps : Ingest(app)
    <3> command' = command
      BY <2>11 DEF Request, Skip, Finish, Kill, Land, Ingest, planVars, device
    <3> QED
      BY <2>2
  <2> QED
    BY <2>4, <2>5, <2>6, <2>7, <2>8, <2>9, <2>10, <2>11 DEF PlansNext
<1> QED
  BY <1>1, <1>2, PTL DEF PlansSpec
=============================================================================
