------------------------- MODULE OutboundGateProofs -------------------------
(***************************************************************************)
(* Proofs about OutboundGate, for any loops, tasks, limits and clocks.      *)
(***************************************************************************)
EXTENDS OutboundGate, FiniteSetTheorems, TLAPS

\* Popping the head of a deque leaves a suffix of it.
LEMMA PopLeavesSuffix ==
  ASSUME NEW s \in Seq(Int), NEW n \in 0..Len(s)
  PROVE  LET t == SubSeq(s, n + 1, Len(s)) IN
         /\ t \in Seq(Int) /\ Len(t) = Len(s) - n
         /\ \A j \in 1..Len(t) : t[j] = s[n + j]
OBVIOUS

\* The requests the tasks make and those that follow a redirect are requests.
LEMMA RequestFacts ==
  /\ \A a \in Asked : Hop(a, a.url, 1) \in Request
  /\ \A r \in Request, u \in Url : r.hop < MaxHops => Hop(r, u, r.hop + 1) \in Request
BY GateAssumption DEF Request, Hop

\* The types are preserved by every step.
LEMMA TypeStep ==
  ASSUME TypeOK, [Next]_vars
  PROVE  TypeOK'
<1> USE DEF TypeOK, clock, window, lock
<1>1. ASSUME NEW c \in Caller, NEW a \in Asked, Begin(c, a) PROVE TypeOK'
  <2>1. WindowOK'
    BY <1>1 DEF Begin, WindowOK
  <2>2. TasksOK'
    <3>1. PICK r \in Request : request' = [request EXCEPT ![c] = r]
      BY <1>1, RequestFacts DEF Begin
    <3> QED
      BY <1>1, <3>1, GateAssumption DEF Begin, TasksOK, Running
  <2>3. LockOK'
    BY <1>1 DEF Begin, LockOK, TasksOK
  <2> QED
    BY <2>1, <2>2, <2>3
<1>2. ASSUME NEW c \in Caller, Refuse(c) PROVE TypeOK'
  <2>1. WindowOK'
    BY <1>2 DEF Refuse, WindowOK
  <2>2. TasksOK'
    BY <1>2 DEF Refuse, TasksOK, Running, Done
  <2>3. LockOK'
    BY <1>2 DEF Refuse, LockOK, TasksOK, Done
  <2> QED
    BY <2>1, <2>2, <2>3
<1>3. ASSUME NEW c \in Caller, Acquire(c) PROVE TypeOK'
  <2>1. WindowOK'
    BY <1>3 DEF Acquire, WindowOK
  <2>2. TasksOK'
    BY <1>3 DEF Acquire, TasksOK, Running
  <2>3. LockOK'
    BY <1>3 DEF Acquire, LockOK, TasksOK
  <2> QED
    BY <2>1, <2>2, <2>3
<1>4. ASSUME NEW c \in Caller, TestLock(c) PROVE TypeOK'
  <2>1. WindowOK'
    BY <1>4 DEF TestLock, WindowOK
  <2>2. TasksOK'
    BY <1>4 DEF TestLock, TasksOK, Running
  <2>3. LockOK'
    BY <1>4 DEF TestLock, LockOK, TasksOK
  <2> QED
    BY <2>1, <2>2, <2>3
<1>5. ASSUME NEW c \in Caller, Wait(c) PROVE TypeOK'
  <2>1. WindowOK'
    BY <1>5 DEF Wait, WindowOK
  <2>2. TasksOK'
    <3>1. CASE boundTo \in {None, LoopOf[c]}
      BY <1>5, <3>1 DEF Wait, TasksOK, Running
    <3>2. CASE boundTo \notin {None, LoopOf[c]}
      <4>1. /\ pc' = [pc EXCEPT ![c] = "idle"] /\ request' = [request EXCEPT ![c] = NoRequest]
            /\ sent' = [sent EXCEPT ![c] = <<>>] /\ requests' = requests
        BY <1>5, <3>2 DEF Wait, Done
      <4> QED
        BY <4>1 DEF TasksOK
    <3> QED
      BY <3>1, <3>2
  <2>3. LockOK'
    <3>1. CASE boundTo \in {None, LoopOf[c]}
      <4>1. /\ pc[c] = "gating" /\ pc' = [pc EXCEPT ![c] = "waiting"]
            /\ waiters' = Append(waiters, c) /\ boundTo' = LoopOf[c]
            /\ locked' = locked /\ woken' = woken /\ contended' = TRUE
        BY <1>5, <3>1 DEF Wait
      <4>2. \A i \in 1..Len(waiters) : waiters[i] \in Caller /\ waiters[i] # c
        BY <4>1 DEF LockOK
      <4>3. /\ waiters' \in Seq(Caller) /\ Len(waiters') = Len(waiters) + 1
            /\ \A i \in 1..Len(waiters) : waiters'[i] = waiters[i]
            /\ waiters'[Len(waiters) + 1] = c
        BY <4>1 DEF LockOK
      <4>4. waiters = <<>> \/ boundTo = LoopOf[c]
        <5>1. ASSUME waiters # <<>> PROVE LoopOf[waiters[1]] = boundTo /\ waiters[1] \in Caller
          BY <5>1, <4>2 DEF LockOK
        <5> QED
          BY <5>1, <3>1, GateAssumption
      <4>5. \A i \in 1..Len(waiters') : pc'[waiters'[i]] = "waiting" /\ LoopOf[waiters'[i]] = boundTo'
        BY <4>1, <4>2, <4>3, <4>4 DEF LockOK, TasksOK
      <4>6. \A i, j \in 1..Len(waiters') : waiters'[i] = waiters'[j] => i = j
        BY <4>2, <4>3 DEF LockOK
      <4> QED
        BY <4>1, <4>3, <4>5, <4>6, GateAssumption DEF LockOK
    <3>2. CASE boundTo \notin {None, LoopOf[c]}
      BY <1>5, <3>2 DEF Wait, LockOK, TasksOK, Done
    <3> QED
      BY <3>1, <3>2
  <2> QED
    BY <2>1, <2>2, <2>3
<1>6. ASSUME NEW c \in Caller, Resume(c) PROVE TypeOK'
  <2>1. WindowOK'
    BY <1>6 DEF Resume, WindowOK
  <2>2. TasksOK'
    BY <1>6 DEF Resume, TasksOK, Running
  <2>3. LockOK'
    <3>1. /\ waiters # <<>> /\ c = waiters[1] /\ waiters' = Tail(waiters)
          /\ pc' = [pc EXCEPT ![c] = "inside"]
          /\ locked' = TRUE /\ woken' = FALSE /\ boundTo' = boundTo /\ contended' = contended
      BY <1>6 DEF Resume, LockOK
    <3>2. /\ waiters' \in Seq(Caller) /\ Len(waiters') = Len(waiters) - 1
          /\ \A i \in 1..Len(waiters') : waiters'[i] = waiters[i + 1]
      BY <3>1 DEF LockOK
    <3>3. \A i \in 1..Len(waiters') : waiters'[i] # c
      BY <3>1, <3>2 DEF LockOK
    <3>4. \A i \in 1..Len(waiters') : /\ pc'[waiters'[i]] = "waiting"
                                      /\ LoopOf[waiters'[i]] = boundTo'
      <4>1. ASSUME NEW i \in 1..Len(waiters')
            PROVE  /\ waiters'[i] \in Caller /\ pc[waiters'[i]] = "waiting"
                   /\ LoopOf[waiters'[i]] = boundTo
        BY <3>2 DEF LockOK
      <4> QED
        BY <4>1, <3>1, <3>3 DEF TasksOK
    <3>5. \A i, j \in 1..Len(waiters') : waiters'[i] = waiters'[j] => i = j
      BY <3>2 DEF LockOK
    <3> QED
      BY <3>1, <3>2, <3>4, <3>5 DEF LockOK
  <2> QED
    BY <2>1, <2>2, <2>3
<1>7. ASSUME NEW c \in Caller, TakeLock(c) PROVE TypeOK'
  <2>1. WindowOK'
    BY <1>7 DEF TakeLock, WindowOK
  <2>2. TasksOK'
    BY <1>7 DEF TakeLock, TasksOK, Running
  <2>3. LockOK'
    BY <1>7 DEF TakeLock, LockOK, TasksOK
  <2> QED
    BY <2>1, <2>2, <2>3
<1>8. ASSUME NEW c \in Caller, Count(c) PROVE TypeOK'
  <2>1. WindowOK'
    <3>1. PICK n \in 0..Len(times) : times' = SubSeq(times, n + 1, Len(times))
      BY <1>8 DEF Count, Stale
    <3>2. times' \in Seq(Int)
      BY <3>1, PopLeavesSuffix DEF WindowOK
    <3> QED
      <4>1. [wall |-> Wall, real |-> now] \in Stamp
        BY GateAssumption DEF WindowOK, Stamp, Wall
      <4>2. stamp' \in [Caller -> Stamp]
        BY <1>8, <4>1 DEF Count, WindowOK
      <4> QED
        BY <1>8, <3>2, <4>2 DEF Count, WindowOK
  <2>2. TasksOK'
    BY <1>8 DEF Count, TasksOK, Running
  <2>3. LockOK'
    BY <1>8 DEF Count, LockOK, TasksOK
  <2> QED
    BY <2>1, <2>2, <2>3
<1>9. ASSUME NEW c \in Caller, Admit(c) PROVE TypeOK'
  <2>1. WindowOK'
    BY <1>9 DEF Admit, WindowOK, Stamp, NoStamp
  <2>2. TasksOK'
    BY <1>9 DEF Admit, TasksOK, Running
  <2>3. LockOK'
    BY <1>9 DEF Admit, LockOK, TasksOK
  <2> QED
    BY <2>1, <2>2, <2>3
<1>10. ASSUME NEW c \in Caller, Leave(c) PROVE TypeOK'
  <2>1. WindowOK'
    BY <1>10 DEF Leave, WindowOK
  <2>2. TasksOK'
    <3>1. CASE pc[c] = "leaving"
      <4>1. /\ pc' = [pc EXCEPT ![c] = "sent"] /\ request' = request /\ requests' = requests
            /\ sent' = [sent EXCEPT ![c] = Append(@, request[c])]
        BY <1>10, <3>1 DEF Leave, GoOn
      <4>2. request[c] \in Request
        BY <3>1 DEF TasksOK
      <4>3. sent' \in [Caller -> Seq(Request)]
        BY <4>1, <4>2 DEF TasksOK
      <4>4. pc' \in [Caller -> {"idle", "gating", "waiting", "sent"} \cup Running]
        BY <4>1 DEF TasksOK
      <4>5. \A d \in Caller : pc'[d] # "idle" => request'[d] \in Request
        BY <4>1, <4>2 DEF TasksOK
      <4> QED
        BY <4>1, <4>3, <4>4, <4>5 DEF TasksOK
    <3>2. CASE pc[c] # "leaving"
      <4>1. /\ pc' = [pc EXCEPT ![c] = "idle"] /\ request' = [request EXCEPT ![c] = NoRequest]
            /\ sent' = [sent EXCEPT ![c] = <<>>] /\ requests' = requests
        BY <1>10, <3>2 DEF Leave, Done, GoOn
      <4> QED
        BY <4>1 DEF TasksOK
    <3> QED
      BY <3>1, <3>2
  <2>3. LockOK'
    <3>1. PICK p \in {"sent", "idle"} : pc' = [pc EXCEPT ![c] = p]
      BY <1>10 DEF Leave, GoOn, Done
    <3>2. /\ pc[c] # "waiting" /\ locked' = FALSE /\ woken' = (waiters # <<>>)
          /\ waiters' = waiters /\ contended' = contended /\ boundTo' = boundTo
      BY <1>10 DEF Leave, Release
    <3>3. \A i \in 1..Len(waiters) : waiters[i] \in Caller /\ waiters[i] # c
      BY <3>2 DEF LockOK
    <3>4. \A d \in Caller \ {c} : pc'[d] = pc[d]
      BY <3>1 DEF TasksOK
    <3> QED
      BY <3>2, <3>3, <3>4 DEF LockOK
  <2> QED
    BY <2>1, <2>2, <2>3
<1>11. ASSUME NEW c \in Caller, LeaveUnlocked(c) PROVE TypeOK'
  <2>1. WindowOK'
    BY <1>11 DEF LeaveUnlocked, WindowOK
  <2>2. TasksOK'
    BY <1>11 DEF LeaveUnlocked, TasksOK, Running, Done
  <2>3. LockOK'
    BY <1>11 DEF LeaveUnlocked, LockOK, TasksOK, Done
  <2> QED
    BY <2>1, <2>2, <2>3
<1>12. ASSUME NEW c \in Caller, Follow(c) PROVE TypeOK'
  <2>1. WindowOK'
    BY <1>12 DEF Follow, WindowOK
  <2>2. TasksOK'
    <3>1. request[c] \in Request
      BY <1>12 DEF Follow, TasksOK
    <3>2. PICK r \in Request : request' = [request EXCEPT ![c] = r]
      BY <1>12, <3>1, RequestFacts DEF Follow
    <3> QED
      BY <1>12, <3>2 DEF Follow, TasksOK, Running
  <2>3. LockOK'
    BY <1>12 DEF Follow, LockOK, TasksOK
  <2> QED
    BY <2>1, <2>2, <2>3
<1>13. ASSUME NEW c \in Caller, Finish(c) PROVE TypeOK'
  <2>1. WindowOK'
    BY <1>13 DEF Finish, WindowOK
  <2>2. TasksOK'
    BY <1>13 DEF Finish, TasksOK, Running, Done
  <2>3. LockOK'
    BY <1>13 DEF Finish, LockOK, TasksOK, Done
  <2> QED
    BY <2>1, <2>2, <2>3
<1>14. CASE Tick
  BY <1>14 DEF Tick, WindowOK, TasksOK, LockOK
<1>15. CASE SetClock
  BY <1>15 DEF SetClock, WindowOK, TasksOK, LockOK
<1>16. CASE UNCHANGED vars
  BY <1>16 DEF vars, WindowOK, TasksOK, LockOK
<1> QED
  BY <1>1, <1>2, <1>3, <1>4, <1>5, <1>6, <1>7, <1>8, <1>9, <1>10, <1>11, <1>12, <1>13,
     <1>14, <1>15, <1>16 DEF Next, Gate, Inner
\* What is sent has been let through: every way to the lock is by RequestAllowed, and
\* nothing changes the request of a task that is past it.
LEMMA PolicyStep ==
  ASSUME TypeOK, NothingRefusedIsSent, PastThePolicy, [Next]_vars
  PROVE  NothingRefusedIsSent' /\ PastThePolicy'
<1> DEFINE Goal == NothingRefusedIsSent /\ PastThePolicy
<1> USE DEF TypeOK, TasksOK, clock, window, lock, NothingRefusedIsSent, PastThePolicy, Inside
<1>1. ASSUME NEW c \in Caller, NEW a \in Asked, Begin(c, a) PROVE Goal'
  BY <1>1 DEF Begin
<1>2. ASSUME NEW c \in Caller, Refuse(c) PROVE Goal'
  BY <1>2 DEF Refuse, Done
<1>3. ASSUME NEW c \in Caller, Acquire(c) PROVE Goal'
  BY <1>3 DEF Acquire
<1>4. ASSUME NEW c \in Caller, TestLock(c) PROVE Goal'
  BY <1>4 DEF TestLock
<1>5. ASSUME NEW c \in Caller, Wait(c) PROVE Goal'
  BY <1>5 DEF Wait, Done
<1>6. ASSUME NEW c \in Caller, Resume(c) PROVE Goal'
  BY <1>6 DEF Resume
<1>7. ASSUME NEW c \in Caller, TakeLock(c) PROVE Goal'
  BY <1>7 DEF TakeLock
<1>8. ASSUME NEW c \in Caller, Count(c) PROVE Goal'
  BY <1>8 DEF Count
<1>9. ASSUME NEW c \in Caller, Admit(c) PROVE Goal'
  BY <1>9 DEF Admit
<1>10. ASSUME NEW c \in Caller, Leave(c) PROVE Goal'
  <2>1. CASE pc[c] = "leaving"
    <3>1. RequestAllowed(request[c])
      BY <2>1
    <3>2. /\ pc' = [pc EXCEPT ![c] = "sent"] /\ request' = request
          /\ sent' = [sent EXCEPT ![c] = Append(@, request[c])]
      BY <1>10, <2>1 DEF Leave, GoOn
    <3>3. \A i \in 1..Len(sent'[c]) : RequestAllowed(sent'[c][i])
      BY <3>1, <3>2
    <3> QED
      BY <3>2, <3>3
  <2>2. CASE pc[c] # "leaving"
    <3>1. /\ pc' = [pc EXCEPT ![c] = "idle"] /\ request' = [request EXCEPT ![c] = NoRequest]
          /\ sent' = [sent EXCEPT ![c] = <<>>]
      BY <1>10, <2>2 DEF Leave, GoOn, Done
    <3>2. \A d \in Caller \ {c} : /\ pc'[d] = pc[d] /\ request'[d] = request[d]
                                  /\ sent'[d] = sent[d]
      BY <3>1
    <3>3. pc'[c] = "idle" /\ sent'[c] = <<>>
      BY <3>1
    <3>4. NothingRefusedIsSent'
      BY <3>2, <3>3
    <3>5. PastThePolicy'
      BY <3>2, <3>3
    <3> QED
      BY <3>4, <3>5
  <2> QED
    BY <2>1, <2>2
<1>11. ASSUME NEW c \in Caller, LeaveUnlocked(c) PROVE Goal'
  BY <1>11 DEF LeaveUnlocked, Done
<1>12. ASSUME NEW c \in Caller, Follow(c) PROVE Goal'
  BY <1>12 DEF Follow
<1>13. ASSUME NEW c \in Caller, Finish(c) PROVE Goal'
  BY <1>13 DEF Finish, Done
<1>14. CASE Tick
  BY <1>14 DEF Tick
<1>15. CASE SetClock
  BY <1>15 DEF SetClock
<1>16. CASE UNCHANGED vars
  BY <1>16 DEF vars
<1> QED
  BY <1>1, <1>2, <1>3, <1>4, <1>5, <1>6, <1>7, <1>8, <1>9, <1>10, <1>11, <1>12, <1>13,
     <1>14, <1>15, <1>16 DEF Next, Gate, Inner

\* As long as the fast path of acquire is the only one taken, its test and assignment
\* are one step.
LEMMA LockStep ==
  ASSUME TypeOK, LockExcludes, [Next]_vars
  PROVE  LockExcludes'
<1> USE DEF TypeOK, TasksOK, LockOK, lock, LockExcludes, Inside
<1>1. ASSUME NEW c \in Caller, NEW a \in Asked, Begin(c, a) PROVE LockExcludes'
  BY <1>1 DEF Begin
<1>2. ASSUME NEW c \in Caller, Refuse(c) PROVE LockExcludes'
  BY <1>2 DEF Refuse, Done
<1>3. ASSUME NEW c \in Caller, Acquire(c) PROVE LockExcludes'
  BY <1>3 DEF Acquire
<1>4. ASSUME NEW c \in Caller, TestLock(c) PROVE LockExcludes'
  BY <1>4 DEF TestLock
<1>5. ASSUME NEW c \in Caller, Wait(c) PROVE LockExcludes'
  BY <1>5 DEF Wait, Done
<1>6. ASSUME NEW c \in Caller, Resume(c) PROVE LockExcludes'
  BY <1>6 DEF Resume
<1>7. ASSUME NEW c \in Caller, TakeLock(c) PROVE LockExcludes'
  BY <1>7 DEF TakeLock
<1>8. ASSUME NEW c \in Caller, Count(c) PROVE LockExcludes'
  BY <1>8 DEF Count
<1>9. ASSUME NEW c \in Caller, Admit(c) PROVE LockExcludes'
  BY <1>9 DEF Admit
<1>10. ASSUME NEW c \in Caller, Leave(c) PROVE LockExcludes'
  BY ZenonT(30), <1>10 DEF Leave, Done, GoOn, Release
<1>11. ASSUME NEW c \in Caller, LeaveUnlocked(c) PROVE LockExcludes'
  BY <1>11 DEF LeaveUnlocked, Done
<1>12. ASSUME NEW c \in Caller, Follow(c) PROVE LockExcludes'
  BY <1>12 DEF Follow
<1>13. ASSUME NEW c \in Caller, Finish(c) PROVE LockExcludes'
  BY <1>13 DEF Finish, Done
<1>14. CASE Tick
  BY <1>14 DEF Tick
<1>15. CASE SetClock
  BY <1>15 DEF SetClock
<1>16. CASE UNCHANGED vars
  BY <1>16 DEF vars
<1> QED
  BY <1>1, <1>2, <1>3, <1>4, <1>5, <1>6, <1>7, <1>8, <1>9, <1>10, <1>11, <1>12, <1>13,
     <1>14, <1>15, <1>16 DEF Next, Gate, Inner

\* What a count does: it pops stamps older than the cutoff, and goes on only with room.
LEMMA CountFacts ==
  ASSUME TypeOK, NEW c \in Caller, Count(c)
  PROVE  \E n \in 0..Len(times) :
           /\ times' \in Seq(Int) /\ Len(times') = Len(times) - n
           /\ \A j \in 1..Len(times') : times'[j] = times[n + j]
           /\ \A i \in 1..n : times[i] < now + offset - Minute
           /\ n = Len(times) \/ times[n + 1] >= now + offset - Minute
<1>1. PICK n \in Stale(times, Wall - Minute) : times' = SubSeq(times, n + 1, Len(times))
  BY Zenon DEF Count
<1>2. /\ n \in 0..Len(times) /\ \A i \in 1..n : times[i] < now + offset - Minute
      /\ n = Len(times) \/ times[n + 1] >= now + offset - Minute
  <2>1. /\ n \in 0..Len(times) /\ \A i \in 1..n : times[i] < Wall - Minute
        /\ n = Len(times) \/ times[n + 1] >= Wall - Minute
    BY <1>1 DEF Stale
  <2> QED
    BY <2>1, GateAssumption DEF Wall, TypeOK, WindowOK
<1>3. times \in Seq(Int)
  BY DEF TypeOK, WindowOK
<1>4. /\ times' \in Seq(Int) /\ Len(times') = Len(times) - n
      /\ \A j \in 1..Len(times') : times'[j] = times[n + j]
  BY <1>1, <1>2, <1>3, PopLeavesSuffix
<1> QED
  BY <1>2, <1>4

\* ... and what it leaves alone.
LEMMA CountFrame ==
  ASSUME TypeOK, NEW c \in Caller, Count(c)
  PROVE  /\ UNCHANGED <<now, offset, clockSet, admitted, contended>>
         /\ \A d \in Caller \ {c} : pc'[d] = pc[d] /\ stamp'[d] = stamp[d]
         /\ pc[c] = "inside"
         /\ pc'[c] = "admitting" => /\ Len(times') < Limit
                                    /\ stamp'[c] = [wall |-> now + offset, real |-> now]
BY DEF Count, Wall, TypeOK, TasksOK, WindowOK, clock, lock, HasRoom

\* What an append does.
LEMMA AdmitFacts ==
  ASSUME TypeOK, NEW c \in Caller, Admit(c)
  PROVE  /\ times' = Append(times, stamp[c].wall) /\ admitted' = Append(admitted, stamp[c].real)
         /\ times \in Seq(Int) /\ admitted \in Seq(Nat) /\ stamp[c].wall \in Int /\ stamp[c].real \in Nat
         /\ Len(times') = Len(times) + 1 /\ Len(admitted') = Len(admitted) + 1
         /\ UNCHANGED <<now, offset, clockSet, contended>>
         /\ pc[c] = "admitting" /\ pc'[c] = "leaving"
         /\ \A d \in Caller \ {c} : pc'[d] = pc[d] /\ stamp'[d] = stamp[d]
<1>1. /\ times \in Seq(Int) /\ admitted \in Seq(Nat) /\ stamp[c].wall \in Int /\ stamp[c].real \in Nat
  BY DEF TypeOK, WindowOK, Stamp
<1>2. /\ times' = Append(times, stamp[c].wall) /\ admitted' = Append(admitted, stamp[c].real)
      /\ UNCHANGED <<now, offset, clockSet, contended>>
      /\ pc[c] = "admitting" /\ pc'[c] = "leaving"
      /\ \A d \in Caller \ {c} : pc'[d] = pc[d] /\ stamp'[d] = stamp[d]
  BY DEF Admit, TypeOK, TasksOK, WindowOK, clock, lock
<1> QED
  BY <1>1, <1>2

\* A count pops only what is more than a minute old: no stamp is before its real time.
LEMMA CountKeepsHistory ==
  ASSUME TypeOK, DequeIsHistory, NEW c \in Caller, Count(c)
  PROVE  DequeIsHistory'
<1> SUFFICES ASSUME "forward" \notin clockSet PROVE DequeIsHistory'
  BY CountFrame DEF DequeIsHistory
<1>0. /\ now \in Nat /\ offset \in Int /\ times \in Seq(Int) /\ admitted \in Seq(Nat)
      /\ Minute \in Nat /\ stamp \in [Caller -> Stamp]
  BY GateAssumption DEF TypeOK, WindowOK
<1>00. /\ UNCHANGED <<now, offset, clockSet, admitted>>
       /\ \A d \in Caller \ {c} : pc'[d] = pc[d] /\ stamp'[d] = stamp[d]
       /\ pc'[c] = "admitting" => stamp'[c] = [wall |-> now + offset, real |-> now]
  BY CountFrame
<1>1. /\ Gone >= 0 /\ Gone \in Int
      /\ \A j \in 1..Len(times) : times[j] >= admitted[Gone + j] + offset
      /\ \A i \in 1..Gone : now - admitted[i] > Minute
      /\ \A d \in Caller : pc[d] = "admitting" => stamp[d].wall >= stamp[d].real + offset
  BY <1>0 DEF DequeIsHistory, Gone
<1>2. PICK n \in 0..Len(times) :
        /\ times' \in Seq(Int) /\ Len(times') = Len(times) - n
        /\ \A j \in 1..Len(times') : times'[j] = times[n + j]
        /\ \A i \in 1..n : times[i] < now + offset - Minute
  BY CountFacts
<1>3. Gone' = Gone + n /\ Len(times) \in Nat /\ Len(admitted) = Gone + Len(times)
  <2>1. Len(times) \in Nat /\ Len(admitted) \in Nat
    BY <1>0
  <2>2. Len(admitted') = Len(admitted) /\ Len(times') = Len(times) - n
    BY <1>00, <1>2
  <2> QED
    BY <2>1, <2>2 DEF Gone
<1>4. ASSUME NEW j \in 1..Len(times') PROVE times'[j] >= admitted[Gone' + j] + offset
  <2>1. n + j \in 1..Len(times) /\ Gone' + j = Gone + (n + j)
    BY <1>1, <1>2, <1>3
  <2> QED
    BY <1>1, <1>2, <2>1
<1>5. ASSUME NEW i \in 1..Gone' PROVE now - admitted[i] > Minute
  <2>1. CASE i > Gone
    <3>1. i - Gone \in 1..n /\ i - Gone \in 1..Len(times) /\ Gone + (i - Gone) = i
      BY <1>1, <1>2, <1>3, <2>1
    <3>2. times[i - Gone] >= admitted[i] + offset /\ times[i - Gone] < now + offset - Minute
      BY <1>1, <1>2, <3>1
    <3>3. times[i - Gone] \in Int /\ admitted[i] \in Int
      <4>1. i \in 1..Len(admitted)
        BY <1>1, <1>3, <3>1
      <4> QED
        BY <1>0, <3>1, <4>1
    <3> QED
      BY SMTT(30), <1>0, <3>2, <3>3
  <2>2. CASE i <= Gone
    BY <1>1, <2>2
  <2> QED
    BY <2>1, <2>2, <1>1
<1>6. \A d \in Caller : pc'[d] = "admitting" => stamp'[d].wall >= stamp'[d].real + offset
  <2>1. pc'[c] = "admitting" => stamp'[c].wall >= stamp'[c].real + offset
    BY <1>0, <1>00
  <2> QED
    BY <1>1, <1>00, <2>1
<1> QED
  BY <1>00, <1>1, <1>2, <1>3, <1>4, <1>5, <1>6 DEF DequeIsHistory

\* An append adds to both ends.
LEMMA AdmitKeepsHistory ==
  ASSUME TypeOK, DequeIsHistory, NEW c \in Caller, Admit(c)
  PROVE  DequeIsHistory'
<1> SUFFICES ASSUME "forward" \notin clockSet PROVE DequeIsHistory'
  BY AdmitFacts DEF DequeIsHistory
<1>0. /\ times' = Append(times, stamp[c].wall) /\ admitted' = Append(admitted, stamp[c].real)
      /\ times \in Seq(Int) /\ admitted \in Seq(Nat) /\ stamp[c].wall \in Int /\ stamp[c].real \in Nat
      /\ Len(times') = Len(times) + 1 /\ Len(admitted') = Len(admitted) + 1
      /\ UNCHANGED <<now, offset, clockSet>>
      /\ pc[c] = "admitting" /\ pc'[c] = "leaving"
      /\ \A d \in Caller \ {c} : pc'[d] = pc[d] /\ stamp'[d] = stamp[d]
  BY AdmitFacts
<1>00. now \in Nat /\ offset \in Int /\ Len(times) \in Nat /\ Len(admitted) \in Nat
  BY <1>0, GateAssumption DEF TypeOK, WindowOK
<1>1. /\ Gone >= 0 /\ Gone \in Int /\ Len(admitted) = Gone + Len(times)
      /\ \A j \in 1..Len(times) : times[j] >= admitted[Gone + j] + offset
      /\ \A i \in 1..Gone : now - admitted[i] > Minute
      /\ \A d \in Caller : pc[d] = "admitting" => stamp[d].wall >= stamp[d].real + offset
  BY <1>00 DEF DequeIsHistory, Gone
<1>2. Gone' = Gone
  BY <1>0, <1>00 DEF Gone
<1>3. ASSUME NEW j \in 1..Len(times') PROVE times'[j] >= admitted'[Gone + j] + offset
  <2>1. CASE j = Len(times) + 1
    <3>1. Gone + j = Len(admitted) + 1
      BY <1>00, <1>1, <2>1
    <3> QED
      BY <1>0, <1>00, <1>1, <2>1, <3>1
  <2>2. CASE j # Len(times) + 1
    <3>0. j \in 1..(Len(times) + 1)
      BY <1>0
    <3>1. j \in 1..Len(times) /\ Gone + j \in 1..Len(admitted)
      BY <3>0, <1>00, <1>1, <2>2
    <3>2. times'[j] = times[j] /\ admitted'[Gone + j] = admitted[Gone + j]
      BY <1>0, <1>00, <3>1
    <3> QED
      BY <1>1, <3>1, <3>2
  <2> QED
    BY <2>1, <2>2
<1>4. ASSUME NEW i \in 1..Gone PROVE now - admitted'[i] > Minute
  <2>1. i \in 1..Len(admitted)
    BY <1>00, <1>1
  <2>2. admitted'[i] = admitted[i]
    BY <1>0, <2>1
  <2> QED
    BY <1>0, <1>1, <2>2
<1>5. \A d \in Caller : pc'[d] = "admitting" => stamp'[d].wall >= stamp'[d].real + offset
  BY <1>0, <1>1
<1> QED
  BY <1>0, <1>1, <1>2, <1>3, <1>4, <1>5 DEF DequeIsHistory

\* The deque stays a suffix of the history.
LEMMA DequeStep ==
  ASSUME TypeOK, DequeIsHistory, [Next]_vars
  PROVE  DequeIsHistory'
<1> USE GateAssumption DEF TypeOK, TasksOK, WindowOK, clock, window, DequeIsHistory, Gone
<1>1. ASSUME NEW c \in Caller, NEW a \in Asked, Begin(c, a) PROVE DequeIsHistory'
  BY <1>1 DEF Begin
<1>2. ASSUME NEW c \in Caller, Refuse(c) PROVE DequeIsHistory'
  BY <1>2 DEF Refuse, Done
<1>3. ASSUME NEW c \in Caller, Acquire(c) PROVE DequeIsHistory'
  BY <1>3 DEF Acquire
<1>4. ASSUME NEW c \in Caller, TestLock(c) PROVE DequeIsHistory'
  BY <1>4 DEF TestLock
<1>5. ASSUME NEW c \in Caller, Wait(c) PROVE DequeIsHistory'
  BY <1>5 DEF Wait, Done
<1>6. ASSUME NEW c \in Caller, Resume(c) PROVE DequeIsHistory'
  BY <1>6 DEF Resume
<1>7. ASSUME NEW c \in Caller, TakeLock(c) PROVE DequeIsHistory'
  BY <1>7 DEF TakeLock
<1>8. ASSUME NEW c \in Caller, Count(c) PROVE DequeIsHistory'
  BY <1>8, CountKeepsHistory
<1>9. ASSUME NEW c \in Caller, Admit(c) PROVE DequeIsHistory'
  BY <1>9, AdmitKeepsHistory
<1>10. ASSUME NEW c \in Caller, Leave(c) PROVE DequeIsHistory'
  BY <1>10 DEF Leave, Done, GoOn, Release
<1>11. ASSUME NEW c \in Caller, LeaveUnlocked(c) PROVE DequeIsHistory'
  BY <1>11 DEF LeaveUnlocked, Done
<1>12. ASSUME NEW c \in Caller, Follow(c) PROVE DequeIsHistory'
  BY <1>12 DEF Follow
<1>13. ASSUME NEW c \in Caller, Finish(c) PROVE DequeIsHistory'
  BY <1>13 DEF Finish, Done
<1>14. CASE Tick
  BY SMTT(30), <1>14 DEF Tick
<1>15. CASE SetClock
  <2> SUFFICES ASSUME "forward" \notin clockSet' PROVE DequeIsHistory'
    OBVIOUS
  <2>1. /\ UNCHANGED <<now, times, admitted, stamp, pc>>
        /\ offset \in Int /\ offset' \in Int
        /\ clockSet' = clockSet \cup {IF offset' > offset THEN "forward" ELSE "back"}
    BY <1>15 DEF SetClock
  <2>2. offset' <= offset /\ "forward" \notin clockSet
    BY <2>1
  <2>3. \A c \in Caller : stamp[c].wall \in Int /\ stamp[c].real \in Int
    BY DEF Stamp
  <2>4. \A c \in Caller : pc[c] = "admitting" => stamp[c].wall >= stamp[c].real + offset'
    BY <2>1, <2>2, <2>3
  <2>5. ASSUME NEW j \in 1..Len(times) PROVE times[j] >= admitted[Gone + j] + offset'
    <3>1. times[j] >= admitted[Gone + j] + offset /\ Gone >= 0
      BY <2>2
    <3>2. Gone + j \in 1..Len(admitted)
      BY <3>1
    <3>3. times[j] \in Int /\ admitted[Gone + j] \in Int
      BY SMTT(30), <3>2
    <3> HIDE DEF Gone
    <3> QED
      BY SMTT(30), <2>1, <2>2, <3>1, <3>3
  <2> QED
    BY <2>1, <2>2, <2>4, <2>5
<1>16. CASE UNCHANGED vars
  BY <1>16 DEF vars
<1> QED
  BY <1>1, <1>2, <1>3, <1>4, <1>5, <1>6, <1>7, <1>8, <1>9, <1>10, <1>11, <1>12, <1>13,
     <1>14, <1>15, <1>16 DEF Next, Gate, Inner

\* A task that counts is alone inside the lock.
LEMMA CountKeepsRoom ==
  ASSUME TypeOK, LockExcludes, DequeIsHistory, NEW c \in Caller, Count(c)
  PROVE  RoomIsKept'
<1> SUFFICES ASSUME ~contended, "forward" \notin clockSet, NEW d \in Caller, pc'[d] = "admitting"
             PROVE  /\ Len(times') < Limit
                    /\ \A i \in 1..Gone' : stamp'[d].real - admitted'[i] > Minute
  BY CountFrame DEF RoomIsKept
<1>1. d = c
  BY CountFrame DEF LockExcludes, Inside
<1>2. Len(times') < Limit /\ stamp'[c].real = now
  BY <1>1, CountFrame
<1>3. \A i \in 1..Gone' : now' - admitted'[i] > Minute
  <2>1. DequeIsHistory' /\ "forward" \notin clockSet'
    BY CountKeepsHistory, CountFrame
  <2> QED
    BY <2>1 DEF DequeIsHistory
<1> QED
  BY <1>1, <1>2, <1>3, CountFrame

\* Nobody changes the deque while a task is between its count and its append.
LEMMA RoomStep ==
  ASSUME TypeOK, LockExcludes, DequeIsHistory, RoomIsKept, [Next]_vars
  PROVE  RoomIsKept'
<1> USE GateAssumption DEF TypeOK, TasksOK, WindowOK, clock, window, lock, RoomIsKept, Gone
<1>1. ASSUME NEW c \in Caller, NEW a \in Asked, Begin(c, a) PROVE RoomIsKept'
  BY <1>1 DEF Begin
<1>2. ASSUME NEW c \in Caller, Refuse(c) PROVE RoomIsKept'
  BY <1>2 DEF Refuse, Done
<1>3. ASSUME NEW c \in Caller, Acquire(c) PROVE RoomIsKept'
  BY <1>3 DEF Acquire
<1>4. ASSUME NEW c \in Caller, TestLock(c) PROVE RoomIsKept'
  BY <1>4 DEF TestLock
<1>5. ASSUME NEW c \in Caller, Wait(c) PROVE RoomIsKept'
  BY <1>5 DEF Wait, Done
<1>6. ASSUME NEW c \in Caller, Resume(c) PROVE RoomIsKept'
  BY <1>6 DEF Resume
<1>7. ASSUME NEW c \in Caller, TakeLock(c) PROVE RoomIsKept'
  BY <1>7 DEF TakeLock
<1>8. ASSUME NEW c \in Caller, Count(c) PROVE RoomIsKept'
  BY <1>8, CountKeepsRoom
<1>9. ASSUME NEW c \in Caller, Admit(c) PROVE RoomIsKept'
  <2> SUFFICES ASSUME ~contended, NEW d \in Caller, pc'[d] = "admitting" PROVE FALSE
    BY <1>9, AdmitFacts DEF RoomIsKept
  <2> QED
    <3>1. pc[c] = "admitting" /\ pc'[c] = "leaving" /\ \A e \in Caller \ {c} : pc'[e] = pc[e]
      BY <1>9, AdmitFacts
    <3>2. d # c /\ pc[d] = "admitting"
      BY <3>1
    <3> QED
      BY <3>1, <3>2 DEF LockExcludes, Inside
<1>10. ASSUME NEW c \in Caller, Leave(c) PROVE RoomIsKept'
  BY <1>10 DEF Leave, Done, GoOn, Release
<1>11. ASSUME NEW c \in Caller, LeaveUnlocked(c) PROVE RoomIsKept'
  BY <1>11 DEF LeaveUnlocked, Done
<1>12. ASSUME NEW c \in Caller, Follow(c) PROVE RoomIsKept'
  BY <1>12 DEF Follow
<1>13. ASSUME NEW c \in Caller, Finish(c) PROVE RoomIsKept'
  BY <1>13 DEF Finish, Done
<1>14. CASE Tick
  BY <1>14 DEF Tick
<1>15. CASE SetClock
  BY <1>15 DEF SetClock
<1>16. CASE UNCHANGED vars
  BY <1>16 DEF vars
<1> QED
  BY <1>1, <1>2, <1>3, <1>4, <1>5, <1>6, <1>7, <1>8, <1>9, <1>10, <1>11, <1>12, <1>13,
     <1>14, <1>15, <1>16 DEF Next, Gate, Inner

\* The one Limit before the request that is appended has been popped.
LEMMA AdmitKeepsLimit ==
  ASSUME TypeOK, DequeIsHistory, RoomIsKept, MinuteHoldsLimit, NEW c \in Caller, Admit(c)
  PROVE  MinuteHoldsLimit'
<1> SUFFICES ASSUME ~contended, "forward" \notin clockSet, NEW i \in 1..Len(admitted'), i > Limit
             PROVE  admitted'[i] - admitted'[i - Limit] > Minute
  BY AdmitFacts DEF MinuteHoldsLimit
<1> USE AdmitFacts
<1>0. Limit \in Nat \ {0} /\ i \in Nat /\ i - Limit \in 1..Len(admitted)
  BY GateAssumption
<1>1. CASE i = Len(admitted) + 1
  <2>1. Len(times) < Limit /\ \A k \in 1..Gone : stamp[c].real - admitted[k] > Minute
    BY DEF RoomIsKept
  <2>2. i - Limit \in 1..Gone
    BY <1>0, <1>1, <2>1 DEF Gone
  <2>3. admitted'[i] = stamp[c].real /\ admitted'[i - Limit] = admitted[i - Limit]
    BY <1>0, <1>1
  <2> QED
    BY <2>1, <2>2, <2>3
<1>2. CASE i # Len(admitted) + 1
  <2>1. i \in 1..Len(admitted)
    BY <1>2
  <2>2. admitted'[i] = admitted[i] /\ admitted'[i - Limit] = admitted[i - Limit]
    BY SMTT(30), <1>0, <2>1
  <2> QED
    BY <2>1, <2>2 DEF MinuteHoldsLimit
<1> QED
  BY <1>1, <1>2

\* The request that is appended is more than a minute after the one Limit before it.
LEMMA MinuteStep ==
  ASSUME TypeOK, DequeIsHistory, RoomIsKept, MinuteHoldsLimit, [Next]_vars
  PROVE  MinuteHoldsLimit'
<1> USE GateAssumption DEF TypeOK, WindowOK, clock, window, lock, MinuteHoldsLimit
<1>1. ASSUME NEW c \in Caller, NEW a \in Asked, Begin(c, a) PROVE MinuteHoldsLimit'
  BY <1>1 DEF Begin
<1>2. ASSUME NEW c \in Caller, Refuse(c) PROVE MinuteHoldsLimit'
  BY <1>2 DEF Refuse, Done
<1>3. ASSUME NEW c \in Caller, Acquire(c) PROVE MinuteHoldsLimit'
  BY <1>3 DEF Acquire
<1>4. ASSUME NEW c \in Caller, TestLock(c) PROVE MinuteHoldsLimit'
  BY <1>4 DEF TestLock
<1>5. ASSUME NEW c \in Caller, Wait(c) PROVE MinuteHoldsLimit'
  BY <1>5 DEF Wait, Done
<1>6. ASSUME NEW c \in Caller, Resume(c) PROVE MinuteHoldsLimit'
  BY <1>6 DEF Resume
<1>7. ASSUME NEW c \in Caller, TakeLock(c) PROVE MinuteHoldsLimit'
  BY <1>7 DEF TakeLock
<1>8. ASSUME NEW c \in Caller, Count(c) PROVE MinuteHoldsLimit'
  BY <1>8 DEF Count
<1>9. ASSUME NEW c \in Caller, Admit(c) PROVE MinuteHoldsLimit'
  BY <1>9, AdmitKeepsLimit
<1>10. ASSUME NEW c \in Caller, Leave(c) PROVE MinuteHoldsLimit'
  BY <1>10 DEF Leave, Done, GoOn, Release
<1>11. ASSUME NEW c \in Caller, LeaveUnlocked(c) PROVE MinuteHoldsLimit'
  BY <1>11 DEF LeaveUnlocked, Done
<1>12. ASSUME NEW c \in Caller, Follow(c) PROVE MinuteHoldsLimit'
  BY <1>12 DEF Follow
<1>13. ASSUME NEW c \in Caller, Finish(c) PROVE MinuteHoldsLimit'
  BY <1>13 DEF Finish, Done
<1>14. CASE Tick
  BY <1>14 DEF Tick
<1>15. CASE SetClock
  BY <1>15 DEF SetClock
<1>16. CASE UNCHANGED vars
  BY <1>16 DEF vars
<1> QED
  BY <1>1, <1>2, <1>3, <1>4, <1>5, <1>6, <1>7, <1>8, <1>9, <1>10, <1>11, <1>12, <1>13,
     <1>14, <1>15, <1>16 DEF Next, Gate, Inner

\* The inductive invariant: the lock excludes until two threads meet at it, the deque is
\* what is left of the history, and a count holds until the append.
THEOREM InductiveInvariant == Spec => []IInv
<1>1. ASSUME Init PROVE IInv
  <2>1. TypeOK
    <3>1. WindowOK
      BY <1>1, GateAssumption DEF Init, WindowOK, NoStamp, Stamp
    <3>2. TasksOK
      BY <1>1, GateAssumption DEF Init, TasksOK
    <3>3. LockOK
      <4>1. waiters = <<>> /\ locked = FALSE /\ contended = FALSE /\ woken = FALSE /\ boundTo = None
        BY <1>1 DEF Init
      <4>2. waiters \in Seq(Caller) /\ Len(waiters) = 0
        BY <4>1
      <4>3. 1..Len(waiters) = {}
        BY <4>2
      <4> QED
        BY <4>1, <4>2, <4>3 DEF LockOK
    <3> QED
      BY <3>1, <3>2, <3>3 DEF TypeOK
  <2>2. NothingRefusedIsSent /\ PastThePolicy /\ LockExcludes
    BY <1>1 DEF Init, NothingRefusedIsSent, PastThePolicy, LockExcludes, Inside
  <2>3. DequeIsHistory /\ RoomIsKept /\ MinuteHoldsLimit
    BY <1>1 DEF Init, DequeIsHistory, RoomIsKept, MinuteHoldsLimit, Gone
  <2> QED
    BY <2>1, <2>2, <2>3 DEF IInv
<1>2. IInv /\ [Next]_vars => IInv'
  BY TypeStep, PolicyStep, LockStep, DequeStep, RoomStep, MinuteStep DEF IInv
<1> QED
  BY <1>1, <1>2, PTL DEF Spec

\* The types, and the agreement of the parts of the lock.
THEOREM TypeCorrect == Spec => []TypeOK
<1>1. IInv => TypeOK
  BY DEF IInv
<1> QED
  BY <1>1, InductiveInvariant, PTL

\* No hop goes out that the policy would refuse, redirects included.
THEOREM NothingRefused == Spec => []NothingRefusedIsSent
<1>1. IInv => NothingRefusedIsSent
  BY DEF IInv
<1> QED
  BY <1>1, InductiveInvariant, PTL

\* No minute of real time holds more than Limit requests, as long as no two threads have
\* met at the lock and the clock has not been set forward.
THEOREM RateIsLimited == Spec => []MinuteHoldsLimit
<1>1. IInv => MinuteHoldsLimit
  BY DEF IInv
<1> QED
  BY <1>1, InductiveInvariant, PTL

(***************************************************************************)
(* The other side of the limit: nobody is refused before it is reached.     *)
(* Only the first stamp that stays is compared with the cutoff, so this     *)
(* rests on the order of the deque.                                         *)
(***************************************************************************)

\* A count leaves the rest of an ordered deque.
LEMMA CountKeepsOrder ==
  ASSUME TypeOK, LockExcludes, DequeIsOrdered, NEW c \in Caller, Count(c)
  PROVE  DequeIsOrdered'
<1>0. /\ now \in Nat /\ offset \in Int /\ times \in Seq(Int) /\ admitted \in Seq(Nat)
      /\ Len(times) \in Nat /\ Len(admitted) \in Nat
  BY GateAssumption DEF TypeOK, WindowOK
<1>1. /\ UNCHANGED <<now, offset, clockSet, admitted, contended>>
      /\ \A d \in Caller \ {c} : pc'[d] = pc[d] /\ stamp'[d] = stamp[d]
      /\ pc[c] = "inside"
      /\ pc'[c] = "admitting" => stamp'[c] = [wall |-> now + offset, real |-> now]
  BY CountFrame
<1>2. PICK n \in 0..Len(times) :
        /\ times' \in Seq(Int) /\ Len(times') = Len(times) - n
        /\ \A j \in 1..Len(times') : times'[j] = times[n + j]
  BY CountFacts
<1>3. Gone' = Gone + n /\ Gone \in Int /\ Gone >= 0 /\ Gone + Len(times) = Len(admitted)
  BY <1>0, <1>1, <1>2 DEF Gone, DequeIsOrdered
<1>4. /\ \A i \in 1..Len(admitted') : admitted'[i] <= now'
      /\ \A d \in Caller : pc'[d] = "admitting" => stamp'[d].real <= now'
  BY <1>0, <1>1 DEF DequeIsOrdered
<1>5. ASSUME ~contended, "back" \notin clockSet
      PROVE  /\ \A j \in 1..Len(times') : times'[j] <= admitted[Gone' + j] + offset
             /\ \A j, k \in 1..Len(times') : j <= k => times'[j] <= times'[k]
             /\ \A d \in Caller : pc'[d] = "admitting" =>
                  /\ stamp'[d].wall <= stamp'[d].real + offset
                  /\ \A j \in 1..Len(times') : times'[j] <= stamp'[d].wall
  <2>1. /\ \A j \in 1..Len(times) : times[j] <= admitted[Gone + j] + offset
        /\ \A j, k \in 1..Len(times) : j <= k => times[j] <= times[k]
    BY <1>5 DEF DequeIsOrdered
  <2>2. ASSUME NEW j \in 1..Len(times')
        PROVE  n + j \in 1..Len(times) /\ Gone' + j = Gone + (n + j)
    <3>1. Len(times') = Len(times) - n /\ n \in 0..Len(times)
      BY <1>2
    <3>2. j \in Int /\ 1 <= j /\ j <= Len(times) - n
      BY <1>0, <3>1
    <3>3. n + j \in 1..Len(times)
      BY <1>0, <3>1, <3>2
    <3> QED
      BY <1>0, <1>3, <3>2, <3>3
  <2>3. \A j \in 1..Len(times') : times'[j] <= admitted[Gone' + j] + offset
    BY <1>2, <2>1, <2>2
  <2>4. ASSUME NEW j \in 1..Len(times'), NEW k \in 1..Len(times'), j <= k
        PROVE  times'[j] <= times'[k]
    <3>1. n + j <= n + k
      BY <1>2, <2>4
    <3> QED
      BY <1>2, <2>1, <2>2, <3>1
  <2>5. ASSUME NEW d \in Caller, pc'[d] = "admitting"
        PROVE  /\ stamp'[d].wall <= stamp'[d].real + offset
               /\ \A j \in 1..Len(times') : times'[j] <= stamp'[d].wall
    <3>1. d = c
      BY <1>1, <1>5, <2>5 DEF LockExcludes, Inside
    <3>2. stamp'[d].wall = now + offset /\ stamp'[d].real = now
      BY <1>1, <2>5, <3>1
    <3>3. ASSUME NEW j \in 1..Len(times') PROVE times'[j] <= now + offset
      <4>1. Gone' + j \in 1..Len(admitted)
        BY <1>2, <1>3, <2>2
      <4>2. admitted[Gone' + j] <= now /\ admitted[Gone' + j] \in Int
        BY <1>0, <4>1 DEF DequeIsOrdered
      <4>3. times'[j] \in Int
        BY <1>2
      <4> QED
        BY <1>0, <2>3, <4>2, <4>3
    <3> QED
      BY <1>0, <3>2, <3>3
  <2> QED
    BY <2>3, <2>4, <2>5
<1> QED
  BY <1>1, <1>3, <1>4, <1>5, <1>2, <1>0 DEF DequeIsOrdered

\* An append puts the latest stamp last.
LEMMA AdmitKeepsOrder ==
  ASSUME TypeOK, LockExcludes, DequeIsOrdered, NEW c \in Caller, Admit(c)
  PROVE  DequeIsOrdered'
<1>0. /\ times' = Append(times, stamp[c].wall) /\ admitted' = Append(admitted, stamp[c].real)
      /\ times \in Seq(Int) /\ admitted \in Seq(Nat) /\ stamp[c].wall \in Int /\ stamp[c].real \in Nat
      /\ Len(times') = Len(times) + 1 /\ Len(admitted') = Len(admitted) + 1
      /\ UNCHANGED <<now, offset, clockSet, contended>>
      /\ pc[c] = "admitting" /\ pc'[c] = "leaving"
      /\ \A d \in Caller \ {c} : pc'[d] = pc[d] /\ stamp'[d] = stamp[d]
  BY AdmitFacts
<1>1. now \in Nat /\ offset \in Int /\ Len(times) \in Nat /\ Len(admitted) \in Nat
  BY <1>0, GateAssumption DEF TypeOK, WindowOK
<1>2. Gone' = Gone /\ Gone \in Int /\ Gone >= 0 /\ Gone + Len(times) = Len(admitted)
  BY <1>0, <1>1 DEF Gone, DequeIsOrdered
<1>3. /\ \A j \in 1..Len(times) : times'[j] = times[j]
      /\ times'[Len(times) + 1] = stamp[c].wall
      /\ \A i \in 1..Len(admitted) : admitted'[i] = admitted[i]
      /\ admitted'[Len(admitted) + 1] = stamp[c].real
  BY <1>0
<1>4. /\ \A i \in 1..Len(admitted') : admitted'[i] <= now'
      /\ \A d \in Caller : pc'[d] = "admitting" => stamp'[d].real <= now'
  <2>1. ASSUME NEW i \in 1..Len(admitted') PROVE admitted'[i] <= now
    <3>1. i \in 1..Len(admitted) \/ i = Len(admitted) + 1
      BY <1>0, <1>1
    <3> QED
      BY <1>0, <1>3, <3>1 DEF DequeIsOrdered
  <2>2. \A d \in Caller : pc'[d] = "admitting" => stamp'[d].real <= now
    BY <1>0 DEF DequeIsOrdered
  <2> QED
    BY <1>0, <2>1, <2>2
<1>5. ASSUME ~contended, "back" \notin clockSet
      PROVE  /\ \A j \in 1..Len(times') : times'[j] <= admitted'[Gone + j] + offset
             /\ \A j, k \in 1..Len(times') : j <= k => times'[j] <= times'[k]
             /\ \A d \in Caller : pc'[d] # "admitting"
  <2>1. /\ \A j \in 1..Len(times) : times[j] <= admitted[Gone + j] + offset
        /\ \A j, k \in 1..Len(times) : j <= k => times[j] <= times[k]
        /\ stamp[c].wall <= stamp[c].real + offset
        /\ \A j \in 1..Len(times) : times[j] <= stamp[c].wall
    BY <1>0, <1>5 DEF DequeIsOrdered
  <2>2. ASSUME NEW j \in 1..Len(times') PROVE j \in 1..Len(times) \/ j = Len(times) + 1
    <3>1. j \in 1..(Len(times) + 1)
      BY <1>0
    <3> QED
      BY <1>1, <3>1
  <2>3. ASSUME NEW j \in 1..Len(times') PROVE times'[j] <= admitted'[Gone + j] + offset
    <3>1. CASE j \in 1..Len(times)
      <4>1. Gone + j \in 1..Len(admitted)
        BY <1>1, <1>2, <3>1
      <4> QED
        BY <1>3, <2>1, <3>1, <4>1
    <3>2. CASE j = Len(times) + 1
      <4>1. Gone + j = Len(admitted) + 1
        BY <1>1, <1>2, <3>2
      <4> QED
        BY <1>3, <2>1, <3>2, <4>1
    <3> QED
      BY <2>2, <3>1, <3>2
  <2>4. ASSUME NEW j \in 1..Len(times'), NEW k \in 1..Len(times'), j <= k
        PROVE  times'[j] <= times'[k]
    <3>1. CASE k \in 1..Len(times)
      <4>1. j \in 1..Len(times)
        BY <1>0, <2>4, <3>1
      <4> QED
        BY <1>3, <2>1, <2>4, <3>1, <4>1
    <3>2. CASE k = Len(times) + 1
      <4>1. CASE j \in 1..Len(times)
        BY <1>3, <2>1, <3>2, <4>1
      <4>2. CASE j = Len(times) + 1
        BY <1>0, <1>3, <3>2, <4>2
      <4> QED
        BY <2>2, <4>1, <4>2
    <3> QED
      BY <2>2, <3>1, <3>2
  <2>5. \A d \in Caller : pc'[d] # "admitting"
    <3>1. ASSUME NEW d \in Caller, d # c PROVE pc'[d] # "admitting"
      <4>1. pc[d] \notin Inside \/ pc[c] \notin Inside
        BY <1>5, <3>1 DEF LockExcludes
      <4> QED
        BY <1>0, <3>1, <4>1 DEF Inside
    <3> QED
      BY <1>0, <3>1
  <2> QED
    BY <2>3, <2>4, <2>5
<1> QED
  BY <1>0, <1>2, <1>4, <1>5 DEF DequeIsOrdered

\* A tick or a clock set forward moves no stamp past its time.
LEMMA ClockKeepsOrder ==
  ASSUME TypeOK, DequeIsOrdered, Tick \/ SetClock
  PROVE  DequeIsOrdered'
<1>0. /\ now \in Nat /\ offset \in Int /\ offset' \in Int /\ times \in Seq(Int)
      /\ admitted \in Seq(Nat) /\ stamp \in [Caller -> Stamp]
  BY GateAssumption DEF TypeOK, WindowOK, Tick, SetClock
<1>1. /\ UNCHANGED <<times, admitted, stamp, pc, contended>> /\ now <= now' /\ now' \in Nat
      /\ "back" \notin clockSet' => offset <= offset' /\ "back" \notin clockSet
  BY <1>0 DEF Tick, SetClock, window, lock
<1>2. Gone' = Gone /\ Gone \in Int /\ Gone >= 0 /\ Gone + Len(times) = Len(admitted)
  BY <1>0, <1>1 DEF Gone, DequeIsOrdered
<1>3. \A d \in Caller : stamp[d].wall \in Int /\ stamp[d].real \in Nat
  BY <1>0 DEF Stamp
<1>4. \A i \in 1..Len(admitted) : admitted[i] <= now'
  <2>1. \A i \in 1..Len(admitted) : admitted[i] \in Nat /\ admitted[i] <= now
    BY <1>0 DEF DequeIsOrdered
  <2> QED
    BY <1>0, <1>1, <2>1
<1>5. \A d \in Caller : pc[d] = "admitting" => stamp[d].real <= now'
  BY <1>0, <1>1, <1>3 DEF DequeIsOrdered
<1>6. ASSUME ~contended, "back" \notin clockSet'
      PROVE  /\ \A j \in 1..Len(times) : times[j] <= admitted[Gone + j] + offset'
             /\ \A d \in Caller : pc[d] = "admitting" => stamp[d].wall <= stamp[d].real + offset'
  <2>1. ASSUME NEW j \in 1..Len(times) PROVE times[j] <= admitted[Gone + j] + offset'
    <3>1. Gone + j \in 1..Len(admitted)
      BY <1>0, <1>2
    <3>2. admitted[Gone + j] \in Int /\ times[j] \in Int
      BY <1>0, <3>1
    <3>3. times[j] <= admitted[Gone + j] + offset
      BY <1>1, <1>6 DEF DequeIsOrdered
    <3> QED
      BY SMTT(30), <1>0, <1>1, <1>6, <3>2, <3>3
  <2>2. ASSUME NEW d \in Caller, pc[d] = "admitting" PROVE stamp[d].wall <= stamp[d].real + offset'
    <3>1. stamp[d].wall <= stamp[d].real + offset
      BY <1>1, <1>6, <2>2 DEF DequeIsOrdered
    <3> QED
      BY <1>0, <1>1, <1>3, <1>6, <3>1
  <2> QED
    BY <2>1, <2>2
<1> QED
  BY <1>1, <1>2, <1>4, <1>5, <1>6 DEF DequeIsOrdered

\* The other steps leave the window and the clock alone, and nobody starts to append.
LEMMA OrderFrame ==
  ASSUME DequeIsOrdered, UNCHANGED <<clock, window>>, contended' = contended \/ contended',
         \A d \in Caller : pc'[d] = "admitting" => pc[d] = "admitting"
  PROVE  DequeIsOrdered'
BY DEF DequeIsOrdered, Gone, clock, window

\* Every step keeps the deque in order.
LEMMA OrderStep ==
  ASSUME TypeOK, LockExcludes, DequeIsOrdered, [Next]_vars
  PROVE  DequeIsOrdered'
<1>1. ASSUME NEW c \in Caller,
             \/ \E a \in Asked : Begin(c, a)
             \/ Refuse(c) \/ Acquire(c) \/ TestLock(c) \/ Wait(c) \/ Resume(c) \/ TakeLock(c)
             \/ Leave(c) \/ LeaveUnlocked(c) \/ Follow(c) \/ Finish(c)
      PROVE  DequeIsOrdered'
  <2>1. UNCHANGED <<clock, window>>
    BY <1>1 DEF Begin, Refuse, Acquire, TestLock, Wait, Resume, TakeLock, Leave,
       LeaveUnlocked, Follow, Finish
  <2>2. contended' = contended \/ contended'
    BY <1>1 DEF Begin, Refuse, Acquire, TestLock, Wait, Resume, TakeLock, Leave,
       LeaveUnlocked, Follow, Finish, lock, Release
  <2>3. \E to \in {"idle", "gating", "inside", "taking", "waiting", "sent"} :
          pc' = [pc EXCEPT ![c] = to]
    BY <1>1 DEF Begin, Refuse, Acquire, TestLock, Wait, Resume, TakeLock, Leave,
       LeaveUnlocked, Follow, Finish, GoOn, Done
  <2>4. \A d \in Caller : pc'[d] = "admitting" => pc[d] = "admitting"
    BY <2>3 DEF TypeOK, TasksOK
  <2> QED
    BY <2>1, <2>2, <2>4, OrderFrame
<1>2. ASSUME NEW c \in Caller, Count(c) PROVE DequeIsOrdered'
  BY <1>2, CountKeepsOrder
<1>3. ASSUME NEW c \in Caller, Admit(c) PROVE DequeIsOrdered'
  BY <1>3, AdmitKeepsOrder
<1>4. CASE Tick \/ SetClock
  BY <1>4, ClockKeepsOrder
<1>5. CASE UNCHANGED vars
  BY <1>5, OrderFrame DEF vars, lock
<1> QED
  BY <1>1, <1>2, <1>3, <1>4, <1>5 DEF Next, Gate, Inner

\* The order of the deque, as long as no two threads have met at the lock and the clock
\* has not been set back.
THEOREM OrderInvariant == Spec => []DequeIsOrdered
<1>1. Init => DequeIsOrdered
  BY DEF Init, DequeIsOrdered, Gone
<1>2. IInv /\ DequeIsOrdered /\ [Next]_vars => DequeIsOrdered'
  BY OrderStep DEF IInv
<1> QED
  BY <1>1, <1>2, InductiveInvariant, PTL DEF Spec

\* Nobody but a count refuses.
LEMMA OnlyCountsRefuse ==
  ASSUME TypeOK, [Next]_vars, NEW c \in Caller, pc[c] = "inside", pc'[c] = "refusing"
  PROVE  Count(c) /\ ~(Len(times') < Limit)
<1>1. ASSUME NEW d \in Caller,
             \/ \E a \in Asked : Begin(d, a)
             \/ Refuse(d) \/ Acquire(d) \/ TestLock(d) \/ Wait(d) \/ Resume(d) \/ TakeLock(d)
             \/ Admit(d) \/ Leave(d) \/ LeaveUnlocked(d) \/ Follow(d) \/ Finish(d)
      PROVE  FALSE
  <2>1. \E to \in {"idle", "gating", "inside", "taking", "waiting", "leaving", "sent"} :
          pc' = [pc EXCEPT ![d] = to]
    BY <1>1 DEF Begin, Refuse, Acquire, TestLock, Wait, Resume, TakeLock, Admit, Leave,
       LeaveUnlocked, Follow, Finish, GoOn, Done
  <2> QED
    BY <2>1 DEF TypeOK, TasksOK
<1>2. ASSUME NEW d \in Caller, Count(d), d # c PROVE FALSE
  BY <1>2, CountFrame
<1>3. CASE Tick \/ SetClock \/ UNCHANGED vars
  BY <1>3 DEF Tick, SetClock, vars
<1>4. Count(c)
  BY <1>1, <1>2, <1>3 DEF Next, Gate, Inner
<1>5. pc' = [pc EXCEPT ![c] = "admitting"] \/ ~(Len(times') < Limit)
  BY <1>4 DEF Count, HasRoom
<1> QED
  BY <1>4, <1>5 DEF TypeOK, TasksOK

\* What stays in the deque at a count was let out in the minute before.
LEMMA WhatStaysIsRecent ==
  ASSUME TypeOK, DequeIsOrdered, ~contended, "back" \notin clockSet,
         NEW c \in Caller, Count(c)
  PROVE  IsFiniteSet(Within(now)) /\ Cardinality(Within(now)) >= Len(times')
<1>0. /\ now \in Nat /\ offset \in Int /\ times \in Seq(Int) /\ admitted \in Seq(Nat)
      /\ Len(times) \in Nat /\ Len(admitted) \in Nat /\ Minute \in Nat
  BY GateAssumption DEF TypeOK, WindowOK
<1>1. PICK n \in 0..Len(times) :
        /\ times' \in Seq(Int) /\ Len(times') = Len(times) - n
        /\ \A j \in 1..Len(times') : times'[j] = times[n + j]
        /\ n = Len(times) \/ times[n + 1] >= now + offset - Minute
  BY CountFacts
<1> DEFINE g == Gone + n
<1>2. Gone \in Int /\ Gone >= 0 /\ g \in Nat /\ g + Len(times') = Len(admitted)
  BY <1>0, <1>1 DEF Gone, DequeIsOrdered
<1>3. ASSUME NEW i \in (g + 1)..Len(admitted) PROVE i \in Within(now)
  <2>1. /\ i - Gone \in 1..Len(times) /\ n + 1 \in 1..Len(times) /\ n + 1 <= i - Gone
        /\ i \in 1..Len(admitted) /\ n # Len(times) /\ Gone + (i - Gone) = i
    <3>1. /\ i \in Int /\ g + 1 <= i /\ i <= Len(admitted) /\ g = Gone + n
          /\ Gone + Len(times) = Len(admitted)
      BY <1>0, <1>2 DEF Gone
    <3> HIDE DEF g
    <3>2. n \in Int /\ 0 <= n /\ n <= Len(times)
      BY <1>0
    <3> QED
      BY <1>0, <1>2, <3>1, <3>2
  <2>2. times[n + 1] <= times[i - Gone]
    BY <2>1 DEF DequeIsOrdered
  <2>3. times[i - Gone] <= admitted[Gone + (i - Gone)] + offset
    BY <2>1 DEF DequeIsOrdered
  <2>4. times[n + 1] \in Int /\ times[i - Gone] \in Int /\ admitted[i] \in Nat
    BY SMTT(30), <1>0, <2>1
  <2>5. admitted[i] >= now - Minute
    <3>1. times[n + 1] >= now + offset - Minute
      BY <1>1, <2>1
    <3>2. times[i - Gone] <= admitted[i] + offset
      BY <2>1, <2>3
    <3> DEFINE x == times[n + 1]
               y == times[i - Gone]
               z == admitted[i]
    <3>3. /\ x \in Int /\ y \in Int /\ z \in Int
          /\ x >= now + offset - Minute /\ x <= y /\ y <= z + offset
      BY <2>2, <2>4, <3>1, <3>2
    <3> HIDE DEF x, y, z
    <3>4. z >= now - Minute
      BY <1>0, <3>3
    <3> QED
      BY <3>4 DEF z
  <2>6. admitted[i] <= now
    BY <2>1 DEF DequeIsOrdered
  <2> QED
    BY SMTT(30), <1>0, <2>1, <2>4, <2>5, <2>6 DEF Within
<1>4. Within(now) \subseteq 1..Len(admitted)
  BY <1>0 DEF Within
<1>5. IsFiniteSet(Within(now))
  <2>1. IsFiniteSet(1..Len(admitted))
    BY <1>0, FS_Interval
  <2> QED
    BY <1>4, <2>1, FS_Subset
<1> HIDE DEF g
<1>6. Cardinality((g + 1)..Len(admitted)) = Len(times')
  <2>1. Cardinality((g + 1)..Len(admitted)) =
          IF g + 1 > Len(admitted) THEN 0 ELSE Len(admitted) - (g + 1) + 1
    <3>1. g + 1 \in Int /\ Len(admitted) \in Int
      BY <1>0, <1>2
    <3> QED
      BY <3>1, FS_Interval
  <2>2. Len(times') \in Nat
    BY <1>1
  <2> QED
    BY <1>0, <1>2, <2>1, <2>2
<1>7. Cardinality((g + 1)..Len(admitted)) <= Cardinality(Within(now))
  <2>1. (g + 1)..Len(admitted) \in SUBSET Within(now)
    BY <1>3
  <2> QED
    BY <1>5, <2>1, FS_Subset
<1>8. Cardinality(Within(now)) \in Nat
  BY <1>5, FS_CardinalityType
<1> QED
  BY <1>0, <1>1, <1>5, <1>6, <1>7, <1>8

\* Nobody is refused for a limit that was not reached, as long as no two threads have
\* met at the lock and the clock has not been set back.
THEOREM RefusalsStayDue == Spec => RefusalsAreDue
<1>1. TypeOK /\ DequeIsOrdered /\ [Next]_vars =>
        [\A c \in Caller :
           pc[c] = "inside" /\ pc'[c] = "refusing" /\ ~contended /\ "back" \notin clockSet
             => Cardinality(Within(now)) >= Limit]_vars
  <2> SUFFICES ASSUME TypeOK, DequeIsOrdered, [Next]_vars, NEW c \in Caller,
                      pc[c] = "inside", pc'[c] = "refusing", ~contended,
                      "back" \notin clockSet
               PROVE  Cardinality(Within(now)) >= Limit
    OBVIOUS
  <2>1. Count(c) /\ ~(Len(times') < Limit)
    BY OnlyCountsRefuse
  <2>2. IsFiniteSet(Within(now)) /\ Cardinality(Within(now)) >= Len(times')
    BY <2>1, WhatStaysIsRecent
  <2>3. Cardinality(Within(now)) \in Nat /\ Len(times') \in Nat /\ Limit \in Nat
    BY <2>1, <2>2, FS_CardinalityType, CountFacts, GateAssumption
  <2> QED
    BY <2>1, <2>2, <2>3
<1> QED
  BY <1>1, TypeCorrect, OrderInvariant, PTL DEF Spec, RefusalsAreDue
=============================================================================
