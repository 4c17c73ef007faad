---------------------------- MODULE OutboundGate ----------------------------
(***************************************************************************)
(* OutboundGate: what SafeHttpClient lets out.  Every hop of every request  *)
(* is judged by the policy and then counted in a sliding minute.            *)
(*                                                                         *)
(* One client serves the event loop of the server and the loops asyncio.run *)
(* makes in the threads of the tools, those of abandoned calls included.    *)
(* They share one deque of stamps and one asyncio.Lock, which is made for   *)
(* the tasks of one loop: the tasks of a loop switch only at an await, the   *)
(* threads anywhere.                                                        *)
(***************************************************************************)
EXTENDS Integers, Sequences, FiniteSets

CONSTANTS
  Loop,             \* the event loops, each in a thread of its own
  Busy,             \* those that other work wakes: the server's
  Caller,           \* the tasks
  LoopOf,           \* the loop of each task
  Url,
  Web,              \* URLs with the scheme http or https
  Listed,           \* ... whose host is in allowed_domains
  Commerce,         \* ... with a path like /checkout or /buy
  PersonalKey,      \* ... with a query key like email or card
  PersonalValue,    \* ... with a query value like a phone number
  SafeDownload,     \* ... which is a signature of a download host
  Payload,
  Personal,         \* payloads with personal data
  Purchase,         \* payloads with the fields of a payment
  Asked,            \* the requests the tasks make: methods, URLs and payloads
  Limit,            \* max_requests_per_minute
  Minute,           \* a minute, in ticks
  MaxHops,          \* the hops of a request: 6 in the code
  MaxRequests,      \* bound: requests begun
  MaxTime,          \* bound: ticks
  Offsets           \* bound: what the clock may be set to, relative to real time

VARIABLES
  now,              \* real time
  offset,           \* what datetime.now adds to it
  times,            \* _request_times
  locked, waiters,  \* the lock: _locked and _waiters
  woken,            \* the future of the first waiter is done
  contended,        \* _waiters is not None
  boundTo,          \* _loop of the lock
  pc, request,      \* where each task is, and its method, URL, payload and hop
  stamp,            \* the time it has read, by the clock and by real time
  requests,         \* requests begun
  sent,             \* the hops of its request that went out
  admitted,         \* history: the real times of the stamps, in the order of the deque
  clockSet          \* history: how the clock was set

lock == <<locked, waiters, woken, contended, boundTo>>
clock == <<now, offset, clockSet>>
window == <<times, stamp, admitted>>
vars == <<clock, window, lock, pc, request, requests, sent>>

None == "none"

ASSUME GateAssumption ==
  /\ Limit \in Nat \ {0} /\ Minute \in Nat /\ MaxHops \in Nat \ {0}
  /\ MaxRequests \in Nat
  /\ MaxTime \in Nat /\ Offsets \subseteq Int /\ 0 \in Offsets
  /\ LoopOf \in [Caller -> Loop] /\ Busy \subseteq Loop /\ None \notin Loop
  /\ Asked \subseteq [method : {"GET", "POST"}, url : Url, payload : Payload]

Request == [method : {"GET", "POST"}, url : Url, payload : Payload, hop : 1..MaxHops]
NoRequest == [method |-> None, url |-> None, payload |-> None, hop |-> 0]
Hop(r, u, n) == [method |-> r.method, url |-> u, payload |-> r.payload, hop |-> n]
NoStamp == [wall |-> 0, real |-> 0]

\* Where a task runs on: its loop turns to no other.
Running == {"taking", "inside", "admitting", "leaving", "refusing"}
HasLoop(c) == \A d \in Caller \ {c} : LoopOf[d] = LoopOf[c] => pc[d] \notin Running

Init ==
  /\ now = 0 /\ offset = 0 /\ clockSet = {}
  /\ times = <<>> /\ admitted = <<>> /\ stamp = [c \in Caller |-> NoStamp]
  /\ locked = FALSE /\ waiters = <<>> /\ woken = FALSE /\ contended = FALSE /\ boundTo = None
  /\ pc = [c \in Caller |-> "idle"]
  /\ request = [c \in Caller |-> NoRequest]
  /\ requests = 0
  /\ sent = [c \in Caller |-> <<>>]

(***************************************************************************)
(* The policy.                                                              *)
(***************************************************************************)

\* validate_url
UrlAllowed(u) == u \in Web /\ u \in Listed

\* validate_outbound_request: the payload of a GET is not looked at.
RequestAllowed(r) ==
  /\ UrlAllowed(r.url)
  /\ r.url \notin Commerce \cup PersonalKey
  /\ r.url \in PersonalValue => r.url \in SafeDownload
  /\ r.method # "GET" => r.payload \notin Personal \cup Purchase

\* The task is through with its request, or raises.
Done(c) ==
  /\ pc' = [pc EXCEPT ![c] = "idle"]
  /\ request' = [request EXCEPT ![c] = NoRequest]
  /\ sent' = [sent EXCEPT ![c] = <<>>]

(***************************************************************************)
(* A request.                                                               *)
(***************************************************************************)

Begin(c, a) ==
  /\ pc[c] = "idle" /\ HasLoop(c) /\ requests < MaxRequests
  /\ pc' = [pc EXCEPT ![c] = "gating"]
  /\ request' = [request EXCEPT ![c] = Hop(a, a.url, 1)]
  /\ requests' = requests + 1
  /\ UNCHANGED <<clock, window, lock, sent>>

\* The policy refuses the hop: PermissionError.
Refuse(c) ==
  /\ pc[c] = "gating" /\ HasLoop(c)
  /\ ~RequestAllowed(request[c])
  /\ Done(c)
  /\ UNCHANGED <<clock, window, lock, requests>>

\* async with self._lock: the lock is free, and nobody has waited for it yet.  No
\* thread can come between the test and the assignment.
Acquire(c) ==
  /\ pc[c] = "gating" /\ HasLoop(c) /\ RequestAllowed(request[c])
  /\ ~locked /\ ~contended
  /\ locked' = TRUE
  /\ pc' = [pc EXCEPT ![c] = "inside"]
  /\ UNCHANGED <<clock, window, waiters, woken, contended, boundTo, request, requests, sent>>

\* ... it is free, but acquire now calls all() on the queue: another thread may come
\* between the test and the assignment.
TestLock(c) ==
  /\ pc[c] = "gating" /\ HasLoop(c) /\ RequestAllowed(request[c])
  /\ ~locked /\ contended /\ waiters = <<>>
  /\ pc' = [pc EXCEPT ![c] = "taking"]
  /\ UNCHANGED <<clock, window, lock, request, requests, sent>>

TakeLock(c) ==
  /\ pc[c] = "taking"
  /\ locked' = TRUE
  /\ pc' = [pc EXCEPT ![c] = "inside"]
  /\ UNCHANGED <<clock, window, waiters, woken, contended, boundTo, request, requests, sent>>

\* ... or it is taken or awaited: the first loop to find it so becomes its loop, and a
\* task of another loop gets a RuntimeError.
Wait(c) ==
  /\ pc[c] = "gating" /\ HasLoop(c) /\ RequestAllowed(request[c])
  /\ locked \/ waiters # <<>>
  /\ contended' = TRUE
  /\ \/ /\ boundTo \in {None, LoopOf[c]}
        /\ boundTo' = LoopOf[c]
        /\ waiters' = Append(waiters, c)
        /\ pc' = [pc EXCEPT ![c] = "waiting"]
        /\ UNCHANGED <<request, sent>>
     \/ /\ boundTo \notin {None, LoopOf[c]}
        /\ Done(c)
        /\ UNCHANGED <<boundTo, waiters>>
  /\ UNCHANGED <<clock, window, locked, woken, requests>>

\* Mutated form: the waiter stays in the queue.
ResumeInQueue(c) ==
  /\ pc[c] = "waiting" /\ HasLoop(c)
  /\ woken /\ c = Head(waiters)
  /\ woken' = FALSE
  /\ locked' = TRUE
  /\ pc' = [pc EXCEPT ![c] = "inside"]
  /\ UNCHANGED <<clock, window, waiters, contended, boundTo, request, requests, sent>>

\* The future of a waiter is done, and its loop has noticed: set_result of another
\* thread does not wake a loop that sleeps.
Resume(c) ==
  /\ pc[c] = "waiting" /\ HasLoop(c)
  /\ woken /\ c = Head(waiters)
  /\ waiters' = Tail(waiters)
  /\ woken' = FALSE
  /\ locked' = TRUE
  /\ pc' = [pc EXCEPT ![c] = "inside"]
  /\ UNCHANGED <<clock, window, contended, boundTo, request, requests, sent>>

\* Mutated form: a stamp of just a minute ago is dropped.
StaleEarly(s, cutoff) ==
  {n \in 0..Len(s) :
     /\ \A i \in 1..n : s[i] <= cutoff
     /\ n = Len(s) \/ s[n + 1] > cutoff}

\* How many stamps are popped: those before the first that is not older than the cutoff.
Stale(s, cutoff) ==
  {n \in 0..Len(s) :
     /\ \A i \in 1..n : s[i] < cutoff
     /\ n = Len(s) \/ s[n + 1] >= cutoff}

\* A mutated form: one request too few.
RoomForOneLess(s) == Len(s) + 1 < Limit

HasRoom(s) == Len(s) < Limit

\* datetime.now
Wall == now + offset

\* Within the lock: the clock is read, the deque pruned and counted.
Count(c) ==
  /\ pc[c] = "inside"
  /\ \E n \in Stale(times, Wall - Minute) : times' = SubSeq(times, n + 1, Len(times))
  /\ \/ /\ HasRoom(times')
        /\ pc' = [pc EXCEPT ![c] = "admitting"]
        /\ stamp' = [stamp EXCEPT ![c] = [wall |-> Wall, real |-> now]]
     \/ /\ ~HasRoom(times')
        /\ pc' = [pc EXCEPT ![c] = "refusing"]
        /\ UNCHANGED stamp
  /\ UNCHANGED <<clock, admitted, lock, request, requests, sent>>

Admit(c) ==
  /\ pc[c] = "admitting"
  /\ times' = Append(times, stamp[c].wall)
  /\ admitted' = Append(admitted, stamp[c].real)
  /\ stamp' = [stamp EXCEPT ![c] = NoStamp]
  /\ pc' = [pc EXCEPT ![c] = "leaving"]
  /\ UNCHANGED <<clock, lock, request, requests, sent>>

\* release: the first waiter is woken, unless it is already.
Release ==
  /\ locked' = FALSE
  /\ woken' = (waiters # <<>>)
  /\ UNCHANGED <<waiters, contended, boundTo>>

\* A hop that has left the lock goes out; one over the limit raises.
GoOn(c) ==
  IF pc[c] = "leaving"
    THEN /\ sent' = [sent EXCEPT ![c] = Append(@, request[c])]
         /\ pc' = [pc EXCEPT ![c] = "sent"]
         /\ UNCHANGED request
    ELSE Done(c)

\* Mutated form: the lock is kept when the request is over the limit.
LeaveWithLock(c) ==
  /\ pc[c] \in {"leaving", "refusing"}
  /\ locked
  /\ IF pc[c] = "leaving" THEN Release ELSE UNCHANGED lock
  /\ GoOn(c)
  /\ UNCHANGED <<clock, window, requests>>

\* The end of the `async with`.
Leave(c) ==
  /\ pc[c] \in {"leaving", "refusing"}
  /\ locked
  /\ Release
  /\ GoOn(c)
  /\ UNCHANGED <<clock, window, requests>>

\* release raises: another thread has released the lock both were in.
LeaveUnlocked(c) ==
  /\ pc[c] \in {"leaving", "refusing"}
  /\ ~locked
  /\ Done(c)
  /\ UNCHANGED <<clock, window, lock, requests>>

\* Mutated form: only the first hop is gated.
FollowUngated(c) ==
  /\ pc[c] = "sent" /\ HasLoop(c)
  /\ request[c].hop < MaxHops
  /\ \E u \in Url :
       LET r == Hop(request[c], u, request[c].hop + 1) IN
       /\ request' = [request EXCEPT ![c] = r]
       /\ sent' = [sent EXCEPT ![c] = Append(@, r)]
  /\ UNCHANGED <<clock, window, lock, pc, requests>>

\* A redirect: to the gate again, with the same method and payload.
Follow(c) ==
  /\ pc[c] = "sent" /\ HasLoop(c)
  /\ request[c].hop < MaxHops
  /\ \E u \in Url : request' = [request EXCEPT ![c] = Hop(@, u, @.hop + 1)]
  /\ pc' = [pc EXCEPT ![c] = "gating"]
  /\ UNCHANGED <<clock, window, lock, requests, sent>>

\* The response; or an error of the target or on the way to it, a redirect that does not
\* say where to, or one too many.
Finish(c) ==
  /\ pc[c] = "sent" /\ HasLoop(c)
  /\ Done(c)
  /\ UNCHANGED <<clock, window, lock, requests>>

Tick ==
  /\ now < MaxTime
  /\ now' = now + 1
  /\ UNCHANGED <<offset, clockSet, window, lock, pc, request, requests, sent>>

\* The device sets its clock.
SetClock ==
  /\ offset' \in Offsets \ {offset}
  /\ clockSet' = clockSet \cup {IF offset' > offset THEN "forward" ELSE "back"}
  /\ UNCHANGED <<now, window, lock, pc, request, requests, sent>>

Inner(c) == TakeLock(c) \/ Count(c) \/ Admit(c) \/ Leave(c) \/ LeaveUnlocked(c)
Gate(c) == Refuse(c) \/ Acquire(c) \/ TestLock(c) \/ Wait(c)

Next ==
  \/ \E c \in Caller :
       \/ \E a \in Asked : Begin(c, a)
       \/ Gate(c) \/ Resume(c) \/ Inner(c) \/ Follow(c) \/ Finish(c)
  \/ Tick \/ SetClock

\* A thread runs, and a loop that runs gets to its tasks; only a loop with other work
\* notices a future that another thread has set.  (Targets and clocks are not fair.)
Fairness ==
  /\ \A c \in Caller : WF_vars(Inner(c)) /\ SF_vars(Gate(c))
  /\ \A c \in Caller : LoopOf[c] \in Busy => SF_vars(Resume(c))

Spec == Init /\ [][Next]_vars /\ Fairness

(***************************************************************************)
(* Properties.                                                              *)
(***************************************************************************)

Stamp == [wall : Int, real : Nat]

WindowOK ==
  /\ now \in Nat /\ offset \in Offsets /\ clockSet \subseteq {"forward", "back"}
  /\ times \in Seq(Int) /\ admitted \in Seq(Nat) /\ stamp \in [Caller -> Stamp]

TasksOK ==
  /\ pc \in [Caller -> {"idle", "gating", "waiting", "sent"} \cup Running]
  /\ request \in [Caller -> Request \cup {NoRequest}]
  /\ sent \in [Caller -> Seq(Request)]
  /\ \A c \in Caller : pc[c] # "idle" => request[c] \in Request
  /\ requests \in 0..MaxRequests

\* The queue holds waiting tasks of one loop, each once.
LockOK ==
  /\ locked \in BOOLEAN /\ contended \in BOOLEAN /\ boundTo \in Loop \cup {None}
  /\ waiters \in Seq(Caller)
  /\ \A i \in 1..Len(waiters) : pc[waiters[i]] = "waiting" /\ LoopOf[waiters[i]] = boundTo
  /\ \A i, j \in 1..Len(waiters) : waiters[i] = waiters[j] => i = j
  /\ woken \in BOOLEAN /\ (woken => waiters # <<>>)

\* Types, and where the parts of the lock agree.
TypeOK == WindowOK /\ TasksOK /\ LockOK

\* No hop went out that the policy would not let out on its own, whatever redirected to
\* it (proxy.py gates every hop of a request, with its method and payload).
NothingRefusedIsSent ==
  \A c \in Caller : \A i \in 1..Len(sent[c]) : RequestAllowed(sent[c][i])

\* As long as no two threads have met at the lock and nobody has set the clock forward, a
\* request and the one Limit before it are more than a minute apart in real time: clocks
\* set back, redirects, refusals and threads notwithstanding.
MinuteHoldsLimit ==
  ~contended /\ "forward" \notin clockSet =>
    \A i \in 1..Len(admitted) :
      i > Limit => admitted[i] - admitted[i - Limit] > Minute

\* The requests let out in the minute up to t.
Within(t) == {i \in DOMAIN admitted : admitted[i] \in (t - Minute)..t}

\* Nobody is refused for a limit that was not reached: unless the clock was set back or
\* threads have met, there are Limit requests in the minute before.
RefusalsAreDue ==
  [][\A c \in Caller :
       pc[c] = "inside" /\ pc'[c] = "refusing" /\ ~contended /\ "back" \notin clockSet
         => Cardinality(Within(now)) >= Limit]_vars

\* A task of the server that waits for the lock gets it, whatever the threads of the
\* tools do with it (a task of such a thread may wait for ever).
ServerGetsThrough ==
  \A c \in Caller :
    LoopOf[c] \in Busy => (pc[c] = "waiting" ~> pc[c] # "waiting")
(***************************************************************************)
(* The inductive invariant.                                                 *)
(***************************************************************************)

Inside == {"inside", "admitting", "leaving", "refusing"}

\* A task that is past the policy has a request the policy lets out.
PastThePolicy ==
  \A c \in Caller : pc[c] \in Inside \cup {"taking", "waiting"} => RequestAllowed(request[c])

\* Until two threads meet at it, the lock excludes.
LockExcludes ==
  ~contended =>
    /\ \A c \in Caller : pc[c] \notin {"taking", "waiting"}
    /\ \A c \in Caller : pc[c] \in Inside => locked
    /\ \A c, d \in Caller : pc[c] \in Inside /\ pc[d] \in Inside => c = d

\* The stamps that have been popped.
Gone == Len(admitted) - Len(times)

\* The deque is what is left of the history, no stamp is before its real time as the
\* clock counts now, and what has been popped is more than a minute old.
DequeIsHistory ==
  "forward" \notin clockSet =>
    /\ Gone >= 0
    /\ \A j \in 1..Len(times) : times[j] >= admitted[Gone + j] + offset
    /\ \A i \in 1..Gone : now - admitted[i] > Minute
    /\ \A c \in Caller : pc[c] = "admitting" => stamp[c].wall >= stamp[c].real + offset

\* Between the count and the append nothing changes.
RoomIsKept ==
  ~contended /\ "forward" \notin clockSet =>
    \A c \in Caller : pc[c] = "admitting" =>
      /\ Len(times) < Limit
      /\ \A i \in 1..Gone : stamp[c].real - admitted[i] > Minute

\* No stamp is of a time that has yet to come and, until the clock is set back or two
\* threads meet, none is after its real time as the clock counts now, and the deque is
\* in order: what follows the first stamp that stays is no older.
DequeIsOrdered ==
  /\ Gone >= 0
  /\ \A i \in 1..Len(admitted) : admitted[i] <= now
  /\ \A c \in Caller : pc[c] = "admitting" => stamp[c].real <= now
  /\ ~contended /\ "back" \notin clockSet =>
       /\ \A j \in 1..Len(times) : times[j] <= admitted[Gone + j] + offset
       /\ \A j, k \in 1..Len(times) : j <= k => times[j] <= times[k]
       /\ \A c \in Caller : pc[c] = "admitting" =>
            /\ stamp[c].wall <= stamp[c].real + offset
            /\ \A j \in 1..Len(times) : times[j] <= stamp[c].wall

IInv ==
  /\ TypeOK /\ NothingRefusedIsSent /\ PastThePolicy
  /\ LockExcludes /\ DequeIsHistory /\ RoomIsKept /\ MinuteHoldsLimit
=============================================================================
