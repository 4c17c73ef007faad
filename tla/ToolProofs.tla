----------------------------- MODULE ToolProofs -----------------------------
(***************************************************************************)
(* Proofs about ToolExecution, for any set of executions, any requests and  *)
(* any bounds; and, below, about ToolEffects, for any backends, lights and  *)
(* scenes, any calls and any bounds.                                        *)
(***************************************************************************)
EXTENDS ToolExecution, ToolEffects, FiniteSetTheorems, SequenceTheorems, TLAPS

\* The records and index sets the type invariant speaks of.
LEMMA AttemptFacts ==
  /\ Attempt \subseteq Nat
  /\ \A r \in Request : r.retries \in 0..MaxRetries
  /\ Unmade \in Request
  /\ \A r \in Requests : r \in Request
BY BoundsAssumption, RequestsAssumption DEF Attempt, Request, Unmade

\* A request validation lets through is one that is granted.
LEMMA VerdictFacts ==
  ASSUME NEW r \in Request
  PROVE  /\ VerdictOf(r) = "ok" <=> Granted(r)
         /\ VerdictOf(r) \in {"ok"} \cup ErrorCode
BY DEF VerdictOf, Granted, ErrorCode

\* Changing the state of one thread changes no other.
LEMMA ThreadUpdate ==
  ASSUME NEW w \in [Executions -> [Attempt -> ThreadState]],
         NEW e \in Executions, NEW n \in Attempt, NEW s \in ThreadState
  PROVE  LET u == [w EXCEPT ![e][n] = s] IN
         /\ u \in [Executions -> [Attempt -> ThreadState]]
         /\ \A d \in Executions, m \in Attempt :
              u[d][m] = IF d = e /\ m = n THEN s ELSE w[d][m]
OBVIOUS

\* The inductive invariant: the thread of control, the worker threads and the
\* recorded rows stay consistent through every step of caller and workers.
THEOREM InductiveInvariant == Spec => []IInv
<1>1. Init => IInv
  BY BoundsAssumption, AttemptFacts
  DEF Init, IInv, TypeOK, LoopState, ThreadHistory, UnansweredState,
      OnlyTimedOutHandlersOutlive, RetriesAreJustified, AttemptsWithinBudget,
      AuditTellsTheTruth, Awaited, Phase, ErrorCode, ThreadState, Running, Finished,
      FailureKind, Row, Unmade
<1>2. IInv /\ [Next]_vars => IInv'
  <2> SUFFICES ASSUME IInv, [Next]_vars PROVE IInv'
    OBVIOUS
  <2> USE BoundsAssumption, AttemptFacts DEF IInv, TypeOK, Attempt
  <2>1. ASSUME NEW e \in Executions, NEW r \in Requests, Start(e, r) PROVE IInv'
    <3>1. TypeOK'
      <4>1. phase' \in [Executions -> Phase]
        <5>1. PICK p \in Phase : phase' = [phase EXCEPT ![e] = p]
          BY <2>1 DEF Start, Phase
        <5> QED
          BY <5>1
      <4>2. lastError' \in [Executions -> ErrorCode]
        BY <2>1, VerdictFacts DEF Start, VerdictOf, ErrorCode
      <4>3. request' \in [Executions -> Request]
        BY <2>1 DEF Start
      <4> QED
        BY <2>1, <4>1, <4>2, <4>3 DEF Start, threads, telemetry
    <3>2. LoopState'
      <4>1. /\ VerdictOf(r) = "ok" => Granted(r)
            /\ VerdictOf(r) # "ExecutionCancelled"
        BY DEF VerdictOf, Granted
      <4>2. attempts' = attempts /\ worker' = worker /\ abandoned' = abandoned
        BY <2>1 DEF Start, threads
      <4>3. ASSUME NEW d \in Executions, d # e
            PROVE  phase'[d] = phase[d] /\ request'[d] = request[d] /\ lastError'[d] = lastError[d]
        BY <2>1, <4>3 DEF Start
      <4>4. /\ phase[e] = "new" /\ request'[e] = r
            /\ \/ phase'[e] = "looping" /\ VerdictOf(r) = "ok"
               \/ phase'[e] = "closing" /\ lastError'[e] = VerdictOf(r)
        BY <2>1 DEF Start
      <4>5. attempts[e] = 0 /\ r.retries \in Nat
        BY <4>4 DEF LoopState
      <4>6. LoopState!(e)'
        BY <4>1, <4>2, <4>4, <4>5 DEF LoopState
      <4>7. ASSUME NEW d \in Executions, d # e PROVE LoopState!(d)'
        BY <4>2, <4>3, <4>7 DEF LoopState
      <4> QED
        BY <4>6, <4>7 DEF LoopState
    <3>3. ThreadHistory'
      BY <2>1, VerdictFacts DEF Start, threads, telemetry, ThreadHistory,
         MayBeRepeated, LoopState, OnlyTimedOutHandlersOutlive, Awaited, Granted,
         Running, Finished, FailureKind
    <3>4. UnansweredState'
      BY <2>1, VerdictFacts DEF Start, threads, telemetry, UnansweredState
    <3>5. OnlyTimedOutHandlersOutlive'
      BY <2>1, VerdictFacts DEF Start, threads, telemetry,
         OnlyTimedOutHandlersOutlive, Awaited, Running, ThreadHistory, LoopState
    <3>6. RetriesAreJustified'
      BY <2>1, VerdictFacts DEF Start, threads, telemetry, RetriesAreJustified,
         MayBeRepeated, LoopState, ThreadHistory, Running, Finished, FailureKind
    <3>7. AttemptsWithinBudget'
      BY <2>1, VerdictFacts DEF Start, threads, telemetry, AttemptsWithinBudget,
         LoopState
    <3>8. AuditTellsTheTruth'
      BY <2>1, VerdictFacts DEF Start, threads, telemetry, AuditTellsTheTruth,
         UnansweredState, LoopState, ThreadHistory, Status, Row
    <3> QED
      BY <3>1, <3>2, <3>3, <3>4, <3>5, <3>6, <3>7, <3>8 DEF IInv
  <2>2. ASSUME NEW e \in Executions, BeginAttempt(e) PROVE IInv'
    <3>1. TypeOK'
      <4>1. attempts[e] + 1 \in Attempt
        <5>1. attempts[e] <= request[e].retries
          BY <2>2 DEF BeginAttempt, LoopState
        <5>2. request[e].retries \in 0..MaxRetries /\ attempts[e] \in Nat
          OBVIOUS
        <5> QED
          BY <5>1, <5>2
      <4>2. phase' \in [Executions -> Phase]
        <5>1. PICK p \in Phase : phase' = [phase EXCEPT ![e] = p]
          BY <2>2 DEF BeginAttempt, Phase
        <5> QED
          BY <5>1
      <4>3. lastError' \in [Executions -> ErrorCode]
        BY <2>2 DEF BeginAttempt, ErrorCode
      <4>4. worker' \in [Executions -> [Attempt -> ThreadState]]
        <5>1. CASE cancelled[e]
          <6>1. worker' = worker
            BY <2>2, <5>1 DEF BeginAttempt, CancellationSeen
          <6> QED
            BY <6>1
        <5>2. CASE ~cancelled[e]
          <6>1. worker' = [worker EXCEPT ![e][attempts[e] + 1] = "queued"]
            BY <2>2, <5>2 DEF BeginAttempt, CancellationSeen
          <6>2. "queued" \in ThreadState
            BY DEF ThreadState
          <6> HIDE DEF Attempt
          <6> QED
            BY <6>1, <6>2, <4>1, ThreadUpdate
        <5> QED
          BY <5>1, <5>2
      <4>5. attempts' \in [Executions -> 0..(MaxRetries + 1)]
        BY <2>2, <4>1 DEF BeginAttempt
      <4> QED
        BY <2>2, <4>1, <4>2, <4>3, <4>4, <4>5 DEF BeginAttempt, telemetry
    <3>2. LoopState'
      BY SMTT(30), <2>2 DEF BeginAttempt, CancellationSeen, telemetry, LoopState,
         Granted,
         ThreadHistory, OnlyTimedOutHandlersOutlive, Awaited, Running, Finished,
         FailureKind
    <3>3. ThreadHistory'
      BY <2>2 DEF BeginAttempt, CancellationSeen, telemetry, ThreadHistory,
         MayBeRepeated, LoopState, OnlyTimedOutHandlersOutlive, Awaited, Granted,
         Running, Finished, FailureKind
    <3>4. UnansweredState'
      BY <2>2 DEF BeginAttempt, CancellationSeen, telemetry, UnansweredState
    <3>5. OnlyTimedOutHandlersOutlive'
      BY <2>2 DEF BeginAttempt, CancellationSeen, telemetry,
         OnlyTimedOutHandlersOutlive, Awaited, Running, ThreadHistory, LoopState
    <3>6. RetriesAreJustified'
      BY <2>2 DEF BeginAttempt, CancellationSeen, telemetry, RetriesAreJustified,
         MayBeRepeated, LoopState, ThreadHistory, Running, Finished, FailureKind
    <3>7. AttemptsWithinBudget'
      BY <2>2 DEF BeginAttempt, CancellationSeen, telemetry, AttemptsWithinBudget,
         LoopState
    <3>8. AuditTellsTheTruth'
      BY <2>2 DEF BeginAttempt, CancellationSeen, telemetry, AuditTellsTheTruth,
         UnansweredState, LoopState, ThreadHistory, Status, Row
    <3> QED
      BY <3>1, <3>2, <3>3, <3>4, <3>5, <3>6, <3>7, <3>8 DEF IInv
  <2>3. ASSUME NEW e \in Executions, HandlerFailed(e) PROVE IInv'
    <3>1. TypeOK'
      BY <2>3 DEF HandlerFailed, AfterFailure, MayRetry, threads, telemetry,
         FailureKind, LoopState, UnansweredState, Phase, ErrorCode, ThreadState,
         Running, Finished, Row, Status
    <3>2. LoopState'
      BY <2>3 DEF HandlerFailed, AfterFailure, MayRetry, threads, telemetry,
         FailureKind, LoopState, Granted, ThreadHistory, OnlyTimedOutHandlersOutlive,
         Awaited, Running, Finished
    <3>3. ThreadHistory'
      <4>1. /\ attempts' = attempts /\ request' = request /\ acted' = acted
            /\ worker' = worker /\ abandoned' = abandoned /\ faults' = faults
        BY <2>3 DEF HandlerFailed, AfterFailure, threads, telemetry
      <4>2. \A d \in Executions : phase'[d] = "looping" => phase[d] = "looping" \/ d = e
        BY <2>3 DEF HandlerFailed, AfterFailure
      <4>3. attempts[e] \in Attempt
        BY <2>3 DEF HandlerFailed, LoopState
      <4>4. phase'[e] = "looping" => worker[e][attempts[e]] \in {"retryable", "broken"}
        BY <2>3 DEF HandlerFailed, AfterFailure, MayRetry, FailureKind
      <4>5. \A m \in Attempt : m < attempts[e] => MayBeRepeated(e, m)
        BY <2>3 DEF RetriesAreJustified
      <4> QED
        BY <4>1, <4>2, <4>3, <4>4, <4>5 DEF ThreadHistory, MayBeRepeated
    <3>4. UnansweredState'
      BY <2>3 DEF HandlerFailed, AfterFailure, MayRetry, threads, telemetry,
         FailureKind, UnansweredState
    <3>5. OnlyTimedOutHandlersOutlive'
      BY <2>3 DEF HandlerFailed, AfterFailure, MayRetry, threads, telemetry,
         FailureKind, OnlyTimedOutHandlersOutlive, Awaited, Running, ThreadHistory,
         LoopState
    <3>6. RetriesAreJustified'
      BY <2>3 DEF HandlerFailed, AfterFailure, MayRetry, threads, telemetry,
         FailureKind, RetriesAreJustified, MayBeRepeated, LoopState, ThreadHistory,
         Running, Finished
    <3>7. AttemptsWithinBudget'
      BY <2>3 DEF HandlerFailed, AfterFailure, MayRetry, threads, telemetry,
         FailureKind, AttemptsWithinBudget, LoopState
    <3>8. AuditTellsTheTruth'
      BY <2>3 DEF HandlerFailed, AfterFailure, MayRetry, threads, telemetry,
         FailureKind, AuditTellsTheTruth, UnansweredState, LoopState, ThreadHistory,
         Status, Row
    <3> QED
      BY <3>1, <3>2, <3>3, <3>4, <3>5, <3>6, <3>7, <3>8 DEF IInv
  <2>4. ASSUME NEW e \in Executions, TimeOut(e) PROVE IInv'
    <3>1. TypeOK'
      <4>1. attempts[e] \in Attempt
        BY <2>4 DEF TimeOut, LoopState
      <4>2. phase' \in [Executions -> Phase] /\ lastError' \in [Executions -> ErrorCode]
        BY <2>4 DEF TimeOut, AfterFailure, Phase, ErrorCode
      <4>3. worker' \in [Executions -> [Attempt -> ThreadState]]
        BY <2>4, <4>1, ThreadUpdate DEF TimeOut, ThreadState
      <4>4. abandoned' \in [Executions -> SUBSET Attempt]
        BY <2>4, <4>1 DEF TimeOut
      <4> QED
        BY <2>4, <4>1, <4>2, <4>3, <4>4 DEF TimeOut, telemetry
    <3>2. LoopState'
      BY <2>4 DEF TimeOut, AfterFailure, MayRetry, telemetry, LoopState, Granted,
         ThreadHistory, OnlyTimedOutHandlersOutlive, Awaited, Running, Finished,
         FailureKind
    <3>3. ThreadHistory'
      <4>1. /\ attempts' = attempts /\ request' = request /\ acted' = acted
            /\ faults' = faults
        BY <2>4 DEF TimeOut, AfterFailure, telemetry
      <4>2. \A d \in Executions : phase'[d] = "looping" => phase[d] = "looping" \/ d = e
        BY <2>4 DEF TimeOut, AfterFailure
      <4>3. attempts[e] \in Attempt
        BY <2>4 DEF TimeOut, LoopState
      <4>4. \A d \in Executions, m \in Attempt :
               IF d = e /\ m = attempts[e]
                 THEN /\ m \in abandoned'[d]
                      /\ worker'[d][m] = worker[d][m] \/ worker'[d][m] = "dropped"
                 ELSE worker'[d][m] = worker[d][m] /\ (m \in abandoned'[d] <=> m \in abandoned[d])
        BY <2>4, <4>3 DEF TimeOut
      <4>5. ASSUME NEW d \in Executions, NEW m \in Attempt
            PROVE  ThreadHistory!(d, m)'
        <5>1. CASE d = e /\ m = attempts[e]
          <6>1. m \in abandoned'[d] /\ worker'[d][m] \in {worker[d][m], "dropped"}
            BY <5>1, <4>4
          <6>2. MayBeRepeated(d, m)'
            BY <6>1 DEF MayBeRepeated
          <6>3. ~(m > attempts'[d])
            BY <5>1, <4>1, <4>3
          <6> QED
            BY <6>1, <6>2, <6>3, <4>1 DEF ThreadHistory, Running, Finished, FailureKind
        <5>2. CASE ~(d = e /\ m = attempts[e])
          <6>1. worker'[d][m] = worker[d][m] /\ (m \in abandoned'[d] <=> m \in abandoned[d])
            BY <5>2, <4>4
          <6>2. MayBeRepeated(d, m) => MayBeRepeated(d, m)'
            BY <6>1, <4>1 DEF MayBeRepeated
          <6>3. d = e /\ m < attempts[e] => MayBeRepeated(d, m)
            BY DEF RetriesAreJustified
          <6> QED
            BY <6>1, <6>2, <6>3, <5>2, <4>1, <4>2, <4>3 DEF ThreadHistory
        <5> QED
          BY <5>1, <5>2
      <4> QED
        BY <4>5 DEF ThreadHistory
    <3>4. UnansweredState'
      BY <2>4 DEF TimeOut, AfterFailure, MayRetry, telemetry, UnansweredState
    <3>5. OnlyTimedOutHandlersOutlive'
      BY <2>4 DEF TimeOut, AfterFailure, MayRetry, telemetry,
         OnlyTimedOutHandlersOutlive, Awaited, Running, ThreadHistory, LoopState
    <3>6. RetriesAreJustified'
      BY <2>4 DEF TimeOut, AfterFailure, MayRetry, telemetry, RetriesAreJustified,
         MayBeRepeated, LoopState, ThreadHistory, Running, Finished, FailureKind
    <3>7. AttemptsWithinBudget'
      BY <2>4 DEF TimeOut, AfterFailure, MayRetry, telemetry, AttemptsWithinBudget,
         LoopState
    <3>8. AuditTellsTheTruth'
      BY <2>4 DEF TimeOut, AfterFailure, MayRetry, telemetry, AuditTellsTheTruth,
         UnansweredState, LoopState, ThreadHistory, Status, Row
    <3> QED
      BY <3>1, <3>2, <3>3, <3>4, <3>5, <3>6, <3>7, <3>8 DEF IInv
  <2>5. ASSUME NEW e \in Executions, Complete(e) PROVE IInv'
    <3>1. TypeOK'
      <4>1. [status |-> "completed", attempts |-> attempts[e]] \in Row
        BY <2>5 DEF Complete, LoopState, Row, Status
      <4>2. rows' \in [Executions -> Seq(Row)]
        BY <2>5, <4>1 DEF Complete
      <4>3. phase' \in [Executions -> Phase]
        BY <2>5 DEF Complete, Phase
      <4>4. completedEvents' \in [Executions -> Nat]
        BY <2>5 DEF Complete
      <4> QED
        BY <2>5, <4>1, <4>2, <4>3, <4>4 DEF Complete, threads
    <3>2. LoopState'
      BY <2>5 DEF Complete, threads, LoopState, Granted, ThreadHistory,
         OnlyTimedOutHandlersOutlive, Awaited, Running, Finished, FailureKind
    <3>3. ThreadHistory'
      BY <2>5 DEF Complete, threads, ThreadHistory, MayBeRepeated, LoopState,
         OnlyTimedOutHandlersOutlive, Awaited, Granted, Running, Finished, FailureKind
    <3>4. UnansweredState'
      BY <2>5 DEF Complete, threads, UnansweredState
    <3>5. OnlyTimedOutHandlersOutlive'
      BY <2>5 DEF Complete, threads, OnlyTimedOutHandlersOutlive, Awaited, Running,
         ThreadHistory, LoopState
    <3>6. RetriesAreJustified'
      BY <2>5 DEF Complete, threads, RetriesAreJustified, MayBeRepeated, LoopState,
         ThreadHistory, Running, Finished, FailureKind
    <3>7. AttemptsWithinBudget'
      BY <2>5 DEF Complete, threads, AttemptsWithinBudget, LoopState
    <3>8. AuditTellsTheTruth'
      BY <2>5 DEF Complete, threads, AuditTellsTheTruth, UnansweredState, LoopState,
         ThreadHistory, Status, Row
    <3> QED
      BY <3>1, <3>2, <3>3, <3>4, <3>5, <3>6, <3>7, <3>8 DEF IInv
  <2>6. ASSUME NEW e \in Executions, CompleteUnrecorded(e) PROVE IInv'
    <3>1. TypeOK'
      <4>1. phase' \in [Executions -> Phase] /\ lastError' \in [Executions -> ErrorCode]
        BY <2>6 DEF CompleteUnrecorded, AfterFailure, Phase, ErrorCode
      <4>2. completedEvents' \in [Executions -> Nat] /\ faults' \in 0..MaxFaults
        BY <2>6 DEF CompleteUnrecorded
      <4> QED
        BY <2>6, <4>1, <4>2 DEF CompleteUnrecorded, threads
    <3>2. LoopState'
      BY <2>6 DEF CompleteUnrecorded, AfterFailure, MayRetry, threads, LoopState,
         Granted, ThreadHistory, OnlyTimedOutHandlersOutlive, Awaited, Running,
         Finished, FailureKind
    <3>3. ThreadHistory'
      <4>1. /\ attempts' = attempts /\ request' = request /\ acted' = acted
            /\ worker' = worker /\ abandoned' = abandoned
        BY <2>6 DEF CompleteUnrecorded, AfterFailure, threads
      <4>2. \A d \in Executions : phase'[d] = "looping" => phase[d] = "looping" \/ d = e
        BY <2>6 DEF CompleteUnrecorded, AfterFailure
      <4>3. attempts[e] \in Attempt /\ worker[e][attempts[e]] = "ok"
        BY <2>6 DEF CompleteUnrecorded, LoopState
      <4>4. faults' < MaxFaults
        BY <2>6 DEF CompleteUnrecorded
      <4>5. \A m \in Attempt : m < attempts[e] => MayBeRepeated(e, m)
        BY <2>6 DEF RetriesAreJustified
      <4> QED
        BY <4>1, <4>2, <4>3, <4>4, <4>5 DEF ThreadHistory, MayBeRepeated
    <3>4. UnansweredState'
      BY <2>6 DEF CompleteUnrecorded, AfterFailure, MayRetry, threads, UnansweredState
    <3>5. OnlyTimedOutHandlersOutlive'
      BY <2>6 DEF CompleteUnrecorded, AfterFailure, MayRetry, threads,
         OnlyTimedOutHandlersOutlive, Awaited, Running, ThreadHistory, LoopState
    <3>6. RetriesAreJustified'
      BY <2>6 DEF CompleteUnrecorded, AfterFailure, MayRetry, threads,
         RetriesAreJustified, MayBeRepeated, LoopState, ThreadHistory, Running,
         Finished, FailureKind
    <3>7. AttemptsWithinBudget'
      BY <2>6 DEF CompleteUnrecorded, AfterFailure, MayRetry, threads,
         AttemptsWithinBudget, LoopState
    <3>8. AuditTellsTheTruth'
      BY SMTT(30), <2>6 DEF CompleteUnrecorded, AfterFailure, MayRetry, threads,
         AuditTellsTheTruth, UnansweredState, LoopState, ThreadHistory, Status, Row
    <3> QED
      BY <3>1, <3>2, <3>3, <3>4, <3>5, <3>6, <3>7, <3>8 DEF IInv
  <2>7. ASSUME NEW e \in Executions, Close(e) PROVE IInv'
    <3>1. TypeOK'
      <4>1. [status |-> FailureStatus(e), attempts |-> ReportedAttempts(e)] \in Row
        BY <2>7 DEF FailureStatus, ReportedAttempts, Row, Status
      <4>2. rows' \in [Executions -> Seq(Row)]
        BY <2>7, <4>1 DEF Close
      <4>3. phase' \in [Executions -> Phase]
        BY <2>7 DEF Close, Phase
      <4>4. failedEvents[e] = 0
        BY <2>7 DEF Close, UnansweredState
      <4>5. failedEvents' \in [Executions -> 0..1]
        BY <2>7, <4>4 DEF Close
      <4> QED
        BY <2>7, <4>1, <4>2, <4>3, <4>4, <4>5 DEF Close, threads
    <3>2. LoopState'
      BY <2>7 DEF Close, FailureStatus, ReportedAttempts, threads, LoopState, Granted,
         ThreadHistory, OnlyTimedOutHandlersOutlive, Awaited, Running, Finished,
         FailureKind
    <3>3. ThreadHistory'
      BY <2>7 DEF Close, FailureStatus, ReportedAttempts, threads, ThreadHistory,
         MayBeRepeated, LoopState, OnlyTimedOutHandlersOutlive, Awaited, Granted,
         Running, Finished, FailureKind
    <3>4. UnansweredState'
      BY <2>7 DEF Close, FailureStatus, ReportedAttempts, threads, UnansweredState
    <3>5. OnlyTimedOutHandlersOutlive'
      BY <2>7 DEF Close, FailureStatus, ReportedAttempts, threads,
         OnlyTimedOutHandlersOutlive, Awaited, Running, ThreadHistory, LoopState
    <3>6. RetriesAreJustified'
      BY <2>7 DEF Close, FailureStatus, ReportedAttempts, threads,
         RetriesAreJustified, MayBeRepeated, LoopState, ThreadHistory, Running,
         Finished, FailureKind
    <3>7. AttemptsWithinBudget'
      BY <2>7 DEF Close, FailureStatus, ReportedAttempts, threads,
         AttemptsWithinBudget, LoopState
    <3>8. AuditTellsTheTruth'
      BY <2>7 DEF Close, FailureStatus, ReportedAttempts, threads, AuditTellsTheTruth,
         UnansweredState, LoopState, ThreadHistory, Status, Row
    <3> QED
      BY <3>1, <3>2, <3>3, <3>4, <3>5, <3>6, <3>7, <3>8 DEF IInv
  <2>8. ASSUME NEW e \in Executions, CloseUnrecorded(e) PROVE IInv'
    <3>1. TypeOK'
      <4>1. phase' \in [Executions -> Phase] /\ faults' \in 0..MaxFaults
        BY <2>8 DEF CloseUnrecorded, Phase
      <4>2. failedEvents[e] = 0
        BY <2>8 DEF CloseUnrecorded, UnansweredState
      <4>3. failedEvents' \in [Executions -> 0..1]
        BY <2>8, <4>2 DEF CloseUnrecorded
      <4> QED
        BY <2>8, <4>1, <4>2, <4>3 DEF CloseUnrecorded, threads
    <3>2. LoopState'
      BY <2>8 DEF CloseUnrecorded, threads, LoopState, Granted, ThreadHistory,
         OnlyTimedOutHandlersOutlive, Awaited, Running, Finished, FailureKind
    <3>3. ThreadHistory'
      BY <2>8 DEF CloseUnrecorded, threads, ThreadHistory, MayBeRepeated, LoopState,
         OnlyTimedOutHandlersOutlive, Awaited, Granted, Running, Finished, FailureKind
    <3>4. UnansweredState'
      BY <2>8 DEF CloseUnrecorded, threads, UnansweredState
    <3>5. OnlyTimedOutHandlersOutlive'
      BY <2>8 DEF CloseUnrecorded, threads, OnlyTimedOutHandlersOutlive, Awaited,
         Running, ThreadHistory, LoopState
    <3>6. RetriesAreJustified'
      BY <2>8 DEF CloseUnrecorded, threads, RetriesAreJustified, MayBeRepeated,
         LoopState, ThreadHistory, Running, Finished, FailureKind
    <3>7. AttemptsWithinBudget'
      BY <2>8 DEF CloseUnrecorded, threads, AttemptsWithinBudget, LoopState
    <3>8. AuditTellsTheTruth'
      BY <2>8 DEF CloseUnrecorded, threads, AuditTellsTheTruth, UnansweredState,
         LoopState, ThreadHistory, Status, Row
    <3> QED
      BY <3>1, <3>2, <3>3, <3>4, <3>5, <3>6, <3>7, <3>8 DEF IInv
  <2>9. ASSUME NEW e \in Executions, Cancel(e) PROVE IInv'
    <3>1. TypeOK'
      BY <2>9 DEF Cancel, caller, threads, telemetry, LoopState, UnansweredState,
         Phase, ErrorCode, ThreadState, Running, Finished, FailureKind, Row, Status
    <3>2. LoopState'
      BY <2>9 DEF Cancel, caller, threads, telemetry, LoopState, Granted,
         ThreadHistory, OnlyTimedOutHandlersOutlive, Awaited, Running, Finished,
         FailureKind
    <3>3. ThreadHistory'
      BY <2>9 DEF Cancel, caller, threads, telemetry, ThreadHistory, MayBeRepeated,
         LoopState, OnlyTimedOutHandlersOutlive, Awaited, Granted, Running, Finished,
         FailureKind
    <3>4. UnansweredState'
      BY <2>9 DEF Cancel, caller, threads, telemetry, UnansweredState
    <3>5. OnlyTimedOutHandlersOutlive'
      BY <2>9 DEF Cancel, caller, threads, telemetry, OnlyTimedOutHandlersOutlive,
         Awaited, Running, ThreadHistory, LoopState
    <3>6. RetriesAreJustified'
      BY <2>9 DEF Cancel, caller, threads, telemetry, RetriesAreJustified,
         MayBeRepeated, LoopState, ThreadHistory, Running, Finished, FailureKind
    <3>7. AttemptsWithinBudget'
      BY <2>9 DEF Cancel, caller, threads, telemetry, AttemptsWithinBudget, LoopState
    <3>8. AuditTellsTheTruth'
      BY <2>9 DEF Cancel, caller, threads, telemetry, AuditTellsTheTruth,
         UnansweredState, LoopState, ThreadHistory, Status, Row
    <3> QED
      BY <3>1, <3>2, <3>3, <3>4, <3>5, <3>6, <3>7, <3>8 DEF IInv
  <2>10. ASSUME NEW e \in Executions, NEW n \in Attempt, BeginHandler(e, n) PROVE IInv'
    <3>1. TypeOK'
      BY <2>10 DEF BeginHandler, caller, telemetry, LoopState, UnansweredState, Phase,
         ErrorCode, ThreadState, Running, Finished, FailureKind, Row, Status
    <3>2. LoopState'
      BY <2>10 DEF BeginHandler, caller, telemetry, LoopState, Granted, ThreadHistory,
         OnlyTimedOutHandlersOutlive, Awaited, Running, Finished, FailureKind
    <3>3. ThreadHistory'
      BY <2>10 DEF BeginHandler, caller, telemetry, ThreadHistory, MayBeRepeated,
         LoopState, OnlyTimedOutHandlersOutlive, Awaited, Granted, Running, Finished,
         FailureKind
    <3>4. UnansweredState'
      BY <2>10 DEF BeginHandler, caller, telemetry, UnansweredState
    <3>5. OnlyTimedOutHandlersOutlive'
      BY <2>10 DEF BeginHandler, caller, telemetry, OnlyTimedOutHandlersOutlive,
         Awaited, Running, ThreadHistory, LoopState
    <3>6. RetriesAreJustified'
      BY <2>10 DEF BeginHandler, caller, telemetry, RetriesAreJustified,
         MayBeRepeated, LoopState, ThreadHistory, Running, Finished, FailureKind
    <3>7. AttemptsWithinBudget'
      BY <2>10 DEF BeginHandler, caller, telemetry, AttemptsWithinBudget, LoopState
    <3>8. AuditTellsTheTruth'
      BY <2>10 DEF BeginHandler, caller, telemetry, AuditTellsTheTruth,
         UnansweredState, LoopState, ThreadHistory, Status, Row
    <3> QED
      BY <3>1, <3>2, <3>3, <3>4, <3>5, <3>6, <3>7, <3>8 DEF IInv
  <2>11. ASSUME NEW e \in Executions, NEW n \in Attempt, Act(e, n) PROVE IInv'
    <3>1. TypeOK'
      BY <2>11 DEF Act, caller, telemetry, LoopState, UnansweredState, Phase,
         ErrorCode, ThreadState, Running, Finished, FailureKind, Row, Status
    <3>2. LoopState'
      BY <2>11 DEF Act, caller, telemetry, LoopState, Granted, ThreadHistory,
         OnlyTimedOutHandlersOutlive, Awaited, Running, Finished, FailureKind
    <3>3. ThreadHistory'
      BY <2>11 DEF Act, caller, telemetry, ThreadHistory, MayBeRepeated, LoopState,
         OnlyTimedOutHandlersOutlive, Awaited, Granted, Running, Finished, FailureKind
    <3>4. UnansweredState'
      BY <2>11 DEF Act, caller, telemetry, UnansweredState
    <3>5. OnlyTimedOutHandlersOutlive'
      BY <2>11 DEF Act, caller, telemetry, OnlyTimedOutHandlersOutlive, Awaited,
         Running, ThreadHistory, LoopState
    <3>6. RetriesAreJustified'
      BY <2>11 DEF Act, caller, telemetry, RetriesAreJustified, MayBeRepeated,
         LoopState, ThreadHistory, Running, Finished, FailureKind
    <3>7. AttemptsWithinBudget'
      BY <2>11 DEF Act, caller, telemetry, AttemptsWithinBudget, LoopState
    <3>8. AuditTellsTheTruth'
      BY <2>11 DEF Act, caller, telemetry, AuditTellsTheTruth, UnansweredState,
         LoopState, ThreadHistory, Status, Row
    <3> QED
      BY <3>1, <3>2, <3>3, <3>4, <3>5, <3>6, <3>7, <3>8 DEF IInv
  <2>12. ASSUME NEW e \in Executions, NEW n \in Attempt, EndHandler(e, n) PROVE IInv'
    <3>1. TypeOK'
      <4>1. worker' \in [Executions -> [Attempt -> ThreadState]]
        BY <2>12, ThreadUpdate DEF EndHandler, Finished, FailureKind, ThreadState
      <4> QED
        BY <2>12, <4>1 DEF EndHandler, caller, telemetry
    <3>2. LoopState'
      BY <2>12 DEF EndHandler, caller, telemetry, Running, Finished, FailureKind,
         LoopState, Granted, ThreadHistory, OnlyTimedOutHandlersOutlive, Awaited
    <3>3. ThreadHistory'
      BY <2>12 DEF EndHandler, caller, telemetry, Running, Finished, FailureKind,
         ThreadHistory, MayBeRepeated, LoopState, OnlyTimedOutHandlersOutlive,
         Awaited, Granted
    <3>4. UnansweredState'
      BY <2>12 DEF EndHandler, caller, telemetry, Running, Finished, FailureKind,
         UnansweredState
    <3>5. OnlyTimedOutHandlersOutlive'
      BY <2>12 DEF EndHandler, caller, telemetry, Running, Finished, FailureKind,
         OnlyTimedOutHandlersOutlive, Awaited, ThreadHistory, LoopState
    <3>6. RetriesAreJustified'
      BY <2>12 DEF EndHandler, caller, telemetry, Running, Finished, FailureKind,
         RetriesAreJustified, MayBeRepeated, LoopState, ThreadHistory
    <3>7. AttemptsWithinBudget'
      BY <2>12 DEF EndHandler, caller, telemetry, Running, Finished, FailureKind,
         AttemptsWithinBudget, LoopState
    <3>8. AuditTellsTheTruth'
      BY <2>12 DEF EndHandler, caller, telemetry, Running, Finished, FailureKind,
         AuditTellsTheTruth, UnansweredState, LoopState, ThreadHistory, Status, Row
    <3> QED
      BY <3>1, <3>2, <3>3, <3>4, <3>5, <3>6, <3>7, <3>8 DEF IInv
  <2>13. CASE UNCHANGED vars
    <3>1. TypeOK' /\ UnansweredState' /\ AttemptsWithinBudget'
      BY <2>13 DEF vars, UnansweredState, AttemptsWithinBudget
    <3>2. LoopState' /\ ThreadHistory'
      BY <2>13 DEF vars, LoopState, ThreadHistory, MayBeRepeated
    <3>3. OnlyTimedOutHandlersOutlive' /\ RetriesAreJustified'
      BY <2>13 DEF vars, OnlyTimedOutHandlersOutlive, Awaited, RetriesAreJustified,
         MayBeRepeated
    <3>4. AuditTellsTheTruth'
      BY <2>13 DEF vars, AuditTellsTheTruth
    <3> QED
      BY <3>1, <3>2, <3>3, <3>4 DEF IInv
  <2> QED
    BY <2>1, <2>2, <2>3, <2>4, <2>5, <2>6, <2>7, <2>8, <2>9, <2>10, <2>11, <2>12, <2>13
    DEF Next
<1> QED BY <1>1, <1>2, PTL DEF Spec

\* Every variable keeps its type; in particular at most MaxRetries + 1 threads are
\* ever submitted for one call of execute.
THEOREM TypeCorrect == Spec => []TypeOK
BY InductiveInvariant, PTL DEF IInv

\* Between calls nothing is left running but handlers whose timeout fired, and the
\* attempts of one call do not overlap unless a timeout separates them.
THEOREM OnlyTimeoutsLeaveHandlers == Spec => []OnlyTimedOutHandlersOutlive
BY InductiveInvariant, PTL DEF IInv

\* Every repetition of a side effect has its reason, and there are no more of them
\* than the request allows.
THEOREM RetriesAreBounded == Spec => [](RetriesAreJustified /\ AttemptsWithinBudget)
BY InductiveInvariant, PTL DEF IInv

\* The stored row, the published events and the side effect agree.
THEOREM AuditIsTruthful == Spec => []AuditTellsTheTruth
BY InductiveInvariant, PTL DEF IInv

\* A cancelled call begins no further attempt.
THEOREM CancellationStopsTheLoop == Spec => NoAttemptAfterCancel
<1>1. TypeOK /\ [Next]_vars =>
        [\A e \in Executions, n \in Attempt :
           cancelled[e] /\ worker[e][n] = "idle" => worker'[e][n] = "idle"]_vars
  <2> SUFFICES ASSUME TypeOK, Next,
                      NEW d \in Executions, NEW m \in Attempt,
                      cancelled[d], worker[d][m] = "idle"
               PROVE  worker'[d][m] = "idle"
    BY DEF vars
  <2> USE DEF TypeOK
  <2>1. ASSUME NEW e \in Executions, BeginAttempt(e) PROVE worker'[d][m] = "idle"
    BY <2>1 DEF BeginAttempt, CancellationSeen
  <2>2. ASSUME NEW e \in Executions, TimeOut(e) PROVE worker'[d][m] = "idle"
    BY <2>2 DEF TimeOut
  <2>3. ASSUME NEW e \in Executions, NEW n \in Attempt,
               BeginHandler(e, n) \/ Act(e, n) \/ EndHandler(e, n)
        PROVE  worker'[d][m] = "idle"
    <3>1. PICK s : worker' = [worker EXCEPT ![e][n] = s]
      BY <2>3 DEF BeginHandler, Act, EndHandler
    <3>2. worker[e][n] # "idle"
      BY <2>3 DEF BeginHandler, Act, EndHandler, Running
    <3> QED
      BY <3>1, <3>2
  <2>4. ASSUME NEW e \in Executions,
               \/ \E r \in Requests : Start(e, r)
               \/ HandlerFailed(e) \/ Complete(e) \/ CompleteUnrecorded(e)
               \/ Close(e) \/ CloseUnrecorded(e) \/ Cancel(e)
        PROVE  worker' = worker
    BY <2>4 DEF Start, HandlerFailed, Complete, CompleteUnrecorded, Close,
       CloseUnrecorded, Cancel, threads
  <2> QED
    BY <2>1, <2>2, <2>3, <2>4 DEF Next
<1>2. Spec => []TypeOK
  BY TypeCorrect
<1> QED
  BY <1>1, <1>2, PTL DEF Spec, NoAttemptAfterCancel

\* What the contract's two variables are at one execution.
LEMMA ContractState ==
  ASSUME NEW e \in Executions
  PROVE  /\ phase[e] = "new" => LifeOf(e) = "none"
         /\ phase[e] = "raised" => LifeOf(e) = "raised"
         /\ phase[e] = "returned" => LifeOf(e) = rows[e][1].status
         /\ phase[e] \in {"looping", "waiting", "closing"} =>
              LifeOf(e) = IF Granted(request[e]) THEN "granted" ELSE "refused"
BY DEF LifeOf

\* execute implements its contract: every step of the loop, of the workers and of
\* the recorder is an admission, the first run of a handler, the one answer, or
\* invisible to the caller.
THEOREM ImplementationOfContract == Spec => ImplementsContract
<1>1. Init => Contract!Init
  BY DEF Init, Contract!Init, lifeBar, ranBar, LifeOf, HasRun, Running, Finished,
     FailureKind, Attempt
<1>2. IInv /\ IInv' /\ [Next]_vars => [Contract!Next]_<<lifeBar, ranBar>>
  <2> SUFFICES ASSUME IInv, IInv', [Next]_vars
               PROVE  Contract!Next \/ (lifeBar' = lifeBar /\ ranBar' = ranBar)
    OBVIOUS
  <2> USE DEF IInv
  <2>1. ASSUME NEW e \in Executions, NEW r \in Requests, Start(e, r)
        PROVE  Contract!Next
    <3>1. ranBar' = ranBar
      BY <2>1 DEF Start, threads, ranBar, HasRun
    <3>2. phase[e] = "new" /\ phase'[e] \in {"looping", "closing"}
      BY <2>1 DEF Start, TypeOK
    <3>3. ASSUME NEW d \in Executions, d # e PROVE LifeOf(d)' = LifeOf(d)
      BY <2>1, <3>3 DEF Start, LifeOf, TypeOK, telemetry
    <3>4. PICK v \in Contract!Open : LifeOf(e)' = v
      BY <3>2, ContractState DEF Contract!Open, LifeOf
    <3>5. LifeOf(e) = "none"
      BY <3>2, ContractState
    <3>6. Contract!Admit(e, v)
      BY <3>1, <3>3, <3>4, <3>5 DEF Contract!Admit, lifeBar
    <3> QED
      BY <3>6 DEF Contract!Next
  <2>2. ASSUME NEW e \in Executions, BeginAttempt(e)
        PROVE  lifeBar' = lifeBar /\ ranBar' = ranBar
    <3>1. /\ phase[e] = "looping" /\ phase'[e] \in {"waiting", "closing"}
          /\ Granted(request[e]) /\ request' = request /\ rows' = rows
      BY <2>2 DEF BeginAttempt, CancellationSeen, telemetry, TypeOK, LoopState
    <3>2. ASSUME NEW d \in Executions PROVE LifeOf(d)' = LifeOf(d)
      BY <2>2, <3>1 DEF BeginAttempt, CancellationSeen, TypeOK, LifeOf
    <3>3. \A d \in Executions, m \in Attempt :
            worker'[d][m] = worker[d][m] \/ (worker[d][m] = "idle" /\ worker'[d][m] = "queued")
      BY <2>2 DEF BeginAttempt, CancellationSeen, TypeOK, ThreadHistory
    <3>4. ASSUME NEW d \in Executions PROVE HasRun(d)' = HasRun(d)
      BY <3>3 DEF HasRun, Running, Finished, FailureKind
    <3> QED
      BY <3>2, <3>4 DEF lifeBar, ranBar
  <2>3. ASSUME NEW e \in Executions,
               HandlerFailed(e) \/ TimeOut(e) \/ CompleteUnrecorded(e)
        PROVE  lifeBar' = lifeBar /\ ranBar' = ranBar
    <3>1. /\ phase[e] = "waiting" /\ phase'[e] \in {"looping", "closing"}
          /\ Granted(request[e]) /\ request' = request /\ rows' = rows
          /\ \A d \in Executions \ {e} : phase'[d] = phase[d]
      BY <2>3 DEF HandlerFailed, TimeOut, CompleteUnrecorded, AfterFailure, telemetry,
         TypeOK, LoopState
    <3>2. ASSUME NEW d \in Executions PROVE LifeOf(d)' = LifeOf(d)
      BY <3>1 DEF LifeOf
    <3>3. \A d \in Executions, m \in Attempt :
            worker'[d][m] = worker[d][m]
              \/ (worker[d][m] = "queued" /\ worker'[d][m] = "dropped")
      <4>1. CASE TimeOut(e)
        BY <4>1 DEF TimeOut, TypeOK
      <4>2. CASE HandlerFailed(e) \/ CompleteUnrecorded(e)
        BY <4>2 DEF HandlerFailed, CompleteUnrecorded, threads
      <4> QED
        BY <2>3, <4>1, <4>2
    <3>4. ASSUME NEW d \in Executions PROVE HasRun(d)' = HasRun(d)
      BY <3>3 DEF HasRun, Running, Finished, FailureKind
    <3> QED
      BY <3>2, <3>4 DEF lifeBar, ranBar
  <2>4. ASSUME NEW e \in Executions, Complete(e) PROVE Contract!Next
    <3>1. /\ phase[e] = "waiting" /\ phase'[e] = "returned" /\ Granted(request[e])
          /\ worker[e][attempts[e]] = "ok" /\ attempts[e] \in Attempt
          /\ request' = request /\ worker' = worker
      BY <2>4, BoundsAssumption, AttemptFacts
      DEF Complete, threads, TypeOK, LoopState, Attempt
    <3>2. rows'[e][1].status = "completed"
      BY <2>4 DEF Complete, TypeOK, AuditTellsTheTruth
    <3>3. ASSUME NEW d \in Executions, d # e PROVE LifeOf(d)' = LifeOf(d)
      BY <2>4, <3>3 DEF Complete, LifeOf, TypeOK
    <3>4. LifeOf(e) = "granted" /\ LifeOf(e)' = "completed"
      BY <3>1, <3>2 DEF LifeOf
    <3>5. ranBar' = ranBar /\ HasRun(e)
      BY <3>1 DEF ranBar, HasRun, Finished
    <3>6. Contract!Reply(e, "completed")
      BY <3>3, <3>4, <3>5 DEF Contract!Reply, Contract!Open, lifeBar, ranBar
    <3> QED
      BY <3>6 DEF Contract!Next, Contract!Answer
  <2>5. ASSUME NEW e \in Executions, Close(e) PROVE Contract!Next
    <3>1. /\ phase[e] = "closing" /\ phase'[e] = "returned"
          /\ request' = request /\ worker' = worker
          /\ ~Granted(request[e]) => FailureStatus(e) = "failed"
      BY <2>5 DEF Close, threads, TypeOK, LoopState, FailureStatus
    <3>2. rows'[e][1].status = FailureStatus(e)
      BY <2>5 DEF Close, TypeOK, AuditTellsTheTruth
    <3>3. ASSUME NEW d \in Executions, d # e PROVE LifeOf(d)' = LifeOf(d)
      BY <2>5, <3>3 DEF Close, LifeOf, TypeOK
    <3>4. /\ LifeOf(e) = IF Granted(request[e]) THEN "granted" ELSE "refused"
          /\ LifeOf(e)' = FailureStatus(e) /\ FailureStatus(e) \in {"failed", "cancelled"}
      BY <3>1, <3>2 DEF LifeOf, FailureStatus
    <3>5. ranBar' = ranBar
      BY <3>1 DEF ranBar, HasRun
    <3>6. Contract!Reply(e, FailureStatus(e))
      BY <3>1, <3>3, <3>4, <3>5 DEF Contract!Reply, Contract!Open, lifeBar
    <3> QED
      BY <3>4, <3>6 DEF Contract!Next, Contract!Answer
  <2>6. ASSUME NEW e \in Executions, CloseUnrecorded(e) PROVE Contract!Next
    <3>1. /\ phase[e] = "closing" /\ phase'[e] = "raised"
          /\ request' = request /\ worker' = worker /\ rows' = rows
      BY <2>6 DEF CloseUnrecorded, threads, TypeOK
    <3>2. ASSUME NEW d \in Executions, d # e PROVE LifeOf(d)' = LifeOf(d)
      BY <2>6, <3>1, <3>2 DEF CloseUnrecorded, LifeOf, TypeOK
    <3>3. LifeOf(e) \in Contract!Open /\ LifeOf(e)' = "raised"
      BY <3>1 DEF LifeOf, Contract!Open
    <3>4. ranBar' = ranBar
      BY <3>1 DEF ranBar, HasRun
    <3>5. Contract!Reply(e, "raised")
      BY <3>2, <3>3, <3>4 DEF Contract!Reply, lifeBar
    <3> QED
      BY <3>5 DEF Contract!Next, Contract!Answer
  <2>7. ASSUME NEW e \in Executions, Cancel(e)
        PROVE  lifeBar' = lifeBar /\ ranBar' = ranBar
    BY <2>7 DEF Cancel, caller, threads, telemetry, lifeBar, ranBar, LifeOf, HasRun
  <2>8. ASSUME NEW e \in Executions, NEW n \in Attempt, BeginHandler(e, n)
        PROVE  Contract!Next
    <3>1. LifeOf(e) = "granted"
      BY <2>8 DEF BeginHandler, OnlyTimedOutHandlersOutlive, Awaited, LoopState, LifeOf
    <3>2. lifeBar' = lifeBar
      BY <2>8 DEF BeginHandler, caller, telemetry, lifeBar, LifeOf
    <3>3. HasRun(e)'
      BY <2>8 DEF BeginHandler, HasRun, TypeOK, Running
    <3>4. ASSUME NEW d \in Executions, d # e PROVE HasRun(d)' = HasRun(d)
      BY <2>8, <3>4 DEF BeginHandler, HasRun, TypeOK
    <3>5. Contract!Run(e)
      BY <3>1, <3>2, <3>3, <3>4 DEF Contract!Run, lifeBar, ranBar
    <3> QED
      BY <3>5 DEF Contract!Next
  <2>9. ASSUME NEW e \in Executions, NEW n \in Attempt, Act(e, n) \/ EndHandler(e, n)
        PROVE  lifeBar' = lifeBar /\ ranBar' = ranBar
    <3>1. lifeBar' = lifeBar
      BY <2>9 DEF Act, EndHandler, caller, telemetry, lifeBar, LifeOf
    <3>2. PICK s \in Running \cup Finished : worker' = [worker EXCEPT ![e][n] = s]
      BY <2>9 DEF Act, EndHandler, Running
    <3>3. worker[e][n] \in Running
      BY <2>9 DEF Act, EndHandler, Running
    <3>4. ASSUME NEW d \in Executions PROVE HasRun(d)' = HasRun(d)
      BY <3>2, <3>3 DEF HasRun, TypeOK
    <3> QED
      BY <3>1, <3>4 DEF ranBar
  <2>10. CASE UNCHANGED vars
    BY <2>10 DEF vars, lifeBar, ranBar, LifeOf, HasRun
  <2> QED
    BY <2>1, <2>2, <2>3, <2>4, <2>5, <2>6, <2>7, <2>8, <2>9, <2>10 DEF Next
<1>3. Spec => []IInv
  BY InductiveInvariant
<1> QED
  BY <1>1, <1>2, <1>3, PTL DEF Spec, ImplementsContract, Contract!Spec, Contract!vars

(***************************************************************************)
(* ToolEffects.                                                             *)
(***************************************************************************)

Ending == {"completed", "failed", "killed"}
CallRecord == [asked : Call, state : {"running"} \cup Ending, work : Nat]
Place == {"none", "fetch", "write", "look", "add", "adding", "commit", "push"}
ThreadPlace == [at : Place, seen : BOOLEAN]

\* The types of the registry's part of the state.
CallTypes ==
  /\ calls \in Seq(CallRecord) /\ Len(calls) <= MaxCalls
  /\ attempt \in 0..MostRetries + 1 /\ (calls # <<>> => attempt >= 1)
  /\ thread \in [Thread -> ThreadPlace]

\* The types of the lights and of the writes to them.
LightTypes ==
  /\ light \in [Light -> BOOLEAN] /\ before \in [Light -> BOOLEAN]
  /\ late \subseteq Thread \X BOOLEAN /\ writes \subseteq [who : Thread \cup {Person}, light : Light]

\* The versions git has follow each other; a call notes the version it was made at; only
\* the running attempts hold the lock.
Versions ==
  /\ work \in 0..MaxEdits /\ index \in 0..work /\ head \in 0..index /\ remote \in 0..head
Stamps == \A n \in 1..Len(calls) : calls[n].work <= work
Locks ==
  /\ locked \in BOOLEAN
  /\ \A t, u \in Thread : At(t, "adding") => locked /\ (At(u, "adding") => t = u)

\* An attempt that has begun, and one that nobody waits for any more.
Started(t) == t[1] <= Len(calls) /\ (t[1] = Len(calls) => t[2] <= attempt)
Past(t) ==
  \/ t[1] < Len(calls)
  \/ t[2] < attempt
  \/ calls[Len(calls)].state \in {"failed", "killed"}

\* A thread that runs is in a handler of what was asked.
Fits(r, at) ==
  /\ at \in {"add", "adding", "commit", "push"} <=> r.tool = "backup"
  /\ at = "look" => r.tool = "toggle"
  /\ at \in {"write", "look"} => Resolves(r)
  /\ at = "push" => r.push

\* Where a thread may be that runs: it has begun, and is either waited for or past.
Placed(t) ==
  ~At(t, "none") =>
    /\ Started(t) /\ (Past(t) \/ (Waited /\ t = Current))
    /\ Fits(Of(t).asked, thread[t].at)

ThreadsInPlace == \A t \in Thread : Placed(t)

\* Writes that come late are those of past attempts.
LateInPlace ==
  \A w \in late :
    /\ Started(w[1]) /\ Past(w[1])
    /\ Of(w[1]).asked.tool # "backup" /\ Resolves(Of(w[1]).asked)

\* Only attempts that have begun, or a person, have written.
WritersStarted == \A x \in writes : x.who = Person \/ Started(x.who)

\* The registry's part of the invariant.
Sound == CallTypes /\ ThreadsInPlace
\* What a step of thread t, or of nobody's thread, may do to the registry's state.
StepOf(t) ==
  /\ calls' \in Seq(CallRecord) /\ Len(calls') = Len(calls) /\ calls # <<>>
  /\ \A n \in 1..Len(calls) :
       /\ calls'[n].asked = calls[n].asked /\ calls'[n].work = calls[n].work
       /\ \/ calls'[n].state = calls[n].state
          \/ n = Len(calls) /\ Waited /\ attempt' = attempt
               /\ calls'[n].state \in Ending /\ (calls'[n].state = "completed" => t = Current)
  /\ \/ attempt' = attempt
     \/ attempt' = attempt + 1 /\ attempt <= MostRetries /\ Waited
  /\ thread' \in [Thread -> ThreadPlace]
  /\ \A u \in Thread \ {t} :
       \/ thread'[u] = thread[u]
       \/ attempt' = attempt + 1 /\ u = <<Len(calls), attempt'>> /\ thread'[u].at = First(Of(u).asked)

\* The bounds and the fields of a call are what the assumption says.
LEMMA Bounds ==
  /\ MostRetries \in Nat /\ MaxCalls \in Nat /\ MaxEdits \in Nat
  /\ \A r \in Call : r.retries \in 0..MostRetries /\ r.push \in BOOLEAN /\ r.api \in BOOLEAN
                     /\ r.tool \in {"toggle", "scene", "backup"}
BY EffectsAssumption

\* A name that resolves names a light, or a scene that sets lights.
LEMMA TargetFacts ==
  ASSUME NEW r \in Call, Resolves(r)
  PROVE  /\ r.tool = "toggle" => Target(r) \in Light
         /\ r.tool # "toggle" =>
              /\ DOMAIN Sets[Target(r)] \subseteq Light
              /\ \A l \in DOMAIN Sets[Target(r)] : Sets[Target(r)][l] \in BOOLEAN
<1>1. Named(r) # {}
  BY FS_EmptySet DEF Resolves
<1>2. PICK b \in Named(r) : Target(r) = <<b, r.raw>>
  BY <1>1 DEF Target
<1>3. b \in Backend /\ r.raw \in Allowed(r)[b]
  BY <1>2 DEF Named, Matches
<1>4. CASE r.tool = "toggle"
  <2>1. r.raw \in UNION {AllowedLights[x] : x \in Backend}
    BY <1>3, <1>4 DEF Allowed
  <2> QED
    BY <1>2, <1>3, <1>4, <2>1 DEF Light
<1>5. CASE r.tool # "toggle"
  <2>1. r.raw \in AllowedScenes[b]
    BY <1>3, <1>5 DEF Allowed
  <2>2. /\ DOMAIN Sets[<<b, r.raw>>] \subseteq Light
        /\ \A l \in DOMAIN Sets[<<b, r.raw>>] : Sets[<<b, r.raw>>][l] \in BOOLEAN
    BY <1>3, <2>1, EffectsAssumption
  <2> QED
    BY <1>2, <1>5, <2>2
<1> QED
  BY <1>4, <1>5

\* The current attempt of the latest call is a thread.
LEMMA CurrentFacts ==
  ASSUME CallTypes, calls # <<>>
  PROVE  /\ Len(calls) \in 1..MaxCalls /\ attempt \in 1..MostRetries + 1
         /\ Current \in Thread /\ Current[1] = Len(calls) /\ Current[2] = attempt
         /\ calls[Len(calls)] \in CallRecord
         /\ Of(Current) = calls[Len(calls)]
<1>1. Len(calls) \in 1..MaxCalls
  BY Bounds, EmptySeq DEF CallTypes
<1> QED
  BY <1>1, Bounds DEF CallTypes, Current, Thread, Of

\* A call that changes its state keeps what was asked and when.
LEMMA RecordUpdate ==
  ASSUME NEW c \in CallRecord, NEW s \in {"running"} \cup Ending
  PROVE  \E d \in CallRecord :
           d = [c EXCEPT !.state = s] /\ d.asked = c.asked /\ d.work = c.work /\ d.state = s
<1> DEFINE d == [c EXCEPT !.state = s]
<1>1. d \in CallRecord /\ d.asked = c.asked /\ d.work = c.work /\ d.state = s
  BY DEF CallRecord
<1> QED
  BY <1>1

\* An answer is a step of the thread it is the answer of.
LEMMA AnswerIsStep ==
  ASSUME CallTypes, Waited, NEW t, NEW others \in [Thread -> ThreadPlace],
         NEW result \in {"ok", "error", "final"}, Answer(result, others),
         result = "ok" => t = Current,
         \A u \in Thread \ {t} : others[u] = thread[u]
  PROVE  /\ StepOf(t)
         /\ thread' = others \/ attempt' = attempt + 1
         /\ \A u \in Thread : u # <<Len(calls), attempt + 1>> => thread'[u] = others[u]
         /\ calls'[Len(calls)].state = "completed" => result = "ok"
         /\ attempt' = attempt + 1 \/ calls'[Len(calls)].state # "running"
<1> DEFINE n == Len(calls)
           next == <<n, attempt + 1>>
<1>1. calls # <<>> /\ calls[n].state = "running"
  BY DEF Waited
<1>2. n \in 1..MaxCalls /\ attempt \in 1..MostRetries + 1 /\ calls[n] \in CallRecord
  BY <1>1, CurrentFacts
<1>3. CASE result = "error" /\ attempt <= calls[n].asked.retries
  <2>1. attempt' = attempt + 1 /\ calls' = calls
        /\ thread' = [others EXCEPT ![next].at = First(calls[n].asked)]
    BY <1>3 DEF Answer
  <2>2. attempt <= MostRetries
    BY <1>2, <1>3, Bounds DEF CallRecord
  <2>3. next \in Thread /\ Of(next) = calls[n]
    BY <1>2, <2>2, Bounds DEF Thread, Of
  <2>4. First(calls[n].asked) \in Place
    BY DEF First, Place
  <2>5. thread' \in [Thread -> ThreadPlace] /\ thread'[next].at = First(Of(next).asked)
        /\ \A u \in Thread : u # next => thread'[u] = others[u]
    BY <2>1, <2>3, <2>4 DEF ThreadPlace
  <2> QED
    BY <1>1, <1>2, <2>1, <2>2, <2>3, <2>5, Bounds DEF StepOf, CallTypes
<1>4. CASE ~(result = "error" /\ attempt <= calls[n].asked.retries)
  <2> DEFINE s == IF result = "ok" THEN "completed" ELSE "failed"
  <2>1. attempt' = attempt /\ thread' = others /\ calls' = [calls EXCEPT ![n].state = s]
    BY <1>4 DEF Answer
  <2>2. n \in 1..Len(calls) /\ calls \in Seq(CallRecord)
    BY <1>2 DEF CallTypes
  <2>a. s \in {"running"} \cup Ending
    BY DEF Ending
  <2>3. PICK d \in CallRecord :
          /\ d = [calls[n] EXCEPT !.state = s]
          /\ d.asked = calls[n].asked /\ d.work = calls[n].work /\ d.state = s
    <3> HIDE DEF s, n
    <3> QED
      BY <1>2, <2>a, RecordUpdate
  <2>4. /\ calls' \in Seq(CallRecord) /\ Len(calls') = Len(calls)
        /\ \A m \in 1..Len(calls) : calls'[m] = IF m = n THEN d ELSE calls[m]
    BY <2>1, <2>2, <2>3
  <2>5. calls'[n].asked = calls[n].asked /\ calls'[n].work = calls[n].work /\ calls'[n].state = s
    BY <2>2, <2>3, <2>4
  <2> QED
    BY <1>1, <1>2, <2>1, <2>2, <2>4, <2>5 DEF StepOf, Ending
<1> QED
  BY <1>3, <1>4

\* A thread that ends takes a step; it completes the call only with a success.
LEMMA EndIsStep ==
  ASSUME CallTypes, NEW t \in Thread, ~At(t, "none"), ThreadsInPlace,
         NEW result \in {"ok", "error", "final"}, End(t, result)
  PROVE  /\ StepOf(t) /\ thread'[t].at = "none"
         /\ calls' = calls \/ (t = Current /\ Waited)
         /\ Waited /\ calls'[Len(calls)].state = "completed" => result = "ok" /\ t = Current
         /\ Waited /\ t = Current =>
              attempt' = attempt + 1 \/ calls'[Len(calls)].state # "running"
<1> DEFINE others == [thread EXCEPT ![t] = [at |-> "none", seen |-> FALSE]]
<1>1. /\ others \in [Thread -> ThreadPlace] /\ others[t].at = "none"
      /\ \A u \in Thread \ {t} : others[u] = thread[u]
  BY DEF CallTypes, ThreadPlace, Place
<1>2. calls # <<>>
  BY EmptySeq DEF ThreadsInPlace, Placed, Started, Thread
<1>3. CASE ~(Waited /\ t = Current)
  <2>1. thread' = others /\ UNCHANGED <<calls, attempt>>
    BY <1>3 DEF End
  <2> QED
    BY <1>1, <1>2, <1>3, <2>1 DEF StepOf, CallTypes, Waited
<1>4. CASE Waited /\ t = Current
  <2>1. Answer(result, others) \/ Answer("error", others)
    BY <1>4 DEF End
  <2>2. t # <<Len(calls), attempt + 1>>
    BY <1>4, <1>2, CurrentFacts DEF Current
  <2> HIDE DEF others
  <2>3. CASE Answer(result, others)
    BY <1>1, <1>4, <2>2, <2>3, AnswerIsStep
  <2>4. CASE Answer("error", others)
    BY <1>1, <1>4, <2>2, <2>4, AnswerIsStep
  <2> QED
    BY <2>1, <2>3, <2>4
<1> QED
  BY <1>3, <1>4

\* A thread that goes on changes its own place and nothing else.
LEMMA ContinueIsStep ==
  ASSUME CallTypes, NEW t \in Thread, ~At(t, "none"), ThreadsInPlace,
         NEW at \in Place, NEW seen \in BOOLEAN, Continue(t, at, seen)
  PROVE  /\ StepOf(t) /\ thread'[t] = [at |-> at, seen |-> seen]
         /\ calls' = calls /\ attempt' = attempt
         /\ \A u \in Thread \ {t} : thread'[u] = thread[u]
<1>1. calls # <<>>
  BY EmptySeq DEF ThreadsInPlace, Placed, Started, Thread
<1> QED
  BY <1>1 DEF Continue, CallTypes, ThreadPlace, Waited, StepOf

\* A timeout is a step of no thread, and completes nothing.
LEMMA GiveUpIsStep ==
  ASSUME CallTypes, GiveUp
  PROVE  /\ StepOf(Person) /\ calls'[Len(calls)].state # "completed"
         /\ \A u \in Thread : u # <<Len(calls), attempt + 1>> => thread'[u] = thread[u]
<1>1. Waited /\ Answer("error", thread)
  BY DEF GiveUp
<1> QED
  BY <1>1, AnswerIsStep DEF CallTypes

\* What is past stays past.
LEMMA StepKeeps ==
  ASSUME CallTypes, NEW t, StepOf(t)
  PROVE  /\ \A u \in Thread : Started(u) =>
              Started(u)' /\ Of(u)'.asked = Of(u).asked /\ Of(u)'.work = Of(u).work
         /\ \A u \in Thread : Started(u) /\ Past(u) => Past(u)'
         /\ \A u \in Thread : Waited /\ u = Current /\ (u = t => thread'[u].at # "none") /\
              (calls'[Len(calls)].state = "completed" => thread'[t].at = "none")
              => Past(u)' \/ (Waited /\ u = Current)'
         /\ CallTypes'
<1>1. Len(calls) \in 1..MaxCalls /\ attempt \in 1..MostRetries + 1 /\ Len(calls') = Len(calls)
      /\ calls' \in Seq(CallRecord) /\ calls' # <<>>
  BY CurrentFacts, EmptySeq DEF StepOf
<1>2. attempt' \in {attempt, attempt + 1} /\ attempt' \in 1..MostRetries + 1
  BY <1>1, Bounds DEF StepOf
<1>3. CallTypes'
  BY <1>1, <1>2 DEF StepOf, CallTypes
<1>4. ASSUME NEW u \in Thread, Started(u)
      PROVE Started(u)' /\ Of(u)'.asked = Of(u).asked /\ Of(u)'.work = Of(u).work
  <2>1. u[1] \in 1..Len(calls)
    BY <1>1, <1>4 DEF Started, Thread
  <2>2. u[2] \in 1..MostRetries + 1
    BY DEF Thread
  <2> QED
    BY <1>1, <1>2, <1>4, <2>1, <2>2, Bounds DEF StepOf, Started, Of
<1>5. ASSUME NEW u \in Thread, Started(u), Past(u) PROVE Past(u)'
  <2>1. u[2] \in 1..MostRetries + 1
    BY DEF Thread
  <2>2. calls[Len(calls)].state # "running" => calls'[Len(calls)].state = calls[Len(calls)].state
    BY <1>1 DEF StepOf, Waited
  <2> QED
    BY <1>1, <1>2, <1>5, <2>1, <2>2, Bounds DEF Past
<1>6. ASSUME NEW u \in Thread, Waited, u = Current, u = t => thread'[u].at # "none",
             calls'[Len(calls)].state = "completed" => thread'[t].at = "none"
      PROVE  Past(u)' \/ (Waited /\ u = Current)'
  <2>1. u[1] = Len(calls) /\ u[2] = attempt
    BY <1>6, <1>1 DEF Current
  <2>2. CASE attempt' = attempt + 1
    BY <1>1, <1>2, <2>1, <2>2, Bounds DEF Past
  <2>3. CASE attempt' = attempt /\ calls'[Len(calls)].state = "running"
    BY <1>1, <1>6, <2>1, <2>3 DEF Waited, Current
  <2>4. CASE attempt' = attempt /\ calls'[Len(calls)].state # "running"
    <3>1. calls'[Len(calls)].state \in Ending /\ calls[Len(calls)].state = "running"
      BY <1>1, <1>6, <2>4 DEF StepOf, Waited
    <3>2. calls'[Len(calls)].state # "completed"
      BY <1>1, <1>6, <3>1 DEF StepOf
    <3> QED
      BY <1>1, <3>1, <3>2 DEF Ending, Past
  <2> QED
    BY <1>2, <2>2, <2>3, <2>4
<1> QED
  BY <1>3, <1>4, <1>5, <1>6

\* A thread that has failed is waited for no more.
LEMMA FailedIsPast ==
  ASSUME CallTypes, NEW t \in Thread, ~At(t, "none"), ThreadsInPlace, End(t, "error")
  PROVE  Past(t)'
<1>1. Started(t) /\ (Past(t) \/ (Waited /\ t = Current))
  BY DEF ThreadsInPlace, Placed
<1>2. StepOf(t) /\ (Waited => calls'[Len(calls)].state # "completed")
      /\ (Waited /\ t = Current =>
            attempt' = attempt + 1 \/ calls'[Len(calls)].state # "running")
  BY EndIsStep
<1>3. Len(calls) \in Nat /\ attempt \in Nat /\ t[2] \in Nat /\ Len(calls') = Len(calls)
      /\ calls # <<>> /\ Len(calls) \in 1..Len(calls)
  BY <1>2, CurrentFacts, Bounds DEF StepOf, Thread
<1>4. CASE Past(t)
  BY <1>1, <1>2, <1>3, <1>4, StepKeeps
<1>5. CASE Waited /\ t = Current
  <2>1. t[1] = Len(calls) /\ t[2] = attempt
    BY <1>5 DEF Current
  <2> QED
    BY <1>2, <1>3, <1>5, <2>1 DEF StepOf, Past, Waited, Ending
<1> QED
  BY <1>1, <1>4, <1>5

\* The first place of an attempt is one of the handler that was asked for.
LEMMA FirstInPlace ==
  ASSUME NEW u, Of(u).asked \in Call PROVE Fits(Of(u).asked, First(Of(u).asked))
BY Bounds DEF Fits, First

\* A step that leaves its own thread in place leaves all of them in place.
LEMMA PlacesStay ==
  ASSUME Sound, NEW t, StepOf(t),
         t \in Thread => /\ ~At(t, "none")
                         /\ thread'[t].at = "none" \/ Fits(Of(t).asked, thread'[t].at),
         Waited /\ calls'[Len(calls)].state = "completed" => t \in Thread /\ thread'[t].at = "none"
  PROVE  Sound'
<1>1. CallTypes /\ ThreadsInPlace
  BY DEF Sound
<1>2. /\ CallTypes'
      /\ \A u \in Thread : Started(u) =>
              Started(u)' /\ Of(u)'.asked = Of(u).asked /\ Of(u)'.work = Of(u).work
      /\ \A u \in Thread : Started(u) /\ Past(u) => Past(u)'
      /\ \A u \in Thread : Waited /\ u = Current /\ (u = t => thread'[u].at # "none") /\
              (calls'[Len(calls)].state = "completed" => thread'[t].at = "none")
              => Past(u)' \/ (Waited /\ u = Current)'
  BY <1>1, StepKeeps
<1>3. ASSUME NEW u \in Thread, ~At(u, "none")'
      PROVE  Started(u)' /\ (Past(u)' \/ (Waited /\ u = Current)') /\ Fits(Of(u).asked, thread[u].at)'
  <2>1. thread'[u].at # "none"
    BY <1>3 DEF At
  <2>2. CASE ~At(u, "none") /\ (u = t \/ thread'[u] = thread[u])
    <3>1. Started(u) /\ (Past(u) \/ (Waited /\ u = Current)) /\ Fits(Of(u).asked, thread[u].at)
      BY <1>1, <2>2 DEF ThreadsInPlace, Placed
    <3>2. Fits(Of(u).asked, thread'[u].at)
      BY <2>1, <2>2, <3>1
    <3>3. Started(u)' /\ Of(u)'.asked = Of(u).asked
      BY <1>2, <3>1
    <3>4. Fits(Of(u).asked, thread[u].at)'
      BY <3>2, <3>3 DEF At
    <3> QED
      BY <1>2, <2>1, <3>1, <3>3, <3>4
  <2>3. CASE attempt' = attempt + 1 /\ u = <<Len(calls), attempt'>> /\ thread'[u].at = First(Of(u).asked)
    <3>1. Len(calls) \in 1..MaxCalls /\ calls[Len(calls)] \in CallRecord /\ attempt \in Nat
      BY <1>1, CurrentFacts DEF StepOf
    <3>2. Len(calls') = Len(calls) /\ calls'[Len(calls)].state = "running" /\ calls' # <<>>
      BY <2>3, <3>1, <1>2, EmptySeq DEF StepOf, Waited, CallTypes
    <3>3. (Waited /\ u = Current)'
      BY <2>3, <3>2 DEF Waited, Current
    <3>4. Started(u)'
      BY <2>3, <3>1, <3>2 DEF Started
    <3>5. Of(u).asked \in Call /\ Of(u)'.asked = Of(u).asked
      BY <2>3, <3>1 DEF Of, StepOf, CallRecord
    <3>6. Fits(Of(u).asked, thread'[u].at)
      BY <2>3, <3>5, FirstInPlace
    <3>7. Fits(Of(u).asked, thread[u].at)'
      BY <3>5, <3>6 DEF At
    <3> QED
      BY <3>3, <3>4, <3>7
  <2>4. u = t => ~At(u, "none")
    OBVIOUS
  <2>5. u # t => \/ thread'[u] = thread[u] /\ ~At(u, "none")
                 \/ attempt' = attempt + 1 /\ u = <<Len(calls), attempt'>> /\ thread'[u].at = First(Of(u).asked)
    BY <2>1 DEF StepOf, At
  <2> QED
    BY <2>2, <2>3, <2>4, <2>5
<1> QED
  <2>1. ASSUME NEW u \in Thread PROVE Placed(u)'
    BY <1>3 DEF Placed
  <2> QED
    BY <1>2, <2>1 DEF Sound, ThreadsInPlace

\* What the actions of thread t have in common.
ThreadStep(t) ==
  \/ Refuse(t) \/ Fetch(t) \/ FailFetch(t) \/ Write(t) \/ LoseWrite(t) \/ Look(t)
  \/ Add(t) \/ Added(t) \/ Commit(t) \/ Push(t)

\* A handler goes on to its next place, or ends; completed is what ends well.
LEMMA ThreadSteps ==
  ASSUME Sound, NEW t \in Thread, ThreadStep(t)
  PROVE  /\ StepOf(t) /\ ~At(t, "none") /\ Started(t) /\ Of(t).asked \in Call
         /\ Fits(Of(t).asked, thread[t].at) /\ (Past(t) \/ (Waited /\ t = Current))
         /\ \/ thread'[t].at = "none"
            \/ /\ calls' = calls /\ attempt' = attempt
               /\ Fits(Of(t).asked, thread'[t].at)
               /\ \A u \in Thread \ {t} : thread'[u] = thread[u]
         /\ Waited /\ calls'[Len(calls)].state = "completed" =>
              /\ t = Current /\ thread'[t].at = "none"
              /\ thread[t].at \in {"write", "look", "commit", "push"}
<1>1. CallTypes /\ ThreadsInPlace /\ ~At(t, "none")
  BY DEF Sound, ThreadStep, Refuse, Fetch, FailFetch, Write, LoseWrite, Look, Add, Added, Commit, Push, At
<1>2. Started(t) /\ Fits(Of(t).asked, thread[t].at) /\ (Past(t) \/ (Waited /\ t = Current))
  BY <1>1 DEF ThreadsInPlace, Placed
<1>3. Of(t).asked \in Call
  <2>1. t[1] \in 1..Len(calls)
    BY <1>1, <1>2 DEF CallTypes, Started, Thread
  <2> QED
    <3>1. calls[t[1]] \in CallRecord
      BY <1>1, <2>1 DEF CallTypes
    <3> QED
      BY <3>1 DEF Of, CallRecord
<1>4. thread[t].at \in Place /\ thread[t].seen \in BOOLEAN
  BY <1>1 DEF CallTypes, ThreadPlace
<1>5. \/ \E result \in {"error", "final"} : End(t, result)
      \/ End(t, "ok") /\ thread[t].at \in {"write", "look", "commit", "push"}
      \/ \E at \in Place, seen \in BOOLEAN : Continue(t, at, seen) /\ Fits(Of(t).asked, at)
  <2>1. CASE Refuse(t)
    BY <2>1 DEF Refuse
  <2>2. CASE Fetch(t)
    <3>1. (Of(t).asked.tool = "toggle" /\ light[Target(Of(t).asked)]) \in BOOLEAN /\ "write" \in Place
      BY DEF Place
    <3> QED
      BY <2>2, <3>1, <1>2 DEF Fetch, Fits, At
  <2>3. CASE FailFetch(t)
    BY <2>3 DEF FailFetch
  <2>4. CASE Write(t)
    BY <2>4, <1>2, <1>4 DEF Write, Fits, At, Place
  <2>5. CASE LoseWrite(t)
    BY <2>5 DEF LoseWrite
  <2>6. CASE Look(t)
    BY <2>6 DEF Look, At
  <2>7. CASE Add(t)
    BY <2>7, <1>2, <1>4 DEF Add, Fits, At, Place
  <2>8. CASE Added(t)
    BY <2>8, <1>2, <1>4 DEF Added, Fits, At, Place
  <2>9. CASE Commit(t)
    BY <2>9, <1>2, <1>4 DEF Commit, Fits, At, Place
  <2>10. CASE Push(t)
    BY <2>10 DEF Push, At
  <2> QED
    BY <2>1, <2>2, <2>3, <2>4, <2>5, <2>6, <2>7, <2>8, <2>9, <2>10 DEF ThreadStep
<1>6. CASE \E result \in {"error", "final"} : End(t, result)
  BY <1>1, <1>2, <1>3, <1>6, EndIsStep
<1>7. CASE End(t, "ok") /\ thread[t].at \in {"write", "look", "commit", "push"}
  BY <1>1, <1>2, <1>3, <1>7, EndIsStep
<1>8. CASE \E at \in Place, seen \in BOOLEAN : Continue(t, at, seen) /\ Fits(Of(t).asked, at)
  <2>1. PICK at \in Place, seen \in BOOLEAN : Continue(t, at, seen) /\ Fits(Of(t).asked, at)
    BY <1>8
  <2>2. /\ StepOf(t) /\ thread'[t] = [at |-> at, seen |-> seen]
        /\ calls' = calls /\ attempt' = attempt
        /\ \A u \in Thread \ {t} : thread'[u] = thread[u]
    BY <1>1, <2>1, ContinueIsStep
  <2> QED
    BY <1>1, <1>2, <1>3, <2>1, <2>2 DEF Waited
<1> QED
  BY <1>5, <1>6, <1>7, <1>8

\* What was begun stays begun, with what was asked; what is past stays past.
Onwards ==
  \A u \in Thread : Started(u) =>
    /\ Started(u)' /\ Of(u)'.asked = Of(u).asked /\ Of(u)'.work = Of(u).work
    /\ Past(u) => Past(u)'

\* A request begins an attempt, and makes all the earlier ones past.
LEMMA SoundBegin ==
  ASSUME Sound, NEW r \in Call, work \in Nat, Begin(r)
  PROVE  Sound' /\ Onwards
<1> DEFINE n == Len(calls)
           state == IF r.refused \/ (r.api /\ r.push /\ ~AllowPush) THEN "failed" ELSE "running"
           new == [asked |-> r, state |-> state, work |-> work]
<1>1. /\ CallTypes /\ ThreadsInPlace /\ ~Waited /\ n < MaxCalls /\ n \in Nat
      /\ calls' = Append(calls, new) /\ attempt' = 1
  BY DEF Sound, Begin, CallTypes
<1>2. new \in CallRecord /\ new.asked = r /\ new.state = state /\ state \in {"failed", "running"}
  BY DEF CallRecord, Ending
<1>3. /\ calls' \in Seq(CallRecord) /\ Len(calls') = n + 1 /\ calls' # <<>>
      /\ \A m \in 1..n : calls'[m] = calls[m]
      /\ calls'[n + 1] = new
  <2> HIDE DEF new
  <2>1. calls' \in Seq(CallRecord) /\ Len(calls') = n + 1
        /\ \A m \in 1..n : calls'[m] = calls[m]
        /\ calls'[n + 1] = new
    BY <1>1, <1>2 DEF CallTypes
  <2> QED
    BY <1>1, <2>1, EmptySeq
<1>4. <<n + 1, 1>> \in Thread /\ First(r) \in Place
  BY <1>1, Bounds DEF Thread, First, Place
<1>5. /\ thread' \in [Thread -> ThreadPlace]
      /\ \A u \in Thread :
           \/ thread'[u] = thread[u]
           \/ u = <<n + 1, 1>> /\ state = "running" /\ thread'[u].at = First(r)
  <2>1. thread' = IF state = "failed" THEN thread ELSE [thread EXCEPT ![<<n + 1, 1>>].at = First(r)]
    BY <1>3 DEF Begin
  <2> DEFINE q == <<n + 1, 1>>
             f == First(r)
  <2>2. q \in Thread /\ f \in Place /\ thread \in [Thread -> ThreadPlace]
    BY <1>1, <1>4 DEF CallTypes
  <2> HIDE DEF state, q, f
  <2>3. [thread EXCEPT ![q].at = f] \in [Thread -> ThreadPlace]
        /\ \A u \in Thread : [thread EXCEPT ![q].at = f][u] = thread[u]
                              \/ (u = q /\ [thread EXCEPT ![q].at = f][u].at = f)
    BY <2>2 DEF ThreadPlace
  <2> QED
    BY <1>2, <2>1, <2>2, <2>3 DEF q, f
<1>6. CallTypes'
  BY <1>1, <1>3, <1>5, Bounds DEF CallTypes
<1>7. ASSUME NEW u \in Thread, Started(u)
      PROVE  /\ Started(u)' /\ Past(u)'
             /\ Of(u)'.asked = Of(u).asked /\ Of(u)'.work = Of(u).work
  <2>1. u[1] \in 1..n
    BY <1>1, <1>7 DEF Started, Thread
  <2> QED
    BY <1>1, <1>3, <2>1 DEF Started, Past, Of
<1>8. ASSUME NEW u \in Thread PROVE Placed(u)'
  <2>1. CASE thread'[u] = thread[u]
    <3>1. ~At(u, "none")' => Started(u) /\ Fits(Of(u).asked, thread'[u].at)
      BY <1>1, <2>1 DEF ThreadsInPlace, Placed, At
    <3> QED
      BY <1>7, <3>1 DEF Placed, At
  <2>2. CASE u = <<n + 1, 1>> /\ state = "running" /\ thread'[u].at = First(r)
    <3> HIDE DEF state
    <3>1. Of(u)'.asked = r
      BY <1>2, <1>3, <2>2 DEF Of
    <3>2. Fits(Of(u).asked, thread[u].at)'
      BY <2>2, <3>1, Bounds DEF Fits, First
    <3>3. Started(u)' /\ (Waited /\ u = Current)'
      BY <1>1, <1>2, <1>3, <2>2 DEF Started, Waited, Current
    <3> QED
      BY <3>2, <3>3 DEF Placed
  <2> QED
    BY <1>5, <2>1, <2>2
<1> QED
  BY <1>6, <1>7, <1>8 DEF Sound, ThreadsInPlace, Onwards

\* The steps of threads, and timeouts, keep the registry's part of the invariant.
LEMMA SoundStep ==
  ASSUME Sound, NEW t,
         (t \in Thread /\ ThreadStep(t)) \/ (t = Person /\ GiveUp)
  PROVE  Sound' /\ Onwards
<1>1. CallTypes
  BY DEF Sound
<1>2. StepOf(t) /\ Sound'
  <2>1. CASE t \in Thread /\ ThreadStep(t)
    BY <2>1, ThreadSteps, PlacesStay
  <2>2. CASE t = Person /\ GiveUp
    <3>1. t \notin Thread
      BY <2>2 DEF Person, Thread
    <3> QED
      BY <1>1, <2>2, <3>1, GiveUpIsStep, PlacesStay
  <2> QED
    BY <2>1, <2>2
<1> QED
  BY <1>1, <1>2, StepKeeps DEF Onwards

\* So does a step that leaves the registry alone.
LEMMA SoundSame ==
  ASSUME Sound, UNCHANGED <<calls, thread, attempt>>
  PROVE  Sound' /\ Onwards
BY DEF Sound, CallTypes, ThreadsInPlace, Placed, At, Of, Started, Past, Waited, Current, Onwards

\* So does the death of the server, which no thread survives.
LEMMA SoundKill ==
  ASSUME Sound, Kill
  PROVE  Sound' /\ Onwards /\ \A t \in Thread : At(t, "none")'
<1> DEFINE n == Len(calls)
           s == IF calls[n].state = "running" THEN "killed" ELSE calls[n].state
<1>1. CallTypes /\ ThreadsInPlace
  BY DEF Sound
<1>2. calls # <<>>
  <2>1. PICK t \in Thread : ~At(t, "none")
    BY DEF Kill
  <2> QED
    BY <1>1, <2>1, EmptySeq DEF ThreadsInPlace, Placed, Started, Thread
<1>3. n \in 1..MaxCalls /\ calls[n] \in CallRecord /\ attempt \in 1..MostRetries + 1
  BY <1>1, <1>2, CurrentFacts
<1>4. calls' = [calls EXCEPT ![n].state = s] /\ attempt' = attempt
  BY DEF Kill
<1>5. s \in {"running"} \cup Ending /\ (s = calls[n].state \/ s = "killed")
  BY <1>3 DEF CallRecord, Ending
<1>6. PICK d \in CallRecord :
        /\ d = [calls[n] EXCEPT !.state = s]
        /\ d.asked = calls[n].asked /\ d.work = calls[n].work /\ d.state = s
  <2> HIDE DEF s, n
  <2> QED
    BY ZenonT(30), <1>3, <1>5, RecordUpdate
<1>7. /\ calls' \in Seq(CallRecord) /\ Len(calls') = n
      /\ \A m \in 1..n : calls'[m] = IF m = n THEN d ELSE calls[m]
  <2> HIDE DEF s
  <2> QED
    BY <1>1, <1>3, <1>4, <1>6 DEF CallTypes
<1>8. /\ thread' \in [Thread -> ThreadPlace]
      /\ \A t \in Thread : thread'[t].at = "none"
  BY DEF Kill, ThreadPlace, Place
<1>9. CallTypes'
  BY <1>1, <1>3, <1>4, <1>7, <1>8 DEF CallTypes
<1>10. ThreadsInPlace' /\ \A t \in Thread : At(t, "none")'
  BY <1>8 DEF ThreadsInPlace, Placed, At
<1>11. ASSUME NEW u \in Thread, Started(u)
       PROVE  /\ Started(u)' /\ Of(u)'.asked = Of(u).asked /\ Of(u)'.work = Of(u).work
              /\ Past(u) => Past(u)'
  <2>1. u[1] \in 1..n
    BY <1>3, <1>11 DEF Started, Thread
  <2> HIDE DEF s
  <2> QED
    BY <1>3, <1>4, <1>5, <1>6, <1>7, <1>11, <2>1 DEF Started, Past, Of
<1> QED
  BY <1>9, <1>10, <1>11 DEF Sound, Onwards

\* So does every step.
LEMMA SoundNext ==
  ASSUME Sound, work \in Nat, [EffectsNext]_effectVars
  PROVE  Sound' /\ Onwards
<1>1. ASSUME NEW t \in Thread,
             \/ Refuse(t) \/ Fetch(t) \/ FailFetch(t) \/ Write(t) \/ LoseWrite(t) \/ Look(t)
             \/ Add(t) \/ Added(t) \/ Commit(t) \/ Push(t)
      PROVE  Sound' /\ Onwards
  BY <1>1, SoundStep DEF ThreadStep
<1>2. CASE UNCHANGED <<calls, thread, attempt>>
  BY <1>2, SoundSame
<1> QED
  BY <1>1, <1>2, SoundBegin, SoundStep, SoundKill
  DEF EffectsNext, Arrive, Touch, Edit, effectVars, lights, repository

\* What a write makes of the lights: those it touches, and no other.
LEMMA WrittenFacts ==
  ASSUME LightTypes, NEW t \in Thread, Of(t).asked \in Call, Resolves(Of(t).asked), NEW seen \in BOOLEAN
  PROVE  LET r == Of(t).asked
             s == Target(r) IN
         /\ Written(t, seen) \in [Light -> BOOLEAN]
         /\ Touched(t) \subseteq [who : {t}, light : Light]
         /\ \A l \in Light : (\A x \in Touched(t) : x.light # l) => Written(t, seen)[l] = light[l]
         /\ r.tool = "toggle" =>
              /\ s \in Light /\ Written(t, seen)[s] = ~seen
              /\ Touched(t) = {[who |-> t, light |-> s]}
         /\ r.tool # "toggle" =>
              /\ DOMAIN Sets[s] \subseteq Light
              /\ \A l \in DOMAIN Sets[s] : Written(t, seen)[l] = Sets[s][l]
              /\ Touched(t) = {[who |-> t, light |-> l] : l \in DOMAIN Sets[s]}
<1> DEFINE r == Of(t).asked
           s == Target(r)
<1>1. CASE r.tool = "toggle"
  <2>1. s \in Light
    BY <1>1, TargetFacts
  <2>2. Written(t, seen) = [light EXCEPT ![s] = ~seen]
    BY <1>1 DEF Written, Toggled
  <2>3. Touched(t) = {[who |-> t, light |-> s]}
    BY <1>1 DEF Touched
  <2> HIDE DEF s
  <2>4. Written(t, seen) \in [Light -> BOOLEAN] /\ Written(t, seen)[s] = ~seen
        /\ \A l \in Light : l # s => Written(t, seen)[l] = light[l]
    BY <2>1, <2>2 DEF LightTypes
  <2>5. Touched(t) \subseteq [who : {t}, light : Light]
        /\ \A l \in Light : (\A x \in Touched(t) : x.light # l) => l # s
    BY <2>1, <2>3
  <2> QED
    BY <1>1, <2>1, <2>3, <2>4, <2>5 DEF s
<1>2. CASE r.tool # "toggle"
  <2> DEFINE D == DOMAIN Sets[s]
             v == Sets[s]
  <2>1. D \subseteq Light /\ \A l \in D : v[l] \in BOOLEAN
    BY <1>2, TargetFacts
  <2>2. Written(t, seen) = [l \in Light |-> IF l \in D THEN v[l] ELSE light[l]]
    BY <1>2 DEF Written
  <2>3. Touched(t) = {[who |-> t, light |-> l] : l \in D}
    BY <1>2 DEF Touched
  <2> HIDE DEF D, v
  <2>4. /\ Written(t, seen) \in [Light -> BOOLEAN]
        /\ \A l \in D : Written(t, seen)[l] = v[l]
        /\ \A l \in Light : l \notin D => Written(t, seen)[l] = light[l]
    BY <2>1, <2>2 DEF LightTypes
  <2>5. Touched(t) \subseteq [who : {t}, light : Light]
        /\ \A l \in Light : (\A x \in Touched(t) : x.light # l) => l \notin D
    <3>1. ASSUME NEW l \in D PROVE \E x \in Touched(t) : x.light = l
      <4>1. [who |-> t, light |-> l] \in Touched(t) /\ [who |-> t, light |-> l].light = l
        BY <2>3
      <4> QED
        BY <4>1
    <3> QED
      BY <2>1, <2>3, <3>1
  <2> QED
    BY <1>2, <2>1, <2>3, <2>4, <2>5 DEF D, v
<1> QED
  BY <1>1, <1>2

\* The lights, and what has been and may yet be written to them.
Lit == LightTypes /\ LateInPlace /\ WritersStarted

\* What is known of the lights, when nothing more is written to them.
LEMMA LitSame ==
  ASSUME Lit, Onwards,
         light' \in [Light -> BOOLEAN], before' = before \/ before' = light, late' \subseteq late,
         writes' \subseteq writes
  PROVE  Lit'
<1>1. LightTypes'
  BY DEF Lit, LightTypes
<1>2. ASSUME NEW w \in late' PROVE Started(w[1])' /\ Past(w[1])'
             /\ Of(w[1])'.asked.tool # "backup" /\ Resolves(Of(w[1])'.asked)
  <2>1. w \in late /\ w[1] \in Thread
    BY DEF Lit, LightTypes
  <2> QED
    BY <2>1 DEF Lit, LateInPlace, Onwards
<1>3. ASSUME NEW x \in writes' PROVE x.who = Person \/ Started(x.who)'
  <2>1. x \in writes /\ x.who \in Thread \cup {Person}
    BY DEF Lit, LightTypes
  <2> QED
    BY <2>1 DEF Lit, WritersStarted, Onwards
<1>4. LateInPlace'
  BY <1>2 DEF LateInPlace
<1> QED
  BY <1>1, <1>3, <1>4 DEF Lit, WritersStarted

\* A write of a thread that has begun, now or late.
LEMMA LitWritten ==
  ASSUME Lit, Onwards, NEW t \in Thread, Started(t), Of(t).asked \in Call,
         Resolves(Of(t).asked), NEW seen \in BOOLEAN,
         light' = Written(t, seen), writes' = writes \cup Touched(t), before' = before,
         late' \subseteq late
  PROVE  Lit'
<1>1. Written(t, seen) \in [Light -> BOOLEAN] /\ Touched(t) \subseteq [who : {t}, light : Light]
  BY WrittenFacts DEF Lit
<1>2. LightTypes'
  BY <1>1 DEF Lit, LightTypes
<1>3. ASSUME NEW w \in late' PROVE Started(w[1])' /\ Past(w[1])'
             /\ Of(w[1])'.asked.tool # "backup" /\ Resolves(Of(w[1])'.asked)
  <2>1. w \in late /\ w[1] \in Thread
    BY DEF Lit, LightTypes
  <2> QED
    BY <2>1 DEF Lit, LateInPlace, Onwards
<1>4. ASSUME NEW x \in writes' PROVE x.who = Person \/ Started(x.who)'
  <2>1. CASE x \in writes
    <3>1. x.who \in Thread \cup {Person}
      BY <2>1 DEF Lit, LightTypes
    <3> QED
      BY <2>1, <3>1 DEF Lit, WritersStarted, Onwards
  <2>2. CASE x \in Touched(t)
    BY <1>1, <2>2 DEF Onwards
  <2> QED
    BY <2>1, <2>2
<1>5. LateInPlace'
  BY <1>3 DEF LateInPlace
<1> QED
  BY <1>2, <1>4, <1>5 DEF Lit, WritersStarted

\* A thread whose write has failed is waited for no more.
LEMMA LitLate ==
  ASSUME Lit, Onwards, NEW w \in Thread \X BOOLEAN, Started(w[1]), Past(w[1])',
         Of(w[1]).asked.tool # "backup", Resolves(Of(w[1]).asked),
         late' \in {late, late \cup {w}}, UNCHANGED <<light, before, writes>>
  PROVE  Lit'
<1>1. LightTypes' /\ w[1] \in Thread
  BY DEF Lit, LightTypes
<1>2. ASSUME NEW v \in late' PROVE Started(v[1])' /\ Past(v[1])'
             /\ Of(v[1])'.asked.tool # "backup" /\ Resolves(Of(v[1])'.asked)
  <2>1. CASE v \in late
    <3>1. v[1] \in Thread
      BY <2>1 DEF Lit, LightTypes
    <3> QED
      BY <2>1, <3>1 DEF Lit, LateInPlace, Onwards
  <2>2. CASE v = w
    BY <1>1, <2>2 DEF Onwards
  <2> QED
    BY <2>1, <2>2
<1>3. ASSUME NEW x \in writes' PROVE x.who = Person \/ Started(x.who)'
  <2>1. x \in writes /\ x.who \in Thread \cup {Person}
    BY DEF Lit, LightTypes
  <2> QED
    BY <2>1 DEF Lit, WritersStarted, Onwards
<1>4. LateInPlace'
  BY <1>2 DEF LateInPlace
<1> QED
  BY <1>1, <1>3, <1>4 DEF Lit, WritersStarted

\* What is known of the lights is kept by every step.
LEMMA LitNext ==
  ASSUME Sound, Lit, work \in Nat, [EffectsNext]_effectVars
  PROVE  Lit'
<1>1. Sound' /\ Onwards
  BY SoundNext
<1>2. light \in [Light -> BOOLEAN]
  BY DEF Lit, LightTypes
<1>3. CASE UNCHANGED <<light, late, before, writes>>
  BY <1>1, <1>2, <1>3, LitSame
<1>4. ASSUME NEW r \in Call, Begin(r) PROVE Lit'
  <2>1. light' = light /\ late' = late /\ before' = light /\ writes' = {}
    BY <1>4 DEF Begin
  <2> QED
    BY <1>1, <1>2, <2>1, LitSame
<1>5. ASSUME NEW t \in Thread, ThreadStep(t) PROVE Lit'
  <2>1. Started(t) /\ Of(t).asked \in Call /\ Fits(Of(t).asked, thread[t].at)
        /\ ~At(t, "none")
    BY <1>5, ThreadSteps
  <2>2. CallTypes /\ ThreadsInPlace /\ thread[t].seen \in BOOLEAN
    BY DEF Sound, CallTypes, ThreadPlace
  <2>3. CASE Write(t)
    <3>1. Resolves(Of(t).asked)
      BY <2>1, <2>3 DEF Write, At, Fits
    <3> QED
      BY <1>1, <2>1, <2>2, <2>3, <3>1, LitWritten DEF Write
  <2>4. CASE LoseWrite(t)
    <3>1. Resolves(Of(t).asked) /\ Of(t).asked.tool # "backup"
      BY <2>1, <2>4 DEF LoseWrite, At, Fits
    <3>2. Past(t)'
      BY <2>1, <2>2, <2>4, FailedIsPast DEF LoseWrite
    <3> DEFINE w == <<t, thread[t].seen>>
    <3>3. w \in Thread \X BOOLEAN /\ w[1] = t /\ late' \in {late, late \cup {w}}
          /\ UNCHANGED <<light, before, writes>>
      BY <2>2, <2>4 DEF LoseWrite
    <3> HIDE DEF w
    <3> QED
      BY <1>1, <2>1, <3>1, <3>2, <3>3, LitLate
  <2>5. CASE ~Write(t) /\ ~LoseWrite(t)
    <3>1. UNCHANGED <<light, late, before, writes>>
      BY <1>5, <2>5 DEF ThreadStep, Refuse, Fetch, FailFetch, Look, Add, Added, Commit, Push, lights
    <3> QED
      BY <1>3, <3>1
  <2> QED
    BY <2>3, <2>4, <2>5
<1>6. ASSUME NEW w \in late, Arrive(w) PROVE Lit'
  <2>1. w[1] \in Thread /\ w[2] \in BOOLEAN /\ Started(w[1]) /\ Resolves(Of(w[1]).asked)
    BY DEF Lit, LightTypes, LateInPlace
  <2>2. Of(w[1]).asked \in Call
    <3>1. w[1][1] \in 1..Len(calls)
      BY <2>1 DEF Sound, CallTypes, Started, Thread
    <3>2. calls[w[1][1]] \in CallRecord
      BY <3>1 DEF Sound, CallTypes
    <3> QED
      BY <3>2 DEF Of, CallRecord
  <2> QED
    BY <1>1, <1>6, <2>1, <2>2, LitWritten DEF Arrive
<1>7. ASSUME NEW l \in Light, Touch(l) PROVE Lit'
  <2>1. light' \in [Light -> BOOLEAN] /\ before' = before /\ late' = late
        /\ writes' = writes \cup {[who |-> Person, light |-> l]}
    BY <1>2, <1>7 DEF Touch
  <2>2. LightTypes'
    BY <2>1 DEF Lit, LightTypes
  <2>3. LateInPlace'
    <3>1. ASSUME NEW w \in late' PROVE Started(w[1])' /\ Past(w[1])'
             /\ Of(w[1])'.asked.tool # "backup" /\ Resolves(Of(w[1])'.asked)
      <4>1. w \in late /\ w[1] \in Thread
        BY <2>1 DEF Lit, LightTypes
      <4> QED
        BY <1>1, <4>1 DEF Lit, LateInPlace, Onwards
    <3> QED
      BY <3>1 DEF LateInPlace
  <2>4. ASSUME NEW x \in writes' PROVE x.who = Person \/ Started(x.who)'
    <3>1. x.who = Person \/ (x \in writes /\ x.who \in Thread /\ Started(x.who))
      BY <2>1 DEF Lit, LightTypes, WritersStarted
    <3> QED
      BY <1>1, <3>1 DEF Onwards
  <2> QED
    BY <2>2, <2>3, <2>4 DEF Lit, WritersStarted
<1>8. ASSUME NEW t \in Thread,
             \/ Refuse(t) \/ Fetch(t) \/ FailFetch(t) \/ Write(t) \/ LoseWrite(t) \/ Look(t)
             \/ Add(t) \/ Added(t) \/ Commit(t) \/ Push(t)
      PROVE  Lit'
  BY <1>5, <1>8 DEF ThreadStep
<1> QED
  BY <1>3, <1>4, <1>6, <1>7, <1>8
  DEF EffectsNext, GiveUp, Edit, Kill, effectVars, lights

\* The versions only grow.
LEMMA VersionsNext ==
  ASSUME Versions, [EffectsNext]_effectVars
  PROVE  /\ Versions' /\ work' >= work /\ index' >= index /\ head' >= head /\ remote' >= remote
         /\ work \in Nat /\ index \in Nat /\ head \in Nat /\ remote \in Nat
<1> DEFINE Standing == UNCHANGED <<work, index, head, remote>>
<1>1. \/ Standing
      \/ work' = work + 1 /\ work < MaxEdits /\ UNCHANGED <<index, head, remote>>
      \/ index' = work /\ UNCHANGED <<work, head, remote>>
      \/ head' = index /\ UNCHANGED <<work, index, remote>>
      \/ remote' = head /\ UNCHANGED <<work, index, head>>
  <2>1. ASSUME UNCHANGED repository PROVE Standing
    BY <2>1 DEF repository
  <2>2. CASE \E r \in Call : Begin(r)
    BY <2>1, <2>2 DEF Begin
  <2>3. CASE GiveUp
    BY <2>1, <2>3 DEF GiveUp
  <2>4. ASSUME NEW t \in Thread, Refuse(t) \/ Fetch(t) \/ FailFetch(t) \/ Write(t) \/ LoseWrite(t) \/ Look(t)
        PROVE  Standing
    BY <2>1, <2>4 DEF Refuse, Fetch, FailFetch, Write, LoseWrite, Look
  <2>5. CASE \E w \in late : Arrive(w)
    BY <2>1, <2>5 DEF Arrive
  <2>6. CASE \E l \in Light : Touch(l)
    BY <2>1, <2>6 DEF Touch
  <2>7. CASE UNCHANGED effectVars
    BY <2>1, <2>7 DEF effectVars
  <2> QED
    BY <2>2, <2>3, <2>4, <2>5, <2>6, <2>7 DEF EffectsNext, Add, Added, Commit, Push, Edit, Kill
<1> QED
  BY <1>1, Bounds DEF Versions

\* Every step but a request keeps what was asked, and when.
LEMMA RecordsKept ==
  ASSUME Sound, [EffectsNext]_effectVars, ~\E r \in Call : Begin(r)
  PROVE  /\ Len(calls') = Len(calls)
         /\ \A n \in 1..Len(calls) :
              calls'[n].asked = calls[n].asked /\ calls'[n].work = calls[n].work
<1>1. CallTypes
  BY DEF Sound
<1>2. ASSUME NEW t, StepOf(t)
      PROVE  /\ Len(calls') = Len(calls)
             /\ \A n \in 1..Len(calls) :
                  calls'[n].asked = calls[n].asked /\ calls'[n].work = calls[n].work
  BY <1>2 DEF StepOf
<1>3. CASE GiveUp
  BY <1>1, <1>2, <1>3, GiveUpIsStep
<1>4. ASSUME NEW t \in Thread, ThreadStep(t)
      PROVE  /\ Len(calls') = Len(calls)
             /\ \A n \in 1..Len(calls) :
                  calls'[n].asked = calls[n].asked /\ calls'[n].work = calls[n].work
  BY <1>2, <1>4, ThreadSteps
<1>5. CASE calls' = calls
  BY <1>5
<1>6. CASE Kill
  <2> DEFINE s == IF calls[Len(calls)].state = "running" THEN "killed" ELSE calls[Len(calls)].state
  <2>1. calls' = [calls EXCEPT ![Len(calls)].state = s]
    BY <1>6 DEF Kill
  <2>2. calls \in Seq(CallRecord)
    BY <1>1 DEF CallTypes
  <2> HIDE DEF s
  <2>3. /\ Len(calls') = Len(calls)
        /\ \A n \in 1..Len(calls) :
             calls'[n] = calls[n] \/ calls'[n] = [calls[n] EXCEPT !.state = s]
    BY <2>1, <2>2
  <2>4. \A n \in 1..Len(calls) : calls[n] \in CallRecord
    BY <2>2
  <2> QED
    BY <2>3, <2>4 DEF CallRecord
<1> QED
  BY <1>3, <1>4, <1>5, <1>6
  DEF EffectsNext, ThreadStep, Arrive, Touch, Edit, effectVars

\* No call notes a version that is yet to come.
LEMMA StampsNext ==
  ASSUME Sound, Versions, Stamps, [EffectsNext]_effectVars
  PROVE  Stamps'
<1>1. CallTypes /\ work' >= work /\ work \in Nat /\ work' \in Nat
  BY VersionsNext, Bounds DEF Sound, Versions
<1>2. Len(calls) \in Nat /\ \A n \in 1..Len(calls) : calls[n].work \in Nat /\ calls[n].work <= work
  <2>1. \A n \in 1..Len(calls) : calls[n] \in CallRecord
    BY <1>1 DEF CallTypes
  <2> QED
    BY <1>1, <2>1 DEF CallTypes, CallRecord, Stamps
<1>3. CASE \E r \in Call : Begin(r)
  <2>1. PICK r \in Call : Begin(r)
    BY <1>3
  <2> DEFINE new == [asked |-> r,
                     state |-> IF r.refused \/ (r.api /\ r.push /\ ~AllowPush) THEN "failed" ELSE "running",
                     work |-> work]
  <2>2. calls' = Append(calls, new) /\ new.work = work
    BY <2>1 DEF Begin
  <2> HIDE DEF new
  <2>3. /\ Len(calls') = Len(calls) + 1
        /\ \A n \in 1..Len(calls) : calls'[n] = calls[n]
        /\ calls'[Len(calls) + 1] = new
    BY <1>1, <2>2 DEF CallTypes
  <2> QED
    BY <1>1, <1>2, <2>2, <2>3 DEF Stamps
<1>4. CASE ~\E r \in Call : Begin(r)
  BY <1>1, <1>2, <1>4, RecordsKept DEF Stamps
<1> QED
  BY <1>3, <1>4

\* Only one attempt at a time runs git add, and with the lock.
LEMMA LocksNext ==
  ASSUME Sound, Locks, [EffectsNext]_effectVars
  PROVE  Locks'
<1>1. CallTypes /\ ThreadsInPlace /\ thread \in [Thread -> ThreadPlace] /\ Len(calls) \in Nat
  BY DEF Sound, CallTypes
<1>2. ASSUME locked' = locked, \A t \in Thread : At(t, "adding")' => At(t, "adding")
      PROVE  Locks'
  BY <1>2 DEF Locks
<1>3. \A r : First(r) # "adding"
  BY DEF First
<1>4. CASE \E r \in Call : Begin(r)
  <2>1. PICK r \in Call : Begin(r)
    BY <1>4
  <2> DEFINE q == <<Len(calls'), 1>>
             f == First(r)
  <2>2. thread' = thread \/ thread' = [thread EXCEPT ![q].at = f]
    BY <2>1 DEF Begin
  <2> HIDE DEF q, f
  <2>3. \A t \in Thread : At(t, "adding")' => At(t, "adding")
    BY <1>1, <1>3, <2>2 DEF At, f, ThreadPlace
  <2> QED
    BY <1>2, <2>1, <2>3 DEF Begin, repository
<1>5. CASE GiveUp
  <2>1. StepOf(Person) /\ Person \notin Thread
    BY <1>1, <1>5, GiveUpIsStep DEF Person, Thread
  <2>2. \A t \in Thread : At(t, "adding")' => At(t, "adding")
    BY <1>3, <2>1 DEF StepOf, At
  <2> QED
    BY <1>2, <1>5, <2>2 DEF GiveUp, repository
<1>6. ASSUME NEW t \in Thread, ThreadStep(t) PROVE Locks'
  <2>1. StepOf(t) /\ ~At(t, "none")
    BY <1>6, ThreadSteps
  <2>2. \A u \in Thread \ {t} : At(u, "adding")' => At(u, "adding")
    BY <1>3, <2>1 DEF StepOf, At
  <2>3. CASE Add(t)
    <3>1. CASE ~locked /\ locked' = TRUE
      <4>1. \A u \in Thread \ {t} : ~At(u, "adding")'
        BY <2>2, <3>1 DEF Locks
      <4> QED
        BY <3>1, <4>1 DEF Locks
    <3>2. CASE locked' = locked /\ End(t, "error")
      <4>1. ~At(t, "adding")'
        BY <1>1, <2>1, <3>2, EndIsStep DEF At
      <4> QED
        BY <1>2, <2>2, <3>2, <4>1
    <3> QED
      BY <2>3, <3>1, <3>2 DEF Add
  <2>4. CASE Added(t)
    <3>1. \A u \in Thread \ {t} : ~At(u, "adding")'
      BY <2>2, <2>4 DEF Added, Locks
    <3>2. ~At(t, "adding")'
      <4>1. CASE Continue(t, "commit", FALSE)
        BY <1>1, <4>1 DEF Continue, At, ThreadPlace
      <4>2. CASE End(t, "error")
        BY <1>1, <2>1, <4>2, EndIsStep DEF At
      <4> QED
        BY <2>4, <4>1, <4>2 DEF Added
    <3> QED
      BY <2>4, <3>1, <3>2 DEF Added, Locks
  <2>5. CASE ~Add(t) /\ ~Added(t)
    <3>1. locked' = locked
      BY <1>6, <2>5
      DEF ThreadStep, Refuse, Fetch, FailFetch, Write, LoseWrite, Look, Commit, Push, repository
    <3>2. \/ \E result \in {"ok", "error", "final"} : End(t, result)
          \/ \E at \in Place \ {"adding"} : \E seen : Continue(t, at, seen)
      BY <1>6, <2>5 DEF ThreadStep, Refuse, Fetch, FailFetch, Write, LoseWrite, Look, Commit, Push, Place
    <3>3. ~At(t, "adding")'
      <4>1. CASE \E at \in Place \ {"adding"} : \E seen : Continue(t, at, seen)
        BY <1>1, <4>1 DEF Continue, At, ThreadPlace
      <4>2. CASE \E result \in {"ok", "error", "final"} : End(t, result)
        BY <1>1, <2>1, <4>2, EndIsStep DEF At
      <4> QED
        BY <3>2, <4>1, <4>2
    <3> QED
      BY <1>2, <2>2, <3>1, <3>3
  <2> QED
    BY <2>3, <2>4, <2>5
<1>7. CASE Kill
  <2>1. \A t \in Thread : ~At(t, "adding")'
    BY <1>7 DEF Kill, At
  <2> QED
    BY <1>7, <2>1 DEF Kill, Locks
<1>8. CASE UNCHANGED <<thread, locked>>
  BY <1>2, <1>8 DEF At
<1> QED
  BY <1>4, <1>5, <1>6, <1>7, <1>8
  DEF EffectsNext, ThreadStep, Arrive, Touch, Edit, effectVars, repository

\* The inductive invariant all the theorems below rest on.
Placing == Sound /\ Lit /\ Versions /\ Stamps /\ Locks

\* Placing holds initially.
LEMMA PlacingInit == EffectsInit => Placing
<1> SUFFICES ASSUME EffectsInit PROVE Placing
  OBVIOUS
<1>1. Sound /\ calls = <<>> /\ Len(calls) = 0
  BY Bounds, EmptySeq
  DEF EffectsInit, Sound, CallTypes, ThreadsInPlace, Placed, At, ThreadPlace, Place
<1>2. Lit
  BY DEF EffectsInit, Lit, LightTypes, LateInPlace, WritersStarted
<1>3. Versions /\ Stamps
  BY <1>1, Bounds DEF EffectsInit, Versions, Stamps
<1>4. Locks
  BY DEF EffectsInit, Locks, At
<1> QED
  BY <1>1, <1>2, <1>3, <1>4 DEF Placing

\* Every step keeps Placing.
LEMMA PlacingNext == Placing /\ [EffectsNext]_effectVars => Placing'
<1> SUFFICES ASSUME Placing, [EffectsNext]_effectVars PROVE Placing'
  OBVIOUS
<1>1. Sound /\ Lit /\ Versions /\ Stamps /\ Locks /\ work \in Nat
  BY Bounds DEF Placing, Versions
<1> QED
  BY <1>1, SoundNext, LitNext, VersionsNext, StampsNext, LocksNext DEF Placing

\* Every thread is where its call, the calls after it and the answers given so far leave it.
THEOREM EffectsInvariant == EffectsSpec => []Placing
BY PlacingInit, PlacingNext, PTL DEF EffectsSpec

\* The types, the order of the versions, and the lock that one attempt holds.
THEOREM EffectsTypeCorrect == EffectsSpec => []EffectsTypeOK
<1>1. Placing => EffectsTypeOK
  <2> SUFFICES ASSUME Placing PROVE EffectsTypeOK
    OBVIOUS
  <2>1. CallTypes /\ LightTypes /\ Versions /\ Stamps /\ Locks
    BY DEF Placing, Sound, Lit
  <2>2. DOMAIN calls = 1..Len(calls) /\ \A n \in 1..Len(calls) : calls[n] \in CallRecord
    BY <2>1 DEF CallTypes
  <2>3. ASSUME NEW n \in DOMAIN calls
        PROVE  /\ calls[n].asked \in Call /\ calls[n].work \in 0..work
               /\ calls[n].state \in {"running", "completed", "failed", "killed"}
    BY <2>1, <2>2, Bounds DEF CallRecord, Ending, Stamps, Versions
  <2> QED
    BY <2>1, <2>3 DEF EffectsTypeOK, CallTypes, LightTypes, Versions, Locks, ThreadPlace, Place
<1> QED
  BY <1>1, EffectsInvariant, PTL

\* What a step other than a request does to the latest call and its current attempt: only
\* that attempt itself completes the call, and the next one starts at the beginning.
LatestGoesOn ==
  LET n == Len(calls)
      next == <<n, attempt + 1>> IN
  /\ attempt' \in {attempt, attempt + 1}
  /\ attempt' = attempt + 1 =>
       /\ calls[n].state = "running" /\ calls'[n].state = "running"
       /\ next \in Thread /\ thread'[next].at \in {"none", First(calls[n].asked)}
  /\ attempt' = attempt /\ ~ThreadStep(Current) =>
       /\ calls'[n].state = "running" =>
            calls[n].state = "running" /\ thread'[Current] = thread[Current]
       /\ calls'[n].state = "completed" => calls[n].state = "completed"

\* Every step but a request lets the latest call go on so.
LEMMA LatestStep ==
  ASSUME Placing, [EffectsNext]_effectVars, ~\E r \in Call : Begin(r), calls # <<>>
  PROVE  LatestGoesOn
<1> DEFINE n == Len(calls)
           next == <<n, attempt + 1>>
<1>1. CallTypes /\ ThreadsInPlace /\ Sound
  BY DEF Placing, Sound
<1>2. n \in 1..MaxCalls /\ attempt \in 1..MostRetries + 1 /\ calls[n] \in CallRecord
      /\ Current \in Thread /\ Current = <<n, attempt>> /\ Of(Current) = calls[n]
  BY <1>1, CurrentFacts DEF Current
<1>3. CASE UNCHANGED <<calls, thread, attempt>>
  BY <1>2, <1>3 DEF LatestGoesOn
<1>4. ASSUME NEW t, StepOf(t), (t \in Thread /\ ThreadStep(t)) \/ t = Person
      PROVE  LatestGoesOn
  <2>1. CASE attempt' = attempt + 1
    <3>1. attempt <= MostRetries /\ Waited /\ calls'[n].state = calls[n].state
      BY <1>2, <1>4, <2>1 DEF StepOf
    <3>2. next \in Thread /\ ~Started(next)
      BY <1>2, <3>1, Bounds DEF Thread, Started
    <3>3. At(next, "none")
      BY <1>1, <3>2 DEF ThreadsInPlace, Placed
    <3>4. next # t
      BY <1>4, <3>2, <3>3, <1>1, ThreadSteps DEF Person
    <3>5. thread'[next] = thread[next] \/ thread'[next].at = First(Of(next).asked)
      BY <1>4, <3>2, <3>4 DEF StepOf
    <3>6. Of(next) = calls[n]
      BY DEF Of
    <3> QED
      BY <1>2, <2>1, <3>1, <3>2, <3>3, <3>5, <3>6 DEF LatestGoesOn, Waited, At
  <2>2. CASE attempt' = attempt
    <3>1. ASSUME ~ThreadStep(Current)
          PROVE  /\ calls'[n].state = "running" =>
                      calls[n].state = "running" /\ thread'[Current] = thread[Current]
                 /\ calls'[n].state = "completed" => calls[n].state = "completed"
      <4>1. t # Current
        BY <1>2, <1>4, <3>1 DEF Person, Thread
      <4>2. thread'[Current] = thread[Current]
        BY <1>2, <1>4, <2>2, <4>1 DEF StepOf
      <4> QED
        BY <1>2, <1>4, <4>1, <4>2 DEF StepOf, Ending
    <3> QED
      BY <1>2, <2>2, <3>1 DEF LatestGoesOn
  <2> QED
    BY <1>2, <1>4, <2>1, <2>2 DEF StepOf
<1>5. CASE GiveUp
  BY <1>1, <1>4, <1>5, GiveUpIsStep
<1>6. ASSUME NEW t \in Thread, ThreadStep(t) PROVE LatestGoesOn
  BY <1>1, <1>4, <1>6, ThreadSteps
<1>7. CASE Kill
  <2> DEFINE s == IF calls[n].state = "running" THEN "killed" ELSE calls[n].state
  <2>1. attempt' = attempt /\ calls' = [calls EXCEPT ![n].state = s]
    BY <1>7 DEF Kill
  <2>2. n \in 1..Len(calls) /\ calls \in Seq(CallRecord) /\ s # "running"
        /\ (s = "completed" => calls[n].state = "completed")
    BY <1>1, <1>2 DEF CallTypes
  <2> HIDE DEF s
  <2>3. calls'[n] = [calls[n] EXCEPT !.state = s]
    BY <2>1, <2>2
  <2>4. calls'[n].state = s
    BY <1>2, <2>3 DEF CallRecord
  <2> QED
    BY <1>2, <2>1, <2>2, <2>4 DEF LatestGoesOn
<1> QED
  BY <1>3, <1>5, <1>6, <1>7
  DEF EffectsNext, ThreadStep, Arrive, Touch, Edit, effectVars

\* What a step other than a request does to the lights: it is somebody's write.
WroteBy(who) ==
  /\ before' = before /\ writes \subseteq writes'
  /\ \A x \in writes' : x \in writes \/ x.who = who
  /\ \A l \in Light : light'[l] = light[l] \/ \E x \in writes' : x.light = l /\ x.who = who
  /\ \/ who = Person
     \/ who \in Thread /\ UNCHANGED <<light, writes>>
     \/ /\ who \in Thread /\ Started(who) /\ (Past(who) \/ Write(who))
        /\ \E seen \in BOOLEAN :
             light' = Written(who, seen) /\ writes' = writes \cup Touched(who)

\* Every step but a request is somebody's write, or none.
LEMMA LightsStep ==
  ASSUME Placing, [EffectsNext]_effectVars, ~\E r \in Call : Begin(r)
  PROVE  \E who \in Thread \cup {Person} : WroteBy(who)
<1>1. Lit /\ LightTypes /\ Sound
  BY DEF Placing, Lit
<1>2. CASE UNCHANGED <<light, before, writes>>
  <2>1. WroteBy(Person)
    BY <1>2 DEF WroteBy
  <2> QED
    BY <2>1
<1>3. ASSUME NEW t \in Thread, NEW seen \in BOOLEAN, Started(t), Past(t) \/ Write(t),
             Of(t).asked \in Call, Resolves(Of(t).asked),
             light' = Written(t, seen), writes' = writes \cup Touched(t), before' = before
      PROVE  WroteBy(t)
  <2>1. /\ Touched(t) \subseteq [who : {t}, light : Light]
        /\ \A l \in Light : (\A x \in Touched(t) : x.light # l) => Written(t, seen)[l] = light[l]
    BY <1>1, <1>3, WrittenFacts
  <2> QED
    BY <1>3, <2>1 DEF WroteBy
<1>4. ASSUME NEW t \in Thread, Write(t) PROVE WroteBy(t)
  <2>1. Started(t) /\ Of(t).asked \in Call /\ Fits(Of(t).asked, thread[t].at)
    BY <1>1, <1>4, ThreadSteps DEF ThreadStep
  <2>2. thread[t].seen \in BOOLEAN /\ Resolves(Of(t).asked)
    BY <1>1, <1>4, <2>1 DEF Write, At, Fits, Sound, CallTypes, ThreadPlace
  <2> QED
    BY <1>3, <1>4, <2>1, <2>2 DEF Write
<1>5. ASSUME NEW w \in late, Arrive(w) PROVE WroteBy(w[1]) /\ w[1] \in Thread
  <2>1. w[1] \in Thread /\ w[2] \in BOOLEAN /\ Started(w[1]) /\ Past(w[1]) /\ Resolves(Of(w[1]).asked)
    BY <1>1 DEF Lit, LightTypes, LateInPlace
  <2>2. Of(w[1]).asked \in Call
    <3>1. w[1][1] \in 1..Len(calls)
      BY <1>1, <2>1 DEF Sound, CallTypes, Started, Thread
    <3>2. calls[w[1][1]] \in CallRecord
      BY <1>1, <3>1 DEF Sound, CallTypes
    <3> QED
      BY <3>2 DEF Of, CallRecord
  <2> QED
    BY <1>3, <1>5, <2>1, <2>2 DEF Arrive
<1>6. ASSUME NEW l \in Light, Touch(l) PROVE WroteBy(Person)
  <2> DEFINE x == [who |-> Person, light |-> l]
  <2>1. /\ light' = [light EXCEPT ![l] = ~@] /\ writes' = writes \cup {x} /\ before' = before
        /\ x.who = Person /\ x.light = l
    BY <1>6 DEF Touch
  <2> HIDE DEF x
  <2>2. \A m \in Light : light'[m] = light[m] \/ m = l
    BY <1>1, <2>1 DEF LightTypes
  <2> QED
    BY <2>1, <2>2 DEF WroteBy
<1>7. ASSUME NEW t \in Thread, 
             \/ Refuse(t) \/ Fetch(t) \/ FailFetch(t) \/ LoseWrite(t) \/ Look(t)
             \/ Add(t) \/ Added(t) \/ Commit(t) \/ Push(t)
      PROVE  UNCHANGED <<light, before, writes>>
  BY <1>7 DEF Refuse, Fetch, FailFetch, LoseWrite, Look, Add, Added, Commit, Push, lights
<1> QED
  BY <1>2, <1>4, <1>5, <1>6, <1>7
  DEF EffectsNext, GiveUp, Edit, Kill, effectVars, lights

\* A light nobody has written since the latest call began is as it was.
Untouched == \A l \in Light : (\A x \in writes : x.light # l) => light[l] = before[l]

\* The latest call.
Latest == calls[Len(calls)]

\* A toggle has read what it inverts after the call began; once it has written the light,
\* the light is inverted unless somebody else has written it too.
TogglesGoOn ==
  calls # <<>> /\ Latest.asked.tool = "toggle" =>
    LET l == Target(Latest.asked)
        mine == thread[Current] IN
    /\ Latest.state = "running" /\ mine.at \in {"fetch", "write"} => \A x \in writes : x.who # Current
    /\ Latest.state = "running" /\ mine.at = "write" =>
         ((\A x \in writes : x.light # l) => mine.seen = before[l])
    /\ (Latest.state = "running" /\ mine.at = "look") \/ Latest.state = "completed" =>
         /\ Resolves(Latest.asked)
         /\ (\A x \in writes : x.light = l => x.who = Current) => light[l] = ~before[l]

\* Every step leaves the lights nobody has written as they were.
LEMMA UntouchedNext ==
  ASSUME Placing, Untouched, [EffectsNext]_effectVars
  PROVE  Untouched'
<1>1. CASE \E r \in Call : Begin(r)
  BY <1>1 DEF Begin, Untouched
<1>2. CASE ~\E r \in Call : Begin(r)
  <2>1. PICK who \in Thread \cup {Person} : WroteBy(who)
    BY <1>2, LightsStep
  <2> QED
    BY <2>1 DEF WroteBy, Untouched
<1> QED
  BY <1>1, <1>2

\* A request: its first attempt begins, with nothing written.
LEMMA BeginFacts ==
  ASSUME Placing, NEW r \in Call, Begin(r)
  PROVE  LET n == Len(calls) + 1 IN
         /\ n \in 1..MaxCalls /\ Len(calls') = n
         /\ calls'[n].asked = r /\ calls'[n].state \in {"running", "failed"}
         /\ \A m \in 1..Len(calls) : calls'[m] = calls[m]
         /\ Current' = <<n, 1>> /\ <<n, 1>> \in Thread
         /\ \A u \in Thread : u # <<n, 1>> => thread'[u] = thread[u]
         /\ calls'[n].state = "running" => thread'[<<n, 1>>].at = First(r)
         /\ \A u \in Thread : thread'[u].at \in {thread[u].at, First(r)}
<1> DEFINE n == Len(calls) + 1
           state == IF r.refused \/ (r.api /\ r.push /\ ~AllowPush) THEN "failed" ELSE "running"
           new == [asked |-> r, state |-> state, work |-> work]
           q == <<n, 1>>
           f == First(r)
<1>1. /\ calls \in Seq(CallRecord) /\ thread \in [Thread -> ThreadPlace]
      /\ calls' = Append(calls, new) /\ attempt' = 1 /\ Len(calls) < MaxCalls
  BY DEF Placing, Sound, CallTypes, Begin
<1>2. new.asked = r /\ new.state = state /\ state \in {"running", "failed"}
  OBVIOUS
<1>3. Len(calls') = n /\ calls'[n] = new /\ \A m \in 1..Len(calls) : calls'[m] = calls[m]
  <2> HIDE DEF new
  <2> QED
    BY <1>1
<1>4. thread' = IF state = "failed" THEN thread ELSE [thread EXCEPT ![q].at = f]
  BY <1>3 DEF Begin
<1>5. q \in Thread /\ n \in 1..MaxCalls
  BY <1>1, Bounds DEF Thread
<1>6. /\ \A u \in Thread : u # q => thread'[u] = thread[u]
      /\ state = "running" => thread'[q].at = f
      /\ thread'[q].at \in {thread[q].at, f}
  <2> HIDE DEF q, f, state
  <2> QED
    BY <1>1, <1>4, <1>5 DEF ThreadPlace
<1>7. Current' = q
  BY <1>1, <1>3 DEF Current
<1> QED
  BY <1>2, <1>3, <1>5, <1>6, <1>7

\* Every step keeps TogglesGoOn.
LEMMA TogglesNext ==
  ASSUME Placing, Untouched, TogglesGoOn, [EffectsNext]_effectVars
  PROVE  TogglesGoOn'
<1>1. Sound /\ CallTypes /\ ThreadsInPlace /\ Lit /\ CallTypes'
  BY PlacingNext DEF Placing, Sound
<1>2. CASE \E r \in Call : Begin(r)
  <2>1. PICK r \in Call : Begin(r)
    BY <1>2
  <2>2. Latest'.state \in {"running", "failed"} /\ (Latest'.state = "running" => thread'[Current'].at = First(r))
        /\ Latest'.asked = r
    BY <2>1, BeginFacts DEF Latest
  <2>3. writes' = {}
    BY <2>1 DEF Begin
  <2> QED
    BY <2>2, <2>3 DEF TogglesGoOn, First
<1>3. CASE ~(\E r \in Call : Begin(r)) /\ calls = <<>>
  <2>1. calls' = <<>>
    BY <1>1, <1>3, RecordsKept, EmptySeq DEF CallTypes
  <2> QED
    BY <2>1 DEF TogglesGoOn
<1>4. CASE ~(\E r \in Call : Begin(r)) /\ calls # <<>>
  <2> DEFINE n == Len(calls)
             c == Current
             r == calls[n].asked
             l == Target(r)
             mine == thread[c]
  <2>1. n \in 1..MaxCalls /\ attempt \in 1..MostRetries + 1 /\ c \in Thread /\ r \in Call
        /\ Of(c).asked = r /\ c = <<n, attempt>>
    BY <1>1, <1>4, CurrentFacts DEF CallRecord, Current
  <2>2. Len(calls') = n /\ calls'[n].asked = r
    BY <1>1, <1>4, <2>1, RecordsKept
  <2>3. Latest = calls[n] /\ Latest' = calls'[n] /\ Current' = <<n, attempt'>>
    BY <2>2 DEF Latest, Current
  <2>4. LatestGoesOn
    BY <1>4, LatestStep
  <2>5. PICK who \in Thread \cup {Person} : WroteBy(who)
    BY <1>4, LightsStep
  <2>6. c # Person /\ (who = c => Past(c) \/ Write(c) \/ UNCHANGED <<light, writes>>)
    BY <2>1, <2>5 DEF WroteBy, Person
  <2> SUFFICES ASSUME r.tool = "toggle" PROVE TogglesGoOn'
    BY <2>2, <2>3 DEF TogglesGoOn
  <2>7. Resolves(r) => l \in Light
    BY <2>1, TargetFacts
  <2>8. Past(c) <=> calls[n].state \in {"failed", "killed"}
    BY <2>1 DEF Past
  <2>9. First(r) = "fetch"
    BY DEF First
  <2>10. CASE attempt' = attempt + 1
    <3> DEFINE next == <<n, attempt + 1>>
    <3>1. /\ Current' = next /\ next \in Thread /\ thread'[next].at \in {"none", "fetch"}
          /\ Latest'.state = "running"
      BY <2>3, <2>4, <2>9, <2>10 DEF LatestGoesOn
    <3>2. next # Person /\ ~Started(next)
      BY <2>1 DEF Started, Person
    <3>3. \A x \in writes' : x.who # next
      BY <1>1, <2>5, <3>2 DEF WroteBy, Lit, WritersStarted
    <3> QED
      BY <3>1, <3>3 DEF TogglesGoOn
  <2>11. CASE attempt' = attempt /\ ~ThreadStep(c)
    <3>1. /\ Current' = c
          /\ calls'[n].state = "running" => calls[n].state = "running" /\ thread'[c] = thread[c]
          /\ calls'[n].state = "completed" => calls[n].state = "completed"
      BY <2>1, <2>3, <2>4, <2>11 DEF LatestGoesOn
    <3>2. calls'[n].state \in {"running", "completed"} => who # c \/ UNCHANGED <<light, writes>>
      BY <2>6, <2>8, <2>11, <3>1 DEF ThreadStep
    <3> QED
      BY SMTT(30), <1>4, <2>2, <2>3, <2>5, <2>7, <3>1, <3>2 DEF TogglesGoOn, WroteBy
  <2>12. CASE attempt' = attempt /\ ThreadStep(c)
    <3>1. /\ StepOf(c) /\ ~At(c, "none") /\ Fits(r, mine.at) /\ (Past(c) \/ (Waited /\ c = Current))
          /\ Waited /\ calls'[n].state = "completed" => thread'[c].at = "none"
      BY <1>1, <2>1, <2>12, ThreadSteps
    <3>2. CASE calls[n].state # "running"
      <4>1. calls'[n].state = calls[n].state /\ calls[n].state \in {"failed", "killed"}
        BY <2>1, <2>8, <3>1, <3>2 DEF StepOf, Waited
      <4> QED
        BY <2>3, <4>1 DEF TogglesGoOn
    <3>3. CASE calls[n].state = "running"
      <4>1. Waited /\ Current' = c /\ mine \in ThreadPlace
        BY <1>1, <1>4, <2>1, <2>3, <2>12, <3>3 DEF Waited, CallTypes
      <4>2. ASSUME NEW result \in {"error", "final"}, End(c, result) PROVE TogglesGoOn'
        <5>1. thread'[c].at = "none" /\ calls'[n].state # "completed"
          BY <1>1, <2>1, <3>1, <4>1, <4>2, EndIsStep
        <5> QED
          BY <2>3, <4>1, <5>1 DEF TogglesGoOn
      <4>3. CASE Fetch(c)
        <5> DEFINE seen == r.tool = "toggle" /\ light[l]
        <5>1. Continue(c, "write", seen) /\ Resolves(r) /\ UNCHANGED <<light, before, writes>>
              /\ mine.at = "fetch"
          BY <2>1, <4>3 DEF Fetch, lights, At
        <5>2. seen = light[l] /\ seen \in BOOLEAN
          BY <1>1, <2>7, <5>1 DEF Lit, LightTypes
        <5> HIDE DEF seen
        <5>3. thread'[c] = [at |-> "write", seen |-> seen] /\ calls' = calls
          BY <1>1, <2>1, <5>1 DEF Continue, CallTypes
        <5>4. \A x \in writes : x.who # c
          BY <1>4, <2>3, <3>3, <5>1 DEF TogglesGoOn
        <5>5. (\A x \in writes : x.light # l) => seen = before[l]
          BY <2>7, <5>1, <5>2 DEF Untouched
        <5> QED
          BY <2>3, <3>3, <4>1, <5>1, <5>3, <5>4, <5>5 DEF TogglesGoOn
      <4>4. CASE Write(c)
        <5>1. mine.at = "write" /\ Resolves(r) /\ light' = Written(c, mine.seen)
              /\ writes' = writes \cup Touched(c) /\ before' = before
              /\ (Continue(c, "look", mine.seen) \/ End(c, "error"))
          BY <2>1, <3>1, <4>4 DEF Write, At, Fits
        <5>2. CASE End(c, "error")
          BY <4>2, <5>2
        <5>3. CASE Continue(c, "look", mine.seen)
          <6>1. thread'[c] = [at |-> "look", seen |-> mine.seen] /\ calls' = calls
            BY <1>1, <2>1, <5>3 DEF Continue, CallTypes
          <6>2. light'[l] = ~mine.seen /\ mine.seen \in BOOLEAN
            BY <1>1, <2>1, <4>1, <5>1, WrittenFacts DEF Lit, ThreadPlace
          <6>3. (\A x \in writes : x.who # c)
                /\ ((\A x \in writes : x.light # l) => mine.seen = before[l])
            BY <1>4, <2>3, <3>3, <5>1 DEF TogglesGoOn
          <6>4. (\A x \in writes' : x.light = l => x.who = c) => light'[l] = ~before'[l]
            BY <5>1, <6>2, <6>3
          <6> QED
            BY <2>3, <3>3, <4>1, <5>1, <6>1, <6>4 DEF TogglesGoOn
        <5> QED
          BY <5>1, <5>2, <5>3
      <4>5. CASE Look(c)
        <5>1. mine.at = "look" /\ UNCHANGED <<light, before, writes>> /\ End(c, "ok")
          BY <4>5 DEF Look, lights, At
        <5>2. thread'[c].at = "none"
          BY <1>1, <2>1, <3>1, <5>1, EndIsStep
        <5> QED
          BY <1>4, <2>2, <2>3, <3>3, <4>1, <5>1, <5>2 DEF TogglesGoOn
      <4>6. ~Add(c) /\ ~Added(c) /\ ~Commit(c) /\ ~Push(c)
        BY <3>1 DEF Add, Added, Commit, Push, At, Fits
      <4>7. Refuse(c) \/ FailFetch(c) \/ LoseWrite(c) => End(c, "error") \/ End(c, "final")
        BY DEF Refuse, FailFetch, LoseWrite
      <4> QED
        BY <2>12, <4>2, <4>3, <4>4, <4>5, <4>6, <4>7 DEF ThreadStep
    <3> QED
      BY <3>2, <3>3
  <2> QED
    BY <2>4, <2>10, <2>11, <2>12 DEF LatestGoesOn
<1> QED
  BY <1>2, <1>3, <1>4

\* Once an attempt of a scene has set its lights they stay set, unless somebody else
\* writes one of them.
ScenesGoOn ==
  calls # <<>> /\ Latest.asked.tool = "scene" =>
    LET lit == Sets[Target(Latest.asked)]
        touched == \E x \in writes : x.light \in DOMAIN lit IN
    /\ Resolves(Latest.asked) /\ touched
         /\ (\A x \in writes : x.light \in DOMAIN lit => x.who \in Own)
         => \A l \in DOMAIN lit : light[l] = lit[l]
    /\ Latest.state = "completed" => Resolves(Latest.asked) /\ (DOMAIN lit # {} => touched)

\* Every step keeps ScenesGoOn.
LEMMA ScenesNext ==
  ASSUME Placing, ScenesGoOn, [EffectsNext]_effectVars
  PROVE  ScenesGoOn'
<1>1. Sound /\ CallTypes /\ ThreadsInPlace /\ Lit /\ CallTypes'
  BY PlacingNext DEF Placing, Sound
<1>2. CASE \E r \in Call : Begin(r)
  <2>1. PICK r \in Call : Begin(r)
    BY <1>2
  <2>2. Latest'.state \in {"running", "failed"}
    BY <2>1, BeginFacts DEF Latest
  <2>3. writes' = {}
    BY <2>1 DEF Begin
  <2> QED
    BY <2>2, <2>3 DEF ScenesGoOn
<1>3. CASE ~(\E r \in Call : Begin(r)) /\ calls = <<>>
  <2>1. calls' = <<>>
    BY <1>1, <1>3, RecordsKept, EmptySeq DEF CallTypes
  <2> QED
    BY <2>1 DEF ScenesGoOn
<1>4. CASE ~(\E r \in Call : Begin(r)) /\ calls # <<>>
  <2> DEFINE n == Len(calls)
             c == Current
             r == calls[n].asked
             lit == Sets[Target(r)]
             D == DOMAIN lit
  <2>1. n \in 1..MaxCalls /\ attempt \in 1..MostRetries + 1 /\ c \in Thread /\ r \in Call
        /\ Of(c).asked = r /\ c = <<n, attempt>>
    BY <1>1, <1>4, CurrentFacts DEF CallRecord, Current
  <2>2. Len(calls') = n /\ calls'[n].asked = r
    BY <1>1, <1>4, <2>1, RecordsKept
  <2>3. Latest = calls[n] /\ Latest' = calls'[n] /\ Own' = Own
    BY <2>2 DEF Latest, Own
  <2>4. PICK who \in Thread \cup {Person} : WroteBy(who)
    BY <1>4, LightsStep
  <2> SUFFICES ASSUME r.tool = "scene" PROVE ScenesGoOn'
    BY <2>2, <2>3 DEF ScenesGoOn
  <2>5. Resolves(r) => D \subseteq Light
    BY <2>1, TargetFacts
  <2>6. ASSUME Resolves(r), \E x \in writes' : x.light \in D,
               \A x \in writes' : x.light \in D => x.who \in Own
        PROVE  \A l \in D : light'[l] = lit[l]
    <3>1. CASE who \in Own /\ ~UNCHANGED <<light, writes>>
      <4>1. who[1] = n /\ who \in Thread /\ who # Person
        BY <2>1, <3>1 DEF Own, Person, Thread
      <4>2. PICK seen \in BOOLEAN : light' = Written(who, seen)
        BY <2>4, <3>1, <4>1 DEF WroteBy
      <4>3. Of(who).asked = r
        BY <4>1 DEF Of
      <4>4. Of(who).asked \in Call /\ Resolves(Of(who).asked) /\ Of(who).asked.tool # "toggle"
        BY <2>1, <2>6, <4>3
      <4>5. \A l \in DOMAIN Sets[Target(Of(who).asked)] :
              Written(who, seen)[l] = Sets[Target(Of(who).asked)][l]
        BY <1>1, <4>1, <4>4, WrittenFacts DEF Lit
      <4> QED
        BY <4>2, <4>3, <4>5
    <3>2. CASE who \notin Own \/ UNCHANGED <<light, writes>>
      <4>1. /\ \E x \in writes : x.light \in D
            /\ \A x \in writes : x.light \in D => x.who \in Own
            /\ \A l \in D : light'[l] = light[l]
        BY <2>4, <2>5, <2>6, <3>2 DEF WroteBy
      <4> QED
        BY <1>4, <2>3, <2>6, <4>1 DEF ScenesGoOn
    <3> QED
      BY <3>1, <3>2
  <2>7. ASSUME calls'[n].state = "completed"
        PROVE  Resolves(r) /\ (D # {} => \E x \in writes' : x.light \in D)
    <3>1. CASE calls[n].state = "completed"
      BY <1>4, <2>3, <2>4, <3>1 DEF ScenesGoOn, WroteBy
    <3>2. CASE calls[n].state # "completed"
      <4>1. attempt' = attempt /\ ThreadStep(c)
        BY <1>4, <2>7, <3>2, LatestStep DEF LatestGoesOn
      <4>2. StepOf(c) /\ ~At(c, "none") /\ Fits(r, thread[c].at)
        BY <1>1, <2>1, <4>1, ThreadSteps
      <4>3. Waited
        BY <2>1, <2>7, <3>2, <4>2 DEF StepOf
      <4>4. ~End(c, "error") /\ ~End(c, "final")
        BY <1>1, <2>1, <2>7, <4>2, <4>3, EndIsStep
      <4>5. calls' # calls
        BY <2>7, <3>2
      <4>6. Write(c)
        <5>1. ~Look(c) /\ ~Add(c) /\ ~Added(c) /\ ~Commit(c) /\ ~Push(c)
          BY <4>2 DEF Look, Add, Added, Commit, Push, At, Fits
        <5> QED
          BY <4>1, <4>4, <4>5, <5>1 DEF ThreadStep, Refuse, Fetch, FailFetch, LoseWrite, Continue
      <4>7. Resolves(r) /\ writes' = writes \cup Touched(c) /\ thread[c].seen \in BOOLEAN
        BY <1>1, <2>1, <4>2, <4>6 DEF Write, At, Fits, CallTypes, ThreadPlace
      <4>8. Touched(c) = {[who |-> c, light |-> l] : l \in D}
        BY <1>1, <2>1, <4>7, WrittenFacts DEF Lit
      <4>9. ASSUME NEW l \in D PROVE \E x \in writes' : x.light \in D
        <5>1. [who |-> c, light |-> l] \in writes' /\ [who |-> c, light |-> l].light = l
          BY <4>7, <4>8
        <5> QED
          BY <5>1
      <4> QED
        BY <4>7, <4>9
    <3> QED
      BY <3>1, <3>2
  <2> QED
    BY <2>2, <2>3, <2>6, <2>7 DEF ScenesGoOn
<1> QED
  BY <1>2, <1>3, <1>4

\* What has been added for a backup stays added, and what has been committed stays.
CommitsGoOn ==
  \A t \in Thread :
    /\ At(t, "commit") => index >= Of(t).work
    /\ At(t, "push") => head >= Of(t).work

\* The version a thread was asked to back up is no later than the workspace's.
LEMMA WorkOf ==
  ASSUME CallTypes, Stamps, Versions, NEW t \in Thread, Started(t)
  PROVE  Of(t).work \in Nat /\ Of(t).work <= work
<1>1. t[1] \in 1..Len(calls)
  BY DEF CallTypes, Started, Thread
<1>2. calls[t[1]] \in CallRecord
  BY <1>1 DEF CallTypes
<1> QED
  BY <1>1, <1>2 DEF Of, CallRecord, Stamps

\* Every step keeps CommitsGoOn.
LEMMA CommitsNext ==
  ASSUME Placing, CommitsGoOn, [EffectsNext]_effectVars
  PROVE  CommitsGoOn'
<1>1. Sound /\ CallTypes /\ ThreadsInPlace /\ Versions /\ Stamps /\ work \in Nat
  BY Bounds DEF Placing, Sound, Versions
<1>2. /\ Versions' /\ index' >= index /\ head' >= head
      /\ index \in Nat /\ head \in Nat /\ index' \in Nat /\ head' \in Nat
  BY <1>1, VersionsNext, Bounds DEF Versions
<1>3. Onwards
  BY <1>1, SoundNext
<1>4. ASSUME NEW u \in Thread, thread'[u].at = thread[u].at
      PROVE  /\ At(u, "commit")' => index' >= Of(u)'.work
             /\ At(u, "push")' => head' >= Of(u)'.work
  <2>1. CASE At(u, "commit") \/ At(u, "push")
    <3>1. Started(u)
      BY <1>1, <2>1 DEF ThreadsInPlace, Placed, At
    <3>2. Of(u)'.work = Of(u).work /\ Of(u).work \in Nat
      BY <1>1, <1>3, <3>1, WorkOf DEF Onwards
    <3> QED
      BY <1>2, <1>4, <3>2 DEF CommitsGoOn, At
  <2>2. CASE ~At(u, "commit") /\ ~At(u, "push")
    BY <1>4, <2>2 DEF At
  <2> QED
    BY <2>1, <2>2
<1>5. ASSUME NEW u \in Thread, thread'[u].at \notin {"commit", "push"}
      PROVE  /\ At(u, "commit")' => index' >= Of(u)'.work
             /\ At(u, "push")' => head' >= Of(u)'.work
  BY <1>5 DEF At
<1>6. \A r : First(r) \notin {"commit", "push"}
  BY DEF First
<1>7. ASSUME NEW u \in Thread, thread'[u].at # thread[u].at, thread'[u].at \in {"commit", "push"}
      PROVE  ThreadStep(u) /\ \/ Added(u) /\ index' = work /\ thread'[u].at = "commit"
                              \/ Commit(u) /\ head' = index /\ thread'[u].at = "push" /\ index' = index
  <2>1. ~\E r \in Call : Begin(r)
    BY ZenonT(30), <1>6, <1>7, BeginFacts
    DEF Begin
  <2>2. ~GiveUp
    <3>1. Person \notin Thread
      BY DEF Person, Thread
    <3> QED
      BY <1>1, <1>6, <1>7, <3>1, GiveUpIsStep DEF StepOf
  <2>3. ASSUME NEW t \in Thread, ThreadStep(t) PROVE t = u
    BY <1>1, <1>6, <1>7, <2>3, ThreadSteps DEF StepOf
  <2>4. ~Kill
    BY <1>1, <1>7, SoundKill DEF At
  <2>5. ThreadStep(u)
    BY <1>7, <2>1, <2>2, <2>3, <2>4
    DEF EffectsNext, ThreadStep, Arrive, Touch, Edit, effectVars
  <2>6. ~At(u, "none") /\ \A result \in {"ok", "error", "final"} : ~End(u, result)
    BY <1>1, <1>7, <2>5, ThreadSteps, EndIsStep
  <2>7. ASSUME NEW at, NEW seen, Continue(u, at, seen) PROVE thread'[u].at = at
    BY <1>1, <2>7 DEF Continue, CallTypes
  <2> QED
    BY <1>7, <2>5, <2>6, <2>7
    DEF ThreadStep, Refuse, Fetch, FailFetch, Write, LoseWrite, Look, Add, Added, Commit, Push
<1>8. ASSUME NEW u \in Thread, thread'[u].at # thread[u].at, thread'[u].at \in {"commit", "push"}
      PROVE  /\ At(u, "commit")' => index' >= Of(u)'.work
             /\ At(u, "push")' => head' >= Of(u)'.work
  <2>1. Started(u)
    BY <1>1, <1>7, <1>8, ThreadSteps
  <2>2. Of(u)'.work = Of(u).work /\ Of(u).work \in Nat /\ Of(u).work <= work
    BY <1>1, <1>3, <2>1, WorkOf DEF Onwards
  <2>3. Commit(u) => index >= Of(u).work
    BY DEF CommitsGoOn, Commit
  <2> QED
    BY <1>1, <1>2, <1>7, <1>8, <2>2, <2>3 DEF At
<1> QED
  BY <1>4, <1>5, <1>8 DEF CommitsGoOn

\* Every step keeps BackupsHold.
LEMMA BackupsNext ==
  ASSUME Placing, CommitsGoOn, BackupsHold, [EffectsNext]_effectVars
  PROVE  BackupsHold'
<1>1. Sound /\ CallTypes /\ ThreadsInPlace /\ Versions /\ Stamps /\ CallTypes'
  BY PlacingNext DEF Placing, Sound
<1>2. /\ head' >= head /\ remote' >= remote /\ index \in Nat
      /\ head \in Nat /\ remote \in Nat /\ remote' \in Nat /\ head' \in Nat
  BY <1>1, VersionsNext, Bounds DEF Versions
<1>3. DOMAIN calls = 1..Len(calls) /\ DOMAIN calls' = 1..Len(calls') /\ Len(calls) \in Nat
      /\ \A n \in 1..Len(calls) : calls[n] \in CallRecord /\ calls[n].work \in Nat
  <2>1. \A n \in 1..Len(calls) : calls[n] \in CallRecord
    BY <1>1 DEF CallTypes
  <2> QED
    BY <1>1, <2>1 DEF CallTypes, CallRecord
<1> SUFFICES ASSUME NEW n \in 1..Len(calls'), calls'[n].asked.tool = "backup",
                    calls'[n].state = "completed"
             PROVE  /\ head' >= calls'[n].work
                    /\ calls'[n].asked.push => remote' >= calls'[n].work
  BY <1>3 DEF BackupsHold
<1>4. n \in 1..Len(calls) /\ calls'[n].asked = calls[n].asked /\ calls'[n].work = calls[n].work
  <2>1. CASE \E r \in Call : Begin(r)
    <3>1. PICK r \in Call : Begin(r)
      BY <2>1
    <3>2. /\ Len(calls') = Len(calls) + 1
          /\ calls'[Len(calls) + 1].state \in {"running", "failed"}
          /\ \A m \in 1..Len(calls) : calls'[m] = calls[m]
      BY <3>1, BeginFacts
    <3>3. n \in 1..Len(calls)
      BY <1>3, <3>2
    <3> QED
      BY <3>2, <3>3
  <2>2. CASE ~\E r \in Call : Begin(r)
    BY <1>1, <2>2, RecordsKept
  <2> QED
    BY <2>1, <2>2
<1>5. CASE calls[n].state = "completed"
  BY <1>2, <1>3, <1>4, <1>5 DEF BackupsHold
<1>6. CASE calls[n].state # "completed"
  <2> DEFINE c == Current
  <2>1. ~\E r \in Call : Begin(r)
    BY <1>3, <1>4, <1>6, BeginFacts
  <2>2. calls' # calls
    BY <1>6
  <2>3. ~Kill
    <3> DEFINE s == IF Latest.state = "running" THEN "killed" ELSE Latest.state
    <3>1. ASSUME Kill PROVE FALSE
      <4>1. calls' = [calls EXCEPT ![Len(calls)].state = s]
        BY <3>1 DEF Kill, Latest
      <4>2. calls \in Seq(CallRecord)
        BY <1>1 DEF CallTypes
      <4>3. s = "completed" => Latest.state = "completed"
        OBVIOUS
      <4> HIDE DEF s
      <4>4. calls'[n] = calls[n] \/ (n = Len(calls) /\ calls'[n] = [calls[n] EXCEPT !.state = s])
        BY <1>4, <4>1, <4>2
      <4> QED
        BY <1>3, <1>4, <1>6, <4>3, <4>4 DEF Latest, CallRecord
    <3> QED
      BY <3>1
  <2>4. ~GiveUp
    <3>1. ASSUME GiveUp PROVE FALSE
      <4>1. StepOf(Person) /\ calls'[Len(calls)].state # "completed"
        BY <1>1, <3>1, GiveUpIsStep
      <4> QED
        BY <1>3, <1>4, <1>6, <4>1 DEF StepOf
    <3> QED
      BY <3>1
  <2>5. PICK t \in Thread : ThreadStep(t)
    BY <2>1, <2>2, <2>3, <2>4 DEF EffectsNext, ThreadStep, Arrive, Touch, Edit, effectVars
  <2>6. /\ StepOf(t) /\ ~At(t, "none") /\ Fits(Of(t).asked, thread[t].at)
        /\ Waited /\ calls'[Len(calls)].state = "completed" => t = Current
    BY <1>1, <2>5, ThreadSteps
  <2>7. n = Len(calls) /\ Waited /\ t = Current /\ Of(t) = calls[n]
    <3>1. n = Len(calls) /\ Waited
      BY <1>4, <1>6, <2>6 DEF StepOf
    <3>2. t = Current
      BY <2>6, <3>1
    <3> QED
      BY <3>1, <3>2 DEF Current, Of
  <2>8. ~End(t, "error") /\ ~End(t, "final")
    BY <1>1, <2>6, <2>7, EndIsStep
  <2>9. ~Refuse(t) /\ ~Fetch(t) /\ ~FailFetch(t) /\ ~Write(t) /\ ~LoseWrite(t) /\ ~Look(t)
    BY <1>4, <2>6, <2>7 DEF Refuse, Fetch, FailFetch, Write, LoseWrite, Look, At, Fits
  <2>10. ~Add(t) /\ ~Added(t)
    BY <2>2, <2>8 DEF Add, Added, Continue
  <2>11. CASE Commit(t)
    <3>1. head' = index /\ ~calls[n].asked.push /\ index >= calls[n].work
      BY <2>2, <2>7, <2>8, <2>11 DEF Commit, Continue, CommitsGoOn
    <3> QED
      BY <1>4, <3>1, <1>2, <1>3
  <2>12. CASE Push(t)
    <3>1. remote' = head /\ head >= calls[n].work
      BY <2>2, <2>7, <2>8, <2>12 DEF Push, CommitsGoOn
    <3> QED
      BY <1>2, <1>3, <1>4, <3>1
  <2> QED
    BY <2>5, <2>9, <2>10, <2>11, <2>12 DEF ThreadStep
<1> QED
  BY <1>5, <1>6

\* A toggle that is answered as completed has inverted the light (LoneTogglesInvert).
THEOREM TogglesInvert == EffectsSpec => []LoneTogglesInvert
<1>1. EffectsInit => Untouched /\ TogglesGoOn
  BY DEF EffectsInit, Untouched, TogglesGoOn
<1>2. Placing /\ Untouched /\ TogglesGoOn /\ [EffectsNext]_effectVars => (Untouched /\ TogglesGoOn)'
  BY UntouchedNext, TogglesNext
<1>3. Placing /\ TogglesGoOn => LoneTogglesInvert
  <2> SUFFICES ASSUME Placing, TogglesGoOn, Completed("toggle") PROVE LoneTogglesInvert
    BY DEF LoneTogglesInvert
  <2>1. calls # <<>> /\ Latest.state = "completed" /\ Of(Current) = Latest
        /\ Latest.asked.tool = "toggle"
    BY DEF Completed, Of, Current, Latest
  <2> DEFINE l == Target(Latest.asked)
  <2>2. (\A x \in writes : x.light = l => x.who = Current) => light[l] = ~before[l]
    BY <2>1 DEF TogglesGoOn
  <2>3. ASSUME Writers({l}) \subseteq {Current}, NEW x \in writes, x.light = l PROVE x.who = Current
    <3>1. x.who \in Writers({l})
      BY <2>3 DEF Writers
    <3> QED
      BY <2>3, <3>1
  <2> QED
    BY <2>1, <2>2, <2>3 DEF LoneTogglesInvert
<1> QED
  BY <1>1, <1>2, <1>3, EffectsInvariant, PTL DEF EffectsSpec

\* The lights of a completed scene are set, and stay set (ScenesHold).
THEOREM ScenesStay == EffectsSpec => []ScenesHold
<1>1. EffectsInit => ScenesGoOn
  BY DEF EffectsInit, ScenesGoOn
<1>2. Placing /\ ScenesGoOn /\ [EffectsNext]_effectVars => ScenesGoOn'
  BY ScenesNext
<1>3. Placing /\ ScenesGoOn => ScenesHold
  <2> SUFFICES ASSUME Placing, ScenesGoOn, Completed("scene") PROVE ScenesHold
    BY DEF ScenesHold
  <2>1. calls # <<>> /\ Latest.state = "completed" /\ Of(Current) = Latest
        /\ Latest.asked.tool = "scene"
    BY DEF Completed, Of, Current, Latest
  <2> DEFINE D == DOMAIN Sets[Target(Latest.asked)]
  <2>2. ASSUME Writers(D) \subseteq Own, NEW x \in writes, x.light \in D PROVE x.who \in Own
    <3>1. x.who \in Writers(D)
      BY <2>2 DEF Writers
    <3> QED
      BY <2>2, <3>1
  <2>3. Resolves(Latest.asked) /\ (D # {} => \E x \in writes : x.light \in D)
    BY <2>1 DEF ScenesGoOn
  <2>4. (\E x \in writes : x.light \in D) /\ (\A x \in writes : x.light \in D => x.who \in Own)
          => \A l \in D : light[l] = Sets[Target(Latest.asked)][l]
    BY <2>1, <2>3 DEF ScenesGoOn
  <2> QED
    BY <2>1, <2>2, <2>3, <2>4 DEF ScenesHold
<1> QED
  BY <1>1, <1>2, <1>3, EffectsInvariant, PTL DEF EffectsSpec

\* A completed backup holds what it was asked to back up (BackupsHold).
THEOREM BackupsStay == EffectsSpec => []BackupsHold
<1>1. EffectsInit => CommitsGoOn /\ BackupsHold
  BY DEF EffectsInit, CommitsGoOn, BackupsHold, At
<1>2. Placing /\ CommitsGoOn /\ BackupsHold /\ [EffectsNext]_effectVars => (CommitsGoOn /\ BackupsHold)'
  BY CommitsNext, BackupsNext
<1> QED
  BY <1>1, <1>2, EffectsInvariant, PTL DEF EffectsSpec
=============================================================================
