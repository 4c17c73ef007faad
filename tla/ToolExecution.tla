--------------------------- MODULE ToolExecution ---------------------------
(***************************************************************************)
(* ToolRegistry.execute (mordecai_core/tool_registry.py): one call          *)
(* validates the request, runs the tool's handler in a worker thread under  *)
(* a timeout, retries, publishes telemetry and hands one row to the         *)
(* execution recorder, StateStore.append_tool_execution.                    *)
(*                                                                         *)
(* Every caller of execute is an `async def` handler that does not await,   *)
(* so callers run one after the other on the event loop.  Worker threads    *)
(* do not: _run_with_timeout gives up on a slow handler without stopping    *)
(* it, and the abandoned handler goes on beside the retry, and beside later *)
(* executions.                                                             *)
(***************************************************************************)
EXTENDS Integers, Sequences, FiniteSets

CONSTANTS
  Executions,   \* execution ids
  MaxRetries,   \* the largest max_retries a request carries (the API caps it at 3)
  Requests,     \* the requests callers make
  MaxFaults     \* bound: how often the recorder may raise in a behaviour

VARIABLES
  phase,        \* where execute(e) is
  request,      \* what the caller asked for
  attempts,     \* the local `attempts`
  lastError,    \* the code of the local `last_error`
  cancelled,    \* RuntimeContext.cancellation is set
  worker,       \* the worker thread of each attempt
  abandoned,    \* attempts whose future timed out
  acted,        \* attempts whose handler has had its side effect
  completedEvents, failedEvents,  \* tool.execution.completed / .failed published
  rows,         \* rows the recorder stored for e
  faults        \* recorder failures left

caller == <<phase, request, attempts, lastError>>
threads == <<worker, acted>>
telemetry == <<completedEvents, failedEvents, rows, faults>>
vars == <<phase, request, attempts, lastError, cancelled, worker, abandoned,
          acted, completedEvents, failedEvents, rows, faults>>

(***************************************************************************)
(* What the caller asks for, and how validation judges it.                  *)
(***************************************************************************)
Verdict == {"ok", "PermissionDenied", "ValidationFailure"}
Request == [permitted : BOOLEAN, safeModeDenies : BOOLEAN, wellFormed : BOOLEAN,
            retries : 0..MaxRetries]

ASSUME BoundsAssumption == MaxRetries \in Nat /\ MaxFaults \in Nat
ASSUME RequestsAssumption == Requests \subseteq Request

\* A request nobody has made yet.
Unmade == [permitted |-> FALSE, safeModeDenies |-> FALSE, wellFormed |-> FALSE,
           retries |-> 0]

\* A mutated form: the safe-mode check is lost.
VerdictNoSafeMode(r) ==
  IF ~r.permitted THEN "PermissionDenied"
  ELSE IF ~r.wellFormed THEN "ValidationFailure" ELSE "ok"

\* _validate_request: permissions, then safe mode, then the arguments.
VerdictOf(r) ==
  IF ~r.permitted \/ r.safeModeDenies THEN "PermissionDenied"
  ELSE IF ~r.wellFormed THEN "ValidationFailure" ELSE "ok"

Phase == {"new", "looping", "waiting", "closing", "returned", "raised"}
Attempt == 1..(MaxRetries + 1)

\* "retryable": ToolExecutionFailure with retryable=True; "fatal": without;
\* "broken": any other exception of the handler, or of the recorder.
FailureKind == {"retryable", "fatal", "broken"}
Finished == {"ok"} \cup FailureKind
Running == {"running", "acted"}
ThreadState == {"idle", "queued", "dropped"} \cup Running \cup Finished
ErrorCode == {"none", "PermissionDenied", "ValidationFailure", "ExecutionCancelled",
              "ToolTimeout", "ExecutionFailed", "HandlerFailure"}
Status == {"completed", "failed", "cancelled"}
Row == [status : Status, attempts : 1..(MaxRetries + 1)]

Active(e) == phase[e] \in {"looping", "waiting", "closing"}
Over(e) == phase[e] \in {"returned", "raised"}

\* A mutated form: one attempt too many.
MayRetryOneMore(e, kind) ==
  attempts[e] <= request[e].retries + 1 /\ kind \in {"retryable", "broken"}
\* A mutated form: a failure the tool marked final is tried again.
MayRetryFatal(e, kind) == attempts[e] <= request[e].retries

\* `attempts <= request.max_retries` and the failure can be tried again.
MayRetry(e, kind) ==
  attempts[e] <= request[e].retries /\ kind \in {"retryable", "broken"}

\* The loop goes round again, or falls out to the failed report.
AfterFailure(e, kind, code) ==
  /\ lastError' = [lastError EXCEPT ![e] = code]
  /\ phase' = [phase EXCEPT ![e] = IF MayRetry(e, kind) THEN "looping" ELSE "closing"]

(***************************************************************************)
(* The caller's thread.                                                     *)
(***************************************************************************)

\* execute() publishes tool.execution.started and validates the request.
Start(e, r) ==
  /\ phase[e] = "new"
  /\ \A d \in Executions : ~Active(d)
  /\ request' = [request EXCEPT ![e] = r]
  /\ IF VerdictOf(r) = "ok"
       THEN /\ phase' = [phase EXCEPT ![e] = "looping"]
            /\ UNCHANGED lastError
       ELSE /\ phase' = [phase EXCEPT ![e] = "closing"]
            /\ lastError' = [lastError EXCEPT ![e] = VerdictOf(r)]
  /\ UNCHANGED <<attempts, cancelled, abandoned, threads, telemetry>>

CancellationSeen(e) == cancelled[e]

\* attempts += 1, then the cancellation check, then the handler is submitted.
BeginAttempt(e) ==
  LET n == attempts[e] + 1 IN
  /\ phase[e] = "looping"
  /\ attempts' = [attempts EXCEPT ![e] = n]
  /\ IF CancellationSeen(e)
       THEN /\ phase' = [phase EXCEPT ![e] = "closing"]
            /\ lastError' = [lastError EXCEPT ![e] = "ExecutionCancelled"]
            /\ UNCHANGED worker
       ELSE /\ phase' = [phase EXCEPT ![e] = "waiting"]
            /\ worker' = [worker EXCEPT ![e][n] = "queued"]
            /\ UNCHANGED lastError
  /\ UNCHANGED <<request, cancelled, abandoned, acted, telemetry>>

\* The future's exception reaches the two except clauses of the loop.
HandlerFailed(e) ==
  /\ phase[e] = "waiting"
  /\ \E kind \in FailureKind :
       /\ worker[e][attempts[e]] = kind
       /\ AfterFailure(e, kind,
            IF kind = "broken" THEN "ExecutionFailed" ELSE "HandlerFailure")
  /\ UNCHANGED <<request, attempts, cancelled, abandoned, threads, telemetry>>

\* A mutated form: execute waits for the handler however long it takes.
NeverTimeOut(e) == FALSE /\ UNCHANGED vars

\* A mutated form: the future is not cancelled.
TimeOutWithoutCancel(e) ==
  /\ phase[e] = "waiting"
  /\ worker[e][attempts[e]] \in {"queued"} \cup Running
  /\ abandoned' = [abandoned EXCEPT ![e] = @ \cup {attempts[e]}]
  /\ AfterFailure(e, "retryable", "ToolTimeout")
  /\ UNCHANGED <<request, attempts, cancelled, threads, telemetry>>

\* future.result(timeout) raises; cancel() drops a handler that has not started
\* and leaves one that has.
TimeOut(e) ==
  LET n == attempts[e] IN
  /\ phase[e] = "waiting"
  /\ worker[e][n] \in {"queued"} \cup Running
  /\ abandoned' = [abandoned EXCEPT ![e] = @ \cup {n}]
  /\ worker' = [worker EXCEPT ![e][n] = IF @ = "queued" THEN "dropped" ELSE @]
  /\ AfterFailure(e, "retryable", "ToolTimeout")
  /\ UNCHANGED <<request, attempts, cancelled, acted, telemetry>>

\* A mutated form: the `return result` after the recorder is lost.
CompleteAndFallThrough(e) ==
  /\ phase[e] = "waiting"
  /\ worker[e][attempts[e]] = "ok"
  /\ completedEvents' = [completedEvents EXCEPT ![e] = @ + 1]
  /\ rows' = [rows EXCEPT ![e] =
                Append(@, [status |-> "completed", attempts |-> attempts[e]])]
  /\ phase' = [phase EXCEPT ![e] = "closing"]
  /\ UNCHANGED <<request, attempts, lastError, cancelled, abandoned, threads,
                 failedEvents, faults>>

\* The handler returned: completed is published and the row is stored.
Complete(e) ==
  /\ phase[e] = "waiting"
  /\ worker[e][attempts[e]] = "ok"
  /\ completedEvents' = [completedEvents EXCEPT ![e] = @ + 1]
  /\ rows' = [rows EXCEPT ![e] =
                Append(@, [status |-> "completed", attempts |-> attempts[e]])]
  /\ phase' = [phase EXCEPT ![e] = "returned"]
  /\ UNCHANGED <<request, attempts, lastError, cancelled, abandoned, threads,
                 failedEvents, faults>>

\* The handler returned and completed is published, but the recorder raises
\* inside the same try: the success is handled as a failure of the handler.
CompleteUnrecorded(e) ==
  /\ phase[e] = "waiting"
  /\ worker[e][attempts[e]] = "ok"
  /\ faults > 0
  /\ faults' = faults - 1
  /\ completedEvents' = [completedEvents EXCEPT ![e] = @ + 1]
  /\ AfterFailure(e, "broken", "ExecutionFailed")
  /\ UNCHANGED <<request, attempts, cancelled, abandoned, threads, failedEvents, rows>>

\* The status of a result that is not completed.
FailureStatus(e) ==
  IF lastError[e] = "ExecutionCancelled" THEN "cancelled" ELSE "failed"
\* attempts=max(attempts, 1): a request refused before the loop reports one.
ReportedAttempts(e) == IF attempts[e] = 0 THEN 1 ELSE attempts[e]

\* failed is published and the failed or cancelled result is recorded.
Close(e) ==
  /\ phase[e] = "closing"
  /\ failedEvents' = [failedEvents EXCEPT ![e] = @ + 1]
  /\ rows' = [rows EXCEPT ![e] =
                Append(@, [status |-> FailureStatus(e), attempts |-> ReportedAttempts(e)])]
  /\ phase' = [phase EXCEPT ![e] = "returned"]
  /\ UNCHANGED <<request, attempts, lastError, cancelled, abandoned, threads,
                 completedEvents, faults>>

\* The recorder raises outside the try: the exception leaves execute.
CloseUnrecorded(e) ==
  /\ phase[e] = "closing"
  /\ faults > 0
  /\ faults' = faults - 1
  /\ failedEvents' = [failedEvents EXCEPT ![e] = @ + 1]
  /\ phase' = [phase EXCEPT ![e] = "raised"]
  /\ UNCHANGED <<request, attempts, lastError, cancelled, abandoned, threads,
                 completedEvents, rows>>

(***************************************************************************)
(* The worker threads, and the holder of the cancellation event.            *)
(***************************************************************************)
BeginHandler(e, n) ==
  /\ worker[e][n] = "queued"
  /\ worker' = [worker EXCEPT ![e][n] = "running"]
  /\ UNCHANGED <<caller, cancelled, abandoned, acted, telemetry>>

Act(e, n) ==
  /\ worker[e][n] = "running"
  /\ worker' = [worker EXCEPT ![e][n] = "acted"]
  /\ acted' = [acted EXCEPT ![e] = @ \cup {n}]
  /\ UNCHANGED <<caller, cancelled, abandoned, telemetry>>

\* A handler returns after its side effect, or raises before or after it.
EndHandler(e, n) ==
  /\ worker[e][n] \in Running
  /\ \E result \in Finished :
       /\ result = "ok" => worker[e][n] = "acted"
       /\ worker' = [worker EXCEPT ![e][n] = result]
  /\ UNCHANGED <<caller, cancelled, abandoned, acted, telemetry>>

\* Whoever holds the request's cancellation event sets it.
Cancel(e) ==
  /\ ~cancelled[e] /\ ~Over(e)
  /\ cancelled' = [cancelled EXCEPT ![e] = TRUE]
  /\ UNCHANGED <<caller, abandoned, threads, telemetry>>

(***************************************************************************)
(* The specification.                                                       *)
(***************************************************************************)
Init ==
  /\ phase = [e \in Executions |-> "new"]
  /\ request = [e \in Executions |-> Unmade]
  /\ attempts = [e \in Executions |-> 0]
  /\ lastError = [e \in Executions |-> "none"]
  /\ cancelled = [e \in Executions |-> FALSE]
  /\ worker = [e \in Executions |-> [n \in Attempt |-> "idle"]]
  /\ abandoned = [e \in Executions |-> {}]
  /\ acted = [e \in Executions |-> {}]
  /\ completedEvents = [e \in Executions |-> 0]
  /\ failedEvents = [e \in Executions |-> 0]
  /\ rows = [e \in Executions |-> <<>>]
  /\ faults = MaxFaults

CallerStep(e) ==
  \/ BeginAttempt(e) \/ HandlerFailed(e) \/ TimeOut(e) \/ Complete(e)
  \/ CompleteUnrecorded(e) \/ Close(e) \/ CloseUnrecorded(e)

Next ==
  \E e \in Executions :
    \/ \E r \in Requests : Start(e, r)
    \/ BeginAttempt(e)
    \/ HandlerFailed(e)
    \/ TimeOut(e)
    \/ Complete(e)
    \/ CompleteUnrecorded(e)
    \/ Close(e)
    \/ CloseUnrecorded(e)
    \/ Cancel(e)
    \/ \E n \in Attempt : BeginHandler(e, n) \/ Act(e, n) \/ EndHandler(e, n)

\* The caller's thread keeps running and its timeout (0 < t <= 60 s) fires; a
\* handler may hang for ever.
Fairness == \A e \in Executions : WF_vars(CallerStep(e))

Spec == Init /\ [][Next]_vars
FairSpec == Spec /\ Fairness
(***************************************************************************)
(* Properties.                                                              *)
(***************************************************************************)
\* What the caller's permissions, safe mode and the tool's schema allow.
Granted(r) == r.permitted /\ ~r.safeModeDenies /\ r.wellFormed

\* Every variable has its type; attempts stay within the API's cap on retries.
TypeOK ==
  /\ phase \in [Executions -> Phase]
  /\ request \in [Executions -> Request]
  /\ attempts \in [Executions -> 0..(MaxRetries + 1)]
  /\ lastError \in [Executions -> ErrorCode]
  /\ cancelled \in [Executions -> BOOLEAN]
  /\ worker \in [Executions -> [Attempt -> ThreadState]]
  /\ abandoned \in [Executions -> SUBSET Attempt]
  /\ acted \in [Executions -> SUBSET Attempt]
  /\ completedEvents \in [Executions -> Nat]
  /\ failedEvents \in [Executions -> 0..1]
  /\ rows \in [Executions -> Seq(Row)]
  /\ faults \in 0..MaxFaults

\* execute is waiting for attempt n of e.
Awaited(e, n) == phase[e] = "waiting" /\ n = attempts[e]

\* A handler that has yet to begin is the one execute waits for, and one that is
\* still going is that one or timed out (_run_with_timeout and future.cancel): an
\* execution without a timeout leaves nothing behind, no two attempts of it
\* overlap, and nothing begins after the answer.
OnlyTimedOutHandlersOutlive ==
  \A e \in Executions, n \in Attempt :
    /\ worker[e][n] = "queued" => Awaited(e, n)
    /\ worker[e][n] \in Running => Awaited(e, n) \/ n \in abandoned[e]

\* Attempt n of e gave execute a reason to try again.
MayBeRepeated(e, n) ==
  \/ n \in abandoned[e]
  \/ worker[e][n] \in {"retryable", "broken"}
  \/ worker[e][n] = "ok" /\ faults < MaxFaults

\* The side effect is repeated only for a reason the retry policy names: every
\* attempt before the last one timed out, raised something that may be retried,
\* or succeeded without its row being stored (the except clauses of execute).
RetriesAreJustified ==
  \A e \in Executions, n \in Attempt :
    n < attempts[e] => MayBeRepeated(e, n)

\* A request asks for at most max_retries + 1 runs of the handler, whatever mix of
\* timeouts, failures and recorder failures it meets.
AttemptsWithinBudget ==
  \A e \in Executions : attempts[e] <= request[e].retries + 1

\* The audit trail tells the truth (_record_execution): an answered call has one
\* row; a completed row means the last attempt had its side effect and no failure
\* was announced; a failed row means failure was announced, and success too only
\* if the recorder raised.
AuditTellsTheTruth ==
  \A e \in Executions :
    /\ phase[e] = "returned" => Len(rows[e]) = 1
    /\ phase[e] # "returned" => rows[e] = <<>>
    /\ phase[e] = "returned" =>
         IF rows[e][1].status = "completed"
           THEN attempts[e] \in acted[e] /\ failedEvents[e] = 0
                /\ rows[e][1].attempts = attempts[e]
           ELSE /\ failedEvents[e] = 1
                /\ completedEvents[e] > 0 => faults < MaxFaults

(***************************************************************************)
(* The inductive strengthening: what each phase knows of the attempts, the  *)
(* threads and the rows.                                                    *)
(***************************************************************************)
LoopState ==
  \A e \in Executions :
    /\ phase[e] \in {"looping", "waiting"} => Granted(request[e])
    /\ phase[e] = "looping" => attempts[e] <= request[e].retries
    /\ phase[e] = "waiting" =>
         /\ attempts[e] \in 1..(request[e].retries + 1)
         /\ worker[e][attempts[e]] \in {"queued"} \cup Running \cup Finished
         /\ attempts[e] \notin abandoned[e]
    /\ phase[e] = "new" => attempts[e] = 0 /\ request[e] = Unmade
    /\ phase[e] = "closing" /\ ~Granted(request[e]) =>
         lastError[e] # "ExecutionCancelled"

ThreadHistory ==
  \A e \in Executions, n \in Attempt :
    /\ n > attempts[e] => worker[e][n] = "idle" /\ n \notin abandoned[e]
    /\ phase[e] = "looping" /\ n <= attempts[e] => MayBeRepeated(e, n)
    /\ worker[e][n] \in Running \cup Finished => Granted(request[e])
    /\ worker[e][n] \in {"acted", "ok"} => n \in acted[e]

UnansweredState ==
  \A e \in Executions :
    /\ phase[e] = "new" => completedEvents[e] = 0
    /\ phase[e] \notin {"returned", "raised"} => failedEvents[e] = 0
    /\ phase[e] \notin {"returned"} /\ completedEvents[e] > 0 => faults < MaxFaults

IInv ==
  /\ TypeOK
  /\ LoopState /\ ThreadHistory /\ UnansweredState
  /\ OnlyTimedOutHandlersOutlive
  /\ RetriesAreJustified
  /\ AttemptsWithinBudget
  /\ AuditTellsTheTruth

\* Once the cancellation event is set no further handler is begun by the loop
\* (_check_cancellation before each attempt).
NoAttemptAfterCancel ==
  [][\A e \in Executions, n \in Attempt :
       cancelled[e] /\ worker[e][n] = "idle" => worker'[e][n] = "idle"]_vars

\* execute comes back to its caller even when the handler hangs for ever.
CallerIsAnswered == \A e \in Executions : Active(e) ~> Over(e)

(***************************************************************************)
(* The contract this implements.                                            *)
(***************************************************************************)
LifeOf(e) ==
  CASE phase[e] = "new" -> "none"
    [] phase[e] = "raised" -> "raised"
    [] phase[e] = "returned" -> rows[e][1].status
    [] OTHER -> IF Granted(request[e]) THEN "granted" ELSE "refused"
HasRun(e) == \E n \in Attempt : worker[e][n] \in Running \cup Finished

lifeBar == [e \in Executions |-> LifeOf(e)]
ranBar == [e \in Executions |-> HasRun(e)]
Contract == INSTANCE ExecutionContract WITH life <- lifeBar, ran <- ranBar

\* execute implements ExecutionContract: one grant, one answer, and no handler
\* begun outside a granted, unanswered request.
ImplementsContract == Contract!Spec
=============================================================================
