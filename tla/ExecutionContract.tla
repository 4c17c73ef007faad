------------------------- MODULE ExecutionContract -------------------------
(***************************************************************************)
(* What a caller of ToolRegistry.execute may rely on, without attempts,     *)
(* threads or events: a request is granted or refused once, its handler is  *)
(* only ever begun while a granted request is open, and the request is      *)
(* answered once, for good.                                                *)
(***************************************************************************)
CONSTANT Executions

VARIABLES
  life,   \* none, granted or refused while open, then the answer
  ran     \* the tool's handler has been begun

vars == <<life, ran>>

Open == {"granted", "refused"}
Answer == {"completed", "failed", "cancelled", "raised"}

Admit(e, verdict) ==
  /\ life[e] = "none"
  /\ life' = [life EXCEPT ![e] = verdict]
  /\ UNCHANGED ran

Run(e) ==
  /\ life[e] = "granted"
  /\ ran' = [ran EXCEPT ![e] = TRUE]
  /\ UNCHANGED life

\* A completed answer needs a run; a refused request can only fail.
Reply(e, answer) ==
  /\ life[e] \in Open
  /\ answer = "completed" => ran[e]
  /\ life[e] = "refused" => answer \in {"failed", "raised"}
  /\ life' = [life EXCEPT ![e] = answer]
  /\ UNCHANGED ran

Init ==
  /\ life = [e \in Executions |-> "none"]
  /\ ran = [e \in Executions |-> FALSE]

Next ==
  \E e \in Executions :
    \/ \E verdict \in Open : Admit(e, verdict)
    \/ Run(e)
    \/ \E answer \in Answer : Reply(e, answer)

Spec == Init /\ [][Next]_vars
=============================================================================
