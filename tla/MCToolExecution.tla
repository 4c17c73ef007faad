-------------------------- MODULE MCToolExecution --------------------------
(* TLC instance of ToolExecution. *)
EXTENDS ToolExecution

Asked(permitted, denied, wellFormed, n) ==
  [permitted |-> permitted, safeModeDenies |-> denied, wellFormed |-> wellFormed,
   retries |-> n]

\* One request validation refuses for each of its reasons, and accepted ones that
\* allow 0 to MaxRetries retries.
MCRequests ==
  {Asked(FALSE, FALSE, TRUE, 0), Asked(TRUE, TRUE, TRUE, MaxRetries),
   Asked(TRUE, FALSE, FALSE, 0)}
  \cup {Asked(TRUE, FALSE, TRUE, n) : n \in 0..MaxRetries}
=============================================================================
