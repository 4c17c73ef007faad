------------------------- MODULE MCSelfImprovement -------------------------
(* TLC instance of SelfImprovement: the candidates overlap on one file. *)
EXTENDS SelfImprovement, TLC

CONSTANTS c1, c2, f1, f2
MCChanges == (c1 :> <<f1, f2>>) @@ (c2 :> <<f2>>)
Processes == Permutations(Procs)
=============================================================================
