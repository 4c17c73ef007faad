---------------------------- MODULE MCStateStore ----------------------------
(* TLC instance of StateStore. *)
EXTENDS StateStore, TLC
CONSTANTS server, command, loop, worker, main, log, sessions, a, b

MCOf == loop :> server @@ worker :> server @@ main :> command
MCMain == server :> loop @@ command :> main
\* A key is only compared.
MCKeys == Permutations({a, b})
MCFiles == <<log, sessions>>
=============================================================================
