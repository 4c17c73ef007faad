--------------------------- MODULE MCOutboundGate ---------------------------
(* TLC instance of OutboundGate: the server with two tasks, and the thread of a tool. *)
EXTENDS OutboundGate, TLC
CONSTANTS server, tool, chat, fetch, call, api, shop, plain, personal

MCAsked ==
  {[method |-> "GET", url |-> api, payload |-> plain],
   [method |-> "POST", url |-> api, payload |-> personal]}
MCLoopOf == chat :> server @@ fetch :> server @@ call :> tool
=============================================================================
