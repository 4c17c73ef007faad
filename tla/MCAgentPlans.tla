----------------------------- MODULE MCAgentPlans -----------------------------
(* TLC instance of AgentPlans. *)
EXTENDS AgentPlans

MCGoals ==
  {[asks |-> {"home", "git", "screen"}, open |-> None], [asks |-> {"back", "recents"}, open |-> "termux"],
   [asks |-> {}, open |-> "current"], [asks |-> {}, open |-> "paypal"], [asks |-> {}, open |-> None],
   [asks |-> {"git", "github", "search"}, open |-> None], [asks |-> {"file"}, open |-> None]}
\* Two steps, the first a command; and a step by the app in front, which is
\* opened, or refused, or there is nothing to do.
MCErrands == {[asks |-> {"home", "git"}, open |-> None], [asks |-> {}, open |-> "current"]}
MCActions ==
  {[action |-> "tap", package |-> None, text |-> "fine"],
   [action |-> "home", package |-> None, text |-> "malformed"],
   [action |-> "open", package |-> "paypal", text |-> "fine"],
   [action |-> "back", package |-> "termux", text |-> "fine"],
   [action |-> "query_processes", package |-> None, text |-> "fine"],
   [action |-> "query_processes", package |-> None, text |-> "blocked"]}
=============================================================================
