--------------------------- MODULE MCConversation ---------------------------
(* TLC instance of Conversation: lengths in units of about eight hundred characters. *)
EXTENDS Conversation, TLC
CONSTANTS t1, t2, hello, story, secret, page, search

MCSize == hello :> 1 @@ story :> 2 @@ secret :> 1 @@ page :> 1 @@ search :> 1
MCRelated ==
  hello :> {hello} @@ story :> {story, secret} @@ secret :> {secret} @@ page :> {}
    @@ search :> {}
TaskSymmetry == Permutations(Task)
=============================================================================
