-------------------------------- MODULE Lists --------------------------------
(***************************************************************************)
(* The list comprehension the stores filter their entries with.             *)
(***************************************************************************)
EXTENDS Integers, Sequences

\* [item for item in s if item in S]: the items of s that are in S, in their order.
Among(s, S) ==
  LET kept[i \in 0..Len(s)] ==
        IF i = 0 THEN <<>>
        ELSE IF s[i] \in S THEN Append(kept[i - 1], s[i]) ELSE kept[i - 1]
  IN kept[Len(s)]
=============================================================================
