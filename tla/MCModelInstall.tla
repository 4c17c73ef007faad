--------------------------- MODULE MCModelInstall ---------------------------
(* TLC instance of ModelInstall. *)
EXTENDS ModelInstall, TLC
CONSTANTS s1, s2, c, model, archive

MCServer == {s1, s2}
MCInstaller == {s1, s2, c}
MCAsset == {model, archive}
Ask(assets, overwrite, approval) ==
  [assets |-> assets, gated |-> FALSE, overwrite |-> overwrite, approval |-> approval]

\* One asset or both, with and without overwrite, with and without the approval.
MCRequests == {Ask(<<model>>, FALSE, FALSE), Ask(<<archive>>, FALSE, FALSE),
               Ask(<<archive>>, FALSE, TRUE), Ask(<<archive, model>>, TRUE, TRUE)}
TwoRequests == Permutations(MCServer)
=============================================================================
