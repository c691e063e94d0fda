----------------------------- MODULE MCSessions -----------------------------
(* Sessions on small instances for TLC.                                    *)
EXTENDS Sessions, TLC

\* The callbacks (with their sessions) and the calls are interchangeable.
SessionSymmetry ==
    Permutations(Callbacks) \union Permutations(Exchanges) \union Permutations(Logins)
=============================================================================
