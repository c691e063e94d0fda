------------------------- MODULE MCAccountOperations -------------------------
(* AccountOperations on small instances for TLC.                           *)
EXTENDS AccountOperations, TLC

\* The handlers, the sessions and the comparisons are interchangeable.
HandlerSymmetry == Permutations(Requests)
=============================================================================
