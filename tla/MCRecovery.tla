----------------------------- MODULE MCRecovery -----------------------------
(* Recovery on small instances for TLC.                                    *)
EXTENDS Recovery, TLC

\* The identities of evidence records are interchangeable.
IdentitySymmetry == Permutations(Writers)
=============================================================================
