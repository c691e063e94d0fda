---------------------------- MODULE MCSigningKeys ----------------------------
(* SigningKeys on small instances for TLC.                                 *)
EXTENDS SigningKeys, TLC

\* Processes are alike, and so are the keys that do not sign at first.
AlikeSymmetry == Permutations(Members) \union Permutations(Keys \ {First})
=============================================================================
