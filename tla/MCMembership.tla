---------------------------- MODULE MCMembership -----------------------------
(***************************************************************************)
(* Small instances of Membership for TLC.                                  *)
(***************************************************************************)
EXTENDS Membership, TLC

CONSTANTS s1, s2, s3, g1, g2, h1, h2

Symmetry == Permutations(Students) \cup Permutations(Groups) \cup Permutations(Handlers)
=============================================================================
