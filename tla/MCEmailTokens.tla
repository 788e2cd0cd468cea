---------------------------- MODULE MCEmailTokens ----------------------------
(***************************************************************************)
(* Small instances of EmailTokens for TLC.                                 *)
(***************************************************************************)
EXTENDS EmailTokens, TLC

CONSTANTS e1, e2, h1, h2

Symmetry == Permutations(Emails) \cup Permutations(Handlers)
=============================================================================
