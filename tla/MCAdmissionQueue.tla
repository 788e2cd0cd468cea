-------------------------- MODULE MCAdmissionQueue --------------------------
(***************************************************************************)
(* Small instances of AdmissionQueue for TLC.                              *)
(***************************************************************************)
EXTENDS AdmissionQueue, TLC

CONSTANTS u1, u2, u3, h1, h2

\* Positions an operator may ask for: before everybody (a negative one is taken
\* as 0) and one that somebody else may have.
Asked == {-1, 2}
AskedNegative == {-1}

AllStatuses == Status
GoingOnly == {"GOING"}
NoneAsked == {}

Symmetry == Permutations(Users) \cup Permutations(Handlers)
=============================================================================
