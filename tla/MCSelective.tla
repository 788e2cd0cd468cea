----------------------------- MODULE MCSelective -----------------------------
(***************************************************************************)
(* A small instance of Selective for TLC: one group offers two subjects in *)
(* a period, the other one of them in another period; one of each counts.  *)
(***************************************************************************)
EXTENDS Selective, TLC

CONSTANTS s1, s2, g1, g2, A, B, h1, h2

SmallCatalogue ==
  <<Row(g1, A, 1, TRUE), Row(g1, B, 1, TRUE), Row(g2, A, 2, TRUE), None>>
Symmetry == Permutations(Handlers)
SmallAmount == (g1 :> <<1, 1>>) @@ (g2 :> <<1, 1>>)
SmallHome == [s \in Students |-> g1]
SmallFiles == [s \in Students |-> IF s = s1 THEN {<<A, 1>>} ELSE {}]
=============================================================================
