------------------------------ MODULE MCAccess ------------------------------
(* Values of the constants of Access for TLC. *)
EXTENDS Access, TLC

MCRanks == {"NONE", "STUDENT", "MODERATOR", "CAPTAIN"}
MCEditRanks == {"STUDENT"}
\* One grant at either end or on top, and two in one request.
Bring(weights) == [i \in 1..Len(weights) |-> Grant(<<"users", "*">>, TRUE, weights[i])]
MCBodies == {Bring(w) : w \in {<<1>>, <<2>>, <<1, 2>>, <<1, 3>>}}
MCRepeated == {"groupId", "userId", "disciplineId", "disciplineTeacherId", "eventId"}
Symmetry == Permutations(Handlers)
=============================================================================
