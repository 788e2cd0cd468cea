----------------------------- MODULE MCAccounts -----------------------------
(* Values of the constants of Accounts for TLC. *)
EXTENDS Accounts, TLC

\* A user with an account, and one whose address a captain has put in his group.
MCFirstUsers ==
  {[id |-> 1, email |-> "e1", username |-> "n1", password |-> "p1", changed |-> 0,
    state |-> "APPROVED", avatar |-> "a1", sets |-> 1],
   [id |-> 2, email |-> "e2", username |-> NONE, password |-> NONE, changed |-> 0,
    state |-> "PENDING", avatar |-> "a1", sets |-> 0]}
\* For a new address, for the one in the group, and with a name that is taken.
MCRegistrations ==
  {[id |-> 0, email |-> l[1], username |-> l[2], password |-> l[3]] :
     l \in {<<"e3", "n2", "p1">>, <<"e2", "n2", "p2">>, <<"e3", "n1", "p1">>}}
MCFirstFiles == {"a1"}
Symmetry == Permutations(Handlers)
=============================================================================
