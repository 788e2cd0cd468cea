------------------------------- MODULE Survey -------------------------------
(***************************************************************************)
(* What the poll promises about its answers.  A form is one student's      *)
(* about one teacher of a discipline.  A form is let in only while the     *)
(* student has not taken the teacher off his poll, admitted only while the *)
(* poll is open, and filled only after that.  An answer is given once, a   *)
(* text only after a moderator was shown it, and it stands until its       *)
(* question or its teacher goes.                                           *)
(***************************************************************************)
CONSTANTS Teachers, Users, Questions

VARIABLES
  open,        \* whether the poll takes forms
  withdrawn,   \* forms of teachers taken off the poll
  entered,     \* forms let in
  admitted,    \* forms being filled
  told,        \* texts moderators were shown: <<teacher, user, question>>
  book         \* answers given: <<teacher, user, question>>

vars == <<open, withdrawn, entered, admitted, told, book>>

Forms == Teachers \X Users

Init ==
  /\ open \in BOOLEAN
  /\ withdrawn = {} /\ entered = {} /\ admitted = {} /\ told = {} /\ book = {}

Pass == open' \in BOOLEAN /\ UNCHANGED <<withdrawn, entered, admitted, told, book>>

Enter(f) ==
  /\ f \notin withdrawn
  /\ entered' = entered \cup {f}
  /\ UNCHANGED <<open, withdrawn, admitted, told, book>>

Admit(f) ==
  /\ open /\ f \in entered
  /\ admitted' = admitted \cup {f} /\ entered' \in {entered, entered \ {f}}
  /\ UNCHANGED <<open, withdrawn, told, book>>

Leave ==
  /\ entered' \subseteq entered /\ admitted' \subseteq admitted
  /\ UNCHANGED <<open, withdrawn, told, book>>

Tell(d, u, q) ==
  /\ <<d, u>> \in admitted /\ told' = told \cup {<<d, u, q>>}
  /\ admitted' \subseteq admitted
  /\ UNCHANGED <<open, withdrawn, entered, book>>

Give(d, u, q) ==
  /\ <<d, u>> \in admitted \/ <<d, u, q>> \in told
  /\ <<d, u, q>> \notin book /\ book' = book \cup {<<d, u, q>>}
  /\ admitted' \subseteq admitted
  /\ UNCHANGED <<open, withdrawn, entered, told>>

Withdraw(f) ==
  /\ withdrawn' = withdrawn \cup {f}
  /\ UNCHANGED <<open, entered, admitted, told, book>>

DropQuestion(q) ==
  /\ book' = {a \in book : a[3] # q}
  /\ UNCHANGED <<open, withdrawn, entered, admitted, told>>

DropTeacher(d) ==
  /\ book' = {a \in book : a[1] # d} /\ withdrawn' = {f \in withdrawn : f[1] # d}
  /\ UNCHANGED <<open, entered, admitted, told>>

Next ==
  \/ Pass \/ Leave
  \/ \E f \in Forms : Enter(f) \/ Admit(f) \/ Withdraw(f)
  \/ \E d \in Teachers, u \in Users, q \in Questions : Tell(d, u, q) \/ Give(d, u, q)
  \/ \E q \in Questions : DropQuestion(q)
  \/ \E d \in Teachers : DropTeacher(d)

Spec == Init /\ [][Next]_vars
=============================================================================
