------------------------------ MODULE MCPolls ------------------------------
(* Values of the constants of Polls for TLC. *)
EXTENDS Polls, TLC

\* The autumn of 2022 and the spring of 2023; the poll about the first is open in the
\* second, and there is none about the second when that is finished.
MCSemesterDates ==
  {[year |-> 2022, semester |-> 1, startDate |-> 10, endDate |-> 20],
   [year |-> 2022, semester |-> 2, startDate |-> 30, endDate |-> 40]}
MCPollDates == {[year |-> 2022, semester |-> 1, start |-> 22, end |-> 33]}
MCTimes == <<31, 45>>

Discipline(id, semester, isSelective) ==
  [id |-> id, year |-> 2022, semester |-> semester, isSelective |-> isSelective]
\* t1 and t3 teach together; t2 teaches what may be chosen; t4 teaches next semester.
MCDisciplineOf ==
  [t \in Teachers |->
     CASE t = "t1" -> Discipline("d1", 1, FALSE) [] t = "t3" -> Discipline("d1", 1, FALSE)
       [] t = "t2" -> Discipline("d2", 1, TRUE) [] t = "t5" -> Discipline("d5", 1, TRUE)
       [] t = "t4" -> Discipline("d4", 2, FALSE)]

QRole(role, isShown, isRequired) == [role |-> role, isShown |-> isShown, isRequired |-> isRequired]
Question(type, isRequired, roles) == [type |-> type, isRequired |-> isRequired, questionRoles |-> roles]
Scale == Question("SCALE", TRUE, {QRole("LECTURER", TRUE, FALSE), QRole("PRACTICIAN", TRUE, FALSE)})
Text == Question("TEXT", FALSE, {QRole("LECTURER", TRUE, FALSE)})
Both == Question("TOGGLE", TRUE, {QRole("LECTURER", TRUE, FALSE), QRole("PRACTICIAN", TRUE, TRUE)})
MCQuestionForms == {Both}
MCFirstQuestions ==
  [q \in {"q1", "q2", "q3"} |-> CASE q = "q1" -> Scale [] q = "q2" -> Text
  [] q = "q3" -> [Scale EXCEPT !.type = "TEXT"]]
MCRoleSets == {{"PRACTICIAN"}}
MCFirstTeachers == [t \in {"t1", "t2", "t4"} |-> {"LECTURER"}]
\* The form of t1, the text first or last, and short of an answer; that of t5, who joins
\* by an edit, with an answer twice; those of the others; and one by a student who is not
\* approved.
MCRequests ==
  {<<"u1", "t1", b>> : b \in {<<"q1", "q3">>, <<"q3", "q1">>, <<"q1">>}}
    \cup {<<"u1", "t5", <<"q1", "q3", "q1">>>>, <<"u2", "t1", <<"q1", "q3">>>>}
    \cup {<<"u1", t, <<"q1", "q3">>>> : t \in {"t2", "t4"}}
MCSelections == {{}, {<<"u1", "d2">>}}
Symmetry == Permutations(Handlers)
=============================================================================
