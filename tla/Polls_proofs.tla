---------------------------- MODULE Polls_proofs -----------------------------
(***************************************************************************)
(* The poll implements Survey, forms are not left half answered, and the   *)
(* lists of teachers agree: proved for any students, teachers and          *)
(* questions, any number of requests in progress, and any edits of what is *)
(* asked while they are answered.                                          *)
(***************************************************************************)
EXTENDS Polls, TLAPS

-----------------------------------------------------------------------------
(* What the requests in progress are *)

\* A request has its fields, and is where sendAnswers can be with them.
Shaped(r) == {"step", "user", "dt", "body", "roles", "disciplineRoles", "at", "kept"} \subseteq DOMAIN r
Asked(r) ==
  /\ Shaped(r)
  /\ r.step \in Steps
  /\ r.step # "idle" => r.dt \in Teachers /\ r.user \in Users
  /\ r.body \in Seq(Questions) /\ r.at \in Nat
  /\ r.step \in {"answered", "write"} => r.at \in 1..Len(r.body)
  /\ r.step \in {"roles", "questions", "removed", "rest"} => r.at = 1
  /\ r.kept => r.step = "write"
Requested ==
  /\ req = [h \in Handlers |-> req[h]]
  /\ \A h \in Handlers : Asked(req[h])

LEMMA IdleAsked == Asked(Idle)
  BY DEF Asked, Shaped, Idle, Steps

\* A request that goes on as one that is asked leaves the requests as they should be.
LEMMA GoesTyped ==
  ASSUME Requested, NEW h \in Handlers, NEW r, Asked(r), Goes(h, r)
  PROVE  Requested'
<1>1. req' = [g \in Handlers |-> IF g = h THEN r ELSE req[g]]
  BY DEF Goes, Requested
<1> QED BY <1>1 DEF Requested

\* What a request that goes on does to the forms let in and admitted.
LEMMA Moves ==
  ASSUME Requested, NEW h \in Handlers, NEW r, Goes(h, r)
  PROVE  /\ r.step # "rest" => Entered' \subseteq Entered
         /\ r.step # "rest" /\ req[h].step # "rest" => Entered' = Entered
         /\ r.step # "rest" => Entered' \in {Entered, Entered \ {Form(h)}}
         /\ r.step = "rest" /\ req[h].step # "rest" => Entered' = Entered \cup {<<r.dt, r.user>>}
         /\ r.step # "write" => Admitted' \subseteq Admitted
         /\ r.step # "write" /\ req[h].step # "write" => Admitted' = Admitted
         /\ r.step = "write" /\ req[h].step # "write" => Admitted' = Admitted \cup {<<r.dt, r.user>>}
         /\ r.step = "write" /\ req[h].step = "write" /\ r.dt = req[h].dt /\ r.user = req[h].user
              => Admitted' = Admitted
<1>1. req' = [g \in Handlers |-> IF g = h THEN r ELSE req[g]]
  BY DEF Goes, Requested
<1> DEFINE At(g) == <<req[g].dt, req[g].user>>
<1>2. Entered = {At(g) : g \in {k \in Handlers : req[k].step = "rest"}}
  BY DEF Entered, Form
<1>3. Admitted = {At(g) : g \in {k \in Handlers : req[k].step = "write"}}
  BY DEF Admitted, Form
<1>4. Entered' = {At(g) : g \in {k \in Handlers \ {h} : req[k].step = "rest"}}
                   \cup {<<r.dt, r.user>> : x \in {y \in {h} : r.step = "rest"}}
  BY <1>1 DEF Entered, Form
<1>5. Admitted' = {At(g) : g \in {k \in Handlers \ {h} : req[k].step = "write"}}
                   \cup {<<r.dt, r.user>> : x \in {y \in {h} : r.step = "write"}}
  BY <1>1 DEF Admitted, Form
<1>6. Form(h) = At(h)
  BY DEF Form
<1> HIDE DEF At
<1>7. r.step # "rest" => Entered' \subseteq Entered
  BY <1>2, <1>4
<1>8. r.step # "rest" /\ req[h].step # "rest" => Entered' = Entered
  BY <1>2, <1>4
<1>9. r.step # "rest" => Entered' \in {Entered, Entered \ {Form(h)}}
  <2>1. CASE \E g \in Handlers \ {h} : req[g].step = "rest" /\ At(g) = At(h)
    BY <2>1, <1>2, <1>4
  <2>2. CASE ~\E g \in Handlers \ {h} : req[g].step = "rest" /\ At(g) = At(h)
    BY <2>2, <1>2, <1>4, <1>6
  <2> QED BY <2>1, <2>2
<1>10. r.step = "rest" /\ req[h].step # "rest" => Entered' = Entered \cup {<<r.dt, r.user>>}
  BY <1>2, <1>4
<1>11. r.step # "write" => Admitted' \subseteq Admitted
  BY <1>3, <1>5
<1>12. r.step # "write" /\ req[h].step # "write" => Admitted' = Admitted
  BY <1>3, <1>5
<1>13. r.step = "write" /\ req[h].step # "write" => Admitted' = Admitted \cup {<<r.dt, r.user>>}
  BY <1>3, <1>5
<1>14. r.step = "write" /\ req[h].step = "write" /\ r.dt = req[h].dt /\ r.user = req[h].user
         => Admitted' = Admitted
  BY <1>3, <1>5 DEF At
<1> QED BY <1>7, <1>8, <1>9, <1>10, <1>11, <1>12, <1>13, <1>14

-----------------------------------------------------------------------------
(* Types *)

Rows ==
  /\ clock \in 1..Len(Times) /\ selected \subseteq Users \X Ids
  /\ DOMAIN questions \subseteq Questions /\ DOMAIN teachers \subseteq Teachers
  /\ \A a \in answers : a[1] \in DOMAIN teachers /\ a[2] \in Users /\ a[3] \in DOMAIN questions
  /\ \A f \in removed : f[1] \in DOMAIN teachers /\ f[2] \in Users
  /\ told \subseteq Teachers \X Users \X Questions

Types == Requested /\ Rows

LEMMA TypesEnough == Types => TypeOK
  BY DEF Types, Rows, Requested, Asked, TypeOK, Working

LEMMA TypesInit == Init => Types
<1> SUFFICES ASSUME Init PROVE Types
  OBVIOUS
<1> USE PollsAssumption
<1>1. Requested
  BY IdleAsked DEF Init, Requested
<1>2. Ids = {DisciplineOf[t].id : t \in Teachers}
  BY DEF Ids, Disciplines, Range
<1>3. Rows
  BY <1>2 DEF Init, Rows
<1> QED BY <1>1, <1>3 DEF Types

\* What is answered is a question of the form.
LEMMA RowTyped ==
  ASSUME Requested, NEW h \in Handlers, req[h].step = "write"
  PROVE  /\ req[h].dt \in Teachers /\ req[h].user \in Users
         /\ req[h].body[req[h].at] \in Questions
         /\ Row(h) = <<req[h].dt, req[h].user, req[h].body[req[h].at]>>
  BY DEF Requested, Asked, Row

\* A request that ends, or goes on to its next answer.
GoesOn(h, r) == r = Idle \/ (r.step = "write" /\ r.dt = req[h].dt /\ r.user = req[h].user)
LEMMA KeptTyped ==
  ASSUME Requested, NEW h \in Handlers, req[h].step = "write", Kept(h)
  PROVE  \E r : Goes(h, r) /\ Asked(r) /\ GoesOn(h, r)
<1>1. CASE Last(h)
  BY <1>1, IdleAsked DEF Kept, Ends, GoesOn
<1>2. CASE ~Last(h)
  <2> DEFINE r == [req[h] EXCEPT !.at = @ + 1, !.kept = TRUE]
  <2>1. Asked(r)
    BY <1>2 DEF Requested, Asked, Shaped, Last
  <2>2. Goes(h, r) /\ GoesOn(h, r)
    BY <1>2 DEF Kept, Requested, Asked, Shaped, GoesOn
  <2> HIDE DEF r
  <2> QED BY <2>1, <2>2
<1> QED BY <1>1, <1>2

\* Of the rows, what is answered and told is all that a step of sendAnswers changes.
Answering(h) ==
  /\ UNCHANGED <<questions, teachers, spent, removed, clock, selected>>
  /\ \/ answers' = answers
     \/ answers' = answers \cup {Row(h)} /\ CanStore(Row(h)) /\ req[h].step = "write"
  /\ \/ told' = told
     \/ told' = told \cup {Row(h)} /\ req[h].step = "write"

LEMMA RefusedTyped ==
  ASSUME NEW h \in Handlers, Refused(h)
  PROVE  Goes(h, Idle) /\ Asked(Idle) /\ Answering(h)
<1>1. Goes(h, Idle)
  BY DEF Refused, Ends
<1>2. Answering(h)
  BY DEF Refused, Answering, rows
<1> QED BY <1>1, <1>2, IdleAsked

LEMMA PassesTyped ==
  ASSUME NEW h \in Handlers, NEW r, Passes(h, r)
  PROVE  Goes(h, r) /\ Answering(h)
<1>1. Goes(h, r)
  BY DEF Passes
<1>2. Answering(h)
  BY DEF Passes, Answering, rows
<1> QED BY <1>1, <1>2

\* The steps of sendAnswers change its request to one that is asked.
LEMMA SendingTyped ==
  ASSUME Requested, NEW h \in Handlers, Sending(h)
  PROVE  Answering(h) /\ \E r : Goes(h, r) /\ Asked(r)
<1>1. ASSUME NEW q \in Requests, sendAnswers(h, q[1], q[2], q[3])
      PROVE  Answering(h) /\ \E r : Goes(h, r) /\ Asked(r)
  <2>1. q[1] \in Users /\ q[2] \in Teachers /\ q[3] \in Seq(Questions)
    BY PollsAssumption
  <2> DEFINE r == [Idle EXCEPT !.step = "roles", !.user = q[1], !.dt = q[2], !.body = q[3]]
  <2>2. Asked(r)
    BY <2>1 DEF Asked, Shaped, Idle, Steps
  <2>3. Goes(h, r)
    BY <1>1 DEF sendAnswers
  <2>4. Answering(h)
    BY <1>1 DEF sendAnswers, Answering, rows
  <2> HIDE DEF r
  <2> QED BY <2>2, <2>3, <2>4
<1>2. CASE Refused(h)
  BY <1>2, RefusedTyped
<1>3. CASE ReadRoles(h)
  <2> DEFINE r == [req[h] EXCEPT !.step = "questions", !.roles = teachers[req[h].dt],
                     !.disciplineRoles = RolesIn(DisciplineOf[req[h].dt])]
  <2>1. Asked(r)
    BY <1>3 DEF ReadRoles, Requested, Asked, Shaped, Steps
  <2>2. Refused(h) \/ Passes(h, r)
    BY <1>3 DEF ReadRoles
  <2> HIDE DEF r
  <2> QED BY <1>2, <2>1, <2>2, PassesTyped
<1>4. CASE ReadQuestions(h)
  <2> DEFINE found == Restrict(questions, getQuestions(req[h].roles, req[h].disciplineRoles))
             r == [req[h] EXCEPT !.step = After(req[h], "answered"), !.questions = found]
  <2>1. req[h].step = "questions" /\ (Refused(h) \/ Passes(h, r))
    BY <1>4 DEF ReadQuestions
  <2> HIDE DEF found
  <2>2. Asked(req[h])
    BY DEF Requested
  <2>3. req[h].body # << >> => 1 \in 1..Len(req[h].body)
    BY <2>2 DEF Asked
  <2>4. req[h].at = 1
    BY <2>1, <2>2 DEF Asked
  <2>5. Asked(r)
    BY <2>1, <2>2, <2>3, <2>4 DEF Asked, Shaped, After, Steps
  <2> HIDE DEF r
  <2> QED BY <1>2, <2>1, <2>5, PassesTyped
<1>5. CASE checkAnsweredQuestion(h)
  <2> DEFINE r == [req[h] EXCEPT !.step = IF Last(h) THEN "removed" ELSE "answered",
                     !.at = IF Last(h) THEN 1 ELSE @ + 1]
  <2>1. Asked(r)
    BY <1>5 DEF checkAnsweredQuestion, Requested, Asked, Shaped, Last, Steps
  <2>2. Refused(h) \/ Passes(h, r)
    BY <1>5 DEF checkAnsweredQuestion
  <2> HIDE DEF r
  <2> QED BY <1>2, <2>1, <2>2, PassesTyped
<1>6. CASE checkIsRemoved(h)
  <2> DEFINE r == [req[h] EXCEPT !.step = "rest"]
  <2>1. Asked(r)
    BY <1>6 DEF checkIsRemoved, Requested, Asked, Shaped, Steps
  <2>2. Refused(h) \/ Passes(h, r)
    BY <1>6 DEF checkIsRemoved
  <2> HIDE DEF r
  <2> QED BY <1>2, <2>1, <2>2, PassesTyped
<1>7. CASE checkTheRest(h)
  <2> DEFINE r == [req[h] EXCEPT !.step = "write"]
  <2>1. Refused(h) \/ (Passes(h, r) /\ req[h].body # << >>)
    BY <1>7 DEF checkTheRest
  <2>2. Asked(req[h]) /\ req[h].step = "rest"
    BY <1>7 DEF Requested, checkTheRest
  <2>3. req[h].body # << >> => req[h].at \in 1..Len(req[h].body)
    BY <2>2 DEF Asked
  <2>4. req[h].body # << >> => Asked(r)
    BY <2>2, <2>3 DEF Asked, Shaped, Steps
  <2> HIDE DEF r
  <2> QED BY <1>2, <2>1, <2>4, PassesTyped
<1>8. CASE verifyResponse(h)
  <2>1. Answering(h)
    BY <1>8 DEF verifyResponse, Answering
  <2>2. Kept(h) \/ Goes(h, Idle)
    BY <1>8 DEF verifyResponse, Ends
  <2>3. req[h].step = "write"
    BY <1>8 DEF verifyResponse
  <2>4. Kept(h) => \E r : Goes(h, r) /\ Asked(r)
    BY <2>3, KeptTyped
  <2> QED BY <2>1, <2>2, <2>4, IdleAsked
<1>9. CASE createAnswer(h)
  <2>1. Refused(h) \/ (Answering(h) /\ Kept(h))
    BY <1>9 DEF createAnswer, Answering
  <2>2. Kept(h) => \E r : Goes(h, r) /\ Asked(r)
    BY <1>9, KeptTyped DEF createAnswer
  <2> QED BY <1>2, <2>1, <2>2
<1> QED BY <1>1, <1>3, <1>4, <1>5, <1>6, <1>7, <1>8, <1>9 DEF Sending

\* What an editing step changes.
LEMMA EditingTyped ==
  ASSUME Rows, Editing
  PROVE  /\ UNCHANGED <<clock, selected, told, req>>
         /\ Rows'
<1>1. ASSUME NEW q \in Questions, NEW form \in QuestionForms, createQuestion(q, form)
      PROVE  UNCHANGED <<clock, selected, told, req>> /\ Rows'
  BY <1>1 DEF createQuestion, EditQuestions, Edit, Added, Rows
<1>2. ASSUME NEW q \in DOMAIN questions, NEW form \in QuestionForms, NEW withRoles \in BOOLEAN,
             updateQuestion(q, form, withRoles)
      PROVE  UNCHANGED <<clock, selected, told, req>> /\ Rows'
  <2>1. DOMAIN questions' = DOMAIN questions
    BY <1>2 DEF updateQuestion, EditQuestions
  <2> QED BY <1>2, <2>1 DEF updateQuestion, EditQuestions, Edit, Rows
<1>3. ASSUME NEW q \in DOMAIN questions, NEW r, giveRole(q, r) \/ deleteRole(q, r)
      PROVE  UNCHANGED <<clock, selected, told, req>> /\ Rows'
  <2>1. DOMAIN questions' = DOMAIN questions
    BY <1>3 DEF giveRole, deleteRole, EditQuestions
  <2> QED BY <1>3, <2>1 DEF giveRole, deleteRole, EditQuestions, Edit, Rows
<1>4. ASSUME NEW q \in DOMAIN questions, deleteQuestion(q)
      PROVE  UNCHANGED <<clock, selected, told, req>> /\ Rows'
  BY <1>4 DEF deleteQuestion, Edit, Restrict, Rows
<1>5. ASSUME NEW d \in Teachers, NEW roles \in RoleSets, createDisciplineTeacher(d, roles)
      PROVE  UNCHANGED <<clock, selected, told, req>> /\ Rows'
  BY <1>5 DEF createDisciplineTeacher, Edit, Added, Rows
<1>6. ASSUME NEW d \in DOMAIN teachers, NEW roles \in RoleSets, updateDisciplineTeacher(d, roles)
      PROVE  UNCHANGED <<clock, selected, told, req>> /\ Rows'
  <2>1. DOMAIN teachers' = DOMAIN teachers
    BY <1>6 DEF updateDisciplineTeacher
  <2> QED BY <1>6, <2>1 DEF updateDisciplineTeacher, Edit, Rows
<1>7. ASSUME NEW d \in DOMAIN teachers, deleteDisciplineTeacher(d)
      PROVE  UNCHANGED <<clock, selected, told, req>> /\ Rows'
  BY <1>7 DEF deleteDisciplineTeacher, Edit, Restrict, Rows
<1> QED BY <1>1, <1>2, <1>3, <1>4, <1>5, <1>6, <1>7 DEF Editing

\* Every step keeps the types.
LEMMA TypesKept == Types /\ [Next]_vars => Types'
<1> SUFFICES ASSUME Requested, Rows, [Next]_vars PROVE Requested' /\ Rows'
  BY DEF Types
<1>1. ASSUME NEW h \in Handlers, Sending(h) PROVE Requested' /\ Rows'
  <2>1. Answering(h) /\ Requested'
    BY <1>1, SendingTyped, GoesTyped
  <2>2. req[h].step = "write" => Row(h) \in Teachers \X Users \X Questions
    BY RowTyped
  <2>3. /\ UNCHANGED <<questions, teachers, spent, removed, clock, selected>>
        /\ told' \subseteq Teachers \X Users \X Questions
    BY <2>1, <2>2 DEF Answering, Rows
  <2>4. \A a \in answers' : a[1] \in DOMAIN teachers /\ a[2] \in Users /\ a[3] \in DOMAIN questions
    <3>1. req[h].step = "write" => Row(h)[2] \in Users
      BY RowTyped
    <3> QED BY <2>1, <3>1 DEF Answering, Rows, CanStore
  <2> QED BY <2>1, <2>3, <2>4 DEF Rows
<1>2. ASSUME NEW row \in told, sendResponse(row) PROVE Requested' /\ Rows'
  <2>1. row[2] \in Users
    BY DEF Rows
  <2>2. Requested'
    BY <1>2 DEF sendResponse, Requested
  <2> QED BY <1>2, <2>1, <2>2 DEF sendResponse, CanStore, Rows
<1>3. ASSUME NEW user \in Users, NEW d \in DOMAIN teachers, removeFromPoll(user, d)
      PROVE  Requested' /\ Rows'
  BY <1>3 DEF removeFromPoll, Requested, Rows
<1>4. CASE Editing
  BY <1>4, EditingTyped DEF Requested
<1>5. CASE Tick
  BY <1>5, PollsAssumption DEF Tick, rows, Requested, Rows
<1>6. CASE Stop
  BY <1>6, IdleAsked DEF Stop, rows, Requested, Rows
<1>7. CASE UNCHANGED vars
  BY <1>7 DEF vars, Requested, Rows
<1> QED BY <1>1, <1>2, <1>3, <1>4, <1>5, <1>6, <1>7 DEF Next

LEMMA TypesAlways == Spec => []Types
  BY TypesInit, TypesKept, PTL DEF Spec

\* The columns of the rows, whatever students, edits and stops cross
\* (schema.prisma: DisciplineTeacher, QuestionAnswer, RemovedDisciplineTeacher).
THEOREM TypesCorrect == Spec => []TypeOK
  BY TypesAlways, TypesEnough, PTL

-----------------------------------------------------------------------------
(* The refinement *)

LEMMA PromiseInit == Init => Promise!Init
<1> SUFFICES ASSUME Init PROVE Promise!Init
  OBVIOUS
<1>1. Entered = {} /\ Admitted = {}
  BY DEF Init, Entered, Admitted, Idle
<1>2. checkSendingTime \in BOOLEAN
  BY DEF checkSendingTime
<1> QED BY <1>1, <1>2 DEF Init, Promise!Init

\* The poll opens and closes with the clock only.
LEMMA SameTime ==
  ASSUME UNCHANGED clock
  PROVE  UNCHANGED checkSendingTime
  BY DEF checkSendingTime, getPollTimeBorders, now

LEMMA Stutters ==
  ASSUME UNCHANGED <<clock, removed, answers, told, Entered, Admitted>>
  PROVE  [Promise!Next]_Promise!vars
  BY SameTime DEF Promise!vars

\* A request that ends leaves.
LEMMA EndsLeaves ==
  ASSUME Requested, NEW h \in Handlers, Goes(h, Idle), UNCHANGED <<clock, removed, answers, told>>
  PROVE  Promise!Next
<1>1. Entered' \subseteq Entered /\ Admitted' \subseteq Admitted
  BY Moves DEF Idle
<1>2. Promise!Leave
  BY <1>1, SameTime DEF Promise!Leave
<1> QED BY <1>2 DEF Promise!Next

LEMMA RefusedLeaves ==
  ASSUME Requested, NEW h \in Handlers, Refused(h)
  PROVE  Promise!Next
  BY EndsLeaves DEF Refused, Ends, rows

\* A request that is neither let in nor admitted before or after its step.
LEMMA PassesStutters ==
  ASSUME Requested, NEW h \in Handlers, NEW r, Passes(h, r),
         req[h].step \notin {"rest", "write"}, r.step \notin {"rest", "write"}
  PROVE  [Promise!Next]_Promise!vars
<1>1. Goes(h, r) /\ UNCHANGED <<clock, removed, answers, told>>
  BY DEF Passes, rows
<1> QED BY <1>1, Moves, Stutters

\* A request that is past its answer: it was admitted, and is or ends.
LEMMA KeptStays ==
  ASSUME Requested, NEW h \in Handlers, req[h].step = "write", Kept(h) \/ Goes(h, Idle)
  PROVE  UNCHANGED Entered /\ Admitted' \subseteq Admitted
<1>1. PICK r : Goes(h, r) /\ GoesOn(h, r)
  BY KeptTyped DEF GoesOn
<1>2. r.step # "rest"
  BY <1>1 DEF GoesOn, Idle
<1>3. CASE r = Idle
  BY <1>1, <1>3, Moves DEF Idle
<1>4. CASE r.step = "write" /\ r.dt = req[h].dt /\ r.user = req[h].user
  BY <1>1, <1>4, Moves
<1> QED BY <1>1, <1>3, <1>4 DEF GoesOn

LEMMA WritesAdmitted ==
  ASSUME Requested, NEW h \in Handlers, req[h].step = "write"
  PROVE  <<req[h].dt, req[h].user>> \in Admitted
  BY DEF Admitted, Form

LEMMA SendingPromised ==
  ASSUME Requested, NEW h \in Handlers, Sending(h)
  PROVE  [Promise!Next]_Promise!vars
<1>1. ASSUME NEW q \in Requests, sendAnswers(h, q[1], q[2], q[3])
      PROVE  [Promise!Next]_Promise!vars
  <2> DEFINE r == [Idle EXCEPT !.step = "roles", !.user = q[1], !.dt = q[2], !.body = q[3]]
  <2>1. r.step = "roles" /\ req[h].step = "idle" /\ Goes(h, r)
    BY <1>1 DEF sendAnswers, Working, Idle
  <2>2. UNCHANGED <<clock, removed, answers, told>>
    BY <1>1 DEF sendAnswers, rows
  <2> HIDE DEF r
  <2> QED BY <2>1, <2>2, Moves, Stutters
<1>2. CASE Refused(h)
  BY <1>2, RefusedLeaves
<1>3. CASE ReadRoles(h)
  <2> DEFINE r == [req[h] EXCEPT !.step = "questions", !.roles = teachers[req[h].dt],
                     !.disciplineRoles = RolesIn(DisciplineOf[req[h].dt])]
  <2>1. r.step = "questions" /\ req[h].step = "roles"
    BY <1>3 DEF ReadRoles, Requested, Asked, Shaped
  <2>2. Refused(h) \/ Passes(h, r)
    BY <1>3 DEF ReadRoles
  <2> HIDE DEF r
  <2> QED BY <1>2, <2>1, <2>2, PassesStutters
<1>4. CASE ReadQuestions(h)
  <2> DEFINE found == Restrict(questions, getQuestions(req[h].roles, req[h].disciplineRoles))
             r == [req[h] EXCEPT !.step = After(req[h], "answered"), !.questions = found]
  <2>1. Refused(h) \/ Passes(h, r)
    BY <1>4 DEF ReadQuestions
  <2> HIDE DEF found
  <2>2. r.step \in {"removed", "answered"} /\ req[h].step = "questions"
    BY <1>4 DEF ReadQuestions, Requested, Asked, Shaped, After
  <2> HIDE DEF r
  <2> QED BY <1>2, <2>1, <2>2, PassesStutters
<1>5. CASE checkAnsweredQuestion(h)
  <2> DEFINE r == [req[h] EXCEPT !.step = IF Last(h) THEN "removed" ELSE "answered",
                     !.at = IF Last(h) THEN 1 ELSE @ + 1]
  <2>1. r.step \in {"removed", "answered"} /\ req[h].step = "answered"
    BY <1>5 DEF checkAnsweredQuestion, Requested, Asked, Shaped
  <2>2. Refused(h) \/ Passes(h, r)
    BY <1>5 DEF checkAnsweredQuestion
  <2> HIDE DEF r
  <2> QED BY <1>2, <2>1, <2>2, PassesStutters
<1>6. CASE checkIsRemoved(h)
  <2> SUFFICES ASSUME ~Refused(h) PROVE Promise!Next
    BY <1>2
  <2> DEFINE r == [req[h] EXCEPT !.step = "rest"]
  <2>1. req[h].step = "removed" /\ Form(h) \notin removed /\ Passes(h, r)
    BY <1>6 DEF checkIsRemoved
  <2>2. Form(h) \in Promise!Forms /\ Form(h) = <<r.dt, r.user>> /\ r.step = "rest"
    BY <2>1 DEF Requested, Asked, Shaped, Form, Promise!Forms
  <2>3. Goes(h, r) /\ UNCHANGED <<clock, removed, answers, told>>
    BY <2>1 DEF Passes, rows
  <2> HIDE DEF r
  <2>4. Entered' = Entered \cup {Form(h)} /\ Admitted' = Admitted
    BY <2>1, <2>2, <2>3, Moves
  <2>5. Promise!Enter(Form(h))
    BY <2>1, <2>3, <2>4, SameTime DEF Promise!Enter
  <2> QED BY <2>2, <2>5 DEF Promise!Next
<1>7. CASE checkTheRest(h)
  <2> SUFFICES ASSUME ~Refused(h) PROVE Promise!Next
    BY <1>2
  <2> DEFINE r == [req[h] EXCEPT !.step = "write"]
  <2>1. req[h].step = "rest" /\ checkSendingTime /\ Passes(h, r)
    BY <1>7 DEF checkTheRest, Admissible
  <2>2. Form(h) \in Promise!Forms /\ Form(h) = <<r.dt, r.user>> /\ r.step = "write"
    BY <2>1 DEF Requested, Asked, Shaped, Form, Promise!Forms
  <2>3. Goes(h, r) /\ UNCHANGED <<clock, removed, answers, told>>
    BY <2>1 DEF Passes, rows
  <2> HIDE DEF r
  <2>4. Entered' \in {Entered, Entered \ {Form(h)}} /\ Admitted' = Admitted \cup {Form(h)}
    BY <2>1, <2>2, <2>3, Moves
  <2>5. Form(h) \in Entered
    BY <2>1 DEF Entered
  <2>6. Promise!Admit(Form(h))
    BY <2>1, <2>3, <2>4, <2>5, SameTime DEF Promise!Admit
  <2> QED BY <2>2, <2>6 DEF Promise!Next
<1>8. CASE verifyResponse(h)
  <2>1. req[h].step = "write" /\ UNCHANGED <<clock, removed, answers>>
    BY <1>8 DEF verifyResponse
  <2>2. CASE Goes(h, Idle) /\ UNCHANGED told
    BY <2>1, <2>2, EndsLeaves
  <2>3. CASE told' = told \cup {Row(h)} /\ (Kept(h) \/ Goes(h, Idle))
    <3> DEFINE q == req[h].body[req[h].at]
    <3>1. UNCHANGED Entered /\ Admitted' \subseteq Admitted
      BY <2>1, <2>3, KeptStays
    <3>2. Promise!Tell(req[h].dt, req[h].user, q)
      BY <2>1, <2>3, <3>1, WritesAdmitted, RowTyped, SameTime DEF Promise!Tell
    <3>3. req[h].dt \in Teachers /\ req[h].user \in Users /\ q \in Questions
      BY <2>1, RowTyped
    <3> HIDE DEF q
    <3> QED BY <3>2, <3>3 DEF Promise!Next
  <2> QED BY <1>8, <2>2, <2>3 DEF verifyResponse, Ends
<1>9. CASE createAnswer(h)
  <2> SUFFICES ASSUME ~Refused(h) PROVE Promise!Next
    BY <1>2
  <2> DEFINE q == req[h].body[req[h].at]
  <2>1. /\ req[h].step = "write" /\ CanStore(Row(h)) /\ Kept(h)
        /\ answers' = answers \cup {Row(h)} /\ UNCHANGED <<clock, removed, told>>
    BY <1>9 DEF createAnswer
  <2>2. UNCHANGED Entered /\ Admitted' \subseteq Admitted
    BY <2>1, KeptStays
  <2>3. Promise!Give(req[h].dt, req[h].user, q)
    BY <2>1, <2>2, WritesAdmitted, RowTyped, SameTime DEF Promise!Give, CanStore
  <2>4. req[h].dt \in Teachers /\ req[h].user \in Users /\ q \in Questions
    BY <2>1, RowTyped
  <2> HIDE DEF q
  <2> QED BY <2>3, <2>4 DEF Promise!Next
<1> QED BY <1>1, <1>3, <1>4, <1>5, <1>6, <1>7, <1>8, <1>9 DEF Sending

LEMMA EditingPromised ==
  ASSUME Rows, Editing
  PROVE  [Promise!Next]_Promise!vars
<1>1. UNCHANGED <<clock, told, req>>
  BY EditingTyped
<1>2. UNCHANGED <<Entered, Admitted>>
  BY <1>1 DEF Entered, Admitted, Form
<1>3. CASE UNCHANGED <<answers, removed>>
  BY <1>1, <1>2, <1>3, Stutters
<1>4. ASSUME NEW q \in DOMAIN questions, deleteQuestion(q)
      PROVE  Promise!Next
  <2>1. q \in Questions
    BY DEF Rows
  <2>2. Promise!DropQuestion(q)
    BY <1>1, <1>2, <1>4, SameTime DEF deleteQuestion, Promise!DropQuestion
  <2> QED BY <2>1, <2>2 DEF Promise!Next
<1>5. ASSUME NEW d \in DOMAIN teachers, deleteDisciplineTeacher(d)
      PROVE  Promise!Next
  <2>1. d \in Teachers
    BY DEF Rows
  <2>2. Promise!DropTeacher(d)
    BY <1>1, <1>2, <1>5, SameTime DEF deleteDisciplineTeacher, Promise!DropTeacher
  <2> QED BY <2>1, <2>2 DEF Promise!Next
<1> QED
  BY <1>3, <1>4, <1>5
  DEF Editing, createQuestion, updateQuestion, giveRole, deleteRole, EditQuestions,
      createDisciplineTeacher, updateDisciplineTeacher

LEMMA StopPromised ==
  ASSUME Requested, Stop
  PROVE  Promise!Next
<1>1. Entered' = {} /\ Admitted' = {}
  BY DEF Stop, Entered, Admitted, Idle
<1>2. Promise!Leave
  BY <1>1, SameTime DEF Stop, rows, Promise!Leave
<1> QED BY <1>2 DEF Promise!Next

\* Every step of the poll is one that Survey allows, or changes nothing of it.
LEMMA PromiseStep == Types /\ [Next]_vars => [Promise!Next]_Promise!vars
<1> SUFFICES ASSUME Requested, Rows, [Next]_vars PROVE [Promise!Next]_Promise!vars
  BY DEF Types
<1>1. ASSUME NEW h \in Handlers, Sending(h) PROVE [Promise!Next]_Promise!vars
  BY <1>1, SendingPromised
<1>2. ASSUME NEW row \in told, sendResponse(row) PROVE Promise!Next
  <2>1. PICK d \in Teachers, u \in Users, q \in Questions : row = <<d, u, q>>
    BY DEF Rows
  <2>2. UNCHANGED <<Entered, Admitted>>
    BY <1>2 DEF sendResponse, Entered, Admitted, Form
  <2>3. Promise!Give(d, u, q)
    BY <1>2, <2>1, <2>2, SameTime DEF sendResponse, CanStore, Promise!Give
  <2> QED BY <2>3 DEF Promise!Next
<1>3. ASSUME NEW user \in Users, NEW d \in DOMAIN teachers, removeFromPoll(user, d)
      PROVE  Promise!Next
  <2>1. <<d, user>> \in Promise!Forms
    BY DEF Rows, Promise!Forms
  <2>2. UNCHANGED <<Entered, Admitted>>
    BY <1>3 DEF removeFromPoll, Entered, Admitted, Form
  <2>3. Promise!Withdraw(<<d, user>>)
    BY <1>3, <2>2, SameTime DEF removeFromPoll, Promise!Withdraw
  <2> QED BY <2>1, <2>3 DEF Promise!Next
<1>4. CASE Editing
  BY <1>4, EditingPromised
<1>5. CASE Tick
  <2>1. UNCHANGED <<Entered, Admitted>>
    BY <1>5 DEF Tick, Entered, Admitted, Form
  <2>2. checkSendingTime' \in BOOLEAN
    BY DEF checkSendingTime
  <2>3. Promise!Pass
    BY <1>5, <2>1, <2>2 DEF Tick, rows, Promise!Pass
  <2> QED BY <2>3 DEF Promise!Next
<1>6. CASE Stop
  BY <1>6, StopPromised
<1>7. CASE UNCHANGED vars
  <2>1. UNCHANGED <<Entered, Admitted>>
    BY <1>7 DEF vars, Entered, Admitted, Form
  <2> QED BY <1>7, <2>1, Stutters DEF vars
<1> QED BY <1>1, <1>2, <1>3, <1>4, <1>5, <1>6, <1>7 DEF Next

\* The poll implements Survey for any students, teachers, questions and edits: what is
\* answered belongs to a form that was let in and admitted, or was shown to moderators, is
\* answered once and stands (DisciplineTeacherService.ts:48-99, 156-182, 205-215, 326-340).
THEOREM PollImplementsSurvey == Spec => PromiseKept
<1>1. Init => Promise!Init
  BY PromiseInit
<1>2. Types /\ [Next]_vars => [Promise!Next]_Promise!vars
  BY PromiseStep
<1> QED BY <1>1, <1>2, TypesAlways, PTL DEF Spec, PromiseKept, Promise!Spec

-----------------------------------------------------------------------------
(* Half answered forms *)

\* What is answered or shown to moderators, and the forms half given in this sense.
Given == answers \cup told
HalfGiven(d, user) ==
  LET given == {q \in Required(d) : <<d, user, q>> \in answers \cup told}
  IN given # {} /\ given # Required(d)

\* As long as nothing of what is asked was edited, a request has read the roles and the
\* required questions there are, and has written all before the question it is at.
Gathered(r) ==
  /\ r.step = "questions" =>
       /\ r.dt \in DOMAIN teachers /\ r.roles = teachers[r.dt]
       /\ r.disciplineRoles = RolesIn(DisciplineOf[r.dt])
  /\ r.step \in {"answered", "removed", "rest", "write"} =>
       r.dt \in DOMAIN teachers /\ Required(r.dt) \subseteq Range(r.body)
  /\ r.step = "write" =>
       /\ r.kept <=> r.at > 1
       /\ \A j \in 1..(r.at - 1) : <<r.dt, r.user, r.body[j]>> \in Given

\* A form that is half given was broken, or its request is past its first answer.
Accounted ==
  \A d \in DOMAIN teachers, user \in Users :
    HalfGiven(d, user) =>
      <<d, user>> \in broken \/ \E h \in Handlers : Form(h) = <<d, user>> /\ req[h].kept

\* Why forms are left half answered only so.
HalfInv == ~edited => Accounted /\ \A h \in Handlers : Gathered(req[h])

\* What is required and half answered depends on these alone.
LEMMA SameQuestions ==
  ASSUME UNCHANGED <<questions, teachers>>
  PROVE  /\ \A d : Required(d)' = Required(d)
         /\ \A d : RolesIn(DisciplineOf[d])' = RolesIn(DisciplineOf[d])
BY DEF Required, getUniqueQuestions, getQuestions, RolesIn

LEMMA SameForm ==
  ASSUME UNCHANGED <<questions, teachers>>, NEW d, NEW user,
         \A q : <<d, user, q>> \in Given' <=> <<d, user, q>> \in Given
  PROVE  HalfGiven(d, user)' <=> HalfGiven(d, user)
BY SameQuestions DEF HalfGiven, Given

\* A step of a request, with the rows it reads as they are and nothing taken away.
LEMMA GoesGathered ==
  ASSUME Requested, HalfInv, ~edited, NEW h \in Handlers, NEW r, Goes(h, r),
         UNCHANGED <<questions, teachers>>, Given \subseteq Given', Gathered(r)'
  PROVE  \A g \in Handlers : Gathered(req[g])'
<1> SUFFICES ASSUME NEW g \in Handlers PROVE Gathered(req[g])'
  OBVIOUS
<1>1. req' = [k \in Handlers |-> IF k = h THEN r ELSE req[k]]
  BY DEF Goes, Requested
<1>2. CASE g = h
  BY <1>1, <1>2 DEF Gathered
<1>3. CASE g # h
  <2>1. PICK q : q = req[g] /\ q = req'[g]
    BY <1>1, <1>3
  <2>2. Gathered(q)
    BY <2>1 DEF HalfInv
  <2>3. Gathered(q)'
    BY <2>2, SameQuestions DEF Gathered
  <2> QED BY <2>1, <2>3 DEF Gathered
<1> QED BY <1>2, <1>3

\* A step that writes nothing leaves forms accounted for, if what it breaks is noted.
LEMMA ReadsAccounted ==
  ASSUME Requested, HalfInv, ~edited, NEW h \in Handlers, NEW r, Goes(h, r),
         UNCHANGED <<questions, teachers, answers, told>>, broken \subseteq broken',
         req[h].kept => Form(h) \in broken'
  PROVE  Accounted'
<1>1. req' = [k \in Handlers |-> IF k = h THEN r ELSE req[k]]
  BY DEF Goes, Requested
<1> SUFFICES ASSUME NEW d \in DOMAIN teachers, NEW user \in Users, HalfGiven(d, user)'
             PROVE  <<d, user>> \in broken' \/ \E g \in Handlers : (Form(g) = <<d, user>> /\ req[g].kept)'
  BY DEF Accounted
<1>2. HalfGiven(d, user)
  BY SameForm DEF Given
<1>3. <<d, user>> \in broken \/ \E g \in Handlers : Form(g) = <<d, user>> /\ req[g].kept
  BY <1>2 DEF HalfInv, Accounted
<1>4. ASSUME NEW g \in Handlers \ {h}, Form(g) = <<d, user>>, req[g].kept
      PROVE  (Form(g) = <<d, user>> /\ req[g].kept)'
  BY <1>4, <1>1 DEF Form
<1> QED BY <1>3, <1>4

\* A step that writes the answer the request is at.
LEMMA WritesAccounted ==
  ASSUME Requested, HalfInv, ~edited, NEW h \in Handlers, req[h].step = "write",
         UNCHANGED <<questions, teachers>>, Given' = Given \cup {Row(h)},
         Kept(h) \/ Ends(h, [req[h] EXCEPT !.kept = TRUE], FALSE)
  PROVE  Accounted' /\ \A g \in Handlers : Gathered(req[g])'
<1>t. Asked(req[h]) /\ Gathered(req[h])
  BY DEF Requested, HalfInv
<1>q. req[h].body[req[h].at] \in Questions /\ Row(h) = <<req[h].dt, req[h].user, req[h].body[req[h].at]>>
  BY RowTyped
<1>r. \E r : Goes(h, r) /\ (r = Idle \/ (~Last(h) /\ r = [req[h] EXCEPT !.at = @ + 1, !.kept = TRUE]))
  BY DEF Kept, Ends
<1>1. PICK r : Goes(h, r) /\ (r = Idle \/ (~Last(h) /\ r = [req[h] EXCEPT !.at = @ + 1, !.kept = TRUE]))
  BY <1>r
<1>2. req' = [k \in Handlers |-> IF k = h THEN r ELSE req[k]]
  BY <1>1 DEF Goes, Requested
<1>3. Gathered(r)'
  <2>1. CASE r = Idle
    BY <2>1 DEF Gathered, Idle
  <2>2. CASE r = [req[h] EXCEPT !.at = @ + 1, !.kept = TRUE]
    <3>1. /\ r.step = "write" /\ r.dt = req[h].dt /\ r.user = req[h].user /\ r.body = req[h].body
          /\ r.at = req[h].at + 1 /\ r.kept = TRUE
      BY <2>2, <1>t DEF Asked, Shaped
    <3>2. req[h].at \in Nat /\ req[h].at >= 1
      BY <1>t DEF Asked
    <3>3. \A j \in 1..(req[h].at - 1) : <<req[h].dt, req[h].user, req[h].body[j]>> \in Given
      BY <1>t DEF Gathered
    <3>4. \A j \in 1..(r.at - 1) : <<r.dt, r.user, r.body[j]>> \in Given'
      BY <3>1, <3>2, <3>3, <1>q
    <3>5. r.dt \in DOMAIN teachers /\ Required(r.dt) \subseteq Range(r.body)
      BY <3>1, <1>t DEF Gathered
    <3>6. r.kept <=> r.at > 1
      BY <3>1, <3>2
    <3>7. r.dt \in DOMAIN teachers' /\ Required(r.dt)' \subseteq Range(r.body)
      BY <3>5, SameQuestions
    <3> QED BY <3>1, <3>4, <3>6, <3>7 DEF Gathered
  <2> QED BY <1>1, <2>1, <2>2
<1>4. \A g \in Handlers : Gathered(req[g])'
  BY <1>1, <1>3, GoesGathered
<1>5. Accounted'
  <2> SUFFICES ASSUME NEW d \in DOMAIN teachers, NEW user \in Users, HalfGiven(d, user)'
               PROVE  <<d, user>> \in broken' \/ \E g \in Handlers : (Form(g) = <<d, user>> /\ req[g].kept)'
    BY DEF Accounted
  <2>b. broken \subseteq broken'
    BY DEF Kept, Ends
  <2>1. CASE <<d, user>> # Form(h)
    <3>1. \A q : <<d, user, q>> \in Given' <=> <<d, user, q>> \in Given
      BY <2>1, <1>q DEF Form
    <3>2. HalfGiven(d, user)
      BY <3>1, SameForm
    <3>3. <<d, user>> \in broken \/ \E g \in Handlers : Form(g) = <<d, user>> /\ req[g].kept
      BY <3>2 DEF HalfInv, Accounted
    <3>4. ASSUME NEW g \in Handlers, Form(g) = <<d, user>>, req[g].kept
          PROVE  (Form(g) = <<d, user>> /\ req[g].kept)'
      BY <3>4, <2>1, <1>2 DEF Form
    <3> QED BY <2>b, <3>3, <3>4
  <2>2. CASE <<d, user>> = Form(h)
    <3>1. CASE Kept(h) /\ ~Last(h)
      <4>1. Goes(h, [req[h] EXCEPT !.at = @ + 1, !.kept = TRUE])
        BY <3>1 DEF Kept
      <4>2. PICK q : q = req'[h] /\ q = [req[h] EXCEPT !.at = @ + 1, !.kept = TRUE]
        BY <4>1 DEF Goes, Requested
      <4>3. q.dt = req[h].dt /\ q.user = req[h].user /\ q.kept = TRUE
        BY <4>2, <1>t DEF Asked, Shaped
      <4> QED BY <4>2, <4>3, <2>2 DEF Form
    <3>2. CASE Kept(h) /\ Last(h)
      <4>1. d = req[h].dt /\ user = req[h].user
        BY <2>2 DEF Form
      <4>2. req[h].at = Len(req[h].body) /\ req[h].at \in Nat /\ req[h].body \in Seq(Questions)
        BY <3>2, <1>t DEF Last, Asked
      <4>3. \A j \in 1..Len(req[h].body) : <<d, user, req[h].body[j]>> \in Given'
        <5> SUFFICES ASSUME NEW j \in 1..Len(req[h].body) PROVE <<d, user, req[h].body[j]>> \in Given'
          OBVIOUS
        <5>1. CASE j = req[h].at
          BY <5>1, <4>1, <1>q
        <5>2. CASE j # req[h].at
          <6>1. j \in 1..(req[h].at - 1)
            BY <5>2, <4>2
          <6> QED BY <6>1, <4>1, <1>t DEF Gathered
        <5> QED BY <5>1, <5>2
      <4>4. \A q \in Required(d) : q \in Range(req[h].body)
        BY <4>1, <1>t DEF Gathered
      <4>5. \A q \in Range(req[h].body) : \E j \in 1..Len(req[h].body) : q = req[h].body[j]
        BY <4>2 DEF Range
      <4>6. \A q \in Required(d) : <<d, user, q>> \in Given'
        BY <4>3, <4>4, <4>5
      <4>7. ~HalfGiven(d, user)'
        BY <4>6, SameQuestions DEF HalfGiven, Given
      <4> QED BY <4>7
    <3>3. CASE Ends(h, [req[h] EXCEPT !.kept = TRUE], FALSE)
      <4>1. [req[h] EXCEPT !.kept = TRUE].kept
        BY <1>t DEF Asked, Shaped
      <4> QED BY <3>3, <4>1, <2>2 DEF Ends
    <3> QED BY <3>1, <3>2, <3>3
  <2> QED BY <2>1, <2>2
<1> QED BY <1>4, <1>5

\* A request that reads on, or is refused, leaves forms accounted for.
LEMMA ReadsHalf ==
  ASSUME Requested, HalfInv, ~edited, NEW h \in Handlers,
         Refused(h) \/ \E r : Passes(h, r) /\ Gathered(r) /\ ~req[h].kept
  PROVE  Accounted' /\ \A g \in Handlers : Gathered(req[g])'
<1>1. CASE Refused(h)
  <2>1. /\ Goes(h, Idle) /\ UNCHANGED <<questions, teachers, answers, told>>
        /\ broken \subseteq broken' /\ (req[h].kept => Form(h) \in broken')
    BY <1>1 DEF Refused, Ends, rows
  <2>2. Gathered(Idle)'
    BY DEF Gathered, Idle
  <2>3. Given \subseteq Given'
    BY <2>1 DEF Given
  <2>4. Accounted'
    BY <2>1, ReadsAccounted
  <2>5. \A g \in Handlers : Gathered(req[g])'
    BY <2>1, <2>2, <2>3, GoesGathered
  <2> QED BY <2>4, <2>5
<1>2. ASSUME NEW r, Passes(h, r), Gathered(r), ~req[h].kept
      PROVE  Accounted' /\ \A g \in Handlers : Gathered(req[g])'
  <2>1. Goes(h, r) /\ UNCHANGED <<questions, teachers, answers, told, broken>>
    BY <1>2 DEF Passes, rows
  <2>2. Given' = Given
    BY <2>1 DEF Given
  <2>3. Gathered(r)'
    BY <1>2, <2>1, <2>2, SameQuestions DEF Gathered
  <2>4. Accounted'
    BY <1>2, <2>1, ReadsAccounted
  <2>5. \A g \in Handlers : Gathered(req[g])'
    BY <2>1, <2>2, <2>3, GoesGathered
  <2> QED BY <2>4, <2>5
<1> QED BY <1>1, <1>2

\* The steps of sendAnswers.
LEMMA SendingHalf ==
  ASSUME Requested, HalfInv, ~edited, NEW h \in Handlers, Sending(h)
  PROVE  Accounted' /\ \A g \in Handlers : Gathered(req[g])'
<1> DEFINE Goal == Accounted' /\ \A g \in Handlers : Gathered(req[g])'
<1>t. Asked(req[h]) /\ Gathered(req[h])
  BY DEF Requested, HalfInv
<1>k. req[h].step # "write" => ~req[h].kept
  BY <1>t DEF Asked
<1>1. ASSUME NEW q \in Requests, sendAnswers(h, q[1], q[2], q[3]) PROVE Goal
  <2>1. PICK r : Goes(h, r) /\ r = [Idle EXCEPT !.step = "roles", !.user = q[1], !.dt = q[2], !.body = q[3]]
    BY <1>1 DEF sendAnswers
  <2>2. /\ UNCHANGED <<questions, teachers, answers, told, broken>> /\ req[h].step = "idle"
    BY <1>1 DEF sendAnswers, rows, Working
  <2>3. r.step = "roles"
    BY <2>1 DEF Idle
  <2>4. Gathered(r)'
    BY <2>3 DEF Gathered
  <2>5. Given \subseteq Given'
    BY <2>2 DEF Given
  <2>6. Accounted'
    BY <2>1, <2>2, <1>k, ReadsAccounted
  <2>7. \A g \in Handlers : Gathered(req[g])'
    BY <2>1, <2>2, <2>4, <2>5, GoesGathered
  <2> QED BY <2>6, <2>7
<1>2. CASE ReadRoles(h)
  <2>1. CASE Refused(h)
    BY <2>1, ReadsHalf
  <2>2. CASE /\ req[h].dt \in DOMAIN teachers
             /\ Passes(h, [req[h] EXCEPT !.step = "questions", !.roles = teachers[req[h].dt],
                             !.disciplineRoles = RolesIn(DisciplineOf[req[h].dt])])
    <3>1. PICK r, have : /\ Passes(h, r) /\ have = RolesIn(DisciplineOf[req[h].dt])
                         /\ r = [req[h] EXCEPT !.step = "questions", !.roles = teachers[req[h].dt],
                                    !.disciplineRoles = have]
      BY <2>2
    <3>2. /\ r.step = "questions" /\ r.dt = req[h].dt /\ r.roles = teachers[req[h].dt]
          /\ r.disciplineRoles = have
      BY <3>1, <1>t DEF Asked, Shaped
    <3>3. Gathered(r)
      BY <2>2, <3>1, <3>2 DEF Gathered
    <3> QED BY <1>2, <1>k, <3>1, <3>3, ReadsHalf DEF ReadRoles
  <2> QED BY <1>2, <2>1, <2>2 DEF ReadRoles
<1>3. CASE ReadQuestions(h)
  <2> DEFINE found == Restrict(questions, getQuestions(req[h].roles, req[h].disciplineRoles))
  <2>0. req[h].step = "questions"
    BY <1>3 DEF ReadQuestions
  <2>1. CASE Refused(h)
    BY <2>1, ReadsHalf
  <2>2. CASE /\ checkRequiredQuestions(found, req[h].body)
             /\ Passes(h, [req[h] EXCEPT !.step = After(req[h], "answered"), !.questions = found])
    <3>1. /\ req[h].dt \in DOMAIN teachers
          /\ getQuestions(req[h].roles, req[h].disciplineRoles) = getUniqueQuestions(req[h].dt)
      BY <2>0, <1>t DEF Gathered, getUniqueQuestions
    <3>2. Required(req[h].dt) \subseteq Range(req[h].body)
      <4>1. ASSUME NEW q \in Required(req[h].dt) PROVE q \in DOMAIN found /\ found[q] = questions[q]
        BY <3>1 DEF Required, Restrict, getQuestions, getUniqueQuestions
      <4> HIDE DEF found
      <4>2. ASSUME NEW q \in Required(req[h].dt) PROVE q \in Range(req[h].body)
        BY <2>2, <4>1 DEF checkRequiredQuestions, Required
      <4> QED BY <4>2
    <3>3. PICK r, all : Passes(h, r) /\ r = [req[h] EXCEPT !.step = After(req[h], "answered"), !.questions = all]
      BY <2>2
    <3>4. r.step \in {"answered", "removed"} /\ r.dt = req[h].dt /\ r.body = req[h].body
      BY <3>3, <1>t DEF Asked, Shaped, After
    <3>5. Gathered(r)
      BY <3>1, <3>2, <3>4 DEF Gathered
    <3> QED BY <2>0, <1>k, <3>3, <3>5, ReadsHalf
  <2> QED BY <1>3, <2>1, <2>2 DEF ReadQuestions
<1>4. ASSUME NEW r, Passes(h, r), req[h].step \in {"answered", "removed"},
             r.step \in {"answered", "removed", "rest"}, r.dt = req[h].dt, r.body = req[h].body
      PROVE  Goal
  <2>1. Gathered(r)
    BY <1>4, <1>t DEF Gathered
  <2> QED BY <1>4, <1>k, <2>1, ReadsHalf
<1>5. CASE checkAnsweredQuestion(h)
  <2>1. PICK step, at : /\ Refused(h) \/ Passes(h, [req[h] EXCEPT !.step = step, !.at = at])
                        /\ step \in {"answered", "removed"}
    BY <1>5, Zenon DEF checkAnsweredQuestion
  <2>2. CASE Refused(h)
    BY <2>2, ReadsHalf
  <2>3. CASE Passes(h, [req[h] EXCEPT !.step = step, !.at = at])
    <3>1. PICK r : Passes(h, r) /\ r = [req[h] EXCEPT !.step = step, !.at = at]
      BY <2>3
    <3>2. r.step = step /\ r.dt = req[h].dt /\ r.body = req[h].body
      BY <3>1, <1>t DEF Asked, Shaped
    <3> QED BY <1>4, <1>5, <2>1, <3>1, <3>2 DEF checkAnsweredQuestion
  <2> QED BY <2>1, <2>2, <2>3
<1>6. CASE checkIsRemoved(h)
  <2>1. CASE Refused(h)
    BY <2>1, ReadsHalf
  <2>2. CASE Passes(h, [req[h] EXCEPT !.step = "rest"])
    <3>1. PICK r : Passes(h, r) /\ r = [req[h] EXCEPT !.step = "rest"]
      BY <2>2
    <3>2. r.step = "rest" /\ r.dt = req[h].dt /\ r.body = req[h].body
      BY <3>1, <1>t DEF Asked, Shaped
    <3> QED BY <1>4, <1>6, <3>1, <3>2 DEF checkIsRemoved
  <2> QED BY <1>6, <2>1, <2>2 DEF checkIsRemoved
<1>7. CASE checkTheRest(h)
  <2>1. CASE Refused(h)
    BY <2>1, ReadsHalf
  <2>2. CASE Passes(h, [req[h] EXCEPT !.step = "write"])
    <3>1. PICK r : Passes(h, r) /\ r = [req[h] EXCEPT !.step = "write"]
      BY <2>2
    <3>2. /\ r.step = "write" /\ r.dt = req[h].dt /\ r.body = req[h].body /\ r.user = req[h].user
          /\ r.at = req[h].at /\ r.kept = req[h].kept
      BY <3>1, <1>t DEF Asked, Shaped
    <3>3. req[h].step = "rest" /\ req[h].at = 1 /\ ~req[h].kept
      BY <1>7, <1>k, <1>t DEF checkTheRest, Asked
    <3>4. Gathered(r)
      BY <3>2, <3>3, <1>t DEF Gathered
    <3> QED BY <3>1, <3>3, <3>4, ReadsHalf
  <2> QED BY <1>7, <2>1, <2>2 DEF checkTheRest
<1>8. CASE verifyResponse(h)
  <2>1. req[h].step = "write" /\ UNCHANGED <<questions, teachers, answers>>
    BY <1>8 DEF verifyResponse
  <2>2. CASE told' = told \cup {Row(h)} /\ (Kept(h) \/ Ends(h, [req[h] EXCEPT !.kept = TRUE], FALSE))
    <3>1. Given' = Given \cup {Row(h)}
      BY <2>1, <2>2 DEF Given
    <3> QED BY <2>1, <2>2, <3>1, WritesAccounted
  <2>3. CASE UNCHANGED told /\ Ends(h, req[h], FALSE)
    <3>1. Refused(h) \/ (/\ Goes(h, Idle) /\ UNCHANGED <<questions, teachers, answers, told>>
                         /\ broken \subseteq broken' /\ (req[h].kept => Form(h) \in broken'))
      BY <2>1, <2>3 DEF Ends
    <3>2. CASE Refused(h)
      BY <3>2, ReadsHalf
    <3>3. CASE /\ Goes(h, Idle) /\ UNCHANGED <<questions, teachers, answers, told>>
               /\ broken \subseteq broken' /\ (req[h].kept => Form(h) \in broken')
      <4>1. Gathered(Idle)' /\ Given \subseteq Given'
        BY <3>3 DEF Gathered, Idle, Given
      <4>2. Accounted'
        BY <3>3, ReadsAccounted
      <4>3. \A g \in Handlers : Gathered(req[g])'
        BY <3>3, <4>1, GoesGathered
      <4> QED BY <4>2, <4>3
    <3> QED BY <3>1, <3>2, <3>3
  <2> QED BY <1>8, <2>2, <2>3 DEF verifyResponse
<1>9. CASE createAnswer(h)
  <2>1. CASE Refused(h)
    BY <2>1, ReadsHalf
  <2>2. CASE answers' = answers \cup {Row(h)} /\ Kept(h) /\ UNCHANGED <<questions, teachers, told>>
    <3>1. Given' = Given \cup {Row(h)}
      BY <2>2 DEF Given
    <3> QED BY <1>9, <2>2, <3>1, WritesAccounted DEF createAnswer
  <2> QED BY <1>9, <2>1, <2>2 DEF createAnswer
<1> QED BY <1>1, <1>2, <1>3, <1>5, <1>6, <1>7, <1>8, <1>9 DEF Sending

\* The rows' edits: as long as edited is false there was nothing to disturb.
LEMMA EditingHalf ==
  ASSUME Types, HalfInv, Editing
  PROVE  HalfInv'
<1>1. Edit /\ UNCHANGED <<told, req>> /\ answers' \subseteq answers
  BY DEF Editing, createQuestion, updateQuestion, giveRole, deleteRole, deleteQuestion,
         createDisciplineTeacher, updateDisciplineTeacher, deleteDisciplineTeacher, EditQuestions, Edit
<1>2. ASSUME ~edited' PROVE Given' = {} /\ \A h \in Handlers : req'[h].step = "idle"
  <2>1. answers = {} /\ told = {} /\ \A h \in Handlers : ~Working(h)
    BY <1>1, <1>2 DEF Edit
  <2> QED BY <2>1, <1>1 DEF Given, Working
<1>3. ASSUME ~edited' PROVE Accounted'
  BY <1>2, <1>3 DEF Accounted, HalfGiven, Given
<1>4. ASSUME ~edited', NEW h \in Handlers PROVE Gathered(req[h])'
  BY <1>2, <1>4 DEF Gathered
<1> QED BY <1>3, <1>4 DEF HalfInv

\* The server stops: what was past its first answer is noted.
LEMMA StopHalf ==
  ASSUME Types, HalfInv, Stop
  PROVE  HalfInv'
<1> SUFFICES ASSUME ~edited PROVE Accounted' /\ \A h \in Handlers : Gathered(req[h])'
  BY DEF HalfInv, Stop
<1>1. /\ UNCHANGED <<questions, teachers, answers, told>> /\ req' = [h \in Handlers |-> Idle]
      /\ broken' = broken \cup {Form(h) : h \in {k \in Handlers : req[k].kept}}
  BY DEF Stop, rows
<1>2. ASSUME NEW d \in DOMAIN teachers, NEW user \in Users, HalfGiven(d, user)'
      PROVE  <<d, user>> \in broken'
  <2>1. HalfGiven(d, user)
    BY <1>1, <1>2, SameForm DEF Given
  <2> QED BY <1>1, <2>1 DEF HalfInv, Accounted
<1>3. Accounted'
  BY <1>1, <1>2 DEF Accounted
<1>4. \A h \in Handlers : Gathered(req[h])'
  BY <1>1 DEF Gathered, Idle
<1> QED BY <1>3, <1>4

\* Steps that change no request and take nothing away.
LEMMA OthersHalf ==
  ASSUME Types, HalfInv, UNCHANGED <<questions, teachers, req, broken, edited>>, Given' = Given
  PROVE  HalfInv'
<1> SUFFICES ASSUME ~edited PROVE Accounted' /\ \A h \in Handlers : Gathered(req[h])'
  BY DEF HalfInv
<1>1. Accounted'
  <2> SUFFICES ASSUME NEW d \in DOMAIN teachers, NEW user \in Users, HalfGiven(d, user)'
               PROVE  <<d, user>> \in broken \/ \E g \in Handlers : Form(g) = <<d, user>> /\ req[g].kept
    BY DEF Accounted, Form
  <2>1. HalfGiven(d, user)
    BY SameForm
  <2> QED BY <2>1 DEF HalfInv, Accounted
<1>2. \A h \in Handlers : Gathered(req[h])'
  <2> SUFFICES ASSUME NEW h \in Handlers PROVE Gathered(req[h])'
    OBVIOUS
  <2>1. PICK r : r = req[h] /\ r = req'[h]
    OBVIOUS
  <2>2. Gathered(r)
    BY <2>1 DEF HalfInv
  <2>3. Gathered(r)'
    BY <2>2, SameQuestions DEF Gathered
  <2> QED BY <2>1, <2>3 DEF Gathered
<1> QED BY <1>1, <1>2

LEMMA HalfKept == Types /\ HalfInv /\ [Next]_vars => HalfInv'
<1> SUFFICES ASSUME Types, HalfInv, [Next]_vars PROVE HalfInv'
  OBVIOUS
<1>1. ASSUME NEW h \in Handlers, Sending(h) PROVE HalfInv'
  <2>1. UNCHANGED edited
    BY <1>1 DEF Sending, sendAnswers, ReadRoles, ReadQuestions, checkAnsweredQuestion, checkIsRemoved,
                checkTheRest, verifyResponse, createAnswer, Refused, Passes
  <2> QED BY <1>1, <2>1, SendingHalf DEF HalfInv, Types
<1>2. ASSUME NEW row \in told, sendResponse(row) PROVE HalfInv'
  <2>1. Given' = Given /\ UNCHANGED <<questions, teachers, req, broken, edited>>
    BY <1>2 DEF sendResponse, Given
  <2> QED BY <2>1, OthersHalf
<1>3. ASSUME NEW user \in Users, NEW d \in DOMAIN teachers, removeFromPoll(user, d) PROVE HalfInv'
  <2>1. Given' = Given /\ UNCHANGED <<questions, teachers, req, broken, edited>>
    BY <1>3 DEF removeFromPoll, Given
  <2> QED BY <2>1, OthersHalf
<1>4. CASE Tick
  <2>1. Given' = Given /\ UNCHANGED <<questions, teachers, req, broken, edited>>
    BY <1>4 DEF Tick, rows, Given
  <2> QED BY <2>1, OthersHalf
<1>5. CASE UNCHANGED vars
  <2>1. Given' = Given /\ UNCHANGED <<questions, teachers, req, broken, edited>>
    BY <1>5 DEF vars, Given
  <2> QED BY <2>1, OthersHalf
<1> QED BY <1>1, <1>2, <1>3, <1>4, <1>5, EditingHalf, StopHalf DEF Next

\* A form is left half answered only by a request that ended between its answers, by an
\* edit of what is asked or for texts that reached the moderators, however many students answer about whatever questions and
\* wherever the requests cross, fail or are lost.
THEOREM FormsAreWhole == Spec => []NoHalfForms
<1>1. Init => HalfInv
  BY DEF Init, HalfInv, Accounted, HalfGiven, Gathered, Idle
<1>2. Types /\ HalfInv /\ [Next]_vars => (Types /\ HalfInv)'
  BY TypesKept, HalfKept
<1>3. Spec => [](Types /\ HalfInv)
  BY TypesInit, <1>1, <1>2, PTL DEF Spec
<1>4. Types /\ HalfInv => NoHalfForms
  <2> SUFFICES ASSUME Types, HalfInv, ~edited, NEW d \in DOMAIN teachers, NEW user \in Users,
                      HalfAnswered(d, user), NEW p \in Lacking(d, user), <<d, user, p>> \notin told
               PROVE  \/ <<d, user>> \in broken
                      \/ \E h \in Handlers : Form(h) = <<d, user>> /\ req[h].step = "write"
    BY DEF NoHalfForms
  <2>1. HalfGiven(d, user)
    BY DEF HalfAnswered, Lacking, HalfGiven
  <2> QED BY <2>1 DEF Types, Requested, Asked, HalfInv, Accounted
<1> QED BY <1>3, <1>4, PTL

-----------------------------------------------------------------------------
(* The two lists of teachers *)

\* The calendar the lists agree under: semesters begin in their order, there is a last
\* one of those that have begun at every moment, and disciplines are of semesters that
\* have their dates.
Calendar ==
  /\ \A s, t \in SemesterDates : s.startDate <= t.startDate <=> Half(s) <= Half(t)
  /\ \A i \in 1..Len(Times) : \E s \in getAllPreviousSemesters(Times[i]) :
       \A t \in getAllPreviousSemesters(Times[i]) : t.startDate <= s.startDate
  /\ \A t \in Teachers : \E s \in SemesterDates :
       s.year = DisciplineOf[t].year /\ s.semester = DisciplineOf[t].semester

\* The semesters taken one by one and the halves of years compared are the same.
LEMMA PreviousAgree ==
  ASSUME Calendar, Rows, NEW d \in Teachers
  PROVE  isPreviousSemester(now, DisciplineOf[d])
         <=> \E s \in getPreviousSemesters(now, TRUE) :
               DisciplineOf[d].year = s.year /\ DisciplineOf[d].semester = s.semester
<1> DEFINE begun == getAllPreviousSemesters(now)
           last == getCurrentSemester(now)
           x == DisciplineOf[d]
<1>1. last \in begun /\ \A t \in begun : t.startDate <= last.startDate
  <2>1. \E s \in begun : \A t \in begun : t.startDate <= s.startDate
    BY DEF Calendar, Rows, now
  <2> QED BY <2>1 DEF getCurrentSemester, Newest
<1>2. PICK e \in SemesterDates : e.year = x.year /\ e.semester = x.semester
  BY DEF Calendar
<1>3. \A s \in SemesterDates : /\ s.year \in Nat /\ s.semester \in {1, 2} /\ s.startDate \in Nat
                               /\ Half(s) = 2 * s.year + s.semester - 1
  BY SemesterDatesAssumption DEF Half
<1>4. Half(x) = Half(e)
  BY <1>2 DEF Half
<1>5. begun \subseteq SemesterDates /\ (e \in begun <=> e.startDate <= now)
  BY DEF getAllPreviousSemesters
<1> HIDE DEF last, begun
<1>6. ASSUME NEW s \in SemesterDates, s.year = x.year, s.semester = x.semester PROVE s = e
  <2>1. Half(s) = Half(e) /\ Half(s) \in Int
    BY <1>2, <1>3, <1>6
  <2>2. s.startDate <= e.startDate /\ e.startDate <= s.startDate
    BY <2>1 DEF Calendar
  <2> QED BY <2>2, <1>3, <1>6, SemesterDatesAssumption
<1>7. (\E s \in begun : x.year = s.year /\ x.semester = s.semester) <=> e \in begun
  BY <1>2, <1>5, <1>6
<1>8. now \in Nat
  BY PollsAssumption DEF Rows, now
<1>9. last \in SemesterDates /\ last.startDate <= now /\ (e \in begun => e.startDate <= last.startDate)
  BY <1>1, <1>5 DEF getAllPreviousSemesters, begun
<1>10. /\ Half(e) \in Int /\ Half(last) \in Int /\ e.startDate \in Nat /\ last.startDate \in Nat
       /\ (e.startDate <= last.startDate <=> Half(e) <= Half(last))
       /\ (last.startDate <= e.startDate <=> Half(last) <= Half(e))
  BY <1>3, <1>9, SMTT(40) DEF Calendar
<1>11. e.startDate = last.startDate => e = last
  BY <1>9, SemesterDatesAssumption
<1>12. isPreviousSemester(now, x) <=> IF isFinished(now) THEN Half(e) <= Half(last) ELSE Half(e) < Half(last)
  BY <1>4 DEF isPreviousSemester, last
<1>13. CASE isFinished(now)
  <2>1. getPreviousSemesters(now, TRUE) = begun
    BY <1>13 DEF getPreviousSemesters, begun
  <2>2. e \in begun <=> Half(e) <= Half(last)
    BY <1>5, <1>8, <1>9, <1>10
  <2> QED BY <1>7, <1>12, <1>13, <2>1, <2>2
<1>14. CASE ~isFinished(now)
  <2>1. getPreviousSemesters(now, TRUE) = begun \ {last}
    BY <1>14 DEF getPreviousSemesters, begun, last, isFinished
  <2>2. (e \in begun /\ e # last) <=> Half(e) < Half(last)
    BY <1>5, <1>8, <1>9, <1>10, <1>11
  <2>3. (\E s \in begun \ {last} : x.year = s.year /\ x.semester = s.semester) <=> e \in begun /\ e # last
    BY <1>2, <1>5, <1>6
  <2> QED BY <1>12, <1>14, <2>1, <2>2, <2>3
<1> QED BY <1>13, <1>14

\* While the calendar is kept, the list of PollService and that of TeacherService name the
\* same teachers but for a student who chose nothing in a semester, and of those of either
\* list nothing refuses an approved student's answers while the poll is open.
THEOREM TeachersListedAgree == ASSUME Calendar PROVE Spec => []ListsAgree
<1>1. ASSUME Types PROVE ListsAgree
  <2> SUFFICES ASSUME NEW user \in Users
               PROVE  /\ getDisciplineTeachers(user) \subseteq getUserDisciplineTeachers(user, TRUE)
                      /\ \A d \in getUserDisciplineTeachers(user, TRUE) \ getDisciplineTeachers(user) :
                           DisciplineOf[d].isSelective /\ SelectedIn(user, DisciplineOf[d]) = {}
                      /\ user \in Approved /\ checkSendingTime =>
                           \A d \in getUserDisciplineTeachers(user, TRUE) :
                             /\ <<d, user>> \notin removed /\ getForm(user, d)
                             /\ Admissible([Idle EXCEPT !.user = user, !.dt = d])
    BY DEF ListsAgree
  <2>1. \A d \in DOMAIN teachers :
          /\ d \in Teachers /\ DisciplineOf[d] \in Disciplines
          /\ isPreviousSemester(now, DisciplineOf[d])
             <=> \E s \in getPreviousSemesters(now, TRUE) :
                   DisciplineOf[d].year = s.year /\ DisciplineOf[d].semester = s.semester
    BY <1>1, Calendar, PreviousAgree, PollsAssumption DEF Types, Rows, Disciplines, Range
  <2>2. ASSUME NEW d \in getDisciplineTeachers(user) PROVE d \in getUserDisciplineTeachers(user, TRUE)
    <3>1. ~isNotSelectedByUser(user, DisciplineOf[d])
      BY <2>1 DEF getDisciplineTeachers, isNotSelectedByUser, SelectedIn
    <3> QED BY <2>1, <3>1 DEF getDisciplineTeachers, getUserDisciplineTeachers
  <2>3. ASSUME NEW d \in getUserDisciplineTeachers(user, TRUE) \ getDisciplineTeachers(user)
        PROVE  DisciplineOf[d].isSelective /\ SelectedIn(user, DisciplineOf[d]) = {}
    <3>1. DisciplineOf[d].isSelective /\ <<user, DisciplineOf[d].id>> \notin selected
      BY <2>1 DEF getDisciplineTeachers, getUserDisciplineTeachers
    <3> QED BY <3>1 DEF getUserDisciplineTeachers, isNotSelectedByUser, SelectedIn
  <2>4. ASSUME user \in Approved, checkSendingTime, NEW d \in getUserDisciplineTeachers(user, TRUE)
        PROVE  /\ <<d, user>> \notin removed /\ getForm(user, d)
               /\ Admissible([Idle EXCEPT !.user = user, !.dt = d])
    <3>1. PICK r : r = [Idle EXCEPT !.user = user, !.dt = d]
      OBVIOUS
    <3>2. r.body = << >> /\ r.user = user /\ r.dt = d
      BY <3>1 DEF Idle
    <3>3. checkIsUnique(r.body)
      BY <3>2 DEF checkIsUnique, IsInjective
    <3>4. Admissible(r)
      BY <2>4, <3>2, <3>3 DEF Admissible, getUserDisciplineTeachers
    <3> QED BY <2>4, <3>1, <3>4 DEF getUserDisciplineTeachers, getForm
  <2> QED BY <2>2, <2>3, <2>4
<1> QED BY <1>1, TypesAlways, PTL
=============================================================================
