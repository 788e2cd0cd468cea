-------------------------------- MODULE Polls --------------------------------
(***************************************************************************)
(* The poll about teachers: DisciplineTeacherService.sendAnswers at its    *)
(* awaits, the bot's sendResponse, removeFromPoll, the lists of teachers   *)
(* left to judge, and the editing of questions and of teachers' roles that *)
(* goes on meanwhile.  The server may stop at any moment.                  *)
(***************************************************************************)
EXTENDS Dates, FiniteSets, Sequences, Functions

CONSTANTS
  Users,           \* students, all of one group
  Approved,        \* those whose state is APPROVED
  Teachers,        \* ids of discipline teachers
  DisciplineOf,    \* their disciplines: [id, year, semester, isSelective]
  Questions,       \* ids of questions
  QuestionForms,   \* what a question may be: [type, isRequired, questionRoles]
  RoleSets,        \* roles a discipline teacher may be given
  FirstQuestions, FirstTeachers,   \* the rows there are at the start
  PollDates,       \* the date variables START_POLL and END_POLL: [year, semester, start, end]
  Times,           \* moments of interest, an increasing sequence
  Selections,      \* what students may have chosen: sets of <<user, discipline id>>
  Requests,        \* who answers what about whom: <<user, teacher, sequence of questions>>
  Handlers,        \* requests in progress at a time
  MaxRequests,     \* bound on requests of students
  MaxEdits         \* bound on edits of questions and of teachers

ASSUME PollsAssumption ==
  /\ Requests \subseteq Users \X Teachers \X Seq(Questions)
  /\ DOMAIN FirstQuestions \subseteq Questions /\ DOMAIN FirstTeachers \subseteq Teachers
  /\ \A s \in Selections : s \subseteq Users \X {DisciplineOf[t].id : t \in Teachers}
  /\ DOMAIN DisciplineOf = Teachers
  /\ Times \in Seq(Nat) /\ Times # << >>

VARIABLES
  clock,       \* index in Times
  selected,    \* <<user, discipline id>>: rows of SelectiveDiscipline
  questions,   \* rows of Question with their QuestionRoles
  teachers,    \* rows of DisciplineTeacher: their roles
  removed,     \* rows of RemovedDisciplineTeacher
  answers,     \* rows of QuestionAnswer
  told,        \* texts that reached the moderators' chat
  req,         \* what each handler works on
  sent,        \* requests of students so far
  edits,       \* edits so far
  broken,      \* forms of requests that ended after their first answer was kept or posted
  edited,      \* whether an edit came after the first answer or crossed a request
  spent        \* ids of rows deleted: an id is given once

vars == <<clock, selected, questions, teachers, removed, answers, told, req, sent, edits, broken,
          edited, spent>>
rows == <<questions, teachers, spent, removed, answers, told>>

now == Times[clock]
Disciplines == Range(DisciplineOf)
Ids == {d.id : d \in Disciplines}

Idle == [step |-> "idle", user |-> "none", dt |-> "none", body |-> << >>, roles |-> {},
         disciplineRoles |-> {}, questions |-> << >>, at |-> 1, kept |-> FALSE]

Steps == {"idle", "roles", "questions", "answered", "removed", "rest", "write"}

Init ==
  /\ clock = 1
  /\ selected \in Selections
  /\ questions = FirstQuestions /\ teachers = FirstTeachers
  /\ removed = {} /\ answers = {} /\ told = {}
  /\ req = [h \in Handlers |-> Idle]
  /\ sent = 0 /\ edits = 0 /\ broken = {} /\ edited = FALSE /\ spent = {}

-----------------------------------------------------------------------------
(* What the services ask of the database *)

\* Questions shown for one of a teacher's roles, and required of no role that the
\* discipline's teachers lack.
getQuestions(roles, disciplineRoles) ==
  {q \in DOMAIN questions :
     /\ \E r \in questions[q].questionRoles : r.isShown /\ r.role \in roles
     /\ ~\E r \in questions[q].questionRoles : r.isRequired /\ r.role \notin disciplineRoles}
RolesIn(discipline) == UNION {teachers[d] : d \in {t \in DOMAIN teachers : DisciplineOf[t] = discipline}}
getUniqueQuestions(d) == getQuestions(teachers[d], RolesIn(DisciplineOf[d]))

getPollTimeBorders ==
  LET s == getCurrentSemester(now)
  IN IF isFinished(now) THEN [year |-> s.year, semester |-> s.semester]
     ELSE getPreviousSemester(s.semester, s.year)
\* Without the variables the code fails on null.
checkSendingTime ==
  \E p \in PollDates :
    /\ p.year = getPollTimeBorders.year /\ p.semester = getPollTimeBorders.semester
    /\ p.start <= now /\ now <= p.end

SelectedIn(user, s) ==
  {d \in Disciplines : <<user, d.id>> \in selected /\ d.year = s.year /\ d.semester = s.semester}
isNotSelectedByUser(user, discipline) ==
  /\ discipline.isSelective
  /\ SelectedIn(user, discipline) # {} /\ discipline \notin SelectedIn(user, discipline)

AnsweredBy(user, d) == \E q \in Questions : <<d, user, q>> \in answers

\* PollService.getDisciplineTeachers.  Its test `if (selected)` asks an array, which is
\* never false: selective disciplines are always narrowed to the chosen ones.  At its end
\* it asks for the newest of the semesters, and fails when there is none.
getDisciplineTeachersFails == getPreviousSemesters(now, TRUE) = {}
getDisciplineTeachers(user) ==
  {d \in DOMAIN teachers :
     /\ \E s \in getPreviousSemesters(now, TRUE) :
          DisciplineOf[d].year = s.year /\ DisciplineOf[d].semester = s.semester
     /\ DisciplineOf[d].isSelective => <<user, DisciplineOf[d].id>> \in selected
     /\ <<d, user>> \notin removed /\ ~AnsweredBy(user, d)}

\* TeacherService.getUserDisciplineTeachers, over all the teachers.
getUserDisciplineTeachers(user, notAnswered) ==
  {d \in DOMAIN teachers :
     /\ notAnswered => ~AnsweredBy(user, d)
     /\ isPreviousSemester(now, DisciplineOf[d])
     /\ ~isNotSelectedByUser(user, DisciplineOf[d]) /\ <<d, user>> \notin removed}

\* The page of a form opens while nothing of it is answered and the poll is open.
getForm(user, d) == ~AnsweredBy(user, d) /\ checkSendingTime

-----------------------------------------------------------------------------
(* sendAnswers *)

Form(h) == <<req[h].dt, req[h].user>>
Row(h) == <<req[h].dt, req[h].user, req[h].body[req[h].at]>>
Working(h) == req[h].step # "idle"

Goes(h, r) == req' = [req EXCEPT ![h] = r]
\* The end of a request; one that ends between its answers leaves a broken form.
Ends(h, r, whole) ==
  /\ Goes(h, Idle)
  /\ broken' = IF r.kept /\ ~whole THEN broken \cup {Form(h)} ELSE broken
Refused(h) == Ends(h, req[h], FALSE) /\ UNCHANGED <<rows, clock, selected, sent, edits, edited>>
Passes(h, r) == Goes(h, r) /\ UNCHANGED <<rows, clock, selected, sent, edits, broken, edited>>

\* The request is past its pipes: the teacher and the questions were there.
sendAnswers(h, user, d, body) ==
  /\ ~Working(h)
  /\ d \in DOMAIN teachers /\ Range(body) \subseteq DOMAIN questions
  /\ sent < MaxRequests /\ sent' = sent + 1
  /\ Goes(h, [Idle EXCEPT !.step = "roles", !.user = user, !.dt = d, !.body = body])
  /\ UNCHANGED <<rows, clock, selected, edits, broken, edited>>

ReadRoles(h) ==
  /\ req[h].step = "roles"
  /\ IF req[h].dt \notin DOMAIN teachers THEN Refused(h)
     ELSE Passes(h, [req[h] EXCEPT !.step = "questions", !.roles = teachers[req[h].dt],
                     !.disciplineRoles = RolesIn(DisciplineOf[req[h].dt])])

checkExcessiveQuestions(found, body) == Range(body) \subseteq DOMAIN found
\* Variant: only the questions required of a role count.
RequiredOfRoles(found, body) ==
  \A q \in DOMAIN found : (\E r \in found[q].questionRoles : r.isRequired) => q \in Range(body)
checkRequiredQuestions(found, body) == \A q \in DOMAIN found : found[q].isRequired => q \in Range(body)
checkIsUnique(body) == IsInjective(body)

After(r, step) == IF r.body = << >> THEN "removed" ELSE step
ReadQuestions(h) ==
  /\ req[h].step = "questions"
  /\ LET found == Restrict(questions, getQuestions(req[h].roles, req[h].disciplineRoles))
     IN IF checkExcessiveQuestions(found, req[h].body) /\ checkRequiredQuestions(found, req[h].body)
        THEN Passes(h, [req[h] EXCEPT !.step = After(req[h], "answered"), !.questions = found])
        ELSE Refused(h)

Last(h) == req[h].at = Len(req[h].body)
checkAnsweredQuestion(h) ==
  /\ req[h].step = "answered"
  /\ IF Row(h) \in answers THEN Refused(h)
     ELSE Passes(h, [req[h] EXCEPT !.step = IF Last(h) THEN "removed" ELSE "answered",
                     !.at = IF Last(h) THEN 1 ELSE @ + 1])

\* Variant: the removals of another student are asked for.
checkIsRemovedByOther(h) ==
  /\ req[h].step = "removed"
  /\ IF \E u \in Users \ {req[h].user} : <<req[h].dt, u>> \in removed THEN Refused(h)
     ELSE Passes(h, [req[h] EXCEPT !.step = "rest"])
checkIsRemoved(h) ==
  /\ req[h].step = "removed"
  /\ IF Form(h) \in removed THEN Refused(h)
     ELSE Passes(h, [req[h] EXCEPT !.step = "rest"])

\* Nothing these read changes but the clock and the teacher, one moment for them all.
Admissible(r) ==
  /\ checkIsUnique(r.body) /\ checkSendingTime /\ r.user \in Approved
  /\ r.dt \in DOMAIN teachers
  /\ ~isNotSelectedByUser(r.user, DisciplineOf[r.dt]) /\ isPreviousSemester(now, DisciplineOf[r.dt])
checkTheRest(h) ==
  /\ req[h].step = "rest"
  /\ IF ~Admissible(req[h]) \/ req[h].body = << >> THEN Refused(h)
     ELSE Passes(h, [req[h] EXCEPT !.step = "write"])

\* One answer is kept, and the request goes on to the next one.
Kept(h) ==
  IF Last(h) THEN Ends(h, req[h], TRUE)
  ELSE Goes(h, [req[h] EXCEPT !.at = @ + 1, !.kept = TRUE]) /\ UNCHANGED broken

IsText(h) == req[h].questions[req[h].body[req[h].at]].type = "TEXT"

\* The text is posted to the moderators' chat; the call fails before or after that.
verifyResponse(h) ==
  /\ req[h].step = "write" /\ IsText(h)
  /\ \/ told' = told \cup {Row(h)} /\ Kept(h)
     \/ told' = told \cup {Row(h)} /\ Ends(h, [req[h] EXCEPT !.kept = TRUE], FALSE)
     \/ UNCHANGED told /\ Ends(h, req[h], FALSE)
  /\ UNCHANGED <<questions, teachers, spent, removed, answers, clock, selected, sent, edits, edited>>

\* The row needs its teacher and its question, and its key is the three of them.
CanStore(row) == row \notin answers /\ row[1] \in DOMAIN teachers /\ row[3] \in DOMAIN questions
createAnswer(h) ==
  /\ req[h].step = "write" /\ ~IsText(h)
  /\ IF CanStore(Row(h))
     THEN /\ answers' = answers \cup {Row(h)} /\ Kept(h)
          /\ UNCHANGED <<questions, teachers, spent, removed, told, clock, selected, sent, edits, edited>>
     ELSE Refused(h)

\* The bot brings back a text a moderator let through; a second time it is refused.
sendResponse(row) ==
  /\ row \in told /\ CanStore(row)
  /\ answers' = answers \cup {row}
  /\ UNCHANGED <<questions, teachers, spent, removed, told, clock, selected, req, sent, edits, broken,
                 edited>>

\* Without a check of its own: a second removal is refused by the key.
removeFromPoll(user, d) ==
  /\ d \in DOMAIN teachers /\ <<d, user>> \notin removed
  /\ ~isNotSelectedByUser(user, DisciplineOf[d])
  /\ sent < MaxRequests /\ sent' = sent + 1
  /\ removed' = removed \cup {<<d, user>>}
  /\ UNCHANGED <<questions, teachers, spent, answers, told, clock, selected, req, edits, broken, edited>>

-----------------------------------------------------------------------------
(* Editing of questions and of teachers *)

Edit ==
  /\ edits < MaxEdits /\ edits' = edits + 1
  /\ edited' = (edited \/ answers # {} \/ told # {} \/ \E h \in Handlers : Working(h))
  /\ UNCHANGED <<clock, selected, told, req, sent, broken>>

EditQuestions(new) == Edit /\ questions' = new /\ UNCHANGED <<teachers, removed, answers, spent>>
\* A function with one more argument.
Added(f, x, y) == [z \in DOMAIN f \cup {x} |-> IF z = x THEN y ELSE f[z]]

createQuestion(q, form) ==
  /\ q \in Questions \ (DOMAIN questions \cup spent)
  /\ EditQuestions(Added(questions, q, form))
\* The roles come along or stay as they are.
updateQuestion(q, form, withRoles) ==
  EditQuestions([questions EXCEPT ![q] =
    IF withRoles THEN form ELSE [form EXCEPT !.questionRoles = questions[q].questionRoles]])
giveRole(q, r) ==
  /\ \A s \in questions[q].questionRoles : s.role # r.role
  /\ EditQuestions([questions EXCEPT ![q].questionRoles = @ \cup {r}])
deleteRole(q, r) ==
  /\ r \in questions[q].questionRoles
  /\ EditQuestions([questions EXCEPT ![q].questionRoles = @ \ {r}])
\* The answers go with their question.
deleteQuestion(q) ==
  /\ Edit /\ questions' = Restrict(questions, DOMAIN questions \ {q})
  /\ answers' = {a \in answers : a[3] # q} /\ spent' = spent \cup {q}
  /\ UNCHANGED <<teachers, removed>>

createDisciplineTeacher(d, roles) ==
  /\ d \notin DOMAIN teachers \cup spent
  /\ Edit /\ teachers' = Added(teachers, d, roles)
  /\ UNCHANGED <<questions, removed, answers, spent>>
updateDisciplineTeacher(d, roles) ==
  /\ Edit /\ teachers' = [teachers EXCEPT ![d] = roles]
  /\ UNCHANGED <<questions, removed, answers, spent>>
\* The answers and the removals go with their teacher.
deleteDisciplineTeacher(d) ==
  /\ Edit /\ teachers' = Restrict(teachers, DOMAIN teachers \ {d})
  /\ answers' = {a \in answers : a[1] # d} /\ removed' = {f \in removed : f[1] # d}
  /\ spent' = spent \cup {d} /\ UNCHANGED questions

Tick ==
  /\ clock < Len(Times) /\ clock' = clock + 1
  /\ UNCHANGED <<rows, selected, req, sent, edits, broken, edited>>

\* The server stops: the requests are lost, what they wrote is not.
Stop ==
  /\ \E h \in Handlers : Working(h)
  /\ req' = [h \in Handlers |-> Idle]
  /\ broken' = broken \cup {Form(h) : h \in {k \in Handlers : req[k].kept}}
  /\ UNCHANGED <<rows, clock, selected, sent, edits, edited>>

Sending(h) ==
  \/ \E r \in Requests : sendAnswers(h, r[1], r[2], r[3])
  \/ ReadRoles(h) \/ ReadQuestions(h) \/ checkAnsweredQuestion(h) \/ checkIsRemoved(h)
  \/ checkTheRest(h) \/ verifyResponse(h) \/ createAnswer(h)

Editing ==
  \/ \E q \in Questions, form \in QuestionForms : createQuestion(q, form)
  \/ \E q \in DOMAIN questions :
       \/ \E form \in QuestionForms, withRoles \in BOOLEAN : updateQuestion(q, form, withRoles)
       \/ \E form \in QuestionForms : \E r \in form.questionRoles : giveRole(q, r) \/ deleteRole(q, r)
       \/ deleteQuestion(q)
  \/ \E d \in Teachers, roles \in RoleSets : createDisciplineTeacher(d, roles)
  \/ \E d \in DOMAIN teachers :
       (\E roles \in RoleSets : updateDisciplineTeacher(d, roles)) \/ deleteDisciplineTeacher(d)

Next ==
  \/ \E h \in Handlers : Sending(h)
  \/ \E row \in told : sendResponse(row)
  \/ \E user \in Users, d \in DOMAIN teachers : removeFromPoll(user, d)
  \/ Editing \/ Tick \/ Stop

Spec == Init /\ [][Next]_vars

-----------------------------------------------------------------------------
(* Properties *)

\* Every row has its columns, and every request is somewhere sendAnswers can be.
TypeOK ==
  /\ clock \in 1..Len(Times) /\ selected \subseteq Users \X Ids
  /\ DOMAIN questions \subseteq Questions /\ DOMAIN teachers \subseteq Teachers
  /\ \A a \in answers : a[1] \in DOMAIN teachers /\ a[2] \in Users /\ a[3] \in DOMAIN questions
  /\ \A f \in removed : f[1] \in DOMAIN teachers /\ f[2] \in Users
  /\ told \subseteq Teachers \X Users \X Questions
  /\ \A h \in Handlers :
       /\ req[h].step \in Steps
       /\ Working(h) => req[h].dt \in Teachers /\ req[h].user \in Users
       /\ req[h].step \in {"answered", "write"} => req[h].at \in 1..Len(req[h].body)
       /\ req[h].kept => req[h].step = "write"

\* A required question of a form has no answer stored while another one has.
Required(d) == {q \in getUniqueQuestions(d) : questions[q].isRequired}
Lacking(d, user) == {q \in Required(d) : <<d, user, q>> \notin answers}
HalfAnswered(d, user) == Lacking(d, user) # {} /\ Lacking(d, user) # Required(d)

\* A form is left half answered, so that the questions still required are refused as too
\* few and all of them as already answered, only by a request that ended between its
\* answers, by an edit of what is asked, or for texts that reached the moderators and that
\* they have not let through: no request stores those, and one they decline the student
\* cannot send again (DisciplineTeacherService.ts:53-91).
NoHalfForms ==
  \A d \in DOMAIN teachers, user \in Users :
    HalfAnswered(d, user) =>
      \/ edited \/ <<d, user>> \in broken
      \/ \E h \in Handlers : Form(h) = <<d, user>> /\ req[h].step = "write"
      \/ \A q \in Lacking(d, user) : <<d, user, q>> \in told

\* The two lists of teachers left to judge agree where the first opens, which is after
\* the first of the semesters, but for a student who chose nothing in a semester, and whom
\* the first shows nothing selective of it; and while the poll is
\* open nothing but the answers themselves refuses an approved student who answers about
\* a teacher of either (PollService.ts:222-295, TeacherService.ts:141-177,
\* DisciplineTeacherService.ts:48-71).
ListsAgree ==
  \A user \in Users :
    LET listed == getDisciplineTeachers(user)
        open == getUserDisciplineTeachers(user, TRUE)
    IN /\ ~getDisciplineTeachersFails =>
            /\ listed \subseteq open
            /\ \A d \in open \ listed :
                 DisciplineOf[d].isSelective /\ SelectedIn(user, DisciplineOf[d]) = {}
       /\ user \in Approved /\ checkSendingTime =>
            \A d \in open :
              /\ <<d, user>> \notin removed /\ getForm(user, d)
              /\ Admissible([Idle EXCEPT !.user = user, !.dt = d])

\* A form is let in when the removals were asked for, and admitted when all was.
Entered == {Form(h) : h \in {k \in Handlers : req[k].step = "rest"}}
Admitted == {Form(h) : h \in {k \in Handlers : req[k].step = "write"}}
Promise == INSTANCE Survey WITH
  open <- checkSendingTime, withdrawn <- removed, book <- answers, entered <- Entered, admitted <- Admitted

\* The poll keeps what Survey promises: whatever crosses it, an answer is written only for
\* a form that was not taken off the poll and was admitted while the poll was open, or for
\* a text shown to moderators; once; and it stands (DisciplineTeacherService.ts:48-91,
\* 94-99, 156-168, 205-215, 326-345).
PromiseKept == Promise!Spec
=============================================================================
