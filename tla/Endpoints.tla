----------------------------- MODULE Endpoints -----------------------------
(***************************************************************************)
(* The routing table of the API: every method the controllers decorate,    *)
(* in the order they are declared, which is the order the router tries     *)
(* them in.  Of an endpoint the table keeps                                *)
(*   verb, path   the decorator's, with the controller's prefix; a segment *)
(*                in Params is a parameter                                 *)
(*   sent         parameters of the query or the body that guards and      *)
(*                pipes look at                                            *)
(*   guards       in the order they run                                    *)
(*   may          the permissions one of which is asked for                *)
(*   pipes        those that can refuse a well-formed request              *)
(*   docs         the statuses the documentation lists as refusals         *)
(* The body of a method calls one service and maps what it returns; what   *)
(* the services do is in the modules named after them.                     *)
(***************************************************************************)
EXTENDS Permissions

\* Access.ts and decorators.ts: a permission asks for a session first; guards
\* that find out the group run before the permission is looked at.
Access(groupGuards) == <<"JwtGuard">> \o groupGuards \o <<"PermissionGuard">>

Params == {"cathedraId", "contactId", "disciplineId", "disciplineTeacherId", "entrantId",
           "eventId", "grantId", "groupId", "name", "questionId",
           "queueId", "resourceId", "role", "roleId", "subjectId",
           "teacherId", "telegramId", "token", "userId"}

\* What the decorators leave unsaid is empty.
Route(verb, path) ==
  [verb |-> verb, path |-> path, sent |-> {}, guards |-> <<>>, may |-> <<>>,
   pipes |-> {}, docs |-> {}]
Get(path) == Route("GET", path)
Post(path) == Route("POST", path)
Put(path) == Route("PUT", path)
Patch(path) == Route("PATCH", path)
Delete(path) == Route("DELETE", path)

\* AdmissionController
Admission_createQueue == Post(<<"admission", "queues">>)
Admission_getQueues == Get(<<"admission", "queues">>)
Admission_getQueue == Get(<<"admission", "queues", "queueId">>)
Admission_updateQueue == Patch(<<"admission", "queues", "queueId">>)
Admission_deleteQueue == Delete(<<"admission", "queues", "queueId">>)
Admission_advanceQueue == Post(<<"admission", "queues", "queueId", "advance">>)
Admission_getQueueUsers == Get(<<"admission", "queues", "queueId", "users">>)
Admission_createQueueUser == Post(<<"admission", "queues", "queueId", "users">>)
Admission_removeQueueUser ==
  Delete(<<"admission", "queues", "queueId", "users", "userId">>)
Admission_updateQueueUser ==
  Patch(<<"admission", "queues", "queueId", "users", "userId">>)
Admission_getQueueUser ==
  Get(<<"admission", "queues", "queueId", "users", "userId">>)
Admission_getUsers == Get(<<"admission", "users">>)
Admission_createUser == Post(<<"admission", "users">>)
Admission_getUser == Get(<<"admission", "users", "userId">>)

\* AuthController
Auth_login == [Post(<<"auth", "login">>) EXCEPT
    !.guards = <<"LocalGuard">>, !.docs = {"401"}]
Auth_registerTelegram == [Post(<<"auth", "registerTelegram">>) EXCEPT
    !.guards = <<"TelegramGuard">>, !.docs = {"400", "401"}]
Auth_register == [Post(<<"auth", "register">>) EXCEPT
    !.docs = {"400", "401", "429"}]
Auth_loginTelegram == [Post(<<"auth", "loginTelegram">>) EXCEPT
    !.docs = {"400", "401"}]
Auth_refresh == [Post(<<"auth", "refresh">>) EXCEPT
    !.guards = <<"JwtGuard">>, !.docs = {"401"}]
Auth_updatePassword == [Put(<<"auth", "updatePassword">>) EXCEPT
    !.guards = <<"JwtGuard">>, !.docs = {"400", "401"}]
Auth_getMe == [Get(<<"auth", "me">>) EXCEPT
    !.guards = <<"JwtGuard">>, !.docs = {"401"}]
Auth_forgotPassword == [Post(<<"auth", "forgotPassword">>) EXCEPT
    !.docs = {"400", "429"}]
Auth_resetPassword == [Post(<<"auth", "resetPassword", "token">>) EXCEPT
    !.docs = {"400"}]
Auth_requestEmailVerification == [Post(<<"auth", "register", "verifyEmail">>) EXCEPT
    !.docs = {"400", "429"}]
Auth_verifyEmail == [Post(<<"auth", "register", "verifyEmail", "token">>) EXCEPT
    !.docs = {"400"}]
Auth_verifyExistsByUnique == [Get(<<"auth", "verifyIsRegistered">>) EXCEPT
    !.docs = {"400"}]
Auth_checkCaptain == [Get(<<"auth", "checkCaptain", "groupId">>) EXCEPT
    !.pipes = {"GroupByIdPipe"}, !.docs = {"400"}]
Auth_checkResetToken == Get(<<"auth", "checkResetToken", "token">>)
Auth_checkRegisterTelegram == Get(<<"auth", "checkRegisterTelegram", "token">>)

\* CathedraController
Cathedra_getAll == [Get(<<"cathedras">>) EXCEPT
    !.docs = {"400"}]
Cathedra_create == [Post(<<"cathedras">>) EXCEPT
    !.guards = Access(<<>>), !.may = <<PERMISSION.CATHEDRAS_CREATE>>,
    !.docs = {"400", "401", "403"}]
Cathedra_update == [Patch(<<"cathedras", "cathedraId">>) EXCEPT
    !.guards = Access(<<>>), !.may = <<PERMISSION.CATHEDRAS_UPDATE>>,
    !.pipes = {"CathedraByIdPipe"}, !.docs = {"400", "401", "403"}]
Cathedra_delete == [Delete(<<"cathedras", "cathedraId">>) EXCEPT
    !.guards = Access(<<>>), !.may = <<PERMISSION.CATHEDRAS_DELETE>>,
    !.pipes = {"CathedraByIdPipe"}, !.docs = {"400", "401", "403"}]

\* DateController
Date_getPreviousSemesters == Get(<<"dates", "semesters">>)
Date_getCurrentSemester == [Get(<<"dates", "current", "semester">>) EXCEPT
    !.docs = {"400"}]

\* DisciplineController
Discipline_create == [Post(<<"disciplines">>) EXCEPT
    !.sent = {"groupId"}, !.guards = Access(<<>>),
    !.may = <<PERMISSION.GROUPS_GROUPID_DISCIPLINES_CREATE>>,
    !.docs = {"401", "403"}]
Discipline_getAllByDiscipline ==
  [Get(<<"disciplines", "disciplineId", "teachers">>) EXCEPT
    !.guards = Access(<<"GroupByDisciplineGuard">>),
    !.may = <<PERMISSION.GROUPS_GROUPID_DISCIPLINES_TEACHERS_GET>>,
    !.pipes = {"DisciplineByIdPipe"}, !.docs = {"400", "401", "403"}]
Discipline_delete == [Delete(<<"disciplines", "disciplineId">>) EXCEPT
    !.guards = Access(<<>>), !.may = <<PERMISSION.DISCIPLINE_DELETE>>,
    !.pipes = {"DisciplineByIdPipe"}, !.docs = {"400", "401", "403"}]

\* DisciplineTeacherController
DisciplineTeacher_getQuestions ==
  [Get(<<"disciplineTeachers", "disciplineTeacherId", "questions">>) EXCEPT
    !.guards = Access(<<"GroupByDisciplineTeacherGuard">>),
    !.may = <<PERMISSION.GROUPS_GROUPID_QUESTIONS_GET>>,
    !.pipes = {"DisciplineTeacherByIdPipe"}, !.docs = {"400", "403"}]
DisciplineTeacher_sendAnswers ==
  [Post(<<"disciplineTeachers", "disciplineTeacherId", "answers">>) EXCEPT
    !.guards = Access(<<"GroupByDisciplineTeacherGuard">>),
    !.may = <<PERMISSION.GROUPS_GROUPID_ANSWERS_SEND>>,
    !.pipes = {"DisciplineTeacherByIdPipe"}, !.docs = {"400", "403"}]
DisciplineTeacher_sendResponse ==
  [Post(<<"disciplineTeachers", "disciplineTeacherId", "responses">>) EXCEPT
    !.guards = <<"TelegramGuard">>, !.pipes = {"DisciplineTeacherByIdPipe"},
    !.docs = {"400", "403"}]
DisciplineTeacher_create == [Post(<<"disciplineTeachers">>) EXCEPT
    !.sent = {"teacherId", "disciplineId"}, !.guards = Access(<<>>),
    !.may = <<PERMISSION.DISCIPLINE_TEACHERS_CREATE>>,
    !.pipes = {"TeacherByIdPipe", "DisciplineByIdPipe"},
    !.docs = {"400", "403"}]
DisciplineTeacher_updateById ==
  [Patch(<<"disciplineTeachers", "disciplineTeacherId">>) EXCEPT
    !.guards = Access(<<>>),
    !.may = <<PERMISSION.DISCIPLINE_TEACHERS_UPDATE>>,
    !.pipes = {"DisciplineTeacherByIdPipe"}, !.docs = {"400", "403"}]
DisciplineTeacher_updateByTeacherAndDiscipline ==
  [Patch(<<"disciplineTeachers">>) EXCEPT
    !.sent = {"teacherId", "disciplineId"}, !.guards = Access(<<>>),
    !.may = <<PERMISSION.DISCIPLINE_TEACHERS_UPDATE>>,
    !.pipes = {"TeacherByIdPipe", "DisciplineByIdPipe"},
    !.docs = {"400", "403"}]
DisciplineTeacher_deleteById ==
  [Delete(<<"disciplineTeachers", "disciplineTeacherId">>) EXCEPT
    !.guards = Access(<<>>),
    !.may = <<PERMISSION.DISCIPLINE_TEACHERS_DELETE>>,
    !.pipes = {"DisciplineTeacherByIdPipe"}, !.docs = {"400", "403"}]
DisciplineTeacher_deleteByTeacherAndDiscipline ==
  [Delete(<<"disciplineTeachers">>) EXCEPT
    !.sent = {"teacherId", "disciplineId"}, !.guards = Access(<<>>),
    !.may = <<PERMISSION.DISCIPLINE_TEACHERS_DELETE>>,
    !.pipes = {"TeacherByIdPipe", "DisciplineByIdPipe"},
    !.docs = {"400", "403"}]
DisciplineTeacher_removeDisciplineTeacherFromPoll ==
  [Post(<<"disciplineTeachers", "disciplineTeacherId", "removeFromPoll">>) EXCEPT
    !.guards = Access(<<"GroupByDisciplineTeacherGuard">>),
    !.may = <<PERMISSION.GROUPS_GROUPID_DISCIPLINE_TEACHERS_REMOVE>>,
    !.pipes = {"DisciplineTeacherByIdPipe"}, !.docs = {"400", "403"}]

\* DocumentController
Document_createContract == [Post(<<"documents", "contract">>) EXCEPT
    !.docs = {"400", "403"}]
Document_generatePriority == [Post(<<"documents", "priority">>) EXCEPT
    !.docs = {"400", "401", "403"}]
Document_sendContract == [Get(<<"documents", "contract", "entrantId">>) EXCEPT
    !.pipes = {"EntrantByIdPipe"}, !.docs = {"400", "403"}]
Document_sendPriority == [Get(<<"documents", "priority", "entrantId">>) EXCEPT
    !.pipes = {"EntrantByIdPipe"}, !.docs = {"400"}]

\* EntrantController
Entrant_approveContract == [Post(<<"entrants", "contract">>) EXCEPT
    !.guards = Access(<<>>), !.may = <<PERMISSION.ENTRANT_CONTRACT_CREATE>>,
    !.docs = {"400", "401", "403", "404"}]
Entrant_getEntrantPriority == [Get(<<"entrants", "priority">>) EXCEPT
    !.guards = Access(<<>>), !.may = <<PERMISSION.ADMISSION_PRIORITIES_GET>>,
    !.docs = {"400", "401", "403"}]
Entrant_approvePriority == [Patch(<<"entrants", "priority", "approve">>) EXCEPT
    !.guards = Access(<<>>),
    !.may = <<PERMISSION.ADMISSION_PRIORITIES_APPROVE>>,
    !.docs = {"400", "401", "403"}]
Entrant_approvePriorityById ==
  [Patch(<<"entrants", "priority", "approve", "entrantId">>) EXCEPT
    !.guards = Access(<<>>),
    !.may = <<PERMISSION.ADMISSION_PRIORITIES_APPROVE>>,
    !.docs = {"400", "401", "403"}]
Entrant_deleteEntrantData == [Delete(<<"entrants", "data">>) EXCEPT
    !.guards = Access(<<>>), !.may = <<PERMISSION.ADMISSION_DELETE>>,
    !.docs = {"400", "401", "403"}]
Entrant_get == [Get(<<"entrants">>) EXCEPT
    !.guards = Access(<<>>), !.may = <<PERMISSION.ADMISSION_GET>>,
    !.docs = {"400", "401", "403"}]
Entrant_delete == [Delete(<<"entrants", "entrantId">>) EXCEPT
    !.guards = Access(<<>>), !.may = <<PERMISSION.ADMISSION_DELETE>>,
    !.docs = {"400", "401", "403"}]

\* GrantController
Grant_delete == [Delete(<<"grants", "grantId">>) EXCEPT
    !.guards = Access(<<>>), !.may = <<PERMISSION.GRANTS_DELETE>>,
    !.pipes = {"GrantByIdPipe"}, !.docs = {"400", "401", "403"}]

\* GroupController
Group_create == [Post(<<"groups">>) EXCEPT
    !.guards = Access(<<>>), !.may = <<PERMISSION.GROUPS_CREATE>>,
    !.docs = {"400", "401", "403"}]
Group_getAll == [Get(<<"groups">>) EXCEPT
    !.docs = {"400"}]
Group_getGroupsWithTelegramGroups == [Get(<<"groups", "telegramGroups">>) EXCEPT
    !.guards = <<"TelegramGuard">>, !.docs = {"401"}]
Group_get == [Get(<<"groups", "groupId">>) EXCEPT
    !.pipes = {"GroupByIdPipe"}, !.docs = {"400"}]
Group_update == [Patch(<<"groups", "groupId">>) EXCEPT
    !.guards = Access(<<>>), !.may = <<PERMISSION.GROUPS_UPDATE>>,
    !.pipes = {"GroupByIdPipe"}, !.docs = {"400", "401", "403"}]
Group_deleteGroup == [Delete(<<"groups", "groupId">>) EXCEPT
    !.guards = Access(<<>>), !.may = <<PERMISSION.GROUPS_DELETE>>,
    !.pipes = {"GroupByIdPipe"}, !.docs = {"400", "401", "403"}]
Group_getStudents == [Get(<<"groups", "groupId", "students">>) EXCEPT
    !.guards = Access(<<>>),
    !.may = <<PERMISSION.GROUPS_GROUPID_STUDENTS_GET>>,
    !.pipes = {"GroupByIdPipe"}, !.docs = {"400", "401", "403"}]
Group_getCaptain == [Get(<<"groups", "groupId", "captain">>) EXCEPT
    !.guards = Access(<<>>),
    !.may = <<PERMISSION.GROUPS_GROUPID_CAPTAIN_GET>>,
    !.pipes = {"GroupByIdPipe"}, !.docs = {"400", "401", "403"}]
Group_getDisciplineTeachers ==
  [Get(<<"groups", "groupId", "disciplineTeachers">>) EXCEPT
    !.guards = Access(<<>>),
    !.may = <<PERMISSION.GROUPS_GROUPID_DISCIPLINES_TEACHERS_GET>>,
    !.pipes = {"GroupByIdPipe"}, !.docs = {"400", "401", "403"}]
Group_getDiscipline == [Get(<<"groups", "groupId", "disciplines">>) EXCEPT
    !.guards = Access(<<>>),
    !.may = <<PERMISSION.GROUPS_GROUPID_DISCIPLINES_GET>>,
    !.pipes = {"GroupByIdPipe"}, !.docs = {"400", "401", "403"}]
Group_addUnregistered == [Post(<<"groups", "groupId", "addEmails">>) EXCEPT
    !.guards = Access(<<>>),
    !.may = <<PERMISSION.GROUPS_GROUPID_STUDENTS_ADD>>,
    !.pipes = {"GroupByIdPipe"}, !.docs = {"400", "401", "403"}]
Group_verifyStudent == [Patch(<<"groups", "groupId", "verify", "userId">>) EXCEPT
    !.guards = Access(<<>>),
    !.may = <<PERMISSION.GROUPS_GROUPID_STUDENTS_VERIFY>>,
    !.pipes = {"GroupByIdPipe", "UserByIdPipe"},
    !.docs = {"400", "401", "403"}]
Group_moderatorSwitch == [Patch(<<"groups", "groupId", "switch", "userId">>) EXCEPT
    !.guards = Access(<<>>),
    !.may = <<PERMISSION.GROUPS_GROUPID_ADMIN_SWITCH>>,
    !.pipes = {"GroupByIdPipe", "UserByIdPipe"},
    !.docs = {"400", "401", "403"}]
Group_removeStudent == [Delete(<<"groups", "groupId", "remove", "userId">>) EXCEPT
    !.guards = Access(<<>>),
    !.may = <<PERMISSION.GROUPS_GROUPID_STUDENTS_REMOVE>>,
    !.pipes = {"GroupByIdPipe", "UserByIdPipe"},
    !.docs = {"400", "401", "403"}]
Group_getUnverifiedStudents ==
  [Get(<<"groups", "groupId", "unverifiedStudents">>) EXCEPT
    !.guards = Access(<<>>),
    !.may = <<PERMISSION.GROUPS_GROUPID_STUDENTS_UNVERIFIED_GET>>,
    !.pipes = {"GroupByIdPipe"}, !.docs = {"400", "401", "403"}]
Group_switchCaptain == [Post(<<"groups", "groupId", "switchCaptain">>) EXCEPT
    !.guards = Access(<<>>),
    !.may = <<PERMISSION.GROUPS_CAPTAIN_SWITCH, PERMISSION.GROUPS_GROUPID_TRANSFER>>,
    !.pipes = {"GroupByIdPipe"}, !.docs = {"400", "401", "403"}]
Group_getGroupList == [Get(<<"groups", "groupId", "list">>) EXCEPT
    !.guards = Access(<<>>), !.may = <<PERMISSION.GROUPS_GROUPID_LIST_GET>>,
    !.pipes = {"GroupByIdPipe"}, !.docs = {"400", "401", "403"}]
Group_leaveGroup == [Patch(<<"groups", "groupId", "leave">>) EXCEPT
    !.guards = Access(<<>>), !.may = <<PERMISSION.GROUPS_GROUPID_LEAVE>>,
    !.pipes = {"GroupByIdPipe"}, !.docs = {"400", "401", "403"}]

\* PermissionController
Permission_checkPermissions == [Post(<<"permissions", "check">>) EXCEPT
    !.sent = {"userId"}, !.pipes = {"UserByIdPipe"}, !.docs = {"400"}]

\* PollController
Poll_create == [Post(<<"poll", "questions">>) EXCEPT
    !.guards = Access(<<>>), !.may = <<PERMISSION.QUESTIONS_CREATE>>,
    !.docs = {"400", "401", "403"}]
Poll_getPollDisciplineTeachers == [Get(<<"poll", "teachers", "userId">>) EXCEPT
    !.guards = Access(<<>>),
    !.may = <<PERMISSION.USERS_USERID_POLL_TEACHERS_GET>>,
    !.pipes = {"UserByIdPipe"}, !.docs = {"400", "401", "403"}]
Poll_delete == [Delete(<<"poll", "questions", "questionId">>) EXCEPT
    !.guards = Access(<<>>), !.may = <<PERMISSION.QUESTIONS_DELETE>>,
    !.pipes = {"QuestionByIdPipe"}, !.docs = {"400", "401", "403"}]
Poll_update == [Patch(<<"poll", "questions", "questionId">>) EXCEPT
    !.guards = Access(<<>>), !.may = <<PERMISSION.QUESTIONS_UPDATE>>,
    !.pipes = {"QuestionByIdPipe"}, !.docs = {"400", "401", "403"}]
Poll_getQuestion == [Get(<<"poll", "questions", "questionId">>) EXCEPT
    !.pipes = {"QuestionByIdPipe"}, !.docs = {"400"}]
Poll_giveRole == [Post(<<"poll", "questions", "questionId", "roles">>) EXCEPT
    !.guards = Access(<<>>), !.may = <<PERMISSION.QUESTIONS_ROLES_GIVE>>,
    !.pipes = {"QuestionByIdPipe"}, !.docs = {"400", "401", "403"}]
Poll_deleteRole ==
  [Delete(<<"poll", "questions", "questionId", "roles", "role">>) EXCEPT
    !.guards = Access(<<>>), !.may = <<PERMISSION.QUESTIONS_ROLES_DELETE>>,
    !.pipes = {"QuestionByRoleAndIdPipe"}, !.docs = {"400", "401", "403"}]

\* ResourceController
Resource_getAll == [Get(<<"studentResources">>) EXCEPT
    !.docs = {"400"}]
Resource_get == [Get(<<"studentResources", "resourceId">>) EXCEPT
    !.pipes = {"ResourceByIdPipe"}, !.docs = {"400"}]
Resource_create == [Post(<<"studentResources">>) EXCEPT
    !.guards = Access(<<>>), !.may = <<PERMISSION.RESOURCES_CREATE>>,
    !.docs = {"400", "403"}]
Resource_update == [Patch(<<"studentResources", "resourceId">>) EXCEPT
    !.guards = Access(<<>>), !.may = <<PERMISSION.RESOURCES_UPDATE>>,
    !.pipes = {"ResourceByIdPipe"}, !.docs = {"400", "403"}]
Resource_delete == [Delete(<<"studentResources", "resourceId">>) EXCEPT
    !.guards = Access(<<>>), !.may = <<PERMISSION.RESOURCES_DELETE>>,
    !.pipes = {"ResourceByIdPipe"}, !.docs = {"400", "403"}]

\* RoleController
Role_getAll == [Get(<<"roles">>) EXCEPT
    !.docs = {"400"}]
Role_get == [Get(<<"roles", "roleId">>) EXCEPT
    !.pipes = {"RoleByIdPipe"}, !.docs = {"400"}]
Role_createWithGrants == [Post(<<"roles", "grants">>) EXCEPT
    !.guards = Access(<<>>), !.may = <<PERMISSION.ROLES_CREATE>>,
    !.docs = {"400", "401", "403"}]
Role_create == [Post(<<"roles">>) EXCEPT
    !.guards = Access(<<>>), !.may = <<PERMISSION.ROLES_CREATE>>,
    !.docs = {"400", "401", "403"}]
Role_update == [Patch(<<"roles", "roleId">>) EXCEPT
    !.guards = Access(<<>>), !.may = <<PERMISSION.ROLES_ROLEID_UPDATE>>,
    !.pipes = {"RoleByIdPipe"}, !.docs = {"400", "401", "403"}]
Role_delete == [Delete(<<"roles", "roleId">>) EXCEPT
    !.guards = Access(<<>>), !.may = <<PERMISSION.ROLES_ROLEID_DELETE>>,
    !.pipes = {"RoleByIdPipe"}, !.docs = {"400", "401", "403"}]
Role_getGrants == [Get(<<"roles", "roleId", "grants">>) EXCEPT
    !.pipes = {"RoleByIdPipe"}, !.docs = {"400"}]
Role_createGrants == [Post(<<"roles", "roleId", "grants">>) EXCEPT
    !.guards = Access(<<>>), !.may = <<PERMISSION.ROLES_GRANTS_CREATE>>,
    !.pipes = {"RoleByIdPipe"}, !.docs = {"400", "401", "403"}]
Role_createGrant == [Post(<<"roles", "roleId", "grant">>) EXCEPT
    !.guards = Access(<<>>), !.may = <<PERMISSION.ROLES_ROLEID_GRANT_CREATE>>,
    !.pipes = {"RoleByIdPipe"}, !.docs = {"400", "401", "403"}]
Role_updateGrant == [Patch(<<"roles", "roleId", "grant", "grantId">>) EXCEPT
    !.guards = Access(<<>>), !.may = <<PERMISSION.ROLES_ROLEID_GRANT_UPDATE>>,
    !.pipes = {"GrantByIdPipe", "RoleByIdPipe"},
    !.docs = {"400", "401", "403"}]

\* ScheduleController
Schedule_parse == [Post(<<"schedule", "parse">>) EXCEPT
    !.guards = Access(<<>>), !.may = <<PERMISSION.SCHEDULE_PARSE>>,
    !.docs = {"401"}]
Schedule_getGeneralEvents ==
  [Get(<<"schedule", "groups", "groupId", "general">>) EXCEPT
    !.pipes = {"GroupByIdPipe"}, !.docs = {"400"}]
Schedule_getGroupEventsByDay ==
  [Get(<<"schedule", "groups", "groupId", "day">>) EXCEPT
    !.sent = {"userId"}, !.guards = <<"TelegramGuard">>,
    !.pipes = {"GroupByIdPipe", "UserByIdPipe"},
    !.docs = {"400", "401", "403"}]
Schedule_getEvent == [Get(<<"schedule", "events", "eventId">>) EXCEPT
    !.guards = Access(<<"GroupByEventGuard">>),
    !.may = <<PERMISSION.GROUPS_GROUPID_EVENTS_GET>>,
    !.pipes = {"EventByIdPipe"}, !.docs = {"400", "401", "403"}]
Schedule_createEvent == [Post(<<"schedule", "events">>) EXCEPT
    !.sent = {"groupId"}, !.guards = Access(<<>>),
    !.may = <<PERMISSION.GROUPS_GROUPID_EVENTS_CREATE>>,
    !.docs = {"400", "401", "403"}]
Schedule_getGroupEvents ==
  [Get(<<"schedule", "groups", "groupId", "events">>) EXCEPT
    !.guards = Access(<<>>), !.may = <<PERMISSION.GROUPS_GROUPID_EVENTS_GET>>,
    !.pipes = {"GroupByIdPipe"}, !.docs = {"400", "401", "403"}]
Schedule_deleteEvent ==
  [Delete(<<"schedule", "groups", "groupId", "events", "eventId">>) EXCEPT
    !.guards = Access(<<>>),
    !.may = <<PERMISSION.GROUPS_GROUPID_EVENTS_DELETE>>,
    !.pipes = {"EventByIdPipe"}, !.docs = {"400", "401", "403"}]
Schedule_update ==
  [Patch(<<"schedule", "groups", "groupId", "events", "eventId">>) EXCEPT
    !.sent = {"disciplineId", "teacherId"}, !.guards = Access(<<>>),
    !.may = <<PERMISSION.GROUPS_GROUPID_EVENTS_UPDATE>>,
    !.pipes = {"EventByIdPipe", "EventPipe"}, !.docs = {"400", "401", "403"}]
Schedule_getFortnightEvents ==
  [Get(<<"schedule", "groups", "groupId", "fortnight">>) EXCEPT
    !.sent = {"userId"}, !.guards = <<"TelegramGuard">>,
    !.pipes = {"GroupByIdPipe", "UserByIdPipe"},
    !.docs = {"400", "401", "403"}]
Schedule_getGroupEventsByWeek ==
  [Get(<<"schedule", "groups", "groupId", "week">>) EXCEPT
    !.sent = {"userId"}, !.guards = <<"TelegramGuard">>,
    !.pipes = {"GroupByIdPipe", "UserByIdPipe"},
    !.docs = {"400", "401", "403"}]
Schedule_createSimpleTelegramEvent ==
  [Post(<<"schedule", "events", "simple">>) EXCEPT
    !.guards = <<"TelegramGuard">>, !.docs = {"400", "401", "403"}]

\* StudentController
Student_getAll == [Get(<<"students">>) EXCEPT
    !.sent = {"groupId"}, !.guards = Access(<<>>),
    !.may = <<PERMISSION.STUDENTS_GET>>, !.pipes = {"AllStudentsPipe"},
    !.docs = {"400", "401", "403"}]

\* SubjectController
Subject_getAll == Get(<<"subjects">>)
Subject_get == [Get(<<"subjects", "subjectId">>) EXCEPT
    !.pipes = {"SubjectByIdPipe"}, !.docs = {"400"}]
Subject_getTeachers == [Get(<<"subjects", "subjectId", "teachers">>) EXCEPT
    !.pipes = {"SubjectByIdPipe"}, !.docs = {"400"}]
Subject_create == [Post(<<"subjects">>) EXCEPT
    !.guards = Access(<<>>), !.may = <<PERMISSION.SUBJECTS_CREATE>>,
    !.docs = {"400", "403"}]
Subject_update == [Patch(<<"subjects", "subjectId">>) EXCEPT
    !.guards = Access(<<>>), !.may = <<PERMISSION.SUBJECTS_UPDATE>>,
    !.pipes = {"SubjectByIdPipe"}, !.docs = {"400", "403"}]
Subject_delete == [Delete(<<"subjects", "subjectId">>) EXCEPT
    !.guards = Access(<<>>), !.may = <<PERMISSION.SUBJECTS_DELETE>>,
    !.pipes = {"SubjectByIdPipe"}, !.docs = {"400", "403"}]

\* TeacherController
Teacher_getAll == [Get(<<"teachers">>) EXCEPT
    !.sent = {"groupId", "cathedraId"}, !.pipes = {"AllTeachersPipe"},
    !.docs = {"400"}]
Teacher_getTeacherRoles == [Get(<<"teachers", "teacherId", "roles">>) EXCEPT
    !.pipes = {"TeacherByIdPipe"}, !.docs = {"400"}]
Teacher_getSubjects == [Get(<<"teachers", "teacherId", "subjects">>) EXCEPT
    !.pipes = {"TeacherByIdPipe"}, !.docs = {"400"}]
Teacher_getDisciplines == [Get(<<"teachers", "teacherId", "disciplines">>) EXCEPT
    !.sent = {"userId"}, !.guards = Access(<<>>),
    !.may = <<PERMISSION.USERS_USERID_TEACHERS_TEACHERID_DISCIPLINES_GET>>,
    !.pipes = {"TeacherByIdPipe", "UserByIdPipe"}, !.docs = {"400", "403"}]
Teacher_getSubject ==
  [Get(<<"teachers", "teacherId", "subjects", "subjectId">>) EXCEPT
    !.pipes = {"TeacherByIdPipe", "SubjectByIdPipe"}, !.docs = {"400"}]
Teacher_getTeacher == [Get(<<"teachers", "teacherId">>) EXCEPT
    !.pipes = {"TeacherByIdPipe"}, !.docs = {"400"}]
Teacher_create == [Post(<<"teachers">>) EXCEPT
    !.guards = Access(<<>>), !.may = <<PERMISSION.TEACHERS_CREATE>>,
    !.docs = {"400", "403"}]
Teacher_update == [Patch(<<"teachers", "teacherId">>) EXCEPT
    !.guards = Access(<<>>), !.may = <<PERMISSION.TEACHERS_TEACHERID_UPDATE>>,
    !.pipes = {"TeacherByIdPipe"}, !.docs = {"400", "403"}]
Teacher_delete == [Delete(<<"teachers", "teacherId">>) EXCEPT
    !.guards = Access(<<>>), !.may = <<PERMISSION.TEACHERS_TEACHERID_DELETE>>,
    !.pipes = {"TeacherByIdPipe"}, !.docs = {"400", "403"}]
Teacher_getAllContacts == [Get(<<"teachers", "teacherId", "contacts">>) EXCEPT
    !.pipes = {"TeacherByIdPipe"}, !.docs = {"400"}]
Teacher_getContact == [Get(<<"teachers", "teacherId", "contacts", "name">>) EXCEPT
    !.pipes = {"ContactByNamePipe"}, !.docs = {"400"}]
Teacher_createContact == [Post(<<"teachers", "teacherId", "contacts">>) EXCEPT
    !.guards = Access(<<>>),
    !.may = <<PERMISSION.TEACHERS_TEACHERID_CONTACTS_CREATE>>,
    !.pipes = {"TeacherByIdPipe"}, !.docs = {"400", "401", "403"}]
Teacher_updateContact ==
  [Patch(<<"teachers", "teacherId", "contacts", "name">>) EXCEPT
    !.guards = Access(<<>>),
    !.may = <<PERMISSION.TEACHERS_TEACHERID_CONTACTS_UPDATE>>,
    !.pipes = {"ContactByNamePipe"}, !.docs = {"400", "401", "403"}]
Teacher_deleteContact ==
  [Delete(<<"teachers", "teacherId", "contacts", "name">>) EXCEPT
    !.guards = Access(<<>>),
    !.may = <<PERMISSION.TEACHERS_TEACHERID_CONTACTS_DELETE>>,
    !.pipes = {"ContactByNamePipe"}, !.docs = {"400", "403"}]
Teacher_getMarks == [Get(<<"teachers", "teacherId", "marks">>) EXCEPT
    !.pipes = {"TeacherByIdPipe"}, !.docs = {"400"}]
Teacher_getComments == [Get(<<"teachers", "teacherId", "comments">>) EXCEPT
    !.sent = {"subjectId"},
    !.pipes = {"TeacherByIdPipe", "CommentsQueryPipe"}, !.docs = {"400"}]
Teacher_connectCathedra ==
  [Patch(<<"teachers", "teacherId", "cathedra", "cathedraId">>) EXCEPT
    !.guards = Access(<<>>),
    !.may = <<PERMISSION.TEACHERS_TEACHERID_CATHEDRAS_UPDATE>>,
    !.pipes = {"TeacherByIdPipe", "CathedraByIdPipe"}, !.docs = {"400", "403"}]

\* TelegramGroupController
TelegramGroup_create == [Post(<<"telegramGroups", "groupId">>) EXCEPT
    !.guards = <<"TelegramGuard">>, !.pipes = {"GroupByIdPipe"},
    !.docs = {"400", "401"}]
TelegramGroup_update == [Patch(<<"telegramGroups">>) EXCEPT
    !.sent = {"telegramId", "groupId"}, !.guards = <<"TelegramGuard">>,
    !.pipes = {"TelegramGroupByIdPipe", "GroupByIdPipe"},
    !.docs = {"400", "401"}]
TelegramGroup_delete == [Delete(<<"telegramGroups">>) EXCEPT
    !.sent = {"telegramId", "groupId"}, !.guards = <<"TelegramGuard">>,
    !.pipes = {"TelegramGroupByIdPipe", "GroupByIdPipe"},
    !.docs = {"400", "401"}]
TelegramGroup_getTelegramGroups == [Get(<<"telegramGroups", "groupId">>) EXCEPT
    !.guards = <<"TelegramGuard">>, !.pipes = {"GroupByIdPipe"},
    !.docs = {"400", "401"}]
TelegramGroup_getGroupsByTelegramId ==
  [Get(<<"telegramGroups", "telegram", "telegramId">>) EXCEPT
    !.guards = <<"TelegramGuard">>, !.pipes = {"TelegramGroupByIdPipe"},
    !.docs = {"400", "401"}]

\* UserController
User_verify == [Patch(<<"users", "userId", "verifyStudent">>) EXCEPT
    !.guards = <<"TelegramGuard">>, !.pipes = {"UserByIdPipe"},
    !.docs = {"400", "401", "403"}]
User_verifySuperhero == [Patch(<<"users", "userId", "verifySuperhero">>) EXCEPT
    !.guards = <<"TelegramGuard">>, !.pipes = {"UserByIdPipe"},
    !.docs = {"400", "401", "403"}]
User_requestNewGroup == [Patch(<<"users", "userId", "requestNewGroup">>) EXCEPT
    !.guards = Access(<<>>),
    !.may = <<PERMISSION.USERS_USERID_GROUP_REQUEST>>,
    !.pipes = {"UserByIdPipe"}, !.docs = {"400", "401", "403"}]
User_createSuperhero == [Post(<<"users", "userId", "superhero">>) EXCEPT
    !.guards = Access(<<>>),
    !.may = <<PERMISSION.USERS_USERID_SUPERHERO_CREATE>>,
    !.pipes = {"UserByIdPipe"}, !.docs = {"400", "401", "403"}]
User_getSelective == [Get(<<"users", "userId", "selective">>) EXCEPT
    !.guards = Access(<<>>),
    !.may = <<PERMISSION.USERS_USERID_SELECTIVE_GET>>,
    !.pipes = {"UserByIdPipe"}, !.docs = {"400", "401", "403"}]
User_getSelectiveBySemesters ==
  [Get(<<"users", "userId", "selectiveBySemesters">>) EXCEPT
    !.guards = Access(<<>>),
    !.may = <<PERMISSION.USERS_USERID_SELECTIVE_GET>>,
    !.pipes = {"UserByIdPipe"}, !.docs = {"400", "401", "403"}]
User_giveRole == [Post(<<"users", "userId", "roles">>) EXCEPT
    !.guards = <<"TelegramGuard">>, !.pipes = {"UserByIdPipe"},
    !.docs = {"400", "401", "403"}]
User_removeRole == [Delete(<<"users", "userId", "roles", "roleId">>) EXCEPT
    !.guards = <<"TelegramGuard">>, !.pipes = {"UserByIdPipe"},
    !.docs = {"400", "401", "403"}]
User_deleteUser == [Delete(<<"users", "userId">>) EXCEPT
    !.guards = Access(<<>>), !.may = <<PERMISSION.USERS_DELETE>>,
    !.pipes = {"UserByIdPipe"}, !.docs = {"400", "401", "403"}]
User_updateUser == [Patch(<<"users", "userId">>) EXCEPT
    !.guards = Access(<<>>), !.may = <<PERMISSION.USERS_UPDATE>>,
    !.pipes = {"UserByIdPipe"}, !.docs = {"400", "401", "403"}]
User_getContacts == [Get(<<"users", "userId", "contacts">>) EXCEPT
    !.guards = Access(<<>>), !.may = <<PERMISSION.USERS_USERID_CONTACTS_GET>>,
    !.pipes = {"UserByIdPipe"}, !.docs = {"400", "401", "403"}]
User_createContact == [Post(<<"users", "userId", "contacts">>) EXCEPT
    !.guards = Access(<<>>),
    !.may = <<PERMISSION.USERS_USERID_CONTACTS_CREATE>>,
    !.pipes = {"UserByIdPipe"}, !.docs = {"400", "401", "403"}]
User_updateContact == [Patch(<<"users", "userId", "contacts", "contactId">>) EXCEPT
    !.guards = Access(<<>>),
    !.may = <<PERMISSION.USERS_USERID_CONTACTS_UPDATE>>,
    !.pipes = {"ContactByUserIdPipe"}, !.docs = {"400", "401", "403"}]
User_deleteContact == [Delete(<<"users", "userId", "contacts", "contactId">>) EXCEPT
    !.guards = Access(<<>>),
    !.may = <<PERMISSION.USERS_USERID_CONTACTS_DELETE>>,
    !.pipes = {"ContactByUserIdPipe"}, !.docs = {"400", "401", "403"}]
User_deleteStudent == [Delete(<<"users", "userId", "student">>) EXCEPT
    !.guards = Access(<<>>), !.may = <<PERMISSION.STUDENTS_DELETE>>,
    !.pipes = {"UserByIdPipe"}, !.docs = {"400", "401", "403"}]
User_updateStudent == [Patch(<<"users", "userId", "student">>) EXCEPT
    !.guards = Access(<<>>),
    !.may = <<PERMISSION.USERS_USERID_STUDENT_UPDATE>>,
    !.pipes = {"UserByIdPipe"}, !.docs = {"400", "401", "403"}]
User_getUserForTelegram == [Get(<<"users", "userId", "telegram">>) EXCEPT
    !.guards = <<"TelegramGuard">>, !.pipes = {"UserByIdPipe"},
    !.docs = {"400", "401"}]
User_getUserByTelegramId == [Get(<<"users", "telegramUser", "telegramId">>) EXCEPT
    !.guards = <<"TelegramGuard">>, !.pipes = {"UserByTelegramIdPipe"},
    !.docs = {"400", "401"}]
User_linkTelegram == [Post(<<"users", "userId", "telegram">>) EXCEPT
    !.guards = Access(<<>>),
    !.may = <<PERMISSION.USERS_USERID_TELEGRAM_LINK>>,
    !.pipes = {"UserByIdPipe"}]
User_getMe == [Get(<<"users", "userId">>) EXCEPT
    !.guards = Access(<<>>), !.may = <<PERMISSION.USERS_USERID_GET>>,
    !.pipes = {"UserByIdPipe"}, !.docs = {"400", "401", "403"}]
User_uploadAvatar == [Patch(<<"users", "userId", "avatar">>) EXCEPT
    !.guards = Access(<<>>), !.may = <<PERMISSION.USERS_USERID_UPDATE>>,
    !.pipes = {"UserByIdPipe", "AvatarValidationPipe"},
    !.docs = {"400", "401", "403", "413"}]
User_deleteAvatar == [Delete(<<"users", "userId", "avatar">>) EXCEPT
    !.guards = Access(<<>>), !.may = <<PERMISSION.USERS_USERID_DELETE>>,
    !.pipes = {"UserByIdPipe"}, !.docs = {"400", "401", "403"}]
User_getRemainingSelective ==
  [Get(<<"users", "userId", "selectiveDisciplines">>) EXCEPT
    !.guards = Access(<<>>),
    !.may = <<PERMISSION.USERS_USERID_SELECTIVE_GET>>,
    !.pipes = {"UserByIdPipe"}, !.docs = {"400", "401", "403"}]
User_attachSelectiveDisciplines ==
  [Post(<<"users", "userId", "selectiveDisciplines">>) EXCEPT
    !.sent = {"disciplineId"}, !.guards = Access(<<>>),
    !.may = <<PERMISSION.USERS_USERID_SELECTIVE_DISCIPLINES>>,
    !.pipes = {"UserByIdPipe", "StudentPipe", "SelectiveDisciplinesPipe"},
    !.docs = {"400", "401", "403"}]
User_detachSelectiveDisciplines ==
  [Delete(<<"users", "userId", "selectiveDisciplines">>) EXCEPT
    !.sent = {"disciplineId"}, !.guards = Access(<<>>),
    !.may = <<PERMISSION.USERS_USERID_SELECTIVE_DISCIPLINES>>,
    !.pipes = {"UserByIdPipe", "StudentPipe", "SelectiveDisciplinesPipe"},
    !.docs = {"400", "401", "403"}]
User_changeGroup == [Patch(<<"users", "userId", "group", "groupId">>) EXCEPT
    !.guards = Access(<<>>), !.may = <<PERMISSION.USERS_GROUPS_SWITCH>>,
    !.pipes = {"UserByIdPipe", "StudentPipe", "GroupByIdPipe"},
    !.docs = {"400", "403"}]

UserController ==
  <<User_verify, User_verifySuperhero, User_requestNewGroup,
    User_createSuperhero, User_getSelective,
    User_getSelectiveBySemesters, User_giveRole, User_removeRole,
    User_deleteUser, User_updateUser, User_getContacts,
    User_createContact, User_updateContact, User_deleteContact,
    User_deleteStudent, User_updateStudent, User_getUserForTelegram,
    User_getUserByTelegramId, User_linkTelegram, User_getMe,
    User_uploadAvatar, User_deleteAvatar, User_getRemainingSelective,
    User_attachSelectiveDisciplines, User_detachSelectiveDisciplines,
    User_changeGroup>>

RoleController ==
  <<Role_getAll, Role_get, Role_createWithGrants, Role_create,
    Role_update, Role_delete, Role_getGrants, Role_createGrants,
    Role_createGrant, Role_updateGrant>>

GrantController ==
  <<Grant_delete>>

AuthController ==
  <<Auth_login, Auth_registerTelegram, Auth_register, Auth_loginTelegram,
    Auth_refresh, Auth_updatePassword, Auth_getMe, Auth_forgotPassword,
    Auth_resetPassword, Auth_requestEmailVerification, Auth_verifyEmail,
    Auth_verifyExistsByUnique, Auth_checkCaptain, Auth_checkResetToken,
    Auth_checkRegisterTelegram>>

\* Variant: the route with a parameter is declared first.
GroupShadowed ==
  <<Group_create, Group_getAll, Group_get, Group_getGroupsWithTelegramGroups,
    Group_update, Group_deleteGroup, Group_getStudents,
    Group_getCaptain, Group_getDisciplineTeachers, Group_getDiscipline,
    Group_addUnregistered, Group_verifyStudent, Group_moderatorSwitch,
    Group_removeStudent, Group_getUnverifiedStudents,
    Group_switchCaptain, Group_getGroupList, Group_leaveGroup>>

GroupController ==
  <<Group_create, Group_getAll, Group_getGroupsWithTelegramGroups,
    Group_get, Group_update, Group_deleteGroup, Group_getStudents,
    Group_getCaptain, Group_getDisciplineTeachers, Group_getDiscipline,
    Group_addUnregistered, Group_verifyStudent, Group_moderatorSwitch,
    Group_removeStudent, Group_getUnverifiedStudents,
    Group_switchCaptain, Group_getGroupList, Group_leaveGroup>>

TeacherController ==
  <<Teacher_getAll, Teacher_getTeacherRoles, Teacher_getSubjects,
    Teacher_getDisciplines, Teacher_getSubject, Teacher_getTeacher,
    Teacher_create, Teacher_update, Teacher_delete,
    Teacher_getAllContacts, Teacher_getContact, Teacher_createContact,
    Teacher_updateContact, Teacher_deleteContact, Teacher_getMarks,
    Teacher_getComments, Teacher_connectCathedra>>

DisciplineTeacherController ==
  <<DisciplineTeacher_getQuestions, DisciplineTeacher_sendAnswers,
    DisciplineTeacher_sendResponse, DisciplineTeacher_create,
    DisciplineTeacher_updateById,
    DisciplineTeacher_updateByTeacherAndDiscipline,
    DisciplineTeacher_deleteById,
    DisciplineTeacher_deleteByTeacherAndDiscipline,
    DisciplineTeacher_removeDisciplineTeacherFromPoll>>

SubjectController ==
  <<Subject_getAll, Subject_get, Subject_getTeachers, Subject_create,
    Subject_update, Subject_delete>>

DisciplineController ==
  <<Discipline_create, Discipline_getAllByDiscipline, Discipline_delete>>

PollController ==
  <<Poll_create, Poll_getPollDisciplineTeachers, Poll_delete,
    Poll_update, Poll_getQuestion, Poll_giveRole, Poll_deleteRole>>

ScheduleController ==
  <<Schedule_parse, Schedule_getGeneralEvents,
    Schedule_getGroupEventsByDay, Schedule_getEvent,
    Schedule_createEvent, Schedule_getGroupEvents, Schedule_deleteEvent,
    Schedule_update, Schedule_getFortnightEvents,
    Schedule_getGroupEventsByWeek, Schedule_createSimpleTelegramEvent>>

ResourceController ==
  <<Resource_getAll, Resource_get, Resource_create, Resource_update,
    Resource_delete>>

CathedraController ==
  <<Cathedra_getAll, Cathedra_create, Cathedra_update, Cathedra_delete>>

DocumentController ==
  <<Document_createContract, Document_generatePriority,
    Document_sendContract, Document_sendPriority>>

EntrantController ==
  <<Entrant_approveContract, Entrant_getEntrantPriority,
    Entrant_approvePriority, Entrant_approvePriorityById,
    Entrant_deleteEntrantData, Entrant_get, Entrant_delete>>

AdmissionController ==
  <<Admission_createQueue, Admission_getQueues, Admission_getQueue,
    Admission_updateQueue, Admission_deleteQueue, Admission_advanceQueue,
    Admission_getQueueUsers, Admission_createQueueUser,
    Admission_removeQueueUser, Admission_updateQueueUser,
    Admission_getQueueUser, Admission_getUsers, Admission_createUser,
    Admission_getUser>>

TelegramGroupController ==
  <<TelegramGroup_create, TelegramGroup_update, TelegramGroup_delete,
    TelegramGroup_getTelegramGroups, TelegramGroup_getGroupsByTelegramId>>

PermissionController ==
  <<Permission_checkPermissions>>

StudentController ==
  <<Student_getAll>>

DateController ==
  <<Date_getPreviousSemesters, Date_getCurrentSemester>>

\* The order in which ApiModule imports the modules, and these list their
\* controllers.
Routes ==
  UserController \o RoleController \o GrantController \o
    AuthController \o GroupController \o TeacherController \o
    DisciplineTeacherController \o SubjectController \o
    DisciplineController \o PollController \o ScheduleController \o
    ResourceController \o CathedraController \o DocumentController \o
    EntrantController \o AdmissionController \o
    TelegramGroupController \o PermissionController \o
    StudentController \o DateController
=============================================================================
