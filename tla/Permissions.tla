---------------------------- MODULE Permissions ----------------------------
(***************************************************************************)
(* The permissions endpoints ask for, the grants of the built-in roles and *)
(* how a grant is matched with a permission: PERMISSION.ts, the list of    *)
(* roles of GroupService, the role AuthService gives to every user and     *)
(* PermissionService.  A permission is the sequence of its segments; one   *)
(* that is written with a dollar stands for a parameter of the request.    *)
(***************************************************************************)
EXTENDS Integers, Sequences, FiniteSets

PERMISSION ==
  [ADMISSION_GET |-> <<"admission", "get">>,
   ADMISSION_DELETE |-> <<"admission", "delete">>,
   ADMISSION_PRIORITIES_GET |-> <<"admission", "priorities", "get">>,
   ADMISSION_PRIORITIES_APPROVE |-> <<"admission", "priorities", "approve">>,
   CATHEDRAS_CREATE |-> <<"cathedras", "create">>,
   CATHEDRAS_UPDATE |-> <<"cathedras", "update">>,
   CATHEDRAS_DELETE |-> <<"cathedras", "delete">>,
   DISCIPLINE_TEACHERS_CREATE |-> <<"disciplineTeachers", "create">>,
   DISCIPLINE_TEACHERS_UPDATE |-> <<"disciplineTeachers", "update">>,
   DISCIPLINE_TEACHERS_DELETE |-> <<"disciplineTeachers", "delete">>,
   DISCIPLINE_DELETE |-> <<"discipline", "delete">>,
   ENTRANT_CONTRACT_CREATE |-> <<"entrant", "contract", "create">>,
   GROUPS_CREATE |-> <<"groups", "create">>,
   GROUPS_UPDATE |-> <<"groups", "update">>,
   GROUPS_DELETE |-> <<"groups", "delete">>,
   GROUPS_GROUPID_ADMIN_SWITCH |-> <<"groups", "groupId", "admin", "switch">>,
   GROUPS_GROUPID_ANSWERS_SEND |-> <<"groups", "groupId", "answers", "send">>,
   GROUPS_GROUPID_CAPTAIN_GET |-> <<"groups", "groupId", "captain", "get">>,
   GROUPS_GROUPID_DISCIPLINES_CREATE |-> <<"groups", "groupId", "disciplines", "create">>,
   GROUPS_GROUPID_DISCIPLINES_GET |-> <<"groups", "groupId", "disciplines", "get">>,
   GROUPS_GROUPID_DISCIPLINES_TEACHERS_GET |-> <<"groups", "groupId", "disciplines", "teachers", "get">>,
   GROUPS_GROUPID_DISCIPLINE_TEACHERS_REMOVE |-> <<"groups", "groupId", "disciplineTeachers", "remove">>,
   GROUPS_GROUPID_EVENTS_CREATE |-> <<"groups", "groupId", "events", "create">>,
   GROUPS_GROUPID_EVENTS_GET |-> <<"groups", "groupId", "events", "get">>,
   GROUPS_GROUPID_EVENTS_UPDATE |-> <<"groups", "groupId", "events", "update">>,
   GROUPS_GROUPID_EVENTS_DELETE |-> <<"groups", "groupId", "events", "delete">>,
   GROUPS_GROUPID_QUESTIONS_GET |-> <<"groups", "groupId", "questions", "get">>,
   GROUPS_GROUPID_STUDENTS_ADD |-> <<"groups", "groupId", "students", "add">>,
   GROUPS_GROUPID_STUDENTS_GET |-> <<"groups", "groupId", "students", "get">>,
   GROUPS_GROUPID_STUDENTS_REMOVE |-> <<"groups", "groupId", "students", "remove">>,
   GROUPS_GROUPID_STUDENTS_VERIFY |-> <<"groups", "groupId", "students", "verify">>,
   GROUPS_GROUPID_STUDENTS_UNVERIFIED_GET |-> <<"groups", "groupId", "students", "unverified", "get">>,
   GROUPS_GROUPID_TRANSFER |-> <<"groups", "groupId", "transfer">>,
   GROUPS_CAPTAIN_SWITCH |-> <<"groups", "captain", "switch">>,
   GROUPS_GROUPID_LIST_GET |-> <<"groups", "groupId", "list", "get">>,
   GROUPS_GROUPID_LEAVE |-> <<"groups", "groupId", "leave">>,
   QUESTIONS_CREATE |-> <<"questions", "create">>,
   QUESTIONS_UPDATE |-> <<"questions", "update">>,
   QUESTIONS_DELETE |-> <<"questions", "delete">>,
   QUESTIONS_ROLES_GIVE |-> <<"questions", "roles", "give">>,
   QUESTIONS_ROLES_DELETE |-> <<"questions", "roles", "delete">>,
   RESOURCES_CREATE |-> <<"resources", "create">>,
   RESOURCES_UPDATE |-> <<"resources", "update">>,
   RESOURCES_DELETE |-> <<"resources", "delete">>,
   ROLES_CREATE |-> <<"roles", "create">>,
   ROLES_ROLEID_UPDATE |-> <<"roles", "update">>,
   ROLES_ROLEID_DELETE |-> <<"roles", "delete">>,
   ROLES_GRANTS_CREATE |-> <<"roles", "grants", "create">>,
   ROLES_ROLEID_GRANT_CREATE |-> <<"roles", "grant", "create">>,
   ROLES_ROLEID_GRANT_UPDATE |-> <<"roles", "grant", "update">>,
   GRANTS_DELETE |-> <<"grants", "delete">>,
   SCHEDULE_PARSE |-> <<"schedule", "parse">>,
   STUDENTS_DELETE |-> <<"students", "delete">>,
   STUDENTS_GET |-> <<"students", "get">>,
   SUBJECTS_CREATE |-> <<"subjects", "create">>,
   SUBJECTS_UPDATE |-> <<"subjects", "update">>,
   SUBJECTS_DELETE |-> <<"subjects", "delete">>,
   USERS_UPDATE |-> <<"users", "update">>,
   USERS_DELETE |-> <<"users", "delete">>,
   USERS_GROUPS_SWITCH |-> <<"users", "groups", "switch">>,
   USERS_USERID_GET |-> <<"users", "userId", "get">>,
   USERS_USERID_UPDATE |-> <<"users", "userId", "update">>,
   USERS_USERID_DELETE |-> <<"users", "userId", "delete">>,
   USERS_USERID_CONTACTS_CREATE |-> <<"users", "userId", "contacts", "create">>,
   USERS_USERID_CONTACTS_UPDATE |-> <<"users", "userId", "contacts", "update">>,
   USERS_USERID_CONTACTS_GET |-> <<"users", "userId", "contacts", "get">>,
   USERS_USERID_CONTACTS_DELETE |-> <<"users", "userId", "contacts", "delete">>,
   USERS_USERID_GROUP_REQUEST |-> <<"users", "userId", "group", "request">>,
   USERS_USERID_POLL_TEACHERS_GET |-> <<"users", "userId", "poll", "teachers", "get">>,
   USERS_USERID_SELECTIVE_GET |-> <<"users", "userId", "selective", "get">>,
   USERS_USERID_SELECTIVE_DISCIPLINES |-> <<"users", "userId", "selectiveDisciplines">>,
   USERS_USERID_SUPERHERO_CREATE |-> <<"users", "userId", "superhero", "create">>,
   USERS_USERID_STUDENT_UPDATE |-> <<"users", "userId", "student", "update">>,
   USERS_USERID_TELEGRAM_LINK |-> <<"users", "userId", "telegram", "link">>,
   USERS_USERID_TEACHERS_TEACHERID_DISCIPLINES_GET |-> <<"users", "userId", "teachers", "teacherId", "disciplines", "get">>,
   TEACHERS_CREATE |-> <<"teachers", "create">>,
   TEACHERS_TEACHERID_UPDATE |-> <<"teachers", "teacherId", "update">>,
   TEACHERS_TEACHERID_DELETE |-> <<"teachers", "teacherId", "delete">>,
   TEACHERS_TEACHERID_CATHEDRAS_UPDATE |-> <<"teachers", "teacherId", "cathedras", "update">>,
   TEACHERS_TEACHERID_CONTACTS_CREATE |-> <<"teachers", "teacherId", "contacts", "create">>,
   TEACHERS_TEACHERID_CONTACTS_UPDATE |-> <<"teachers", "teacherId", "contacts", "update">>,
   TEACHERS_TEACHERID_CONTACTS_DELETE |-> <<"teachers", "teacherId", "contacts", "delete">>]

\* A star stands for one segment, and for all that follow where it is last.
isGrantMatchesPermission(permission, grant) ==
  /\ Len(grant) <= Len(permission)
  /\ \A i \in 1..Len(grant) : grant[i] \in {"*", permission[i]}
  /\ Len(grant) < Len(permission) => grant[Len(grant)] = "*"

Grant(permission, set, weight) ==
  [permission |-> permission, set |-> set, weight |-> weight]

\* The grants of a group's roles, created with the group.
ROLE_LIST(groupId) ==
  [CAPTAIN |-> {Grant(<<"groups", groupId, "*">>, TRUE, 1)},
   MODERATOR |-> {Grant(<<"groups", groupId, "admin", "switch">>, FALSE, 2),
                  Grant(<<"groups", groupId, "*">>, TRUE, 1)},
   STUDENT |-> {Grant(<<"groups", groupId, "admin", "switch">>, FALSE, 2),
                Grant(<<"groups", groupId, "students", "get">>, TRUE, 4),
                Grant(<<"groups", groupId, "students", "*">>, FALSE, 3),
                Grant(<<"groups", groupId, "*">>, TRUE, 1)}]

\* The role of his own every user gets with the account.
UserGrants(userId) == {Grant(<<"users", userId, "*">>, TRUE, 1)}

\* The grants of one role that come first among those that match: ordered by
\* weight, the heavier before; what orders equal weights is the database.
Deciding(grants, permission) ==
  LET matching == {g \in grants : isGrantMatchesPermission(permission, g.permission)}
  IN {g \in matching : \A other \in matching : other.weight <= g.weight}

\* What hasPermission may answer to the holder of these roles.  The roles come
\* in no order, and those of their parents after the answer: the recursion over
\* them is not awaited.
Answers(roles, permission) ==
  LET first == UNION {Deciding(grants, permission) : grants \in roles}
  IN IF first = {} THEN {FALSE} ELSE {g.set : g \in first}
=============================================================================
